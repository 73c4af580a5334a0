------------------------------- MODULE Features -------------------------------
(***************************************************************************)
(* The features of editions: where compileInternal lets a file set them,    *)
(* and what --edition_defaults_out writes of their defaults.  A declaration *)
(* carries the features it sets, a function from their names to values; a   *)
(* feature carries its defaults by edition and the editions it can be set   *)
(* in.  Editions are numbers.                                               *)
(***************************************************************************)
EXTENDS FieldRules

Feature == {"field_presence", "enum_type", "repeated_field_encoding",
            "utf8_validation", "message_encoding", "json_format"}

Sets(d, feature) == feature \in DOMAIN d.features

\* What parsing and resolution leave in the declarations of a file: the type of an enum
\* field is resolved to the full name of its enum, and that of a message field likewise, only
\* fields and extensions have labels, and only messages and groups options of messages and
\* extension ranges.
DeclarationKinds ==
    FieldKinds \cup {"extension", "message", "enum", "value", "oneof", "service", "method"}
FieldTypes == {"int32", "int64", "float", "string", "bytes", "message", "enum"}
IsDescribed(file) ==
    /\ file.syntax \in {"proto2", "proto3", "editions"}
    /\ file.package \in Seq(Range(file.package))
    /\ \A d \in Range(file.nodes) :
          /\ d.kind \in DeclarationKinds /\ d.type \in FieldTypes /\ d.key \in FieldTypes
          /\ DOMAIN d.features \subseteq Feature
          /\ d.label = "required" => d.kind \in FieldKinds \cup {"extension"}
          /\ d.messageSet \/ d.ranges => d.kind \in {"message", "group"}
          /\ d.type = "enum" => d.enum # <<>> /\ d.enum \in Seq(Range(d.enum))
          /\ d.type = "message" => d.message # <<>> /\ d.message \in Seq(Range(d.message))

-------------------------------------------------------------------------------
(* Validators. *)

\* validateFeatureTargets: what each kind of declaration must not set.
Misplaced(kind) ==
    CASE kind = "message" -> Feature \ {"json_format"}
      [] kind = "enum" -> Feature \ {"enum_type", "json_format"}
      [] kind \in FieldKinds \cup {"extension"} -> {"enum_type", "json_format"}
      [] OTHER -> Feature

FeatureTargetErrors(file) ==
    {i \in DOMAIN file.nodes :
        Misplaced(file.nodes[i].kind) \cap DOMAIN file.nodes[i].features # {}}

\* validateFeaturesEditions.
FeaturesEditionsErrors(file) ==
    IF file.syntax = "editions" THEN {}
    ELSE {i \in DOMAIN file.nodes : file.nodes[i].features # <<>>}
           \cup {i \in {0} : file.features # <<>>}

\* Mutant: the file is not asked.
isEnumOpenByItself(file, d) ==
    IF Sets(d, "enum_type") THEN d.features["enum_type"] = "OPEN" ELSE TRUE

isEnumOpen(file, d) ==
    IF Sets(d, "enum_type") THEN d.features["enum_type"] = "OPEN"
    ELSE IF Sets(file, "enum_type") THEN file.features["enum_type"] = "OPEN"
    ELSE TRUE

\* The enums that are open and do not start at zero.
EditionOpenEnumZero(file) ==
    {e \in NonZero(file) : file.syntax = "editions" /\ isEnumOpen(file, file.nodes[e])}

\* The validators of editions for fields.  A map counts as repeated, and as no message;
\* groups are found in messages only.
SettingFields(file, feature) ==
    {i \in FieldsAndExtensions(file) : file.syntax = "editions" /\ Sets(file.nodes[i], feature)}

EditionGroups(file) ==
    {i \in DOMAIN file.nodes : file.syntax = "editions" /\ file.nodes[i].kind = "group"}
RepeatedFieldEncoding(file) ==
    {i \in SettingFields(file, "repeated_field_encoding") : ~Repeated(file.nodes[i])}
FieldPresenceRepeated(file) ==
    {i \in SettingFields(file, "field_presence") : Repeated(file.nodes[i])}
FieldPresenceOneof(file) ==
    {i \in SettingFields(file, "field_presence") : file.nodes[i].oneof # 0}

\* A field of a message is taken for a map by the last part of the name of its type alone:
\* if a map beside it has made an entry type of that name.
LastPart(d) == IF d.kind = "map" THEN TypeName(d) ELSE Last(d.message)
mapEntryNames(file, m) ==
    {TypeName(file.nodes[i]) :
        i \in {j \in DOMAIN file.nodes : file.nodes[j].kind = "map" /\ file.nodes[j].in = m}}
isMap(file, d) ==
    d.kind \in FieldKinds /\ TypeOf(d) = "message" /\ LastPart(d) \in mapEntryNames(file, d.in)
MessageEncodingScalar(file) ==
    {i \in SettingFields(file, "message_encoding") :
        LET d == file.nodes[i] IN isMap(file, d) \/ TypeOf(d) \notin {"message", "group"}}

Required(d) == d.features["field_presence"] = "LEGACY_REQUIRED"
FieldPresenceExtension(file) ==
    {i \in SettingFields(file, "field_presence") :
        file.nodes[i].kind = "extension" /\ ~Required(file.nodes[i])}
RequiredExtensionEditions(file) ==
    {i \in SettingFields(file, "field_presence") :
        file.nodes[i].kind = "extension" /\ Required(file.nodes[i])}
Utf8ValidationNonString(file) ==
    {i \in SettingFields(file, "utf8_validation") :
        TypeOf(file.nodes[i]) # "string"}

\* 0 is the file.
FileLevelLegacyRequired(file) ==
    {i \in {0} : /\ file.syntax = "editions"
                 /\ Sets(file, "field_presence") /\ Required(file)}

-------------------------------------------------------------------------------
(* Defaults.  A feature is [number, type, defaults, introduced, removed], where type is *)
(* a set of enum values, or {} for a bool; an edition of 0 is not given.               *)

IsPool(pool) ==
    /\ IsFiniteSet(pool.features) /\ pool.maximum \in Int
    /\ \A x \in pool.features :
          /\ x.defaults \in Seq(Range(x.defaults))
          /\ \A d \in Range(x.defaults) : d.edition \in Int

\* Mutant: the list starts at the minimum.
EditionsFromMinimum(features, minimum, maximum) ==
    LET editions == {d.edition : d \in UNION {Range(x.defaults) : x \in features}}
    IN  Ascending({e \in editions : minimum <= e /\ e <= maximum})

\* featureEditions: the editions some default starts at; the minimum does not trim them.
featureEditions(features, minimum, maximum) ==
    LET editions == {d.edition : d \in UNION {Range(x.defaults) : x \in features}}
    IN  Ascending({e \in editions : e <= maximum})

\* The first of the newest defaults at or before the edition; 0 if there is none.
latestDefault(defaults, edition) ==
    LET Better(best, k) ==
            IF /\ defaults[k].edition <= edition
               /\ best = 0 \/ defaults[best].edition < defaults[k].edition
            THEN k ELSE best
    IN  FoldLeft(Better, 0, [k \in DOMAIN defaults |-> k])

Defaulted(features, edition) == {x \in features : latestDefault(x.defaults, edition) # 0}

DefaultValue(x, edition) == x.defaults[latestDefault(x.defaults, edition)].value

isOverridable(x, edition) ==
    /\ x.introduced # 0 => x.introduced <= edition
    /\ x.removed # 0 => edition < x.removed

\* A value that no enum value is named by is an error; a word that is not true is false.
IsEncodable(x, edition) == x.type # {} => DefaultValue(x, edition) \in x.type
Encoded(x, edition) ==
    [number |-> x.number,
     value |-> IF x.type # {} \/ DefaultValue(x, edition) = "true"
               THEN DefaultValue(x, edition) ELSE "false"]

\* featureSetsFor, which writeEditionDefaults makes an entry of.
Entry(features, edition) ==
    LET some == Defaulted(features, edition)
        free == {x \in some : isOverridable(x, edition)}
    IN  [edition |-> edition,
         overridable |-> {Encoded(x, edition) : x \in free},
         fixed |-> {Encoded(x, edition) : x \in some \ free}]
===============================================================================
