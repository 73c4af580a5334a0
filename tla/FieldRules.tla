------------------------------ MODULE FieldRules ------------------------------
(***************************************************************************)
(* The validators of compileInternal that look at one field, extension or   *)
(* message at a time: the types of map keys, what an extension can be, the  *)
(* options that need a type, defaults, and what proto3 lacks.  Types stand  *)
(* for those that the validators treat alike.                               *)
(***************************************************************************)
EXTENDS NameSpaces

TypeOf(d) == CASE d.kind = "map" -> "message" [] d.kind = "group" -> "group" [] OTHER -> d.type
Repeated(d) == d.kind = "map" \/ d.label = "repeated"

FieldsOf(file) == {i \in DOMAIN file.nodes : file.nodes[i].kind \in FieldKinds}
ExtensionsOf(file) == {i \in DOMAIN file.nodes : file.nodes[i].kind = "extension"}
FieldsAndExtensions(file) == FieldsOf(file) \cup ExtensionsOf(file)

-------------------------------------------------------------------------------
(* Phase 1. *)

MapKeyTypes(file) ==
    {i \in FieldsOf(file) :
        file.nodes[i].kind = "map"
        /\ file.nodes[i].key \in {"float", "bytes", "message", "group", "enum"}}

RequiredExtensions(file) == {i \in ExtensionsOf(file) : file.nodes[i].label = "required"}
ExtensionJsonName(file) == {i \in ExtensionsOf(file) : Explicit(file.nodes[i])}

\* The full names of the message sets of all files.
collectMessageSetMsgs(files) ==
    UNION {{Append(Scopes(files[k])[files[k].nodes[i].in], TypeName(files[k].nodes[i])) :
              i \in {j \in Bodies(files[k]) : files[k].nodes[j].messageSet}} : k \in DOMAIN files}

\* Groups are no messages here.
MessageSetExtensions(files, k) ==
    {i \in ExtensionsOf(files[k]) :
        LET d == files[k].nodes[i]
        IN  /\ d.extendee \in collectMessageSetMsgs(files)
            /\ TypeOf(d) # "message" \/ d.label # "singular"}

-------------------------------------------------------------------------------
(* Phase 2: options and defaults. *)

isPackableType(type) == type \in {"int32", "int64", "float", "enum"}

PackedNonRepeated(file) ==
    {i \in FieldsAndExtensions(file) :
        LET d == file.nodes[i]
        IN  "packed" \in d.options /\ ~(Repeated(d) /\ isPackableType(TypeOf(d)))}

LazyNonMessage(file) ==
    {i \in FieldsAndExtensions(file) :
        "lazy" \in file.nodes[i].options /\ TypeOf(file.nodes[i]) \notin {"message", "group"}}

isJstypeAllowedType(type) == type = "int64"

JstypeNonInt64(file) ==
    {i \in FieldsAndExtensions(file) :
        "jstype" \in file.nodes[i].options /\ ~isJstypeAllowedType(TypeOf(file.nodes[i]))}

HasDefault(d) == d.default # <<>>

\* The defaults of extensions are not looked at, by any of these.
RepeatedDefault(file) ==
    {i \in FieldsOf(file) : HasDefault(file.nodes[i]) /\ Repeated(file.nodes[i])}

MessageDefault(file) ==
    {i \in FieldsOf(file) : HasDefault(file.nodes[i]) /\ TypeOf(file.nodes[i]) \in {"message", "group"}}

\* The values of the enums of all files by full name.
collectEnumValueNames(files, enum) ==
    UNION {UNION {{files[k].nodes[v].name : v \in Range(Of(files[k], e, {"value"}))} :
              e \in {i \in EnumsOf(files[k]) :
                       Append(Scopes(files[k])[files[k].nodes[i].in], files[k].nodes[i].name) = enum}} :
              k \in DOMAIN files}

\* The default of an enum field is the name of a value of its enum.
EnumDefaultValues(files, k) ==
    {i \in FieldsOf(files[k]) :
        LET d == files[k].nodes[i]
        IN  /\ TypeOf(d) = "enum" /\ HasDefault(d)
            /\ d.default \notin collectEnumValueNames(files, d.enum)}

-------------------------------------------------------------------------------
(* validateProto3.  An enum and an extension do not ask where they are. *)

\* allowedProto3Extendee: the messages of options.
OptionMessage == <<<<"google">>, <<"Options">>>>

Proto3Extend(file) == {i \in ExtensionsOf(file) : file.nodes[i].extendee # OptionMessage}
Proto3MessageSet(file) ==
    {i \in Bodies(file) : file.nodes[i].messageSet \/ file.nodes[i].ranges}
Proto3Group(file) == {i \in FieldsOf(file) : file.nodes[i].kind = "group"}
Proto3Required(file) == {i \in FieldsOf(file) : file.nodes[i].label = "required"}
Proto3Default(file) == {i \in FieldsOf(file) : HasDefault(file.nodes[i])}

\* The enums whose first value is not zero.
NonZero(file) ==
    LET values(e) == Of(file, e, {"value"})
    IN  {e \in EnumsOf(file) : values(e) # <<>> /\ file.nodes[values(e)[1]].number # 0}

Proto3(file) ==
    IF file.syntax # "proto3" THEN {}
    ELSE Proto3Extend(file) \cup Proto3MessageSet(file) \cup Proto3Group(file)
           \cup Proto3Required(file) \cup Proto3Default(file) \cup NonZero(file)
===============================================================================
