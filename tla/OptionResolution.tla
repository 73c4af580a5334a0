--------------------------- MODULE OptionResolution ---------------------------
(***************************************************************************)
(* The nine resolvers of custom options, which compileInternal runs in     *)
(* turn over the statements the parser has left, each over all files and   *)
(* each only if those before it found no error.  A resolver finds the      *)
(* extension a statement names, checks and encodes the value, appends the  *)
(* bytes to the unknown fields of the options of the element, and puts     *)
(* field numbers into the path of the statement's source location.         *)
(*                                                                         *)
(* A job is a pool (see OptionValues) and the places of options in files.  The       *)
(* extendee of an extension of the options of a kind of element is named   *)
(* by that kind, the one of FeatureSet "features".                         *)
(***************************************************************************)
EXTENDS OptionStatements

VARIABLES
    pass,           \* the resolver that runs, an index of Kinds
    at,             \* the statement it is at, among those of its kind
    errors,         \* the statements refused: <<index, class>>
    seen,           \* seenCustomOpts and its like: <<element, name as written>>
    repeatIdx,      \* how often a repeated extension has been set, where counted
    subPathIdx,     \* the same for the repeated fields on sub-paths
    unknown,        \* the bytes appended, by element and whether to its features
    located         \* the path of each statement's location, from its options on

resolveVars == <<pass, at, errors, seen, repeatIdx, subPathIdx, unknown, located>>
vars == <<job, parseVars, resolveVars>>

Kinds == <<"file", "field", "message", "service", "method", "enum", "enum value", "oneof",
           "extension range">>

Targets(j) == UNION {j.places[i].elements \X BOOLEAN : i \in DOMAIN j.places}

Init ==
    /\ InitParser
    /\ pass = 1 /\ at = 1
    /\ errors = {} /\ seen = {}
    /\ repeatIdx = <<>> /\ subPathIdx = <<>>
    /\ unknown = [t \in Targets(job) |-> <<>>]
    /\ located = <<>>

\* The statements of the kind whose turn it is, file by file.
OfKind(k) ==
    FlattenSeq([f \in DOMAIN job.packages |->
        SelectSeq([i \in DOMAIN statements |-> i],
                  LAMBDA i : statements[i].kind = k /\ statements[i].file = f)])
Pending == OfKind(Kinds[pass])
Current == Pending[at]
TheStatement == statements[Current]
Package(s) == job.packages[s.file]

-------------------------------------------------------------------------------
(* Names. *)

\* The name an extension is collected under.  Except for those of FeatureSet, one in
\* a message of a file without a package gets a leading dot.
CollectedName(e, k) ==
    IF k # "features" /\ e.package = <<>> /\ e.within # <<>>
    THEN <<"">> \o FullName(e)
    ELSE FullName(e)

\* The first of the collected extensions that has the name.
Collected(p, k, name) ==
    LET at_ == {i \in DOMAIN p.extensions : /\ p.extensions[i].extendee = <<k>>
                                            /\ CollectedName(p.extensions[i], k) = name}
    IN  IF at_ = {} THEN NoField ELSE p.extensions[Min(at_)].field

\* The scopes of a relative name, as the length of what they keep of the innermost.
Innermost(scope, name, Found(_)) ==
    LET hits == {n \in 0 .. Len(scope) : Found(SubSeq(scope, 1, n) \o name) # NoField}
    IN  IF hits = {} THEN NoField ELSE Found(SubSeq(scope, 1, Max(hits)) \o name)

\* findFileOptionExtension
findExtension(p, k, s, scope) ==
    LET Found(name) == Collected(p, k, name)
    IN  IF s.absolute THEN Found(s.name) ELSE Innermost(scope, s.name, Found)

\* lookupOptionSegment: a field, or in parentheses an extension, of a message type.
lookupOptionSegment(p, type, seg, scope) ==
    LET Found(name) == ExtensionNamed(p, type, name)
    IN  IF ~seg.paren THEN FieldNamed(p, type, seg.name[1])
        ELSE IF seg.absolute THEN Found(seg.name) ELSE Innermost(scope, seg.name, Found)

\* The fields a sub-path goes through; NoField from where it is not known.
SubFields(f, s) ==
    FoldLeft(LAMBDA reached, seg :
                 Append(reached, lookupOptionSegment(job.pool,
                                     (IF reached = <<>> THEN f ELSE Last(reached)).of,
                                     seg, Package(s))),
             <<>>, s.path)

-------------------------------------------------------------------------------
(* Checks. *)

\* A scalar without a sub-path is checked before it is encoded.
IsScalar(s) == ~s.aggregate /\ s.path = <<>>
IsWord(lit, words) == lit.token = "ident" /\ lit.minus = 0 /\ lit.w \in words

\* The checks of a type.  Each resolver has them in its own order, but a type has
\* only one that can fail.
IllTyped(f, s) ==
    CASE f.type = "bool" -> ~IsWord(s.lit, {"true", "false"})
      [] f.type = "enum" -> s.lit.token # "ident"
      [] f.type \in Strings -> s.lit.token # "string"
      [] f.type \in Floats -> s.lit.token = "ident" /\ s.lit.w \notin {"inf", "nan"}
      [] OTHER -> checkIntRangeOption(f, [s.lit EXCEPT !.minus = @ + IF s.negative THEN 1 ELSE 0])

\* checkOptionTargets
OffTarget(f, k) == f.targets # {} /\ k \notin f.targets

\* An option is set once for each way to write its name.
Spelling(s) == <<s.features, s.absolute, s.name>>
Once(f, s) == ~f.repeated /\ s.path = <<>>
\* Mutant: one set of names for all elements, as it would do for a file.
KeysOfFile(s) == {s.file} \X {Spelling(s)}
Keys(s) == s.elements \X {Spelling(s)}

Refusal(f, s) ==
    CASE f = NoField -> "unknown"
      [] OffTarget(f, s.kind) -> "target"
      [] Once(f, s) /\ Keys(s) \cap seen # {} -> "already set"
      [] IsScalar(s) /\ IllTyped(f, s) -> "value"
      [] s.path # <<>> /\ f.type \notin Submessages -> "atomic"
      [] s.path # <<>> /\ Last(SubFields(f, s)) = NoField -> "unknown"
      [] OTHER -> ""

-------------------------------------------------------------------------------
(* Encoding. *)

\* The value of the field f, or of the leaf of a sub-path.
ValueBytes(f, s, lit) ==
    IF s.aggregate THEN encodeAggregateOption(job.pool, f, s.fields)
    ELSE encodeCustomOptionValue(job.pool, f, lit)

\* Mutant: the messages on the way are left out.
WrappedOnce(f, s, leaf) ==
    IF leaf.error # "" THEN leaf ELSE Wrote(appendSubmessage(f, leaf.out))

\* The value of a leaf, in the messages on the way to it, in the extension.
Wrapped(f, s, leaf) ==
    LET fields == <<f>> \o Front(SubFields(f, s))
    IN  IF leaf.error # "" THEN leaf
        ELSE Wrote(FoldRight(appendSubmessage, fields, leaf.out))

\* The sign, where it is not yet in the text.
Prefixed(s) == [s.lit EXCEPT !.minus = IF s.negative THEN 1 ELSE 0]

Bytes(f, s) ==
    IF s.path = <<>> THEN ValueBytes(f, s, s.lit)
    ELSE Wrapped(f, s, ValueBytes(Last(SubFields(f, s)), s, s.lit))

-------------------------------------------------------------------------------
(* Locations. *)

Count(counters, key) == IF key \in DOMAIN counters THEN counters[key] ELSE 0
Bumped(counters, key) == (key :> (Count(counters, key) + 1)) @@ counters

\* The location so far, and the counters used for it.
Location(path, repeats, subs) == [path |-> path, repeats |-> repeats, subs |-> subs]

\* The numbers alone.
NumbersOf(f, s) == <<f.number>> \o [i \in DOMAIN s.path |-> SubFields(f, s)[i].number]

\* The number of the extension, and which of its values this is.
\* Mutant: values are not counted.
Uncounted(f, key) ==
    Location(IF f.repeated THEN <<f.number, 0>> ELSE <<f.number>>, repeatIdx, subPathIdx)
Indexed(f, key) ==
    IF f.repeated
    THEN Location(<<f.number, Count(repeatIdx, key)>>, Bumped(repeatIdx, key), subPathIdx)
    ELSE Location(<<f.number>>, repeatIdx, subPathIdx)

Bare(f) == Location(<<f.number>>, repeatIdx, subPathIdx)

\* subPathSourceLocation: the sub-path, with the index of each repeated field on it.
subPathSourceLocation(loc, f, s) ==
    FoldLeft(LAMBDA l, sub :
                 LET path == Append(l.path, sub.number)
                     key == <<s.elements, s.features, path>>
                 IN  IF sub.repeated
                     THEN Location(Append(path, Count(l.subs, key)), l.repeats, Bumped(l.subs, key))
                     ELSE Location(path, l.repeats, l.subs),
             loc, SubFields(f, s))

-------------------------------------------------------------------------------
(* The resolvers. *)

\* One statement, for which the extension f has been found.  What a refused
\* statement leaves in counters and locations is not kept: nothing is output then.
Settle(s, f, refusal, location, bytes) ==
    LET refused == IF refusal # "" THEN refusal ELSE bytes.error
    IN  /\ at' = at + 1
        /\ seen' = IF Once(f, s) /\ refusal \notin {"unknown", "target", "already set"}
                   THEN seen \cup Keys(s) ELSE seen
        /\ IF refused # ""
           THEN /\ errors' = errors \cup {<<Current, refused>>}
                /\ UNCHANGED <<repeatIdx, subPathIdx, unknown, located>>
           ELSE /\ unknown' = [t \in DOMAIN unknown |->
                                   IF t \in s.elements \X {s.features}
                                   THEN unknown[t] \o bytes.out ELSE unknown[t]]
                /\ located' = (Current :> location.path) @@ located
                /\ repeatIdx' = location.repeats
                /\ subPathIdx' = location.subs
                /\ UNCHANGED errors
        /\ UNCHANGED <<job, parseVars, pass>>

Resolve(f, location, bytes) == Settle(TheStatement, f, Refusal(f, TheStatement), location, bytes)

Turn(k) == Parsed /\ pass <= Len(Kinds) /\ Kinds[pass] = k /\ at <= Len(Pending)

\* On a file: the sign is put in front here, an aggregate is not taken at the end of
\* a sub-path, and only bare repeated extensions are counted.
FileBytes(f, s) ==
    IF s.path = <<>> THEN ValueBytes(f, s, Prefixed(s))
    ELSE Wrapped(f, s, encodeCustomOptionValue(job.pool, Last(SubFields(f, s)), Prefixed(s)))

ResolveCustomFileOption ==
    /\ Turn("file")
    /\ LET s == TheStatement
           f == findExtension(job.pool, "file", s, Package(s))
       IN  Resolve(f,
                   IF s.path = <<>> THEN Indexed(f, <<s.elements, f.number>>)
                   ELSE [Bare(f) EXCEPT !.path = NumbersOf(f, s)],
                   FileBytes(f, s))

\* On a field: of the options or of the features in them, and repeated extensions
\* are counted with and without a sub-path.
FieldBytes(f, s) == Bytes(f, s)

ResolveCustomFieldOption ==
    /\ Turn("field")
    /\ LET s == TheStatement
           f == findExtension(job.pool, IF s.features THEN "features" ELSE "field", s, Package(s))
       IN  Resolve(f,
                   subPathSourceLocation(Indexed(f, <<s.elements, f.number>>), f, s),
                   FieldBytes(f, s))

\* On a message: names are looked up from inside the message.
MessageBytes(f, s) == Bytes(f, s)

ResolveCustomMessageOption ==
    /\ Turn("message")
    /\ LET s == TheStatement
           f == findExtension(job.pool, IF s.features THEN "features" ELSE "message", s,
                              Package(s) \o s.within)
       IN  Resolve(f, subPathSourceLocation(Bare(f), f, s), MessageBytes(f, s))

\* On services, methods, enums, their values and oneofs.
ResolveOn(k, Encode(_, _)) ==
    /\ Turn(k)
    /\ LET s == TheStatement
           f == findExtension(job.pool, k, s, Package(s))
       IN  Resolve(f, subPathSourceLocation(Bare(f), f, s), Encode(f, s))

ServiceBytes(f, s) == Bytes(f, s)
ResolveCustomServiceOption == ResolveOn("service", ServiceBytes)

MethodBytes(f, s) == Bytes(f, s)
ResolveCustomMethodOption == ResolveOn("method", MethodBytes)

EnumBytes(f, s) == Bytes(f, s)
ResolveCustomEnumOption == ResolveOn("enum", EnumBytes)

EnumValueBytes(f, s) == Bytes(f, s)
ResolveCustomEnumValueOption == ResolveOn("enum value", EnumValueBytes)

OneofBytes(f, s) == Bytes(f, s)
ResolveCustomOneofOption == ResolveOn("oneof", OneofBytes)

\* On the ranges of one extensions statement: all of them get the bytes, the sign is
\* put in front here, and nothing is counted.  (The messages on the way are looked up
\* as fields only; no segment is in parentheses here.)
ExtRangeBytes(f, s) ==
    IF s.path = <<>> THEN ValueBytes(f, s, Prefixed(s))
    ELSE Wrapped(f, s, ValueBytes(Last(SubFields(f, s)), s, Prefixed(s)))

ResolveCustomExtRangeOption ==
    /\ Turn("extension range")
    /\ LET s == TheStatement
           f == findExtension(job.pool, "extension range", s, Package(s))
       IN  Resolve(f, [Bare(f) EXCEPT !.path = NumbersOf(f, s)],
                   ExtRangeBytes(f, s))

\* compileInternal goes on to the next resolver unless this one found errors.
NextResolver ==
    /\ Parsed /\ pass <= Len(Kinds) /\ at > Len(Pending) /\ errors = {}
    /\ pass' = pass + 1 /\ at' = 1
    /\ UNCHANGED <<job, parseVars, errors, seen, repeatIdx, subPathIdx, unknown, located>>

Done ==
    \/ ~Parsing /\ syntax # {}
    \/ Parsed /\ IF pass <= Len(Kinds) THEN at > Len(Pending) /\ errors # {} ELSE TRUE
Resolved == pass > Len(Kinds)

\* compileInternal runs the resolvers if there have been no errors in the parser.
Next ==
    \/ ParserNext /\ UNCHANGED <<job, resolveVars>>
    \/ ResolveCustomFileOption \/ ResolveCustomFieldOption \/ ResolveCustomMessageOption
    \/ ResolveCustomServiceOption \/ ResolveCustomMethodOption \/ ResolveCustomEnumOption
    \/ ResolveCustomEnumValueOption \/ ResolveCustomOneofOption \/ ResolveCustomExtRangeOption
    \/ NextResolver
===============================================================================
