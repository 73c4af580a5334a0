----------------------------- MODULE CustomOptions ----------------------------
(***************************************************************************)
(* Custom options from the text to the descriptors put out, and what they  *)
(* are to mean: each element's options are a message, whose value is read  *)
(* off the statements on it, without regard to encodings, fragments or the *)
(* order of fields, and again off the bytes.                               *)
(*                                                                         *)
(* With its tokens, a job holds what they say: whether they are            *)
(* grammatical, and if so the custom option statements and the settings of *)
(* built-in options in them, as they are written.                          *)
(***************************************************************************)
EXTENDS OptionOutput

Terminated ==
    /\ (Done /\ ~Resolved) \/ stage = "built" \/ Hung
    /\ UNCHANGED <<vars, outputVars>>

specVars == <<vars, outputVars>>
SpecInit == Init /\ InitOutput
SpecNext == (Next /\ UNCHANGED outputVars) \/ NextOutput \/ Terminated
Spec == SpecInit /\ [][SpecNext]_specVars

-------------------------------------------------------------------------------
(* Messages.  An assignment of a value to a field is a scalar, an int or a text,   *)
(* or a sequence of assignments.  A message maps the numbers set to their values.  *)

Assign(f, int, text, sub) == [field |-> f, int |-> int, text |-> text, sub |-> sub]

RECURSIVE Message(_)
Message(assigned) ==
    LET To(n) == SelectSeq(assigned, LAMBDA a : a.field.number = n)
        Value(a) == [int |-> a.int, text |-> a.text, sub |-> Message(a.sub)]
        Merged(as) == [Last(as) EXCEPT !.sub = FlattenSeq([i \in DOMAIN as |-> as[i].sub])]
    IN  [n \in {assigned[i].field.number : i \in DOMAIN assigned} |->
            IF To(n)[1].field.repeated THEN [i \in DOMAIN To(n) |-> Value(To(n)[i])]
            ELSE <<Value(Merged(To(n)))>>]

\* The integer a record of the wire stands for.
FromBits(x, w) == IF x >= 2 ^ (w - 1) THEN x - 2 ^ w ELSE x
FromWire(f, x) ==
    CASE f.type \in ZigZags -> IF x % 2 = 0 THEN x \div 2 ELSE -((x + 1) \div 2)
      [] f.type = "sfixed32" -> FromBits(x, Narrow)
      [] f.type \in {"int32", "int64", "sfixed64", "enum"} -> FromBits(x, Wide)
      [] OTHER -> x

\* The assignments in encoded fields.  The reader takes the extensions of a MessageSet
\* as items and as fields, and knows what job.pool.any holds.
RECURSIVE Read(_, _)
Read(type, stream) ==
    LET Item(r) == type \in job.pool.sets /\ r.number = 1
        Field(r) == FieldNumbered(job.pool, type, IF Item(r) THEN r.body[1].int ELSE r.number)
        Body(r) == IF Item(r) THEN r.body[2].body ELSE r.body
        TypeOf(r) == IF type = job.pool.any /\ r.number = 2 THEN job.pool.packed ELSE Field(r).of
    IN  [i \in DOMAIN stream |->
            LET r == stream[i]
            IN  Assign(Field(r), FromWire(Field(r), r.int), r.text, Read(TypeOf(r), Body(r)))]

-------------------------------------------------------------------------------
(* What statements mean. *)

\* The scalar a literal stands for, as a set of one, or of none if it stands for none.
Scalar(f, lit) ==
    CASE f.type \in Integral -> IF IsNumber(lit) /\ Number(lit) \in RangeOf(f.type)
                                   /\ (f.type \in Unsigned => lit.minus = 0)
                                THEN {Assign(f, Number(lit), NoText, <<>>)} ELSE {}
      [] f.type = "bool" ->
             LET is == {b \in {0, 1} : lit.minus = 0 /\ IF IsNumber(lit) THEN lit.n = b
                            ELSE lit.w \in IF b = 1 THEN {"true", "True", "t"}
                                                    ELSE {"false", "False", "f"}}
             IN  {Assign(f, b, NoText, <<>>) : b \in is}
      [] f.type = "enum" ->
             IF IsNumber(lit) /\ Number(lit) \in RangeOf("int32")
             THEN {Assign(f, Number(lit), NoText, <<>>)}
             ELSE {Assign(f, job.pool.enums[f.of][w], NoText, <<>>) :
                      w \in {w \in DOMAIN job.pool.enums[f.of] : lit.minus = 0 /\ w = lit.w}}
      [] f.type \in Floats ->
             CASE lit.token = "string" -> {}
               [] lit.w \in {"nan", "NaN"} -> {Assign(f, 0, <<0, 0, "nan">>, <<>>)}
               [] lit.w \in {"inf", "Inf"} -> {Assign(f, 0, <<lit.minus, 0, "inf">>, <<>>)}
               [] lit.w \in {"", "frac"} -> {Assign(f, 0, <<lit.minus, lit.n, lit.w>>, <<>>)}
               [] OTHER -> {}
      [] f.type \in Strings ->
             IF lit.token = "string" THEN {Assign(f, 0, <<lit.minus, lit.n, lit.w>>, <<>>)} ELSE {}
      [] OTHER -> {}

\* The assignments a message literal stands for, as a set of one or none.
RECURSIVE Literal(_, _)
Entry(type, e) ==
    LET f == IF e.extension THEN ExtensionNamed(job.pool, type, e.name)
             ELSE FieldNamed(job.pool, type, e.name[1])
        url == FieldNamed(job.pool, type, "type_url")
        value == FieldNamed(job.pool, type, "value")
    IN  IF e.trailing THEN {}
        ELSE IF e.url THEN
             IF type = job.pool.any
             THEN {<<Assign(url, 0, <<0, 0, "url">>, <<>>), Assign(value, 0, NoText, sub)>> :
                      sub \in Literal(e.name, e.fields)}
             ELSE {}
        ELSE IF f = NoField THEN {}
        ELSE IF e.literal
             THEN IF f.type \in Submessages
                  THEN {<<Assign(f, 0, NoText, sub)>> : sub \in Literal(f.of, e.fields)} ELSE {}
        ELSE IF e.positive THEN {} ELSE {<<a>> : a \in Scalar(f, e.lit)}
Literal(type, entries) ==
    LET Singular(e) == ~e.url /\ (IF e.extension THEN ExtensionNamed(job.pool, type, e.name)
                                  ELSE FieldNamed(job.pool, type, e.name[1])).repeated = FALSE
        Twice == \E i, j \in DOMAIN entries : i < j /\ entries[i].name = entries[j].name
                                              /\ Singular(entries[i])
    IN  IF type \notin DOMAIN job.pool.messages \/ Twice THEN {}
        ELSE IF \E i \in DOMAIN entries : Entry(type, entries[i]) = {} THEN {}
        ELSE {FlattenSeq([i \in DOMAIN entries |-> CHOOSE a \in Entry(type, entries[i]) : TRUE])}

\* The extension a statement names: the innermost one of that name.
Named(s) ==
    LET owner == <<IF s.features THEN "features" ELSE s.kind>>
        scope == Package(s) \o s.within
        Found(name) == ExtensionNamed(job.pool, owner, name)
    IN  IF s.absolute THEN Found(s.name) ELSE Innermost(scope, s.name, Found)

\* The leaf its sub-path leads to.
Leaf(f, s) == IF s.path = <<>> THEN f ELSE Last(SubFields(f, s))

\* The value of the leaf.  A scalar option is not as free as a scalar in a literal.
LeafValues(f, s) ==
    IF s.aggregate
    THEN IF f.type \in Submessages
         THEN {Assign(f, 0, NoText, sub) : sub \in Literal(f.of, s.fields)} ELSE {}
    ELSE IF s.path = <<>> /\ \/ f.type = "bool" /\ ~(s.lit.token = "ident" /\ s.lit.w \in {"true", "false"})
                             \/ f.type = "enum" /\ s.lit.token # "ident"
                             \/ f.type \in Floats /\ s.lit.token = "ident"
                                                  /\ s.lit.w \notin {"inf", "nan"}
    THEN {}
    ELSE Scalar(f, [s.lit EXCEPT !.minus = IF s.negative THEN 1 ELSE 0])

\* What a statement assigns, as a set of one or none.
Denoted(s) ==
    LET f == Named(s)
        inside == <<f>> \o Front(SubFields(f, s))
    IN  IF f = NoField \/ OffTarget(f, s.kind) \/ (s.path # <<>> /\ f.type \notin Submessages)
           \/ Leaf(f, s) = NoField
        THEN {}
        ELSE IF s.path = <<>> THEN LeafValues(f, s)
        ELSE {FoldRight(LAMBDA g, a : Assign(g, 0, NoText, <<a>>), inside, v) :
                 v \in LeafValues(Leaf(f, s), s)}

\* Another statement before the i-th has set the same, spelled the same.
SetBefore(i) ==
    LET s == job.statements[i]
    IN  \E k \in 1 .. i - 1 :
            LET t == job.statements[k]
            IN  /\ t.elements \cap s.elements # {} /\ Spelling(t) = Spelling(s)
                /\ ~Named(s).repeated /\ t.path = <<>> /\ s.path = <<>>
                /\ ~OffTarget(Named(t), t.kind)

WellFormed(i) == Denoted(job.statements[i]) # {} /\ ~SetBefore(i)

\* What the compiler does not take, although it means something: an extension declared
\* in a message of a file without a package; on a file, a message literal at the end
\* of a sub-path; an empty literal in a literal; an Any that is the option itself.
RECURSIVE HasEmpty(_)
HasEmpty(entries) == \E i \in DOMAIN entries :
                         entries[i].literal /\ (entries[i].fields = <<>> \/ HasEmpty(entries[i].fields))
Hidden(s) ==
    \E i \in DOMAIN job.pool.extensions :
        LET e == job.pool.extensions[i]
        IN  e.field = Named(s) /\ e.package = <<>> /\ e.within # <<>> /\ ~s.features
NotTaken(s) ==
    \/ Hidden(s)
    \/ s.kind = "file" /\ s.aggregate /\ s.path # <<>>
    \/ s.aggregate /\ HasEmpty(s.fields)
    \/ s.aggregate /\ \E i \in DOMAIN s.fields : s.fields[i].url

-------------------------------------------------------------------------------
(* Built-in options. *)

TableOf(kind) ==
    CASE kind = "file" -> FileOptions [] kind = "message" -> MessageOptions
      [] kind = "field" -> FieldOptions [] kind = "enum" -> EnumOptions
      [] kind = "enum value" -> EnumValueOptions [] kind = "service" -> ServiceOptions
      [] kind = "method" -> MethodOptions
      [] kind = "extension range" -> Of({"verification"}, OneOf({"DECLARATION", "UNVERIFIED"}))
      [] OTHER -> OneofOptions

\* Words are no defaults but for these.
DefaultWord(type, lit) ==
    lit.token = "ident" =>
        CASE type = "bool" -> lit.w \in {"true", "false"}
          [] type \in Floats -> lit.w \in {"inf", "nan"}
          [] OTHER -> FALSE

\* A setting has a value, or the fields of a literal.  A default has a value of the type
\* of its field, if that is known.
SettingFits(s) ==
    LET f == [NoField EXCEPT !.type = s.type]
    IN  CASE s.fields # <<>> -> TRUE
          [] s.name = <<"default">> ->
                 s.type = "named" \/ /\ Scalar(f, s.lit) # {} /\ DefaultWord(s.type, s.lit)
                                     /\ s.type \in Integral => s.lit.token = "int"
                                     /\ s.type = "bool" => s.lit.token = "ident"
          [] OTHER -> Fits(TypeOfOption(TableOf(s.kind), s.name), s.lit)

\* Some options may be set again, and so they may in a oneof.
MayRepeat(s) ==
    s.name[1] \in {"targets", "edition_defaults", "declaration", "verification"} \/ s.kind = "oneof"
WellSet(i) ==
    LET s == job.settings[i]
    IN  /\ SettingFits(s)
        /\ ~MayRepeat(s) => \A k \in 1 .. i - 1 : job.settings[k].elements # s.elements \/ job.settings[k].name # s.name

\* The values all settings together leave: for features and feature_support by field.
Settled ==
    LET Values(i) ==
            LET s == job.settings[i]
                whole == [k \in {s.fields[j][1] : j \in DOMAIN s.fields} |->
                             (CHOOSE p \in {s.fields[j] : j \in DOMAIN s.fields} : p[1] = k)[2]]
            IN  CASE s.fields = <<>> -> {<<<<s.elements, s.name>>, s.lit>>}
                  [] s.name[1] \in {"features", "feature_support"} ->
                         {<<<<s.elements, <<s.name[1], k>>>>, whole[k]>> : k \in DOMAIN whole}
                  [] OTHER -> {<<<<s.elements, s.name>>, whole>>}
        Sets(key) == SelectSeq([i \in DOMAIN job.settings |-> i],
                               LAMBDA i : \E v \in Values(i) : v[1] = key)
        ValueFrom(key, i) == (CHOOSE v \in Values(i) : v[1] = key)[2]
        Lists(key) == key[2][1] \in {"targets", "edition_defaults", "declaration"}
    IN  [key \in UNION {{v[1] : v \in Values(i)} : i \in DOMAIN job.settings} |->
            IF Lists(key) THEN [k \in DOMAIN Sets(key) |-> ValueFrom(key, Sets(key)[k])]
            ELSE <<ValueFrom(key, Last(Sets(key)))>>]

-------------------------------------------------------------------------------
(* Properties. *)

Statements(t) == SelectSeq([i \in DOMAIN job.statements |-> i],
                           LAMBDA i : t \in job.statements[i].elements \X {job.statements[i].features})
Written(t) ==
    Message([k \in DOMAIN Statements(t) |->
                CHOOSE a \in Denoted(job.statements[Statements(t)[k]]) : TRUE])

\* A compilation that gets through the parsers and resolvers has recorded on every
\* element the built-in options set, and the message its statements mean, whatever kind
\* of element, spelling, sub-path, literal or type the nine copies of the code dealt
\* with; and its text was grammatical.
RecordedAsWritten ==
    Resolved /\ (\A i \in DOMAIN job.statements : ~Hidden(job.statements[i])) =>
                /\ job.grammatical
                /\ \A i \in DOMAIN job.statements : WellFormed(i)
                /\ \A t \in DOMAIN unknown : Message(Read(OwnerOf(t), unknown[t])) = Written(t)
                /\ \A i \in DOMAIN job.settings : WellSet(i)
                /\ builtIns = Settled

\* The parser refuses a text only if it is not grammatical or a built-in option in it is
\* not well set; a resolver refuses a statement only if it is not well-formed, or is one
\* of those that are not taken.
RefusedForCause ==
    job.grammatical =>
        /\ syntax # {} => \E i \in DOMAIN job.settings : ~WellSet(i)
        /\ \A e \in errors : ~WellFormed(e[1]) \/ NotTaken(job.statements[e[1]])

\* Every loop of the parser gets on, whatever the text: each error is followed by a token
\* that is consumed or by the end of the file.  Only where a literal is not closed may a
\* loop wait for its end, and wait forever.
HowMany(w) == Cardinality({i \in DOMAIN Tokens : Tokens[i].w = w})
Unclosed ==
    LET closers == IF ThePlace.kind \in {"file", "field", "enum value", "extension range"} THEN 0 ELSE 1
    IN  HowMany("{") > HowMany("}") - closers \/ HowMany("<") > HowMany(">")
ParserAdvances == [][place' > place \/ pos' > pos \/ (Hung' /\ Unclosed)]_parseVars

\* The message without the fields of source retention, at the top and in the fields of
\* the types in inside.
RECURSIVE WithoutSource(_, _, _)
WithoutSource(type, m, inside) ==
    LET F(n) == FieldNumbered(job.pool, type, n)
        Into(n) == F(n).type \in inside /\ (F(n).of \in job.pool.sets => "set" \in inside)
    IN  [n \in {n \in DOMAIN m : ~F(n).source} |->
            IF ~Into(n) THEN m[n]
            ELSE [i \in DOMAIN m[n] |-> [m[n][i] EXCEPT !.sub = WithoutSource(F(n).of, @, inside)]]]

\* What the outputs hold: all that was written, where options are retained, in the
\* source files of a request and in the dependencies that plugins see; the message
\* without those fields everywhere else.  Options of features are always all there.
OutputsWithout(inside) ==
    stage = "built" =>
        LET All(t) == Message(Read(OwnerOf(t), unknown[t]))
            Less(t) == IF t[2] THEN All(t) ELSE WithoutSource(OwnerOf(t), All(t), inside)
            Means(t, bytes, m) == Message(Read(OwnerOf(t), bytes)) = m
        IN  /\ \A t \in DOMAIN output.proto :
                   Means(t, output.proto[t], IF Requested(t) THEN Less(t) ELSE All(t))
            /\ \A t \in DOMAIN output.source : Means(t, output.source[t], All(t))
            /\ \A t \in DOMAIN output.set :
                   Means(t, output.set[t], IF output.retained THEN All(t) ELSE Less(t))
            /\ output.imports => DOMAIN output.set = DOMAIN unknown

\* Re-encoding does not change what the options mean.  The canonical form has the fields
\* in order and each message in one piece, also inside; items of MessageSets stay as they
\* were written, and so do custom features in a file whose only custom options they are.
RECURSIVE InOnePiece(_, _)
InOnePiece(type, stream) ==
    \A i \in DOMAIN stream :
        LET f == FieldNumbered(job.pool, type, stream[i].number)
        IN  /\ \A k \in 1 .. i - 1 :
                   /\ stream[k].number <= stream[i].number
                   /\ f.type \in Submessages /\ ~f.repeated => stream[k].number # stream[i].number
            /\ f.type \in Submessages => InOnePiece(f.of, stream[i].body)
CanonicalMeansTheSame ==
    stage # "resolved" =>
        \A t \in DOMAIN canonical :
            /\ Message(Read(OwnerOf(t), canonical[t])) = Message(Read(OwnerOf(t), unknown[t]))
            /\ \/ InOnePiece(OwnerOf(t), canonical[t])
               \/ \A u \in DOMAIN unknown : FileOf(u) = FileOf(t) /\ unknown[u] # <<>> => u[2]

\* The fields that are to be kept at the source are gone, also inside the messages, and
\* all others are as before: the groups with all they hold, the items of MessageSets
\* (stripEncoded enters length-delimited messages only), and the packed message of an
\* Any.
OutputsAreExact == OutputsWithout({"message"})

\* "Retention on a field inside an option's message value removes just that field from
\* the encoded value" (sourceRetentionFields): inside any message value, a group and a
\* MessageSet as well.
SourceStaysBehind == OutputsWithout(Submessages \cup {"set"})

\* A location leads to the value its statement has set: for bare options of files and
\* all options of fields, where repeated values are counted.
RECURSIVE At(_, _, _)
At(type, m, path) ==
    LET f == FieldNumbered(job.pool, type, path[1])
        index == IF f.repeated THEN path[2] + 1 ELSE 1
        rest == SubSeq(path, IF f.repeated THEN 3 ELSE 2, Len(path))
    IN  IF path[1] \notin DOMAIN m \/ (f.repeated /\ Len(path) = 1) THEN {}
        ELSE IF index \notin DOMAIN m[path[1]] THEN {}
        ELSE IF rest = <<>> THEN {m[path[1]][index]}
        ELSE At(f.of, m[path[1]][index].sub, rest)
\* A message literal and other statements may add up to one message.
Alone(i) ==
    LET s == job.statements[i]
    IN  \A k \in DOMAIN job.statements \ {i} :
            LET t == job.statements[k]
            IN  \/ t.elements # s.elements \/ Named(t) # Named(s)
                \/ Named(s).repeated \/ ~(t.aggregate \/ s.aggregate)
Found == {i \in DOMAIN job.statements \cap DOMAIN located : ~Hidden(job.statements[i])}
Target(s) == <<CHOOSE e \in s.elements : TRUE, s.features>>
LeadsToValue(i) ==
    LET s == job.statements[i]
        owner == OwnerOf(Target(s))
        last == ~\E k \in DOMAIN job.statements :
                    k > i /\ located[k] = located[i] /\ job.statements[k].elements = s.elements
    IN  (s.kind = "field" \/ (s.kind = "file" /\ s.path = <<>>)) /\ last /\ Alone(i) =>
            At(owner, Message(Read(owner, unknown[Target(s)])), located[i]) =
                {[int |-> v.int, text |-> v.text, sub |-> Message(v.sub)] :
                    v \in LeafValues(Leaf(Named(s), s), s)}
\* What remains of the locations after stripping is those of the options that remain.
ShownIfKept(i) ==
    LET t == Target(job.statements[i])
    IN  i \in shown <=> located[i][1] \in DOMAIN Message(Read(OwnerOf(t), kept[t]))
LocationsLead ==
    /\ Resolved => \A i \in Found : LeadsToValue(i)
    /\ stage \in {"stripped", "built"} => \A i \in Found : ShownIfKept(i)
===============================================================================
