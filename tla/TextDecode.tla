------------------------------ MODULE TextDecode ------------------------------
(***************************************************************************)
(* --decode_raw and --decode (Run and runDecode): an encoded message is    *)
(* read from standard input, checked, and printed as text, by field number *)
(* or with the types of the compiled files.                                *)
(***************************************************************************)
EXTENDS WireFormat, Functions, FiniteSetsExt

CONSTANTS
    MaxDepth,       \* of messages in messages; 100 in the code
    Files,          \* the compiled files: a file has a syntax, its default of field
                    \* presence, its messages and enums by full name, nested ones
                    \* included, and its extensions
    Jobs            \* the command lines considered: the mode, "decode_raw" or "decode",
                    \* the type to decode, and the input

VARIABLES
    job,
    phase,          \* "read", "warn", "print" or "done"
    warnings,       \* the required fields found missing, as paths
    output,         \* the lines printed
    exit            \* "none", "ok", "failed", or "panic"

vars == <<job, phase, warnings, output, exit>>

Varints == {"int32", "int64", "uint32", "uint64", "sint32", "sint64", "bool", "enum"}
Words64 == {"fixed64", "sfixed64", "double"}
Words32 == {"fixed32", "sfixed32", "float"}
Submessages == {"message", "group"}
Packable == Varints \cup Words64 \cup Words32

WireOf(type) ==
    CASE type \in Varints -> "varint"
      [] type \in Words64 -> "fixed64"
      [] type \in Words32 -> "fixed32"
      [] type = "group" -> "start"
      [] OTHER -> "bytes"

-------------------------------------------------------------------------------
(* findMessageType: the tables of what the files declare. *)

Merged(functions) == [x \in UNION {DOMAIN f : f \in functions} |->
                        (CHOOSE f \in functions : x \in DOMAIN f)[x]]

AllMessages == Merged({file.messages : file \in Files})
AllEnums == Merged({file.enums : file \in Files})

\* The first name of a number counts.
buildEnumValMap(values) ==
    [n \in {values[i].number : i \in DOMAIN values} |->
        values[Min({i \in DOMAIN values : values[i].number = n})].name]

Closed(enum) == \E file \in Files :
    /\ enum \in DOMAIN file.enums
    /\ file.syntax = "proto2" \/ (file.syntax = "editions" /\ ~file.enums[enum].open)

\* The messages of proto3, or of a file with implicit presence: their strings are UTF-8,
\* and their singular fields have no presence.
Implicit(message) == \E file \in Files :
    /\ message \in DOMAIN file.messages
    /\ file.syntax = "proto3" \/ (file.syntax = "editions" /\ file.implicit)

FieldsOf(message) == Range(AllMessages[message].fields)
Extensions(message) ==
    {ext.field : ext \in {e \in UNION {file.extensions : file \in Files} : e.extendee = message}}
Numbered(fields, num) == {f \in fields : f.num = num}

-------------------------------------------------------------------------------
(* validateProtoWithSchema. *)

\* What follows a group: it ends with the end of any group.  Nothing in it is checked
\* against the schema, and no fixed number against what is left of the data.  A group
\* that cannot be skipped leaves a bad tag.
RECURSIVE SkipGroup(_, _)
SkipGroup(data, depth) ==
    IF data = <<>> \/ depth = 0 THEN data
    ELSE IF data[1].wt = "bad" \/ (data[1].wt \in {"varint", "bytes"} /\ ~Strict(data[1])) THEN <<Bad>>
    ELSE SkipGroup(Tail(data), depth + CASE data[1].wt = "start" -> 1
                                          [] data[1].wt = "end" -> -1
                                          [] OTHER -> 0)

After(data) == IF data[1].wt = "start" THEN SkipGroup(Tail(data), 1) ELSE Tail(data)

validatePackedData(numbers) == \A i \in DOMAIN numbers : numbers[i] \in 0 .. 2 ^ Wide - 1

RECURSIVE validateProtoWithSchema(_, _, _)

validateBytes(bytes, message, f, depth) ==
    CASE f.type \in Submessages -> validateProtoWithSchema(bytes.items, f.of, depth + 1)
      [] f.type = "string" -> Implicit(message) => bytes.utf8
      [] f.label = "repeated" /\ f.type \in Packable -> validatePackedData(bytes.numbers)
      [] OTHER -> TRUE

validateProtoWithSchema(data, message, depth) ==
    /\ depth < MaxDepth
    /\ data # <<>> =>
          LET item == data[1]
          IN  /\ item.wt = "start" \/ Strict(item)
              /\ item.wt = "bytes" =>
                    \A f \in Numbered(FieldsOf(message), item.num) :
                        validateBytes(Bytes(item), message, f, depth)
              /\ validateProtoWithSchema(After(data), message, depth)

-------------------------------------------------------------------------------
(* findMissingRequired. *)

RECURSIVE Outermost(_), findMissingRequired(_, _, _)

\* The items that are in no group.
Outermost(data) == IF data = <<>> THEN <<>> ELSE <<data[1]>> \o Outermost(After(data))

findMissingRequired(data, message, prefix) ==
    LET items == Outermost(data)
        absent == SelectSeq(AllMessages[message].fields,
                            LAMBDA f : f.label = "required" /\ \A i \in DOMAIN items : items[i].num # f.num)
        Within(item) ==
            LET fs == {f \in Numbered(FieldsOf(message), item.num) : f.type \in Submessages}
            IN  IF item.wt # "bytes" \/ fs = {} THEN <<>>
                ELSE LET f == CHOOSE f \in fs : TRUE
                     IN  findMissingRequired(Bytes(item).items, f.of, Append(prefix, f.name))
    IN  [i \in DOMAIN absent |-> Append(prefix, absent[i].name)]
            \o FlattenSeq([i \in DOMAIN items |-> Within(items[i])])

-------------------------------------------------------------------------------
(* printTextProto collects entries, each with its field or none. *)

NoField == <<>>
Entry(field, item, group) == [field |-> field, num |-> item.num, wt |-> item.wt,
                              val |-> item.val, bytes |-> item.bytes, group |-> group]

\* Here a group of its own number ends it, and others only open.
RECURSIVE GroupLength(_, _, _)
GroupLength(num, data, depth) ==
    IF data = <<>> \/ depth = 0 THEN 0
    ELSE IF data[1].wt = "bad" THEN 0
    ELSE 1 + GroupLength(num, Tail(data), depth + CASE Ends(data[1], num) -> -1
                                                    [] data[1].wt = "start" -> 1
                                                    [] OTHER -> 0)

\* The last byte is taken for the end of the group, whatever it is.
CutLast(data) ==
    IF Last(data).wt \in {"start", "end"} THEN Front(data)
    ELSE Append(Front(data), [Last(data) EXCEPT !.val = Cut, !.bytes = <<>>])

\* The bytes of a group that has none, not even an end, are a slice out of range.
Panic == <<[Bad EXCEPT !.num = -1]>>
GroupOf(data, n) == IF n = 0 THEN Panic ELSE CutLast(SubSeq(data, 1, n))

\* What the schema knows of a number: a field, or else an extension.
Known(message, num) ==
    LET own == Numbered(FieldsOf(message), num)
        fs == IF own # {} THEN own ELSE Numbered(Extensions(message), num)
    IN  IF fs = {} THEN NoField ELSE <<CHOOSE f \in fs : TRUE>>

Is(field, types) == field # NoField /\ field[1].type \in types
Repeated(field) == field # NoField /\ field[1].label = "repeated"

Zero(item) == [item EXCEPT !.val = 0, !.bytes = Empty]

\* A packed field comes apart, up to the first number that cannot be read.
Unpacked(field, item) ==
    LET numbers == Bytes(item).numbers
        bad == {i \in DOMAIN numbers : numbers[i] \notin 0 .. 2 ^ Wide - 1}
        good == IF bad = {} THEN numbers ELSE SubSeq(numbers, 1, Min(bad) - 1)
    IN  [i \in DOMAIN good |->
            Entry(field, Item(item.num, WireOf(field[1].type), good[i], <<>>), <<>>)]

EntriesOf(field, item) ==
    IF item.wt = "bytes" /\ Is(field, Packable) /\ Repeated(field)
    THEN Unpacked(field, item)
    ELSE <<Entry(field, item, <<>>)>>

\* The entries in wire order.  The last is made up if its value cannot be read.
RECURSIVE Collect(_, _)
Collect(data, message) ==
    IF data = <<>> THEN <<>> ELSE
    LET item == data[1]
        field == Known(message, item.num)
        n == GroupLength(item.num, Tail(data), 1)
    IN  CASE item.wt = "bad" -> <<>>
          [] item.wt = "end" -> Collect(Tail(data), message)
          [] item.wt = "start" ->
                <<Entry(field, item, GroupOf(Tail(data), n))>> \o Collect(From(data, n + 1), message)
          [] Strict(item) -> EntriesOf(field, item) \o Collect(Tail(data), message)
          [] OTHER -> EntriesOf(field, Zero(item))

Int32(v) == LET n == v % 2 ^ Narrow IN IF n < 2 ^ (Narrow - 1) THEN n ELSE n - 2 ^ Narrow
Int64(v) == IF v < 2 ^ (Wide - 1) THEN v ELSE v - 2 ^ Wide
DecodeZigZag(v) == IF v % 2 = 0 THEN v \div 2 ELSE -(v \div 2) - 1

Names(enum) == buildEnumValMap(AllEnums[enum].values)

\* A value of a closed enum that has no name is an unknown field.
Recognised(e) ==
    /\ e.field # NoField
    /\ e.wt = WireOf(e.field[1].type)
    /\ Is(e.field, {"enum"}) /\ Closed(e.field[1].of) => Int32(e.val) \in DOMAIN Names(e.field[1].of)

-------------------------------------------------------------------------------
(* printTextProto then makes of the known entries the fields of the message. *)

Group(e) == e.field[1].type = "group"
Contents(e) == IF Group(e) THEN e.group ELSE Bytes(e).items
WithContents(e, items) ==
    IF Group(e) THEN [e EXCEPT !.group = items] ELSE [e EXCEPT !.bytes[1].items = items]

Indices(sequence) == [i \in DOMAIN sequence |-> i]
Places(entries, num) == {i \in DOMAIN entries : entries[i].num = num}

\* Mutant: only the last piece of a message is kept.
LastPiece(pieces) == Last(pieces)

\* The pieces of a message, concatenated.  What has been merged is written over the last
\* piece as the loop goes, so that of three and more the last is not read.
MergedPieces(pieces) ==
    LET k == Len(pieces)
        merged == FlattenSeq(Front(pieces))
    IN  CASE k = 1 -> pieces[1]
          [] k = 2 -> merged \o pieces[2]
          [] OTHER -> merged \o merged

At(entries, places) == [k \in DOMAIN places |-> entries[places[k]]]

Whole(e, entries) ==
    LET Pieces(same) == [k \in DOMAIN same |-> Contents(same[k])]
    IN  IF Repeated(e.field) \/ ~Is(e.field, Submessages) THEN e
        ELSE WithContents(e, MergedPieces(Pieces(SelectSeq(entries, LAMBDA x : x.num = e.num))))

\* Of a singular field the last entry stays, with all its pieces if it is a message.
Singles(entries) ==
    LET Keep(i) == Repeated(entries[i].field) \/ i = Max(Places(entries, entries[i].num))
        Wholes(kept) == [k \in DOMAIN kept |-> Whole(kept[k], entries)]
    IN  Wholes(At(entries, SelectSeq(Indices(entries), Keep)))

Oneof(e) == e.field[1].oneof
NoOneof == 0

LastOfOneofs(entries) ==
    LET Keep(i) == Oneof(entries[i]) # NoOneof =>
                      \A j \in i + 1 .. Len(entries) : Oneof(entries[j]) # Oneof(entries[i])
    IN  At(entries, SelectSeq(Indices(entries), Keep))

HasPresence(field) ==
    field.label = "repeated" \/ field.oneof # NoOneof \/ field.type \in Submessages \/ field.explicit

IsDefault(e) == IF e.wt = "bytes" THEN Bytes(e).rank = 0 ELSE e.val = 0

Present(entries, message) ==
    SelectSeq(entries, LAMBDA e : Implicit(message) /\ ~HasPresence(e.field[1]) => ~IsDefault(e))

MapEntry(message) == AllMessages[message].mapEntry

Default(f) == Entry(<<f>>, Item(f.num, WireOf(f.type), 0, Empty), <<>>)

\* An entry of a map has a key and a value, whatever is encoded.
Completed(entries, message) ==
    LET Defaults(absent) == [i \in DOMAIN absent |-> Default(absent[i])]
    IN  IF ~MapEntry(message) THEN entries
        ELSE entries \o Defaults(SelectSeq(AllMessages[message].fields,
                                           LAMBDA f : Places(entries, f.num) = {}))

\* extractMapKey takes the first item of number 1, of whatever type, and gives up at the
\* end of a group or at a value that cannot be read.
RECURSIVE extractMapKey(_)
extractMapKey(data) ==
    IF data = <<>> THEN Item(1, "varint", 0, Empty)
    ELSE IF data[1].wt # "start" /\ ~Strict(data[1]) THEN Item(1, "varint", 0, Empty)
    ELSE IF data[1].wt # "start" /\ data[1].num = 1 THEN data[1]
    ELSE extractMapKey(After(data))

Scalar(type, v) ==
    CASE type \in {"int32", "enum", "sfixed32"} -> Int32(v)
      [] type \in {"uint32", "fixed32"} -> v % 2 ^ Narrow
      [] type \in {"int64", "sfixed64"} -> Int64(v)
      [] type = "sint32" -> Int32(DecodeZigZag(v % 2 ^ Narrow))
      [] type = "sint64" -> DecodeZigZag(v)
      [] OTHER -> v

\* The value a key of the type reads from an item; another wire type leaves it 0.
KeyOf(type, item) ==
    IF type = "string" THEN IF item.wt = "bytes" THEN Bytes(item).rank ELSE 0
    ELSE Scalar(type, IF item.wt = WireOf(type) THEN item.val ELSE 0)

compareMapEntryKeys(a, b, message) ==
    LET Key(data) == KeyOf((CHOOSE f \in FieldsOf(message) : f.num = 1).type, extractMapKey(data))
    IN  Key(a) < Key(b)

MapEntries(e) == Is(e.field, {"message"}) /\ Repeated(e.field) /\ MapEntry(e.field[1].of)

\* By number; the entries of a map by key; and else as they came.
Sorted(entries) ==
    LET Less(a, b) == MapEntries(a) /\ compareMapEntryKeys(Contents(a), Contents(b), a.field[1].of)
        Before(i, j) ==
            IF entries[i].num # entries[j].num THEN entries[i].num < entries[j].num
            ELSE Less(entries[i], entries[j]) \/ (~Less(entries[j], entries[i]) /\ i < j)
    IN  At(entries, SortSeq(Indices(entries), Before))

-------------------------------------------------------------------------------
(* What is printed. *)

PrintedValue(e) ==
    LET f == e.field[1]
    IN  CASE f.type = "bool" -> <<"bool", IF e.val # 0 THEN 1 ELSE 0>>
          [] f.type = "enum" /\ Int32(e.val) \in DOMAIN Names(f.of) -> <<"name", Names(f.of)[Int32(e.val)]>>
          [] f.type \in {"string", "bytes"} -> <<"text", Bytes(e).rank>>
          [] f.type \in {"float", "double"} -> <<"float", e.val>>
          [] OTHER -> <<"number", Scalar(f.type, e.val)>>

printUnknownField(e) ==
    CASE e.wt = "bytes" -> decodeRawBytes(e.num, Bytes(e))
      [] e.wt = "start" -> Indented(Open(NoName, e.num), decodeRawProto(e.group))
      [] OTHER -> <<Leaf(NoName, e.num, e.wt, e.val)>>

RECURSIVE printTextProto(_, _)

\* A group is called by its type, unless it is an extension.
printKnownField(e, extension) ==
    LET f == e.field[1]
    IN  IF f.type \in Submessages
        THEN Indented(Open(IF Group(e) /\ ~extension THEN f.of ELSE f.name, 0),
                      printTextProto(Contents(e), f.of))
        ELSE <<Leaf(f.name, 0, PrintedValue(e)[1], PrintedValue(e)[2])>>

Panicked == <<"panic">>

\* The known entries, as the fields of the message.
Fields(entries, message) ==
    Sorted(Completed(Present(LastOfOneofs(Singles(entries)), message), message))

printKnownFields(entries, message) ==
    FlattenSeq([i \in DOMAIN entries |->
        printKnownField(entries[i], entries[i].field[1] \notin FieldsOf(message))])

printUnknownFields(entries, message) ==
    IF MapEntry(message) THEN <<>>
    ELSE FlattenSeq([i \in DOMAIN entries |-> printUnknownField(entries[i])])

printEntries(entries, message) ==
    IF \E i \in DOMAIN entries : entries[i].group = Panic THEN <<Panicked>>
    ELSE printKnownFields(Fields(SelectSeq(entries, Recognised), message), message)
             \o printUnknownFields(SelectSeq(entries, LAMBDA e : ~Recognised(e)), message)

printTextProto(data, message) == printEntries(Collect(data, message), message)

-------------------------------------------------------------------------------
(* Run and runDecode. *)

Init ==
    /\ job \in Jobs
    /\ phase = "read"
    /\ warnings = <<>>
    /\ output = <<>>
    /\ exit = "none"

Stop(how) == phase' = "done" /\ exit' = how

DecodeRaw ==
    /\ phase = "read"
    /\ job.mode = "decode_raw"
    /\ IF validateRawProto(job.data)
       THEN output' = decodeRawProto(job.data) /\ Stop("ok")
       ELSE Stop("failed") /\ UNCHANGED output
    /\ UNCHANGED <<job, warnings>>

Validate ==
    /\ phase = "read"
    /\ job.mode = "decode"
    /\ IF job.type \in DOMAIN AllMessages /\ validateProtoWithSchema(job.data, job.type, 0)
       THEN phase' = "warn" /\ UNCHANGED exit
       ELSE Stop("failed")
    /\ UNCHANGED <<job, warnings, output>>

Warn ==
    /\ phase = "warn"
    /\ warnings' = findMissingRequired(job.data, job.type, <<>>)
    /\ phase' = "print"
    /\ UNCHANGED <<job, output, exit>>

\* What is printed before a panic has been printed.
Prints(lines) ==
    IF Panicked \notin Range(lines)
    THEN output' = lines /\ Stop("ok")
    ELSE output' = SubSeq(lines, 1, Min({i \in DOMAIN lines : lines[i] = Panicked}) - 1) /\ Stop("panic")

PrintText ==
    /\ phase = "print"
    /\ Prints(printTextProto(job.data, job.type))
    /\ UNCHANGED <<job, warnings>>

Done == phase = "done" /\ UNCHANGED vars

Next == DecodeRaw \/ Validate \/ Warn \/ PrintText \/ Done

Spec == Init /\ [][Next]_vars

-------------------------------------------------------------------------------
(* Properties.  They describe data by how its groups are nested, and a message *)
(* field by field.                                                             *)

CountOf(data, i, wt) == Cardinality({k \in 1 .. i : data[k].wt = wt})
Depth(data, i) == CountOf(data, i, "start") - CountOf(data, i, "end")
EndOf(data, i) == Min({j \in i + 1 .. Len(data) : Depth(data, j) < Depth(data, i)})

\* Every value is there, and every group is ended, by its own number.
WellFormed(data) ==
    /\ \A i \in DOMAIN data :
          /\ data[i].wt \in {"start", "end"} \/ Complete(data[i])
          /\ Depth(data, i) >= 0
    /\ Depth(data, Len(data)) = 0
    /\ \A i \in DOMAIN data : data[i].wt = "start" => data[EndOf(data, i)].num = data[i].num

RECURSIVE RawLines(_)
RawLines(data) == FlattenSeq([i \in DOMAIN data |->
    LET item == data[i]
    IN  CASE item.wt = "start" -> <<Open(NoName, item.num)>>
          [] item.wt = "end" -> <<Close>>
          [] item.wt = "bytes" /\ Bytes(item).items # <<>> /\ WellFormed(Bytes(item).items) ->
                Indented(Open(NoName, item.num), RawLines(Bytes(item).items))
          [] item.wt = "bytes" -> <<Leaf(NoName, item.num, "text", Bytes(item).rank)>>
          [] OTHER -> <<Leaf(NoName, item.num, item.wt, Truncated(item))>>])

\* --decode_raw takes what is a sequence of fields with every group ended and every value
\* there, and nothing else; and prints each of them, as deep as they nest.
RawDecodedWhole ==
    job.mode = "decode_raw" /\ phase = "done" =>
        /\ exit = "ok" <=> WellFormed(job.data)
        /\ output = IF exit = "ok" THEN RawLines(job.data) ELSE <<>>

\* The fields of a message, with the items in their groups.
Tops(data) == SelectSeq(Indices(data), LAMBDA i : data[i].wt # "end" /\ Depth(data, i - 1) = 0)
Inside(data, i) == SubSeq(data, i + 1, EndOf(data, i) - 1)

AllFields(message) == FieldsOf(message) \cup
    {f \in Extensions(message) : Numbered(FieldsOf(message), f.num) = {}}

\* What item i of the data gives the field: values, each as an entry.
Gives(data, i, f) ==
    LET item == data[i]
    IN  CASE item.num # f.num -> <<>>
          [] item.wt = WireOf(f.type) ->
                <<Entry(<<f>>, item, IF item.wt = "start" THEN Inside(data, i) ELSE <<>>)>>
          [] item.wt = "bytes" /\ f.label = "repeated" /\ f.type \in Packable ->
                [k \in DOMAIN Bytes(item).numbers |->
                    Entry(<<f>>, Item(f.num, WireOf(f.type), Bytes(item).numbers[k], <<>>), <<>>)]
          [] OTHER -> <<>>

Foreign(f, e) == f.type = "enum" /\ Closed(f.of) /\ Int32(e.val) \notin DOMAIN Names(f.of)

\* The values of a field after item n.
ValuesAfter(data, f, n) ==
    LET All(tops) == FlattenSeq([k \in DOMAIN tops |-> Gives(data, tops[k], f)])
    IN  SelectSeq(All(SelectSeq(Tops(data), LAMBDA i : i > n)), LAMBDA e : ~Foreign(f, e))
Values(data, f) == ValuesAfter(data, f, 0)

\* Setting a member of a oneof clears the others.
Cleared(data, message, f) ==
    Max({0} \cup {i \in Range(Tops(data)) : \E g \in FieldsOf(message) \ {f} :
                     /\ f.oneof # NoOneof /\ g.oneof = f.oneof
                     /\ \E e \in Range(Gives(data, i, g)) : ~Foreign(g, e)})

Map(f) == f.label = "repeated" /\ f.type = "message" /\ MapEntry(f.of)
KeyIn(e, f) == KeyOf((CHOOSE k \in FieldsOf(f.of) : k.num = 1).type, extractMapKey(Contents(e)))

LastOfKeys(all, f) ==
    LET Kept(j) == \A k \in j + 1 .. Len(all) : KeyIn(all[j], f) # KeyIn(all[k], f)
    IN  SortSeq(At(all, SelectSeq(Indices(all), Kept)), LAMBDA a, b : KeyIn(a, f) < KeyIn(b, f))

Joined(all) == FlattenSeq([k \in DOMAIN all |-> Contents(all[k])])
One(all, f) == IF f.type \in Submessages THEN WithContents(Last(all), Joined(all)) ELSE Last(all)

\* A field without presence is not there if its value is the default one.
Shown(one, message, f) ==
    IF /\ Implicit(message) /\ ~HasPresence(f) /\ ~MapEntry(message)
       /\ PrintedValue(one) = PrintedValue(Default(f))
    THEN <<>> ELSE <<one>>

HeldOf(all, message, f) ==
    CASE Map(f) -> LastOfKeys(all, f)
      [] f.label = "repeated" /\ ~Map(f) -> all
      [] f.label # "repeated" /\ all = <<>> -> IF MapEntry(message) THEN <<Default(f)>> ELSE <<>>
      [] OTHER -> Shown(One(all, f), message, f)

\* The values that a message holds in the end, of each field.
Held(data, message, f) == HeldOf(ValuesAfter(data, f, Cleared(data, message, f)), message, f)

\* What is unknown about item i: all of it, or values of a closed enum.
UnknownAt(data, i, message) ==
    LET Taken(f) == \/ Gives(data, i, f) # <<>>
                   \/ /\ f.num = data[i].num /\ data[i].wt = "bytes"
                      /\ f.label = "repeated" /\ f.type \in Packable
        Numbers(foreign) == [j \in DOMAIN foreign |-> Leaf(NoName, data[i].num, "varint", foreign[j].val)]
        Strangers(f) == Numbers(SelectSeq(Gives(data, i, f), LAMBDA e : Foreign(f, e)))
    IN  IF \E f \in AllFields(message) : Taken(f)
        THEN Strangers(CHOOSE f \in AllFields(message) : Taken(f))
        ELSE RawLines(IF data[i].wt = "start" THEN SubSeq(data, i, EndOf(data, i)) ELSE <<data[i]>>)

Unknowns(data, message) ==
    LET All(tops) == FlattenSeq([k \in DOMAIN tops |-> UnknownAt(data, tops[k], message)])
    IN  IF MapEntry(message) THEN <<>> ELSE All(Tops(data))

RECURSIVE TextOf(_, _)

TextOfField(held, f, title) ==
    FlattenSeq([k \in DOMAIN held |->
        IF f.type \in Submessages
        THEN Indented(Open(title, 0), TextOf(Contents(held[k]), f.of))
        ELSE <<Leaf(f.name, 0, PrintedValue(held[k])[1], PrintedValue(held[k])[2])>>])

TextOf(data, message) ==
    LET Title(f) == IF f.type = "group" /\ f \in FieldsOf(message) THEN f.of ELSE f.name
        Lines(f) == TextOfField(Held(data, message, f), f, Title(f))
        LinesAt(fs) == IF fs = {} THEN <<>> ELSE Lines(CHOOSE f \in fs : TRUE)
    IN  FlattenSeq([n \in 1 .. Max({0} \cup {f.num : f \in AllFields(message)}) |->
                        LinesAt(Numbered(AllFields(message), n))])
            \o Unknowns(data, message)

\* The paths to required fields that are not set, in messages that are in no group.
RECURSIVE Lacks(_, _, _)
Lacks(data, message, prefix) ==
    {Append(prefix, f.name) : f \in {g \in FieldsOf(message) : g.label = "required"
                                        /\ \A k \in DOMAIN Tops(data) : data[Tops(data)[k]].num # g.num}}
    \cup UNION {UNION {Lacks(Contents(held), f.of, Append(prefix, f.name)) :
                          held \in Range(Held(data, message, f))} :
                  f \in {g \in FieldsOf(message) : g.type = "message"}}

\* What is known to be wrong with the input, at every depth that is looked at: an item
\* outside groups that cannot be read, an end too many, one in a group that hides its end,
\* text that is no UTF-8, packed numbers cut short, or messages nested too deep.
RECURSIVE Refused(_, _, _)
Refused(data, message, depth) ==
    \/ depth >= MaxDepth
    \/ \E i \in DOMAIN data :
          LET item == data[i]
              own == Numbered(FieldsOf(message), item.num)
          IN  \/ item.wt = "bad" \/ Depth(data, i) < 0
              \/ item.wt \in {"varint", "bytes"} /\ ~Strict(item)
              \/ Depth(data, i) = 0 /\ item.wt \in {"fixed32", "fixed64"} /\ ~Strict(item)
              \/ /\ Depth(data, i) = 0 /\ item.wt = "bytes"
                 /\ \E f \in own :
                       \/ f.type \in Submessages /\ Refused(Bytes(item).items, f.of, depth + 1)
                       \/ f.type = "string" /\ Implicit(message) /\ ~Bytes(item).utf8
                       \/ /\ f.label = "repeated" /\ f.type \in Packable
                          /\ Range(Bytes(item).numbers) \ (0 .. 2 ^ Wide - 1) # {}

\* A group is not read to its end if one of another number is nested in it.
NestsAlike(data) ==
    \A i, j \in DOMAIN data :
        data[i].wt = "start" /\ data[j].wt = "start" /\ i < j /\ j < EndOf(data, i) =>
            data[i].num = data[j].num

\* Two encodings the printer reads otherwise than a parser would: a field without presence
\* whose varint is 0 only in 32 bits, and two entries of a map with one key, or an entry
\* with two.
Plain(values, message, f) ==
    /\ Implicit(message) /\ ~HasPresence(f) => \A k \in DOMAIN values : values[k].val < 2 ^ Narrow
    /\ Map(f) => \A j, k \in DOMAIN values :
          /\ Cardinality(Places(Contents(values[j]), 1)) <= 1
          /\ j < k => KeyIn(values[j], f) # KeyIn(values[k], f)

\* The data is regular at every depth, with singular messages in at most so many pieces,
\* those of a oneof in one, and none cleared if all are in one piece: the warning counts
\* the required fields of each piece, and of what is cleared, by itself.
RECURSIVE Regular(_, _, _)

RegularField(values, message, f, pieces) ==
    /\ Plain(values, message, f)
    /\ f.type \in Submessages /\ values # <<>> =>
          /\ \A k \in DOMAIN values : Regular(Contents(values[k]), f.of, pieces)
          /\ f.label # "repeated" =>
                /\ Len(values) <= IF f.oneof = NoOneof THEN pieces ELSE 1
                /\ Regular(Joined(values), f.of, pieces)

Regular(data, message, pieces) ==
    /\ WellFormed(data) /\ \A i \in DOMAIN data : data[i].wt \in {"start", "end"} \/ Strict(data[i])
    /\ NestsAlike(data)
    /\ \A f \in AllFields(message) :
          /\ RegularField(Values(data, f), message, f, pieces)
          /\ pieces = 1 /\ f.type = "message" =>
                Values(data, f) = ValuesAfter(data, f, Cleared(data, message, f))

Decoded == job.mode = "decode" /\ phase = "done" /\ job.type \in DOMAIN AllMessages

\* "prints binary protobuf data in text format using the message schema. Known fields are
\* printed by name, unknown fields by number": all data is taken but what is refused for
\* cause; and if it has each group ended and each message in at most two pieces, it is
\* printed as the message a parser makes of it, which merges pieces, keeps the last of a
\* singular field and of a oneof, takes packed and unpacked numbers, and orders fields and
\* maps.  In one piece, with nothing cleared, the warning names the required fields not set.
DecodedAsMerged ==
    Decoded =>
        /\ exit = "failed" <=> Refused(job.data, job.type, 0)
        /\ exit # "failed" /\ Regular(job.data, job.type, 2) =>
              /\ exit = "ok"
              /\ output = TextOf(job.data, job.type)
              /\ Regular(job.data, job.type, 1) => Range(warnings) = Lacks(job.data, job.type, <<>>)
===============================================================================
