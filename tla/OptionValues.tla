----------------------------- MODULE OptionValues -----------------------------
(***************************************************************************)
(* The values of custom options and their wire encoding.                   *)
(*                                                                         *)
(* A literal is the token of a value: its type, how many minus signs stand *)
(* in front of its text (0 or 1; checkIntRangeOption can see 2), and its   *)
(* text, the number n if w is "" and the word w otherwise.  A message      *)
(* literal is a sequence of entries.  Encoded options are sequences of     *)
(* records, one per tag of the wire format; integers of 32 and 64 bits are *)
(* scaled down to Narrow and Wide bits.                                    *)
(***************************************************************************)
EXTENDS Integers, Sequences, SequencesExt, FiniteSetsExt

CONSTANTS Narrow, Wide      \* the widths of integers
ASSUME WidthAssumption == Narrow \in Nat \ {0} /\ Wide \in Nat /\ Narrow < Wide

Strings == {"string", "bytes"}
Varints == {"int32", "int64", "uint32", "uint64"}
ZigZags == {"sint32", "sint64"}
Fixed == {"fixed32", "fixed64", "sfixed32", "sfixed64"}
Floats == {"float", "double"}
Submessages == {"message", "group"}
Unsigned == {"uint32", "uint64", "fixed32", "fixed64"}
Short == {"int32", "sint32", "sfixed32", "uint32", "fixed32", "enum"}
Integral == Varints \cup ZigZags \cup Fixed

\* What fits into w bits.
Signed(w) == -(2 ^ (w - 1)) .. 2 ^ (w - 1) - 1
Natural(w) == 0 .. 2 ^ w - 1
Range32(type) == IF type \in Unsigned THEN Natural(Narrow) ELSE Signed(Narrow)
Range64(type) == IF type \in Unsigned THEN Natural(Wide) ELSE Signed(Wide)
RangeOf(type) == IF type \in Short THEN Range32(type) ELSE Range64(type)

IsNumber(lit) == lit.w = ""
Number(lit) == IF lit.minus = 1 THEN -lit.n ELSE lit.n

\* strconv.ParseInt and ParseUint: one sign or none, and the 64 bits at hand.
Parses(lit, type) ==
    /\ IsNumber(lit)
    /\ lit.minus <= IF type \in Unsigned THEN 0 ELSE 1
    /\ Number(lit) \in Range64(type)

\* An outcome is an error, named by its class, or what has been written.
Failed(class) == [error |-> class, out |-> <<>>]
Wrote(records) == [error |-> "", out |-> records]

NoText == <<0, 0, "">>
Rec(number, wire, int, text, body) ==
    [number |-> number, wire |-> wire, int |-> int, text |-> text, body |-> body]
Varint(f, i) == Wrote(<<Rec(f.number, "varint", i % 2 ^ Wide, NoText, <<>>)>>)
Fixed32(f, i) == Wrote(<<Rec(f.number, "fixed32", i % 2 ^ Narrow, NoText, <<>>)>>)
Fixed64(f, i) == Wrote(<<Rec(f.number, "fixed64", i % 2 ^ Wide, NoText, <<>>)>>)
Text(f, wire, text) == Wrote(<<Rec(f.number, wire, 0, text, <<>>)>>)

EncodeZigZag(i) == IF i >= 0 THEN 2 * i ELSE -2 * i - 1

encodeInteger(f, lit) ==
    IF ~Parses(lit, f.type) THEN Failed("integer")
    ELSE IF Number(lit) \notin RangeOf(f.type) THEN Failed("range")
    ELSE CASE f.type \in ZigZags -> Varint(f, EncodeZigZag(Number(lit)))
           [] f.type \in {"fixed32", "sfixed32"} -> Fixed32(f, Number(lit))
           [] f.type \in {"fixed64", "sfixed64"} -> Fixed64(f, Number(lit))
           [] OTHER -> Varint(f, Number(lit))

Says(lit, words, n) == lit.minus = 0 /\ (lit.w \in words \/ (IsNumber(lit) /\ lit.n = n))

encodeBool(f, lit) ==
    CASE Says(lit, {"true", "True", "t"}, 1) -> Varint(f, 1)
      [] Says(lit, {"false", "False", "f"}, 0) -> Varint(f, 0)
      [] OTHER -> Failed("bool")

\* All NaNs are written as one; the number parser knows inf in any case.
encodeFloat(f, lit) ==
    LET wire == IF f.type = "float" THEN "fixed32" ELSE "fixed64"
    IN  CASE lit.token = "string" -> Failed("float")
          [] lit.w \in {"nan", "NaN"} -> Text(f, wire, <<0, 0, "nan">>)
          [] lit.w \in {"inf", "Inf"} -> Text(f, wire, <<lit.minus, 0, "inf">>)
          [] lit.w \in {"", "frac"} -> Text(f, wire, <<lit.minus, lit.n, lit.w>>)
          [] OTHER -> Failed("float")

\* An enum takes the number of a value as well as its name.
encodeEnum(p, f, lit) ==
    IF Parses(lit, "int64") /\ Number(lit) \in Signed(Narrow) THEN Varint(f, Number(lit))
    ELSE IF f.of \notin DOMAIN p.enums \/ lit.minus > 0 \/ IsNumber(lit) THEN Failed("enum")
    ELSE IF lit.w \notin DOMAIN p.enums[f.of] THEN Failed("enum")
    ELSE Varint(f, p.enums[f.of][lit.w])

\* encodeCustomOptionValue: one scalar.  There is none of a message type.
encodeCustomOptionValue(p, f, lit) ==
    CASE f.type \in Strings ->
             IF lit.token # "string" THEN Failed("string")
             ELSE Text(f, "bytes", <<lit.minus, lit.n, lit.w>>)
      [] f.type \in Integral -> encodeInteger(f, lit)
      [] f.type = "bool" -> encodeBool(f, lit)
      [] f.type \in Floats -> encodeFloat(f, lit)
      [] f.type = "enum" -> encodeEnum(p, f, lit)
      [] OTHER -> Failed("type")

\* appendSubmessage: a body as the value of f.
appendSubmessage(f, body) ==
    <<Rec(f.number, IF f.type = "group" THEN "group" ELSE "bytes", 0, NoText, body)>>

\* messageSetItem: a field as the item group of a MessageSet.
messageSetItem(number, field) ==
    <<Rec(1, "group", 0, NoText,
          <<Rec(2, "varint", number, NoText, <<>>), Rec(3, "bytes", 0, NoText, field[1].body)>>)>>

-------------------------------------------------------------------------------
(* The pool p, by full name: the fields of p.messages, the MessageSets in          *)
(* p.sets, the numbers of the values of p.enums, and the sequence p.extensions.    *)

NoField == [name |-> "", number |-> 0, type |-> "none", of |-> <<>>, repeated |-> FALSE,
            targets |-> {}, source |-> FALSE]

FullName(e) == e.package \o e.within \o <<e.field.name>>

\* collectMsgFields: a group goes by the name of its type as well.
FieldNamed(p, type, name) ==
    LET named == {f \in p.messages[type] :
                     f.name = name \/ (f.type = "group" /\ f.of[Len(f.of)] = name)}
    IN  IF type \notin DOMAIN p.messages \/ named = {} THEN NoField
        ELSE CHOOSE f \in named : TRUE

\* collectExtensionsByExtendee: later declarations overwrite earlier ones.
ExtensionNamed(p, type, fullName) ==
    LET at == {i \in DOMAIN p.extensions : /\ p.extensions[i].extendee = type
                                           /\ FullName(p.extensions[i]) = fullName}
    IN  IF at = {} THEN NoField ELSE p.extensions[Max(at)].field

\* The entries of a message literal, in the order of their numbers.
SortedByNumber(entries) ==
    LET numbers == SetToSortSeq({entries[i].number : i \in DOMAIN entries}, <)
    IN  FlattenSeq([k \in DOMAIN numbers |->
            FlattenSeq([i \in DOMAIN entries |->
                IF entries[i].number = numbers[k] THEN entries[i].out ELSE <<>>])])

\* What keeps an entry e for the field f from being encoded, before its value is.
EntryRefused(f, e, seen) ==
    CASE f = NoField -> "unknown field"
      [] ~f.repeated /\ e.name \in seen -> "twice"
      [] e.trailing -> "trailing comma"
      [] e.fields = <<>> /\ e.positive -> "plus"
      [] OTHER -> ""

RECURSIVE encodeAggregateFields(_, _, _, _)

\* One entry of a literal of the message type.  An entry with a nested literal that
\* is empty counts as a scalar.  Inside, an entry of an Any may name a type, and
\* becomes the two fields of the Any.
encodeEntry(p, type, e, seen, nested) ==
    LET f == IF e.extension THEN ExtensionNamed(p, type, e.name)
             ELSE FieldNamed(p, type, e.name[1])
        refused == EntryRefused(f, e, seen)
        value == IF e.fields # <<>> THEN encodeAggregateFields(p, f, e.fields, TRUE)
                 ELSE encodeCustomOptionValue(p, f, e.lit)
        any == encodeAggregateFields(p, [NoField EXCEPT !.number = 2, !.type = "message", !.of = e.name],
                                     e.fields, TRUE)
    IN  IF nested /\ e.url /\ type = p.any
        THEN [any EXCEPT !.out = <<Rec(1, "bytes", 0, <<0, 0, "url">>, <<>>)>> \o @]
        ELSE IF refused # "" THEN Failed(refused)
        ELSE IF value.error = "" /\ e.fields # <<>> /\ e.extension /\ type \in p.sets
             THEN Wrote(messageSetItem(f.number, value.out))
        ELSE value

\* The number an entry is sorted under: that of its field, whatever it is written as.
EntryNumber(p, type, e, nested) ==
    IF nested /\ e.url /\ type = p.any THEN 1
    ELSE IF e.extension THEN ExtensionNamed(p, type, e.name).number
    ELSE FieldNamed(p, type, e.name[1]).number

\* encodeAggregateOption, and encodeAggregateFields for the literals inside: the
\* first error counts, a field that is not repeated is taken once.
encodeAggregateFields(p, f, fields, nested) ==
    LET Add(acc, e) ==
            LET o == encodeEntry(p, f.of, e, acc.seen, nested)
            IN  IF acc.error # "" THEN acc
                ELSE [error |-> o.error, seen |-> acc.seen \cup {e.name},
                      entries |-> Append(acc.entries,
                                         [number |-> EntryNumber(p, f.of, e, nested), out |-> o.out])]
        all == FoldLeft(Add, [error |-> "", seen |-> {}, entries |-> <<>>], fields)
    IN  IF f.of \notin DOMAIN p.messages THEN Failed("unknown type")
        ELSE IF all.error # "" THEN Failed(all.error)
        ELSE Wrote(appendSubmessage(f, SortedByNumber(all.entries)))

encodeAggregateOption(p, f, fields) == encodeAggregateFields(p, f, fields, FALSE)

\* checkIntRangeOption: a value that does not parse is left to the encoding.
checkIntRangeOption(f, lit) ==
    /\ f.type \in {"int32", "sint32", "sfixed32", "uint32", "fixed32"}
    /\ \/ Parses(lit, "int64") /\ Number(lit) \notin Range32(f.type)
       \/ ~Parses(lit, "int64") /\ f.type \in Unsigned
          /\ Parses(lit, "uint64") /\ Number(lit) \notin Range32(f.type)
===============================================================================
