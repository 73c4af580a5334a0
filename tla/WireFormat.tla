------------------------------ MODULE WireFormat ------------------------------
(***************************************************************************)
(* Encoded messages as --decode_raw and --decode read them.  Every byte    *)
(* string splits in one way into items, a tag with the value that follows  *)
(* it, up to the first tag that cannot be read or value that is cut short; *)
(* such an item is the last one.  All the readers of cli.go take the same  *)
(* items off the front and differ in what they do with them.               *)
(*                                                                         *)
(* Numbers of 64 and 32 bits are scaled down to Wide and Narrow bits, and  *)
(* a varint of 2^Wide or more stands for one of ten bytes that overflows.  *)
(* Field numbers are below 16, so that a tag is one byte, and the bytes    *)
(* left behind a tag whose value is cut short are no tag themselves.       *)
(***************************************************************************)
EXTENDS Integers, SequencesExt

CONSTANTS Narrow, Wide
ASSUME WidthAssumption == Narrow \in Nat \ {0} /\ Wide \in Nat /\ Narrow < Wide

\* "start" and "end" are those of groups; "bad" is a tag that cannot be read or is
\* of an unknown type.
WireType == {"varint", "fixed64", "fixed32", "bytes", "start", "end", "bad"}

Cut == -1

Bad == [num |-> 0, wt |-> "bad", val |-> 0, bytes |-> <<>>]
Item(num, wt, val, bytes) == [num |-> num, wt |-> wt, val |-> val, bytes |-> bytes]

\* The bytes of a length-delimited value, in each way they can be read: as text, of a
\* rank in sort order (0 is empty); as a message; and as packed numbers.  What is no
\* message starts with a bad tag, what is no sequence of numbers ends in a cut one.
Payload(rank, utf8, items, numbers) ==
    <<[rank |-> rank, utf8 |-> utf8, items |-> items, numbers |-> numbers]>>
Empty == Payload(0, TRUE, <<>>, <<>>)
Bytes(item) == item.bytes[1]

Complete(item) ==
    CASE item.wt \in {"varint", "fixed64", "fixed32"} -> item.val # Cut
      [] item.wt = "bytes" -> item.bytes # <<>>
      [] OTHER -> FALSE

\* consumeVarintTruncated drops what does not fit; protowire.ConsumeVarint fails.
Truncated(item) == item.val % 2 ^ Wide
Strict(item) == Complete(item) /\ item.val < 2 ^ Wide

From(data, n) == SubSeq(data, n + 1, Len(data))

\* Mutant: a group is ended by the end of any other.
EndsAny(item, num) == item.wt = "end"

Ends(item, num) == item.wt = "end" /\ item.num = num

-------------------------------------------------------------------------------
(* validateRawProto and validateRawField: the number of items of the field in *)
(* front, or 0 if it is not valid.                                            *)

RECURSIVE validateRawField(_), validateRawGroup(_, _), validateRawProto(_)

\* The items of the contents of a group and its end.
validateRawGroup(num, data) ==
    IF data = <<>> THEN 0
    ELSE IF Ends(data[1], num) THEN 1
    ELSE LET n == validateRawField(data)
             m == validateRawGroup(num, From(data, n))
         IN  IF n > 0 /\ m > 0 THEN n + m ELSE 0

validateRawField(data) ==
    CASE Complete(data[1]) -> 1
      [] data[1].wt = "start" ->
            LET n == validateRawGroup(data[1].num, Tail(data)) IN IF n > 0 THEN n + 1 ELSE 0
      [] OTHER -> 0

validateRawProto(data) ==
    data = <<>> \/ LET n == validateRawField(data)
                   IN  n > 0 /\ validateRawProto(From(data, n))

-------------------------------------------------------------------------------
(* decodeRawProto and decodeRawField: what is printed, and the number of items  *)
(* read, which is 0 when reading fails.  A failure leaves what has been printed. *)

\* A line opens a message, closes one, or gives a value.  Fields are called by their
\* number, or by a name if their message is known.
NoName == ""
Open(name, num) == <<"open", name, num>>
Close == <<"close">>
Leaf(name, num, as, value) == <<"leaf", name, num, as, value>>

Indented(open, lines) == <<open>> \o lines \o <<Close>>

RECURSIVE decodeRawField(_), decodeRawGroup(_, _), decodeRawProto(_)

\* Bytes are printed as a message if they can be read as one, and else as text.
decodeRawBytes(num, bytes) ==
    IF bytes.items # <<>> /\ validateRawProto(bytes.items)
    THEN Indented(Open(NoName, num), decodeRawProto(bytes.items))
    ELSE <<Leaf(NoName, num, "text", bytes.rank)>>

Read(n, lines) == [n |-> n, lines |-> lines]

\* A group that is never ended is printed all the same.
decodeRawGroup(num, data) ==
    IF data = <<>> THEN Read(0, <<Close>>)
    ELSE IF data[1].wt = "bad" THEN Read(-1, <<>>)
    ELSE IF Ends(data[1], num) THEN Read(1, <<Close>>)
    ELSE LET field == decodeRawField(data)
             rest == decodeRawGroup(num, From(data, field.n))
         IN  IF field.n = 0 THEN Read(-1, field.lines)
             ELSE Read(IF rest.n < 0 THEN -1 ELSE field.n + rest.n, field.lines \o rest.lines)

decodeRawField(data) ==
    LET item == data[1]
    IN  CASE item.wt = "bytes" /\ Complete(item) -> Read(1, decodeRawBytes(item.num, Bytes(item)))
          [] item.wt # "bytes" /\ Complete(item) ->
                Read(1, <<Leaf(NoName, item.num, item.wt,
                               IF item.wt = "varint" THEN Truncated(item) ELSE item.val)>>)
          [] item.wt = "start" ->
                LET group == decodeRawGroup(item.num, Tail(data))
                IN  Read(group.n + 1, <<Open(NoName, item.num)>> \o group.lines)
          [] OTHER -> Read(0, <<>>)

decodeRawProto(data) ==
    IF data = <<>> THEN <<>>
    ELSE LET field == decodeRawField(data)
         IN  field.lines \o (IF field.n = 0 THEN <<>> ELSE decodeRawProto(From(data, field.n)))
===============================================================================
