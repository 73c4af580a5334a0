----------------------------- MODULE MCTextDecode -----------------------------
(* Instances of TextDecode: every sequence of up to MaxChunks encodings of fields, *)
(* and endings that are broken off, read raw and as one of two messages.           *)
EXTENDS TextDecode

CONSTANTS MaxChunks

F(num, name, type, label, of, oneof) ==
    [num |-> num, name |-> name, type |-> type, label |-> label, of |-> of, oneof |-> oneof, explicit |-> FALSE]
Scalar1(num, name, type) == F(num, name, type, "optional", "", NoOneof)
Msg(fields) == [fields |-> fields, mapEntry |-> FALSE]

Two == [syntax |-> "proto2", implicit |-> FALSE,
        messages |-> [n \in {"M", "G", "E"} |->
            CASE n = "M" -> Msg(<<Scalar1(1, "a", "int32"), F(2, "m", "message", "optional", "M", NoOneof),
                                  F(3, "e", "enum", "repeated", "Closed", NoOneof),
                                  F(4, "g", "group", "optional", "G", NoOneof),
                                  F(5, "s", "string", "optional", "", 1),
                                  F(6, "n", "message", "optional", "G", 1),
                                  F(10, "q", "message", "optional", "G", NoOneof)>>)
              [] n = "G" -> Msg(<<F(1, "r", "sint32", "required", "", NoOneof), Scalar1(2, "x", "bytes")>>)
              [] n = "E" -> Msg(<<>>)],
        enums |-> [n \in {"Closed"} |-> [values |-> <<[number |-> 0, name |-> "ZERO"], [number |-> 2, name |-> "TWO"],
                                                       [number |-> 2, name |-> "AGAIN"]>>, open |-> FALSE]],
        extensions |-> {[extendee |-> "M", field |-> F(7, "[x]", "fixed32", "repeated", "", NoOneof)]}]

Three == [syntax |-> "proto3", implicit |-> FALSE,
          messages |-> [n \in {"P", "MapEntry"} |->
            IF n = "P"
            THEN Msg(<<Scalar1(1, "i", "int32"), Scalar1(2, "t", "string"),
                       F(3, "map", "message", "repeated", "MapEntry", NoOneof),
                       [Scalar1(4, "o", "enum") EXCEPT !.of = "Open"],
                       [Scalar1(5, "u", "sint64") EXCEPT !.explicit = TRUE]>>)
            ELSE [fields |-> <<Scalar1(1, "key", "int32"), Scalar1(2, "value", "bool")>>, mapEntry |-> TRUE]],
          enums |-> [n \in {"Open"} |-> [values |-> <<[number |-> 0, name |-> "NONE"]>>, open |-> TRUE]],
          extensions |-> {}]

Varint(num, n) == <<Item(num, "varint", n, <<>>)>>
Word(num, wt, n) == <<Item(num, wt, n, <<>>)>>
Delimited(num, payload) == <<Item(num, "bytes", 0, payload)>>
Text(rank) == Payload(rank, TRUE, <<Bad>>, <<Cut>>)
Nonsense == Payload(9, FALSE, <<Bad>>, <<Cut>>)
Message(rank, items) == Payload(rank, TRUE, items, <<Cut>>)
Packed(rank, numbers) == Payload(rank, TRUE, <<Bad>>, numbers)
Start(num) == <<Item(num, "start", 0, <<>>)>>
End(num) == <<Item(num, "end", 0, <<>>)>>
Grouped(num, items) == Start(num) \o items \o End(num)

ChunksTwo == {Varint(1, 1), Varint(1, 7), Delimited(2, Message(1, Varint(1, 3))),
              Delimited(2, Message(2, Delimited(2, Message(1, Varint(1, 3))) \o Varint(3, 2))),
              Delimited(2, Empty), Varint(3, 2), Delimited(3, Packed(3, <<0, 1, 2>>)),
              Grouped(4, Varint(1, 2)), Grouped(4, Grouped(4, Varint(2, 1))),
              Grouped(4, Grouped(8, Varint(1, 2))),
              Delimited(5, Text(4)), Delimited(6, Message(5, Varint(1, 3))), Delimited(6, Empty),
              Delimited(10, Message(5, Varint(1, 3))), Delimited(10, Empty),
              Word(7, "fixed32", 3), Delimited(9, Message(5, Varint(1, 3)))}

Entry3(rank, key, value) == Delimited(3, Message(rank, Varint(1, key) \o Varint(2, value)))
ChunksThree == {Varint(1, 0), Varint(1, 5), Varint(1, 8), Delimited(2, Empty), Delimited(2, Text(4)),
                Delimited(2, Nonsense), Entry3(1, 1, 1), Entry3(2, 7, 0),
                Delimited(3, Message(3, Varint(2, 1))), Delimited(3, Empty), Varint(4, 0), Varint(4, 3),
                Varint(5, 0), Varint(5, 3), Word(1, "fixed32", 2), Delimited(8, Nonsense)}

\* What the input may end with.
Tails == {<<>>, <<Bad>>, Varint(1, 17), Varint(1, Cut), Word(7, "fixed32", Cut), Delimited(2, <<>>), Start(4),
          Start(4) \o Varint(1, 2), Grouped(4, Start(8) \o Varint(1, 1) \o End(8)), End(4),
          Start(4) \o Varint(1, 2) \o End(8), Start(4) \o Word(7, "fixed64", Cut), Delimited(3, Packed(3, <<2, Cut>>)),
          Delimited(9, Message(6, Start(1))), Delimited(2, Message(7, Start(4))),
          Delimited(2, Message(8, Delimited(2, Message(8, Delimited(2, Empty)))))}

Inputs(chunks) == {FlattenSeq(cs) : cs \in BoundedSeq(chunks, MaxChunks)}
                  \cup {FlattenSeq(cs) \o tail : cs \in BoundedSeq(chunks, 2), tail \in Tails}

MCFiles == {Two, Three}

MCJobs == {[mode |-> "decode", type |-> "M", data |-> d] : d \in Inputs(ChunksTwo)}
          \cup {[mode |-> "decode", type |-> "P", data |-> d] : d \in Inputs(ChunksThree)}
          \cup {[mode |-> "decode_raw", type |-> "", data |-> d] : d \in Inputs(ChunksTwo)}
          \cup {[mode |-> "decode", type |-> "Q", data |-> <<>>]}
===============================================================================
