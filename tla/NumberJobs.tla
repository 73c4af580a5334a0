------------------------------ MODULE NumberJobs ------------------------------
(* Numbers to validate: fields against every pair of a reserved and an          *)
(* extension range; several ranges; nested messages; extensions of two files;    *)
(* enums; names and oneofs.  An int32 reaches 15 here, a field number 11.        *)
EXTENDS Integers, Sequences, TLC

\* Messages m, and n in m or its map entry; an enum; files; the scope outside messages.
CONSTANTS m, n, e, f, g, top

To(first, last) == [first |-> first, last |-> last, max |-> FALSE]
ToMax(first) == [first |-> first, last |-> first, max |-> TRUE]

\* The fields with the numbers; the first has the name and the oneof of interest.
WithNumbers(numbers) ==
    [i \in DOMAIN numbers |-> [name |-> i, number |-> numbers[i], oneof |-> IF i = 1 THEN 1 ELSE 0]]

Message(numbers, reserved, extensions) ==
    [fields |-> WithNumbers(numbers), reserved |-> reserved, extensions |-> extensions,
     within |-> {}, messageSet |-> "no", mapEntry |-> FALSE, reservedNames |-> <<>>, oneofs |-> 0]

\* The files with the declarations, and edition defaults, are of no interest here.
Job(messages, extensions, enums) ==
    [messages |-> messages, extensions |-> extensions, enums |-> enums,
     files |-> <<>>, outputs |-> {"free numbers"},
     pool |-> [known |-> TRUE, features |-> {}, minimum |-> 1, maximum |-> 1]]

Pool(messages, extensions) ==
    Job(messages, extensions, <<>>)

AtMostOne(S) == {<<>>} \cup {<<r>> : r \in S}

Ranges ==
    {To(0, 0), To(2, 3), To(3, 9), To(5, 4), To(9, 11), To(2, 15), To(13, 14), ToMax(2), ToMax(12)}

FieldJobs ==
    {Pool(m :> [Message(numbers, reserved, extensions) EXCEPT !.messageSet = set], <<>>) :
        numbers \in {<<>>, <<1>>} \cup {<<i, j>> : i, j \in {0, 2, 6, 10, 11, 12}},
        reserved \in AtMostOne(Ranges), extensions \in AtMostOne(Ranges),
        set \in {"no", "before", "after"}}

RangeJobs ==
    {Pool(m :> Message(<<>>, <<r1, r2>>, x), <<>>) :
        r1, r2 \in {To(1, 2), To(2, 15), To(3, 3), ToMax(4)},
        x \in {<<x1, x2>> : x1, x2 \in {To(2, 2), To(0, 4), To(5, 11), To(10, 12)}}}

\* What is wrong with m does not hide what is wrong with n; a map entry has two fields.
NestedJobs ==
    {Pool((m :> Message(outer, <<>>, ranges)) @@
          (n :> [Message(inner, <<>>, innerRanges) EXCEPT !.within = {m}]), <<>>) :
        outer, inner \in {<<1>>, <<1, 1>>, <<4>>},
        ranges, innerRanges \in AtMostOne({To(3, 4), To(3, 13)})}
    \cup
    {Pool((m :> Message(<<1>>, r, <<>>)) @@
          (n :> [Message(<<1, 2>>, <<>>, <<>>) EXCEPT !.within = {m}, !.mapEntry = TRUE]), <<>>) :
        r \in AtMostOne(Ranges)}

Extension == [number : {2, 3, 12}, extendee : {m, n}, file : {f, g}, scope : {top}]

FromFile(file) == {x \in Extension : x.file = file}

\* Extensions come file by file; m is open for some, n is a message set.
ExtensionJobs ==
    {Pool((m :> Message(<<1>>, <<>>, <<r>>)) @@
          (n :> [Message(<<>>, <<>>, <<ToMax(3)>>) EXCEPT !.messageSet = set]), x) :
        r \in {To(2, 3), To(3, 15), ToMax(2)}, set \in {"before", "after"},
        x \in {<<x1, x2, x3>> : x1 \in FromFile(f), x2 \in FromFile(f), x3 \in FromFile(f) \cup FromFile(g)}
                  \cup {<<x1, x2, x3>> : x1 \in FromFile(f), x2 \in FromFile(g), x3 \in FromFile(g)}}

\* Extensions in the scope of a message, next to fields with mistakes; the first may have
\* the number 0, which the range of its message may open.
ScopeJobs ==
    {Pool((m :> Message(<<0, i>>, <<>>, <<>>)) @@ (n :> Message(<<>>, <<>>, <<r>>)),
          [k \in 1 .. 2 |-> [number |-> k + j, extendee |-> n, file |-> f, scope |-> m]]) :
        i \in {0, 1, 7}, j \in -1 .. 2, r \in {To(2, 4), To(0, 2)}}

Values == {[name |-> k, number |-> v] : k \in {1}, v \in {-1, 0, 2}}
EnumRange == {To(-1, -1), To(-3, 0), To(1, 15), To(2, 2)}

EnumJobs ==
    {Job(m :> Message(<<1>>, <<>>, <<>>), <<>>,
         e :> [values |-> values, reserved |-> reserved, reservedNames |-> names,
               allowAlias |-> alias]) :
        values \in {<<>>} \cup {<<v, [w EXCEPT !.name = 2]>> : v, w \in Values},
        reserved \in AtMostOne(EnumRange) \cup {<<r, s>> : r, s \in EnumRange},
        names \in {<<>>, <<2>>, <<3, 3>>}, alias \in BOOLEAN}

NameJobs ==
    {Pool(m :> [Message(numbers, <<>>, <<>>) EXCEPT !.reservedNames = names, !.oneofs = k], <<>>) :
        numbers \in {<<>>, <<1>>, <<1, 2>>}, names \in {<<>>, <<1>>, <<2>>, <<3, 3>>, <<3, 1, 2>>},
        k \in 0 .. 2}

AllNumberJobs ==
    {FieldJobs, RangeJobs, NestedJobs, ExtensionJobs, ScopeJobs, EnumJobs, NameJobs}

\* Ranges up to the largest int32, and nothing else.
EdgeJobs ==
    {{Pool(m :> Message(<<1>>, <<>>, <<To(k, last)>>), <<>>) : k \in 2 .. 11, last \in 11 .. 15}}
===============================================================================
