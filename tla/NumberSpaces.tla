----------------------------- MODULE NumberSpaces -----------------------------
(***************************************************************************)
(* The numbers of messages, extensions and enums.  The parser stores the   *)
(* ranges a message reserves or opens for extensions as half-open ranges   *)
(* of int32.  The first validators of compileInternal then look for        *)
(* numbers that are out of bounds, used twice, or both used and set aside, *)
(* one kind of mistake after the other over all files, and collect errors, *)
(* warnings and requests for suggestions.  --print_free_field_numbers      *)
(* prints what is left of the numbers of each message.                     *)
(*                                                                         *)
(* DescriptorPhases puts these steps in order with the validators of names *)
(* and of features.  Map keys and the options of phase 1 that concern no   *)
(* number are left out: the pools considered have no mistake there.        *)
(***************************************************************************)
EXTENDS Integers, Sequences, FiniteSets, SequencesExt

CONSTANTS
    MaxInt,                         \* the largest int32
    MaxFieldNumber,                 \* kMaxFieldNumber
    FirstReserved, LastReserved,    \* numbers protobuf keeps for itself
    MaxSuggestions,                 \* kMaxSuggestions
    Top,                            \* the scope of the extensions outside messages
    Jobs                            \* the pools considered, in families

VARIABLES
    job,            \* the files as written
    at,             \* the validator that is next; 0: the parser
    parsed,         \* the ranges of each message as the descriptors have them
    errors,         \* buildErrors: what is wrong, and where
    warnings,       \* the extensions warned of
    hints,          \* fieldsToSuggest of each message
    suggestions,    \* the numbers suggested for a message
    outcome,        \* of the compilation
    printed         \* the intervals printed as free for a message

\* Conversion to int32.
Int32(n) == ((n + MaxInt + 1) % (2 * (MaxInt + 1))) - (MaxInt + 1)

Messages == DOMAIN job.messages
Enums == DOMAIN job.enums
Ext == job.extensions
Exts == DOMAIN Ext                      \* an extension is named by its position
Fields(m) == job.messages[m].fields
Checked == {m \in Messages : ~ job.messages[m].mapEntry}

\* What is written of numbers in the files of a job: no range of a message has a negative
\* end, a map entry has the fields 1 and 2, a message is in other ones, and extensions come
\* file by file.  The parser admits no range of an enum that ends before it starts.
IsSequence(s) == s \in Seq(Range(s))
IsWritten(r) == r.first \in 0 .. MaxInt /\ r.last \in 0 .. MaxInt /\ r.max \in BOOLEAN

IsMessage(j, m) ==
    LET M == j.messages[m]
    IN  /\ IsSequence(M.fields) /\ IsSequence(M.reserved)
        /\ IsSequence(M.extensions) /\ IsSequence(M.reservedNames)
        /\ \A f \in Range(M.fields) : f.number \in Int
        /\ \A r \in Range(M.reserved) \cup Range(M.extensions) : IsWritten(r)
        /\ M.mapEntry => M.extensions = <<>> /\ \A f \in Range(M.fields) : f.number \in {1, 2}
        /\ IsFiniteSet(M.within) /\ m \notin M.within
        /\ \A o \in M.within :
              /\ o \in DOMAIN j.messages /\ ~j.messages[o].mapEntry
              /\ j.messages[o].within \subseteq M.within

IsEnum(E) ==
    /\ IsSequence(E.values) /\ IsSequence(E.reserved) /\ IsSequence(E.reservedNames)
    /\ \A v \in Range(E.values) : v.number \in Int
    /\ \A r \in Range(E.reserved) : r.first \in Int /\ r.last \in Int /\ r.first <= r.last

IsJob(j) ==
    /\ \A m \in DOMAIN j.messages : IsMessage(j, m)
    /\ \A e \in DOMAIN j.enums : IsEnum(j.enums[e])
    /\ IsSequence(j.extensions)
    /\ \A x \in Range(j.extensions) : x.number \in Int /\ x.extendee \in DOMAIN j.messages
    /\ \A x, y, z \in DOMAIN j.extensions :
          x < y /\ y < z /\ j.extensions[x].file = j.extensions[z].file
             => j.extensions[y].file = j.extensions[z].file

-------------------------------------------------------------------------------
(* The parser. *)

\* The end of a range, in int64.
ReservedEnd(r) == IF r.max THEN MaxFieldNumber + 1 ELSE r.last + 1
ExtensionEnd(m, r) ==
    IF r.max /\ job.messages[m].messageSet = "before" THEN MaxInt ELSE ReservedEnd(r)

\* A message set, at its closing brace, extends every range that ends at the maximum.
FixedEnd(m, end) ==
    IF job.messages[m].messageSet # "no" /\ end = MaxFieldNumber + 1 THEN MaxInt ELSE end

Disordered(m) ==
    \/ \E r \in Range(job.messages[m].reserved) : ReservedEnd(r) <= r.first
    \/ \E r \in Range(job.messages[m].extensions) : ExtensionEnd(m, r) <= r.first

ParsedMessage(m) ==
    LET reserved == job.messages[m].reserved
        extensions == job.messages[m].extensions
    IN  [reserved |-> [i \in DOMAIN reserved |->
                         [from |-> reserved[i].first, to |-> Int32(ReservedEnd(reserved[i]))]],
         extensions |-> [i \in DOMAIN extensions |->
                           [from |-> extensions[i].first,
                            to |-> FixedEnd(m, Int32(ExtensionEnd(m, extensions[i])))]]]

Parse ==
    /\ at = 0 /\ outcome = "running"
    /\ IF \E m \in Messages : Disordered(m)
       THEN outcome' = "unparsed" /\ UNCHANGED <<at, parsed>>
       ELSE /\ parsed' = [m \in Messages |-> ParsedMessage(m)]
            /\ at' = 1
            /\ UNCHANGED outcome
    /\ UNCHANGED <<job, errors, warnings, hints, suggestions, printed>>

-------------------------------------------------------------------------------
(* Ranges, free numbers, suggestions. *)

In(n, r) == r.from <= n /\ n < r.to
\* Mutant: ends are taken to be inclusive.
OverlapOrTouch(r, s) == r.to >= s.from /\ s.to >= r.from

Overlap(r, s) == r.to > s.from /\ s.to > r.from
Single(n) == [from |-> n, to |-> n + 1]
Between(n, low, high) == IF n < low THEN low ELSE IF n > high THEN high ELSE n

SomeOverlap(ranges) ==
    \E i, j \in DOMAIN ranges : i < j /\ Overlap(ranges[i], ranges[j])

\* The ranges by their starts, and by their ends where these are the same.
Sorted(ranges) ==
    LET Lower(r) == {s \in ranges : s.from < r.from \/ (s.from = r.from /\ s.to < r.to)}
    IN  [i \in 1 .. Cardinality(ranges) |-> CHOOSE r \in ranges : Cardinality(Lower(r)) = i - 1]

\* What suggestFieldNumbers collects as used: numbers that are legal, ranges cut to
\* the legal ones, the last number and the ones protobuf keeps for itself.
Taken(m) ==
    LET numbers == {f.number : f \in Range(Fields(m))}
                       \cup {x.number : x \in {y \in Range(Ext) : y.scope = m}}
        cut == {[from |-> Between(r.from, 0, MaxFieldNumber + 1),
                 to |-> Between(r.to, 0, MaxFieldNumber + 1)] :
                   r \in Range(parsed[m].reserved) \cup Range(parsed[m].extensions)}
    IN  {Single(n) : n \in {k \in numbers : 0 < k /\ k <= MaxFieldNumber}}
            \cup {r \in cut : r.from < r.to}
            \cup {Single(MaxFieldNumber), [from |-> FirstReserved, to |-> LastReserved + 1]}

\* The numbers before each of the ranges, in order, until there are count of them.
suggestFieldNumbers(m, count) ==
    LET Before(s, r) ==
            LET wanted == count - Len(s.parts)
                new == Between(r.from - s.current, 0, wanted)
                parts == s.parts \o [i \in 1 .. new |-> s.current + i - 1]
            IN  [parts |-> parts,
                 current |-> IF s.current + new < r.to THEN r.to ELSE s.current + new]
    IN  FoldLeft(Before, [parts |-> <<>>, current |-> 1], Sorted(Taken(m))).parts

\* Mutant: a range that ends before the next free number takes it back.
printFreeGoingBack(m) ==
    LET used == {Single(f.number) : f \in Range(Fields(m))}
                    \cup Range(parsed[m].extensions) \cup Range(parsed[m].reserved)
        Take(s, r) ==
            [free |-> IF s.next < r.from
                      THEN Append(s.free, [from |-> s.next, to |-> r.from]) ELSE s.free,
             next |-> r.to]
        end == FoldLeft(Take, [free |-> <<>>, next |-> 1], Sorted(used))
    IN  Append(end.free, [from |-> end.next, to |-> MaxFieldNumber + 1])

\* What printFreeFieldNumbers prints; the last interval may be open.
printFreeFieldNumbers(m) ==
    LET used == {Single(f.number) : f \in Range(Fields(m))}
                    \cup Range(parsed[m].extensions) \cup Range(parsed[m].reserved)
        Skip(s, r) ==
            IF s.next >= r.to THEN s
            ELSE [free |-> IF s.next < r.from
                           THEN Append(s.free, [from |-> s.next, to |-> r.from]) ELSE s.free,
                  next |-> r.to]
        end == FoldLeft(Skip, [free |-> <<>>, next |-> 1], Sorted(used))
    IN  IF end.next <= MaxFieldNumber
        THEN Append(end.free, [from |-> end.next, to |-> MaxFieldNumber + 1])
        ELSE end.free

-------------------------------------------------------------------------------
(* The validators of phase 1, in the order of compileInternal. *)

Validators ==
    <<"ExtRangePositive", "PositiveFieldNumbers", "MaxFieldNumbers", "ExtRangeMax",
      "ReservedFieldNumbers", "ReservedNumberConflicts", "DuplicateReservedNames",
      "ReservedNameConflicts", "DuplicateFieldNumbers", "EmptyOneofs", "EmptyEnums",
      "DuplicateEnumValues", "ExtensionFieldConflicts", "Suggestions",
      "ReservedRangeOverlaps", "EnumReservedRangeOverlaps", "EnumReservedValueConflicts",
      "EnumReservedNameConflicts", "ExtensionRangeOverlaps", "ExtensionReservedOverlaps",
      "ExtensionRanges", "DuplicateExtensionNumbers", "MessageSetFields">>

Turn(v) == outcome = "running" /\ at \in DOMAIN Validators /\ Validators[at] = v

\* A validator adds an error for each of wrong, and the numbers it asks for.
ReportAndAsk(v, wrong, request) ==
    /\ Turn(v)
    /\ errors' = errors \cup {[what |-> v, of |-> x] : x \in wrong}
    /\ hints' = [m \in Messages |-> Between(hints[m] + request[m], 0, MaxFieldNumber)]
    /\ at' = at + 1
    /\ UNCHANGED <<job, parsed, warnings, suggestions, outcome, printed>>

Report(v, wrong) == ReportAndAsk(v, wrong, [m \in Messages |-> 0])

\* The fields of the messages looked at, as pairs of a message and a position.
CheckedFields == UNION {{m} \X DOMAIN Fields(m) : m \in Checked}
Number(k) == Fields(k[1])[k[2]].number

\* One number is asked for each field with a mistake.
ReportFields(v, wrong, others) ==
    ReportAndAsk(v, {k[1] : k \in wrong} \cup others,
                 [m \in Messages |-> Cardinality({k \in wrong : k[1] = m})])

\* As many numbers are asked for as such a range has.
NotPositive(m) == {i \in DOMAIN parsed[m].extensions : parsed[m].extensions[i].from <= 0}
SizeOfRange(r) == Between(r.to - r.from, 0, MaxFieldNumber)
AskedForRanges(m) == MapThenSumSet(LAMBDA i : SizeOfRange(parsed[m].extensions[i]), NotPositive(m))

ExtRangePositive ==
    ReportAndAsk("ExtRangePositive", {m \in Checked : NotPositive(m) # {}},
                 [m \in Messages |-> IF m \in Checked THEN AskedForRanges(m) ELSE 0])

PositiveFieldNumbers ==
    ReportFields("PositiveFieldNumbers", {k \in CheckedFields : Number(k) <= 0}, {})

MaxFieldNumbers ==
    ReportFields("MaxFieldNumbers", {k \in CheckedFields : Number(k) > MaxFieldNumber},
                 {x \in Exts : Ext[x].number > MaxFieldNumber})

\* A message with such a range hides the messages in it.
ExtRangeMax ==
    LET TooLarge(m) == /\ job.messages[m].messageSet = "no"
                       /\ \E r \in Range(parsed[m].extensions) : r.to > MaxFieldNumber + 1
    IN  Report("ExtRangeMax",
               {m \in Checked : TooLarge(m) /\ \A o \in job.messages[m].within : ~ TooLarge(o)})

KeptByProtobuf(n) == FirstReserved <= n /\ n <= LastReserved

ReservedFieldNumbers ==
    Report("ReservedFieldNumbers",
           {m \in Messages : \E f \in Range(Fields(m)) : KeptByProtobuf(f.number)}
               \cup {x \in Exts : KeptByProtobuf(Ext[x].number)})

ReservedNumberConflicts ==
    ReportFields("ReservedNumberConflicts",
                 {k \in CheckedFields : \E r \in Range(parsed[k[1]].reserved) : In(Number(k), r)}, {})

Repeated(seq) == Cardinality(Range(seq)) < Len(seq)
NumbersOf(seq) == [i \in DOMAIN seq |-> seq[i].number]
NamesOf(seq) == [i \in DOMAIN seq |-> seq[i].name]

DuplicateReservedNames ==
    Report("DuplicateReservedNames",
           {m \in Checked : Repeated(job.messages[m].reservedNames)}
               \cup {e \in Enums : Repeated(job.enums[e].reservedNames)})

ReservedNameConflicts ==
    Report("ReservedNameConflicts",
           {m \in Checked : Range(NamesOf(Fields(m))) \cap Range(job.messages[m].reservedNames) # {}})

DuplicateFieldNumbers ==
    Report("DuplicateFieldNumbers", {m \in Checked : Repeated(NumbersOf(Fields(m)))})

EmptyOneofs ==
    Report("EmptyOneofs",
           {m \in Checked : \E o \in 1 .. job.messages[m].oneofs :
                              \A f \in Range(Fields(m)) : f.oneof # o})

EmptyEnums == Report("EmptyEnums", {e \in Enums : job.enums[e].values = <<>>})

DuplicateEnumValues ==
    Report("DuplicateEnumValues",
           {e \in Enums : ~ job.enums[e].allowAlias /\ Repeated(NumbersOf(job.enums[e].values))})

ExtensionFieldConflicts ==
    ReportFields("ExtensionFieldConflicts",
                 {k \in CheckedFields : \E r \in Range(parsed[k[1]].extensions) : In(Number(k), r)}, {})

\* appendSuggestions: at most MaxSuggestions numbers, for the messages they are asked for.
Suggest ==
    /\ Turn("Suggestions")
    /\ suggestions' = [m \in Messages |->
                         suggestFieldNumbers(m, Between(hints[m], 0, MaxSuggestions))]
    /\ at' = at + 1
    /\ UNCHANGED <<job, parsed, errors, warnings, hints, outcome, printed>>

ReservedRangeOverlaps ==
    Report("ReservedRangeOverlaps", {m \in Checked : SomeOverlap(parsed[m].reserved)})

\* The ranges an enum reserves include their end, here and in the descriptor.
InEnumRange(n, r) == r.first <= n /\ n <= r.last

EnumReservedRangeOverlaps ==
    Report("EnumReservedRangeOverlaps",
           {e \in Enums : LET ranges == job.enums[e].reserved
                          IN  \E i, j \in DOMAIN ranges :
                                /\ i < j
                                /\ ranges[i].first <= ranges[j].last
                                /\ ranges[j].first <= ranges[i].last})

EnumReservedValueConflicts ==
    Report("EnumReservedValueConflicts",
           {e \in Enums : \E v \in Range(job.enums[e].values), r \in Range(job.enums[e].reserved) :
                            InEnumRange(v.number, r)})

EnumReservedNameConflicts ==
    Report("EnumReservedNameConflicts",
           {e \in Enums : Range(NamesOf(job.enums[e].values))
                              \cap Range(job.enums[e].reservedNames) # {}})

ExtensionRangeOverlaps ==
    Report("ExtensionRangeOverlaps", {m \in Checked : SomeOverlap(parsed[m].extensions)})

ExtensionReservedOverlaps ==
    Report("ExtensionReservedOverlaps",
           {m \in Checked : \E r \in Range(parsed[m].extensions), s \in Range(parsed[m].reserved) :
                              Overlap(r, s)})

ExtensionRanges ==
    Report("ExtensionRanges",
           {x \in Exts : ~ \E r \in Range(parsed[Ext[x].extendee].extensions) : In(Ext[x].number, r)})

\* The first extension with a number is what the later ones are compared to.
Earlier(x) == {y \in 1 .. x - 1 : Ext[y].extendee = Ext[x].extendee /\ Ext[y].number = Ext[x].number}
\* Mutant: only the extension before is looked at.
ReusedInRow ==
    {x \in Exts : x - 1 \in Earlier(x)}
Reused == {x \in Exts : Earlier(x) # {}}
SameFile(x) == Ext[Min(Earlier(x))].file = Ext[x].file

DuplicateExtensionNumbers ==
    /\ Turn("DuplicateExtensionNumbers")
    /\ errors' = errors \cup {[what |-> "DuplicateExtensionNumbers", of |-> x] :
                                x \in {y \in Reused : SameFile(y)}}
    /\ warnings' = {x \in Reused : ~ SameFile(x)}
    /\ at' = at + 1
    /\ UNCHANGED <<job, parsed, hints, suggestions, outcome, printed>>

MessageSetFields ==
    Report("MessageSetFields",
           {m \in Checked : job.messages[m].messageSet # "no" /\ Fields(m) # <<>>})

\* The end of phase 1, where the other validators of the phase found others wrong.
Decide(others) ==
    /\ at > Len(Validators) /\ outcome = "running"
    /\ outcome' = IF errors = {} /\ others = {} THEN "accepted" ELSE "refused"
    /\ UNCHANGED <<job, at, parsed, errors, warnings, hints, suggestions, printed>>

\* --print_free_field_numbers, for every message of the files.
PrintFree ==
    /\ outcome = "accepted"
    /\ printed' = [m \in Messages |-> printFreeFieldNumbers(m)]
    /\ outcome' = "printed"
    /\ UNCHANGED <<job, at, parsed, errors, warnings, hints, suggestions>>

Validate ==
    \/ ExtRangePositive \/ PositiveFieldNumbers \/ MaxFieldNumbers \/ ExtRangeMax
    \/ ReservedFieldNumbers \/ ReservedNumberConflicts \/ DuplicateReservedNames
    \/ ReservedNameConflicts \/ DuplicateFieldNumbers \/ EmptyOneofs \/ EmptyEnums
    \/ DuplicateEnumValues \/ ExtensionFieldConflicts \/ Suggest
    \/ ReservedRangeOverlaps \/ EnumReservedRangeOverlaps \/ EnumReservedValueConflicts
    \/ EnumReservedNameConflicts \/ ExtensionRangeOverlaps \/ ExtensionReservedOverlaps
    \/ ExtensionRanges \/ DuplicateExtensionNumbers \/ MessageSetFields

Init ==
    /\ \E family \in Jobs : job \in family
    /\ at = 0
    /\ parsed = [m \in {} |-> 0]
    /\ errors = {} /\ warnings = {}
    /\ hints = [m \in Messages |-> 0]
    /\ suggestions = [m \in Messages |-> <<>>]
    /\ outcome = "running"
    /\ printed = [m \in Messages |-> <<>>]

-------------------------------------------------------------------------------
(* Properties. *)

Decided == outcome \in {"accepted", "refused", "printed"}
Named == {e.of : e \in errors}

\* The numbers of a range of a descriptor, and of all ranges of a message.
Numbers(r) == r.from .. r.to - 1
Legal == (1 .. MaxFieldNumber) \ (FirstReserved .. LastReserved)

\* The three ways a message can spend a number, as sets of numbers in a sequence.
Spent(m) ==
    [i \in DOMAIN Fields(m) |-> {Fields(m)[i].number}]
        \o [i \in DOMAIN parsed[m].reserved |-> Numbers(parsed[m].reserved[i])]
        \o [i \in DOMAIN parsed[m].extensions |-> Numbers(parsed[m].extensions[i])]

OffendingMessage(m) ==
    LET M == job.messages[m] spent == Spent(m)
    IN  /\ m \in Checked
        /\ \/ ~ Range(NumbersOf(M.fields)) \subseteq Legal
           \/ \E i, j \in DOMAIN spent : i # j /\ spent[i] \cap spent[j] # {}
           \/ \E r \in Range(parsed[m].extensions) : r.from < 1
           \/ /\ M.messageSet = "no"
              /\ \E r \in Range(parsed[m].extensions) : ~ Numbers(r) \subseteq 1 .. MaxFieldNumber
           \/ M.messageSet # "no" /\ M.fields # <<>>
           \/ \E f \in Range(M.fields), n \in Range(M.reservedNames) : f.name = n
           \/ \E i, j \in DOMAIN M.reservedNames : i # j /\ M.reservedNames[i] = M.reservedNames[j]
           \/ ~ 1 .. M.oneofs \subseteq {f.oneof : f \in Range(M.fields)}

OffendingEnum(e) ==
    LET E == job.enums[e]
        reserved == [i \in DOMAIN E.reserved |-> E.reserved[i].first .. E.reserved[i].last]
    IN  \/ E.values = <<>>
        \/ \E i, j \in DOMAIN E.values :
             i # j /\ ~ E.allowAlias /\ E.values[i].number = E.values[j].number
        \/ \E v \in Range(E.values) :
             v.number \in UNION Range(reserved) \/ v.name \in Range(E.reservedNames)
        \/ \E i, j \in DOMAIN reserved : i # j /\ reserved[i] \cap reserved[j] # {}
        \/ \E i, j \in DOMAIN E.reservedNames : i # j /\ E.reservedNames[i] = E.reservedNames[j]

OffendingExtension(x) ==
    \/ Ext[x].number \notin Legal
    \/ Ext[x].number \notin UNION {Numbers(r) : r \in Range(parsed[Ext[x].extendee].extensions)}
    \/ Earlier(x) # {} /\ \A y \in Earlier(x) : Ext[y].file = Ext[x].file

\* The numbers are accepted exactly if every number has one use, in bounds, and the
\* errors name the offenders: everyone they name is one, and every one is named, unless
\* it is in a message with an extension range that is too large (collectExtRangeMaxErrors
\* returns before it looks at what is inside), or is an extension with a number that is
\* not positive, where the range that opens the number is named instead (no validator of
\* positive numbers looks at extensions).
OffendersAreNamed ==
    Decided =>
        LET offenders == {m \in Messages : OffendingMessage(m)} \cup {e \in Enums : OffendingEnum(e)}
                             \cup {x \in Exts : OffendingExtension(x)}
        IN  /\ errors = {} <=> offenders = {}
            /\ Named \subseteq offenders
            /\ errors # {} => outcome = "refused"
            /\ \A o \in offenders :
                 \/ o \in Named
                 \/ o \in Messages /\ job.messages[o].within \cap Named # {}
                 \/ o \in Exts /\ Ext[o].number < 1 /\ Ext[o].extendee \in Named

\* No extension number is used twice without a word: for any two extensions of a message
\* with one number, the later is an error or a warning (validateDuplicateExtensionNumbers),
\* and in a pool that is accepted another file used the number before the later one's.
ReuseIsNeverSilent ==
    Decided =>
        \A x, y \in Exts :
            x < y /\ Ext[x].extendee = Ext[y].extendee /\ Ext[x].number = Ext[y].number
            => /\ y \in Named \cup warnings
               /\ errors = {} => \E z \in Earlier(y) : Ext[z].file # Ext[y].file

Printed(m) == UNION {Numbers(r) : r \in Range(printed[m])}

\* What is offered as free is free.  The numbers suggested for a message are the lowest
\* free ones, in order, as many as are asked for if there are so many, and only a message
\* with an error has any (suggestFieldNumbers, appendSuggestions); what is printed of a
\* message is what its fields and the ranges of its descriptor leave of the legal numbers
\* and, should a range start beyond these, of the numbers before it (printFreeFieldNumbers).
FreeNumbersAreFree ==
    \A m \in Messages :
        LET numbers == suggestions[m]
            spent == UNION Range(Spent(m))
            free == (Legal \ {MaxFieldNumber})
                        \ (spent \cup {x.number : x \in {y \in Range(Ext) : y.scope = m}})
        IN  /\ numbers # <<>> =>
                /\ m \in Named
                /\ Range(numbers) \subseteq free
                /\ \A i, j \in DOMAIN numbers : i < j => numbers[i] < numbers[j]
                /\ \A n \in free \ Range(numbers) : Len(numbers) = MaxSuggestions \/ Len(numbers) = hints[m]
                /\ \A n \in free \ Range(numbers), k \in Range(numbers) : k < n
            /\ outcome = "printed" =>
                  Printed(m) = {n \in 1 .. MaxInt \ spent : n <= MaxFieldNumber \/ \E k \in spent : n < k}

\* The usage text (cli.go:128): "Extension ranges are counted as occupied fields numbers."
ExtensionRangesAreOccupied ==
    outcome = "printed" =>
        \A m \in Messages : \A r \in Range(job.messages[m].extensions) :
            Printed(m) \cap (r.first .. (IF r.max THEN MaxFieldNumber ELSE r.last)) = {}
===============================================================================
