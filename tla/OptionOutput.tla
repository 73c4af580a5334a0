----------------------------- MODULE OptionOutput -----------------------------
(***************************************************************************)
(* What becomes of the options once they are resolved: the canonical form  *)
(* of the files that have custom options, the copy of it without the       *)
(* options of source retention, and which of the forms each output takes.  *)
(* Built-in options are left out: of those of source retention, the        *)
(* declarations of extension ranges and built-in features go as well.      *)
(***************************************************************************)
EXTENDS OptionResolution

VARIABLES
    canonical,      \* the re-encoded bytes of each target; of all before Canonicalize
    kept,           \* the bytes without source retention
    shown,          \* the statements whose locations stay
    output,         \* what plugins and the descriptor set get, by target
    stage           \* "resolved", "canonical", "stripped" or "built"

outputVars == <<canonical, kept, shown, output, stage>>

InitOutput ==
    /\ canonical = [t \in Targets(job) |-> <<>>]
    /\ kept = [t \in Targets(job) |-> <<>>]
    /\ shown = {}
    /\ output = <<>>
    /\ stage = "resolved"

\* The field of a message type, or extension of it, that has the number; the last
\* declaration counts.
FieldNumbered(p, type, number) ==
    LET fields == IF type \in DOMAIN p.messages
                  THEN {f \in p.messages[type] : f.number = number} ELSE {}
        at_ == {i \in DOMAIN p.extensions : /\ p.extensions[i].extendee = type
                                            /\ p.extensions[i].field.number = number}
    IN  IF at_ # {} THEN p.extensions[Max(at_)].field
        ELSE IF fields # {} THEN CHOOSE f \in fields : TRUE
        ELSE NoField

IsExtension(p, type, number) ==
    \E i \in DOMAIN p.extensions : /\ p.extensions[i].extendee = type
                                   /\ p.extensions[i].field.number = number

HasPayload(r) == r.wire \in {"bytes", "group"}

-------------------------------------------------------------------------------
(* The canonical form. *)

RECURSIVE canonicalizeUnknown(_, _, _)

\* The record of the field f with the payload, in canonical form.
Emit(p, type, f, payload) ==
    LET field == appendSubmessage(f, canonicalizeUnknown(p, f.of, payload))
    IN  IF type \in p.sets /\ IsExtension(p, type, f.number)
        THEN messageSetItem(f.number, field) ELSE field

\* Mutant: the last value of a field wins, as it does for scalars.
EmitLast(p, type, records) ==
    LET f == FieldNumbered(p, type, records[1].number)
    IN  IF f.type \notin Submessages \/ ~HasPayload(records[1]) THEN records
        ELSE IF f.repeated
             THEN FlattenSeq([i \in DOMAIN records |-> Emit(p, type, f, records[i].body)])
        ELSE Emit(p, type, f, Last(records).body)

\* All records of one number: those of a field that is one message are merged into
\* the first, those of a field that is not known or no message are left alone.
EmitAll(p, type, records) ==
    LET f == FieldNumbered(p, type, records[1].number)
    IN  IF f.type \notin Submessages \/ ~HasPayload(records[1]) THEN records
        ELSE IF f.repeated
             THEN FlattenSeq([i \in DOMAIN records |-> Emit(p, type, f, records[i].body)])
        ELSE Emit(p, type, f, FlattenSeq([i \in DOMAIN records |-> records[i].body]))

\* canonicalizeUnknown: in the order of the numbers, each message merged.
canonicalizeUnknown(p, type, raw) ==
    LET numbers == SetToSortSeq({raw[i].number : i \in DOMAIN raw}, <)
    IN  FlattenSeq([k \in DOMAIN numbers |->
            EmitAll(p, type, SelectSeq(raw, LAMBDA r : r.number = numbers[k]))])

\* The options message of a target.
PlaceOf(t) == CHOOSE p \in {job.places[i] : i \in DOMAIN job.places} : t[1] \in p.elements
OwnerOf(t) == IF t[2] THEN <<"features">> ELSE <<PlaceOf(t).kind>>

FileOf(t) == PlaceOf(t).file

\* hasOptionsUnknowns: custom options that are not custom features.
HasOptionsUnknowns(file) ==
    \E t \in DOMAIN unknown : FileOf(t) = file /\ ~t[2] /\ unknown[t] # <<>>

\* canonicalizeFDOptions, on every options message and on the features in it.
canonicalizeFDOptions(t) ==
    IF HasOptionsUnknowns(FileOf(t)) THEN canonicalizeUnknown(job.pool, OwnerOf(t), unknown[t])
    ELSE unknown[t]

Canonicalize ==
    /\ Resolved /\ stage = "resolved"
    /\ stage' = "canonical"
    /\ canonical' = [t \in DOMAIN unknown |-> canonicalizeFDOptions(t)]
    /\ UNCHANGED <<vars, kept, shown, output>>

-------------------------------------------------------------------------------
(* Source retention. *)

\* record: the numbers to drop under an owner, and the messages to walk into.
Drops(p, type) ==
    {f.number : f \in {g \in (IF type \in DOMAIN p.messages THEN p.messages[type] ELSE {}) : g.source}}
    \cup {p.extensions[i].field.number : i \in {i \in DOMAIN p.extensions :
              p.extensions[i].extendee = type /\ p.extensions[i].field.source}}

\* pruneClean leaves out the messages that lead to nothing to drop.
RECURSIVE stripEncoded(_, _, _)
stripEncoded(p, type, raw) ==
    LET Keep(r) ==
            LET f == FieldNumbered(p, type, r.number)
            IN  IF r.number \in Drops(p, type) THEN <<>>
                ELSE IF r.wire = "bytes" /\ f.type = "message"
                     THEN <<[r EXCEPT !.body = stripEncoded(p, f.of, @)]>>
                ELSE <<r>>
    IN  FlattenSeq([i \in DOMAIN raw |-> Keep(raw[i])])

StripOptions(t) == stripEncoded(job.pool, OwnerOf(t), canonical[t])

\* hasExtRangeOpts
HasExtRangeOpts(file) ==
    \E t \in DOMAIN canonical : /\ FileOf(t) = file /\ OwnerOf(t) = <<"extension range">>
                               /\ canonical[t] # <<>>

\* fdHasSourceRetentionOpts: it does not look at extension ranges, nor into features.
FdHasSourceRetentionOpts(file) ==
    \E t \in DOMAIN canonical : /\ FileOf(t) = file /\ ~t[2] /\ OwnerOf(t) # <<"extension range">>
                               /\ StripOptions(t) # canonical[t]

\* Mutant: extension ranges alone are no reason to copy.
NeedsCloneForOptions(file) == FdHasSourceRetentionOpts(file)
NeedsClone(file) == HasExtRangeOpts(file) \/ FdHasSourceRetentionOpts(file)

\* stripSourceRetention: the bytes of every options message, though not those of the
\* features in it.
StrippedOptions(t) ==
    IF NeedsClone(FileOf(t)) /\ ~t[2] THEN StripOptions(t) ELSE canonical[t]

\* The locations of what is dropped go, those of its sub-paths with them.
IsStrippedLocation(i) ==
    LET s == statements[i]
    IN  NeedsClone(s.file) /\ ~s.features /\ located[i][1] \in Drops(job.pool, <<s.kind>>)

StripSourceRetention ==
    /\ stage = "canonical"
    /\ stage' = "stripped"
    /\ kept' = [t \in DOMAIN canonical |-> StrippedOptions(t)]
    /\ shown' = {i \in DOMAIN statements : ~IsStrippedLocation(i)}
    /\ UNCHANGED <<vars, canonical, output>>

-------------------------------------------------------------------------------
(* The outputs.  A file that was not asked for is a dependency. *)

Requested(t) == FileOf(t) \in job.requested

buildProtoFiles == [t \in DOMAIN unknown |-> IF Requested(t) THEN kept[t] ELSE unknown[t]]

buildSourceFileDescriptors == [t \in {t \in DOMAIN unknown : Requested(t)} |-> unknown[t]]

buildDescriptorSetFiles(includeImports, retainOptions) ==
    [t \in {t \in DOMAIN unknown : includeImports \/ Requested(t)} |->
        IF retainOptions THEN unknown[t]
        ELSE IF includeImports /\ ~Requested(t) THEN kept[t]
        ELSE buildProtoFiles[t]]

BuildOutputs ==
    /\ stage = "stripped"
    /\ stage' = "built"
    /\ \E includeImports, retainOptions \in BOOLEAN :
           output' = [retained |-> retainOptions, imports |-> includeImports,
                      proto |-> buildProtoFiles, source |-> buildSourceFileDescriptors,
                      set |-> buildDescriptorSetFiles(includeImports, retainOptions)]
    /\ UNCHANGED <<vars, canonical, kept, shown>>

NextOutput == Canonicalize \/ StripSourceRetention \/ BuildOutputs
===============================================================================
