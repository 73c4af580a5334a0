------------------------------ MODULE ImportWalk ------------------------------
(***************************************************************************)
(* compileInternal's first half (compiler/cli/compile.go): the descriptor  *)
(* sets are adopted, then parseRecursive (compiler/cli/cli.go) walks the   *)
(* imports of every requested file depth first.  The goroutine's stack of  *)
(* parseRecursive calls is explicit: a frame holds the file, the position  *)
(* in its import list and the imports that have failed so far.  A load     *)
(* from the parse cache is one step here; ImportPipeline replaces it by    *)
(* the concurrent cache.                                                   *)
(***************************************************************************)
EXTENDS ImportGraph

CONSTANT Jobs          \* the compilations considered
ASSUME JobsAssumption == Jobs \subseteq Job

VARIABLES
    job,            \* the compilation: never changes
    pc,             \* "adopt" descriptor sets, "walk" the imports, "done"
    at,             \* position in the list pc is working through
    stack,          \* the parseRecursive frames, innermost last
    parsed,         \* names in the parsed map
    orderedFiles,   \* the order later phases process files in
    errors          \* collectErrors, as a set

vars == <<job, pc, at, stack, parsed, orderedFiles, errors>>

Frame == [file : File, next : Nat \ {0}, failedDeps : SUBSET File]

\* The errors parseRecursive reports, with the files the message names.
Error == [kind : {"open", "parse", "cycle", "import", "type"}, files : Seq(File)]

TypeOK ==
    /\ job \in Job
    /\ pc \in {"adopt", "walk", "done"}
    /\ at \in Nat \ {0}
    /\ stack \in Seq(Frame)
    /\ parsed \in SUBSET File
    /\ orderedFiles \in Seq(File)
    /\ errors \in SUBSET Error

Init ==
    /\ job \in Jobs
    /\ pc = "adopt"
    /\ at = 1
    /\ stack = <<>>
    /\ parsed = {}
    /\ orderedFiles = <<>>
    /\ errors = {}

-------------------------------------------------------------------------------
\* One file of a descriptor set: the first file of a name wins.
Adopt ==
    /\ pc = "adopt"
    /\ at <= Len(job.descriptorSet)
    /\ LET f == job.descriptorSet[at]
       IN  IF f \in parsed
           THEN UNCHANGED <<parsed, orderedFiles>>
           ELSE /\ parsed' = parsed \cup {f}
                /\ orderedFiles' = Append(orderedFiles, f)
    /\ at' = at + 1
    /\ UNCHANGED <<job, pc, stack, errors>>

StartWalk ==
    /\ pc = "adopt"
    /\ at > Len(job.descriptorSet)
    /\ pc' = "walk"
    /\ at' = 1
    /\ UNCHANGED <<job, stack, parsed, orderedFiles, errors>>

-------------------------------------------------------------------------------
Top == stack[Len(stack)]
Below == SubSeq(stack, 1, Len(stack) - 1)
ImportStack == {stack[i].file : i \in 1 .. Len(stack)}

\* The file parseRecursive is about to be called for: the next requested file,
\* or the next import of the innermost frame.
Calls(f) ==
    /\ pc = "walk"
    /\ IF stack = <<>>
       THEN at <= Len(job.relFiles) /\ f = job.relFiles[at]
       ELSE /\ Top.next <= Len(job.imports[Top.file])
            /\ f = job.imports[Top.file][Top.next]

\* Mutant: compileInternal's loop does not go on to the next requested file.
ReturnToSameFile(s, failed) ==
    IF s = <<>>
    THEN stack' = <<>> /\ at' = at
    ELSE /\ at' = at
         /\ stack' = [s EXCEPT ![Len(s)] =
                         [@ EXCEPT !.next = @ + 1, !.failedDeps = @ \cup failed]]

\* parseRecursive(f) returns to the caller on top of s: true with failed = {},
\* false with failed = {f}.  compileInternal itself ignores the Boolean and
\* relies on the collected errors.
Return(s, failed) ==
    IF s = <<>>
    THEN stack' = <<>> /\ at' = at + 1
    ELSE /\ at' = at
         /\ LET caller == s[Len(s)]
            IN  stack' = [s EXCEPT ![Len(s)] =
                            [file       |-> caller.file,
                             next       |-> caller.next + 1,
                             failedDeps |-> caller.failedDeps \cup failed]]

\* Mutant: the chain starts one frame late.
CycleChainLate(f) ==
    LET idx == CHOOSE i \in 1 .. Len(stack) : stack[i].file = f
    IN  [i \in 1 .. Len(stack) - idx + 1 |->
           IF i = Len(stack) - idx + 1 THEN f ELSE stack[idx + i].file]

\* The import chain from the frame of f to the top of the stack, and f again.
CycleChain(f) ==
    LET idx == CHOOSE i \in 1 .. Len(stack) : stack[i].file = f
    IN  [i \in 1 .. Len(stack) - idx + 2 |->
           IF i = Len(stack) - idx + 2 THEN f ELSE stack[idx + i - 1].file]

\* A file on the import stack is imported again.
ReportCycle(f) ==
    /\ Calls(f)
    /\ f \in ImportStack
    /\ errors' = errors \cup {[kind |-> "cycle", files |-> CycleChain(f)]}
    /\ Return(stack, {f})
    /\ UNCHANGED <<job, pc, parsed, orderedFiles>>

\* A file already in parsed is taken as it is, whether or not its own imports
\* failed when it was walked.
Reuse(f) ==
    /\ Calls(f)
    /\ f \notin ImportStack
    /\ f \in parsed
    /\ Return(stack, {})
    /\ UNCHANGED <<job, pc, parsed, orderedFiles, errors>>

\* Mutant: a parse error is dropped.
RejectLoadedSilently(f, loaded) ==
    /\ Calls(f)
    /\ f \notin ImportStack \cup parsed
    /\ loaded # "parses"
    /\ errors' = IF loaded = "absent"
                 THEN errors \cup {[kind |-> "open", files |-> <<f>>]}
                 ELSE errors
    /\ Return(stack, {})
    /\ UNCHANGED <<job, pc, parsed, orderedFiles>>

\* The file is loaded and cannot be opened or parsed.  It does not enter parsed,
\* so every other importer tries and reports it again.
RejectLoaded(f, loaded) ==
    /\ Calls(f)
    /\ f \notin ImportStack \cup parsed
    /\ \/ /\ loaded = "absent"
          /\ errors' = errors \cup {[kind |-> "open", files |-> <<f>>]}
       \/ /\ loaded = "malformed"
          /\ errors' = errors \cup {[kind |-> "parse", files |-> <<f>>]}
    /\ Return(stack, {f})
    /\ UNCHANGED <<job, pc, parsed, orderedFiles>>

\* Mutant: the imports are walked from a position of their list.
EnterLoadedAt(f, loaded, first) ==
    /\ Calls(f)
    /\ f \notin ImportStack \cup parsed
    /\ loaded = "parses"
    /\ parsed' = parsed \cup {f}
    /\ stack' = Append(stack, [file |-> f, next |-> first, failedDeps |-> {}])
    /\ UNCHANGED <<job, pc, at, orderedFiles, errors>>

EnterLoadedFromSecond(f, loaded) == EnterLoadedAt(f, loaded, 2)

\* The file is loaded, registered and its imports are walked.
EnterLoaded(f, loaded) ==
    /\ Calls(f)
    /\ f \notin ImportStack \cup parsed
    /\ loaded = "parses"
    /\ parsed' = parsed \cup {f}
    /\ stack' = Append(stack, [file |-> f, next |-> 1, failedDeps |-> {}])
    /\ UNCHANGED <<job, pc, at, orderedFiles, errors>>

\* Here a load returns at once what opening and parsing the file yields.
ReportUnusable(f) == RejectLoaded(f, job.content[f])
Descend(f) == EnterLoaded(f, job.content[f])

-------------------------------------------------------------------------------
\* Mutant: the last import is not walked.
ImportsDoneEarly ==
    /\ stack # <<>>
    /\ Top.next >= Len(job.imports[Top.file])

ImportsDone ==
    /\ stack # <<>>
    /\ Top.next > Len(job.imports[Top.file])

\* Every import succeeded.
Finish ==
    /\ ImportsDone
    /\ Top.failedDeps = {}
    /\ orderedFiles' = Append(orderedFiles, Top.file)
    /\ Return(Below, {})
    /\ UNCHANGED <<job, pc, parsed, errors>>

\* The only failed import is the file itself: its cycle is already reported.
FailSelfImport ==
    /\ ImportsDone
    /\ Top.failedDeps = {Top.file}
    /\ Return(Below, {Top.file})
    /\ UNCHANGED <<job, pc, parsed, orderedFiles, errors>>

\* Each failed import other than the file itself is reported, then the types
\* CheckUnresolvedTypes finds undefined; which, if any, is up to the text.
FailImports ==
    /\ ImportsDone
    /\ Top.failedDeps \notin {{}, {Top.file}}
    /\ \E undefined \in SUBSET {[kind |-> "type", files |-> <<Top.file>>]} :
          errors' = errors \cup undefined
                      \cup {[kind |-> "import", files |-> <<Top.file, d>>] :
                              d \in Top.failedDeps \ {Top.file}}
    /\ Return(Below, {Top.file})
    /\ UNCHANGED <<job, pc, parsed, orderedFiles>>

\* Mutant: the walk may end before every requested file has been walked.
EndWalkEarly ==
    /\ pc = "walk"
    /\ stack = <<>>
    /\ pc' = "done"
    /\ UNCHANGED <<job, at, stack, parsed, orderedFiles, errors>>

\* parseRecursive has returned for every requested file: with no errors the
\* later phases run on orderedFiles, with any error nothing is produced.
EndWalk ==
    /\ pc = "walk"
    /\ stack = <<>>
    /\ at > Len(job.relFiles)
    /\ pc' = "done"
    /\ UNCHANGED <<job, at, stack, parsed, orderedFiles, errors>>

Call == \E f \in File :
           ReportCycle(f) \/ Reuse(f) \/ ReportUnusable(f) \/ Descend(f)

Complete == Finish \/ FailSelfImport \/ FailImports

Terminated == pc = "done" /\ UNCHANGED vars

Next == Adopt \/ StartWalk \/ Call \/ Complete \/ EndWalk \/ Terminated

Safety == Init /\ [][Next]_vars

Spec == Safety /\ WF_vars(Next)

-------------------------------------------------------------------------------
(* Properties. *)

Precedes(f, g) == \E m, n \in DOMAIN orderedFiles :
                     m < n /\ orderedFiles[m] = f /\ orderedFiles[n] = g

\* While nothing has failed, each source file follows all its imports in
\* orderedFiles, which ResolveTypes, the option resolvers and the plugins
\* (CodeGeneratorRequest.proto_file) rely on.
Topological ==
    errors = {} =>
      \A g \in Range(orderedFiles) \ Preloaded(job) :
         \A f \in Range(job.imports[g]) : Precedes(f, g)

\* No file enters orderedFiles twice, however many importers and descriptor
\* sets name it: duplicates would be validated and emitted twice.
OrderedOnce == IsInjective(orderedFiles)

\* The walk fails exactly when the request cannot be satisfied: compileInternal
\* ignores parseRecursive's Boolean, so no failure may go unreported, and no
\* error may be raised for a request whose files all parse and do not cycle.
Verdict == pc = "done" => (errors = {} <=> Clean(job))

\* A successful walk delivers the descriptor sets and the files the request
\* needs, all of them and no others.
Delivered ==
    pc = "done" /\ errors = {} =>
      Range(orderedFiles) = Preloaded(job) \cup Needed(job)

\* The chain in a "recursively imports itself" message is a closed path of
\* imports that really exist.
CycleChainsAreReal ==
    \A e \in errors : e.kind = "cycle" =>
      /\ Len(e.files) > 1
      /\ e.files[1] = e.files[Len(e.files)]
      /\ \A i \in 1 .. Len(e.files) - 1 :
            e.files[i + 1] \in Expand(job, e.files[i])

\* The walk ends, whatever the shape of the import graph.
Termination == <>(pc = "done")

\* The walk implements ImportResolution: what it has put in orderedFiles is the
\* abstract output until the first error, which discards it and rejects the
\* request; the request is accepted when the walk ends without an error.
Resolution ==
    INSTANCE ImportResolution
        WITH Jobs    <- Job,
             out     <- IF errors = {} THEN orderedFiles ELSE <<>>,
             verdict <- IF errors # {} THEN "rejected"
                        ELSE IF pc = "done" THEN "accepted" ELSE "pending"

Refinement == Resolution!AbsSpec

\* The usage text of --proto_path: "If not found in any of the these directories,
\* the --descriptor_set_in descriptors will be checked for required proto file": a
\* descriptor is only used for a file the source tree does not have.
DescriptorSetsAreFallback ==
    [][\A f \in Preloaded(job) : Reuse(f) => job.content[f] = "absent"]_vars

-------------------------------------------------------------------------------
(* The inductive invariant behind the properties above, in layers. *)

\* The stack is the path of imports from a requested file to the current one.
StackShape ==
    /\ \A i, j \in 1 .. Len(stack) : stack[i].file = stack[j].file => i = j
    /\ \A i \in 1 .. Len(stack) - 1 :
          /\ stack[i].next <= Len(job.imports[stack[i].file])
          /\ job.imports[stack[i].file][stack[i].next] = stack[i + 1].file
    /\ stack # <<>> =>
          at <= Len(job.relFiles) /\ stack[1].file = job.relFiles[at]

\* What is parsed, ordered and on the stack.
BookInv ==
    /\ pc # "walk" => stack = <<>>
    /\ pc = "adopt" => parsed \subseteq Range(orderedFiles) \cap Preloaded(job)
    /\ pc = "adopt" => \A k \in 1 .. Len(job.descriptorSet) :
                          k < at => job.descriptorSet[k] \in Range(orderedFiles)
    /\ pc # "adopt" => Preloaded(job) \subseteq Range(orderedFiles)
    /\ Range(orderedFiles) \cup ImportStack \subseteq parsed
    /\ Range(orderedFiles) \cap ImportStack = {}
    /\ \A f \in parsed \ Preloaded(job) : job.content[f] = "parses"
    /\ OrderedOnce

\* Only needed files are parsed, and the stack goes down the import graph.
ReachInv ==
    /\ parsed \subseteq Preloaded(job) \cup Needed(job)
    /\ \A i, j \in 1 .. Len(stack) :
          i < j => stack[j].file \in Descendants(job, stack[i].file)

\* A failure is always recorded, and only when the request has no answer.
ErrorsInv ==
    /\ \A i \in 1 .. Len(stack) : stack[i].failedDeps # {} => errors # {}
    /\ errors # {} => ~Clean(job)

\* Without an error, everything behind the walk is ordered.
OrderInv ==
    errors = {} =>
      /\ parsed \subseteq Range(orderedFiles) \cup ImportStack
      /\ pc = "walk" => \A k \in 1 .. Len(job.relFiles) :
                          k < at => job.relFiles[k] \in Range(orderedFiles)
      /\ pc = "done" => Range(job.relFiles) \subseteq Range(orderedFiles)
      /\ \A i \in 1 .. Len(stack) : \A k \in 1 .. Len(job.imports[stack[i].file]) :
            k < stack[i].next => job.imports[stack[i].file][k] \in Range(orderedFiles)
      /\ Topological

\* All layers together.
IInv == TypeOK /\ StackShape /\ BookInv /\ ReachInv /\ ErrorsInv /\ OrderInv
===============================================================================
