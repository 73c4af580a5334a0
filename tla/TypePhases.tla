------------------------------ MODULE TypePhases ------------------------------
(***************************************************************************)
(* What compileInternal does about types once the imports have been        *)
(* walked.  If imports of a file have failed, parseRecursive has had its   *)
(* types checked by CheckUnresolvedTypes, and the compilation ends.        *)
(* Otherwise ResolveTypes runs over all files and, if that and everything  *)
(* after it succeeds, detectUnusedImports over the requested ones.         *)
(***************************************************************************)
EXTENDS TypeNames

CONSTANT Jobs           \* the pools considered
ASSUME JobsAssumption == \A j \in Jobs : IsPool(j)

VARIABLES
    job,                                                      \* the pool
    n, pc, at, types, visited, frames, resolved, errors,      \* TypeResolution
    checkAt, reports,                                         \* UnresolvedTypes
    relAt, warnings                                           \* UnusedImports

Resolution == INSTANCE TypeResolution
Unresolved == INSTANCE UnresolvedTypes WITH at <- checkAt, errors <- reports
Unused     == INSTANCE UnusedImports WITH at <- relAt

resolutionVars == <<n, pc, at, types, visited, frames, resolved, errors>>
vars == <<job, resolutionVars, checkAt, reports, relAt, warnings>>

TypeOK ==
    /\ Resolution!TypeOK
    /\ job.failed # {} => Unresolved!TypeOK
    /\ Unused!TypeOK

Init == Resolution!Init /\ Unresolved!Init /\ Unused!Init

Check ==
    /\ job.failed # {}
    /\ Unresolved!CheckRef
    /\ UNCHANGED <<resolutionVars, relAt, warnings>>

Resolve ==
    /\ job.failed = {}
    /\ Resolution!Next
    /\ UNCHANGED <<checkAt, reports, relAt, warnings>>

\* Of the validators in between, validateDuplicateNames decides what there can be unused
\* imports of: a type that two files declare ends the compilation.
NamesAreUnique ==
    \A g, h \in Parsed(job) : g # h => DOMAIN Declared(job, g) \cap DOMAIN Declared(job, h) = {}

DetectUnused ==
    /\ pc = "done" /\ errors = {} /\ NamesAreUnique
    /\ Unused!CheckFile
    /\ UNCHANGED <<n, pc, at, types, visited, frames, errors, checkAt, reports>>

Done ==
    IF job.failed # {}
    THEN checkAt > Len(job.files[job.file].refs)
    ELSE pc = "done" /\ (errors = {} /\ NamesAreUnique => relAt > Len(job.relFiles))

Terminated == Done /\ UNCHANGED vars

Next == Check \/ Resolve \/ DetectUnused \/ Terminated

Spec == Init /\ [][Next]_vars /\ WF_vars(Next)

-------------------------------------------------------------------------------
(* Properties.  They are stated, and explained, in the three modules. *)

\* Each file is resolved against exactly the types it can see.
TableIsVisible == Resolution!TableIsVisible

\* A resolution without errors leaves full names of types of the right kind, and a name
\* resolves to its innermost declaration.
SoundResolution == Resolution!SoundResolution /\ Resolution!InnermostWins

\* Next to failed imports, types that are not there at all are still reported.
UndefinedAreReported == job.failed # {} => Unresolved!UndefinedAreReported

\* An import that is reported as unused can be deleted.
UnusedAreRemovable == Unused!UnusedAreRemovable

\* The phases end, also when descriptor sets bring files that import each other in
\* a circle, which the walk over the imports never sees.
Termination == <>Done

===============================================================================
