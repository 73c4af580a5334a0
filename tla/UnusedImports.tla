---------------------------- MODULE UnusedImports ----------------------------
(***************************************************************************)
(* detectUnusedImports (compiler/cli/cli.go), which runs after all phases  *)
(* that can fail: for each requested file, the imports nothing in it       *)
(* refers to.  Types are referred to by the names ResolveTypes has left;   *)
(* extensions by the numbers of the option fields that are set.            *)
(***************************************************************************)
EXTENDS TypeNames

VARIABLES
    job,          \* the pool: never changes
    resolved,     \* what each reference of each file has been resolved to
    at,           \* position in relFiles
    warnings      \* (file, unused import) pairs

TypeOK ==
    /\ at \in 1 .. Len(job.relFiles) + 1
    /\ warnings \subseteq File \X File

Init == at = 1 /\ warnings = {}

TypesUsed(f) == {r.name : r \in Range(resolved[f])}

\* Positions in orderedFiles of the files that declare a type, or an extension.
TypeDeclarers(j, n) == {i \in DOMAIN j.ordered : n \in DOMAIN Declared(j, j.ordered[i])}
ExtensionDeclarers(j, e) == {i \in DOMAIN j.ordered : e \in j.files[j.ordered[i]].extends}

\* The maps from names and extensions to files: the last declarer is entered last.
LastOf(j, positions) == {j.ordered[i] : i \in {k \in positions : k = Max(positions)}}

\* markUsedTypes and markUsedExtensions.
Used(j, f) ==
    (UNION {LastOf(j, TypeDeclarers(j, n)) : n \in TypesUsed(f)})
        \cup (UNION {LastOf(j, ExtensionDeclarers(j, e)) : e \in j.files[f].sets})

HasPublic(j, d) == d \in Parsed(j) /\ j.files[d].public # <<>>

\* Mutant: an import that imports publicly is tracked like any other.
TrackableAll(j, f) ==
    {j.files[f].deps[i] : i \in DOMAIN j.files[f].deps \ Range(j.files[f].public)}
        \cup Range(j.files[f].optionDeps)

\* Imports that are public, or that import publicly themselves, are never warned of.
Trackable(j, f) ==
    {d \in {j.files[f].deps[i] : i \in DOMAIN j.files[f].deps \ Range(j.files[f].public)}
              \cup Range(j.files[f].optionDeps) :
        ~HasPublic(j, d)}

\* One requested file, if it is in the pool.
CheckFile ==
    /\ at <= Len(job.relFiles)
    /\ LET f == job.relFiles[at]
       IN  warnings' = warnings \cup
             IF f \in Parsed(job)
             THEN {<<f, d>> : d \in Trackable(job, f) \ Used(job, f)}
             ELSE {}
    /\ at' = at + 1
    /\ UNCHANGED <<job, resolved>>

-------------------------------------------------------------------------------
(* Properties. *)

\* The pool in which f does not import d.  It imports itself there, which adds nothing to
\* what it sees and leaves the positions of its public imports alone.
Dropped(j, f, d) ==
    LET fd == j.files[f]
        without(s) == [i \in DOMAIN s |-> IF s[i] = d THEN f ELSE s[i]]
        less == [fd EXCEPT !.deps = without(fd.deps), !.optionDeps = without(fd.optionDeps)]
    IN  [j EXCEPT !.files[f] = less]

\* The files whose options f can set.
OptionFiles(j, f) == Visible(j, f) \cup (Range(j.files[f].optionDeps) \cap Parsed(j))

\* An import that is reported as unused can be deleted: every type the file refers
\* to, and every extension its options set, is still there without it.  An extension's number
\* may be used again by a file that f does not see; if that file is entered later, the import
\* that declares the extension f means is reported, and these are excepted.
UnusedAreRemovable ==
    \A f, d \in File : <<f, d>> \in warnings =>
      LET without == Dropped(job, f, d)
          seen(e) == {g \in OptionFiles(job, f) : e \in job.files[g].extends}
      IN  /\ TypesUsed(f) \cap VisibleTypes(job, f) \subseteq VisibleTypes(without, f)
          /\ \A e \in job.files[f].sets :
                seen(e) # {} /\ LastOf(job, ExtensionDeclarers(job, e)) \subseteq seen(e)
                  => seen(e) \cap OptionFiles(without, f) # {}
===============================================================================
