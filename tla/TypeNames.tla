------------------------------ MODULE TypeNames ------------------------------
(***************************************************************************)
(* The names of a pool of parsed files, and how a name written in one of   *)
(* them is looked up (compiler/parser/parser.go).  A fully-qualified name  *)
(* is a sequence of identifiers: the package, then the messages around it. *)
(***************************************************************************)
EXTENDS FiniteSetsExt, Functions, Sequences

CONSTANTS
    File,          \* virtual file names
    Ident,         \* identifiers
    Extension      \* (extendee, number) pairs of custom options

Name == Seq(Ident)
Kind == {"message", "enum"}

\* A type reference of a file: where it stands, and what is written.  The scope is
\* the path, in the package, of the message around it; for a map's value, or key, that
\* is the entry message made for the map.  A name with a leading dot is absolute.
Role == {"field", "value", "group", "extension", "extendee", "method"}
Reference == [role : Role, scope : Name, absolute : BOOLEAN, name : Name]

\* What is read of a file descriptor.  The types a file declares are a partial
\* function from paths in its package to kinds.  A file of a descriptor set may come
\* without source info, and then nothing in it has a position.  Of custom options
\* there are the extensions a file declares and those its options set.
IsFileData(d) ==
    /\ DOMAIN d = {"package", "declares", "deps", "public", "refs", "located", "optionDeps",
                   "extends", "sets"}
    /\ d.package \in Name
    /\ DOMAIN d.declares \subseteq Name /\ Range(d.declares) \subseteq Kind
    /\ d.deps \in Seq(File)
    /\ d.public \in Seq(Nat \ {0})
    /\ d.refs \in Seq(Reference)
    /\ d.located \in BOOLEAN
    /\ d.optionDeps \in Seq(File)
    /\ d.extends \subseteq Extension /\ d.sets \subseteq Extension

\* A pool: the files, those in parsed, in the order of orderedFiles, each once, those
\* requested, and the imports that have failed.  Unless there are none, file is the one whose
\* imports they are; it is not yet in orderedFiles.
IsPool(j) ==
    /\ DOMAIN j = {"files", "ordered", "relFiles", "file", "failed"} /\ DOMAIN j.files = File
    /\ \A f \in File : IsFileData(j.files[f])
    /\ j.ordered \in Seq(File) /\ j.relFiles \in Seq(File)
    /\ IsInjective(j.ordered)
    /\ j.failed # {} =>
          /\ j.file \in File \ Range(j.ordered)
          /\ j.files[j.file].located
          /\ j.failed \subseteq Range(j.files[j.file].deps)
          /\ Range(j.files[j.file].deps) \subseteq Range(j.ordered) \cup j.failed

Parsed(j) == Range(j.ordered)

\* collectTypes: every message and enum of a file, under its full name.
Declared(j, f) ==
    LET d == j.files[f]
        path(n) == SubSeq(n, Len(d.package) + 1, Len(n))
    IN  [n \in {d.package \o p : p \in DOMAIN d.declares} |-> d.declares[path(n)]]

\* The types of g are entered in a table; of two types of one name the later wins.
Merge(types, more) ==
    [n \in DOMAIN types \cup DOMAIN more |-> IF n \in DOMAIN more THEN more[n] ELSE types[n]]

Scope(j, f, ref) == j.files[f].package \o ref.scope

-------------------------------------------------------------------------------
(* resolveTypeName. *)

Outer(scope, k) == SubSeq(scope, 1, k)

\* The innermost scope stops the search if it has the whole name or a type of its
\* first part.  The outermost scope, zero, is not one of these.
Stops(scope, name, types, k) ==
    \/ Outer(scope, k) \o name \in DOMAIN types
    \/ Outer(scope, k) \o <<Head(name)>> \in DOMAIN types

\* Mutant: the search goes outside in.
StopAtOutermost(scope, name, types) ==
    LET stops == {k \in 1 .. Len(scope) : Stops(scope, name, types, k)}
    IN  IF stops = {} THEN 0 ELSE Min(stops)

StopAt(scope, name, types) == Max({0} \cup {k \in 1 .. Len(scope) : Stops(scope, name, types, k)})

\* A relative name is the one at the scope where the search stops, if that scope
\* has it, and otherwise the name itself from the root, whoever declares it.
Lookup(ref, scope, types) ==
    LET inner == Outer(scope, StopAt(scope, ref.name, types)) \o ref.name
    IN  IF ~ref.absolute /\ inner \in DOMAIN types THEN inner ELSE ref.name

\* The search stopped at a type of the first part that has no such member.
Shadowed(ref, scope, types) ==
    /\ ~ref.absolute
    /\ StopAt(scope, ref.name, types) # 0
    /\ Outer(scope, StopAt(scope, ref.name, types)) \o ref.name \notin DOMAIN types

-------------------------------------------------------------------------------
(* What a file can see, without saying how it is found. *)

\* The parsed files behind the public imports of f.
PublicDeps(j, f) ==
    {j.files[f].deps[i] : i \in Range(j.files[f].public) \cap DOMAIN j.files[f].deps}
        \cap Parsed(j)

\* A file, its imports, and whatever these import publicly, directly or not.
Visible(j, f) ==
    LET direct == {f} \cup (Range(j.files[f].deps) \cap Parsed(j))
    IN  {g \in File : \A S \in SUBSET File :
            direct \subseteq S /\ (\A h \in S : h # f => PublicDeps(j, h) \subseteq S) => g \in S}

VisibleTypes(j, f) == UNION {DOMAIN Declared(j, g) : g \in Visible(j, f)}
===============================================================================
