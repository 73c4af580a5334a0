--------------------------- MODULE UnresolvedTypes ---------------------------
(***************************************************************************)
(* parser.CheckUnresolvedTypes: parseRecursive calls it for a file some of *)
(* whose imports have failed, to report undefined types next to the failed *)
(* imports, and to hint at the parsed file that might define them.         *)
(***************************************************************************)
EXTENDS TypeNames, SequencesExt

VARIABLES
    job,         \* the pool: never changes
    at,          \* position in the references of the file
    errors       \* what has been reported

\* An undefined type comes with the file of the hint, if there is one.
Report == [ref : Nat \ {0}, kind : {"undefined", "shadowed", "not a message", "hint"},
           hint : {{}} \cup {{f} : f \in File}]

TypeOK ==
    /\ at \in 1 .. Len(job.files[job.file].refs) + 1
    /\ errors \subseteq Report

Init == at = 1 /\ errors = {}

\* Imports that have not failed.
Available(j) == Range(j.files[j.file].deps) \ j.failed

\* Mutant: every parsed file is in sight.
AllTypes(j) ==
    FoldLeft(LAMBDA types, g : Merge(types, Declared(j, g)), Declared(j, j.file), j.ordered)

\* The table references are looked up in.  collectPublicImportTypes is given the
\* available imports as all the files there are, so it gets to a file behind a
\* public import only if the file checked imports that one too.
AvailableTypes(j) ==
    LET deps == j.files[j.file].deps
        declarers(name) ==
            {i \in DOMAIN deps : deps[i] \in Available(j) /\ name \in DOMAIN Declared(j, deps[i])}
        \* Of two declarations of one name the later import's wins.
        declarer(name) == IF declarers(name) = {} THEN j.file ELSE deps[Max(declarers(name))]
    IN  [name \in UNION {DOMAIN Declared(j, g) : g \in {j.file} \cup Available(j)} |->
            Declared(j, declarer(name))[name]]

\* The table the hints are looked up in: every type of every ordered file.
HintTypes(j) == [name \in UNION {DOMAIN Declared(j, g) : g \in Parsed(j)} |-> "message"]

\* The files a hint may name: where two files declare the type, the order in which
\* a Go map is walked decides.
Hints(j, ref, scope) ==
    LET found == Lookup(ref, scope, HintTypes(j))
    IN  {g \in Parsed(j) \ {j.file} : found \in DOMAIN Declared(j, g)}

\* Only the fields of messages and the types of methods are checked.  checkMsgUnresolved
\* leaves a map's entry message alone, and with it the type of the map's values.
Checked(ref) == ref.role \in {"field", "group", "method"}

Undefined(ref, scope, types) == Lookup(ref, scope, types) \notin DOMAIN types

Reports(ref, scope, types) ==
    IF ~Checked(ref) THEN {{}}
    ELSE IF Undefined(ref, scope, types)
    THEN IF Shadowed(ref, scope, types)
         THEN {{[ref |-> at, kind |-> "shadowed", hint |-> {}]}}
         ELSE IF Hints(job, ref, scope) = {}
         THEN {{[ref |-> at, kind |-> "undefined", hint |-> {}]}}
         ELSE {{[ref |-> at, kind |-> "hint", hint |-> {g}]} : g \in Hints(job, ref, scope)}
    ELSE IF ref.role = "method" /\ types[Lookup(ref, scope, types)] = "enum"
    THEN {{[ref |-> at, kind |-> "not a message", hint |-> {}]}}
    ELSE {{}}

CheckRef ==
    /\ at <= Len(job.files[job.file].refs)
    /\ LET ref == job.files[job.file].refs[at]
       IN  \E new \in Reports(ref, Scope(job, job.file, ref), AvailableTypes(job)) :
              errors' = errors \cup new
    /\ at' = at + 1
    /\ UNCHANGED job

-------------------------------------------------------------------------------
(* Properties. *)

TheRef(i) == job.files[job.file].refs[i]
TheScope(i) == Scope(job, job.file, TheRef(i))

\* All the file can see, behind public imports too; the kinds do not matter here.
SeenTypes == [x \in VisibleTypes(job, job.file) |-> "message"]

\* That some imports have failed hides no undefined type of a message's field or of a
\* method: one that would not resolve in all the file can see is reported, unless all that
\* would keep it from resolving is that a nearer type of its first part hides it.
\* That type may be behind a public import, where it is not looked for.  The types of maps'
\* values, of extensions and of extendees are excepted: those are not reported until every
\* import is there and ResolveTypes comes to them (checkMsgUnresolved, ResolveTypes).
UndefinedAreReported ==
    at > Len(job.files[job.file].refs) =>
      \A i \in DOMAIN job.files[job.file].refs :
        /\ TheRef(i).role \in {"field", "group", "method"}
        /\ Undefined(TheRef(i), TheScope(i), SeenTypes)
        /\ ~Shadowed(TheRef(i), TheScope(i), SeenTypes)
        => \E e \in errors : e.ref = i
===============================================================================
