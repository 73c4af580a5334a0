---------------------------- MODULE TypeResolution ----------------------------
(***************************************************************************)
(* parser.ResolveTypes over all files of a compilation, in the order of    *)
(* orderedFiles.  For each file a table of the types it can see is         *)
(* collected: its own, those of its imports, and those behind public       *)
(* imports, which collectPublicImportTypes follows depth first.  Then each *)
(* reference is looked up and replaced by the full name found.             *)
(***************************************************************************)
EXTENDS TypeNames

CONSTANT Jobs           \* the pools considered

VARIABLES
    job,          \* the pool: never changes
    n,            \* position in orderedFiles
    pc,           \* "file", "direct", "public", "refs", "done"
    at,           \* position in the imports or references of the file
    types,        \* the table of the file
    visited,      \* files collectPublicImportTypes has been called for
    frames,       \* its calls, innermost last
    resolved,     \* what each reference of each file has been resolved to
    errors        \* resolveErrors, as a set

vars == <<job, n, pc, at, types, visited, frames, resolved, errors>>

Frame == [file : File, next : Nat \ {0}]

\* A resolved reference: its full name, and the type the descriptor now states.
Resolved == [name : Name, kind : Kind \cup {"unset"}]

Error == [file : File, ref : Nat \ {0}, kind : {"undefined", "shadowed", "not a message"}]

TypeOK ==
    /\ IsPool(job)
    /\ n \in 1 .. Len(job.ordered) + 1
    /\ pc \in {"file", "direct", "public", "refs", "done"}
    /\ at \in Nat
    /\ DOMAIN types \subseteq Name /\ Range(types) \subseteq Kind
    /\ visited \subseteq File
    /\ frames \in Seq(Frame)
    /\ resolved \in [File -> Seq(Resolved)]
    /\ errors \subseteq Error

NoTypes == [x \in {} |-> "message"]

Init ==
    /\ job \in Jobs
    /\ n = 1 /\ pc = "file" /\ at = 0
    /\ types = NoTypes
    /\ visited = {} /\ frames = <<>>
    /\ resolved = [f \in File |-> <<>>]
    /\ errors = {}

TheFile == job.ordered[n]
Deps == job.files[TheFile].deps
Refs == job.files[TheFile].refs

-------------------------------------------------------------------------------
\* Mutant: visited is kept from one file to the next.
StartFileUnvisited ==
    /\ pc = "file"
    /\ n <= Len(job.ordered)
    /\ types' = Declared(job, TheFile)
    /\ visited' = visited \cup {TheFile}
    /\ pc' = "direct" /\ at' = 1
    /\ UNCHANGED <<job, n, frames, resolved, errors>>

StartFile ==
    /\ pc = "file"
    /\ n <= Len(job.ordered)
    /\ types' = Declared(job, TheFile)
    /\ visited' = {TheFile}
    /\ pc' = "direct" /\ at' = 1
    /\ UNCHANGED <<job, n, frames, resolved, errors>>

\* The types of one import, if it is in the pool.
CollectDirect ==
    /\ pc = "direct"
    /\ \/ /\ at <= Len(Deps)
          /\ types' = IF Deps[at] \in Parsed(job) THEN Merge(types, Declared(job, Deps[at])) ELSE types
          /\ at' = at + 1
          /\ UNCHANGED pc
       \/ /\ at > Len(Deps)
          /\ pc' = "public" /\ at' = 1
          /\ UNCHANGED types
    /\ UNCHANGED <<job, n, visited, frames, resolved, errors>>

\* collectPublicImportTypes is called for f: at most once, and for nothing if f is
\* not in the pool.
Call(f, below) ==
    /\ visited' = visited \cup {f}
    /\ frames' = IF f \notin visited /\ f \in Parsed(job)
                 THEN Append(below, [file |-> f, next |-> 1])
                 ELSE below

CollectPublic ==
    /\ pc = "public"
    /\ frames = <<>>
    /\ at <= Len(Deps)
    /\ Call(Deps[at], <<>>)
    /\ at' = at + 1
    /\ UNCHANGED <<job, n, pc, types, resolved, errors>>

Top == frames[Len(frames)]
Below == SubSeq(frames, 1, Len(frames) - 1)
TopData == job.files[Top.file]

\* Mutant: the loop over the public imports does not advance.
FollowPublicAgain ==
    /\ pc = "public"
    /\ frames # <<>>
    /\ Top.next <= Len(TopData.public)
    /\ LET i == TopData.public[Top.next]
       IN  /\ i \in DOMAIN TopData.deps
           /\ UNCHANGED types
           /\ Call(TopData.deps[i], frames)
    /\ UNCHANGED <<job, n, pc, at, resolved, errors>>

\* One public import of the file being visited; an index that is out of range, as a
\* descriptor set may have, is passed over.
FollowPublic ==
    /\ pc = "public"
    /\ frames # <<>>
    /\ Top.next <= Len(TopData.public)
    /\ LET i    == TopData.public[Top.next]
           rest == Append(Below, [file |-> Top.file, next |-> Top.next + 1])
       IN  IF i \notin DOMAIN TopData.deps
           THEN frames' = rest /\ UNCHANGED <<types, visited>>
           ELSE /\ types' = IF TopData.deps[i] \in Parsed(job)
                            THEN Merge(types, Declared(job, TopData.deps[i]))
                            ELSE types
                /\ Call(TopData.deps[i], rest)
    /\ UNCHANGED <<job, n, pc, at, resolved, errors>>

ReturnPublic ==
    /\ pc = "public"
    /\ frames # <<>>
    /\ Top.next > Len(TopData.public)
    /\ frames' = Below
    /\ UNCHANGED <<job, n, pc, at, types, visited, resolved, errors>>

EndCollection ==
    /\ pc = "public"
    /\ frames = <<>>
    /\ at > Len(Deps)
    /\ pc' = "refs" /\ at' = 1
    /\ UNCHANGED <<job, n, types, visited, frames, resolved, errors>>

-------------------------------------------------------------------------------

\* A map's entry message has no positions, whatever file it is in.
Positioned(ref) == job.files[TheFile].located /\ ref.role # "value"

\* What is wrong with a reference that has been looked up.  Without a position only a
\* field's undefined type is reported, or a map's value; a group's type is not looked at.
Faults(ref, found, shadow) ==
    IF ref.role = "group" THEN {}
    ELSE IF found \notin DOMAIN types
    THEN IF Positioned(ref) THEN {IF shadow THEN "shadowed" ELSE "undefined"}
         ELSE IF ref.role \in {"field", "value"} THEN {"undefined"}
         ELSE {}
    ELSE IF ref.role \in {"extendee", "method"} /\ types[found] = "enum" /\ Positioned(ref)
    THEN {"not a message"}
    ELSE {}

\* The type of a field is stated when it is found; methods and extendees state none.
StatedKind(ref, found) ==
    IF ref.role \in {"field", "value", "extension"} /\ found \in DOMAIN types THEN types[found] ELSE "unset"

ResolveRef ==
    /\ pc = "refs"
    /\ at <= Len(Refs)
    /\ LET ref   == Refs[at]
           scope == Scope(job, TheFile, ref)
           found == Lookup(ref, scope, types)
       IN  /\ resolved' = [resolved EXCEPT ![TheFile] =
                              Append(@, [name |-> found, kind |-> StatedKind(ref, found)])]
           /\ errors' = errors \cup {[file |-> TheFile, ref |-> at, kind |-> k] :
                                       k \in Faults(ref, found, Shadowed(ref, scope, types))}
    /\ at' = at + 1
    /\ UNCHANGED <<job, n, pc, types, visited, frames>>

EndFile ==
    /\ pc = "refs"
    /\ at > Len(Refs)
    /\ n' = n + 1
    /\ pc' = "file"
    /\ UNCHANGED <<job, at, types, visited, frames, resolved, errors>>

EndFiles ==
    /\ pc = "file"
    /\ n > Len(job.ordered)
    /\ pc' = "done"
    /\ UNCHANGED <<job, n, at, types, visited, frames, resolved, errors>>

Next ==
    \/ StartFile \/ CollectDirect
    \/ CollectPublic \/ FollowPublic \/ ReturnPublic \/ EndCollection
    \/ ResolveRef \/ EndFile
    \/ EndFiles

-------------------------------------------------------------------------------
(* Properties. *)

\* The table a file's references are looked up in has exactly the types the file
\* can see, whichever way its public imports cross or run in circles, and whatever
\* was collected for the files before it.
TableIsVisible == pc = "refs" => DOMAIN types = VisibleTypes(job, TheFile)

\* If no error is reported, every reference of a file with positions has become the
\* full name of a type the file can see, and methods and extendees name messages.
SoundResolution ==
    pc = "done" /\ errors = {} =>
      \A f \in Parsed(job) : job.files[f].located =>
        \A i \in DOMAIN job.files[f].refs :
          LET role == job.files[f].refs[i].role
              kinds(g) == Declared(job, g)
          IN  role # "group" =>
                \E g \in Visible(job, f) :
                  /\ resolved[f][i].name \in DOMAIN kinds(g)
                  /\ role \in {"extendee", "method"} => kinds(g)[resolved[f][i].name] = "message"
                  /\ role \in {"field", "value", "extension"} => kinds(g)[resolved[f][i].name] = resolved[f][i].kind

\* A name that one of the scopes around it declares in full resolves to the
\* innermost such declaration, unless the search is stopped by a nearer type of
\* its first part.
InnermostWins ==
    \A f \in Parsed(job) : \A i \in DOMAIN resolved[f] :
      LET ref   == job.files[f].refs[i]
          scope == Scope(job, f, ref)
          whole == {k \in 0 .. Len(scope) : Outer(scope, k) \o ref.name \in VisibleTypes(job, f)}
          first == {k \in 1 .. Len(scope) : Outer(scope, k) \o <<Head(ref.name)>> \in VisibleTypes(job, f)}
      IN  ~ref.absolute /\ whole # {} /\ Max(first \cup {0}) <= Max(whole) =>
            resolved[f][i].name = Outer(scope, Max(whole)) \o ref.name

===============================================================================
