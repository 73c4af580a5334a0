----------------------------- MODULE CompileCalls -----------------------------
(***************************************************************************)
(* Concurrent calls of protoc.Compiler.Compile on one Compiler, and what   *)
(* they share or leave outside their own memory: each call's overlay       *)
(* directory on disk, and the process-wide registry of location indexes    *)
(* that compileInternal's files are entered in and dropped from.  A call   *)
(* makes names of the paths it is given, takes in the files of descriptor  *)
(* sets, and reads the other files of those names and of their imports, in *)
(* some order, from its own source tree; it looks up positions in them,    *)
(* and fails at any time.  What is compiled is left to the other modules.  *)
(***************************************************************************)
EXTENDS SourceTree

CONSTANTS
    Call,         \* the goroutines calling Compile
    Compilers,    \* what a Compiler is configured with, and the disk it is run on
    Requests,     \* the paths a call is given and the names they import
    Cwd,          \* the current working directory
    Dir,          \* temporary directories the system can hand out
    None          \* no directory

\* What paths and names are made of, and the paths that are as Clean leaves them.
Component == STRING
CleanPath == Seq(Component \ {"", ".", ".."})

\* Every path that is given, and every name of a file, has a component.  Roots and files are
\* where they are on the disk; the names of an overlay are as they are joined to its directory.
\* os.MkdirTemp makes up a name for a directory that nothing has: no path that is given goes
\* through it, and nothing was in it before.
ASSUME FilesAssumption ==
    /\ None \notin Dir /\ Dir \cap Component = {} /\ {"", ".", ".."} \subseteq Component
    /\ Cwd \in CleanPath
    /\ \A r \in Requests : r.paths \cup r.imports \subseteq Seq(Component) \ {<<>>}
    /\ \A k \in Compilers :
          /\ k.overlay \cup k.files \subseteq CleanPath \ {<<>>}
          /\ k.protoPaths \in Seq(CleanPath)
          /\ k.described \subseteq Seq(Component)
          /\ k.mappings \in Seq([virtual : Seq(Component), disk : CleanPath])

VARIABLES
    compiler,     \* never changes
    request,      \* of each call: never changes
    pc,           \* "start", "overlay", "relative", "walk", "check", "release", "remove", "returned"
    dir,          \* the overlay directory of each call
    disk,         \* the names in each temporary directory that exists
    names,        \* of each call, the name it has found for each path so far
    from,         \* what each call has for each name so far: parsed, by where it is from
    index,        \* locationIndexes.m: "unbuilt" or "built" for each registered file
    indexed,      \* files of each call whose last position lookup used the index
    scanned       \* files of each call whose last position lookup scanned

vars == <<compiler, request, pc, dir, disk, names, from, index, indexed, scanned>>

Overlay == compiler.overlay

\* The files there are, those of temporary directories included.
Disk == compiler.files \cup UNION {{<<d>> \o n : n \in disk[d]} : d \in DOMAIN disk}

\* The proto paths, with the overlay directory in front; only if there is neither a proto
\* path nor a mapping is it the current directory.
Roots(c) ==
    (IF dir[c] = None THEN <<>> ELSE <<<<dir[c]>>>>) \o compiler.protoPaths

Mappings(c) ==
    LET roots == IF Roots(c) = <<>> /\ compiler.mappings = <<>> THEN <<Cwd>> ELSE Roots(c)
    IN  [i \in DOMAIN roots |-> [virtual |-> <<>>, disk |-> roots[i]]] \o compiler.mappings

\* The files a call has to have: those of descriptor sets, what it is given and what that
\* imports.
Needed(c) ==
    compiler.described \cup {names[c][p] : p \in DOMAIN names[c]} \cup request[c].imports

\* The file of a descriptor set, which comes with its SourceCodeInfo if it has any.
Described(name) == <<"described:">> \o name

\* SourceCodeInfo of a file as one call parsed it: never shared between calls.
SourceInfo(s) == s[1] \in Call /\ s[2] \in DOMAIN from[s[1]]

TypeOK ==
    /\ compiler \in Compilers /\ request \in [Call -> Requests]
    /\ pc \in [Call -> {"start", "overlay", "relative", "walk", "check", "release", "remove", "returned"}]
    /\ dir \in [Call -> Dir \cup {None}]
    /\ DOMAIN disk \subseteq Dir /\ \A d \in DOMAIN disk : disk[d] \subseteq Overlay
    /\ \A c \in Call : DOMAIN names[c] \subseteq request[c].paths /\ DOMAIN from[c] \subseteq Needed(c)
    /\ \A s \in DOMAIN index : SourceInfo(s) /\ index[s] \in {"unbuilt", "built"}
    /\ \A s \in indexed \cup scanned : SourceInfo(s)

Init ==
    /\ compiler \in Compilers
    /\ request \in [Call -> Requests]
    /\ pc = [c \in Call |-> "start"]
    /\ dir = [c \in Call |-> None]
    /\ disk = [d \in {} |-> {}]
    /\ names = [c \in Call |-> [p \in {} |-> Nothing]]
    /\ from = [c \in Call |-> [n \in {} |-> Nothing]]
    /\ index = [s \in {} |-> "unbuilt"]
    /\ indexed = {} /\ scanned = {}

GoTo(c, where) == pc' = [pc EXCEPT ![c] = where]

\* The same function, for s as well.
With(f, s, v) == [x \in DOMAIN f \cup {s} |-> IF x = s THEN v ELSE f[x]]
Without(f, S) == [x \in DOMAIN f \ S |-> f[x]]

-------------------------------------------------------------------------------
\* With an overlay, os.MkdirTemp picks a directory that does not exist; it may fail.
MakeDir(c) ==
    /\ pc[c] = "start"
    /\ \/ /\ Overlay = {}
          /\ GoTo(c, "relative")
          /\ UNCHANGED <<dir, disk>>
       \/ /\ Overlay # {}
          /\ \E d \in Dir \ DOMAIN disk :
                dir' = [dir EXCEPT ![c] = d] /\ disk' = With(disk, d, {})
          /\ GoTo(c, "overlay")
       \/ /\ Overlay # {}
          /\ GoTo(c, "returned")
          /\ UNCHANGED <<dir, disk>>
    /\ UNCHANGED <<compiler, request, names, from, index, indexed, scanned>>

\* Mutant: a failure to write the overlay returns without removing the directory.
WriteOverlayLeaks(c) ==
    /\ pc[c] = "overlay"
    /\ \/ \E n \in Overlay \ disk[dir[c]] :
             /\ disk' = [disk EXCEPT ![dir[c]] = @ \cup {n}]
             /\ UNCHANGED pc
       \/ /\ disk[dir[c]] # Overlay
          /\ GoTo(c, "returned")
          /\ UNCHANGED disk
       \/ /\ disk[dir[c]] = Overlay
          /\ GoTo(c, "relative")
          /\ UNCHANGED disk
    /\ UNCHANGED <<compiler, request, dir, names, from, index, indexed, scanned>>

\* The overlay files are written in map order, that is, in any order.  A failure
\* returns through the deferred removal.
WriteOverlay(c) ==
    /\ pc[c] = "overlay"
    /\ \/ \E n \in Overlay \ disk[dir[c]] :
             /\ disk' = [disk EXCEPT ![dir[c]] = @ \cup {n}]
             /\ UNCHANGED pc
       \/ /\ disk[dir[c]] # Overlay
          /\ GoTo(c, "remove")
          /\ UNCHANGED disk
       \/ /\ disk[dir[c]] = Overlay
          /\ GoTo(c, "relative")
          /\ UNCHANGED disk
    /\ UNCHANGED <<compiler, request, dir, names, from, index, indexed, scanned>>

\* cli.Compile makes names of the paths, one after the other; the order does not show.
NamePath(c, p) ==
    /\ pc[c] = "relative"
    /\ p \in request[c].paths \ DOMAIN names[c]
    /\ LET name == MakeRelative(Disk, Mappings(c), Cwd, p)
       IN  IF name = Nothing
           THEN GoTo(c, "remove") /\ UNCHANGED names
           ELSE names' = [names EXCEPT ![c] = With(@, p, name)] /\ UNCHANGED pc
    /\ UNCHANGED <<compiler, request, dir, disk, from, index, indexed, scanned>>

\* The files of descriptor sets are parsed before any other, and not registered.  A set that
\* cannot be read ends the call, with what other sets had dropped.
StartWalk(c) ==
    /\ pc[c] = "relative"
    /\ DOMAIN names[c] = request[c].paths
    /\ \/ /\ from' = [from EXCEPT ![c] = [n \in compiler.described |-> Described(n)]]
          /\ GoTo(c, "walk")
       \/ /\ compiler.described # {}
          /\ GoTo(c, "release")
          /\ UNCHANGED from
    /\ UNCHANGED <<compiler, request, dir, disk, names, index, indexed, scanned>>

\* parseRecursive reads one more file, of none that is parsed, and registers its SourceCodeInfo.
ReadSource(c, n) ==
    /\ pc[c] = "walk"
    /\ n \in Needed(c) \ DOMAIN from[c]
    /\ LET file == Open(Disk, Mappings(c), compiler.bundled, n)
       IN  /\ file # Nothing
           /\ from' = [from EXCEPT ![c] = With(@, n, file)]
    /\ index' = IF <<c, n>> \in DOMAIN index THEN index ELSE With(index, <<c, n>>, "unbuilt")
    /\ UNCHANGED <<compiler, request, pc, dir, disk, names, indexed, scanned>>

\* The walk is over.
EndWalk(c) ==
    /\ pc[c] = "walk"
    /\ Needed(c) \subseteq DOMAIN from[c]
    /\ GoTo(c, "check")
    /\ UNCHANGED <<compiler, request, dir, disk, names, from, index, indexed, scanned>>

\* The walk has reported errors, and compileInternal returns them.
FailWalk(c) ==
    /\ pc[c] = "walk"
    /\ GoTo(c, "release")
    /\ UNCHANGED <<compiler, request, dir, disk, names, from, index, indexed, scanned>>

\* findLocationByPath: the index is built on the first lookup, under the lock; a
\* file that is not registered is scanned, as those of descriptor sets always are.
Lookup(c, n) ==
    /\ pc[c] = "check"
    /\ n \in DOMAIN from[c]
    /\ IF <<c, n>> \in DOMAIN index
       THEN /\ index' = [index EXCEPT ![<<c, n>>] = "built"]
            /\ indexed' = indexed \cup {<<c, n>>}
            /\ scanned' = scanned \ {<<c, n>>}
       ELSE /\ scanned' = scanned \cup {<<c, n>>}
            /\ indexed' = indexed \ {<<c, n>>}
            /\ UNCHANGED index
    /\ UNCHANGED <<compiler, request, pc, dir, disk, names, from>>

\* A later phase has found errors, or all of them have passed.
EndChecks(c) ==
    /\ pc[c] = "check"
    /\ GoTo(c, "release")
    /\ UNCHANGED <<compiler, request, dir, disk, names, from, index, indexed, scanned>>

\* Mutant: the whole registry is dropped.
ReleaseAll(c) ==
    /\ pc[c] = "release"
    /\ index' = Without(index, DOMAIN index)
    /\ GoTo(c, "remove")
    /\ UNCHANGED <<compiler, request, dir, disk, names, from, indexed, scanned>>

\* The deferred releaseLocationIndexes drops the files the call has parsed.
Release(c) ==
    /\ pc[c] = "release"
    /\ index' = Without(index, {<<c, n>> : n \in DOMAIN from[c]})
    /\ GoTo(c, "remove")
    /\ UNCHANGED <<compiler, request, dir, disk, names, from, indexed, scanned>>

\* The deferred os.RemoveAll, if a directory was made.
RemoveDir(c) ==
    /\ pc[c] = "remove"
    /\ disk' = Without(disk, {dir[c]})
    /\ GoTo(c, "returned")
    /\ UNCHANGED <<compiler, request, dir, names, from, index, indexed, scanned>>

Terminated == (\A c \in Call : pc[c] = "returned") /\ UNCHANGED vars

Step(c) ==
    \/ MakeDir(c) \/ WriteOverlay(c) \/ StartWalk(c) \/ EndWalk(c) \/ FailWalk(c) \/ EndChecks(c)
    \/ Release(c) \/ RemoveDir(c)
    \/ \E p \in request[c].paths : NamePath(c, p)
    \/ \E n \in Needed(c) : ReadSource(c, n) \/ Lookup(c, n)

Next == (\E c \in Call : Step(c)) \/ Terminated

Spec == Init /\ [][Next]_vars

-------------------------------------------------------------------------------
(* Properties. *)

\* When no call is running, nothing is left of any: no overlay directory, and no
\* entry in the process-wide registry, which would keep every descriptor a
\* long-lived embedder has ever compiled.
NothingLeftBehind ==
    (\A c \in Call : pc[c] \in {"start", "returned"}) =>
        DOMAIN disk = {} /\ DOMAIN index = {}

\* What there is of a name below a mapping, by definition: no ".." and no "." in it.
At(m, n) == m.disk \o SubSeq(n, Len(m.virtual) + 1, Len(n))
Has(m, n) == IsStrictPrefix(m.virtual, n) /\ Stat(Disk, At(m, n))

\* "Overlay directory takes precedence", "directories will be searched in order", and the
\* bundled files come last.  Each call reads a file of the overlay from the directory it
\* wrote itself, never from a proto path, nor from the directory of a concurrent call, nor
\* before the overlay is complete.  Any other name is that of a file in the first place
\* that has something of that name, or of a bundled file if there is none or it is a
\* directory.  What is read for a path that was given, if there is such a file, is that
\* file, unless the path is a name, or the first place hides it by another one
\* (MakeRelative, findFile and Open each go through the mappings, cli.Compile and Compile
\* make them).  A descriptor set goes before all of them: a file it has hides the one of
\* that name wherever it is, in the overlay too, and no name is made by looking at it.
NamesLeadToFiles ==
    \A c \in Call :
        LET maps == Mappings(c)
            Places(n) == {i \in DOMAIN maps : Has(maps[i], n)}
        IN  pc[c] \in {"walk", "check"} =>
              /\ \A n \in DOMAIN from[c] :
                   IF n \in compiler.described THEN from[c][n] = Described(n)
                   ELSE IF n \in Overlay THEN from[c][n] = <<dir[c]>> \o n
                   ELSE \/ /\ from[c][n] = Bundled(n) /\ n \in compiler.bundled
                           /\ \A i \in Places(n) : (\A j \in Places(n) : i <= j) => At(maps[i], n) \notin Disk
                        \/ \E i \in Places(n) :
                              from[c][n] = At(maps[i], n) /\ \A j \in Places(n) : i <= j
              /\ \A p \in DOMAIN names[c] :
                   LET n == names[c][p]
                       file == Abs(Cwd, p)
                   IN  n \in DOMAIN from[c] /\ file \in Disk =>
                          \/ from[c][n] = file
                          \/ n \in compiler.described
                          \/ n = p /\ ~IsAbs(p)
                          \/ \E i, j \in Places(n) : i < j /\ At(maps[j], n) = file

\* "Compile is safe for concurrent use": whatever the other calls do, the files a call has
\* read stay registered until it is done, so that their positions always come from the
\* index, which has the last location of a path, and never from the scan, which has the
\* first.  A file of a descriptor set is never registered, by this call or for another:
\* its positions always come from the scan (compileInternal, findLocationByPath).
PositionsFromIndex ==
    /\ \A s \in indexed : s[2] \notin compiler.described
    /\ \A s \in scanned : s[2] \in compiler.described
===============================================================================
