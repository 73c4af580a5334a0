----------------------------- MODULE PluginOutput -----------------------------
(***************************************************************************)
(* What cli.Run does with the plugins of a command line once compilation   *)
(* has succeeded: each plugin with an output is run in turn, its response  *)
(* is collected in memory (collectPluginOutput, outputDir), and only then  *)
(* written to its output location (WritePluginOutput).  The first failure  *)
(* ends the run.                                                           *)
(*                                                                         *)
(* A file name stands for itself by its rank in sort order.  Content is a  *)
(* sequence of whole lines; a line has an indentation, the insertion point *)
(* its text names, if any, and the response entry it came with.            *)
(***************************************************************************)
EXTENDS FiniteSetsExt, SequencesExt

CONSTANTS
    Name,           \* file names: positive numbers, in their sort order
    Dotted,         \* the names that contain ".."
    Manifest,       \* META-INF/MANIFEST.MF
    Location,       \* output locations
    Format,         \* of each location: "dir", "zip" or "jar"
    Point,          \* insertion points
    Runs            \* the command lines considered

ASSUME NameAssumption ==
    /\ Name \subseteq Nat \ {0} /\ IsFiniteSet(Name)
    /\ Dotted \subseteq Name /\ Manifest \in Name
    /\ Format \in [Location -> {"dir", "zip", "jar"}]

\* The empty name and the empty insertion point of a protobuf string left unset.
NoName == 0
NoPoint == "no point"

\* No chunk has been started: a chunk has a name or an insertion point.
NoChunk == [name |-> NoName, point |-> NoPoint, data |-> <<>>]

AnyName == Name \cup {NoName}
AnyPoint == Point \cup {NoPoint}

Line == [indent : Nat, mark : AnyPoint, from : Nat]

\* One CodeGeneratorResponse.File; a chunk accumulated from such entries has the
\* same fields.
Entry == [name : AnyName, point : AnyPoint, data : Seq(Line)]

\* What an answer comes to: it reports an error; the plugin does not support a file
\* it was asked to generate for; or the response is taken.
Outcome == {"error", "unsupported", "response"}

Plugin == [hasOutput : BOOLEAN, outcome : Outcome, entries : Seq(Entry), location : Location]

\* fatal: compilation gave a warning and --fatal_warnings is set.
Run == [plugins : Seq(Plugin), allowEscape : BOOLEAN, fatal : BOOLEAN]

\* Each line of a response names the entry it came with.
ASSUME RunsAssumption ==
    /\ Runs \subseteq Run
    /\ \A r \in Runs : \A plugin \in Range(r.plugins) : \A k \in DOMAIN plugin.entries :
          \A line \in Range(plugin.entries[k].data) : line.from = k

VARIABLES
    run,            \* the command line: never changes
    p,              \* position in run.plugins
    pc,             \* "plugin", "collect", "write", "done"
    at,             \* entries replayed, or files written, so far
    current,        \* the chunk being accumulated
    files,          \* outputDir.files
    order,          \* outputDir.order
    hadError,       \* outputDir.hadError
    disk,           \* the files each location holds
    exit            \* "running", "ok", "refused" or "ioError"

outputDir == <<files, order, hadError>>
vars == <<run, p, pc, at, current, outputDir, disk, exit>>

TypeOK ==
    /\ run \in Run
    /\ p \in 1 .. Len(run.plugins) + 1
    /\ pc \in {"plugin", "collect", "write", "done"}
    /\ at \in Nat
    /\ current \in Entry
    /\ DOMAIN files \subseteq AnyName /\ Range(files) \subseteq Seq(Line)
    /\ order \in Seq(AnyName)
    /\ hadError \in BOOLEAN
    /\ \A l \in Location :
          DOMAIN disk[l] \subseteq Name /\ Range(disk[l]) \subseteq Seq(Line)
    /\ exit \in {"running", "ok", "refused", "ioError"}

NoFiles == [n \in {} |-> <<>>]

\* The files f with the file n made to hold the content.
With(f, n, content) == [m \in DOMAIN f \cup {n} |-> IF m = n THEN content ELSE f[m]]

Init ==
    /\ run \in Runs
    /\ p = 1
    /\ pc = "plugin"
    /\ at = 0
    /\ current = NoChunk
    /\ files = NoFiles /\ order = <<>> /\ hadError = FALSE
    /\ disk = [l \in Location |-> NoFiles]
    /\ exit = "running"

-------------------------------------------------------------------------------
(* The plugin loop. *)

ThePlugin == run.plugins[p]

Stop(why) == pc' = "done" /\ exit' = why

\* A plugin named only by a --plugin flag is not run.
SkipPlugin ==
    /\ pc = "plugin"
    /\ p <= Len(run.plugins)
    /\ ~ThePlugin.hasOutput
    /\ p' = p + 1
    /\ UNCHANGED <<run, pc, at, current, outputDir, disk, exit>>

ToRun == pc = "plugin" /\ p <= Len(run.plugins) /\ ThePlugin.hasOutput

\* The plugin cannot be run, or its answer is no response.
PluginFails ==
    /\ ToRun
    /\ Stop("refused")
    /\ UNCHANGED <<run, p, at, current, outputDir, disk>>

\* Mutant: the collected files of the plugin before are kept.
TakeResponseKeeping ==
    /\ ToRun
    /\ IF ThePlugin.outcome = "response"
       THEN pc' = "collect" /\ UNCHANGED exit
       ELSE Stop("refused")
    /\ at' = 0
    /\ current' = NoChunk
    /\ UNCHANGED <<run, p, outputDir, disk>>

\* The plugin has answered.  Its declared features are looked at before its files.
TakeResponse ==
    /\ ToRun
    /\ IF ThePlugin.outcome = "response"
       THEN pc' = "collect" /\ UNCHANGED exit
       ELSE Stop("refused")
    /\ at' = 0
    /\ current' = NoChunk
    /\ files' = NoFiles /\ order' = <<>> /\ hadError' = FALSE
    /\ UNCHANGED <<run, p, disk>>

AllPluginsRun ==
    /\ pc = "plugin"
    /\ p > Len(run.plugins)
    /\ Stop(IF run.fatal THEN "refused" ELSE "ok")
    /\ UNCHANGED <<run, p, at, current, outputDir, disk>>

-------------------------------------------------------------------------------
(* collectPluginOutput and flush. *)

Present == current.name \in DOMAIN files
Marked(point) == {i \in DOMAIN files[current.name] : files[current.name][i].mark = point}

\* insertAt: data goes before the line, indented like it.
Splice(target, i, data) ==
    SubSeq(target, 1, i - 1)
        \o [k \in 1 .. Len(data) |-> [indent |-> data[k].indent + target[i].indent,
                                       mark   |-> data[k].mark,
                                       from   |-> data[k].from]]
        \o SubSeq(target, i, Len(target))

Store(content) == files' = With(files, current.name, content)

PlainWrite ==
    /\ current.point = NoPoint
    /\ IF Present
       THEN hadError' = TRUE /\ UNCHANGED <<files, order>>
       ELSE /\ Store(current.data)
            /\ order' = Append(order, current.name)
            /\ UNCHANGED hadError

\* A file to insert into that does not exist comes to exist, empty.
Insertion ==
    /\ current.point # NoPoint
    /\ IF ~Present
       THEN /\ Store(<<>>)
            /\ order' = Append(order, current.name)
            /\ hadError' = TRUE
       ELSE IF Marked(current.point) = {}
       THEN hadError' = TRUE /\ UNCHANGED <<files, order>>
       ELSE /\ Store(Splice(files[current.name], Min(Marked(current.point)), current.data))
            /\ UNCHANGED <<order, hadError>>

Flush ==
    IF current = NoChunk THEN UNCHANGED outputDir ELSE PlainWrite \/ Insertion

TheEntry == ThePlugin.entries[at + 1]

\* Mutant: an insertion does not apply the chunk before it.
StartChunkUnflushed ==
    /\ pc = "collect"
    /\ at < Len(ThePlugin.entries)
    /\ TheEntry.point # NoPoint \/ TheEntry.name # NoName
    /\ IF TheEntry.point = NoPoint THEN Flush ELSE UNCHANGED outputDir
    /\ current' = TheEntry
    /\ at' = at + 1
    /\ UNCHANGED <<run, p, pc, disk, exit>>

\* An entry with a name or an insertion point applies the chunk before it.
StartChunk ==
    /\ pc = "collect"
    /\ at < Len(ThePlugin.entries)
    /\ TheEntry.point # NoPoint \/ TheEntry.name # NoName
    /\ Flush
    /\ current' = TheEntry
    /\ at' = at + 1
    /\ UNCHANGED <<run, p, pc, disk, exit>>

\* An entry with neither goes on with the chunk, or is refused if there is none.
ContinueChunk ==
    /\ pc = "collect"
    /\ at < Len(ThePlugin.entries)
    /\ TheEntry.point = NoPoint /\ TheEntry.name = NoName
    /\ IF current = NoChunk
       THEN Stop("refused") /\ UNCHANGED <<at, current>>
       ELSE /\ current' = [name  |-> current.name,
                            point |-> current.point,
                            data  |-> current.data \o TheEntry.data]
            /\ at' = at + 1
            /\ UNCHANGED <<pc, exit>>
    /\ UNCHANGED <<run, p, outputDir, disk>>

\* Mutant: the last chunk is not applied.
EndResponseUnflushed ==
    /\ pc = "collect"
    /\ at = Len(ThePlugin.entries)
    /\ current' = NoChunk
    /\ pc' = "write"
    /\ at' = 0
    /\ UNCHANGED <<run, p, outputDir, disk, exit>>

EndResponse ==
    /\ pc = "collect"
    /\ at = Len(ThePlugin.entries)
    /\ Flush
    /\ current' = NoChunk
    /\ pc' = "write"
    /\ at' = 0
    /\ UNCHANGED <<run, p, disk, exit>>

-------------------------------------------------------------------------------
(* WritePluginOutput. *)

\* The files are written in the order of their sorted names.
Collected == Range(order)
Rank(n) == Cardinality({m \in Collected : m < n})
Where == ThePlugin.location

\* Mutant: errors of the collection are not looked at.
WritingAnyway == pc = "write"

Writing == pc = "write" /\ ~hadError

RefuseCollected ==
    /\ pc = "write"
    /\ hadError
    /\ Stop("refused")
    /\ UNCHANGED <<run, p, at, current, outputDir, disk>>

NextPlugin == p' = p + 1 /\ pc' = "plugin" /\ UNCHANGED exit

\* One file of a directory.
WriteFile ==
    /\ Writing
    /\ Format[Where] = "dir"
    /\ \E n \in Collected :
          /\ Rank(n) = at
          /\ \/ /\ n \in Dotted /\ ~run.allowEscape
                /\ Stop("refused")
                /\ UNCHANGED <<at, disk>>
             \/ /\ n \notin Dotted \/ run.allowEscape
                /\ disk' = [disk EXCEPT ![Where] = With(@, n, files[n])]
                /\ at' = at + 1
                /\ UNCHANGED <<pc, exit>>
             \* Creating a directory fails, or the file's write is cut short.
             \/ /\ n \notin Dotted \/ run.allowEscape
                /\ \/ UNCHANGED disk
                   \/ \E cut \in 0 .. Len(files[n]) :
                         disk' = [disk EXCEPT ![Where] = With(@, n, SubSeq(files[n], 1, cut))]
                /\ Stop("ioError")
                /\ UNCHANGED at
    /\ UNCHANGED <<run, p, current, outputDir>>

AllWritten ==
    /\ Writing
    /\ Format[Where] = "dir"
    /\ at = Cardinality(Collected)
    /\ NextPlugin
    /\ UNCHANGED <<run, at, current, outputDir, disk>>

\* The manifest's own text is a line of no entry.
ManifestText == <<[indent |-> 0, mark |-> NoPoint, from |-> 0]>>

\* What goes into an archive: a jar gets a manifest unless the plugin made one.
ArchiveFiles ==
    IF Format[Where] = "jar" /\ Manifest \notin DOMAIN files
    THEN With(files, Manifest, ManifestText)
    ELSE files

\* A whole archive, in place of what was there; a name with ".." only warns.  An
\* archive cut short has no directory, so nothing can be read from it.
WriteArchive ==
    /\ Writing
    /\ Format[Where] \in {"zip", "jar"}
    /\ \/ /\ disk' = [disk EXCEPT ![Where] = ArchiveFiles]
          /\ NextPlugin
       \/ /\ disk' \in {disk, [disk EXCEPT ![Where] = NoFiles]}
          /\ Stop("ioError")
          /\ UNCHANGED p
    /\ UNCHANGED <<run, at, current, outputDir>>

Terminated == pc = "done" /\ UNCHANGED vars

Next ==
    \/ SkipPlugin \/ PluginFails \/ TakeResponse \/ AllPluginsRun
    \/ StartChunk \/ ContinueChunk \/ EndResponse
    \/ RefuseCollected \/ WriteFile \/ AllWritten \/ WriteArchive
    \/ Terminated

Spec == Init /\ [][Next]_vars

-------------------------------------------------------------------------------
(* Properties.  They describe a response by its entries alone. *)

\* The entries that start a chunk, and the files that chunks name.
HeadsIn(entries) == {k \in DOMAIN entries : entries[k].name # NoName \/ entries[k].point # NoPoint}
Named(entries) == {entries[h].name : h \in HeadsIn(entries)}

Entries == ThePlugin.entries
Heads == HeadsIn(Entries)

\* The entry that names the file entry k belongs to.
HeadOf(k) == Max({h \in Heads : h <= k})
FileOf(k) == Entries[HeadOf(k)].name
PointOf(k) == Entries[HeadOf(k)].point

\* The text of entry k has a line marked with the point.
Brings(k, point) == \E i \in DOMAIN Entries[k].data : Entries[k].data[i].mark = point

\* The file name n has a line marked with the point when entry h is reached.
MarkedBefore(h, n, point) ==
    \E k \in DOMAIN Entries :
        k < h /\ FileOf(k) = n /\ Brings(k, point)

\* The response cannot be applied: it starts without a name, writes one file twice,
\* or inserts at a point that is not there yet.
IllFormed ==
    \/ Entries # <<>> /\ 1 \notin Heads
    \/ \E h \in Heads :
          LET n == Entries[h].name
              seen == \E k \in Heads : k < h /\ Entries[k].name = n
          IN  IF Entries[h].point = NoPoint
              THEN seen
              ELSE ~seen \/ ~MarkedBefore(h, n, Entries[h].point)

\* The current response has just been written out in full.
Delivers == Writing /\ pc' = "plugin"

CountFrom(content, k) == Cardinality({i \in DOMAIN content : content[i].from = k})

\* Entries j and k insert at one point of a file, which is not brought again by the
\* text of the first, nor before that of the second by text that goes elsewhere: that
\* may come earlier in the file.
InsertedAlike(j, k) ==
    /\ FileOf(j) = FileOf(k)
    /\ PointOf(j) = PointOf(k) /\ PointOf(j) # NoPoint
    /\ \A i \in DOMAIN Entries :
          /\ HeadOf(i) = HeadOf(j) => ~Brings(i, PointOf(j))
          /\ FileOf(i) = FileOf(j) /\ PointOf(i) # PointOf(j)
                /\ HeadOf(j) < HeadOf(i) /\ HeadOf(i) < HeadOf(k) => ~Brings(i, PointOf(j))

\* Each line of a response that is written ends up once, and in the file its
\* entry, or the entry it continues, names: deferring a chunk until the next one
\* starts loses nothing and misfiles nothing.  And "it keeps repeated insertions at
\* one point in the order the plugin emitted them".
LinesDelivered ==
    [][Delivers =>
        /\ \A k \in DOMAIN Entries : \A n \in DOMAIN files :
              CountFrom(disk'[Where][n], k) =
                  IF n = FileOf(k) THEN Len(Entries[k].data) ELSE 0
        /\ \A j, k \in DOMAIN Entries :
              j < k /\ InsertedAlike(j, k) =>
                  LET content == disk'[Where][FileOf(k)]
                  IN  \A a, b \in DOMAIN content :
                         content[a].from = j /\ content[b].from = k => a < b]_vars

\* The content has each line of the response that goes to the file n, once.
Says(entries, n, content) ==
    \A k \in DOMAIN entries :
        LET file == entries[Max({h \in HeadsIn(entries) : h <= k})].name
        IN  CountFrom(content, k) = IF file = n THEN Len(entries[k].data) ELSE 0

\* The plugins before this one whose output goes to the location.
PluginsTo(l) == {q \in 1 .. p - 1 : run.plugins[q].hasOutput /\ run.plugins[q].location = l}

\* The location has the answers of the plugins before this one.  In a directory each file is
\* from the last plugin that names it; an archive is the last plugin's alone.
NamesOf(q) == Named(run.plugins[q].entries)
Over(l, q, n) == \E o \in PluginsTo(l) : q < o /\ (Format[l] = "dir" => n \in NamesOf(o))

HoldsAnswers(l) ==
    /\ \A q \in PluginsTo(l) : \A n \in NamesOf(q) :
          \/ Over(l, q, n)
          \/ n \in DOMAIN disk[l] /\ Says(run.plugins[q].entries, n, disk[l][n])
    /\ \A n \in DOMAIN disk[l] : \E q \in PluginsTo(l) :
          /\ ~Over(l, q, n)
          /\ n \in NamesOf(q) \/ (Format[l] = "jar" /\ n = Manifest)

\* The response of this plugin is written in part: it is being written, that has failed, or
\* it is refused for a name with "..".
PartWritten ==
    \/ pc = "write" \/ exit = "ioError"
    \/ /\ exit = "refused" /\ p <= Len(run.plugins)
       /\ Format[Where] = "dir" /\ ~run.allowEscape /\ Named(Entries) \cap Dotted # {}

\* The first failure ends the run and leaves what is there: at any time, and however the
\* command ends, each location has what the plugins run so far have answered
\* and nothing of any other, but for that of a response which is written in part.  So
\* nothing collected for one plugin gets into the output of the next, no plugin is passed
\* over, and a response that is refused takes nothing away (Run, outputDir,
\* WritePluginOutput, writeArchive).
LocationsHoldAnswers ==
    \A l \in Location : ~(PartWritten /\ l = Where) => HoldsAnswers(l)

\* "nothing reaches disk until the whole response has been processed": a response
\* that cannot be applied changes nothing on disk.
IllFormedWritesNothing ==
    [][(pc = "collect" \/ pc = "write") /\ IllFormed => UNCHANGED disk]_vars

\* "a response that fails half way through writes nothing new": after a refusal,
\* in which no I/O failed, the first plugin's response has left no file behind.
RefusedWritesNothing ==
    exit = "refused" /\ p = 1 => \A l \in Location : disk[l] = NoFiles
===============================================================================
