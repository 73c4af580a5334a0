# Verification of protoc-go

This directory is a formal model of protoc-go, a Protocol Buffers compiler in Go
that behaves like the C++ `protoc`: TLA+ modules translated from the code under
`compiler/`, `protoc/` and `io/`, TLC configurations that check them on small
instances, and TLAPS proofs. `PROJECT.json` maps every definition to the lines
it stands for.

Run TLC with `tlc -config X.cfg M` and the proofs with `tlapm M_proofs.tla`. The theorems
about a module `M` are in `M_proofs`, those about `ParseCache` in `ImportPipeline_proofs`; what
several of them need (sequences, least and greatest elements, sums over sets) is in
`ProofLemmas`.

## 1. The system

protoc-go is one process that runs a pipeline over `FileDescriptorProto`s.

| component | state | operations | interacts with |
|---|---|---|---|
| source tree (`importer.SourceTree`) | ordered mappings of virtual to disk paths, an embedded fallback | `Open`, `findFile`, `MakeRelative`, `VirtualFileToDiskFile` | read by the parse cache and by error messages |
| tokenizer (`io/tokenizer`) | position, comments waiting to be attached | `Next`, `collectComments` | the parser pulls tokens |
| parser (`compiler/parser`) | token position, errors collected so far, source locations | `ParseFile`, recovery (`skip*`), `ResolveTypes`, `CheckUnresolvedTypes` | called by cache workers and by the phases |
| parse cache (`parseCache`) | entries, semaphore, inline budget | `prefetch`, `parse`, `load` | goroutines; feeds the walk |
| import walk (`parseRecursive`) | `parsed`, `orderedFiles`, import stack, collected errors | one recursive call per import | consumes the cache, feeds the phases |
| phases of `compileInternal` | the descriptors themselves | types, nine custom-option resolvers, validators, warnings, canonical form | in order, each stops the compilation on errors |
| validators | none (read-only passes) | names, numbers, ranges, JSON names, features, editions | positions through the location index |
| location index | process-wide registry keyed by `SourceCodeInfo` | register, look up, release | shared by concurrent compilations |
| embedding API (`protoc.Compiler`) | overlay directory on disk | `Compile`, `Result.RunPlugin` | any number of concurrent calls |
| plugin runner (`compiler/plugin`) | a subprocess and its pipes | `RunPluginCommand` | one plugin at a time |
| plugin output | files in memory, then on disk | `collectPluginOutput`, `flush`, `insertAt`, `WritePluginOutput`, `writeArchive` | the plugin loop of `Run` |
| text and wire formats | none | `--encode`, `--decode`, `--decode_raw` | standard input and output |
| command line (`cli.Run`) | the configuration | `parseArgs` and the modes | everything above |

Not modelled: the tokenizer, the grammar of declarations in the parser, `--encode`, the
command line (section 7).

What is hard here: the goroutines of the parse cache, which open and parse files
ahead of a consumer that will later change the very descriptors they produced;
the recursion over import graphs with sharing and cycles, whose Boolean result
is ignored; the process-wide registry under concurrent compilations; the two
bounded pipes to a plugin; responses that are applied entry by entry, one entry
late; encoded messages whose fields come in pieces and in any order, in groups that may
not end; and long sequences of individually legal declarations (scopes, public
imports, number ranges, custom options) that only together are illegal.
`PROJECT.json` lists these hazards at their lines, each with the properties that
cover it.

## 2. Modules

### ImportGraph, ImportResolution, ImportWalk, ImportWalk_proofs

`ImportGraph` holds the data of one compilation (`Job`: what opening and parsing
each file yields, its imports, the requested files, the files of the descriptor
sets) and the questions asked of it: which files are needed, what lies on a
cycle, whether the request has an answer. They are least closed sets written
without recursion, so that they can be proved about.

`ImportResolution` is the abstract specification: files are emitted one at a
time, each after all its imports; a request is accepted only when everything
requested has been emitted, and rejected only if it has no answer.

`ImportWalk` is `compileInternal` up to the end of the walk. The goroutine's stack of
`parseRecursive` calls is the variable `stack`: a frame is a file, the position
in its import list, and the imports that failed. One action stands for one call
or one return.

| action | code |
|---|---|
| `Adopt`, `StartWalk` | descriptor sets into `parsed` and `orderedFiles` |
| `ReportCycle(f)` | `f` is on the import stack: report the chain, return false |
| `Reuse(f)` | `f` is in `parsed`: return true |
| `ReportUnusable(f)` | it cannot be opened or parsed: report, return false |
| `Descend(f)` | registered in `parsed`, its imports are walked |
| `Finish`, `FailSelfImport`, `FailImports` | the three ways a call returns after its imports |
| `EndWalk` | the loop over the requested files is over |

Abstractions: collected errors are a set; a file that does not parse has one
error; whether a file with failed imports also has undefined types is left open;
a descriptor set that cannot be read (the program stops at once) is left out.
`Safety` is the specification without its fairness, which is what is proved about.

### ParseCache, ImportPipeline, ImportPipeline_proofs

`ParseCache` models `prefetch`, `parse` and `load`. A goroutine is the caller
(`Main`) or the worker of one file: since an entry is registered before it is
opened, a file has at most one worker, which carries its name. Each goroutine has
a stack of frames, because small files are parsed on the goroutine that found
them. The lock, the atomic counter, the semaphore and the `done` channel are
steps of their own. The consumer is arbitrary: it prefetches in order, loads
anything, and may change a descriptor it was given at any time.

`ImportPipeline` composes `ParseCache` with `ImportWalk`: the walk's load becomes
`BeginLoad`, `EndLoad`, `UseLoaded`, and while it waits the workers run. Its main
property is that the composition satisfies `ImportWalk!Spec`, the sequential
specification, with its liveness: so what is proved of `ImportWalk` holds of the
concurrent program.

### SourceTree, CompileCalls, CompileCalls_proofs

`SourceTree` maps names to paths and back: `findFile` with its round trip, `Open` with
the bundled files behind it, `MakeRelative`. Names and paths are sequences of components,
so that an empty component, "." and ".." mean what they do to `filepath.Clean` and
`filepath.Rel`; a disk is a set of absolute paths.

`CompileCalls` is concurrent calls of `Compiler.Compile` on one `Compiler`, and what they
share or leave behind: the overlay directory each makes on the disk, and the registry of
location indexes. A call makes its directory, writes the overlay (`WriteOverlay`, in any
order), makes names of the paths it was given (`NamePath`), takes in the files of descriptor
sets (`StartWalk`), reads the other files of those names and of their imports (`ReadSource`,
in any order: the order is `ImportWalk`'s matter), looks positions up, and may fail at any
point; the deferred `Release` and `RemoveDir` end it. `NamesLeadToFiles` says which file each
name must lead to, without the round trip and without `Clean`. The files of descriptor sets
(`described`) are parsed before all others and so hide every file of their name. They are
never registered, since only `parseRecursive` does that: positions in them always come from
the scan, those in all other files from the index, which is what `PositionsFromIndex` says.

### PluginSubprocess, PluginOutput, PluginRun, PluginRun_proofs

`PluginSubprocess` is `RunPluginCommand` on one side of two bounded pipes and any program
on the other. `Kind` says what the program may do: never start, read to the end before
writing, write as it goes (and read no further while a write of its own blocks), or quit
at any time. `Call` and `Return` are the call from the loop: each has pipes of its own.

`PluginOutput` is the plugin loop of `cli.Run`, the replay of a response in memory (`StartChunk`,
`ContinueChunk`, `EndResponse`, each with its `Flush`) and the writing of a
directory or archive. Running a plugin is one step there, `PluginFails` or `TakeResponse`. Content
is a sequence of whole lines; a line has an indentation, the insertion point it names and the
entry it came with, which is enough to tell what is lost, misfiled or out of order. File
names are ranks in sort order; a write may fail having written a part.

`PluginRun` composes the two: `CallPlugin` makes a call, its steps and those of the plugin
interleave (`Within`), and `ReturnAnswer` or `ReturnError` is the loop's step. A plugin
whose request could not be written is left behind and may still run when the loop is done.
What comes of it is `LocationsHoldAnswers`, a relation of the disk to everything answered
before: at any time, and however the command ends, each location has the whole answers of
the plugins run so far and nothing of another, but for one response that is being written
or was cut short.

### TypeNames, TypeResolution, UnresolvedTypes, UnusedImports, TypePhases, TypePhases_proofs

`TypeNames` holds what the other three share: a file's declarations and
references, the lookup of a name through the scopes around it
(`resolveTypeName`), and, without saying how it is found, what a file can see
through its imports (`Visible`). A fully-qualified name is a sequence of
identifiers; a reference has a scope, a role and a name. The value of a map is a role of its
own: its field is in the entry type, has no position, and is passed over next to failed imports.

`TypeResolution` is `ResolveTypes` over all files: the table of a file is
collected from itself, its imports and the recursive `collectPublicImportTypes`
(its calls are the variable `frames`), and each reference is looked up. Files of
descriptor sets may import each other in circles, have public imports out of
range, and come without positions, in which case most errors are not reported.

`UnresolvedTypes` is the smaller check made next to failed imports, with its
hints, and `UnusedImports` is `detectUnusedImports`. The Go maps that decide
which of two declarers counts are the last in order for `UnusedImports`, and any
of them for the hints, where a map is ranged over. `TypePhases` composes the three:
a pool with failed imports is only checked, another is resolved and, if that
succeeds and no type is declared by two files (`NamesAreUnique`, of `validateDuplicateNames`),
searched for unused imports. (Other phases come in between and may fail; then there are
simply no warnings.)

### NumberSpaces

The numbers of messages, extensions and enums, from the parser to
`--print_free_field_numbers`. `Parse` stores the ranges as the parser does: an
inclusive end becomes an exclusive one in `int64` and is cut to `int32`, `max`
becomes the number after the largest field number, and a message set extends
every range that ends there at its closing brace. Then one action stands for each
validator of phase 1 that is about numbers, reserved names, empty oneofs or empty
enums, in the order of `compileInternal`, with its walk over files and nested
messages; the requests for suggestions add up per message, and `Suggest` and
`PrintFree` compute what is suggested and printed as the code does, by a walk over
sorted ranges. Errors are pairs of a validator and the message, enum or extension
that is at fault. `IsJob` is what a parser can hand over: nesting is a tree, and the
extensions of a file are next to each other. The module has no specification of its own:
`DescriptorPhases` puts its steps in order with the validators of names, fields and
features, and is where its properties are proved.

Read off the model, and left as they are: an extension of a message set may
declare a number up to 2147483646, but `validateMaxFieldNumbers` refuses any
extension above 536870911; an explicit end of 536870911 in a message set is taken
for `max`; and an extension number used twice in one file is only a warning if
another file used it first, since extensions are compared with the first one.

### OptionValues, OptionStatements, OptionResolution, OptionOutput, CustomOptions

Options from the text to the descriptors put out, module by module in the order of
the code. A job has places (the rest of a block, or of a list in brackets, with
nothing but options in it), each with its tokens, and a pool: the messages,
extensions and enums there are.

`OptionStatements` is the nine option parsers, one action each
(`parseFileOption` … `parseExtensionRangeOptions`), and `OtherStatement` for what
stands between statements. An action takes one statement, or one entry of a list:
a custom option goes to `statements`, a built-in one to `builtIns`; an error makes
the parser skip as that place of the code does, or ends the file. A token has a type
and a text; as in the code, almost all comparisons look at the text alone. Built-in
options are tables from names to the values they take. A loop that would wait
forever for a closing brace sets `pos` to 0 (`Hung`).

`OptionValues` is the encoding of literals: the range checks, the string-to-number
parsers, varints, zigzag and fixed numbers over integers of `Narrow` and `Wide` bits,
message literals with extensions, `Any` and MessageSets. Bytes are records, one per
tag, so that nothing but the varint bytes themselves is abstracted.

`OptionResolution` is `compileInternal`'s nine resolvers, one action each, a statement
per step. What they share is `Resolve`; what they differ in (scopes, signs, counters,
aggregates at a sub-path) is in each action. `OptionOutput` is canonicalization,
the stripping of source-retained options and the choice of form for each output.

`CustomOptions` says what it should all mean. Each element's options are a message:
a map from numbers to values. That message is computed twice, from the statements as
they are written (`Written`: no bytes, no fragments, no counters) and from the bytes
(`Read`, as any reader of the wire format would), and compared.

### NameSpaces, FieldRules, Features, DescriptorPhases, NameSpaces_proofs, DescriptorPhases_proofs

`DescriptorPhases` is the validation of `compileInternal` and two outputs that follow
it. A job has files, each a list of declarations with the one each is in, and, apart
from them, what of its messages and enums concerns numbers (for `NumberSpaces`).

`NameSpaces` has the names that are made of names (entry types of maps, fields of
groups, oneofs of optional fields of proto3, JSON names, enum values without their
prefix) and the three validators that compare names. `FieldRules` has the validators
of one field, extension, message or enum, and `Features` those of edition features
(where they may be set and on what) with the computation of `--edition_defaults_out`.
Each validator is an operator that gives the declarations it finds at fault in a file.

The actions are in the order of the code: `Parse`; in phase 1 `ValidateRule` (the four
validators of `FieldRules` there), `RegisterNext` and `validateMapEntryConflicts` (duplicate
names, a file at a time) and `Validate` (the next of `NumberSpaces`), then `Decide`;
in phase 2 `ValidateDescriptors` (one of 21 validators over all files) and
`DecideDescriptors`; then `PrintFree`, or `AppendEntry` for every edition and
`WriteDefaults`, with `CannotDescribe` and `CannotEncode` where that fails.

The properties state the rule of the language for declarations as a whole, where the
code has a validator with a walk of its own for each part of it:
`SymbolsAreUnique` (full names), `DerivedNamesStayApart` (JSON names and enum prefixes),
`DescriptorsAreSound` (what a declaration may be), `DefaultsAreExact` (what a reader
of the defaults file finds for each edition). The code takes a field for a map by the last
part of its type's name (`isMap` of `Features`), so a message field has the full name of its
type, and `DescriptorsAreSound` excepts those that are mistaken (`TakenForMap`).

### WireFormat, TextDecode

`WireFormat` is encoded data as the readers of `cli.go` take it apart: a sequence of items, a
tag with the value that follows it, up to the first that cannot be read. It has
`--decode_raw`: `validateRawProto` and `decodeRawProto`, with their loops over groups. A
length-delimited value is a record of what it is in each way it can be read: as text, as a
message, as packed numbers. What is printed is a sequence of lines that open a message,
close one, or give a value.

`TextDecode` is `Run` for `--decode_raw` (action `DecodeRaw`) and `runDecode` for `--decode`:
`Validate` (`validateProtoWithSchema`), `Warn` (`findMissingRequired`) and `PrintText`. In
`printTextProto` the entries are collected and then pass through the code's filters in
its order: `Recognised` (closed enums), `Singles` (the last of a singular field, with the
pieces of a message), `LastOfOneofs`, `Present` (presence), `Completed` (map entries) and
`Sorted`. The reference for it, `TextOf`, says field by field what a message holds and never
looks at entries. It is stated for `Regular` data; what is left out there the printer gets
wrong, and section 6 lists it.

## 3. Runs

| run | what it shows | bounds |
|---|---|---|
| `import_walk` | the order is topological, the verdict is right, what is needed is delivered, cycles reported are real, the walk ends and implements `ImportResolution` | every graph of three files with at most two imports each, any file missing or malformed, one or two requests, three shapes of descriptor sets |
| `import_walk_fallback` | finding: descriptor sets win over the directories | the same |
| `import_pipeline` | loads return what parsing makes of the file, each file is parsed once and within the bounds, loads return, the workers end, and the concurrent program behaves as the sequential walk | four files, two of them too large for inline parsing, budget for two units, one worker slot; a diamond, a chain with a file queued twice, cycles; each of an absent and two malformed files; a descriptor set |
| `compile_calls` | two concurrent calls: each name leads to the right file, positions come from the index, those in files of descriptor sets from the scan, nothing is left behind | with and without an overlay, three sets of described files, four lists of proto paths (none, one, two apart, one in the other), three of mappings (one that hides a directory, two of one name), three disks; seven requests with relative, absolute and dotted paths, names with empty components, directories and bundled names |
| `plugin_run` | only whole answers of plugins that exited with zero are written; the command ends, but for two processes that write against each other with both pipes full; it refuses only for cause; each line is delivered once and in order; each location holds the answers of the plugins so far and nothing else; a response that cannot be applied writes nothing | every response of up to four entries over an alphabet of seven, from a plugin that answers, and one that uses two points; pairs of plugins at the same or different locations, the first of them any program, with requests and responses below, at and above a pipe of two units |
| `plugin_output_refused` | finding: files are written before a name is refused | the same |
| `type_phases` | tables hold what is visible, resolution is sound, innermost wins, failed imports hide no undefined type of a field or a method (but one that a nearer type of its first part hides), unused imports can be deleted, the phases end | references of one and two identifiers, of fields, values of maps and methods, in a nested message against every mix of local and imported declarations; four shapes of public imports over four files with every choice of public ones, two of them circular; every mix of public and option imports, types and extensions used, next to no file, an earlier or a later one that repeats an extension's number; one failed import with a file behind a public import, and a field, a map value, an extendee or a method |
| `descriptor_phases` | every offender is named (one in a message with too large a range through that message, an extension numbered below 1 through the range it is in); no extension number is reused in silence; suggested and printed numbers are exactly the free ones; a name is declared once and the duplicates point to the first; derived names stay apart; a descriptor is accepted exactly if each declaration can be what it says, or is a message field taken for a map that sets its encoding, which is refused; each edition finds every feature's newest default, of two in one edition the first | numbers: `int32` up to 15, field numbers up to 11, 6 and 7 kept; up to two fields and a reserved and an extension range of eight kinds each, with and without a message set; two ranges of each kind; a nested message or map entry; three extensions of two messages in two files; enums of two values. Names: every pair of fifteen kinds of declarations in a message, every triple of nine that make oneofs, every triple at the top of a file, pairs and triples over two files in two packages; three fields with JSON names, three values in an enum. Rules: every field or extension of the interesting labels, types, options and defaults, in and after message sets, in proto2 and proto3. Features: every setting on every kind of declaration below every setting of the file, enums below messages below files, message fields beside maps whose entry types have the same last name. Defaults: two features, of one number or two, with up to three defaults in three editions, also two in one edition, every minimum and maximum |
| `number_spaces_edge` | finding: a range up to the largest `int32` is empty | extension ranges from 2..11 to 11..15 |
| `custom_options` | what is recorded is what is written, with the text grammatical; what is refused is refused for a cause; the canonical form means the same and is in one piece; the outputs lack exactly the source-retained fields; locations lead to values; the parser never stays at a token unless a literal is unclosed | integers of 2 and 4 bits; every literal against every type, on every kind of element and in literals; names of up to three parts in scopes of two, from every pair of declarations; every pair of statements on sub-paths and literals two deep; two files; each built-in option with each value; the texts one token away (dropped, doubled, replaced, inserted) from four base texts on each kind |
| `option_retention` | finding: source-retained fields survive in groups and MessageSets | one group, one item |
| `text_decode` | `--decode_raw` takes exactly the well-formed data and prints every field; `--decode` refuses only for cause and prints a regular message as a parser would have merged it, and names the required fields that are missing | integers of 3 and 4 bits, messages up to three deep; up to three of 17 fields of a proto2 message (enums, groups, a oneof, extensions, pieces, unknown numbers) or of 16 of a proto3 one (presence, maps, UTF-8), or two and one of 16 endings, most of them broken |

Three files are enough for the walk's hazards: sharing needs a diamond's two
paths (a file and two importers), the interesting cycles have length one, two
and three, and the confusion of "already parsed" with "succeeded" needs one file
that fails and a second importer. Four files in `import_pipeline` give a file that is
queued from two sides while its importers are parsed inline and by workers.
Two units of pipe tell a full pipe from a partly full one. The numbers of
`descriptor_phases` have room for every order of the bounds that matter: zero, the kept
numbers, the largest field number, the one after it, and the largest `int32`. `compile_calls`
needs two calls, since what one does to the other (directories, registry) goes through
one entry of a shared table at a time; roots in each other are what makes one path have
two names. `custom_options` has integers of 2 and 4 bits for 32 and 64: the range checks
compare with the ends of the narrow and wide types, and a varint of 4 bits has two bytes
of two bits. Groups, sub-paths and literals two deep show what happens at a step of
the recursion into a value; the code does the same at each depth. The
texts that are one token away from a grammatical one reach every error path of the
parsers of options, and every position at which they can be left.

The two option runs share a configuration of jobs in families (`Jobs` is a set of sets),
as `descriptor_phases` does, so that each family is as large as its own question asks
and they are not multiplied.

## 4. Fairness

`ImportWalk` is sequential: the goroutine runs (`WF_vars(Next)`). In `ParseCache`
and `ImportPipeline` each goroutine that can run does (weak fairness per
goroutine, the Go scheduler); a worker waiting for a slot needs no more, since
there are finitely many workers and each gives its slot back. `TypePhases` is
sequential, as the walk is. In `PluginRun` the command and the plugin run when they can; the plugin is
assumed to read what it may, and to exit once it has nothing left to write. The
other modules have no liveness property and no fairness; that the parser of options
does not stay at a token is the action property `ParserAdvances`.

## 5. Proofs

Everything below is proved for every value of the constants: any files and graphs, any
number of calls, any capacity of pipes, sources and numbers of any size. The assumptions
are named in the modules that declare the constants, and only say what kind of things
they are (`Jobs \subseteq Job`, `Runs \subseteq Run`, capacities are positive numbers),
what parsing and resolution leave in a file (`FilesAssumption`), or what is built into the code (`BoundsAssumption`: the kept numbers lie below the
largest field number, which lies below the largest `int32`).

**Import walk** (`Jobs \subseteq Job`). The state is type correct (`TypeCorrect`), `IInv` is
invariant (`Invariance`), and from it `Topological`, `OrderedOnce`, `Verdict`, `Delivered`
and `CycleChainsAreReal`; the walk implements the safety part of `ImportResolution`
(`ImplementsResolution`). The invariant has layers, each proved on top of the ones before.
`StackShape`: the stack is a path of imports with no file twice. `BookInv`: what is ordered
or on the stack is parsed, nothing is both ordered and on the stack. `ReachInv`: only
needed files are parsed, and a file higher on the stack is a descendant of those below;
this is what makes a file met again on the stack a true cycle, so that an error implies the
request has no answer (`ErrorsInv`). `OrderInv`: while nothing has failed, everything parsed
is ordered or on the stack, and everything behind a frame's position is ordered; without
it `Topological` is not inductive, since a file in `parsed` could be one whose own imports
failed.

**Parse cache** (`Parameters`). `CacheIsInvariant` and `CacheIsFaithful` are about the cache
with a consumer that does what it likes: loads anything at any time, and changes
descriptors it has been given. `FramesInv` says what each frame of each goroutine may be
doing, and that a file is on one stack, once; `ResultInv` what a closed entry holds;
`SlotsInv` who holds the lock and the slots; `BudgetInv` that the inline counter is the sum
of the sizes of the files being parsed inline, which needs the lemmas on sums.

**Pipeline** (`CacheAssumption`). A behaviour of `ImportPipeline` is one of the cache for
that consumer, so `LoadsAreFaithful` and `ParsingIsBounded` carry over; and since a load
returns what the file says, each step is a step of the sequential walk or none
(`PipelineIsSequentialWalk`). With the theorems on the walk, `PipelineDelivers`: order,
verdict and delivery of the concurrent program do not depend on scheduling.

**Plugins** (`RunsAssumption`, `NameAssumption`, `PipeAssumption`, `ProgramsAssumption`).
`LoopInv` is about the exchange: what has been written is in the pipe or received, a call
is with the plugin the loop is at, an answer taken is whole. From it come
`OnlyWholeResponses`. To the disk a step of the loop is a step of the small specification
`PluginOutput` or none (`LoopRunsOutput`, a lemma by the shape of the composition), so that
what follows can be proved without the processes. `OutputInv` is about the
replay, and proved of the small specification: what is stored, and the chunk at hand, are
those of the entries applied so far (`CollectInv`), and of all of them once anything is
written (`AllReplayed`). So a response that gets as far as the disk can be applied
(`IllFormedWritesNothing`), and together with `LoopInv`, a refusal has one of the causes
there are (`RefusedForCause`).
`LinesInv` is about the text and runs one chunk behind the replay: for the chunks flushed
so far, `Delivered` says of each file that it holds the lines of its own chunks, each
once, and no others; that insertions at one point are in order; and that what was
inserted at a point lies before every mark of that point that the file has, unless its
own text or text that went elsewhere since has brought the point again (`Unbrought`).
That last part is the strengthening: `flush` inserts before the first mark it finds, so
the next insertion comes after earlier ones only if no mark lies before them. Each
`Flush` keeps it (`FlushMeans`, `InsertionDelivers`), by lemmas on what splicing a
sequence keeps, counts and orders; `Written` adds the files of lower rank that are on the
disk. It needs of `RunsAssumption` that the label of a line names its entry. The attempt
showed that `LinesDelivered` had promised too much: two insertions at one point were said
to be in order if the first does not bring the point again, but text inserted at another
point between the two may bring it, earlier in the file, and then the second insertion
goes there. TLC found that response too, once the run had a second point (`Moved`);
`InsertedAlike` now excludes it.
`LocationsInv` is about all plugins so far: `HoldsBut` says what a location has but for the
files of the present response that are written already. Each `WriteFile` adds one name to
those, and the last turns them into an answer (`Says`, from `LinesInv`) that is over all
earlier ones of its names, or of its archive. That nothing collected is there when the next plugin
starts comes from `CollectInv`. So `LocationsAlwaysHold`.

**Calls** (`FilesAssumption`: paths are not empty, roots, files and the names of an overlay are
clean, and no path goes through the directory that `os.MkdirTemp` will make up for a call).
`CallsInv` tells the directories on the disk and the entries of the registry by where each
call is (`DirInv`, `RegistryInv`: what a call has parsed is registered until it releases it, but
for the files of descriptor sets, which never are). From it: `NothingLeftBehind`, `PositionsFromIndex`, and
`CallsReadTheirOverlay`, by which a call that names or reads files has a complete overlay of
its own, whatever becomes of the other calls. `NamesLeadToFiles` is proved in three parts.
About paths: `Clean` leaves no "" or dot and does nothing to a path without
(`CleanIsTidy`, `CleanOfTidy`, by an induction along the fold it is), `Rel` gives back
what is below a directory (`RelBelow`) and goes up for what is not (`RelInside`); so the round
trip of `findFile` accepts a name exactly if there is something of that name
(`FindsMeans`), and what `MakeRelative` makes leads back (`NameLeads`). About the disk: below
what a call is given, and below its own directory, the disk is as if the call were alone
(`SameDisk`). And the invariant: what has been named and read so far is what the call would
name and read alone (`NameInv`, `ReadInv`); the property itself is not inductive, since it
looks at the disk, which the other calls change.

**Types** (`IsPool`: what is imported is in the pool or failed, declarations have names).
`TableInv`: the table of a file in the making is sound, and holds the types of every file
visited, except those that a pending call of `collectPublicImportTypes` has yet to come
to; hence it is complete in the end although a file visited once is never entered again
(`TableIsComplete`). `ResolvedInv`: as long as nothing is reported, each reference looked up
has the meaning the finished table gives it, and each one resolved is innermost
(`ResolutionIsSound`). `ReportedInv`: next to failed imports, each undefined reference of a field
or a method passed has its report (`FailedImportsHideNothing`). Two facts about the lookup carry this:
that it finds the outermost-in of the scopes, and that `Visible`, a least closed set, is
what the calls reach. `UnusedCanBeRemoved` is about the maps of `detectUnusedImports`, which
know no visibility: the one declarer of a type, or the last of an extension if it is in sight,
counts as used (`DeclarerIsUsed`), and a file that imports nothing publicly takes nothing
else out of sight when it goes (`StillSeen`).

**Numbers** (`BoundsAssumption`, `JobsAssumption`). `NumInv` says, for each of the 23
validators, what it must have named once it has run (`Faulty(v)`), although several of them
see only a part of the declarations, stop at the first, compare neighbours in an order, or
leave a message to another validator. Then `OffendersAreNamed` is a fact about sets: every
offender is `Faulty` for some validator, or is answered for as the property says. It
needs the pigeonhole (a number spent twice is a pair that some validator compares:
`SpentTwice`) and the outermost message with a range too large (`Outermost`). The parser's
part is `ParsedInv`: what the ranges are after the conversions, the cut to `int32` and the
message sets. `ReuseIsNeverSilent` follows from the warnings and `Faulty`.
`FreeNumbersAreFree` rests on an invariant for each of the two walks over sorted ranges:
after some of them, what has been printed is what they leave below the next number
(`WalkInv`), and what has been suggested is the lowest that all of them leave, with none
passed over while some were wanted (`ListInv`). Ranges overlap, nest and, where an end has
wrapped, are empty; the order by starts is enough (`SortedRanges`). `AskInv` then says
where a compilation keeps these lists, and that numbers are wanted only for a message
that an error names.

**Edition defaults** (`PoolsAssumption`: finitely many features, with editions that are
numbers). The scan of `latestDefault` keeps the newest default so far, and of several the
first (`LatestIsBest`), so an entry says what each feature is by default in its edition,
whichever of the two sets it is in (`EntryIsDefaults`). The editions of the entries are all
that some default starts at, in ascending order (`AscendingAscends`), and between two of
them no feature's newest default changes (`NewestStays`). With `DefaultsInv` (the entries so
far are those of the first editions, and what is written has all of them, last)
`DefaultsAreExact` follows for every edition up to the maximum. `SortedRanges` and
`AscendingAscends` are instances of one lemma about the sorting of finite sets by what
comes before (`RanksInOrder`).

**Names** (`FilesAssumption`: each declaration has a name and comes after the one it is in,
which is one that the grammar allows, and the name of a group starts with a capital letter,
as `parser.go:2688` asks). Each pass of `validateJsonNameConflicts` reports a
field if the first one of its name is another one, unless both names are defaults
(`PassReports`); that the two passes together miss no clash rests on the first of a name: if it
is skipped in the custom pass, the other pass reports the field (`JsonClashes`). The
comparison of `validateEnumPrefixConflict` with the first value of a name is enough only
because values of one name have been refused before: `ValuesStayApart` needs
`ValuesHaveNames`. That is a fact about `validateDuplicateNames`, and follows from the next:
a registration without an error leaves no name twice (`NoErrorsNoted`). `RegistryInv` and
`FoundInv` carry both through the phases, up to the verdict that `DerivedNamesStayApart` is
about.

**Full names.** `SymbolsAreUnique` counts: of the declarations of one full name, all but one
are errors. So what is registered and what is declared must correspond one to one.
`NameSpaces_proofs` shows it in three steps. A file registers each of its declarations once
and nothing else (`ListsSymbols`): a symbol is identified by its declaration and by what the
declaration is registered as (`Tag`), and the walk through nested messages, which lists what
is in a message in several loops, lists for each message the tags of all that is below it
(`Beneath`, `TagsBelow`), no two messages the same (`TypesApart`). The symbols of one declaration
have different names (`SymbolsApart`): the entry type of a map is not called as its field
(`EntryNameIsNew`: camel case would have to add letters), a group's name differs from its
field's since it has a capital letter, and the name of a made oneof is free (`OneofsAre`,
`FreshIsFree`: there is one more name with X's than there are names taken). And whatever is
registered, in whatever order of names, the registry has the first of each name and one
error for each of the others (`Notes`, kept by `Check` in `CheckNotes` and by a file in
`RegisterFileNotes`). `RegistryInv` has `Notes` of all files so far; with `DeclarationsAre`
(the property's `Declarations`, read off the files without the walk, are those registered)
the errors can be counted name by name (`ErrorsOfName`). A made oneof avoids the names of its
own message only: where two messages of one full name are declared, their made oneofs clash as
well, and the property says no more than that.

**Declarations** (`FilesAssumption` again, with `IsDescribed`: kinds, types, labels and
features are those there are, the type of an enum field is the full name of an enum, and that
of a message field a full name, which is what resolution leaves). `DescriptorsAreSound` has two halves. One is about a file:
the validators of phase 1 name no declaration exactly if each may stand (`StandingMeans`), and
those of phase 2 find nothing exactly if options and defaults fit (`OptionsMean`), only
proto3 is used in proto3 (`Proto3Means`), and features are coherent (`FeaturesMean`). Four
of these need more than the definitions. A default is a declared value of its enum: the code
compares names it makes itself, so the full names of values and of their enums must be taken
apart again (`DeclaredValues`). `isEnumOpen` looks at an enum and at its file, but features
are inherited along the whole chain of messages: that no message or group can set `enum_type`
makes them agree (`OpenedByTheFile`), by the target table that the code has in the form of
several walks (`TargetsMean`). The validator of `message_encoding` finds those that are no
messages and, besides, exactly the mistaken ones of `TakenForMap` (`EncodingMeans`): every map has
an entry type of its own name beside it. And that an extension is not required in proto3 is left to
phase 1. The other half is about the run: `RulesInv` and `SaidInv` say that the errors kept
are those found by the validators that are done, no more and no less, although the last one
is skipped after an error of the one before. The proof found the reference definition wrong
in one place: it did not let `packed` stand on repeated floats, which TLC had not met
because no instance had one; now one has.

Where the model folds over a set or a sequence, or orders one (the inline counter, the
components of a path, the nesting of messages), the proofs take a smallest counterexample
instead of an induction (`ProofLemmas`).

What stays with TLC, and why:

- Liveness, and the fair part of the refinements (`Termination`, `LoadsReturn`, `Quiescence`,
  `CommandEnds`, `ImplementsResolution` and `ObservesSequentialWalk` with fairness): the
  prover has no support for them.
- All of `CustomOptions` and `TextDecode`: values nest, and the definitions are recursive, those
  of the option parsers (`ParserAdvances`) too.

## 6. Findings

Each is a run that TLC must find violated; `PROJECT.json` quotes the lines.

1. Descriptor sets are not a fallback: they win over the source tree.
2. A response refused for a name with ".." has already written some files.
3. An extension range that ends at 2147483647 is accepted, and its numbers are
   printed as free. (A reserved range with that end reserves nothing.)
4. Fields of source retention inside a group value or an item of a MessageSet survive
   in the outputs that are to be without them.

Disagreements with a comment or a usage text, and surprises, seen while modelling; the
models have them as the code does, and no run is about them.

Names and types
- A reference resolves to a whole name declared in no package although its first part is
  shadowed, where the comment at `parser.go:7112` says "this is a type-shadowing error".
- Next to a failed import, the hint that a type "is not imported" can name a file that a
  good import imports publicly (`CheckUnresolvedTypes` is given direct imports only).
- An extension used only inside the value of an option leaves its import unused
  (`cli.go:1416`). An extension nested in a message of a file without a package is
  collected under a name with a leading dot (`cli.go:6545`).
- Next to failed imports, a reference that a nearer type of its first part hides is reported
  by no one if that type comes through a public import: `CheckUnresolvedTypes` does not see
  it and finds the outer type. `UndefinedAreReported` excepts these references.
- Next to failed imports nobody looks at the values of maps (`parser.go:7292`), at extensions
  or at extendees: `map<string, Missing>` is reported once all imports are there.
  `UndefinedAreReported` is about fields and methods only.
- Packages are not registered as symbols. The oneof made for an optional field avoids
  fields and oneofs only, so it may clash with a nested type, extension or enum value.
- Two files may declare extensions of one number (it is only a warning), and then an import is
  reported as unused although the file sets its extension, if a file ordered later, which
  the file does not see, has the other (`cli.go:1260`). `UnusedAreRemovable` excepts these;
  the attempt to prove it without the exception found them.

Files
- With an overlay and no proto path, "." is not searched, though `WithProtoPaths` says it
  is the default; `-I` mappings come after all plain directories whatever their order.
- `MakeRelative` returns "../x" unchanged if a root has it, and `Open` refuses it. It
  names a file that need not exist, so that another root's file of that name is
  compiled in its place; the file it names may be hidden by an earlier root, also by a
  directory of that name.
- The comment at `cli.go:5171` speaks of "every file a running compilation has parsed", and of
  scans in "the CLI's post-compile checks" only. Files of descriptor sets are scanned during
  the compilation too, so that an error in one of them points to the first location of its
  path and not to the last.

Descriptors
- No validator of positive numbers looks at extensions: an extension numbered 0 in a range
  that starts at 0 is not named itself, only the range's message is.
- A reserved range is checked against `int32` only, so it may start beyond 536870911, and so
  may an extension range of a message set; `--print_free_field_numbers` then prints the
  numbers before it as free, 536870912 and up too.
- A message field is taken for a map if the last part of its type's name is that of an entry
  type beside it: `Other.FooEntry x` next to `map<…> foo` is refused when it sets
  `message_encoding` (`cli.go:3878`). `DescriptorsAreSound` excepts these (`TakenForMap`).
- Defaults of extensions are not validated (repeated, message, enum without the value,
  proto3), though comments at `cli.go:6011` and `6042` speak of all fields; the checks of
  proto3 and editions on groups, defaults and required look at message fields only.
- Which defaults are overridable is computed only at editions where some default starts;
  a bool default other than "true" is false; `utf8_validation` is refused on maps of
  strings; an enum opts out of JSON conflicts in proto2 only; the table `featureTargets`
  is unused; a descriptor set is written before edition defaults can fail.

Options
- String tokens carry unquoted text and the parser compares text: `option (s) = "<";` is
  misread, and a quoted name `("o")` is accepted. So are `-"abc"`, quoted numbers for
  integers, `default = -true`.
- Any token closes the list after a custom option or literal, or stands for "=" of a built-in field
  option, or for a nested closer; commas between literals are optional.
- `feature_support = {…}` replaces an earlier `feature_support.x`; `features = {…}` is known
  on files only, and may be set next to `features.x`; no `features.(ext)` on statements.
- On extension ranges an unknown verification means DECLARATION, and unknown options with
  braces are skipped in silence.
- One option may be set twice in different spellings, a scalar at a sub-path twice; a file option's
  literal at a sub-path, an empty nested literal, an `Any` at the top and a relative
  extension name in a literal are refused.
- An unclosed literal hangs the parser (`edition_defaults`, `declaration`, unknown
  options, `<` on extension ranges): `ParserAdvances` excepts these (`Hung`).
- Retention of features inside a `FeatureSet` is not looked at, nested stripped fields
  keep their locations, and repeated options share one location path outside files and fields.

Decoding (`TextDecode`; `DecodedAsMerged` excepts these, and fails without each exception)
- "For singular messages: merge all entries' bytes into one" (`cli.go:12787`): what has been
  merged is written over the last piece while the loop still has to read it, so that of three
  pieces and more the last is lost and the first ones are there twice. A message in a oneof
  keeps the pieces from before another member was set.
- A group inside a group of another number makes the outer one run on to the end of the data.
- A field without presence is printed as 0 if its varint is 0 only in 32 bits. Two entries
  of a map with one key are both printed; an entry with two keys is sorted by the first and
  printed with the last.
- The warning on required fields looks at each piece of a message, and at cleared members of
  oneofs, by itself, and not into groups.
- Groups that end with another number or not at all, and fixed numbers cut short in them,
  are accepted; their contents, and extensions, are not checked. Data that ends with the
  start of a group ends the program with a slice out of range (`cli.go:12706`). In editions
  strings are checked for UTF-8 if the file has implicit presence.

## 7. Not modelled, and plan

Left out for good: character classes and the grammar of the parser (a model would
be a transliteration), the bytes of zip archives and of the wire format's scalar
encodings, `--encode` (the text is parsed and the bytes written by the Go protobuf library), wording of messages, the embedded well-known types, the test plugins.

Left out of modules that are there: groups in extend blocks (`NameSpaces`), the
`declaration`s of extension ranges and built-in features in stripping (`OptionOutput`),
archives' bytes and other uses of `--fatal_warnings` (`PluginOutput`), warnings on missing roots
(`SourceTree`), names of an overlay that lead out of its directory (`CompileCalls`), the parsing of `--edition_defaults_minimum` and `_maximum` (`Features`), positions
of errors everywhere but in options.

Planned, most important first:

| module | code | abstract specification and properties | runs |
|---|---|---|---|
| `CompilePipeline` | `compile.go` after the walk | the phases as one composition of `TypePhases`, `CustomOptions` and `DescriptorPhases`: which phase may read what an earlier one wrote | three files, any phase may fail on any file |
| `CommentCollector` | comments in the tokenizer | each comment is attached once, to its neighbour | five tokens |
| `CommandLine` | `parseArgs` | modes that exclude each other | pairs of flags |

With `CompilePipeline`, proofs that its components keep what is proved of each alone.
