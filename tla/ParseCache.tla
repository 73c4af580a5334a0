------------------------------ MODULE ParseCache ------------------------------
(***************************************************************************)
(* cli.parseCache: files are opened and parsed ahead of the goroutine that *)
(* consumes them.  A goroutine is the caller of prefetch or one worker;    *)
(* since an entry is registered before it is opened, a file has at most    *)
(* one worker, and the worker of file f is called f.  Each goroutine has a *)
(* stack of prefetch/parse frames, because a file small enough is parsed   *)
(* on the caller's goroutine, and so, in turn, are its imports.            *)
(*                                                                         *)
(* The steps of its consumer are here too; ImportPipeline says which file  *)
(* the consumer loads when, and puts the two together.                     *)
(***************************************************************************)
EXTENDS ImportGraph, SequencesExt

CONSTANTS
    Jobs,              \* the compilations considered
    Main,              \* the goroutine that calls compileInternal
    Size,              \* bytes of each file
    InlineParseMax,    \* inlineParseMax, in the same unit
    InlineBudget,      \* inlineBudget
    MaxProcs           \* capacity of sem: GOMAXPROCS

Goroutine == {Main} \cup File

VARIABLES
    job,            \* the compilation: never changes
    registered,     \* keys of entries
    result,         \* openErr, parseErr or result of each entry, once written
    done,           \* entries whose done channel is closed
    inline,         \* bytes parsed inline so far, as the atomic counter has it
    holders,        \* workers holding a slot of sem
    calls,          \* the prefetch/parse frames of each goroutine
    queued,         \* main: requested files handed to prefetch so far
    load,           \* main: the load in progress
    held,           \* files whose shared entry main has been given
    touched,        \* files whose shared descriptor main has changed
    parses          \* history: the ParseFile runs of the cache, [file, by], in order

cacheVars == <<registered, result, done, inline, holders, calls, parses>>
vars == <<job, cacheVars, queued, load, held, touched>>

Frame == [file : File,
          pc   : {"enter", "open", "acquire", "parse", "deps", "close", "fanout"},
          deps : Seq(File),
          next : Nat \ {0}]

\* The calling goroutine is none of the workers, each named after its file.
Parameters ==
    /\ Jobs \subseteq Job
    /\ Main \notin File
    /\ Size \in [File -> Nat]
    /\ InlineParseMax \in Nat /\ InlineBudget \in Nat
    /\ MaxProcs \in Nat \ {0}

Idle == [mode |-> "idle", file |-> Main, value |-> "none"]

Outcome == Content \cup {"none"}

\* A run of ParseFile for the cache, on a goroutine.
ParseRun == [file : File, by : Goroutine]

TypeOK ==
    /\ job \in Job
    /\ registered \in SUBSET File
    /\ result \in [File -> Outcome]
    /\ done \in SUBSET File
    /\ inline \in Nat
    /\ holders \in SUBSET File
    /\ calls \in [Goroutine -> Seq(Frame)]
    /\ queued \in Nat
    /\ load \in [mode : {"idle", "wait", "own", "returned"}, file : Goroutine, value : Outcome]
    /\ held \in SUBSET File
    /\ touched \in SUBSET File
    /\ parses \in Seq(ParseRun)

FrameAt(f, pc, deps, next) == [file |-> f, pc |-> pc, deps |-> deps, next |-> next]

Enter(f) == FrameAt(f, "enter", <<>>, 1)

Init ==
    /\ job \in Jobs
    /\ registered = {}
    /\ result = [f \in File |-> "none"]
    /\ done = {}
    /\ inline = 0
    /\ holders = {}
    /\ calls = [g \in Goroutine |-> <<>>]
    /\ queued = 0
    /\ load = Idle
    /\ held = {}
    /\ touched = {}
    /\ parses = <<>>

-------------------------------------------------------------------------------
(* One goroutine inside prefetch or parse. *)

\* g's innermost frame is for file f, at pc.
At(g, f, pc) == calls[g] # <<>> /\ Last(calls[g]).file = f /\ Last(calls[g]).pc = pc

Depth(g) == Len(calls[g])

\* g's innermost frame changes.
Become(g, frame) == calls' = [calls EXCEPT ![g] = Append(Front(@), frame)]

GoTo(g, pc) ==
    LET top == Last(calls[g])
    IN  Become(g, FrameAt(top.file, pc, top.deps, top.next))

Return(g) == calls' = [calls EXCEPT ![g] = Front(@)]

\* prefetch: under the lock, a file that has an entry is left alone and one that
\* has none gets it.
Register(g, f) ==
    /\ At(g, f, "enter")
    /\ IF f \in registered
       THEN Return(g) /\ UNCHANGED registered
       ELSE registered' = registered \cup {f} /\ GoTo(g, "open")
    /\ UNCHANGED <<result, done, inline, holders, parses>>

\* A worker is started for f, and prefetch returns.
Spawn(g, f) ==
    calls' = [calls EXCEPT ![g] = Front(@), ![f] = <<FrameAt(f, "acquire", <<>>, 1)>>]

\* Mutant: the budget is compared before the file's bytes are added.
OpenChecksBefore(g, f) ==
    /\ At(g, f, "open")
    /\ IF job.content[f] = "absent"
       THEN GoTo(g, "parse") /\ UNCHANGED inline
       ELSE IF Size[f] <= InlineParseMax
       THEN /\ inline' = inline + Size[f]
            /\ IF inline <= InlineBudget THEN GoTo(g, "parse") ELSE Spawn(g, f)
       ELSE Spawn(g, f) /\ UNCHANGED inline
    /\ UNCHANGED <<registered, result, done, holders, parses>>

\* prefetch: the file is read and, if it cannot be opened or is small and within
\* the budget, completed on this goroutine.  The counter is added to whenever the
\* file is small, even when that exceeds the budget.
Open(g, f) ==
    /\ At(g, f, "open")
    /\ IF job.content[f] = "absent"
       THEN GoTo(g, "parse") /\ UNCHANGED inline
       ELSE IF Size[f] <= InlineParseMax
       THEN /\ inline' = inline + Size[f]
            /\ IF inline' <= InlineBudget THEN GoTo(g, "parse") ELSE Spawn(g, f)
       ELSE Spawn(g, f) /\ UNCHANGED inline
    /\ UNCHANGED <<registered, result, done, holders, parses>>

\* The worker of f takes a slot.
Acquire(f) ==
    /\ At(f, f, "acquire")
    /\ Cardinality(holders) < MaxProcs
    /\ holders' = holders \cup {f}
    /\ GoTo(f, "parse")
    /\ UNCHANGED <<registered, result, done, inline, parses>>

\* Mutant: ParseFile's error is dropped.
ParseIgnoresError(g, f) ==
    /\ At(g, f, "parse")
    /\ result' = [result EXCEPT ![f] = IF job.content[f] = "absent" THEN "absent" ELSE "parses"]
    /\ parses' = IF job.content[f] = "absent" THEN parses
                 ELSE Append(parses, [file |-> f, by |-> g])
    /\ GoTo(g, "deps")
    /\ UNCHANGED <<registered, done, inline, holders>>

\* parse: ParseFile runs and the entry's fields are written.
Parse(g, f) ==
    /\ At(g, f, "parse")
    /\ result' = [result EXCEPT ![f] = job.content[f]]
    /\ parses' = IF job.content[f] = "absent" THEN parses
                 ELSE Append(parses, [file |-> f, by |-> g])
    /\ GoTo(g, "deps")
    /\ UNCHANGED <<registered, done, inline, holders>>

\* The imports of the descriptor as parse sees it: a consumer that is already
\* changing the descriptor leaves nothing to rely on.
DepsSeen(f) ==
    IF result[f] # "parses" THEN {<<>>}
    ELSE IF f \in touched THEN {<<>>, job.imports[f]}
    ELSE {job.imports[f]}

\* parse: the imports are read, while the descriptor is still the worker's alone.
ReadDeps(g, f) ==
    /\ At(g, f, "deps")
    /\ \E d \in DepsSeen(f) :
          Become(g, FrameAt(f, "close", d, Last(calls[g]).next))
    /\ UNCHANGED <<registered, result, done, inline, holders, parses>>

\* Mutant: done is only closed for a file that parses.
CloseOnSuccess(g, f) ==
    /\ At(g, f, "close")
    /\ done' = IF result[f] = "parses" THEN done \cup {f} ELSE done
    /\ GoTo(g, "fanout")
    /\ UNCHANGED <<registered, result, inline, holders, parses>>

\* parse: close(e.done) hands the entry over to whoever loads the file.
Close(g, f) ==
    /\ At(g, f, "close")
    /\ done' = done \cup {f}
    /\ GoTo(g, "fanout")
    /\ UNCHANGED <<registered, result, inline, holders, parses>>

\* parse: prefetch is called for the next import.
FanOut(g, f) ==
    /\ At(g, f, "fanout")
    /\ LET top == Last(calls[g])
       IN  /\ top.next <= Len(top.deps)
           /\ calls' = [calls EXCEPT ![g] =
                 Append(Append(Front(@), FrameAt(f, "fanout", top.deps, top.next + 1)),
                        Enter(top.deps[top.next]))]
    /\ UNCHANGED <<registered, result, done, inline, holders, parses>>

\* Mutant: a worker of a file that does not parse keeps its slot.
FinishKeepsSlot(g, f) ==
    /\ At(g, f, "fanout")
    /\ Last(calls[g]).next > Len(Last(calls[g]).deps)
    /\ Return(g)
    /\ holders' = IF Depth(g) = 1 /\ result[f] = "parses" THEN holders \ {g} ELSE holders
    /\ UNCHANGED <<registered, result, done, inline, parses>>

\* parse returns; a worker gives its slot back and ends.
Finish(g, f) ==
    /\ At(g, f, "fanout")
    /\ Last(calls[g]).next > Len(Last(calls[g]).deps)
    /\ Return(g)
    /\ holders' = IF Depth(g) = 1 THEN holders \ {g} ELSE holders
    /\ UNCHANGED <<registered, result, done, inline, parses>>

Step(g) ==
    /\ \E f \in File :
          \/ Register(g, f) \/ Open(g, f) \/ Parse(g, f) \/ ReadDeps(g, f)
          \/ Close(g, f) \/ FanOut(g, f) \/ Finish(g, f)
    /\ UNCHANGED <<job, queued, load, held, touched>>

WorkerStarts(f) == Acquire(f) /\ UNCHANGED <<job, queued, load, held, touched>>

-------------------------------------------------------------------------------
(* The consumer. *)

\* compileInternal queues the requested files in order.
PrefetchRequested ==
    /\ calls[Main] = <<>>
    /\ queued < Len(job.relFiles)
    /\ queued' = queued + 1
    /\ calls' = [calls EXCEPT ![Main] = <<Enter(job.relFiles[queued'])>>]
    /\ UNCHANGED <<job, registered, result, done, inline, holders, parses, load, held, touched>>

Prefetched == calls[Main] = <<>> /\ queued = Len(job.relFiles)

\* load: the entry is looked up under the lock.  A file whose prefetch has not
\* got as far as registering it is opened and parsed by the consumer itself.
BeginLoad(f) ==
    /\ Prefetched
    /\ load.mode \in {"idle", "returned"}
    /\ load' = [mode  |-> IF f \in registered THEN "wait" ELSE "own",
                file  |-> f,
                value |-> "none"]
    /\ UNCHANGED <<job, cacheVars, queued, held, touched>>

Loaded(f, value) == [mode |-> "returned", file |-> f, value |-> value]

\* Mutant: load does not wait for the entry to be complete.
EndLoadEarly ==
    /\ \/ /\ load.mode = "wait"
          /\ load' = Loaded(load.file, result[load.file])
          /\ held' = held \cup {load.file}
       \/ /\ load.mode = "own"
          /\ load' = Loaded(load.file, job.content[load.file])
          /\ UNCHANGED held
    /\ UNCHANGED <<job, cacheVars, queued, touched>>

\* load returns the entry of a queued file once it is complete, or its own.
EndLoad ==
    /\ \/ /\ load.mode = "wait"
          /\ load.file \in done
          /\ load' = Loaded(load.file, result[load.file])
          /\ held' = held \cup {load.file}
       \/ /\ load.mode = "own"
          /\ load' = Loaded(load.file, job.content[load.file])
          /\ UNCHANGED held
    /\ UNCHANGED <<job, cacheVars, queued, touched>>

\* The later phases resolve names and options in the descriptors they were given.
Touch(f) ==
    /\ f \in held
    /\ result[f] = "parses"
    /\ touched' = touched \cup {f}
    /\ UNCHANGED <<job, cacheVars, queued, load, held>>

-------------------------------------------------------------------------------
(* Properties. *)

\* Whatever the interleaving, load returns what ParseFile makes of the file:
\* parsing early cannot change what the consumer observes.
LoadsAreFaithful ==
    load.mode = "returned" => load.value = job.content[load.file]

\* The imports parse fans out on are the file's own: they are read before a
\* consumer can have changed the descriptor.
DepsAreFaithful ==
    \A g \in Goroutine : \A i \in 1 .. Len(calls[g]) :
        calls[g][i].pc \in {"close", "fanout"} =>
            calls[g][i].deps = IF job.content[calls[g][i].file] = "parses"
                               THEN job.imports[calls[g][i].file]
                               ELSE <<>>

\* The bytes of the files that a set of ParseFile runs parsed.
Bytes(runs) == FoldFunctionOnSet(+, 0, [p \in ParseRun |-> Size[p.file]], runs)

\* However many importers queue a file at once, it is parsed once; besides the
\* caller, at most GOMAXPROCS goroutines parse at any moment, whether the file they
\* were started for or one they found and took inline; and the bytes parsed inline
\* never exceed the budget, however many goroutines add to the counter at once: a
\* project of many small files is not serialized.
ParsingIsBounded ==
    /\ \A m, n \in DOMAIN parses : parses[m].file = parses[n].file => m = n
    /\ Cardinality({g \in File : calls[g] # <<>> /\ Last(calls[g]).pc = "parse"}) <= MaxProcs
    /\ Bytes({p \in Range(parses) : p.by # p.file}) <= InlineBudget

\* Every load returns: no cycle of imports, full semaphore or failed file leaves
\* the consumer waiting on a channel nobody closes.
LoadsReturn == load.mode \in {"wait", "own"} ~> load.mode = "returned"

\* The speculation ends, with every registered entry complete, even when the
\* consumer never asks for the files.
Quiescence == <>[]((\A g \in Goroutine : calls[g] = <<>>) /\ done = registered)
===============================================================================
