---------------------------- MODULE ImportPipeline ----------------------------
(***************************************************************************)
(* compileInternal up to the end of the import walk, with the concurrent   *)
(* parse cache in place of ImportWalk's instantaneous load: the goroutine  *)
(* that runs parseRecursive is the cache's consumer, and while it walks,   *)
(* workers are opening and parsing files ahead of it, including files the  *)
(* walk will never ask for.                                                *)
(***************************************************************************)
EXTENDS Naturals, Sequences, FiniteSets

CONSTANTS File, Jobs, Main, Size, InlineParseMax, InlineBudget, MaxProcs

VARIABLES
    job,
    registered, result, done, inline, holders, calls, parses,   \* ParseCache
    queued, load, held, touched,                                \* its consumer
    pc, at, stack, parsed, orderedFiles, errors                 \* ImportWalk

Cache == INSTANCE ParseCache
Walk  == INSTANCE ImportWalk

ASSUME CacheAssumption == Cache!Parameters

cacheVars    == <<registered, result, done, inline, holders, calls, parses>>
consumerVars == <<queued, load, held, touched>>
walkVars     == <<pc, at, stack, parsed, orderedFiles, errors>>
vars         == <<job, cacheVars, consumerVars, walkVars>>

Init == Cache!Init /\ Walk!Init

\* The workers, and the calling goroutine inside prefetch.
CacheStep ==
    /\ \/ \E g \in Cache!Goroutine : Cache!Step(g)
       \/ \E f \in File : Cache!WorkerStarts(f)
    /\ UNCHANGED walkVars

\* The descriptor sets are read before the cache exists.
Adopt == Walk!Adopt /\ UNCHANGED <<cacheVars, consumerVars>>

Prefetch ==
    /\ pc = "adopt"
    /\ at > Len(job.descriptorSet)
    /\ Cache!PrefetchRequested
    /\ UNCHANGED walkVars

StartWalk ==
    /\ Walk!StartWalk
    /\ Cache!Prefetched
    /\ UNCHANGED <<cacheVars, consumerVars>>

\* parseRecursive needs a file it has not parsed: cache.load is called for it.
BeginLoad(f) ==
    /\ Walk!Calls(f)
    /\ f \notin Walk!ImportStack \cup parsed
    /\ load.mode = "idle"
    /\ Cache!BeginLoad(f)
    /\ UNCHANGED walkVars

EndLoad == Cache!EndLoad /\ UNCHANGED walkVars

\* parseRecursive goes on with what the load returned.
UseLoaded(f) ==
    /\ load.mode = "returned"
    /\ load.file = f
    /\ Walk!RejectLoaded(f, load.value) \/ Walk!EnterLoaded(f, load.value)
    /\ load' = Cache!Idle
    /\ UNCHANGED <<cacheVars, queued, held, touched>>

\* The steps of parseRecursive that need no load.
WalkOn ==
    /\ \/ \E f \in File : Walk!ReportCycle(f) \/ Walk!Reuse(f)
       \/ Walk!Complete
       \/ Walk!EndWalk
    /\ UNCHANGED <<cacheVars, consumerVars>>

\* After a walk without errors the later phases change the descriptors they were
\* given, while workers may still be busy with files the walk did not ask for.
Touch(f) ==
    /\ pc = "done"
    /\ errors = {}
    /\ Cache!Touch(f)
    /\ UNCHANGED walkVars

Finished ==
    /\ pc = "done"
    /\ \A g \in Cache!Goroutine : calls[g] = <<>>
    /\ UNCHANGED vars

Consumer ==
    Adopt \/ Prefetch \/ StartWalk \/ EndLoad \/ WalkOn
        \/ \E f \in File : BeginLoad(f) \/ UseLoaded(f)

Next == CacheStep \/ Consumer \/ (\E f \in File : Touch(f)) \/ Finished

\* The Go scheduler runs every goroutine that can run: the workers, and the calling
\* goroutine whenever it is not waiting.  A worker waiting for a slot needs no more
\* than weak fairness: there are finitely many workers, so slots stop being contended.
Fairness ==
    /\ \A g \in Cache!Goroutine : WF_vars(Cache!Step(g) /\ UNCHANGED walkVars)
    /\ \A f \in File : WF_vars(Cache!WorkerStarts(f) /\ UNCHANGED walkVars)
    /\ WF_vars(Consumer)

Spec == Init /\ [][Next]_vars /\ Fairness

-------------------------------------------------------------------------------
(* Properties. *)

\* "Doing them early cannot change what parseRecursive observes": whatever the
\* workers do, the concurrent pipeline behaves as the sequential walk does, ends
\* as it ends, and so delivers what ImportWalk is proved to deliver.
ObservesSequentialWalk == Walk!Spec

\* The promises of ParseCache, with parseRecursive as the consumer: what a load
\* returns, what imports a worker goes on to, what bounds the parsing, that loads
\* return and that the speculation ends.
LoadsAreFaithful == Cache!LoadsAreFaithful /\ Cache!DepsAreFaithful
ParsingIsBounded == Cache!ParsingIsBounded
LoadsReturn      == Cache!LoadsReturn
Quiescence       == Cache!Quiescence
===============================================================================
