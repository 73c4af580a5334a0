-------------------------- MODULE ImportPipeline_proofs --------------------------
(***************************************************************************)
(* Proofs about the import pipeline.  The first part is about the parse    *)
(* cache alone, for every number of files, every import graph, every size  *)
(* and budget, every number of slots, and every consumer that loads what   *)
(* it likes when it likes.  The walk is such a consumer, and so, whatever  *)
(* the workers do, the pipeline takes only the steps of the sequential     *)
(* walk and has what ImportWalk_proofs proves of it.                       *)
(***************************************************************************)
EXTENDS ImportPipeline, ProofLemmas

WalkProofs == INSTANCE ImportWalk_proofs

\* ParseCache counts with the same operators.
LEMMA CountsAlike == \A T : Cache!Cardinality(T) = Cardinality(T)
  BY DEF Cache!Cardinality, Cardinality

LEMMA RangesAlike == \A s : Cache!Range(s) = Range(s)
  BY DEF Cache!Range, Range

-------------------------------------------------------------------------------
(* The cache with any consumer. *)

\* The consumer is done with the entry it has loaded.
Forget == load' = Cache!Idle /\ UNCHANGED <<job, Cache!cacheVars, queued, held, touched>>

\* The goroutines inside the cache, and the most general consumer.
CacheNext ==
    \/ \E g \in Cache!Goroutine : Cache!Step(g)
    \/ \E f \in File : Cache!WorkerStarts(f)
    \/ Cache!PrefetchRequested
    \/ \E f \in File : Cache!BeginLoad(f) \/ Cache!Touch(f)
    \/ Cache!EndLoad
    \/ Forget

CacheSpec == Cache!Init /\ [][CacheNext]_(Cache!vars)

-------------------------------------------------------------------------------
(* The inductive invariant, in layers. *)

\* Only the innermost call of a goroutine is anywhere but in its fan-out; a file is
\* past prefetch's lookup on one goroutine at most, and at one depth of its stack;
\* and a worker's first call is for its own file, registered for it by whoever
\* started it.
FramesInv ==
    /\ \A g \in Cache!Goroutine : \A i \in 1 .. Len(calls[g]) :
          /\ i # Len(calls[g]) => calls[g][i].pc = "fanout"
          /\ calls[g][i].pc # "enter" => calls[g][i].file \in registered
          /\ calls[g][i].pc \notin {"enter", "fanout"} => calls[g][i].file \notin done
    /\ \A g, h \in Cache!Goroutine : \A i \in 1 .. Len(calls[g]) : \A j \in 1 .. Len(calls[h]) :
          /\ calls[g][i].pc # "enter"
          /\ calls[h][j].pc # "enter"
          /\ calls[g][i].file = calls[h][j].file
          => g = h /\ i = j
    /\ \A f \in File : calls[f] # <<>> =>
          calls[f][1].file = f /\ calls[f][1].pc \notin {"enter", "open"}
    /\ done \subseteq registered

\* What is written is what ParseFile makes of the file, and written before it is
\* announced; what is handed out has been announced, and only that is changed.
ResultInv ==
    /\ \A g \in Cache!Goroutine : \A i \in 1 .. Len(calls[g]) :
          calls[g][i].pc \in {"deps", "close", "fanout"} =>
             result[calls[g][i].file] = job.content[calls[g][i].file]
    /\ \A f \in done : result[f] = job.content[f]
    /\ held \subseteq done
    /\ touched \subseteq held
    /\ Cache!DepsAreFaithful

LoadInv ==
    /\ load.mode # "idle" => load.file \in File
    /\ Cache!LoadsAreFaithful

\* A file that has been parsed is not about to be parsed again.
ParsedOnce ==
    /\ \A m, n \in 1 .. Len(parses) : parses[m].file = parses[n].file => m = n
    /\ \A m \in 1 .. Len(parses) :
          /\ parses[m].file \in registered
          /\ \A g \in Cache!Goroutine : \A i \in 1 .. Len(calls[g]) :
                calls[g][i].file = parses[m].file =>
                   calls[g][i].pc \in {"enter", "deps", "close", "fanout"}

\* Every worker but those waiting for one has a slot, and there are enough slots.
SlotsInv ==
    /\ \A f \in File : calls[f] # <<>> /\ calls[f][Len(calls[f])].pc # "acquire" => f \in holders
    /\ IsFiniteSet(holders)
    /\ Cardinality(holders) <= MaxProcs

-------------------------------------------------------------------------------
(* Effects of the steps on the stacks of calls. *)

\* The innermost call of g becomes fr.
Changes(g, fr) ==
    \A h \in Cache!Goroutine :
        /\ Len(calls'[h]) = Len(calls[h])
        /\ \A i \in 1 .. Len(calls[h]) :
              calls'[h][i] = IF h = g /\ i = Len(calls[g]) THEN fr ELSE calls[h][i]

\* The innermost call of g returns.
Pops(g) ==
    \A h \in Cache!Goroutine :
        /\ Len(calls'[h]) = IF h = g THEN Len(calls[g]) - 1 ELSE Len(calls[h])
        /\ \A i \in 1 .. Len(calls'[h]) : calls'[h][i] = calls[h][i]

LEMMA CallsType ==
    ASSUME Cache!TypeOK, NEW g \in Cache!Goroutine
    PROVE  /\ calls[g] \in Seq(Cache!Frame)
           /\ Len(calls[g]) \in Nat
           /\ \A i \in 1 .. Len(calls[g]) : calls[g][i] \in Cache!Frame
           /\ calls[g] # <<>> => Len(calls[g]) \in 1 .. Len(calls[g])
           /\ calls[g] = <<>> => Len(calls[g]) = 0
  <1>1. calls[g] \in Seq(Cache!Frame)
    BY DEF Cache!TypeOK
  <1>2. Len(calls[g]) \in Nat /\ (calls[g] # <<>> => Len(calls[g]) \in Nat \ {0})
    BY <1>1, EmptySeq, LenProperties
  <1>. QED  BY <1>1, <1>2, ElementOfSeq, EmptySeq

LEMMA FrontEffect ==
    ASSUME NEW s \in Seq(Cache!Frame), s # <<>>
    PROVE  /\ Cache!Front(s) \in Seq(Cache!Frame)
           /\ Len(Cache!Front(s)) = Len(s) - 1
           /\ \A i \in 1 .. Len(s) - 1 : Cache!Front(s)[i] = s[i]
  BY AllButLast DEF Cache!Front

LEMMA BecomeEffect ==
    ASSUME Cache!TypeOK, NEW g \in Cache!Goroutine, calls[g] # <<>>, NEW fr \in Cache!Frame, Cache!Become(g, fr)
    PROVE  /\ calls' \in [Cache!Goroutine -> Seq(Cache!Frame)]
           /\ Changes(g, fr)
  <1>. DEFINE s == Append(Cache!Front(calls[g]), fr)
  <1>1. /\ s \in Seq(Cache!Frame)
        /\ Len(s) = Len(calls[g])
        /\ \A i \in 1 .. Len(calls[g]) : s[i] = IF i = Len(calls[g]) THEN fr ELSE calls[g][i]
    <2>1. /\ Cache!Front(calls[g]) \in Seq(Cache!Frame)
          /\ Len(Cache!Front(calls[g])) = Len(calls[g]) - 1
          /\ \A i \in 1 .. Len(calls[g]) - 1 : Cache!Front(calls[g])[i] = calls[g][i]
          /\ Len(calls[g]) \in Nat \ {0}
      BY FrontEffect, CallsType
    <2>. QED  BY <2>1, AppendProperties
  <1>2. calls' = [calls EXCEPT ![g] = s]
    BY DEF Cache!Become
  <1>. HIDE DEF s
  <1>. QED  BY <1>1, <1>2 DEF Cache!TypeOK, Changes

LEMMA PopEffect ==
    ASSUME Cache!TypeOK, NEW g \in Cache!Goroutine, calls[g] # <<>>, Cache!Return(g)
    PROVE  /\ calls' \in [Cache!Goroutine -> Seq(Cache!Frame)]
           /\ Pops(g)
  <1>1. /\ Cache!Front(calls[g]) \in Seq(Cache!Frame)
        /\ Len(Cache!Front(calls[g])) = Len(calls[g]) - 1
        /\ \A i \in 1 .. Len(calls[g]) - 1 : Cache!Front(calls[g])[i] = calls[g][i]
        /\ Len(calls[g]) \in Nat \ {0}
    BY FrontEffect, CallsType
  <1>. QED  BY <1>1 DEF Cache!TypeOK, Pops, Cache!Return


\* g's innermost call, and the same call somewhere else in prefetch or parse.
TopOf(g) == calls[g][Len(calls[g])]
Moved(g, c) == Cache!FrameAt(TopOf(g).file, c, TopOf(g).deps, TopOf(g).next)

LEMMA AtFrame ==
    ASSUME Cache!TypeOK, NEW g \in Cache!Goroutine, NEW f, NEW c, Cache!At(g, f, c)
    PROVE  /\ calls[g] # <<>>
           /\ Len(calls[g]) \in 1 .. Len(calls[g])
           /\ Cache!Last(calls[g]) = TopOf(g)
           /\ TopOf(g) \in Cache!Frame
           /\ TopOf(g).file = f /\ TopOf(g).pc = c
  BY CallsType DEF Cache!At, Cache!Last, TopOf

LEMMA GoToEffect ==
    ASSUME Cache!TypeOK, NEW g \in Cache!Goroutine, NEW f, NEW c, Cache!At(g, f, c),
           NEW d \in {"open", "parse", "deps", "fanout"}, Cache!GoTo(g, d)
    PROVE  /\ calls' \in [Cache!Goroutine -> Seq(Cache!Frame)]
           /\ Moved(g, d) \in Cache!Frame
           /\ Changes(g, Moved(g, d))
  <1>1. TopOf(g) \in Cache!Frame /\ Cache!Last(calls[g]) = TopOf(g) /\ calls[g] # <<>>
    BY AtFrame
  <1>2. Moved(g, d) \in Cache!Frame
    BY <1>1 DEF Cache!Frame, Moved, Cache!FrameAt
  <1>3. Cache!Become(g, Moved(g, d))
    BY <1>1, <1>2 DEF Cache!GoTo, Moved
  <1>. QED  BY <1>1, <1>2, <1>3, BecomeEffect

\* A worker is only ever started once, so nothing is running under its name.
LEMMA NoWorkerYet ==
    ASSUME Cache!TypeOK, FramesInv, NEW g \in Cache!Goroutine, NEW f \in File, Cache!At(g, f, "open")
    PROVE  calls[f] = <<>> /\ g # f
  <1>1. /\ Len(calls[g]) \in 1 .. Len(calls[g])
        /\ calls[g] # <<>>
        /\ TopOf(g).file = f /\ TopOf(g).pc = "open"
    BY AtFrame
  <1>2. CASE calls[f] # <<>>
    <2>1. f \in Cache!Goroutine /\ 1 \in 1 .. Len(calls[f])
      BY <1>2, CallsType DEF Cache!Goroutine
    <2>2. calls[f][1].file = f /\ calls[f][1].pc \notin {"enter", "open"}
      BY <1>2 DEF FramesInv
    <2>3. g = f /\ Len(calls[g]) = 1
      BY <1>1, <2>1, <2>2 DEF FramesInv, TopOf
    <2>. QED  BY <1>1, <2>2, <2>3 DEF TopOf
  <1>. QED  BY <1>1, <1>2

\* A worker is started for f, and g's innermost call returns.
Spawns(g, f) ==
    /\ calls[f] = <<>> /\ g # f
    /\ \A h \in Cache!Goroutine :
          /\ Len(calls'[h]) = IF h = g THEN Len(calls[g]) - 1
                              ELSE IF h = f THEN 1 ELSE Len(calls[h])
          /\ h = f => calls'[h][1] = Cache!FrameAt(f, "acquire", <<>>, 1)
          /\ h # f => \A i \in 1 .. Len(calls'[h]) : calls'[h][i] = calls[h][i]

LEMMA SpawnEffect ==
    ASSUME Cache!TypeOK, FramesInv, NEW g \in Cache!Goroutine, NEW f \in File, Cache!At(g, f, "open"), Cache!Spawn(g, f)
    PROVE  /\ calls' \in [Cache!Goroutine -> Seq(Cache!Frame)]
           /\ Spawns(g, f)
  <1>1. /\ Cache!Front(calls[g]) \in Seq(Cache!Frame)
        /\ Len(Cache!Front(calls[g])) = Len(calls[g]) - 1
        /\ \A i \in 1 .. Len(calls[g]) - 1 : Cache!Front(calls[g])[i] = calls[g][i]
        /\ calls[g] # <<>>
    BY FrontEffect, CallsType, AtFrame
  <1>. DEFINE start == Cache!FrameAt(f, "acquire", <<>>, 1)
  <1>2. /\ <<start>> \in Seq(Cache!Frame)
        /\ Len(<<start>>) = 1
        /\ <<start>>[1] = start
    <2>1. start \in Cache!Frame
      BY EmptySeq DEF Cache!FrameAt, Cache!Frame
    <2>. HIDE DEF start
    <2>. QED  BY <2>1
  <1>3. calls[f] = <<>> /\ g # f /\ f \in Cache!Goroutine
    BY NoWorkerYet DEF Cache!Goroutine
  <1>4. calls' = [calls EXCEPT ![g] = Cache!Front(calls[g]), ![f] = <<start>>]
    BY DEF Cache!Spawn
  <1>. DEFINE front == Cache!Front(calls[g])  slot == <<start>>
  <1>. HIDE DEF front, slot, start
  <1>5. /\ front \in Seq(Cache!Frame) /\ slot \in Seq(Cache!Frame)
        /\ calls' = [calls EXCEPT ![g] = front, ![f] = slot]
    BY <1>1, <1>2, <1>4 DEF front, slot
  <1>6. /\ calls' \in [Cache!Goroutine -> Seq(Cache!Frame)]
        /\ calls'[g] = front /\ calls'[f] = slot
        /\ \A h \in Cache!Goroutine : h # g /\ h # f => calls'[h] = calls[h]
    BY <1>3, <1>5 DEF Cache!TypeOK
  <1>7. \A h \in Cache!Goroutine : calls[h] \in Seq(Cache!Frame)
    BY DEF Cache!TypeOK
  <1>. QED  BY <1>1, <1>2, <1>3, <1>6, <1>7 DEF Spawns, front, slot, start

\* prefetch is called for one more import.
CallsNext(g) ==
    \A h \in Cache!Goroutine :
        /\ Len(calls'[h]) = IF h = g THEN Len(calls[g]) + 1 ELSE Len(calls[h])
        /\ h = g => /\ calls'[h][Len(calls[g]) + 1] = Cache!Enter(TopOf(g).deps[TopOf(g).next])
                    /\ calls'[h][Len(calls[g])] =
                          Cache!FrameAt(TopOf(g).file, "fanout", TopOf(g).deps, TopOf(g).next + 1)
        /\ \A i \in 1 .. Len(calls[h]) :
              h # g \/ i # Len(calls[g]) => calls'[h][i] = calls[h][i]

LEMMA FanOutEffect ==
    ASSUME Cache!TypeOK, NEW g \in Cache!Goroutine, NEW f \in File, Cache!FanOut(g, f)
    PROVE  /\ calls' \in [Cache!Goroutine -> Seq(Cache!Frame)]
           /\ TopOf(g).deps[TopOf(g).next] \in File
           /\ CallsNext(g)
  <1>. DEFINE top == TopOf(g)
              fr == Cache!FrameAt(top.file, "fanout", top.deps, top.next + 1)
              dep == top.deps[top.next]
              s == Append(Append(Cache!Front(calls[g]), fr), Cache!Enter(dep))
  <1>1. /\ calls[g] # <<>> /\ top \in Cache!Frame /\ Cache!Last(calls[g]) = top
        /\ Len(calls[g]) \in 1 .. Len(calls[g])
    BY AtFrame DEF Cache!FanOut
  <1>2. dep \in File
    <2>1. top.deps \in Seq(File) /\ top.next \in Nat \ {0}
      BY <1>1 DEF Cache!Frame
    <2>2. Len(top.deps) \in Nat
      BY <2>1, LenProperties
    <2>3. top.next \in 1 .. Len(top.deps)
      BY <1>1, <2>1, <2>2 DEF Cache!FanOut
    <2>. QED  BY <2>1, <2>3, ElementOfSeq
  <1>3. fr \in Cache!Frame /\ Cache!Enter(dep) \in Cache!Frame
    BY <1>1, <1>2, EmptySeq DEF Cache!Frame, Cache!Enter, Cache!FrameAt
  <1>4. top.file = f
    BY AtFrame DEF Cache!FanOut
  <1>5. calls' = [calls EXCEPT ![g] = s]
    BY <1>1, <1>4 DEF Cache!FanOut
  <1>6. /\ s \in Seq(Cache!Frame)
        /\ Len(s) = Len(calls[g]) + 1
        /\ s[Len(calls[g]) + 1] = Cache!Enter(dep)
        /\ s[Len(calls[g])] = fr
        /\ \A i \in 1 .. Len(calls[g]) - 1 : s[i] = calls[g][i]
    <2>. HIDE DEF fr, dep
    <2>1. /\ Cache!Front(calls[g]) \in Seq(Cache!Frame)
          /\ Len(Cache!Front(calls[g])) = Len(calls[g]) - 1
          /\ \A i \in 1 .. Len(calls[g]) - 1 : Cache!Front(calls[g])[i] = calls[g][i]
          /\ Len(calls[g]) \in Nat \ {0}
      BY <1>1, FrontEffect, CallsType
    <2>. DEFINE r == Append(Cache!Front(calls[g]), fr)
    <2>2. /\ r \in Seq(Cache!Frame) /\ Len(r) = Len(calls[g]) /\ r[Len(calls[g])] = fr
          /\ \A i \in 1 .. Len(calls[g]) - 1 : r[i] = calls[g][i]
      BY <1>3, <2>1, AppendProperties
    <2>. HIDE DEF r
    <2>3. s = Append(r, Cache!Enter(dep))
      BY DEF r
    <2>4. /\ Append(r, Cache!Enter(dep)) \in Seq(Cache!Frame)
          /\ Len(Append(r, Cache!Enter(dep))) = Len(r) + 1
          /\ \A i \in 1 .. Len(r) : Append(r, Cache!Enter(dep))[i] = r[i]
          /\ Append(r, Cache!Enter(dep))[Len(r) + 1] = Cache!Enter(dep)
      BY <1>3, <2>2, AppendProperties
    <2>. QED  BY <2>1, <2>2, <2>3, <2>4
  <1>. HIDE DEF s, fr, dep
  <1>7. /\ calls' \in [Cache!Goroutine -> Seq(Cache!Frame)] /\ calls'[g] = s
        /\ \A h \in Cache!Goroutine : h # g => calls'[h] = calls[h]
    BY <1>5, <1>6 DEF Cache!TypeOK
  <1>8. \A h \in Cache!Goroutine : Len(calls[h]) \in Nat
    BY CallsType
  <1>9. ASSUME NEW h \in Cache!Goroutine
        PROVE  /\ Len(calls'[h]) = IF h = g THEN Len(calls[g]) + 1 ELSE Len(calls[h])
               /\ h = g => calls'[h][Len(calls[g]) + 1] = Cache!Enter(dep) /\ calls'[h][Len(calls[g])] = fr
               /\ \A i \in 1 .. Len(calls[h]) :
                     h # g \/ i # Len(calls[g]) => calls'[h][i] = calls[h][i]
    BY <1>6, <1>7, <1>8
  <1>. QED  BY <1>2, <1>7, <1>9 DEF CallsNext, dep, fr

\* g's innermost call is told which imports to go on to.
DepsRead(g, d) == Cache!FrameAt(TopOf(g).file, "close", d, TopOf(g).next)

LEMMA ReadDepsEffect ==
    ASSUME Cache!TypeOK, NEW g \in Cache!Goroutine, NEW f \in File, Cache!ReadDeps(g, f)
    PROVE  \E d \in Cache!DepsSeen(f) :
              /\ calls' \in [Cache!Goroutine -> Seq(Cache!Frame)]
              /\ DepsRead(g, d) \in Cache!Frame
              /\ Changes(g, DepsRead(g, d))
  <1>1. PICK d \in Cache!DepsSeen(f) : Cache!Become(g, Cache!FrameAt(f, "close", d, Cache!Last(calls[g]).next))
    BY DEF Cache!ReadDeps
  <1>2. /\ calls[g] # <<>> /\ TopOf(g) \in Cache!Frame
        /\ Cache!Last(calls[g]) = TopOf(g) /\ TopOf(g).file = f
    BY AtFrame DEF Cache!ReadDeps
  <1>3. d \in Seq(File)
    <2>1. <<>> \in Seq(File)
      BY EmptySeq
    <2>2. job.imports[f] \in Seq(File)
      BY DEF Cache!TypeOK, Cache!Job
    <2>. QED  BY <2>1, <2>2 DEF Cache!DepsSeen
  <1>4. DepsRead(g, d) \in Cache!Frame /\ DepsRead(g, d) = Cache!FrameAt(f, "close", d, Cache!Last(calls[g]).next)
    BY <1>2, <1>3 DEF DepsRead, Cache!FrameAt, Cache!Frame
  <1>. QED  BY <1>1, <1>2, <1>4, BecomeEffect

LEMMA PrefetchEffect ==
    ASSUME Cache!TypeOK, Cache!PrefetchRequested
    PROVE  /\ calls' \in [Cache!Goroutine -> Seq(Cache!Frame)]
           /\ queued' \in Nat
           /\ calls[Main] = <<>> /\ Len(calls'[Main]) = 1
           /\ \E f \in File : calls'[Main][1] = Cache!Enter(f)
           /\ \A h \in Cache!Goroutine : h # Main => calls'[h] = calls[h]
  <1>. DEFINE f == job.relFiles[queued + 1]  first == Cache!Enter(f)
  <1>1. queued + 1 \in 1 .. Len(job.relFiles) /\ job.relFiles \in Seq(File)
    BY LenProperties DEF Cache!PrefetchRequested, Cache!TypeOK, Cache!Job
  <1>2. f \in File
    BY <1>1, ElementOfSeq
  <1>3. first \in Cache!Frame
    BY <1>2, EmptySeq DEF Cache!Enter, Cache!FrameAt, Cache!Frame
  <1>4. calls' = [calls EXCEPT ![Main] = <<first>>]
    BY DEF Cache!PrefetchRequested
  <1>5. Main \in Cache!Goroutine
    BY DEF Cache!Goroutine
  <1>. HIDE DEF first
  <1>6. /\ <<first>> \in Seq(Cache!Frame) /\ Len(<<first>>) = 1 /\ <<first>>[1] = first
    BY <1>3
  <1>. DEFINE s == <<first>>
  <1>. HIDE DEF s
  <1>7. /\ calls' = [calls EXCEPT ![Main] = s] /\ s \in Seq(Cache!Frame) /\ Len(s) = 1 /\ s[1] = first
    BY <1>4, <1>6 DEF s
  <1>8. calls'[Main] = s /\ \E e \in File : s[1] = Cache!Enter(e)
    BY <1>2, <1>5, <1>7 DEF Cache!TypeOK, first
  <1>9. calls' \in [Cache!Goroutine -> Seq(Cache!Frame)] /\ \A h \in Cache!Goroutine : h # Main => calls'[h] = calls[h]
    BY <1>5, <1>7 DEF Cache!TypeOK
  <1>. QED  BY <1>7, <1>8, <1>9 DEF Cache!TypeOK, Cache!PrefetchRequested

(***************************************************************************)
(* Layer 1: types                                                          *)
(***************************************************************************)
LEMMA TypeOKStep ==
    ASSUME Cache!Parameters, Cache!TypeOK, FramesInv, LoadInv, [CacheNext]_(Cache!vars)
    PROVE  Cache!TypeOK'
  <1>1. ASSUME NEW g \in Cache!Goroutine, NEW f \in File,
               UNCHANGED <<job, queued, load, held, touched>>
        PROVE  /\ Cache!Register(g, f) => Cache!TypeOK'
               /\ Cache!Open(g, f) => Cache!TypeOK'
               /\ Cache!Parse(g, f) => Cache!TypeOK'
               /\ Cache!ReadDeps(g, f) => Cache!TypeOK'
               /\ Cache!Close(g, f) => Cache!TypeOK'
               /\ Cache!FanOut(g, f) => Cache!TypeOK'
               /\ Cache!Finish(g, f) => Cache!TypeOK'
               /\ g = f /\ Cache!Acquire(f) => Cache!TypeOK'
    <2>1. CASE Cache!Register(g, f)
      <3>1. calls' \in [Cache!Goroutine -> Seq(Cache!Frame)]
        BY <2>1, PopEffect, GoToEffect, AtFrame DEF Cache!Register
      <3>. QED  BY <1>1, <2>1, <3>1 DEF Cache!Register, Cache!TypeOK
    <2>2. CASE Cache!Open(g, f)
      <3>1. calls' \in [Cache!Goroutine -> Seq(Cache!Frame)]
        BY <2>2, SpawnEffect, GoToEffect DEF Cache!Open
      <3>2. inline' \in Nat
        BY <2>2 DEF Cache!Open, Cache!TypeOK, Cache!Parameters
      <3>. QED  BY <1>1, <2>2, <3>1, <3>2 DEF Cache!Open, Cache!TypeOK
    <2>3. CASE Cache!Parse(g, f)
      <3>1. calls' \in [Cache!Goroutine -> Seq(Cache!Frame)]
        BY <2>3, GoToEffect DEF Cache!Parse
      <3>2. job.content[f] \in Cache!Outcome
        BY DEF Cache!TypeOK, Cache!Job, Cache!Outcome
      <3>3. parses' \in Seq(Cache!ParseRun)
        BY <2>3, AppendProperties DEF Cache!Parse, Cache!TypeOK, Cache!ParseRun
      <3>. QED  BY <1>1, <2>3, <3>1, <3>2, <3>3 DEF Cache!Parse, Cache!TypeOK
    <2>4. CASE Cache!ReadDeps(g, f)
      BY <1>1, <2>4, ReadDepsEffect DEF Cache!ReadDeps, Cache!TypeOK
    <2>5. CASE Cache!Close(g, f)
      BY <1>1, <2>5, GoToEffect DEF Cache!Close, Cache!TypeOK
    <2>6. CASE Cache!FanOut(g, f)
      BY <1>1, <2>6, FanOutEffect DEF Cache!FanOut, Cache!TypeOK
    <2>7. CASE Cache!Finish(g, f)
      BY <1>1, <2>7, PopEffect, AtFrame DEF Cache!Finish, Cache!TypeOK
    <2>8. CASE g = f /\ Cache!Acquire(f)
      BY <1>1, <2>8, GoToEffect DEF Cache!Acquire, Cache!TypeOK
    <2>. QED  BY <2>1, <2>2, <2>3, <2>4, <2>5, <2>6, <2>7, <2>8
  <1>2. ASSUME NEW f \in File, Cache!WorkerStarts(f) PROVE Cache!TypeOK'
    BY <1>1, <1>2 DEF Cache!WorkerStarts, Cache!Goroutine
  <1>3. CASE Cache!PrefetchRequested
    BY <1>3, PrefetchEffect DEF Cache!PrefetchRequested, Cache!TypeOK
  <1>4. ASSUME NEW f \in File, Cache!BeginLoad(f) \/ Cache!Touch(f) PROVE Cache!TypeOK'
    BY <1>4 DEF Cache!BeginLoad, Cache!Touch, Cache!cacheVars, Cache!TypeOK, Cache!Goroutine, Cache!Outcome
  <1>5. CASE Cache!EndLoad
    <2>1. load.mode # "idle" /\ load.file \in File
      BY <1>5 DEF Cache!EndLoad, LoadInv
    <2>2. load.file \in Cache!Goroutine /\ result[load.file] \in Cache!Outcome /\ job.content[load.file] \in Cache!Outcome
      BY <2>1 DEF Cache!TypeOK, Cache!Goroutine, Cache!Job, Cache!Outcome
    <2>. QED  BY <1>5, <2>1, <2>2 DEF Cache!EndLoad, Cache!Loaded, Cache!cacheVars, Cache!TypeOK
  <1>6. CASE Forget
    BY <1>6 DEF Forget, Cache!Idle, Cache!cacheVars, Cache!TypeOK, Cache!Goroutine, Cache!Outcome
  <1>7. CASE UNCHANGED Cache!vars
    BY <1>7 DEF Cache!vars, Cache!cacheVars, Cache!TypeOK
  <1>. QED  BY <1>1, <1>2, <1>3, <1>4, <1>5, <1>6, <1>7 DEF CacheNext, Cache!Step

(***************************************************************************)
(* Layer 2: the stacks of calls                                            *)
(***************************************************************************)

\* The parts of FramesInv, one call or two calls at a time.
InPlace(g, i) ==
    /\ i # Len(calls[g]) => calls[g][i].pc = "fanout"
    /\ calls[g][i].pc # "enter" => calls[g][i].file \in registered
    /\ calls[g][i].pc \notin {"enter", "fanout"} => calls[g][i].file \notin done

Apart(g, i, h, j) ==
    /\ calls[g][i].pc # "enter"
    /\ calls[h][j].pc # "enter"
    /\ calls[g][i].file = calls[h][j].file
    => g = h /\ i = j

LEMMA FramesParts ==
    FramesInv <=>
      /\ \A g \in Cache!Goroutine : \A i \in 1 .. Len(calls[g]) : InPlace(g, i)
      /\ \A g, h \in Cache!Goroutine : \A i \in 1 .. Len(calls[g]) : \A j \in 1 .. Len(calls[h]) :
            Apart(g, i, h, j)
      /\ \A f \in File : calls[f] # <<>> =>
            calls[f][1].file = f /\ calls[f][1].pc \notin {"enter", "open"}
      /\ done \subseteq registered
  BY DEF FramesInv, InPlace, Apart

\* The innermost call of g has moved on.
LEMMA FramesAfterChange ==
    ASSUME Cache!TypeOK, Cache!TypeOK', FramesInv, NEW g \in Cache!Goroutine, calls[g] # <<>>,
           NEW fr \in Cache!Frame, Changes(g, fr),
           fr.file = TopOf(g).file, fr.pc # "enter",
           fr.pc = "open" => TopOf(g).pc = "enter",
           TopOf(g).pc = "enter" => fr.file \notin registered,
           registered \subseteq registered', fr.file \in registered',
           done' \subseteq done \cup {fr.file},
           fr.pc # "fanout" => done' = done /\ fr.file \notin done
    PROVE  FramesInv'
  <1>1. \A h \in Cache!Goroutine : /\ Len(calls[h]) \in Nat /\ Len(calls'[h]) = Len(calls[h])
                                   /\ calls[h] # <<>> <=> Len(calls[h]) # 0
                                   /\ calls'[h] # <<>> <=> Len(calls'[h]) # 0
    BY CallsType, EmptySeq DEF Cache!TypeOK, Changes
  <1>2. Len(calls[g]) \in 1 .. Len(calls[g])
    BY CallsType
  <1>3. \A h \in Cache!Goroutine : \A i \in 1 .. Len(calls[h]) :
           \/ h = g /\ i = Len(calls[g]) /\ calls'[h][i] = fr /\ calls[h][i] = TopOf(g)
           \/ (h # g \/ i # Len(calls[g])) /\ calls'[h][i] = calls[h][i]
    BY DEF Changes, TopOf
  \* No other call is past the lookup of this file.
  <1>4. ASSUME NEW h \in Cache!Goroutine, NEW i \in 1 .. Len(calls[h]),
               h # g \/ i # Len(calls[g]), calls[h][i].file = fr.file
        PROVE  calls[h][i].pc = "enter"
    <2>1. CASE TopOf(g).pc = "enter"
      BY <1>4, <2>1 DEF FramesInv
    <2>2. CASE TopOf(g).pc # "enter"
      BY <1>2, <1>4, <2>2 DEF FramesInv, TopOf
    <2>. QED  BY <2>1, <2>2
  <1>5. \A h \in Cache!Goroutine : \A i \in 1 .. Len(calls[h]) : InPlace(h, i)'
    <2>. SUFFICES ASSUME NEW h \in Cache!Goroutine, NEW i \in 1 .. Len(calls[h])
                  PROVE  InPlace(h, i)'
      OBVIOUS
    <2>1. CASE h = g /\ i = Len(calls[g])
      BY <1>1, <1>3, <2>1 DEF InPlace
    <2>2. CASE h # g \/ i # Len(calls[g])
      <3>1. calls'[h][i] = calls[h][i] /\ InPlace(h, i)
        BY <1>3, <2>2, FramesParts
      <3>2. calls[h][i].pc \notin {"enter", "fanout"} => calls[h][i].file # fr.file
        BY <1>4, <2>2
      <3>. QED  BY <1>1, <3>1, <3>2 DEF InPlace
    <2>. QED  BY <2>1, <2>2
  <1>6. ASSUME NEW h \in Cache!Goroutine, NEW k \in Cache!Goroutine,
               NEW i \in 1 .. Len(calls[h]), NEW j \in 1 .. Len(calls[k])
        PROVE  Apart(h, i, k, j)'
    <2>1. Apart(h, i, k, j)
      BY FramesParts
    <2>2. \/ h = g /\ i = Len(calls[g]) /\ calls'[h][i] = fr
          \/ (h # g \/ i # Len(calls[g])) /\ calls'[h][i] = calls[h][i]
      BY <1>3
    <2>3. \/ k = g /\ j = Len(calls[g]) /\ calls'[k][j] = fr
          \/ (k # g \/ j # Len(calls[g])) /\ calls'[k][j] = calls[k][j]
      BY <1>3
    <2>4. CASE h = g /\ i = Len(calls[g])
      <3>1. (k # g \/ j # Len(calls[g])) /\ calls[k][j].file = fr.file => calls[k][j].pc = "enter"
        BY <1>4
      <3>. QED  BY <2>2, <2>3, <2>4, <3>1 DEF Apart
    <2>5. CASE k = g /\ j = Len(calls[g])
      <3>1. (h # g \/ i # Len(calls[g])) /\ calls[h][i].file = fr.file => calls[h][i].pc = "enter"
        BY <1>4
      <3>. QED  BY <2>2, <2>3, <2>5, <3>1 DEF Apart
    <2>6. CASE ~(h = g /\ i = Len(calls[g])) /\ ~(k = g /\ j = Len(calls[g]))
      BY <2>1, <2>2, <2>3, <2>6 DEF Apart
    <2>. QED  BY <2>4, <2>5, <2>6
  <1>7. ASSUME NEW f \in File, calls'[f] # <<>>
        PROVE  calls'[f][1].file = f /\ calls'[f][1].pc \notin {"enter", "open"}
    <2>1. f \in Cache!Goroutine /\ calls[f] # <<>> /\ 1 \in 1 .. Len(calls[f])
      BY <1>1, <1>7 DEF Cache!Goroutine
    <2>2. calls[f][1].file = f /\ calls[f][1].pc \notin {"enter", "open"}
      BY <2>1 DEF FramesInv
    <2>. QED  BY <1>3, <2>1, <2>2
  <1>8. done' \subseteq registered'
    BY DEF FramesInv
  <1>9. FramesInv' <=>
      /\ \A h \in Cache!Goroutine : \A i \in 1 .. Len(calls'[h]) : InPlace(h, i)'
      /\ \A h, k \in Cache!Goroutine : \A i \in 1 .. Len(calls'[h]) : \A j \in 1 .. Len(calls'[k]) :
            Apart(h, i, k, j)'
      /\ \A f \in File : calls'[f] # <<>> =>
            calls'[f][1].file = f /\ calls'[f][1].pc \notin {"enter", "open"}
      /\ done' \subseteq registered'
    BY DEF FramesInv, InPlace, Apart
  <1>. QED  BY <1>1, <1>5, <1>6, <1>7, <1>8, <1>9

\* FramesInv carries over to stacks whose calls were all there before, or are only
\* about to look their file up, or have just been started in the place of one that
\* had registered its file.
LEMMA FramesAfterMove ==
    ASSUME Cache!TypeOK, Cache!TypeOK', FramesInv, registered' = registered, done' = done,
           \A h \in Cache!Goroutine : \A i \in 1 .. Len(calls'[h]) :
              /\ i # Len(calls'[h]) => calls'[h][i].pc = "fanout"
              /\ calls'[h][i].pc # "enter" =>
                    /\ calls'[h][i].file \in registered
                    /\ calls'[h][i].pc # "fanout" => calls'[h][i].file \notin done,
           \A h, k \in Cache!Goroutine : \A i \in 1 .. Len(calls'[h]) : \A j \in 1 .. Len(calls'[k]) :
              /\ calls'[h][i].pc # "enter" /\ calls'[k][j].pc # "enter"
              /\ calls'[h][i].file = calls'[k][j].file
              => h = k /\ i = j,
           \A f \in File : calls'[f] # <<>> =>
              calls'[f][1].file = f /\ calls'[f][1].pc \notin {"enter", "open"}
    PROVE  FramesInv'
  BY DEF FramesInv

LEMMA FramesAfterPop ==
    ASSUME Cache!TypeOK, Cache!TypeOK', FramesInv, NEW g \in Cache!Goroutine, calls[g] # <<>>, Pops(g),
           registered' = registered, done' = done
    PROVE  FramesInv'
  <1>1. \A h \in Cache!Goroutine : /\ Len(calls[h]) \in Nat /\ Len(calls'[h]) \in Nat
                                   /\ calls[h] # <<>> <=> Len(calls[h]) # 0
                                   /\ calls'[h] # <<>> <=> Len(calls'[h]) # 0
    BY CallsType, EmptySeq, LenProperties DEF Cache!TypeOK
  <1>2. \A h \in Cache!Goroutine : \A i \in 1 .. Len(calls'[h]) :
           /\ i \in 1 .. Len(calls[h])
           /\ calls'[h][i] = calls[h][i]
           /\ i # Len(calls'[h]) => i # Len(calls[h])
    BY <1>1 DEF Pops
  <1>3. \A h \in Cache!Goroutine : \A i \in 1 .. Len(calls'[h]) :
           /\ i # Len(calls'[h]) => calls'[h][i].pc = "fanout"
           /\ calls'[h][i].pc # "enter" =>
                 /\ calls'[h][i].file \in registered
                 /\ calls'[h][i].pc # "fanout" => calls'[h][i].file \notin done
    BY <1>2 DEF FramesInv
  <1>4. ASSUME NEW h \in Cache!Goroutine, NEW k \in Cache!Goroutine,
               NEW i \in 1 .. Len(calls'[h]), NEW j \in 1 .. Len(calls'[k]),
               calls'[h][i].pc # "enter", calls'[k][j].pc # "enter",
               calls'[h][i].file = calls'[k][j].file
        PROVE  h = k /\ i = j
    <2>1. Apart(h, i, k, j)
      BY <1>2, FramesParts
    <2>2. calls'[h][i] = calls[h][i] /\ calls'[k][j] = calls[k][j]
      BY <1>2
    <2>. QED  BY <1>4, <2>1, <2>2 DEF Apart
  <1>5. ASSUME NEW f \in File, calls'[f] # <<>>
        PROVE  calls'[f][1].file = f /\ calls'[f][1].pc \notin {"enter", "open"}
    <2>1. f \in Cache!Goroutine /\ 1 \in 1 .. Len(calls'[f])
      BY <1>1, <1>5 DEF Cache!Goroutine
    <2>2. calls[f] # <<>> /\ calls'[f][1] = calls[f][1]
      BY <1>1, <1>2, <2>1
    <2>. QED  BY <2>2 DEF FramesInv
  <1>. QED  BY <1>3, <1>4, <1>5, FramesAfterMove

LEMMA FramesAfterSpawn ==
    ASSUME Cache!TypeOK, Cache!TypeOK', FramesInv, NEW g \in Cache!Goroutine, NEW f \in File,
           Cache!At(g, f, "open"), Spawns(g, f), registered' = registered, done' = done
    PROVE  FramesInv'
  <1>1. \A h \in Cache!Goroutine : /\ Len(calls[h]) \in Nat /\ Len(calls'[h]) \in Nat
                                   /\ calls[h] # <<>> <=> Len(calls[h]) # 0
                                   /\ calls'[h] # <<>> <=> Len(calls'[h]) # 0
    BY CallsType, EmptySeq, LenProperties DEF Cache!TypeOK
  <1>2. /\ Len(calls[g]) \in 1 .. Len(calls[g]) /\ f \in Cache!Goroutine /\ g # f
        /\ calls[g][Len(calls[g])].file = f /\ calls[g][Len(calls[g])].pc = "open"
    BY AtFrame DEF Spawns, TopOf, Cache!Goroutine
  <1>3. \A h \in Cache!Goroutine : \A i \in 1 .. Len(calls'[h]) :
           \/ /\ h = f /\ i = 1 /\ i = Len(calls'[h])
              /\ calls'[h][i].file = f /\ calls'[h][i].pc = "acquire"
           \/ /\ h # f
              /\ i \in 1 .. Len(calls[h])
              /\ calls'[h][i] = calls[h][i]
              /\ i # Len(calls'[h]) => i # Len(calls[h])
              /\ h # g \/ i # Len(calls[g])
    BY SMTT(30), <1>1, <1>2 DEF Spawns, Cache!FrameAt
  <1>4. f \in registered /\ f \notin done
    BY <1>2 DEF FramesInv
  \* No other call is past the lookup of f.
  <1>5. \A h \in Cache!Goroutine : \A i \in 1 .. Len(calls[h]) :
           (h # g \/ i # Len(calls[g])) /\ calls[h][i].file = f => calls[h][i].pc = "enter"
    BY <1>2 DEF FramesInv
  <1>6. \A h \in Cache!Goroutine : \A i \in 1 .. Len(calls'[h]) :
           /\ i # Len(calls'[h]) => calls'[h][i].pc = "fanout"
           /\ calls'[h][i].pc # "enter" =>
                 /\ calls'[h][i].file \in registered
                 /\ calls'[h][i].pc # "fanout" => calls'[h][i].file \notin done
    BY <1>3, <1>4 DEF FramesInv
  <1>7. ASSUME NEW h \in Cache!Goroutine, NEW k \in Cache!Goroutine,
               NEW i \in 1 .. Len(calls'[h]), NEW j \in 1 .. Len(calls'[k]),
               calls'[h][i].pc # "enter", calls'[k][j].pc # "enter",
               calls'[h][i].file = calls'[k][j].file
        PROVE  h = k /\ i = j
    <2>1. CASE h = f \/ k = f
      BY <1>3, <1>5, <1>7, <2>1
    <2>2. CASE h # f /\ k # f
      <3>1. /\ i \in 1 .. Len(calls[h]) /\ calls'[h][i] = calls[h][i]
            /\ j \in 1 .. Len(calls[k]) /\ calls'[k][j] = calls[k][j]
        BY <1>3, <2>2
      <3>2. Apart(h, i, k, j)
        BY <3>1, FramesParts
      <3>. QED  BY <1>7, <3>1, <3>2 DEF Apart
    <2>. QED  BY <2>1, <2>2
  <1>8. ASSUME NEW e \in File, calls'[e] # <<>>
        PROVE  calls'[e][1].file = e /\ calls'[e][1].pc \notin {"enter", "open"}
    <2>1. e \in Cache!Goroutine /\ 1 \in 1 .. Len(calls'[e])
      BY <1>1, <1>8 DEF Cache!Goroutine
    <2>2. CASE e = f
      BY <1>3, <2>1, <2>2
    <2>3. CASE e # f
      <3>1. calls[e] # <<>> /\ calls'[e][1] = calls[e][1]
        BY <1>1, <1>3, <2>1, <2>3
      <3>. QED  BY <3>1 DEF FramesInv
    <2>. QED  BY <2>2, <2>3
  <1>. QED  BY <1>6, <1>7, <1>8, FramesAfterMove

LEMMA FramesAfterFanOut ==
    ASSUME Cache!TypeOK, Cache!TypeOK', FramesInv, NEW g \in Cache!Goroutine, NEW f \in File,
           Cache!At(g, f, "fanout"), CallsNext(g), registered' = registered, done' = done
    PROVE  FramesInv'
  <1>1. \A h \in Cache!Goroutine : /\ Len(calls[h]) \in Nat /\ Len(calls'[h]) \in Nat
                                   /\ calls[h] # <<>> <=> Len(calls[h]) # 0
                                   /\ calls'[h] # <<>> <=> Len(calls'[h]) # 0
    BY CallsType, EmptySeq, LenProperties DEF Cache!TypeOK
  <1>2. /\ Len(calls[g]) \in 1 .. Len(calls[g]) /\ calls[g] # <<>>
        /\ calls[g][Len(calls[g])].file = f /\ calls[g][Len(calls[g])].pc = "fanout"
    BY AtFrame DEF TopOf
  <1>3. \A h \in Cache!Goroutine : \A i \in 1 .. Len(calls'[h]) :
           \/ h = g /\ i = Len(calls'[h]) /\ calls'[h][i].pc = "enter"
           \/ /\ i \in 1 .. Len(calls[h])
              /\ calls'[h][i].file = calls[h][i].file
              /\ calls'[h][i].pc = calls[h][i].pc
              /\ i # Len(calls'[h]) => i # Len(calls[h]) \/ h = g
    BY <1>1, <1>2 DEF CallsNext, Cache!FrameAt, Cache!Enter, TopOf
  <1>4. \A h \in Cache!Goroutine : \A i \in 1 .. Len(calls'[h]) :
           /\ i # Len(calls'[h]) => calls'[h][i].pc = "fanout"
           /\ calls'[h][i].pc # "enter" =>
                 /\ calls'[h][i].file \in registered
                 /\ calls'[h][i].pc # "fanout" => calls'[h][i].file \notin done
    BY <1>2, <1>3 DEF FramesInv
  <1>5. \A h, k \in Cache!Goroutine : \A i \in 1 .. Len(calls'[h]) : \A j \in 1 .. Len(calls'[k]) :
           /\ calls'[h][i].pc # "enter" /\ calls'[k][j].pc # "enter"
           /\ calls'[h][i].file = calls'[k][j].file
           => h = k /\ i = j
    BY <1>3 DEF FramesInv
  <1>6. ASSUME NEW e \in File, calls'[e] # <<>>
        PROVE  calls'[e][1].file = e /\ calls'[e][1].pc \notin {"enter", "open"}
    <2>1. e \in Cache!Goroutine /\ calls[e] # <<>>
      BY <1>1, <1>2, <1>6 DEF Cache!Goroutine, CallsNext
    <2>2. calls[e][1].file = e /\ calls[e][1].pc \notin {"enter", "open"}
      BY <2>1 DEF FramesInv
    <2>3. /\ 1 \in 1 .. Len(calls'[e])
          /\ 1 # Len(calls'[e]) \/ e # g
      BY <1>1, <1>2, <1>6, <2>1 DEF CallsNext
    <2>. QED  BY <1>3, <2>1, <2>2, <2>3
  <1>. QED  BY <1>4, <1>5, <1>6, FramesAfterMove

LEMMA FramesAfterPrefetch ==
    ASSUME Cache!TypeOK, Cache!TypeOK', FramesInv, Cache!Parameters, Cache!PrefetchRequested
    PROVE  FramesInv'
  <1>1. /\ calls[Main] = <<>> /\ Len(calls'[Main]) = 1
        /\ calls'[Main][1].pc = "enter"
        /\ \A h \in Cache!Goroutine : h # Main => calls'[h] = calls[h]
        /\ registered' = registered /\ done' = done
    BY PrefetchEffect DEF Cache!PrefetchRequested, Cache!Enter, Cache!FrameAt
  <1>2. \A f \in File : f \in Cache!Goroutine /\ f # Main
    BY DEF Cache!Parameters, Cache!Goroutine
  <1>3. \A h \in Cache!Goroutine : \A i \in 1 .. Len(calls'[h]) :
           \/ i = Len(calls'[h]) /\ calls'[h][i].pc = "enter"
           \/ calls'[h] = calls[h]
    <2>1. \A i \in 1 .. Len(calls'[Main]) : i = 1 /\ i = Len(calls'[Main])
      BY <1>1
    <2>. QED  BY <1>1, <2>1
  <1>4. \A h \in Cache!Goroutine : \A i \in 1 .. Len(calls'[h]) :
           /\ i # Len(calls'[h]) => calls'[h][i].pc = "fanout"
           /\ calls'[h][i].pc # "enter" =>
                 /\ calls'[h][i].file \in registered
                 /\ calls'[h][i].pc # "fanout" => calls'[h][i].file \notin done
    BY <1>3 DEF FramesInv
  <1>5. ASSUME NEW h \in Cache!Goroutine, NEW k \in Cache!Goroutine,
               NEW i \in 1 .. Len(calls'[h]), NEW j \in 1 .. Len(calls'[k]),
               calls'[h][i].pc # "enter", calls'[k][j].pc # "enter",
               calls'[h][i].file = calls'[k][j].file
        PROVE  h = k /\ i = j
    <2>1. calls'[h] = calls[h] /\ calls'[k] = calls[k]
      BY <1>3, <1>5
    <2>2. Apart(h, i, k, j)
      BY <2>1, FramesParts
    <2>. QED  BY <1>5, <2>1, <2>2 DEF Apart
  <1>6. \A f \in File : calls'[f] # <<>> =>
           calls'[f][1].file = f /\ calls'[f][1].pc \notin {"enter", "open"}
    BY <1>1, <1>2 DEF FramesInv
  <1>. QED  BY <1>1, <1>4, <1>5, <1>6, FramesAfterMove

LEMMA FramesInvStep ==
    ASSUME Cache!Parameters, Cache!TypeOK, Cache!TypeOK', FramesInv, [CacheNext]_(Cache!vars)
    PROVE  FramesInv'
  <1>1. ASSUME NEW g \in Cache!Goroutine, NEW f \in File
        PROVE  /\ Cache!Register(g, f) => FramesInv'
               /\ Cache!Open(g, f) => FramesInv'
               /\ Cache!Parse(g, f) => FramesInv'
               /\ Cache!ReadDeps(g, f) => FramesInv'
               /\ Cache!Close(g, f) => FramesInv'
               /\ Cache!FanOut(g, f) => FramesInv'
               /\ Cache!Finish(g, f) => FramesInv'
               /\ g = f /\ Cache!Acquire(f) => FramesInv'
    <2>1. ASSUME NEW c \in {"enter", "open", "acquire", "parse", "deps", "close"}, Cache!At(g, f, c)
          PROVE  /\ calls[g] # <<>> /\ TopOf(g).file = f /\ TopOf(g).pc = c
                 /\ c # "enter" => f \in registered /\ f \notin done
                 /\ done \subseteq registered
      BY <2>1, AtFrame DEF FramesInv, TopOf
    <2>2. CASE Cache!Register(g, f)
      <3>1. Cache!At(g, f, "enter")
        BY <2>2 DEF Cache!Register
      <3>2. CASE f \in registered
        BY <2>2, <3>1, <3>2, <2>1, PopEffect, FramesAfterPop DEF Cache!Register
      <3>3. CASE f \notin registered
        <4>1. Moved(g, "open") \in Cache!Frame /\ Changes(g, Moved(g, "open"))
          BY <2>2, <3>1, <3>3, GoToEffect DEF Cache!Register
        <4>2. Moved(g, "open").file = f /\ Moved(g, "open").pc = "open"
          BY <2>1, <3>1 DEF Moved, Cache!FrameAt
        <4>3. registered' = registered \cup {f} /\ done' = done
          BY <2>2, <3>3 DEF Cache!Register
        <4>. QED  BY <2>1, <3>1, <3>3, <4>1, <4>2, <4>3, FramesAfterChange
      <3>. QED  BY <3>2, <3>3
    <2>3. CASE Cache!Open(g, f)
      <3>1. Cache!At(g, f, "open") /\ registered' = registered /\ done' = done
        BY <2>3 DEF Cache!Open
      <3>2. CASE Cache!GoTo(g, "parse")
        <4>1. Moved(g, "parse") \in Cache!Frame /\ Changes(g, Moved(g, "parse"))
          BY <3>1, <3>2, GoToEffect
        <4>2. Moved(g, "parse").file = f /\ Moved(g, "parse").pc = "parse"
          BY <2>1, <3>1 DEF Moved, Cache!FrameAt
        <4>. QED  BY <2>1, <3>1, <4>1, <4>2, FramesAfterChange
      <3>3. CASE Cache!Spawn(g, f)
        BY <3>1, <3>3, SpawnEffect, FramesAfterSpawn
      <3>. QED  BY <2>3, <3>2, <3>3 DEF Cache!Open
    <2>4. CASE Cache!Parse(g, f)
      <3>1. Cache!At(g, f, "parse") /\ registered' = registered /\ done' = done /\ Cache!GoTo(g, "deps")
        BY <2>4 DEF Cache!Parse
      <3>2. Moved(g, "deps") \in Cache!Frame /\ Changes(g, Moved(g, "deps"))
        BY <3>1, GoToEffect
      <3>3. Moved(g, "deps").file = f /\ Moved(g, "deps").pc = "deps"
        BY <2>1, <3>1 DEF Moved, Cache!FrameAt
      <3>. QED  BY <2>1, <3>1, <3>2, <3>3, FramesAfterChange
    <2>5. CASE Cache!ReadDeps(g, f)
      <3>1. Cache!At(g, f, "deps") /\ registered' = registered /\ done' = done
        BY <2>5 DEF Cache!ReadDeps
      <3>2. PICK d : DepsRead(g, d) \in Cache!Frame /\ Changes(g, DepsRead(g, d))
        BY <2>5, ReadDepsEffect
      <3>3. DepsRead(g, d).file = f /\ DepsRead(g, d).pc = "close"
        BY <2>1, <3>1 DEF DepsRead, Cache!FrameAt
      <3>. QED  BY <2>1, <3>1, <3>2, <3>3, FramesAfterChange
    <2>6. CASE Cache!Close(g, f)
      <3>1. /\ Cache!At(g, f, "close") /\ registered' = registered
            /\ done' = done \cup {f} /\ Cache!GoTo(g, "fanout")
        BY <2>6 DEF Cache!Close
      <3>2. Moved(g, "fanout") \in Cache!Frame /\ Changes(g, Moved(g, "fanout"))
        BY <3>1, GoToEffect
      <3>3. Moved(g, "fanout").file = f /\ Moved(g, "fanout").pc = "fanout"
        BY <2>1, <3>1 DEF Moved, Cache!FrameAt
      <3>. QED  BY <2>1, <3>1, <3>2, <3>3, FramesAfterChange
    <2>7. CASE Cache!FanOut(g, f)
      BY <2>7, FanOutEffect, FramesAfterFanOut DEF Cache!FanOut
    <2>8. CASE Cache!Finish(g, f)
      BY <2>8, AtFrame, PopEffect, FramesAfterPop DEF Cache!Finish
    <2>9. CASE g = f /\ Cache!Acquire(f)
      <3>1. Cache!At(g, f, "acquire") /\ registered' = registered /\ done' = done /\ Cache!GoTo(g, "parse")
        BY <2>9 DEF Cache!Acquire
      <3>2. Moved(g, "parse") \in Cache!Frame /\ Changes(g, Moved(g, "parse"))
        BY <3>1, GoToEffect
      <3>3. Moved(g, "parse").file = f /\ Moved(g, "parse").pc = "parse"
        BY <2>1, <3>1 DEF Moved, Cache!FrameAt
      <3>. QED  BY <2>1, <3>1, <3>2, <3>3, FramesAfterChange
    <2>. QED  BY <2>2, <2>3, <2>4, <2>5, <2>6, <2>7, <2>8, <2>9
  <1>2. ASSUME NEW f \in File, Cache!WorkerStarts(f) PROVE FramesInv'
    BY <1>1, <1>2 DEF Cache!WorkerStarts, Cache!Goroutine
  <1>3. CASE Cache!PrefetchRequested
    BY <1>3, FramesAfterPrefetch
  <1>4. CASE UNCHANGED <<registered, done, calls>>
    BY <1>4 DEF FramesInv
  <1>. QED
    <2>1. UNCHANGED Cache!cacheVars => UNCHANGED <<registered, done, calls>>
      BY DEF Cache!cacheVars
    <2>2. UNCHANGED Cache!vars => UNCHANGED <<registered, done, calls>>
      BY DEF Cache!vars, Cache!cacheVars
    <2>. QED  BY <1>1, <1>2, <1>3, <1>4, <2>1, <2>2
                 DEF CacheNext, Cache!Step, Cache!BeginLoad, Cache!Touch, Cache!EndLoad, Forget

(***************************************************************************)
(* Where the calls on the stacks come from                                 *)
(***************************************************************************)

\* Call i of h, after a step, is what the step has made of call j of g.
Derived(g, j, h, i) ==
    /\ calls'[h][i].file = calls[g][j].file
    /\ \/ /\ g = h /\ calls'[h][i].pc = calls[g][j].pc
          /\ calls'[h][i].deps = calls[g][j].deps
       \/ /\ g = h /\ calls[g][j].pc = "enter" /\ calls'[h][i].pc = "open"
          /\ calls[g][j].file \notin registered
       \/ /\ calls[g][j].pc = "open" /\ calls'[h][i].pc = "acquire"
       \/ /\ g = h /\ calls[g][j].pc = "open" /\ calls'[h][i].pc = "parse"
          /\ Cache!Open(g, calls[g][j].file)
       \/ /\ g = h /\ g = calls[g][j].file
          /\ calls[g][j].pc = "acquire" /\ calls'[h][i].pc = "parse"
       \/ /\ g = h /\ calls[g][j].pc = "parse" /\ calls'[h][i].pc = "deps"
          /\ Cache!Parse(g, calls[g][j].file)
       \/ /\ g = h /\ calls[g][j].pc = "deps" /\ calls'[h][i].pc = "close"
          /\ calls'[h][i].deps \in Cache!DepsSeen(calls[g][j].file)
       \/ /\ g = h /\ calls[g][j].pc = "close" /\ calls'[h][i].pc = "fanout"
          /\ calls'[h][i].deps = calls[g][j].deps

AllDerived ==
    \A h \in Cache!Goroutine : \A i \in 1 .. Len(calls'[h]) :
        \/ calls'[h][i].pc = "enter"
        \/ \E g \in Cache!Goroutine : \E j \in 1 .. Len(calls[g]) : Derived(g, j, h, i)

LEMMA DerivedAfterChange ==
    ASSUME Cache!TypeOK, NEW g \in Cache!Goroutine, calls[g] # <<>>, NEW fr \in Cache!Frame, Changes(g, fr),
           \A i \in 1 .. Len(calls[g]) : i = Len(calls[g]) /\ calls'[g][i] = fr => Derived(g, i, g, i)
    PROVE  AllDerived
  <1>. SUFFICES ASSUME NEW h \in Cache!Goroutine, NEW i \in 1 .. Len(calls'[h])
                PROVE  Derived(h, i, h, i) /\ i \in 1 .. Len(calls[h])
    BY DEF AllDerived
  <1>1. i \in 1 .. Len(calls[h])
    BY DEF Changes
  <1>2. CASE h = g /\ i = Len(calls[g])
    BY <1>1, <1>2 DEF Changes
  <1>3. CASE h # g \/ i # Len(calls[g])
    BY <1>1, <1>3 DEF Changes, Derived
  <1>. QED  BY <1>1, <1>2, <1>3

LEMMA DerivedAfterPop ==
    ASSUME Cache!TypeOK, NEW g \in Cache!Goroutine, calls[g] # <<>>, Pops(g)
    PROVE  AllDerived
  <1>. SUFFICES ASSUME NEW h \in Cache!Goroutine, NEW i \in 1 .. Len(calls'[h])
                PROVE  Derived(h, i, h, i) /\ i \in 1 .. Len(calls[h])
    BY DEF AllDerived
  <1>1. Len(calls[h]) \in Nat
    BY CallsType
  <1>. QED  BY <1>1 DEF Pops, Derived

LEMMA DerivedStep ==
    ASSUME Cache!TypeOK, FramesInv, [CacheNext]_(Cache!vars)
    PROVE  AllDerived
  <1>1. ASSUME NEW g \in Cache!Goroutine, NEW f \in File
        PROVE  /\ Cache!Register(g, f) => AllDerived
               /\ Cache!Open(g, f) => AllDerived
               /\ Cache!Parse(g, f) => AllDerived
               /\ Cache!ReadDeps(g, f) => AllDerived
               /\ Cache!Close(g, f) => AllDerived
               /\ Cache!FanOut(g, f) => AllDerived
               /\ Cache!Finish(g, f) => AllDerived
               /\ g = f /\ Cache!Acquire(f) => AllDerived
    <2>1. ASSUME NEW c, Cache!At(g, f, c)
          PROVE  /\ calls[g] # <<>> /\ Len(calls[g]) \in 1 .. Len(calls[g])
                 /\ TopOf(g).file = f /\ TopOf(g).pc = c /\ TopOf(g) = calls[g][Len(calls[g])]
      BY <2>1, AtFrame DEF TopOf
    <2>2. CASE Cache!Register(g, f)
      <3>1. Cache!At(g, f, "enter")
        BY <2>2 DEF Cache!Register
      <3>2. CASE f \in registered
        BY <2>2, <3>1, <3>2, <2>1, PopEffect, DerivedAfterPop DEF Cache!Register
      <3>3. CASE f \notin registered
        <4>1. Moved(g, "open") \in Cache!Frame /\ Changes(g, Moved(g, "open"))
          BY <2>2, <3>1, <3>3, GoToEffect DEF Cache!Register
        <4>2. Moved(g, "open").file = f /\ Moved(g, "open").pc = "open"
          BY <2>1, <3>1 DEF Moved, Cache!FrameAt
        <4>3. \A i : i = Len(calls[g]) /\ calls'[g][i] = Moved(g, "open") => Derived(g, i, g, i)
          BY <2>1, <3>1, <3>3, <4>2 DEF Derived
        <4>. QED  BY <2>1, <3>1, <4>1, <4>3, DerivedAfterChange
      <3>. QED  BY <3>2, <3>3
    <2>3. CASE Cache!Open(g, f)
      <3>1. Cache!At(g, f, "open")
        BY <2>3 DEF Cache!Open
      <3>2. CASE Cache!GoTo(g, "parse")
        <4>1. Moved(g, "parse") \in Cache!Frame /\ Changes(g, Moved(g, "parse"))
          BY <3>1, <3>2, GoToEffect
        <4>2. Moved(g, "parse").file = f /\ Moved(g, "parse").pc = "parse"
          BY <2>1, <3>1 DEF Moved, Cache!FrameAt
        <4>3. \A i : i = Len(calls[g]) /\ calls'[g][i] = Moved(g, "parse") => Derived(g, i, g, i)
          BY <2>1, <2>3, <3>1, <4>2 DEF Derived
        <4>. QED  BY <2>1, <3>1, <4>1, <4>3, DerivedAfterChange
      <3>3. CASE Cache!Spawn(g, f)
        <4>1. Spawns(g, f) /\ f \in Cache!Goroutine
          BY <3>1, <3>3, SpawnEffect DEF Cache!Goroutine
        <4>. SUFFICES ASSUME NEW h \in Cache!Goroutine, NEW i \in 1 .. Len(calls'[h])
                      PROVE  \E k \in Cache!Goroutine : \E j \in 1 .. Len(calls[k]) : Derived(k, j, h, i)
          BY DEF AllDerived
        <4>2. Len(calls[h]) \in Nat
          BY CallsType
        <4>3. CASE h = f
          <5>1. i = 1 /\ calls'[h][i].file = f /\ calls'[h][i].pc = "acquire"
            BY <4>1, <4>3 DEF Spawns, Cache!FrameAt
          <5>2. Derived(g, Len(calls[g]), h, i)
            BY <2>1, <3>1, <5>1 DEF Derived
          <5>. QED  BY <2>1, <3>1, <5>2
        <4>4. CASE h # f
          <5>1. i \in 1 .. Len(calls[h]) /\ calls'[h][i] = calls[h][i]
            BY <4>1, <4>2, <4>4 DEF Spawns
          <5>. QED  BY <5>1 DEF Derived
        <4>. QED  BY <4>3, <4>4
      <3>. QED  BY <2>3, <3>2, <3>3 DEF Cache!Open
    <2>4. CASE Cache!Parse(g, f)
      <3>1. Cache!At(g, f, "parse") /\ Cache!GoTo(g, "deps")
        BY <2>4 DEF Cache!Parse
      <3>2. Moved(g, "deps") \in Cache!Frame /\ Changes(g, Moved(g, "deps"))
        BY <3>1, GoToEffect
      <3>3. Moved(g, "deps").file = f /\ Moved(g, "deps").pc = "deps"
        BY <2>1, <3>1 DEF Moved, Cache!FrameAt
      <3>4. \A i : i = Len(calls[g]) /\ calls'[g][i] = Moved(g, "deps") => Derived(g, i, g, i)
        BY <2>1, <2>4, <3>1, <3>3 DEF Derived
      <3>. QED  BY <2>1, <3>1, <3>2, <3>4, DerivedAfterChange
    <2>5. CASE Cache!ReadDeps(g, f)
      <3>1. Cache!At(g, f, "deps")
        BY <2>5 DEF Cache!ReadDeps
      <3>2. PICK d \in Cache!DepsSeen(f) : DepsRead(g, d) \in Cache!Frame /\ Changes(g, DepsRead(g, d))
        BY <2>5, ReadDepsEffect
      <3>3. DepsRead(g, d).file = f /\ DepsRead(g, d).pc = "close" /\ DepsRead(g, d).deps = d
        BY <2>1, <3>1 DEF DepsRead, Cache!FrameAt
      <3>4. \A i : i = Len(calls[g]) /\ calls'[g][i] = DepsRead(g, d) => Derived(g, i, g, i)
        BY <2>1, <3>1, <3>3 DEF Derived
      <3>. QED  BY <2>1, <3>1, <3>2, <3>4, DerivedAfterChange
    <2>6. CASE Cache!Close(g, f)
      <3>1. Cache!At(g, f, "close") /\ Cache!GoTo(g, "fanout")
        BY <2>6 DEF Cache!Close
      <3>2. Moved(g, "fanout") \in Cache!Frame /\ Changes(g, Moved(g, "fanout"))
        BY <3>1, GoToEffect
      <3>3. /\ Moved(g, "fanout").file = f /\ Moved(g, "fanout").pc = "fanout"
            /\ Moved(g, "fanout").deps = TopOf(g).deps
        BY <2>1, <3>1 DEF Moved, Cache!FrameAt
      <3>4. \A i : i = Len(calls[g]) /\ calls'[g][i] = Moved(g, "fanout") => Derived(g, i, g, i)
        BY <2>1, <3>1, <3>3 DEF Derived
      <3>. QED  BY <2>1, <3>1, <3>2, <3>4, DerivedAfterChange
    <2>7. CASE Cache!FanOut(g, f)
      <3>1. Cache!At(g, f, "fanout") /\ CallsNext(g)
        BY <2>7, FanOutEffect DEF Cache!FanOut
      <3>. SUFFICES ASSUME NEW h \in Cache!Goroutine, NEW i \in 1 .. Len(calls'[h]), calls'[h][i].pc # "enter"
                    PROVE  Derived(h, i, h, i) /\ i \in 1 .. Len(calls[h])
        BY DEF AllDerived
      <3>2. Len(calls[h]) \in Nat
        BY CallsType
      <3>3. h = g => i # Len(calls[g]) + 1
        BY <3>1 DEF CallsNext, Cache!Enter, Cache!FrameAt
      <3>4. i \in 1 .. Len(calls[h])
        BY <3>1, <3>2, <3>3 DEF CallsNext
      <3>5. CASE h = g /\ i = Len(calls[g])
        <4>1. calls'[h][i] = Cache!FrameAt(TopOf(g).file, "fanout", TopOf(g).deps, TopOf(g).next + 1)
          BY <3>1, <3>5 DEF CallsNext
        <4>. QED  BY <2>1, <3>1, <3>4, <3>5, <4>1 DEF Cache!FrameAt, Derived
      <3>6. CASE h # g \/ i # Len(calls[g])
        BY <3>1, <3>4, <3>6 DEF CallsNext, Derived
      <3>. QED  BY <3>4, <3>5, <3>6
    <2>8. CASE Cache!Finish(g, f)
      BY <2>8, AtFrame, PopEffect, DerivedAfterPop DEF Cache!Finish
    <2>9. CASE g = f /\ Cache!Acquire(f)
      <3>1. Cache!At(g, f, "acquire") /\ Cache!GoTo(g, "parse")
        BY <2>9 DEF Cache!Acquire
      <3>2. Moved(g, "parse") \in Cache!Frame /\ Changes(g, Moved(g, "parse"))
        BY <3>1, GoToEffect
      <3>3. Moved(g, "parse").file = f /\ Moved(g, "parse").pc = "parse"
        BY <2>1, <3>1 DEF Moved, Cache!FrameAt
      <3>4. \A i : i = Len(calls[g]) /\ calls'[g][i] = Moved(g, "parse") => Derived(g, i, g, i)
        BY <2>1, <2>9, <3>1, <3>3 DEF Derived
      <3>. QED  BY <2>1, <3>1, <3>2, <3>4, DerivedAfterChange
    <2>. QED  BY <2>2, <2>3, <2>4, <2>5, <2>6, <2>7, <2>8, <2>9
  <1>2. ASSUME NEW f \in File, Cache!WorkerStarts(f) PROVE AllDerived
    BY <1>1, <1>2 DEF Cache!WorkerStarts, Cache!Goroutine
  <1>3. CASE Cache!PrefetchRequested
    <2>1. /\ Len(calls'[Main]) = 1 /\ calls'[Main][1].pc = "enter"
          /\ \A h \in Cache!Goroutine : h # Main => calls'[h] = calls[h]
      <3>1. /\ Len(calls'[Main]) = 1
            /\ \E f \in File : calls'[Main][1] = Cache!Enter(f)
            /\ \A h \in Cache!Goroutine : h # Main => calls'[h] = calls[h]
        BY <1>3, PrefetchEffect
      <3>. QED  BY <3>1 DEF Cache!Enter, Cache!FrameAt
    <2>. SUFFICES ASSUME NEW h \in Cache!Goroutine, NEW i \in 1 .. Len(calls'[h]), calls'[h][i].pc # "enter"
                  PROVE  Derived(h, i, h, i) /\ i \in 1 .. Len(calls[h])
      BY DEF AllDerived
    <2>2. h # Main
      <3>1. CASE h = Main
        <4>1. i = 1
          BY <2>1, <3>1
        <4>. QED  BY <2>1, <3>1, <4>1
      <3>. QED  BY <3>1
    <2>. QED  BY <2>1, <2>2 DEF Derived
  <1>4. CASE UNCHANGED calls
    BY <1>4 DEF AllDerived, Derived
  <1>. QED
    <2>1. UNCHANGED Cache!cacheVars => UNCHANGED calls
      BY DEF Cache!cacheVars
    <2>2. UNCHANGED Cache!vars => UNCHANGED calls
      BY DEF Cache!vars, Cache!cacheVars
    <2>3. ASSUME NEW g \in Cache!Goroutine, Cache!Step(g) PROVE AllDerived
      BY <1>1, <2>3 DEF Cache!Step
    <2>4. ASSUME NEW f \in File, Cache!BeginLoad(f) \/ Cache!Touch(f) PROVE AllDerived
      BY <1>4, <2>1, <2>4 DEF Cache!BeginLoad, Cache!Touch
    <2>5. CASE Cache!EndLoad \/ Forget
      BY <1>4, <2>1, <2>5 DEF Cache!EndLoad, Forget
    <2>. QED  BY <1>2, <1>3, <1>4, <2>2, <2>3, <2>4, <2>5 DEF CacheNext

(***************************************************************************)
(* Layer 3: results                                                        *)
(***************************************************************************)

\* A result, once what ParseFile makes of the file, stays that.
LEMMA ResultStep ==
    ASSUME Cache!TypeOK, [CacheNext]_(Cache!vars)
    PROVE  /\ job' = job
           /\ \A f \in File : result'[f] = job.content[f] \/ result'[f] = result[f]
  <1>1. ASSUME NEW g \in Cache!Goroutine, Cache!Step(g)
        PROVE  job' = job /\ \A f \in File : result'[f] = job.content[f] \/ result'[f] = result[f]
    <2>1. PICK e \in File : \/ Cache!Register(g, e) \/ Cache!Open(g, e) \/ Cache!Parse(g, e) \/ Cache!ReadDeps(g, e)
                            \/ Cache!Close(g, e) \/ Cache!FanOut(g, e) \/ Cache!Finish(g, e)
      BY <1>1 DEF Cache!Step
    <2>2. job' = job
      BY <1>1 DEF Cache!Step
    <2>3. CASE Cache!Parse(g, e)
      BY <2>2, <2>3 DEF Cache!Parse, Cache!TypeOK
    <2>4. CASE Cache!Register(g, e) \/ Cache!Open(g, e) \/ Cache!ReadDeps(g, e)
      BY <2>2, <2>4 DEF Cache!Register, Cache!Open, Cache!ReadDeps
    <2>5. CASE Cache!Close(g, e) \/ Cache!FanOut(g, e) \/ Cache!Finish(g, e)
      BY <2>2, <2>5 DEF Cache!Close, Cache!FanOut, Cache!Finish
    <2>. QED  BY <2>1, <2>3, <2>4, <2>5
  <1>2. ASSUME NEW e \in File, Cache!WorkerStarts(e) \/ Cache!BeginLoad(e) \/ Cache!Touch(e)
        PROVE  job' = job /\ result' = result
    BY <1>2 DEF Cache!WorkerStarts, Cache!Acquire, Cache!BeginLoad, Cache!Touch, Cache!cacheVars
  <1>3. CASE Cache!PrefetchRequested \/ Cache!EndLoad \/ Forget
    BY <1>3 DEF Cache!PrefetchRequested, Cache!EndLoad, Forget, Cache!cacheVars
  <1>4. CASE UNCHANGED Cache!vars
    BY <1>4 DEF Cache!vars, Cache!cacheVars
  <1>. QED  BY <1>1, <1>2, <1>3, <1>4 DEF CacheNext

\* What a call in the last three places of parse knows of its file.
Knows(g, i) ==
    /\ calls[g][i].pc \in {"deps", "close", "fanout"} =>
          result[calls[g][i].file] = job.content[calls[g][i].file]
    /\ calls[g][i].pc \in {"close", "fanout"} =>
          calls[g][i].deps = IF job.content[calls[g][i].file] = "parses"
                             THEN job.imports[calls[g][i].file]
                             ELSE <<>>

LEMMA ResultParts ==
    ResultInv <=>
      /\ \A g \in Cache!Goroutine : \A i \in 1 .. Len(calls[g]) : Knows(g, i)
      /\ \A f \in done : result[f] = job.content[f]
      /\ held \subseteq done
      /\ touched \subseteq held
  BY DEF ResultInv, Cache!DepsAreFaithful, Knows

LEMMA ResultInvStep ==
    ASSUME Cache!Parameters, Cache!TypeOK, Cache!TypeOK', FramesInv, ResultInv, LoadInv, [CacheNext]_(Cache!vars)
    PROVE  ResultInv'
  <1>1. ASSUME NEW h \in Cache!Goroutine, NEW i \in 1 .. Len(calls'[h])
        PROVE  Knows(h, i)'
    <2>1. job' = job /\ \A f \in File : result'[f] = job.content[f] \/ result'[f] = result[f]
      BY ResultStep
    <2>2. CASE calls'[h][i].pc = "enter"
      BY <2>2 DEF Knows
    <2>3. ASSUME NEW g \in Cache!Goroutine, NEW j \in 1 .. Len(calls[g]), Derived(g, j, h, i)
          PROVE  Knows(h, i)'
      <3>. DEFINE f == calls[g][j].file
      <3>1. f \in File /\ calls'[h][i].file = f
        BY <2>3, CallsType DEF Derived, Cache!Frame
      <3>2. Knows(g, j)
        BY ResultParts
      <3>3. CASE calls'[h][i].pc = calls[g][j].pc /\ calls'[h][i].deps = calls[g][j].deps
        BY <2>1, <3>1, <3>2, <3>3 DEF Knows
      <3>4. CASE calls'[h][i].pc = "deps" /\ Cache!Parse(g, f)
        <4>1. result'[f] = job.content[f]
          BY <3>1, <3>4 DEF Cache!Parse, Cache!TypeOK
        <4>. QED  BY <2>1, <3>1, <3>4, <4>1 DEF Knows
      <3>5. CASE calls[g][j].pc = "deps" /\ calls'[h][i].pc = "close" /\ calls'[h][i].deps \in Cache!DepsSeen(f)
        <4>1. f \notin done
          BY <3>5 DEF FramesInv
        <4>2. f \notin touched
          BY <4>1, ResultParts
        <4>3. result[f] = job.content[f]
          BY <3>2, <3>5 DEF Knows
        <4>. QED  BY <2>1, <3>1, <3>5, <4>2, <4>3 DEF Knows, Cache!DepsSeen
      <3>6. CASE calls[g][j].pc = "close" /\ calls'[h][i].pc = "fanout" /\ calls'[h][i].deps = calls[g][j].deps
        BY <2>1, <3>1, <3>2, <3>6 DEF Knows
      <3>7. CASE calls'[h][i].pc \in {"open", "acquire", "parse"}
        BY <3>7 DEF Knows
      <3>8. calls[g][j].file = f
        OBVIOUS
      <3>. HIDE DEF f
      <3>9. ASSUME calls'[h][i].pc \notin {"open", "acquire", "parse"}
            PROVE  \/ calls'[h][i].pc = calls[g][j].pc /\ calls'[h][i].deps = calls[g][j].deps
                   \/ calls'[h][i].pc = "deps" /\ Cache!Parse(g, f)
                   \/ /\ calls[g][j].pc = "deps" /\ calls'[h][i].pc = "close"
                      /\ calls'[h][i].deps \in Cache!DepsSeen(f)
                   \/ /\ calls[g][j].pc = "close" /\ calls'[h][i].pc = "fanout"
                      /\ calls'[h][i].deps = calls[g][j].deps
        BY <2>3, <3>8, <3>9 DEF Derived
      <3>. QED  BY <3>3, <3>4, <3>5, <3>6, <3>7, <3>9
    <2>. QED  BY <2>2, <2>3, DerivedStep DEF AllDerived
  <1>2. ASSUME NEW f \in done' PROVE result'[f] = job'.content[f]
    <2>1. f \in File
      BY DEF Cache!TypeOK
    <2>2. CASE f \in done
      BY <2>1, <2>2, ResultStep, ResultParts
    <2>3. CASE f \notin done
      <3>0. PICK g \in Cache!Goroutine : Cache!Step(g)
        <4>1. done' # done
          BY <1>2, <2>3
        <4>2. ASSUME NEW e \in File PROVE ~ (Cache!WorkerStarts(e) \/ Cache!BeginLoad(e) \/ Cache!Touch(e))
          BY <4>1 DEF Cache!WorkerStarts, Cache!Acquire, Cache!BeginLoad, Cache!Touch, Cache!cacheVars
        <4>3. ~ (Cache!PrefetchRequested \/ Cache!EndLoad \/ Forget)
          BY <4>1 DEF Cache!PrefetchRequested, Cache!EndLoad, Forget, Cache!cacheVars
        <4>4. ~ UNCHANGED Cache!vars
          BY <4>1 DEF Cache!vars, Cache!cacheVars
        <4>. QED  BY <4>2, <4>3, <4>4 DEF CacheNext
      <3>1. PICK e \in File : Cache!Close(g, e) /\ f = e
        <4>1. PICK e \in File : \/ Cache!Register(g, e) \/ Cache!Open(g, e) \/ Cache!Parse(g, e) \/ Cache!ReadDeps(g, e)
                                \/ Cache!Close(g, e) \/ Cache!FanOut(g, e) \/ Cache!Finish(g, e)
          BY <3>0 DEF Cache!Step
        <4>2. Cache!Close(g, e)
          BY <1>2, <2>3, <4>1
             DEF Cache!Register, Cache!Open, Cache!Parse, Cache!ReadDeps, Cache!FanOut, Cache!Finish
        <4>. QED  BY <1>2, <2>3, <4>2 DEF Cache!Close
      <3>2. Cache!At(g, f, "close")
        BY <3>1 DEF Cache!Close
      <3>3. /\ Len(calls[g]) \in 1 .. Len(calls[g]) /\ calls[g][Len(calls[g])].file = f
            /\ calls[g][Len(calls[g])].pc = "close"
        BY <3>2, AtFrame DEF TopOf
      <3>4. Knows(g, Len(calls[g]))
        BY <3>3, ResultParts
      <3>5. result[f] = job.content[f]
        BY <3>3, <3>4 DEF Knows
      <3>. QED  BY <2>1, <3>5, ResultStep
    <2>. QED  BY <2>2, <2>3
  <1>3. held' \subseteq done' /\ touched' \subseteq held'
    BY ResultParts DEF CacheNext, Cache!Step, Cache!Register, Cache!Open, Cache!Parse, Cache!ReadDeps, Cache!Close, Cache!FanOut, Cache!Finish,
       Cache!WorkerStarts, Cache!Acquire, Cache!PrefetchRequested, Cache!BeginLoad, Cache!Touch, Cache!EndLoad, Forget, Cache!vars, Cache!cacheVars
  <1>4. ResultInv' <=>
          /\ \A g \in Cache!Goroutine : \A i \in 1 .. Len(calls'[g]) : Knows(g, i)'
          /\ \A f \in done' : result'[f] = job'.content[f]
          /\ held' \subseteq done'
          /\ touched' \subseteq held'
    BY DEF ResultInv, Cache!DepsAreFaithful, Knows
  <1>. QED  BY <1>1, <1>2, <1>3, <1>4

LEMMA LoadInvStep ==
    ASSUME Cache!TypeOK, Cache!TypeOK', ResultInv, LoadInv, [CacheNext]_(Cache!vars)
    PROVE  LoadInv'
  <1>1. job' = job
    BY ResultStep
  <1>2. CASE load' = load
    BY <1>1, <1>2 DEF LoadInv, Cache!LoadsAreFaithful
  <1>3. ASSUME NEW f \in File, Cache!BeginLoad(f) PROVE LoadInv'
    BY <1>3 DEF Cache!BeginLoad, LoadInv, Cache!LoadsAreFaithful
  <1>4. CASE Cache!EndLoad
    <2>1. load.mode # "idle" /\ load.file \in File
      BY <1>4 DEF Cache!EndLoad, LoadInv
    <2>2. load' = Cache!Loaded(load.file, job.content[load.file])
      BY <1>4, ResultParts DEF Cache!EndLoad
    <2>. QED  BY <1>1, <2>1, <2>2 DEF Cache!Loaded, LoadInv, Cache!LoadsAreFaithful
  <1>5. CASE Forget
    BY <1>5 DEF Forget, Cache!Idle, LoadInv, Cache!LoadsAreFaithful
  <1>6. ASSUME NEW g \in Cache!Goroutine, Cache!Step(g) PROVE load' = load
    BY <1>6 DEF Cache!Step
  <1>7. ASSUME NEW f \in File, Cache!WorkerStarts(f) \/ Cache!Touch(f) PROVE load' = load
    BY <1>7 DEF Cache!WorkerStarts, Cache!Touch
  <1>8. ASSUME Cache!PrefetchRequested \/ UNCHANGED Cache!vars PROVE load' = load
    BY <1>8 DEF Cache!PrefetchRequested, Cache!vars
  <1>. QED  BY <1>2, <1>3, <1>4, <1>5, <1>6, <1>7, <1>8 DEF CacheNext

(***************************************************************************)
(* Layer 4: each file is parsed once                                       *)
(***************************************************************************)
LEMMA ParsedOnceStep ==
    ASSUME Cache!Parameters, Cache!TypeOK, Cache!TypeOK', FramesInv, FramesInv', ParsedOnce, [CacheNext]_(Cache!vars)
    PROVE  ParsedOnce'
  <1>1. registered \subseteq registered'
    BY DEF CacheNext, Cache!Step, Cache!Register, Cache!Open, Cache!Parse, Cache!ReadDeps, Cache!Close, Cache!FanOut, Cache!Finish, Cache!WorkerStarts,
           Cache!Acquire, Cache!PrefetchRequested, Cache!BeginLoad, Cache!Touch, Cache!EndLoad, Forget, Cache!vars, Cache!cacheVars
  \* What was parsed before stays parsed: its file is neither opened nor parsed again.
  <1>2. ASSUME NEW m \in 1 .. Len(parses), NEW h \in Cache!Goroutine, NEW i \in 1 .. Len(calls'[h]),
               calls'[h][i].file = parses[m].file
        PROVE  calls'[h][i].pc \in {"enter", "deps", "close", "fanout"}
    <2>1. ASSUME NEW g \in Cache!Goroutine, NEW j \in 1 .. Len(calls[g]), Derived(g, j, h, i)
          PROVE  calls'[h][i].pc \in {"enter", "deps", "close", "fanout"}
      <3>1. calls[g][j].file = parses[m].file
        BY <1>2, <2>1 DEF Derived
      <3>2. /\ calls[g][j].pc \in {"enter", "deps", "close", "fanout"}
            /\ calls[g][j].file \in registered
        BY <3>1 DEF ParsedOnce
      <3>. QED  BY <2>1, <3>2 DEF Derived
    <2>. QED  BY <2>1, DerivedStep DEF AllDerived
  <1>3. CASE parses' = parses
    BY <1>1, <1>2, <1>3 DEF ParsedOnce
  <1>4. CASE parses' # parses
    <2>1. PICK g \in Cache!Goroutine, f \in File : Cache!Parse(g, f) /\ parses' = Append(parses, [file |-> f, by |-> g])
      BY ZenonT(60), <1>4 DEF CacheNext, Cache!Step, Cache!Register, Cache!Open, Cache!Parse, Cache!ReadDeps, Cache!Close, Cache!FanOut, Cache!Finish, Cache!WorkerStarts,
         Cache!Acquire, Cache!PrefetchRequested, Cache!BeginLoad, Cache!Touch, Cache!EndLoad, Forget, Cache!vars, Cache!cacheVars
    <2>. DEFINE run == [file |-> f, by |-> g]
    <2>2. run \in Cache!ParseRun /\ run.file = f
      BY DEF Cache!ParseRun
    <2>. HIDE DEF run
    <2>3. /\ Len(parses') = Len(parses) + 1
          /\ \A m \in 1 .. Len(parses) : parses'[m] = parses[m]
          /\ parses'[Len(parses) + 1] = run
          /\ Len(parses) \in Nat
      BY <2>1, <2>2, AppendProperties, LenProperties DEF Cache!TypeOK, run
    <2>4. Cache!At(g, f, "parse") /\ registered' = registered
      BY <2>1 DEF Cache!Parse
    <2>5. /\ Len(calls[g]) \in 1 .. Len(calls[g]) /\ calls[g][Len(calls[g])].file = f
          /\ calls[g][Len(calls[g])].pc = "parse" /\ calls[g] # <<>> /\ TopOf(g).file = f
      BY <2>4, AtFrame DEF TopOf
    <2>6. f \in registered
      BY <2>5 DEF FramesInv
    <2>7. \A m \in 1 .. Len(parses) : parses[m].file # f
      BY <2>5 DEF ParsedOnce
    \* No call on any stack is about to parse f.
    <2>8. ASSUME NEW h \in Cache!Goroutine, NEW i \in 1 .. Len(calls'[h]), calls'[h][i].file = f
          PROVE  calls'[h][i].pc \in {"enter", "deps", "close", "fanout"}
      <3>1. Changes(g, Moved(g, "deps"))
        BY <2>1, <2>4, GoToEffect DEF Cache!Parse
      <3>2. Moved(g, "deps").file = f /\ Moved(g, "deps").pc = "deps"
        BY <2>5 DEF Moved, Cache!FrameAt
      <3>3. Len(calls[g]) \in 1 .. Len(calls'[g]) /\ calls'[g][Len(calls[g])] = Moved(g, "deps")
        BY <2>5, <3>1 DEF Changes
      <3>4. CASE h = g /\ i = Len(calls[g])
        BY <3>2, <3>3, <3>4
      <3>5. CASE h # g \/ i # Len(calls[g])
        BY <2>8, <3>2, <3>3, <3>5 DEF FramesInv
      <3>. QED  BY <3>4, <3>5
    <2>9. \A m, n \in 1 .. Len(parses') : parses'[m].file = parses'[n].file => m = n
      BY <2>2, <2>3, <2>7 DEF ParsedOnce
    <2>10. ASSUME NEW m \in 1 .. Len(parses')
           PROVE  /\ parses'[m].file \in registered'
                  /\ \A h \in Cache!Goroutine : \A i \in 1 .. Len(calls'[h]) :
                        calls'[h][i].file = parses'[m].file =>
                           calls'[h][i].pc \in {"enter", "deps", "close", "fanout"}
      <3>1. CASE m \in 1 .. Len(parses)
        <4>1. parses'[m] = parses[m] /\ parses[m].file \in registered
          BY <2>3, <3>1 DEF ParsedOnce
        <4>. QED  BY <1>1, <1>2, <3>1, <4>1
      <3>2. CASE m = Len(parses) + 1
        BY <2>2, <2>3, <2>4, <2>6, <2>8, <3>2
      <3>. QED  BY <2>3, <3>1, <3>2
    <2>. QED  BY <2>9, <2>10 DEF ParsedOnce
  <1>. QED  BY <1>3, <1>4

(***************************************************************************)
(* Layer 5: slots                                                          *)
(***************************************************************************)

\* A goroutine that is inside prefetch or parse and not waiting for a slot.
Running(g) == calls[g] # <<>> /\ calls[g][Len(calls[g])].pc # "acquire"

\* Only the start of a worker that has been given a slot, or the consumer's call of
\* prefetch, sets a goroutine running.
LEMMA RunningStep ==
    ASSUME Cache!TypeOK, Cache!TypeOK', FramesInv, [CacheNext]_(Cache!vars), NEW h \in Cache!Goroutine, Running(h)'
    PROVE  Running(h) \/ h = Main \/ (h \in File /\ Cache!WorkerStarts(h))
  <1>1. \A k \in Cache!Goroutine : /\ Len(calls[k]) \in Nat /\ Len(calls'[k]) \in Nat
                                   /\ calls[k] # <<>> <=> Len(calls[k]) # 0
                                   /\ calls'[k] # <<>> <=> Len(calls'[k]) # 0
    BY CallsType, EmptySeq, LenProperties DEF Cache!TypeOK
  <1>2. CASE UNCHANGED calls
    BY <1>2 DEF Running
  <1>3. ASSUME NEW g \in Cache!Goroutine, NEW f \in File, NEW c, Cache!At(g, f, c), c # "acquire"
        PROVE  Running(g)
    BY <1>3, AtFrame DEF Running, TopOf
  <1>4. ASSUME NEW g \in Cache!Goroutine, NEW fr, Changes(g, fr), Running(g)
        PROVE  Running(h)
    <2>1. CASE h = g
      BY <1>4, <2>1
    <2>2. CASE h # g
      <3>1. Len(calls'[h]) = Len(calls[h]) /\ Len(calls[h]) \in 1 .. Len(calls[h])
        BY <1>1, <1>4 DEF Changes, Running
      <3>2. calls'[h][Len(calls[h])] = calls[h][Len(calls[h])]
        BY <1>4, <2>2, <3>1 DEF Changes
      <3>. QED  BY <1>1, <3>1, <3>2 DEF Running
    <2>. QED  BY <2>1, <2>2
  <1>5. ASSUME NEW g \in Cache!Goroutine, Pops(g), Running(g)
        PROVE  Running(h)
    <2>1. CASE h = g
      BY <1>5, <2>1
    <2>2. CASE h # g
      <3>1. Len(calls'[h]) = Len(calls[h]) /\ Len(calls[h]) \in 1 .. Len(calls[h])
        BY <1>1, <1>5, <2>2 DEF Pops, Running
      <3>2. calls'[h][Len(calls[h])] = calls[h][Len(calls[h])]
        BY <1>5, <2>2, <3>1 DEF Pops
      <3>. QED  BY <1>1, <3>1, <3>2 DEF Running
    <2>. QED  BY <2>1, <2>2
  <1>6. ASSUME NEW g \in Cache!Goroutine, NEW f \in File
        PROVE  /\ Cache!Register(g, f) => Running(h)
               /\ Cache!Open(g, f) => Running(h)
               /\ Cache!Parse(g, f) => Running(h)
               /\ Cache!ReadDeps(g, f) => Running(h)
               /\ Cache!Close(g, f) => Running(h)
               /\ Cache!FanOut(g, f) => Running(h)
               /\ Cache!Finish(g, f) => Running(h)
    <2>1. CASE Cache!Register(g, f)
      <3>1. Cache!At(g, f, "enter") /\ Running(g) /\ calls[g] # <<>>
        BY <1>3, <2>1 DEF Cache!Register, Running
      <3>. QED  BY <1>4, <1>5, <2>1, <3>1, PopEffect, GoToEffect DEF Cache!Register
    <2>2. CASE Cache!Open(g, f)
      <3>1. Cache!At(g, f, "open") /\ Running(g)
        BY <1>3, <2>2 DEF Cache!Open
      <3>2. CASE Cache!GoTo(g, "parse")
        BY <1>4, <3>1, <3>2, GoToEffect
      <3>3. CASE Cache!Spawn(g, f)
        <4>1. Spawns(g, f)
          BY <3>1, <3>3, SpawnEffect
        <4>2. CASE h = f
          <5>1. Len(calls'[h]) = 1 /\ calls'[h][1].pc = "acquire"
            <6>1. Len(calls'[h]) = 1 /\ calls'[h][1] = Cache!FrameAt(f, "acquire", <<>>, 1)
              BY <4>1, <4>2 DEF Spawns
            <6>. QED  BY <6>1 DEF Cache!FrameAt
          <5>. QED  BY <5>1 DEF Running
        <4>3. CASE h = g
          BY <3>1, <4>3
        <4>4. CASE h # f /\ h # g
          <5>1. Len(calls'[h]) = Len(calls[h]) /\ Len(calls[h]) \in 1 .. Len(calls[h])
            BY <1>1, <4>1, <4>4 DEF Spawns, Running
          <5>2. calls'[h][Len(calls[h])] = calls[h][Len(calls[h])]
            BY <4>1, <4>4, <5>1 DEF Spawns
          <5>. QED  BY <1>1, <5>1, <5>2 DEF Running
        <4>. QED  BY <4>2, <4>3, <4>4
      <3>. QED  BY <2>2, <3>2, <3>3 DEF Cache!Open
    <2>3. CASE Cache!Parse(g, f)
      BY <1>3, <1>4, <2>3, GoToEffect DEF Cache!Parse
    <2>4. CASE Cache!ReadDeps(g, f)
      BY <1>3, <1>4, <2>4, ReadDepsEffect DEF Cache!ReadDeps
    <2>5. CASE Cache!Close(g, f)
      BY <1>3, <1>4, <2>5, GoToEffect DEF Cache!Close
    <2>6. CASE Cache!FanOut(g, f)
      <3>1. CallsNext(g) /\ Running(g)
        BY <1>3, <2>6, FanOutEffect DEF Cache!FanOut
      <3>2. CASE h = g
        BY <3>1, <3>2
      <3>3. CASE h # g
        <4>1. Len(calls'[h]) = Len(calls[h]) /\ Len(calls[h]) \in 1 .. Len(calls[h])
          BY <1>1, <3>1, <3>3 DEF CallsNext, Running
        <4>2. calls'[h][Len(calls[h])] = calls[h][Len(calls[h])]
          BY <3>1, <3>3, <4>1 DEF CallsNext
        <4>. QED  BY <1>1, <4>1, <4>2 DEF Running
      <3>. QED  BY <3>2, <3>3
    <2>7. CASE Cache!Finish(g, f)
      BY <1>3, <1>5, <2>7, PopEffect DEF Cache!Finish, Running
    <2>. QED  BY <2>1, <2>2, <2>3, <2>4, <2>5, <2>6, <2>7
  <1>7. ASSUME NEW f \in File, Cache!WorkerStarts(f), h # f PROVE Running(h)
    <2>1. f \in Cache!Goroutine /\ Cache!At(f, f, "acquire") /\ Cache!GoTo(f, "parse")
      BY <1>7 DEF Cache!WorkerStarts, Cache!Acquire, Cache!Goroutine
    <2>2. Changes(f, Moved(f, "parse"))
      BY <2>1, GoToEffect
    <2>3. Len(calls'[h]) = Len(calls[h]) /\ Len(calls[h]) \in 1 .. Len(calls[h])
      BY <1>1, <2>2 DEF Changes, Running
    <2>4. calls'[h][Len(calls[h])] = calls[h][Len(calls[h])]
      BY <1>7, <2>2, <2>3 DEF Changes
    <2>. QED  BY <1>1, <2>3, <2>4 DEF Running
  <1>8. CASE Cache!PrefetchRequested
    <2>1. h # Main => calls'[h] = calls[h]
      BY <1>8, PrefetchEffect
    <2>. QED  BY <2>1 DEF Running
  <1>. QED
    <2>1. UNCHANGED Cache!cacheVars => UNCHANGED calls
      BY DEF Cache!cacheVars
    <2>2. UNCHANGED Cache!vars => UNCHANGED calls
      BY DEF Cache!vars, Cache!cacheVars
    <2>. QED  BY <1>2, <1>6, <1>7, <1>8, <2>1, <2>2
                 DEF CacheNext, Cache!Step, Cache!BeginLoad, Cache!Touch, Cache!EndLoad, Forget

LEMMA SlotsInvStep ==
    ASSUME Cache!Parameters, Cache!TypeOK, Cache!TypeOK', FramesInv, SlotsInv, [CacheNext]_(Cache!vars)
    PROVE  SlotsInv'
  <1>1. \A f \in File : f \in Cache!Goroutine /\ f # Main
    BY DEF Cache!Parameters, Cache!Goroutine
  <1>2. \A f \in File : Running(f) => f \in holders
    BY DEF SlotsInv, Running
  <1>3. ASSUME NEW g \in Cache!Goroutine, NEW e \in File, Cache!Finish(g, e), Cache!Depth(g) = 1 PROVE SlotsInv'
    <2>1. holders' = holders \ {g}
      BY <1>3 DEF Cache!Finish
    <2>2. Len(calls'[g]) = 0 /\ calls'[g] = <<>>
      <3>1. Pops(g) /\ calls' \in [Cache!Goroutine -> Seq(Cache!Frame)]
        BY <1>3, PopEffect, AtFrame DEF Cache!Finish
      <3>. QED  BY <1>3, <3>1, EmptySeq DEF Pops, Cache!Depth
    <2>3. \A f \in File : Running(f)' => Running(f)
      <3>. SUFFICES ASSUME NEW f \in File, Running(f)', Cache!WorkerStarts(f) PROVE FALSE
        BY <1>1, RunningStep
      <3>1. Pops(g) /\ calls[g] # <<>> /\ TopOf(g).pc = "fanout"
        BY <1>3, PopEffect, AtFrame DEF Cache!Finish
      <3>2. Cache!At(f, f, "acquire") /\ Cache!GoTo(f, "parse") /\ f \in Cache!Goroutine
        BY <1>1 DEF Cache!WorkerStarts, Cache!Acquire
      <3>3. Changes(f, Moved(f, "parse"))
        BY <3>2, GoToEffect
      <3>4. Len(calls'[g]) = Len(calls[g]) /\ Len(calls'[g]) = Len(calls[g]) - 1 /\ Len(calls[g]) \in Nat
        BY <3>1, <3>3, CallsType DEF Pops, Changes
      <3>. QED  BY <3>4
    <2>4. IsFiniteSet(holders') /\ Cardinality(holders') <= MaxProcs
      <3>1. /\ IsFiniteSet(holders) /\ Cardinality(holders) \in Nat /\ MaxProcs \in Nat
            /\ Cardinality(holders) <= MaxProcs
        BY FS_CardinalityType DEF SlotsInv, Cache!Parameters
      <3>2. /\ IsFiniteSet(holders \ {g})
            /\ Cardinality(holders \ {g}) <= Cardinality(holders)
            /\ Cardinality(holders \ {g}) \in Nat
        BY <3>1, FS_Subset, FS_CardinalityType
      <3>. QED  BY <2>1, <3>1, <3>2
    <2>5. \A f \in File : Running(f)' => f \in holders'
      BY <1>2, <2>1, <2>2, <2>3 DEF Running
    <2>. QED  BY <2>4, <2>5 DEF SlotsInv, Running
  <1>4. ASSUME NEW e \in File, Cache!WorkerStarts(e) PROVE SlotsInv'
    <2>1. holders' = holders \cup {e} /\ Cardinality(holders) < MaxProcs
      BY <1>4, CountsAlike DEF Cache!WorkerStarts, Cache!Acquire
    <2>2. \A f \in File : Running(f)' => Running(f) \/ f = e
      <3>. SUFFICES ASSUME NEW f \in File, Running(f)', Cache!WorkerStarts(f), ~ Running(f) PROVE f = e
        BY <1>1, RunningStep
      <3>1. f \in Cache!Goroutine /\ e \in Cache!Goroutine /\ Cache!At(e, e, "acquire") /\ Cache!GoTo(e, "parse")
        BY <1>1, <1>4 DEF Cache!WorkerStarts, Cache!Acquire
      <3>2. Changes(e, Moved(e, "parse"))
        BY <3>1, GoToEffect
      <3>3. Cache!At(f, f, "acquire") /\ Cache!GoTo(f, "parse")
        BY DEF Cache!WorkerStarts, Cache!Acquire
      <3>4. Changes(f, Moved(f, "parse")) /\ calls[f] # <<>>
        BY <3>1, <3>3, GoToEffect, AtFrame
      <3>5. /\ Len(calls[f]) \in 1 .. Len(calls[f])
            /\ calls[f][Len(calls[f])].pc = "acquire"
            /\ Moved(f, "parse").pc = "parse"
        BY <3>1, <3>3, AtFrame DEF TopOf, Moved, Cache!FrameAt
      <3>6. calls'[f][Len(calls[f])] = Moved(f, "parse")
        BY <3>1, <3>4, <3>5 DEF Changes
      <3>7. f # e => calls'[f][Len(calls[f])] = calls[f][Len(calls[f])]
        BY <3>1, <3>2, <3>5 DEF Changes
      <3>. QED  BY <3>5, <3>6, <3>7
    <2>3. IsFiniteSet(holders') /\ Cardinality(holders') <= MaxProcs
      <3>1. /\ IsFiniteSet(holders) /\ Cardinality(holders) \in Nat /\ MaxProcs \in Nat
        BY FS_CardinalityType DEF SlotsInv, Cache!Parameters
      <3>. QED  BY <2>1, <3>1, FS_AddElement
    <2>4. \A f \in File : Running(f)' => f \in holders'
      BY <1>2, <2>1, <2>2
    <2>. QED  BY <2>3, <2>4 DEF SlotsInv, Running
  <1>5. CASE holders' = holders /\ ~ \E e \in File : Cache!WorkerStarts(e)
    <2>1. \A f \in File : Running(f)' => Running(f)
      BY <1>1, <1>5, RunningStep
    <2>. QED  BY <1>2, <1>5, <2>1 DEF SlotsInv, Running
  <1>. QED  BY ZenonT(60), <1>3, <1>4, <1>5 DEF CacheNext, Cache!Step, Cache!Register, Cache!Open, Cache!Parse, Cache!ReadDeps, Cache!Close, Cache!FanOut,
              Cache!Finish, Cache!PrefetchRequested, Cache!BeginLoad, Cache!Touch, Cache!EndLoad, Forget, Cache!vars, Cache!cacheVars

(***************************************************************************)
(* Layer 6: the inline budget                                              *)
(***************************************************************************)

\* The files parsed, or about to be parsed, on a goroutine that is not theirs.
Admitted ==
    {p \in Range(parses) : p.by # p.file}
    \cup {p \in Cache!ParseRun :
             /\ p.by # p.file
             /\ job.content[p.file] # "absent"
             /\ \E i \in 1 .. Len(calls[p.by]) :
                   calls[p.by][i].file = p.file /\ calls[p.by][i].pc = "parse"}

\* Their bytes have been added to the counter, and within the budget.
BudgetInv ==
    /\ IsFiniteSet(Admitted)
    /\ Cache!Bytes(Admitted) <= inline
    /\ Cache!Bytes(Admitted) <= InlineBudget

Weight == [p \in Cache!ParseRun |-> Size[p.file]]

LEMMA BytesIsSum == \A runs : Cache!Bytes(runs) = SumOver(Weight, runs)
  BY DEF Cache!Bytes, SumOver, Weight, Cache!FoldFunctionOnSet, Cache!MapThenFoldSet,
         FoldFunctionOnSet, MapThenFoldSet

LEMMA AdmittedType ==
    ASSUME Cache!Parameters, Cache!TypeOK
    PROVE  /\ Admitted \subseteq Cache!ParseRun
           /\ \A p \in Admitted : Weight[p] \in Nat
  <1>1. Range(parses) \subseteq Cache!ParseRun
    <2>1. \A k \in 1 .. Len(parses) : parses[k] \in Cache!ParseRun
      BY ElementOfSeq DEF Cache!TypeOK
    <2>. QED  BY <2>1, RangeWithin DEF Cache!TypeOK
  <1>2. Admitted \subseteq Cache!ParseRun
    BY <1>1 DEF Admitted
  <1>3. \A p \in Cache!ParseRun : Weight[p] \in Nat
    BY DEF Weight, Cache!ParseRun, Cache!Parameters
  <1>. QED  BY <1>2, <1>3

\* Only opening a small file adds to them, and one file at a time.
LEMMA AdmittedStep ==
    ASSUME Cache!Parameters, Cache!TypeOK, Cache!TypeOK', FramesInv, [CacheNext]_(Cache!vars)
    PROVE  \/ Admitted' \subseteq Admitted
           \/ \E g \in Cache!Goroutine, f \in File :
                 /\ Admitted' \subseteq Admitted \cup {[file |-> f, by |-> g]}
                 /\ inline' = inline + Size[f]
                 /\ inline' <= InlineBudget
  <1>1. Range(parses) \subseteq Cache!ParseRun /\ job' = job
    <2>1. \A k \in 1 .. Len(parses) : parses[k] \in Cache!ParseRun
      BY ElementOfSeq DEF Cache!TypeOK
    <2>. QED  BY <2>1, RangeWithin, ResultStep DEF Cache!TypeOK
  \* What a run of ParseFile adds was about to be parsed.
  <1>2. \/ parses' = parses
        \/ \E p \in Cache!ParseRun : /\ Range(parses') = Range(parses) \cup {p}
                                     /\ p.by # p.file => p \in Admitted
    <2>1. \/ parses' = parses
          \/ \E g \in Cache!Goroutine, f \in File :
                /\ Cache!Parse(g, f) /\ job.content[f] # "absent"
                /\ parses' = Append(parses, [file |-> f, by |-> g])
      BY ZenonT(60) DEF CacheNext, Cache!Step, Cache!Register, Cache!Open, Cache!Parse, Cache!ReadDeps, Cache!Close, Cache!FanOut, Cache!Finish, Cache!WorkerStarts,
         Cache!Acquire, Cache!PrefetchRequested, Cache!BeginLoad, Cache!Touch, Cache!EndLoad, Forget, Cache!vars, Cache!cacheVars
    <2>2. ASSUME NEW g \in Cache!Goroutine, NEW f \in File, Cache!Parse(g, f), job.content[f] # "absent",
                 parses' = Append(parses, [file |-> f, by |-> g])
          PROVE  \E p \in Cache!ParseRun : /\ Range(parses') = Range(parses) \cup {p}
                                           /\ p.by # p.file => p \in Admitted
      <3>. DEFINE run == [file |-> f, by |-> g]
      <3>1. run \in Cache!ParseRun /\ run.file = f /\ run.by = g
        BY DEF Cache!ParseRun
      <3>2. /\ Len(calls[g]) \in 1 .. Len(calls[g]) /\ calls[g][Len(calls[g])].file = f
            /\ calls[g][Len(calls[g])].pc = "parse"
        BY <2>2, AtFrame DEF Cache!Parse, TopOf
      <3>. HIDE DEF run
      <3>3. run.by # run.file => run \in Admitted
        BY <2>2, <3>1, <3>2 DEF Admitted
      <3>4. Range(parses') = Range(parses) \cup {run}
        BY <2>2, <3>1, AppendRange DEF Cache!TypeOK, run
      <3>. QED  BY <3>1, <3>3, <3>4
    <2>. QED  BY <2>1, <2>2
  <1>3. {p \in Range(parses') : p.by # p.file} \subseteq Admitted
    BY <1>2 DEF Admitted
  \* What is about to be parsed was so before, or has just been opened.
  <1>4. ASSUME NEW p \in Admitted', p \notin Admitted
        PROVE  Cache!Open(p.by, p.file) /\ p \in Cache!ParseRun /\ job.content[p.file] # "absent"
               /\ \E i \in 1 .. Len(calls'[p.by]) :
                     calls'[p.by][i].file = p.file /\ calls'[p.by][i].pc = "parse"
    <2>1. /\ p \in Cache!ParseRun /\ p.by # p.file /\ job.content[p.file] # "absent"
          /\ \E i \in 1 .. Len(calls'[p.by]) :
                calls'[p.by][i].file = p.file /\ calls'[p.by][i].pc = "parse"
      BY <1>1, <1>3, <1>4 DEF Admitted
    <2>2. PICK i \in 1 .. Len(calls'[p.by]) :
             calls'[p.by][i].file = p.file /\ calls'[p.by][i].pc = "parse"
      BY <2>1
    <2>3. p.by \in Cache!Goroutine
      BY <2>1 DEF Cache!ParseRun
    <2>4. PICK g \in Cache!Goroutine : \E j \in 1 .. Len(calls[g]) : Derived(g, j, p.by, i)
      BY <2>2, <2>3, DerivedStep DEF AllDerived
    <2>5. PICK j \in 1 .. Len(calls[g]) : Derived(g, j, p.by, i)
      BY <2>4
    <2>6. calls[g][j].file = p.file /\ (g = p.by /\ calls[g][j].pc = "parse" => p \in Admitted)
      BY <2>1, <2>2, <2>5 DEF Derived, Admitted
    <2>7. Cache!Open(g, p.file) /\ g = p.by
      BY <1>4, <2>1, <2>2, <2>5, <2>6 DEF Derived
    <2>. QED  BY <2>1, <2>7
  <1>5. CASE Admitted' \subseteq Admitted
    BY <1>5
  <1>6. ASSUME NEW p \in Admitted', p \notin Admitted
        PROVE  \E g \in Cache!Goroutine, f \in File :
                 /\ Admitted' \subseteq Admitted \cup {[file |-> f, by |-> g]}
                 /\ inline' = inline + Size[f]
                 /\ inline' <= InlineBudget
    <2>. DEFINE g == p.by  f == p.file
    <2>1. /\ g \in Cache!Goroutine /\ f \in File /\ p = [file |-> f, by |-> g]
          /\ Cache!Open(g, f) /\ job.content[f] # "absent"
      BY <1>4, <1>6 DEF Cache!ParseRun
    <2>2. Cache!At(g, f, "open")
      BY <2>1 DEF Cache!Open
    <2>3. ~ Cache!Spawn(g, f)
      <3>. SUFFICES ASSUME Cache!Spawn(g, f) PROVE FALSE
        OBVIOUS
      <3>1. Spawns(g, f) /\ g # f
        BY <2>1, <2>2, SpawnEffect, NoWorkerYet
      <3>2. PICK i \in 1 .. Len(calls'[g]) : calls'[g][i].file = f /\ calls'[g][i].pc = "parse"
        BY <1>4, <1>6
      <3>3. Len(calls[g]) \in 1 .. Len(calls[g]) /\ TopOf(g).pc = "open"
        BY <2>1, <2>2, AtFrame
      <3>4. i \in 1 .. Len(calls[g]) /\ i # Len(calls[g]) /\ calls'[g][i] = calls[g][i]
        BY <2>1, <3>1, <3>3 DEF Spawns
      <3>. QED  BY <2>1, <3>2, <3>4 DEF FramesInv
    <2>4. inline' = inline + Size[f] /\ inline' <= InlineBudget
      BY <2>1, <2>3 DEF Cache!Open
    \* Everything else that is new has been opened by the same step, and is the same.
    <2>5. ASSUME NEW q \in Admitted', q \notin Admitted PROVE q = p
      <3>1. /\ q.by \in Cache!Goroutine /\ q.file \in File /\ q = [file |-> q.file, by |-> q.by]
            /\ Cache!Open(q.by, q.file)
        BY <1>4, <2>5 DEF Cache!ParseRun
      <3>2. Cache!At(q.by, q.file, "open")
        BY <3>1 DEF Cache!Open
      <3>3. Changes(g, Moved(g, "parse"))
        BY <2>1, <2>2, <2>3, GoToEffect DEF Cache!Open
      <3>4. /\ calls[q.by] # <<>> /\ Len(calls[q.by]) \in 1 .. Len(calls[q.by])
            /\ TopOf(q.by).file = q.file /\ TopOf(q.by).pc = "open"
        BY <3>1, <3>2, AtFrame
      <3>5. TopOf(g).file = f /\ TopOf(g).pc = "open"
        BY <2>1, <2>2, AtFrame
      <3>6. CASE q.by = g
        BY <2>1, <3>1, <3>4, <3>5, <3>6
      <3>7. CASE q.by # g
        <4>1. PICK i \in 1 .. Len(calls'[q.by]) :
                 calls'[q.by][i].file = q.file /\ calls'[q.by][i].pc = "parse"
          BY <1>4, <2>5
        <4>2. calls'[q.by][i] = calls[q.by][i] /\ i \in 1 .. Len(calls[q.by])
          BY <3>1, <3>3, <3>7 DEF Changes
        <4>3. i # Len(calls[q.by])
          BY <3>4, <4>1, <4>2 DEF TopOf
        <4>. QED  BY <3>1, <4>1, <4>2, <4>3 DEF FramesInv
      <3>. QED  BY <3>6, <3>7
    <2>6. Admitted' \subseteq Admitted \cup {[file |-> f, by |-> g]}
      BY <2>1, <2>5
    <2>. QED  BY <2>1, <2>4, <2>6
  <1>. QED  BY <1>5, <1>6

LEMMA BudgetInvStep ==
    ASSUME Cache!Parameters, Cache!TypeOK, Cache!TypeOK', FramesInv, BudgetInv, [CacheNext]_(Cache!vars)
    PROVE  BudgetInv'
  <1>1. /\ Admitted \subseteq Cache!ParseRun /\ IsFiniteSet(Admitted)
        /\ \A p \in Cache!ParseRun : Weight[p] \in Nat /\ Weight[p] = Size[p.file]
    BY AdmittedType DEF BudgetInv, Weight, Cache!ParseRun, Cache!Parameters
  <1>2. /\ inline \in Nat /\ inline' \in Nat /\ InlineBudget \in Nat
        /\ \A f \in File : Size[f] \in Nat
    BY DEF Cache!TypeOK, Cache!Parameters
  <1>3. /\ SumOver(Weight, Admitted) \in Nat
        /\ SumOver(Weight, Admitted) <= inline /\ SumOver(Weight, Admitted) <= InlineBudget
    BY <1>1, BytesIsSum, SumOverType DEF BudgetInv
  <1>4. inline <= inline'
    <2>1. ASSUME NEW g \in Cache!Goroutine, Cache!Step(g)
          PROVE  inline' = inline \/ \E f \in File : inline' = inline + Size[f]
      <3>1. PICK f \in File : \/ Cache!Register(g, f) \/ Cache!Open(g, f) \/ Cache!Parse(g, f) \/ Cache!ReadDeps(g, f)
                              \/ Cache!Close(g, f) \/ Cache!FanOut(g, f) \/ Cache!Finish(g, f)
        BY <2>1 DEF Cache!Step
      <3>2. CASE Cache!Open(g, f)
        BY <3>2 DEF Cache!Open
      <3>3. CASE ~ Cache!Open(g, f)
        BY <3>1, <3>3 DEF Cache!Register, Cache!Parse, Cache!ReadDeps, Cache!Close, Cache!FanOut, Cache!Finish
      <3>. QED  BY <3>2, <3>3
    <2>2. ASSUME NEW f \in File, Cache!WorkerStarts(f) \/ Cache!BeginLoad(f) \/ Cache!Touch(f)
          PROVE  inline' = inline
      BY <2>2 DEF Cache!WorkerStarts, Cache!Acquire, Cache!BeginLoad, Cache!Touch, Cache!cacheVars
    <2>3. ASSUME Cache!PrefetchRequested \/ Cache!EndLoad \/ Forget PROVE inline' = inline
      BY <2>3 DEF Cache!PrefetchRequested, Cache!EndLoad, Forget, Cache!cacheVars
    <2>4. ASSUME UNCHANGED Cache!vars PROVE inline' = inline
      BY <2>4 DEF Cache!vars, Cache!cacheVars
    <2>5. inline' = inline \/ \E f \in File : inline' = inline + Size[f]
      BY <2>1, <2>2, <2>3, <2>4 DEF CacheNext
    <2>. QED  BY <1>2, <2>5
  <1>5. CASE Admitted' \subseteq Admitted
    <2>1. IsFiniteSet(Admitted')
      BY <1>1, <1>5, FS_Subset
    <2>2. SumOver(Weight, Admitted') <= SumOver(Weight, Admitted) /\ SumOver(Weight, Admitted') \in Nat
      <3>. DEFINE T == Admitted'
      <3>1. T \in SUBSET Admitted
        BY <1>5
      <3>2. \A p \in T : Weight[p] \in Nat
        BY <1>1, <3>1
      <3>3. IsFiniteSet(T)
        BY <2>1
      <3>. HIDE DEF T
      <3>4. SumOver(Weight, T) <= SumOver(Weight, Admitted) /\ SumOver(Weight, T) \in Nat
        BY <1>1, <3>1, <3>2, <3>3, SumOverSubset, SumOverType
      <3>. QED  BY <3>4 DEF T
    <2>3. Cache!Bytes(Admitted') = SumOver(Weight, Admitted') /\ Cache!Bytes(Admitted)' = Cache!Bytes(Admitted')
      BY BytesIsSum
    <2>. QED  BY <1>2, <1>3, <1>4, <2>1, <2>2, <2>3 DEF BudgetInv
  <1>6. ASSUME NEW g \in Cache!Goroutine, NEW f \in File,
               Admitted' \subseteq Admitted \cup {[file |-> f, by |-> g]},
               inline' = inline + Size[f], inline' <= InlineBudget
        PROVE  BudgetInv'
    <2>. DEFINE run == [file |-> f, by |-> g]  All == Admitted \cup {run}  T == Admitted'
    <2>1. run \in Cache!ParseRun /\ Weight[run] = Size[f] /\ Weight[run] \in Nat
      BY <1>1, <1>2 DEF Cache!ParseRun
    <2>2. T \in SUBSET All
      BY <1>6
    <2>3. IsFiniteSet(All) /\ \A p \in All : Weight[p] \in Nat
      BY <1>1, <2>1, FS_AddElement
    <2>. HIDE DEF run
    <2>4. SumOver(Weight, All) <= SumOver(Weight, Admitted) + Size[f] /\ SumOver(Weight, All) \in Nat
      <3>1. CASE run \in Admitted
        <4>1. All = Admitted
          BY <3>1
        <4>. QED  BY <1>2, <1>3, <4>1
      <3>2. CASE run \notin Admitted
        BY <1>1, <1>2, <1>3, <2>1, <3>2, SumOverAdd
      <3>. QED  BY <3>1, <3>2
    <2>. HIDE DEF All, T
    <2>5. /\ IsFiniteSet(T)
          /\ SumOver(Weight, T) <= SumOver(Weight, All) /\ SumOver(Weight, T) \in Nat
      BY <2>2, <2>3, FS_Subset, SumOverSubset, SumOverType
    <2>6. /\ SumOver(Weight, T) <= inline' /\ SumOver(Weight, T) <= InlineBudget
      BY <1>2, <1>3, <1>6, <2>4, <2>5
    <2>7. Cache!Bytes(Admitted)' = SumOver(Weight, T)
      BY BytesIsSum DEF T
    <2>. QED  BY <2>5, <2>6, <2>7 DEF BudgetInv, T
  <1>. QED  BY <1>5, <1>6, AdmittedStep

(***************************************************************************)
(* The theorems                                                            *)
(***************************************************************************)
CacheInv ==
    /\ Cache!TypeOK
    /\ FramesInv
    /\ ResultInv
    /\ LoadInv
    /\ ParsedOnce
    /\ SlotsInv
    /\ BudgetInv

LEMMA CacheInvInit ==
    ASSUME Cache!Parameters, Cache!Init
    PROVE  CacheInv
  <1>1. Cache!TypeOK
    BY EmptySeq DEF Cache!Init, Cache!Parameters, Cache!TypeOK, Cache!Idle, Cache!Goroutine, Cache!Outcome, Cache!ParseRun, Cache!Frame
  <1>2. /\ \A g \in Cache!Goroutine : calls[g] = <<>> /\ Len(calls[g]) = 0 /\ 1 .. Len(calls[g]) = {}
        /\ Len(parses) = 0 /\ 1 .. Len(parses) = {}
    BY DEF Cache!Init
  <1>3. FramesInv /\ ResultInv /\ ParsedOnce
    BY <1>2 DEF Cache!Init, FramesInv, ResultInv, Cache!DepsAreFaithful, ParsedOnce, Cache!Goroutine
  <1>4. LoadInv
    BY DEF Cache!Init, LoadInv, Cache!LoadsAreFaithful, Cache!Idle
  <1>5. SlotsInv
    <2>1. IsFiniteSet({}) /\ Cardinality({}) = 0
      BY FS_EmptySet
    <2>. QED  BY <1>2, <2>1 DEF Cache!Init, SlotsInv, Cache!Goroutine, Cache!Parameters
  <1>6. BudgetInv
    <2>1. Range(parses) = {}
      <3>1. parses \in Seq(Cache!ParseRun)
        BY <1>1 DEF Cache!TypeOK
      <3>2. Range(parses) = {parses[i] : i \in 1 .. Len(parses)}
        BY <3>1, RangeEquality
      <3>. QED  BY <1>2, <3>2
    <2>2. Admitted = {}
      BY <1>2, <2>1 DEF Admitted, Cache!ParseRun
    <2>3. Cache!Bytes({}) = 0 /\ IsFiniteSet({})
      BY BytesIsSum, SumOverEquation, FS_EmptySet
    <2>. QED  BY <2>2, <2>3 DEF BudgetInv, Cache!Init, Cache!Parameters
  <1>. QED  BY <1>1, <1>3, <1>4, <1>5, <1>6 DEF CacheInv

LEMMA CacheInvStep ==
    ASSUME Cache!Parameters, CacheInv, [CacheNext]_(Cache!vars)
    PROVE  CacheInv'
  <1>1. Cache!TypeOK'
    BY TypeOKStep DEF CacheInv
  <1>2. FramesInv'
    BY <1>1, FramesInvStep DEF CacheInv
  <1>3. ResultInv' /\ LoadInv'
    BY <1>1, ResultInvStep, LoadInvStep DEF CacheInv
  <1>4. ParsedOnce'
    BY <1>1, <1>2, ParsedOnceStep DEF CacheInv
  <1>5. SlotsInv' /\ BudgetInv'
    BY <1>1, SlotsInvStep, BudgetInvStep DEF CacheInv
  <1>. QED  BY <1>1, <1>2, <1>3, <1>4, <1>5 DEF CacheInv

\* What the runs check of the cache follows from its invariant.
LEMMA CacheInvImplies ==
    ASSUME Cache!Parameters, CacheInv
    PROVE  Cache!LoadsAreFaithful /\ Cache!DepsAreFaithful /\ Cache!ParsingIsBounded
  <1>1. Cache!LoadsAreFaithful /\ Cache!DepsAreFaithful
    BY DEF CacheInv, LoadInv, ResultInv
  <1>2. \A m, n \in DOMAIN parses : parses[m].file = parses[n].file => m = n
    <2>1. DOMAIN parses = 1 .. Len(parses)
      BY LenProperties DEF CacheInv, Cache!TypeOK
    <2>. QED  BY <2>1 DEF CacheInv, ParsedOnce
  <1>3. Cardinality({g \in File : calls[g] # <<>> /\ Cache!Last(calls[g]).pc = "parse"}) <= MaxProcs
    <2>. DEFINE P == {g \in File : calls[g] # <<>> /\ Cache!Last(calls[g]).pc = "parse"}
    <2>1. P \subseteq holders
      BY DEF CacheInv, SlotsInv, Cache!Last
    <2>2. IsFiniteSet(holders) /\ Cardinality(holders) <= MaxProcs /\ Cardinality(holders) \in Nat
      BY FS_CardinalityType DEF CacheInv, SlotsInv
    <2>. HIDE DEF P
    <2>3. Cardinality(P) \in Nat /\ Cardinality(P) <= Cardinality(holders)
      BY <2>1, <2>2, FS_Subset, FS_CardinalityType
    <2>4. Cardinality(P) <= MaxProcs
      BY <2>2, <2>3 DEF Cache!Parameters
    <2>. QED  BY <2>4 DEF P
  <1>4. Cache!Bytes({p \in Range(parses) : p.by # p.file}) <= InlineBudget
    <2>. DEFINE T == {p \in Range(parses) : p.by # p.file}
    <2>1. T \in SUBSET Admitted
      BY DEF Admitted
    <2>. HIDE DEF T
    <2>2. IsFiniteSet(Admitted) /\ \A p \in Admitted : Weight[p] \in Nat
      BY AdmittedType DEF CacheInv, BudgetInv
    <2>3. /\ SumOver(Weight, T) <= SumOver(Weight, Admitted)
          /\ SumOver(Weight, T) \in Nat /\ SumOver(Weight, Admitted) \in Nat
      <3>1. IsFiniteSet(T) /\ \A p \in T : Weight[p] \in Nat
        BY <2>1, <2>2, FS_Subset
      <3>. QED  BY <2>1, <2>2, <3>1, SumOverSubset, SumOverType
    <2>4. SumOver(Weight, Admitted) <= InlineBudget /\ InlineBudget \in Nat
      BY BytesIsSum DEF CacheInv, BudgetInv, Cache!Parameters
    <2>5. SumOver(Weight, T) <= InlineBudget
      BY <2>3, <2>4
    <2>. QED  BY <2>5, BytesIsSum DEF T
  <1>5. Cache!ParsingIsBounded
    BY <1>2, <1>3, <1>4, CountsAlike, RangesAlike DEF Cache!ParsingIsBounded
  <1>. QED  BY <1>1, <1>5

\* Whatever the consumer loads, and whenever it loads it or changes what it was
\* given, the cache keeps its invariant.
THEOREM CacheIsInvariant ==
    ASSUME Cache!Parameters
    PROVE  CacheSpec => []CacheInv
  <1>1. Cache!Init => CacheInv
    BY CacheInvInit
  <1>2. CacheInv /\ [CacheNext]_(Cache!vars) => CacheInv'
    BY CacheInvStep
  <1>. QED  BY <1>1, <1>2, PTL DEF CacheSpec

\* Loads return what ParseFile makes of the file, files are parsed once, the imports
\* gone on to are the file's, and the bounds on parsing hold, for any consumer.
THEOREM CacheIsFaithful ==
    ASSUME Cache!Parameters
    PROVE  CacheSpec => [](Cache!LoadsAreFaithful /\ Cache!DepsAreFaithful /\ Cache!ParsingIsBounded)
  <1>1. CacheInv => Cache!LoadsAreFaithful /\ Cache!DepsAreFaithful /\ Cache!ParsingIsBounded
    BY CacheInvImplies
  <1>. QED  BY <1>1, CacheIsInvariant, PTL

-------------------------------------------------------------------------------
(* The pipeline's consumer is one of those. *)

LEMMA CacheMoves == [Next]_vars => [CacheNext]_(Cache!vars)
  <1>. SUFFICES ASSUME [Next]_vars PROVE [CacheNext]_(Cache!vars)
    OBVIOUS
  <1>1. CASE CacheStep
    BY <1>1 DEF CacheStep, CacheNext
  <1>2. CASE Prefetch \/ EndLoad \/ \E f \in File : BeginLoad(f) \/ Touch(f)
    BY <1>2 DEF Prefetch, EndLoad, BeginLoad, Touch, CacheNext
  <1>3. CASE \E f \in File : UseLoaded(f)
    <2>1. Forget
      BY <1>3 DEF UseLoaded, Walk!RejectLoaded, Walk!EnterLoaded, cacheVars, Forget, Cache!cacheVars
    <2>. QED  BY <2>1 DEF CacheNext
  <1>4. CASE UNCHANGED <<job, cacheVars, consumerVars>>
    BY <1>4 DEF cacheVars, consumerVars, Cache!vars, Cache!cacheVars
  <1>5. CASE Adopt \/ StartWalk \/ WalkOn \/ Finished \/ UNCHANGED vars
    <2>1. UNCHANGED <<job, cacheVars, consumerVars>>
      BY <1>5 DEF Adopt, StartWalk, WalkOn, Finished, vars, Walk!Adopt, Walk!StartWalk,
         Walk!ReportCycle, Walk!Reuse, Walk!Complete, Walk!Finish, Walk!FailSelfImport,
         Walk!FailImports, Walk!EndWalk
    <2>. QED  BY <1>4, <2>1
  <1>. QED  BY <1>1, <1>2, <1>3, <1>5 DEF Next, Consumer

LEMMA CacheInvariance == Spec => []CacheInv
  <1>1. Spec => CacheSpec
    <2>1. Init => Cache!Init
      BY DEF Init
    <2>. QED  BY <2>1, CacheMoves, PTL DEF Spec, CacheSpec
  <1>2. CacheSpec => []CacheInv
    BY CacheAssumption, CacheIsInvariant
  <1>. QED  BY <1>1, <1>2, PTL

\* However the workers and the consumer interleave, a load returns what ParseFile
\* makes of the file, and a worker goes on to the imports the file has.
THEOREM PipelineLoadsAreFaithful == Spec => []LoadsAreFaithful
  <1>1. CacheInv => LoadsAreFaithful
    BY DEF CacheInv, LoadInv, ResultInv, LoadsAreFaithful
  <1>. QED  BY <1>1, CacheInvariance, PTL

\* A file is parsed once, no more goroutines parse than there are slots, and what is
\* parsed on the calling goroutines stays within the budget.
THEOREM PipelineParsingIsBounded == Spec => []ParsingIsBounded
  <1>1. CacheInv => ParsingIsBounded
    BY CacheAssumption, CacheInvImplies DEF ParsingIsBounded
  <1>. QED  BY <1>1, CacheInvariance, PTL

-------------------------------------------------------------------------------
(* The pipeline takes only the steps of the sequential walk. *)

\* A step of the walk, or one that the walk does not see.
LEMMA WalkStep ==
    ASSUME LoadsAreFaithful, [Next]_vars
    PROVE  [Walk!Next]_(Walk!vars)
  <1>1. CASE CacheStep
    BY <1>1 DEF CacheStep, walkVars, Walk!vars, Cache!Step, Cache!WorkerStarts
  <1>2. CASE Adopt \/ StartWalk
    BY <1>2 DEF Adopt, StartWalk, Walk!Next
  <1>3. CASE Prefetch \/ EndLoad \/ \E f \in File : BeginLoad(f) \/ Touch(f)
    BY <1>3 DEF Prefetch, EndLoad, BeginLoad, Touch, walkVars, Walk!vars,
       Cache!PrefetchRequested, Cache!EndLoad, Cache!BeginLoad, Cache!Touch
  <1>4. ASSUME NEW f \in File, UseLoaded(f) PROVE Walk!Next
    <2>1. load.value = job.content[f]
      BY <1>4 DEF UseLoaded, LoadsAreFaithful, Cache!LoadsAreFaithful
    <2>2. Walk!ReportUnusable(f) \/ Walk!Descend(f)
      BY <1>4, <2>1 DEF UseLoaded, Walk!ReportUnusable, Walk!Descend
    <2>. QED  BY <2>2 DEF Walk!Next, Walk!Call
  <1>5. CASE WalkOn
    BY <1>5 DEF WalkOn, Walk!Next, Walk!Call
  <1>6. CASE Finished \/ UNCHANGED vars
    BY <1>6 DEF Finished, vars, walkVars, Walk!vars
  <1>. QED  BY <1>1, <1>2, <1>3, <1>4, <1>5, <1>6 DEF Next, Consumer

\* "Doing them early cannot change what parseRecursive observes": with the workers
\* parsing ahead of it, the walk starts as the sequential one and takes its steps.
THEOREM PipelineIsSequentialWalk == Spec => Walk!Safety
  <1>1. Init => Walk!Init
    BY DEF Init
  <1>. QED  BY <1>1, WalkStep, PipelineLoadsAreFaithful, PTL DEF Spec, Walk!Safety

-------------------------------------------------------------------------------
(* So it has what is proved of the sequential walk. *)

\* ImportWalk_proofs speaks of the walk that ImportWalk defines.
LEMMA SameWalk == Walk!Safety => WalkProofs!Safety
  <1>1. Walk!Adopt => WalkProofs!Adopt
    BY DEF Walk!Adopt,
           WalkProofs!Adopt
  <1>2. Walk!StartWalk => WalkProofs!StartWalk
    BY DEF Walk!StartWalk,
           WalkProofs!StartWalk
  <1>3. ASSUME NEW f PROVE Walk!ReportCycle(f) => WalkProofs!ReportCycle(f)
    BY DEF Walk!ReportCycle, Walk!Calls, Walk!Top, Walk!ImportStack, Walk!CycleChain,
           Walk!Return,
           WalkProofs!ReportCycle, WalkProofs!Calls, WalkProofs!Top,
           WalkProofs!ImportStack, WalkProofs!CycleChain, WalkProofs!Return
  <1>4. ASSUME NEW f PROVE Walk!Reuse(f) => WalkProofs!Reuse(f)
    BY DEF Walk!Reuse, Walk!Calls, Walk!Top, Walk!ImportStack, Walk!Return,
           WalkProofs!Reuse, WalkProofs!Calls, WalkProofs!Top, WalkProofs!ImportStack,
           WalkProofs!Return
  <1>5. ASSUME NEW f PROVE Walk!ReportUnusable(f) => WalkProofs!ReportUnusable(f)
    BY DEF Walk!ReportUnusable, Walk!RejectLoaded, Walk!Calls, Walk!Top, Walk!ImportStack,
           Walk!Return,
           WalkProofs!ReportUnusable, WalkProofs!RejectLoaded, WalkProofs!Calls,
           WalkProofs!Top, WalkProofs!ImportStack, WalkProofs!Return
  <1>6. ASSUME NEW f PROVE Walk!Descend(f) => WalkProofs!Descend(f)
    BY DEF Walk!Descend, Walk!EnterLoaded, Walk!Calls, Walk!Top, Walk!ImportStack,
           WalkProofs!Descend, WalkProofs!EnterLoaded, WalkProofs!Calls, WalkProofs!Top,
           WalkProofs!ImportStack
  <1>7. Walk!Complete => WalkProofs!Complete
    BY DEF Walk!Complete, Walk!Finish, Walk!FailSelfImport, Walk!FailImports,
           Walk!ImportsDone, Walk!Top, Walk!Below, Walk!Return,
           WalkProofs!Complete, WalkProofs!Finish, WalkProofs!FailSelfImport,
           WalkProofs!FailImports, WalkProofs!ImportsDone, WalkProofs!Top,
           WalkProofs!Below, WalkProofs!Return
  <1>8. Walk!EndWalk => WalkProofs!EndWalk
    BY DEF Walk!EndWalk,
           WalkProofs!EndWalk
  <1>9. Walk!Terminated => WalkProofs!Terminated
    BY DEF Walk!Terminated, Walk!vars,
           WalkProofs!Terminated, WalkProofs!vars
  <1>10. [Walk!Next]_(Walk!vars) => [WalkProofs!Next]_(WalkProofs!vars)
    BY <1>1, <1>2, <1>3, <1>4, <1>5, <1>6, <1>7, <1>8, <1>9
    DEF Walk!Next, Walk!Call, Walk!vars, WalkProofs!Next, WalkProofs!Call, WalkProofs!vars
  <1>11. Walk!Init => WalkProofs!Init
    BY DEF Walk!Init, WalkProofs!Init
  <1>. QED  BY <1>10, <1>11, PTL DEF Walk!Safety, WalkProofs!Safety

\* The outcome of a compilation does not depend on the scheduling of the workers:
\* orderedFiles is topological and without duplicates, a successful compilation
\* delivers the files the request needs and no others, it succeeds exactly when the
\* request can be satisfied, and the cycles it reports exist.
THEOREM PipelineDelivers ==
    Spec => [](/\ Walk!Topological /\ Walk!OrderedOnce /\ Walk!Verdict
               /\ Walk!Delivered /\ Walk!CycleChainsAreReal)
  <1>1. Spec => WalkProofs!Safety
    BY PipelineIsSequentialWalk, SameWalk
  <1>2. WalkProofs!Safety => [](/\ WalkProofs!Topological /\ WalkProofs!OrderedOnce
                                /\ WalkProofs!Verdict /\ WalkProofs!Delivered
                                /\ WalkProofs!CycleChainsAreReal)
    <2>. WalkProofs!JobsAssumption
      BY CacheAssumption DEF WalkProofs!JobsAssumption, WalkProofs!Job, WalkProofs!Content,
         Cache!Parameters, Cache!Job, Cache!Content
    <2>1. WalkProofs!Safety => []WalkProofs!Topological
      BY WalkProofs!OrderIsTopological
    <2>2. WalkProofs!Safety => []WalkProofs!OrderedOnce
      BY WalkProofs!OrderHasNoDuplicates
    <2>3. WalkProofs!Safety => []WalkProofs!Verdict
      BY WalkProofs!VerdictIsRight
    <2>4. WalkProofs!Safety => []WalkProofs!Delivered
      BY WalkProofs!DeliveryIsComplete
    <2>5. WalkProofs!Safety => []WalkProofs!CycleChainsAreReal
      BY WalkProofs!CyclesAreReal
    <2>. QED  BY <2>1, <2>2, <2>3, <2>4, <2>5, PTL
  <1>3. /\ WalkProofs!Topological => Walk!Topological
        /\ WalkProofs!OrderedOnce => Walk!OrderedOnce
    BY DEF Walk!Topological, Walk!OrderedOnce, Walk!Precedes, Walk!Range, Walk!Preloaded,
           Walk!IsInjective,
           WalkProofs!Topological, WalkProofs!OrderedOnce, WalkProofs!Precedes,
           WalkProofs!Range, WalkProofs!Preloaded, WalkProofs!IsInjective
  <1>4. /\ WalkProofs!Verdict => Walk!Verdict
        /\ WalkProofs!Delivered => Walk!Delivered
    BY DEF Walk!Verdict, Walk!Delivered, Walk!Clean, Walk!Needed, Walk!Preloaded,
           Walk!OnCycle, Walk!Descendants, Walk!Closed, Walk!Expand, Walk!Range,
           WalkProofs!Verdict, WalkProofs!Delivered, WalkProofs!Clean, WalkProofs!Needed,
           WalkProofs!Preloaded, WalkProofs!OnCycle, WalkProofs!Descendants,
           WalkProofs!Closed, WalkProofs!Expand, WalkProofs!Range
  <1>5. WalkProofs!CycleChainsAreReal => Walk!CycleChainsAreReal
    BY DEF Walk!CycleChainsAreReal, Walk!Expand, Walk!Preloaded, Walk!Range,
           WalkProofs!CycleChainsAreReal, WalkProofs!Expand, WalkProofs!Preloaded,
           WalkProofs!Range
  <1>. QED  BY <1>1, <1>2, <1>3, <1>4, <1>5, PTL
===============================================================================
