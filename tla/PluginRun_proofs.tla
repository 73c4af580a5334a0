----------------------------- MODULE PluginRun_proofs -----------------------------
(***************************************************************************)
(* Proofs about the plugin loop, for every command line, every response,   *)
(* every program a plugin may be and every size of pipe.                   *)
(***************************************************************************)
EXTENDS PluginRun, ProofLemmas

-------------------------------------------------------------------------------
(* The inductive invariant of the exchange with a plugin. *)

\* Where the caller is says how far the plugin has got at least, and what has been
\* written is what has been read and what is still in the pipe.
ExchangeInv ==
    /\ Exchange!TypeOK
    /\ received + stdout = written
    /\ call \in {"start", "write", "read", "wait"} => result = "none"
    /\ call = "start" => child = "none"
    /\ call \in {"write", "read", "wait"} => child \in {"running", "exited"}
    /\ call = "wait" => closedOut /\ stdout = 0
    /\ child = "exited" => status # "none" /\ closedOut
    /\ child # "none" /\ call \in {"idle", "returned"} => result # "none"
    /\ Exchange!ResponseIsWhole
    /\ Exchange!ReapedUnlessWriteFailed

LEMMA ExchangeInvCall ==
    ASSUME ExchangeInv, NEW program \in Exchange!Program, Exchange!Call(program)
    PROVE  ExchangeInv'
  <1>1. /\ program.kind \in Exchange!Kind /\ program.request \in Nat /\ program.response \in Nat
    BY PipeAssumption DEF Exchange!Program
  <1>2. /\ 0 \in 0 .. PipeCapacity /\ 0 \in 0 .. program.response
        /\ program.request \in 0 .. program.request
    BY <1>1, PipeAssumption
  <1>3. Exchange!TypeOK'
    BY <1>1, <1>2 DEF Exchange!Call, Exchange!TypeOK, Exchange!Result
  <1>. QED  BY <1>3 DEF ExchangeInv, Exchange!Call, Exchange!ResponseIsWhole,
                        Exchange!ReapedUnlessWriteFailed

LEMMA ExchangeInvReturn ==
    ASSUME ExchangeInv, Exchange!Return
    PROVE  ExchangeInv'
  BY DEF ExchangeInv, Exchange!Return, Exchange!TypeOK, Exchange!childVars,
         Exchange!ResponseIsWhole, Exchange!ReapedUnlessWriteFailed

LEMMA ExchangeInvWithin ==
    ASSUME ExchangeInv, Exchange!Within
    PROVE  ExchangeInv'
  <1>. USE PipeAssumption DEF ExchangeInv, Exchange!TypeOK, Exchange!Result,
           Exchange!ResponseIsWhole, Exchange!ReapedUnlessWriteFailed,
           Exchange!callerVars, Exchange!childVars, Exchange!ReturnWith, Exchange!Running
  <1>1. CASE Exchange!Start
    BY <1>1 DEF Exchange!Start
  <1>2. CASE Exchange!WriteRequest
    BY <1>2 DEF Exchange!WriteRequest
  <1>3. CASE Exchange!WriteFails
    BY <1>3 DEF Exchange!WriteFails
  <1>4. CASE Exchange!CloseStdin
    BY <1>4 DEF Exchange!CloseStdin
  <1>5. CASE Exchange!ReadOutput
    BY <1>5 DEF Exchange!ReadOutput
  <1>6. CASE Exchange!ReadEOF
    BY <1>6 DEF Exchange!ReadEOF
  <1>7. CASE Exchange!Wait
    BY <1>7 DEF Exchange!Wait
  <1>8. CASE Exchange!ReadInput
    BY <1>8 DEF Exchange!ReadInput
  <1>9. CASE Exchange!SeeEOF
    BY <1>9 DEF Exchange!SeeEOF
  <1>10. CASE Exchange!WriteOutput
    BY <1>10 DEF Exchange!WriteOutput
  <1>11. CASE Exchange!StopReading
    BY <1>11 DEF Exchange!StopReading
  <1>12. CASE Exchange!CloseOutput
    BY <1>12 DEF Exchange!CloseOutput
  <1>13. CASE Exchange!Exit
    BY <1>13 DEF Exchange!Exit
  <1>. QED  BY <1>1, <1>2, <1>3, <1>4, <1>5, <1>6, <1>7, <1>8, <1>9, <1>10, <1>11, <1>12, <1>13
            DEF Exchange!Within, Exchange!Caller, Exchange!Plugin

-------------------------------------------------------------------------------
(* The loop around it. *)

\* The loop waits while a plugin is called, and only goes on from a response.
LoopInv ==
    /\ ExchangeInv
    /\ run \in Runs
    /\ call # "idle" => ToRun
    /\ pc \in {"collect", "write"} => result = "response" /\ child = "reaped"

LEMMA LoopInvStep ==
    ASSUME LoopInv, [LoopNext]_allVars
    PROVE  LoopInv'
  <1>1. CASE CallPlugin
    <2>1. PICK program \in Programs[run] : Exchange!Call(program)
      BY <1>1 DEF CallPlugin
    <2>2. program \in Exchange!Program
      BY <2>1, ProgramsAssumption DEF LoopInv
    <2>3. ExchangeInv'
      BY <2>1, <2>2, ExchangeInvCall DEF LoopInv
    <2>. QED  BY <1>1, <2>3 DEF CallPlugin, LoopInv, ToRun, ThePlugin, loopVars, vars
  <1>2. CASE Within
    <2>1. ExchangeInv'
      BY <1>2, ExchangeInvWithin DEF Within, LoopInv
    <2>2. pc \notin {"collect", "write"}
      <3>. SUFFICES ASSUME pc \in {"collect", "write"} PROVE FALSE
        OBVIOUS
      <3>1. child = "reaped" /\ call = "idle"
        BY DEF LoopInv, ToRun
      <3>. QED  BY <1>2, <3>1 DEF Within, Exchange!Within, Exchange!Caller, Exchange!Plugin,
              Exchange!Start, Exchange!WriteRequest, Exchange!WriteFails, Exchange!CloseStdin,
              Exchange!ReadOutput, Exchange!ReadEOF, Exchange!Wait, Exchange!ReadInput,
              Exchange!SeeEOF, Exchange!WriteOutput, Exchange!StopReading, Exchange!CloseOutput,
              Exchange!Exit, Exchange!Running
    <2>3. call = "idle" => call' = "idle"
      BY <1>2 DEF Within, Exchange!Within, Exchange!Caller, Exchange!Plugin,
              Exchange!Start, Exchange!WriteRequest, Exchange!WriteFails, Exchange!CloseStdin,
              Exchange!ReadOutput, Exchange!ReadEOF, Exchange!Wait, Exchange!ReadInput,
              Exchange!SeeEOF, Exchange!WriteOutput, Exchange!StopReading, Exchange!CloseOutput,
              Exchange!Exit, Exchange!callerVars
    <2>. QED  BY <1>2, <2>1, <2>2, <2>3 DEF Within, LoopInv, ToRun, ThePlugin, loopVars, vars
  <1>3. CASE ReturnAnswer
    <2>1. ExchangeInv' /\ call' = "idle" /\ result' = "response" /\ child' = "reaped"
      BY <1>3, ExchangeInvReturn DEF ReturnAnswer, LoopInv, ExchangeInv, Exchange!Return,
         Exchange!ResponseIsWhole, Exchange!childVars
    <2>. QED  BY <1>3, <2>1 DEF ReturnAnswer, TakeResponse, LoopInv
  <1>4. CASE ReturnError
    <2>1. ExchangeInv' /\ call' = "idle"
      BY <1>4, ExchangeInvReturn DEF ReturnError, LoopInv, Exchange!Return
    <2>. QED  BY <1>4, <2>1 DEF ReturnError, PluginFails, Stop, LoopInv
  <1>5. CASE LoopStep
    <2>1. UNCHANGED exchangeVars /\ call = "idle" /\ run' = run
      BY <1>5 DEF LoopStep, Outside, SkipPlugin, AllPluginsRun, StartChunk, ContinueChunk,
         EndResponse, RefuseCollected, WriteFile, AllWritten, WriteArchive
    <2>2. ExchangeInv'
      BY <2>1 DEF LoopInv, ExchangeInv, exchangeVars, Exchange!TypeOK, Exchange!ResponseIsWhole,
         Exchange!ReapedUnlessWriteFailed
    <2>3. pc' \in {"collect", "write"} => pc \in {"collect", "write"}
      BY <1>5 DEF LoopStep, SkipPlugin, AllPluginsRun, StartChunk, ContinueChunk, EndResponse,
         RefuseCollected, WriteFile, AllWritten, WriteArchive, Stop, NextPlugin
    <2>. QED  BY <2>1, <2>2, <2>3 DEF LoopInv, exchangeVars
  <1>6. CASE UNCHANGED allVars
    BY <1>6 DEF allVars, loopVars, vars, exchangeVars, LoopInv, ExchangeInv, ToRun, ThePlugin,
       Exchange!TypeOK, Exchange!ResponseIsWhole, Exchange!ReapedUnlessWriteFailed
  <1>. QED  BY <1>1, <1>2, <1>3, <1>4, <1>5, <1>6 DEF LoopNext

\* Between the calls of RunPluginCommand nothing is under way, and within one it is the
\* plugin's that the loop is at, with an answer that is whole if one was taken.
THEOREM LoopInvariance == LoopSpec => []LoopInv
  <1>1. LoopInit => LoopInv
    <2>. SUFFICES ASSUME Init, Exchange!Init PROVE LoopInv
      BY DEF LoopInit
    <2>1. Exchange!TypeOK
      <3>1. 0 \in 0 .. PipeCapacity /\ 0 \in 0 .. 0 /\ 0 \in Nat
        BY PipeAssumption
      <3>2. kind \in Exchange!Kind /\ result \in Exchange!Result
        BY DEF Exchange!Init, Exchange!Kind, Exchange!Result
      <3>. QED  BY <3>1, <3>2 DEF Exchange!Init, Exchange!TypeOK
    <2>2. ExchangeInv
      BY <2>1 DEF Exchange!Init, ExchangeInv, Exchange!ResponseIsWhole,
                  Exchange!ReapedUnlessWriteFailed
    <2>. QED  BY <2>2 DEF Init, Exchange!Init, LoopInv
  <1>2. LoopInv /\ [LoopNext]_allVars => LoopInv'
    BY LoopInvStep
  <1>. QED  BY <1>1, <1>2, PTL DEF LoopSpec

\* A response is collected and written only when its plugin has ended well, has been
\* waited for, and all it wrote has been read; and only a plugin that could not be
\* sent its request is left running.
THEOREM ResponsesAreWhole == LoopSpec => []OnlyWholeResponses
  <1>1. LoopInv => OnlyWholeResponses
    BY DEF LoopInv, ExchangeInv, OnlyWholeResponses
  <1>. QED  BY <1>1, LoopInvariance, PTL

\* The loop with its two processes and pipes runs as the loop of PluginOutput does, in which
\* running a plugin is one step: it has the same actions, so that what is proved of these
\* alone holds of it.
LEMMA LoopRunsOutput == LoopSpec => Spec
  <1>1. LoopInit => Init
    BY DEF LoopInit
  <1>2. [LoopNext]_allVars => [Next]_vars
    <2>. SUFFICES ASSUME [LoopNext]_allVars PROVE Next \/ UNCHANGED vars
      OBVIOUS
    <2>1. CASE CallPlugin \/ Within \/ UNCHANGED allVars
      BY <2>1 DEF CallPlugin, Within, allVars, loopVars
    <2>2. CASE ReturnAnswer \/ ReturnError
      BY <2>2 DEF ReturnAnswer, ReturnError, Next
    <2>3. CASE LoopStep
      BY <2>3 DEF LoopStep, Next
    <2>. QED  BY <2>1, <2>2, <2>3 DEF LoopNext
  <1>. QED  BY <1>1, <1>2, PTL DEF LoopSpec, Spec

-------------------------------------------------------------------------------
(* What has been collected, told by the entries of the response alone. *)

\* The text has a line marked with the point.
Marks(content, point) == \E i \in 1 .. Len(content) : content[i].mark = point

\* The chunk of entry h cannot be applied: the last part of IllFormed.
Misplaced(h) ==
    LET n == Entries[h].name
        seen == \E k \in Heads : k < h /\ Entries[k].name = n
    IN  IF Entries[h].point = NoPoint
        THEN seen
        ELSE ~seen \/ ~MarkedBefore(h, n, Entries[h].point)

\* The chunks before entry m have been applied, and nothing else: the files are
\* those they name, an error is on record just when one of them was misplaced, and
\* without one a file has the points that its entries have brought.
Replayed(m) ==
    /\ order \in Seq(AnyName) /\ Range(order) = DOMAIN files
    /\ DOMAIN files = {Entries[h].name : h \in {g \in Heads : g < m}}
    /\ \A n \in DOMAIN files : files[n] \in Seq(Line)
    /\ hadError \in BOOLEAN
    /\ hadError <=> \E h \in Heads : h < m /\ Misplaced(h)
    /\ ~hadError => \A n \in DOMAIN files : \A point \in AnyPoint :
          Marks(files[n], point) <=>
             \E k \in 1 .. Len(Entries) : k < m /\ FileOf(k) = n /\ Marks(Entries[k].data, point)

\* The current chunk is that of entry h and those up to entry k that continue it.
Accumulated(h, k) ==
    /\ current \in Entry
    /\ current.name = Entries[h].name /\ current.point = Entries[h].point
    /\ \A point \in AnyPoint :
          Marks(current.data, point) <=> \E j \in h .. k : Marks(Entries[j].data, point)

\* h is the last entry up to k that starts a chunk.
LastHead(h, k) == h <= k /\ \A g \in Heads : g <= k => g <= h

\* A response is replayed entry by entry, one chunk behind.
CollectInv ==
    \/ at = 0 /\ current = NoChunk /\ Replayed(1)
    \/ /\ 1 \in Heads
       /\ \E k \in 1 .. Len(Entries) : \E h \in Heads :
             at = k /\ LastHead(h, k) /\ Replayed(h) /\ Accumulated(h, k)

\* At its end all of it has been replayed.
AllReplayed ==
    /\ \E m \in Nat : m = Len(Entries) + 1 /\ Replayed(m)
    /\ Entries # <<>> => 1 \in Heads

OutputInv ==
    /\ run \in Run /\ p \in Nat \ {0} /\ at \in Nat
    /\ pc \in {"plugin", "collect", "write", "done"}
    /\ pc \in {"collect", "write"} => p <= Len(run.plugins)
    /\ pc = "collect" => CollectInv
    /\ pc = "write" => AllReplayed

-------------------------------------------------------------------------------
LEMMA EntriesType ==
    ASSUME run \in Run, p \in Nat \ {0}, p <= Len(run.plugins)
    PROVE  /\ Entries \in Seq(Entry)
           /\ Len(Entries) \in Nat /\ DOMAIN Entries = 1 .. Len(Entries)
           /\ \A k \in 1 .. Len(Entries) :
                 /\ Entries[k] \in Entry
                 /\ Entries[k].data \in Seq(Line)
                 /\ DOMAIN Entries[k].data = 1 .. Len(Entries[k].data)
           /\ Heads \subseteq 1 .. Len(Entries)
  <1>1. run.plugins \in Seq(Plugin) /\ Len(run.plugins) \in Nat
    BY LenProperties DEF Run
  <1>2. ThePlugin \in Plugin
    BY <1>1, ElementOfSeq DEF ThePlugin
  <1>3. Entries \in Seq(Entry)
    BY <1>2 DEF Plugin, Entries
  <1>4. /\ Len(Entries) \in Nat /\ DOMAIN Entries = 1 .. Len(Entries)
        /\ \A k \in 1 .. Len(Entries) : Entries[k] \in Entry
    BY <1>3, LenProperties, ElementOfSeq
  <1>5. \A k \in 1 .. Len(Entries) : Entries[k].data \in Seq(Line)
    BY <1>4 DEF Entry
  <1>. QED  BY <1>3, <1>4, <1>5, LenProperties DEF Heads, HeadsIn

\* A response does not change.
LEMMA Static ==
    ASSUME run' = run, p' = p
    PROVE  /\ ThePlugin' = ThePlugin /\ Entries' = Entries /\ Heads' = Heads /\ Where' = Where
           /\ \A k : HeadOf(k)' = HeadOf(k) /\ FileOf(k)' = FileOf(k) /\ PointOf(k)' = PointOf(k)
           /\ \A h : Misplaced(h)' = Misplaced(h)
  <1>1. ThePlugin' = ThePlugin /\ Entries' = Entries /\ Heads' = Heads /\ Where' = Where
    BY DEF ThePlugin, Entries, Heads, HeadsIn, Where
  <1>2. \A k : HeadOf(k)' = HeadOf(k)
    BY <1>1 DEF HeadOf
  <1>3. \A k : FileOf(k)' = FileOf(k) /\ PointOf(k)' = PointOf(k)
    BY <1>1, <1>2 DEF FileOf, PointOf
  <1>4. \A h : Misplaced(h)' = Misplaced(h)
    BY <1>1, <1>3 DEF Misplaced, MarkedBefore, Brings
  <1>. QED  BY <1>1, <1>2, <1>3, <1>4

\* Every entry belongs to the last entry before it that has a name or a point.
LEMMA HeadOfEntry ==
    ASSUME run \in Run, p \in Nat \ {0}, p <= Len(run.plugins),
           1 \in Heads, NEW k \in 1 .. Len(Entries)
    PROVE  /\ HeadOf(k) \in Heads /\ HeadOf(k) <= k /\ HeadOf(k) \in Nat
           /\ \A h \in Heads : h <= k => h <= HeadOf(k)
  <1>. DEFINE S == {h \in Heads : h <= k}
  <1>1. S \in SUBSET Nat /\ 1 \in S /\ k \in Nat
    BY EntriesType
  <1>2. \E m \in S : \A n \in S : n <= m
    <2>1. \A n \in S : n <= k
      OBVIOUS
    <2>. HIDE DEF S
    <2>. QED  BY <1>1, <2>1, GreatestNat
  <1>3. \E m \in S : \A n \in S : m >= n
    BY <1>1, <1>2
  <1>4. HeadOf(k) = CHOOSE m \in S : \A n \in S : m >= n
    BY DEF HeadOf, Max
  <1>5. HeadOf(k) \in S /\ \A n \in S : HeadOf(k) >= n
    <2>. HIDE DEF S
    <2>. QED  BY <1>3, <1>4
  <1>. QED  BY <1>1, <1>5

LEMMA HeadOfUnique ==
    ASSUME run \in Run, p \in Nat \ {0}, p <= Len(run.plugins), 1 \in Heads,
           NEW k \in 1 .. Len(Entries), NEW h \in Heads, h <= k,
           \A g \in Heads : g <= k => g <= h
    PROVE  HeadOf(k) = h
  BY HeadOfEntry, EntriesType

\* The lines of two texts joined are the lines of both.
LEMMA ConcatMarks ==
    ASSUME NEW a \in Seq(Line), NEW b \in Seq(Line)
    PROVE  /\ a \o b \in Seq(Line)
           /\ \A point : Marks(a \o b, point) <=> Marks(a, point) \/ Marks(b, point)
  <1>1. /\ a \o b \in Seq(Line) /\ Len(a \o b) = Len(a) + Len(b)
        /\ \A k \in 1 .. Len(a) + Len(b) :
              (a \o b)[k] = IF k <= Len(a) THEN a[k] ELSE b[k - Len(a)]
    BY ConcatProperties
  <1>2. Len(a) \in Nat /\ Len(b) \in Nat
    BY LenProperties
  <1>. DEFINE s == a \o b
  <1>3. /\ Len(s) = Len(a) + Len(b)
        /\ \A k \in 1 .. Len(a) : k \in 1 .. Len(s) /\ s[k] = a[k]
        /\ \A k \in 1 .. Len(b) : Len(a) + k \in 1 .. Len(s) /\ s[Len(a) + k] = b[k]
        /\ \A k \in 1 .. Len(s) : k \notin 1 .. Len(a) =>
              k - Len(a) \in 1 .. Len(b) /\ s[k] = b[k - Len(a)]
    <2>1. \A k \in 1 .. Len(a) : k \in 1 .. Len(a) + Len(b) /\ k <= Len(a)
      BY <1>2
    <2>2. \A k \in 1 .. Len(b) : /\ Len(a) + k \in 1 .. Len(a) + Len(b) /\ ~ (Len(a) + k <= Len(a))
                                 /\ (Len(a) + k) - Len(a) = k
      BY <1>2
    <2>3. \A k \in 1 .. Len(a) + Len(b) : k \notin 1 .. Len(a) =>
              k - Len(a) \in 1 .. Len(b) /\ ~ (k <= Len(a))
      BY <1>2
    <2>. HIDE DEF s
    <2>4. /\ Len(s) = Len(a) + Len(b)
          /\ \A k \in 1 .. Len(a) + Len(b) : s[k] = IF k <= Len(a) THEN a[k] ELSE b[k - Len(a)]
      BY <1>1 DEF s
    <2>. QED  BY <2>1, <2>2, <2>3, <2>4
  <1>. HIDE DEF s
  <1>4. \A point : Marks(s, point) <=> Marks(a, point) \/ Marks(b, point)
    BY ZenonT(60), <1>3 DEF Marks
  <1>. QED  BY <1>1, <1>4 DEF s

\* insertAt keeps the lines of both texts, and their marks.
LEMMA SpliceMarks ==
    ASSUME NEW target \in Seq(Line), NEW i \in 1 .. Len(target), NEW data \in Seq(Line)
    PROVE  /\ Splice(target, i, data) \in Seq(Line)
           /\ \A point : Marks(Splice(target, i, data), point) <=>
                            Marks(target, point) \/ Marks(data, point)
  <1>. DEFINE a == SubSeq(target, 1, i - 1)
              b == [k \in 1 .. Len(data) |-> [indent |-> data[k].indent + target[i].indent,
                                              mark   |-> data[k].mark,
                                              from   |-> data[k].from]]
              c == SubSeq(target, i, Len(target))
  <1>1. /\ Len(target) \in Nat /\ Len(data) \in Nat
        /\ \A k \in 1 .. Len(target) : target[k] \in Line
        /\ \A k \in 1 .. Len(data) : data[k] \in Line
    BY LenProperties, ElementOfSeq
  <1>2. /\ a \in Seq(Line) /\ Len(a) = i - 1
        /\ \A k \in 1 .. i - 1 : a[k] = target[k]
    <2>1. \A k \in 1 .. i - 1 : target[k] \in Line
      BY <1>1
    <2>. QED  BY <1>1, <2>1, SubSeqProperties
  <1>3. /\ b \in Seq(Line) /\ Len(b) = Len(data)
        /\ \A k \in 1 .. Len(data) : b[k].mark = data[k].mark
    <2>1. ASSUME NEW k \in 1 .. Len(data)
          PROVE  b[k] \in Line /\ b[k].mark = data[k].mark
      <3>1. /\ data[k].indent \in Nat /\ target[i].indent \in Nat
            /\ data[k].mark \in AnyPoint /\ data[k].from \in Nat
        BY <1>1 DEF Line
      <3>2. data[k].indent + target[i].indent \in Nat
        BY <3>1
      <3>3. b[k] = [indent |-> data[k].indent + target[i].indent,
                    mark |-> data[k].mark, from |-> data[k].from]
        OBVIOUS
      <3>. HIDE DEF b
      <3>4. b[k].mark = data[k].mark
        BY <3>3
      <3>5. [indent |-> data[k].indent + target[i].indent,
             mark |-> data[k].mark, from |-> data[k].from] \in Line
        BY <3>1, <3>2 DEF Line
      <3>. QED  BY <3>3, <3>4, <3>5
    <2>2. \A k \in 1 .. Len(data) : b[k] \in Line
      BY <2>1
    <2>3. b = [k \in 1 .. Len(data) |-> b[k]]
      OBVIOUS
    <2>. HIDE DEF b
    <2>. QED  BY <1>1, <2>1, <2>2, <2>3
  <1>4. /\ c \in Seq(Line) /\ Len(c) = Len(target) - i + 1
        /\ \A k \in 1 .. Len(target) - i + 1 : c[k] = target[i + k - 1]
    BY <1>1, SubSeqProperties
  <1>5. Splice(target, i, data) = (a \o b) \o c
    BY DEF Splice
  <1>. HIDE DEF a, b, c
  <1>6. a \o b \in Seq(Line) /\ \A point : Marks(a \o b, point) <=> Marks(a, point) \/ Marks(b, point)
    BY <1>2, <1>3, ConcatMarks
  <1>7. /\ (a \o b) \o c \in Seq(Line)
        /\ \A point : Marks((a \o b) \o c, point) <=> Marks(a \o b, point) \/ Marks(c, point)
    BY <1>4, <1>6, ConcatMarks
  <1>8. \A point : Marks(b, point) <=> Marks(data, point)
    BY <1>3 DEF Marks
  <1>9. ASSUME NEW point PROVE Marks(target, point) <=> Marks(a, point) \/ Marks(c, point)
    <2>1. ASSUME NEW k \in 1 .. Len(target), target[k].mark = point
          PROVE  Marks(a, point) \/ Marks(c, point)
      <3>1. CASE k < i
        <4>1. k \in 1 .. Len(a) /\ a[k].mark = point
          BY <1>1, <1>2, <2>1, <3>1
        <4>. QED  BY <4>1 DEF Marks
      <3>2. CASE ~ (k < i)
        <4>. DEFINE m == k - i + 1
        <4>1. m \in 1 .. Len(target) - i + 1 /\ i + m - 1 = k
          BY <1>1, <3>2
        <4>2. m \in 1 .. Len(c) /\ c[m].mark = point
          BY <1>4, <2>1, <4>1
        <4>. QED  BY <4>2 DEF Marks
      <3>. QED  BY <3>1, <3>2
    <2>2. Marks(a, point) => Marks(target, point)
      <3>1. \A k \in 1 .. Len(a) : k \in 1 .. Len(target) /\ a[k] = target[k]
        BY <1>1, <1>2
      <3>. QED  BY <3>1 DEF Marks
    <2>3. Marks(c, point) => Marks(target, point)
      <3>1. \A k \in 1 .. Len(c) : i + k - 1 \in 1 .. Len(target) /\ c[k] = target[i + k - 1]
        BY <1>1, <1>4
      <3>. QED  BY <3>1 DEF Marks
    <2>. QED  BY <2>1, <2>2, <2>3 DEF Marks
  <1>. QED  BY <1>5, <1>6, <1>7, <1>8, <1>9

\* Before the chunk of entry h is applied, what stands in the files is told by the
\* entries before it.
LEMMA BeforeChunk ==
    ASSUME run \in Run, p \in Nat \ {0}, p <= Len(run.plugins), 1 \in Heads,
           NEW h \in Heads, NEW k \in h .. Len(Entries),
           \A g \in Heads : g <= k => g <= h,
           Replayed(h), Accumulated(h, k)
    PROVE  /\ h \in Nat /\ k \in Nat /\ current # NoChunk /\ current.data \in Seq(Line)
           /\ current.name \in AnyName /\ current.point \in AnyPoint
           /\ {g \in Heads : g < k + 1} = {g \in Heads : g < h} \cup {h}
           /\ \A j \in h .. k : FileOf(j) = current.name
           /\ \A j \in 1 .. Len(Entries) : j < h => FileOf(j) \in DOMAIN files
           /\ Present <=> \E g \in Heads : g < h /\ Entries[g].name = Entries[h].name
           /\ ~hadError => (Misplaced(h) <=>
                 IF current.point = NoPoint THEN Present
                 ELSE ~Present \/ ~Marks(files[current.name], current.point))
  <1>1. /\ h \in 1 .. Len(Entries) /\ h \in Nat /\ k \in Nat /\ Len(Entries) \in Nat
        /\ Heads \subseteq 1 .. Len(Entries) /\ h <= k /\ k <= Len(Entries)
        /\ DOMAIN Entries = 1 .. Len(Entries)
    BY EntriesType
  <1>2. /\ current # NoChunk /\ current.data \in Seq(Line)
        /\ current.name \in AnyName /\ current.point \in AnyPoint
        /\ current.name = Entries[h].name /\ current.point = Entries[h].point
    <2>1. current \in Entry /\ current.name = Entries[h].name /\ current.point = Entries[h].point
      BY DEF Accumulated
    <2>2. current.name # NoName \/ current.point # NoPoint
      BY <2>1 DEF Heads, HeadsIn
    <2>. QED  BY <2>1, <2>2 DEF Entry, NoChunk
  <1>3. {g \in Heads : g < k + 1} = {g \in Heads : g < h} \cup {h}
    <2>1. \A g \in Heads : g < k + 1 <=> g < h \/ g = h
      BY <1>1
    <2>. QED  BY <2>1
  <1>4. \A j \in h .. k : FileOf(j) = current.name
    <2>. SUFFICES ASSUME NEW j \in h .. k PROVE FileOf(j) = current.name
      OBVIOUS
    <2>1. j \in 1 .. Len(Entries) /\ h <= j /\ \A g \in Heads : g <= j => g <= h
      BY <1>1
    <2>2. HeadOf(j) = h
      BY <2>1, HeadOfUnique
    <2>. QED  BY <1>2, <2>2 DEF FileOf
  <1>5. \A j \in 1 .. Len(Entries) : j < h => FileOf(j) \in DOMAIN files
    <2>. SUFFICES ASSUME NEW j \in 1 .. Len(Entries), j < h PROVE FileOf(j) \in DOMAIN files
      OBVIOUS
    <2>1. HeadOf(j) \in Heads /\ HeadOf(j) < h
      BY <1>1, HeadOfEntry
    <2>. QED  BY <2>1 DEF FileOf, Replayed
  <1>6. Present <=> \E g \in Heads : g < h /\ Entries[g].name = Entries[h].name
    BY <1>2 DEF Present, Replayed
  <1>7. ASSUME ~hadError
        PROVE  Misplaced(h) <=> IF current.point = NoPoint THEN Present
                 ELSE ~Present \/ ~Marks(files[current.name], current.point)
    <2>. DEFINE seen == \E g \in Heads : g < h /\ Entries[g].name = Entries[h].name
    <2>1. Misplaced(h) <=> IF Entries[h].point = NoPoint THEN seen
                 ELSE ~seen \/ ~MarkedBefore(h, Entries[h].name, Entries[h].point)
      BY DEF Misplaced
    <2>2. Present => (MarkedBefore(h, current.name, current.point)
                        <=> Marks(files[current.name], current.point))
      <3>. SUFFICES ASSUME Present
             PROVE  MarkedBefore(h, current.name, current.point)
                        <=> Marks(files[current.name], current.point)
        OBVIOUS
      <3>1. Marks(files[current.name], current.point) <=>
              \E j \in 1 .. Len(Entries) : /\ j < h /\ FileOf(j) = current.name
                                           /\ Marks(Entries[j].data, current.point)
        BY <1>2, <1>7 DEF Present, Replayed
      <3>2. \A j \in 1 .. Len(Entries) : DOMAIN Entries[j].data = 1 .. Len(Entries[j].data)
        BY EntriesType
      <3>. QED  BY <1>1, <3>1, <3>2 DEF MarkedBefore, Brings, Marks
    <2>. HIDE DEF seen
    <2>3. Present <=> seen
      BY <1>6 DEF seen
    <2>. QED  BY <1>2, <2>1, <2>2, <2>3
  <1>. QED  BY <1>1, <1>2, <1>3, <1>4, <1>5, <1>6, <1>7

\* To apply a chunk is to have applied one more.
LEMMA ApplyChunk ==
    ASSUME run \in Run, p \in Nat \ {0}, p <= Len(run.plugins), 1 \in Heads,
           NEW h \in Heads, NEW k \in h .. Len(Entries),
           \A g \in Heads : g <= k => g <= h,
           Replayed(h), Accumulated(h, k),
           Flush, run' = run, p' = p
    PROVE  Replayed(k + 1)'
  <1>1. /\ h \in Nat /\ k \in Nat /\ current # NoChunk /\ current.data \in Seq(Line)
        /\ current.name \in AnyName /\ current.point \in AnyPoint
        /\ {g \in Heads : g < k + 1} = {g \in Heads : g < h} \cup {h}
        /\ \A j \in h .. k : FileOf(j) = current.name
        /\ \A j \in 1 .. Len(Entries) : j < h => FileOf(j) \in DOMAIN files
    BY BeforeChunk
  <1>2. ~hadError => (Misplaced(h) <=>
                 IF current.point = NoPoint THEN Present
                 ELSE ~Present \/ ~Marks(files[current.name], current.point))
    BY BeforeChunk
  <1>3. PlainWrite \/ Insertion
    BY <1>1 DEF Flush
  <1>4. /\ order \in Seq(AnyName) /\ Range(order) = DOMAIN files
        /\ DOMAIN files = {Entries[g].name : g \in {g \in Heads : g < h}}
        /\ \A n \in DOMAIN files : files[n] \in Seq(Line)
        /\ hadError \in BOOLEAN
        /\ hadError <=> \E g \in Heads : g < h /\ Misplaced(g)
    BY DEF Replayed
  <1>. DEFINE Effect(content) ==
         /\ DOMAIN files' = DOMAIN files \cup {current.name}
         /\ files'[current.name] = content
         /\ \A n \in DOMAIN files : n # current.name => files'[n] = files[n]
         /\ order' \in Seq(AnyName)
         /\ Range(order') = Range(order) \cup {current.name}
  <1>5. \E content \in Seq(Line) :
          /\ Effect(content)
          /\ hadError' \in BOOLEAN
          /\ hadError => hadError'
          /\ ~hadError => (hadError' <=> Misplaced(h))
          /\ ~hadError' => \A point \in AnyPoint :
                Marks(content, point) <=> \/ Present /\ Marks(files[current.name], point)
                                          \/ Marks(current.data, point)
    <2>1. <<>> \in Seq(Line)
      BY EmptySeq
    <2>2. /\ Append(order, current.name) \in Seq(AnyName)
          /\ Range(Append(order, current.name)) = Range(order) \cup {current.name}
      BY <1>1, <1>4, AppendRange, AppendProperties
    <2>3. \A content : Store(content) =>
             /\ DOMAIN files' = DOMAIN files \cup {current.name}
             /\ files'[current.name] = content
             /\ \A n \in DOMAIN files : n # current.name => files'[n] = files[n]
      BY DEF Store, With
    <2>4. CASE PlainWrite /\ Present
      <3>1. UNCHANGED <<files, order>> /\ hadError' = TRUE /\ current.point = NoPoint
        BY <2>4 DEF PlainWrite
      <3>2. Effect(files[current.name]) /\ files[current.name] \in Seq(Line)
        BY <1>4, <2>4, <3>1 DEF Present
      <3>. QED  BY <1>2, <2>4, <3>1, <3>2
    <2>5. CASE PlainWrite /\ ~Present
      <3>1. Effect(current.data) /\ hadError' = hadError /\ current.point = NoPoint
        BY <2>2, <2>3, <2>5 DEF PlainWrite
      <3>. QED  BY <1>1, <1>2, <1>4, <2>5, <3>1
    <2>6. CASE Insertion /\ ~Present
      <3>1. Effect(<<>>) /\ hadError' = TRUE /\ current.point # NoPoint
        BY <2>2, <2>3, <2>6 DEF Insertion
      <3>. QED  BY <1>2, <2>1, <2>6, <3>1
    <2>. DEFINE target == files[current.name]
    <2>7. ASSUME Present
          PROVE  /\ target \in Seq(Line) /\ DOMAIN target = 1 .. Len(target)
                 /\ Len(target) \in Nat
                 /\ Marked(current.point) # {} <=> Marks(target, current.point)
      <3>1. target \in Seq(Line) /\ DOMAIN target = 1 .. Len(target) /\ Len(target) \in Nat
        BY <1>4, <2>7, LenProperties DEF Present
      <3>. QED  BY <3>1 DEF Marked, Marks
    <2>8. CASE Insertion /\ Present /\ Marked(current.point) = {}
      <3>1. UNCHANGED <<files, order>> /\ hadError' = TRUE /\ current.point # NoPoint
        BY <2>8 DEF Insertion
      <3>2. Effect(target)
        BY <1>4, <2>8, <3>1 DEF Present
      <3>. QED  BY <1>2, <2>7, <2>8, <3>1, <3>2
    <2>9. CASE Insertion /\ Present /\ Marked(current.point) # {}
      <3>. DEFINE i == Min(Marked(current.point))
                  content == Splice(target, i, current.data)
      <3>1. Store(content) /\ UNCHANGED <<order, hadError>> /\ current.point # NoPoint
        BY <2>9 DEF Insertion
      <3>2. i \in 1 .. Len(target)
        <4>1. Marked(current.point) \in SUBSET Nat /\ Marked(current.point) \subseteq 1 .. Len(target)
          BY <2>7, <2>9 DEF Marked
        <4>2. \E m \in Marked(current.point) : \A n \in Marked(current.point) : m <= n
          BY <2>9, <4>1, LeastNat
        <4>. QED  BY <4>1, <4>2 DEF Min
      <3>3. /\ content \in Seq(Line)
            /\ \A point : Marks(content, point) <=> Marks(target, point) \/ Marks(current.data, point)
        <4>. HIDE DEF target, i
        <4>. QED  BY <1>1, <2>7, <2>9, <3>2, SpliceMarks
      <3>4. Effect(content)
        <4>. HIDE DEF content
        <4>. QED  BY <1>4, <2>3, <2>9, <3>1 DEF Present
      <3>. HIDE DEF content
      <3>. QED  BY <1>2, <1>4, <2>7, <2>9, <3>1, <3>3, <3>4
    <2>. QED  BY <1>3, <2>4, <2>5, <2>6, <2>8, <2>9
  <1>6. PICK content \in Seq(Line) :
          /\ Effect(content)
          /\ hadError' \in BOOLEAN
          /\ hadError => hadError'
          /\ ~hadError => (hadError' <=> Misplaced(h))
          /\ ~hadError' => \A point \in AnyPoint :
                Marks(content, point) <=> \/ Present /\ Marks(files[current.name], point)
                                          \/ Marks(current.data, point)
    BY <1>5
  <1>7. /\ Entries' = Entries /\ Heads' = Heads /\ \A j : FileOf(j)' = FileOf(j)
        /\ \A g : Misplaced(g)' = Misplaced(g)
    BY Static
  <1>8. \A g \in Heads : g < k + 1 <=> g < h \/ g = h
    BY <1>1
  <1>9. Range(order') = DOMAIN files'
    BY <1>4, <1>6
  <1>10. DOMAIN files' = {Entries[g].name : g \in {g \in Heads : g < k + 1}}
    <2>1. DOMAIN files' = DOMAIN files \cup {Entries[h].name}
      BY <1>6 DEF Accumulated
    <2>2. {Entries[g].name : g \in {g \in Heads : g < h} \cup {h}}
            = {Entries[g].name : g \in {g \in Heads : g < h}} \cup {Entries[h].name}
      OBVIOUS
    <2>. QED  BY <1>1, <1>4, <2>1, <2>2
  <1>11. \A n \in DOMAIN files' : files'[n] \in Seq(Line)
    BY <1>4, <1>6
  <1>12. hadError' <=> \E g \in Heads : g < k + 1 /\ Misplaced(g)
    BY <1>4, <1>6, <1>8
  <1>13. ASSUME ~hadError', NEW n \in DOMAIN files', NEW point \in AnyPoint
         PROVE  Marks(files'[n], point) <=>
                   \E j \in 1 .. Len(Entries) : /\ j < k + 1 /\ FileOf(j) = n
                                                /\ Marks(Entries[j].data, point)
    <2>1. ~hadError
      BY <1>6, <1>13
    <2>2. \A j \in 1 .. Len(Entries) : /\ j < k + 1 <=> j < h \/ j \in h .. k
                                       /\ j \in h .. k => ~ (j < h)
      BY <1>1, EntriesType
    <2>3. \A j \in h .. k : j \in 1 .. Len(Entries)
      BY <1>1, EntriesType
    <2>4. n \in DOMAIN files =>
            (Marks(files[n], point) <=>
               \E j \in 1 .. Len(Entries) : j < h /\ FileOf(j) = n /\ Marks(Entries[j].data, point))
      BY <2>1 DEF Replayed
    <2>5. Marks(current.data, point) <=> \E j \in h .. k : Marks(Entries[j].data, point)
      BY DEF Accumulated
    <2>6. CASE n # current.name
      <3>1. n \in DOMAIN files /\ files'[n] = files[n]
        BY <1>6, <2>6
      <3>. QED  BY <1>1, <2>2, <2>4, <2>6, <3>1
    <2>7. CASE n = current.name /\ Present
      <3>1. Marks(files'[n], point) <=> Marks(files[n], point) \/ Marks(current.data, point)
        BY <1>6, <1>13, <2>7
      <3>. QED  BY <1>1, <2>2, <2>3, <2>4, <2>5, <2>7, <3>1 DEF Present
    <2>8. CASE n = current.name /\ ~Present
      <3>1. Marks(files'[n], point) <=> Marks(current.data, point)
        BY <1>6, <1>13, <2>8
      <3>2. \A j \in 1 .. Len(Entries) : j < h => FileOf(j) # n
        BY <1>1, <2>8 DEF Present
      <3>. QED  BY <1>1, <2>2, <2>3, <2>5, <2>8, <3>1, <3>2
    <2>. QED  BY <2>6, <2>7, <2>8
  <1>. HIDE DEF Effect
  <1>14. order' \in Seq(AnyName)
    BY <1>6 DEF Effect
  <1>. QED  BY <1>6, <1>7, <1>9, <1>10, <1>11, <1>12, <1>13, <1>14 DEF Replayed

LEMMA ReplayedStays ==
    ASSUME run' = run, p' = p, UNCHANGED outputDir, NEW m, Replayed(m)
    PROVE  Replayed(m)'
  BY Static DEF Replayed, outputDir

LEMMA AllReplayedStays ==
    ASSUME run' = run, p' = p, UNCHANGED outputDir, AllReplayed
    PROVE  AllReplayed'
  <1>1. PICK m \in Nat : m = Len(Entries) + 1 /\ Replayed(m)
    BY DEF AllReplayed
  <1>2. Replayed(m)' /\ m = Len(Entries') + 1
    BY <1>1, ReplayedStays, Static
  <1>. QED  BY <1>2, Static DEF AllReplayed

LEMMA CollectInvStays ==
    ASSUME run' = run, p' = p, at' = at, current' = current, UNCHANGED outputDir, CollectInv
    PROVE  CollectInv'
  <1>1. CASE at = 0 /\ current = NoChunk /\ Replayed(1)
    BY <1>1, ReplayedStays DEF CollectInv
  <1>2. CASE ~ (at = 0 /\ current = NoChunk /\ Replayed(1))
    <2>1. 1 \in Heads
      BY <1>2 DEF CollectInv
    <2>2. PICK k \in 1 .. Len(Entries) : \E h \in Heads :
             at = k /\ LastHead(h, k) /\ Replayed(h) /\ Accumulated(h, k)
      BY <1>2 DEF CollectInv
    <2>3. PICK h \in Heads : at = k /\ LastHead(h, k) /\ Replayed(h) /\ Accumulated(h, k)
      BY <2>2
    <2>4. Replayed(h)'
      BY <2>3, ReplayedStays
    <2>5. Accumulated(h, k)' /\ LastHead(h, k)'
      BY <2>3, Static DEF Accumulated, LastHead
    <2>. QED  BY <2>1, <2>3, <2>4, <2>5, Static DEF CollectInv
  <1>. QED  BY <1>1, <1>2

\* The chunk of the next entry is started once all before it has been applied.
LEMMA StartChunkReplays ==
    ASSUME OutputInv, StartChunk
    PROVE  CollectInv'
  <1>1. PICK k \in Nat : k = at + 1
    BY DEF OutputInv
  <1>2. /\ run \in Run /\ p \in Nat \ {0} /\ p <= Len(run.plugins) /\ at \in Nat
        /\ at < Len(Entries) /\ CollectInv
        /\ run' = run /\ p' = p /\ at' = k /\ current' = Entries[k] /\ Flush
        /\ Entries[k].point # NoPoint \/ Entries[k].name # NoName
    BY <1>1 DEF OutputInv, StartChunk, TheEntry, Entries
  <1>3. /\ k \in 1 .. Len(Entries) /\ Heads \subseteq 1 .. Len(Entries)
        /\ Entries[k] \in Entry /\ Len(Entries) \in Nat /\ k \in Heads
    BY <1>1, <1>2, EntriesType DEF Heads, HeadsIn
  <1>4. 1 \in Heads /\ Replayed(k)'
    <2>1. CASE at = 0 /\ current = NoChunk /\ Replayed(1)
      <3>1. UNCHANGED outputDir
        BY <2>1, <1>2 DEF Flush
      <3>2. k = 1
        BY <1>1, <2>1
      <3>3. Replayed(k)
        BY <2>1, <3>2
      <3>. QED  BY <1>2, <1>3, <3>1, <3>2, <3>3, ReplayedStays
    <2>2. CASE ~ (at = 0 /\ current = NoChunk /\ Replayed(1))
      <3>1. 1 \in Heads
        BY <1>2, <2>2 DEF CollectInv
      <3>2. PICK m \in 1 .. Len(Entries) : \E h \in Heads :
               at = m /\ LastHead(h, m) /\ Replayed(h) /\ Accumulated(h, m)
        BY <1>2, <2>2 DEF CollectInv
      <3>3. PICK h \in Heads : at = m /\ LastHead(h, m) /\ Replayed(h) /\ Accumulated(h, m)
        BY <3>2
      <3>4. m \in h .. Len(Entries) /\ \A g \in Heads : g <= m => g <= h
        BY <1>3, <3>3 DEF LastHead
      <3>5. Replayed(m + 1)'
        BY <1>2, <3>1, <3>3, <3>4, ApplyChunk
      <3>6. m + 1 = k
        BY <1>1, <3>3
      <3>. QED  BY <3>1, <3>5, <3>6
    <2>. QED  BY <2>1, <2>2
  <1>5. Entries' = Entries /\ Heads' = Heads
    BY <1>2, Static
  <1>6. Accumulated(k, k)' /\ LastHead(k, k)'
    <2>1. k .. k = {k}
      OBVIOUS
    <2>. QED  BY <1>2, <1>3, <1>5, <2>1 DEF Accumulated, LastHead
  <1>. QED  BY <1>2, <1>3, <1>4, <1>5, <1>6 DEF CollectInv

\* An entry that goes on with a chunk adds its text to it.
LEMMA ContinueChunkReplays ==
    ASSUME OutputInv, ContinueChunk, current # NoChunk
    PROVE  CollectInv'
  <1>1. PICK m \in 1 .. Len(Entries) : \E h \in Heads :
           at = m /\ LastHead(h, m) /\ Replayed(h) /\ Accumulated(h, m)
    BY DEF CollectInv, OutputInv, ContinueChunk
  <1>2. PICK h \in Heads : at = m /\ LastHead(h, m) /\ Replayed(h) /\ Accumulated(h, m)
    BY <1>1
  <1>3. PICK k \in Nat : k = m + 1
    BY EntriesType
  <1>4. /\ run \in Run /\ p \in Nat \ {0} /\ p <= Len(run.plugins) /\ at \in Nat
        /\ at < Len(Entries) /\ UNCHANGED outputDir /\ 1 \in Heads
        /\ run' = run /\ p' = p /\ at' = k
        /\ current' = [name |-> current.name, point |-> current.point,
                       data |-> current.data \o Entries[k].data]
        /\ Entries[k].point = NoPoint /\ Entries[k].name = NoName
    BY <1>2, <1>3 DEF OutputInv, CollectInv, ContinueChunk, TheEntry, Entries
  <1>5. /\ k \in 1 .. Len(Entries) /\ Heads \subseteq 1 .. Len(Entries) /\ Len(Entries) \in Nat
        /\ Entries[k].data \in Seq(Line) /\ k \notin Heads
    <2>1. /\ Heads \subseteq 1 .. Len(Entries) /\ Len(Entries) \in Nat
          /\ \A j \in 1 .. Len(Entries) : Entries[j].data \in Seq(Line)
      BY <1>4, EntriesType
    <2>2. k \in 1 .. Len(Entries)
      BY <1>2, <1>3, <1>4, <2>1
    <2>. QED  BY <1>4, <2>1, <2>2 DEF Heads, HeadsIn
  <1>6. /\ Entries' = Entries /\ Heads' = Heads
    BY <1>4, Static
  <1>7. /\ current.data \in Seq(Line) /\ current.name \in AnyName /\ current.point \in AnyPoint
        /\ current.name = Entries[h].name /\ current.point = Entries[h].point
        /\ \A point \in AnyPoint :
             Marks(current.data, point) <=> \E j \in h .. m : Marks(Entries[j].data, point)
    BY <1>2 DEF Accumulated, Entry
  <1>8. /\ current.data \o Entries[k].data \in Seq(Line)
        /\ \A point : Marks(current.data \o Entries[k].data, point) <=>
                         Marks(current.data, point) \/ Marks(Entries[k].data, point)
    BY <1>5, <1>7, ConcatMarks
  <1>9. h \in Nat /\ h <= m /\ \A j : j \in h .. k <=> j \in h .. m \/ j = k
    BY <1>2, <1>3, <1>5 DEF LastHead
  <1>10. Accumulated(h, k)'
    <2>1. current' \in Entry
      BY <1>4, <1>7, <1>8 DEF Entry
    <2>2. current'.name = Entries[h].name /\ current'.point = Entries[h].point
      BY <1>4, <1>7
    <2>3. current'.data = current.data \o Entries[k].data
      BY <1>4
    <2>4. \A point \in AnyPoint :
             Marks(current'.data, point) <=> \E j \in h .. k : Marks(Entries[j].data, point)
      BY <1>7, <1>8, <1>9, <2>3
    <2>. QED  BY <1>6, <2>1, <2>2, <2>4 DEF Accumulated
  <1>11. LastHead(h, k)'
    <2>1. h <= k /\ \A g \in Heads : g <= k => g <= m
      BY <1>3, <1>5, <1>9
    <2>2. \A g \in Heads : g <= m => g <= h
      BY <1>2 DEF LastHead
    <2>. QED  BY <1>6, <2>1, <2>2 DEF LastHead
  <1>12. Replayed(h)'
    BY <1>2, <1>4, ReplayedStays
  <1>. QED  BY <1>4, <1>5, <1>6, <1>10, <1>11, <1>12 DEF CollectInv

\* At its end every chunk of the response has been applied.
LEMMA EndResponseReplays ==
    ASSUME OutputInv, EndResponse
    PROVE  AllReplayed'
  <1>1. /\ run \in Run /\ p \in Nat \ {0} /\ p <= Len(run.plugins) /\ at \in Nat
        /\ at = Len(Entries) /\ CollectInv /\ run' = run /\ p' = p /\ Flush
    BY DEF OutputInv, EndResponse, Entries
  <1>2. /\ Entries' = Entries /\ Heads' = Heads
        /\ Entries \in Seq(Entry) /\ Len(Entries) \in Nat /\ Heads \subseteq 1 .. Len(Entries)
    BY <1>1, Static, EntriesType
  <1>3. CASE at = 0 /\ current = NoChunk /\ Replayed(1)
    <2>1. UNCHANGED outputDir
      BY <1>1, <1>3 DEF Flush
    <2>2. Replayed(1)'
      BY <1>1, <1>3, <2>1, ReplayedStays
    <2>3. Entries = <<>>
      BY <1>1, <1>2, <1>3, EmptySeq
    <2>4. 1 \in Nat /\ 1 = Len(Entries') + 1
      BY <1>1, <1>2, <1>3
    <2>. QED  BY <1>2, <2>2, <2>3, <2>4 DEF AllReplayed
  <1>4. CASE ~ (at = 0 /\ current = NoChunk /\ Replayed(1))
    <2>1. 1 \in Heads
      BY <1>1, <1>4 DEF CollectInv
    <2>2. PICK m \in 1 .. Len(Entries) : \E h \in Heads :
             at = m /\ LastHead(h, m) /\ Replayed(h) /\ Accumulated(h, m)
      BY <1>1, <1>4 DEF CollectInv
    <2>3. PICK h \in Heads : at = m /\ LastHead(h, m) /\ Replayed(h) /\ Accumulated(h, m)
      BY <2>2
    <2>4. m \in h .. Len(Entries) /\ \A g \in Heads : g <= m => g <= h
      BY <1>2, <2>3 DEF LastHead
    <2>5. Replayed(m + 1)'
      BY <1>1, <2>1, <2>3, <2>4, ApplyChunk
    <2>6. m + 1 \in Nat /\ m + 1 = Len(Entries') + 1
      BY <1>1, <1>2, <2>3
    <2>. QED  BY <1>2, <2>1, <2>5, <2>6 DEF AllReplayed
  <1>. QED  BY <1>3, <1>4

LEMMA OutputInvStep ==
    ASSUME OutputInv, [Next]_vars
    PROVE  OutputInv'
  <1>1. run \in Run /\ p \in Nat \ {0} /\ at \in Nat /\ Len(run.plugins) \in Nat
    BY LenProperties DEF OutputInv, Run
  <1>. USE <1>1
  <1>2. CASE SkipPlugin
    BY <1>2 DEF SkipPlugin, OutputInv
  <1>3. CASE PluginFails
    BY <1>3 DEF PluginFails, Stop, OutputInv
  <1>4. CASE TakeResponse
    <2>1. CASE ThePlugin.outcome # "response"
      BY <1>4, <2>1 DEF TakeResponse, Stop, OutputInv
    <2>2. CASE ThePlugin.outcome = "response"
      <3>1. /\ pc' = "collect" /\ at' = 0 /\ current' = NoChunk /\ run' = run /\ p' = p
            /\ files' = NoFiles /\ order' = <<>> /\ hadError' = FALSE
            /\ p <= Len(run.plugins)
        BY <1>4, <2>2 DEF TakeResponse, ToRun
      <3>2. Heads \subseteq 1 .. Len(Entries) /\ Len(Entries) \in Nat
        BY <3>1, EntriesType
      <3>3. {g \in Heads : g < 1} = {} /\ ~ \E h \in Heads : h < 1 /\ Misplaced(h)
        <4>1. \A h \in Heads : ~ (h < 1)
          BY <3>2
        <4>. QED  BY <4>1
      <3>4. /\ <<>> \in Seq(AnyName) /\ Range(<<>>) = {} /\ DOMAIN NoFiles = {}
        BY EmptySeq DEF Range, NoFiles
      <3>5. Heads' = Heads /\ \A h : Misplaced(h)' = Misplaced(h)
        BY <3>1, Static
      <3>6. {g \in Heads' : g < 1} = {} /\ ~ \E h \in Heads' : h < 1 /\ Misplaced(h)'
        BY <3>3, <3>5
      <3>7. Replayed(1)'
        <4>1. {Entries[h].name : h \in {g \in Heads : g < 1}} = {}
          BY <3>3
        <4>2. Entries' = Entries
          BY <3>1, Static
        <4>. QED  BY <3>1, <3>3, <3>4, <3>5, <4>1, <4>2 DEF Replayed
      <3>. QED  BY <3>1, <3>7 DEF OutputInv, CollectInv
    <2>. QED  BY <2>1, <2>2
  <1>5. CASE AllPluginsRun
    BY <1>5 DEF AllPluginsRun, Stop, OutputInv
  <1>6. CASE StartChunk
    <2>1. CollectInv'
      BY <1>6, StartChunkReplays
    <2>. QED  BY <1>6, <2>1 DEF StartChunk, OutputInv
  <1>7. CASE ContinueChunk
    <2>1. CASE current = NoChunk
      BY <1>7, <2>1 DEF ContinueChunk, Stop, OutputInv
    <2>2. CASE current # NoChunk
      <3>1. CollectInv'
        BY <1>7, <2>2, ContinueChunkReplays
      <3>. QED  BY <1>7, <2>2, <3>1 DEF ContinueChunk, OutputInv
    <2>. QED  BY <2>1, <2>2
  <1>8. CASE EndResponse
    <2>1. AllReplayed'
      BY <1>8, EndResponseReplays
    <2>. QED  BY <1>8, <2>1 DEF EndResponse, OutputInv
  <1>9. CASE RefuseCollected
    BY <1>9 DEF RefuseCollected, Stop, OutputInv
  <1>10. CASE WriteFile
    <2>1. /\ run' = run /\ p' = p /\ UNCHANGED outputDir /\ pc = "write" /\ pc' \in {"write", "done"}
          /\ at' \in Nat
      BY <1>10 DEF WriteFile, Writing, Stop
    <2>. QED  BY <2>1, AllReplayedStays DEF OutputInv
  <1>11. CASE AllWritten
    BY <1>11 DEF AllWritten, NextPlugin, OutputInv
  <1>12. CASE WriteArchive
    <2>1. run' = run /\ at' = at /\ pc' \in {"plugin", "done"} /\ p' \in {p, p + 1}
      BY <1>12 DEF WriteArchive, NextPlugin, Stop
    <2>. QED  BY <2>1 DEF OutputInv
  <1>13. CASE UNCHANGED vars
    BY <1>13, AllReplayedStays, CollectInvStays DEF vars, OutputInv
  <1>. QED  BY <1>2, <1>3, <1>4, <1>5, <1>6, <1>7, <1>8, <1>9, <1>10, <1>11, <1>12, <1>13
            DEF Next, Terminated

\* What has been stored of a response is what its entries, up to the last one applied,
\* name and say (collectPluginOutput, WritePluginOutput).
THEOREM OutputInvariance == Spec => []OutputInv
  <1>1. Init => OutputInv
    BY RunsAssumption DEF Init, OutputInv
  <1>2. OutputInv /\ [Next]_vars => OutputInv'
    BY OutputInvStep
  <1>. QED  BY <1>1, <1>2, PTL DEF Spec

\* The errors on record are those that make a response ill formed.
LEMMA IllFormedMeans ==
    IllFormed <=> (Entries # <<>> /\ 1 \notin Heads) \/ \E h \in Heads : Misplaced(h)
  BY DEF IllFormed, Misplaced

\* When all of a response has been replayed, an error is on record just when it
\* is ill formed, and the files are those its entries name.
LEMMA ReplayedWhole ==
    ASSUME OutputInv, pc = "write"
    PROVE  /\ hadError <=> IllFormed
           /\ \A n \in Collected : \E k \in Heads : Entries[k].name = n
  <1>1. PICK m \in Nat : m = Len(Entries) + 1 /\ Replayed(m)
    BY DEF OutputInv, AllReplayed
  <1>2. Entries # <<>> => 1 \in Heads
    BY DEF OutputInv, AllReplayed
  <1>3. /\ run \in Run /\ p \in Nat \ {0} /\ p <= Len(run.plugins)
    BY DEF OutputInv
  <1>4. Heads \subseteq 1 .. Len(Entries) /\ Len(Entries) \in Nat
    BY <1>3, EntriesType
  <1>5. \A h \in Heads : h < m
    BY <1>1, <1>4
  <1>6. hadError <=> \E h \in Heads : Misplaced(h)
    BY <1>1, <1>5 DEF Replayed
  <1>7. \A n \in Collected : \E k \in Heads : Entries[k].name = n
    BY <1>1 DEF Replayed, Collected
  <1>. QED  BY <1>2, <1>6, <1>7, IllFormedMeans

\* "nothing reaches disk until the whole response has been processed": while a
\* response that cannot be applied is replayed or looked at, nothing is written.
THEOREM NothingOfIllFormed == Spec => IllFormedWritesNothing
  <1>1. OutputInv /\ [Next]_vars =>
          [(pc = "collect" \/ pc = "write") /\ IllFormed => UNCHANGED disk]_vars
    <2>. SUFFICES ASSUME OutputInv, Next, pc = "collect" \/ pc = "write", IllFormed
                  PROVE  UNCHANGED disk
      OBVIOUS
    <2>1. CASE WriteFile \/ WriteArchive
      <3>1. pc = "write" /\ ~hadError
        BY <2>1 DEF WriteFile, WriteArchive, Writing
      <3>. QED  BY <3>1, ReplayedWhole
    <2>2. CASE ~ (WriteFile \/ WriteArchive)
      BY <2>2 DEF Next, SkipPlugin, PluginFails, TakeResponse, AllPluginsRun, StartChunk,
         ContinueChunk, EndResponse, RefuseCollected, AllWritten, Terminated, vars
    <2>. QED  BY <2>1, <2>2
  <1>. QED  BY <1>1, OutputInvariance, PTL DEF Spec, IllFormedWritesNothing

\* The same with the processes and pipes in place.
THEOREM LoopWritesNothingIllFormed == LoopSpec => IllFormedWritesNothing
  BY NothingOfIllFormed, LoopRunsOutput

-------------------------------------------------------------------------------
(* Why a command fails. *)

\* A command that has ended does nothing more, and was refused for a cause.
CauseInv ==
    /\ exit = "refused" => pc = "done"
    /\ RefusedForCause

LEMMA CauseInvStep ==
    ASSUME LoopInv, OutputInv, CauseInv, [LoopNext]_allVars
    PROVE  CauseInv'
  <1>1. run \in Run /\ p \in Nat \ {0} /\ at \in Nat /\ Len(run.plugins) \in Nat
    BY LenProperties DEF OutputInv, Run
  <1>. DEFINE Cause ==
         IF p > Len(run.plugins) THEN run.fatal ELSE
           \/ result # "response"
           \/ ThePlugin.outcome # "response"
           \/ IllFormed
           \/ Format[Where] = "dir" /\ ~run.allowEscape
                /\ \E k \in Heads : Entries[k].name \in Dotted
  <1>2. RefusedForCause = (exit = "refused" => Cause)
    BY DEF RefusedForCause
  <1>3. ASSUME run' = run, p' = p, result' = result, Cause PROVE Cause'
    <2>1. /\ ThePlugin' = ThePlugin /\ Entries' = Entries /\ Heads' = Heads /\ Where' = Where
          /\ \A h : Misplaced(h)' = Misplaced(h)
      BY <1>3, Static
    <2>2. IllFormed => IllFormed'
      <3>1. IllFormed' <=> (Entries # <<>> /\ 1 \notin Heads) \/ \E h \in Heads : Misplaced(h)
        BY <2>1 DEF IllFormed, Misplaced
      <3>. QED  BY <3>1, IllFormedMeans
    <2>. QED  BY <1>3, <2>1, <2>2
  <1>4. ASSUME run' = run, p' = p, result' = result, exit' = "refused", pc' = "done", Cause
        PROVE  CauseInv'
    <2>1. Cause'
      BY <1>3, <1>4
    <2>. QED  BY <1>2, <1>4, <2>1 DEF CauseInv, RefusedForCause
  <1>5. ASSUME exit' # "refused" PROVE CauseInv'
    BY <1>5 DEF CauseInv, RefusedForCause
  <1>6. ASSUME run' = run, p' = p, result' = result, exit' = exit, pc' = pc PROVE CauseInv'
    <2>1. CASE exit = "refused"
      <3>1. Cause
        BY <1>2, <2>1 DEF CauseInv
      <3>. HIDE DEF Cause
      <3>. QED  BY <1>4, <1>6, <2>1, <3>1 DEF CauseInv
    <2>2. CASE exit # "refused"
      BY <1>5, <1>6, <2>2
    <2>. QED  BY <2>1, <2>2
  <1>7. pc # "done" => exit # "refused"
    BY DEF CauseInv
  <1>8. CASE CallPlugin
    <2>1. exit' # "refused"
      BY <1>7, <1>8 DEF CallPlugin, ToRun, loopVars, vars
    <2>. QED  BY <1>5, <2>1
  <1>9. CASE Within
    <2>1. UNCHANGED loopVars
      BY <1>9 DEF Within
    <2>2. CASE call = "idle"
      <3>1. result' = result
        BY <1>9, <2>2 DEF Within, Exchange!Within, Exchange!Caller, Exchange!Plugin,
              Exchange!Start, Exchange!WriteRequest, Exchange!WriteFails, Exchange!CloseStdin,
              Exchange!ReadOutput, Exchange!ReadEOF, Exchange!Wait, Exchange!ReadInput,
              Exchange!SeeEOF, Exchange!WriteOutput, Exchange!StopReading, Exchange!CloseOutput,
              Exchange!Exit, Exchange!callerVars
      <3>. QED  BY <1>6, <2>1, <3>1 DEF loopVars, vars
    <2>3. CASE call # "idle"
      <3>1. exit' # "refused"
        BY <1>7, <2>1, <2>3 DEF LoopInv, ToRun, loopVars, vars
      <3>. QED  BY <1>5, <3>1
    <2>. QED  BY <2>2, <2>3
  <1>10. CASE ReturnAnswer
    <2>1. /\ run' = run /\ p' = p /\ result' = result /\ p <= Len(run.plugins)
          /\ IF ThePlugin.outcome = "response" THEN exit' = exit
             ELSE exit' = "refused" /\ pc' = "done"
          /\ pc = "plugin"
      BY <1>10 DEF ReturnAnswer, TakeResponse, Exchange!Return, Exchange!childVars, ToRun, Stop
    <2>2. CASE ThePlugin.outcome = "response"
      BY <1>5, <1>7, <2>1, <2>2
    <2>3. CASE ThePlugin.outcome # "response"
      <3>1. Cause
        BY <1>1, <2>1, <2>3
      <3>. HIDE DEF Cause
      <3>. QED  BY <1>4, <2>1, <2>3, <3>1
    <2>. QED  BY <2>2, <2>3
  <1>11. CASE ReturnError
    <2>1. /\ run' = run /\ p' = p /\ result' = result /\ p <= Len(run.plugins)
          /\ exit' = "refused" /\ pc' = "done" /\ result # "response"
      BY <1>11 DEF ReturnError, PluginFails, Exchange!Return, Exchange!childVars, ToRun, Stop
    <2>2. Cause
      BY <1>1, <2>1
    <2>. HIDE DEF Cause
    <2>. QED  BY <1>4, <2>1, <2>2
  <1>12. CASE LoopStep
    <2>1. result' = result
      BY <1>12 DEF LoopStep, Outside, exchangeVars
    <2>2. CASE exit' # "refused"
      BY <1>5, <2>2
    <2>3. CASE exit' = "refused"
      <3>1. pc # "done" /\ exit # "refused"
        BY <1>7, <1>12 DEF LoopStep, SkipPlugin, AllPluginsRun, StartChunk, ContinueChunk,
           EndResponse, RefuseCollected, WriteFile, AllWritten, WriteArchive, Writing
      <3>2. run' = run /\ p' = p /\ pc' = "done" /\ Cause
        <4>1. CASE AllPluginsRun
          BY <1>1, <2>3, <3>1, <4>1 DEF AllPluginsRun, Stop
        <4>2. CASE ContinueChunk
          <5>1. /\ current = NoChunk /\ run' = run /\ p' = p /\ pc' = "done" /\ pc = "collect"
                /\ at < Len(Entries)
                /\ Entries[at + 1].point = NoPoint /\ Entries[at + 1].name = NoName
            BY <2>3, <3>1, <4>2 DEF ContinueChunk, Stop, TheEntry, Entries
          <5>2. CollectInv /\ p <= Len(run.plugins)
            BY <5>1 DEF OutputInv
          <5>3. at = 0
            <6>. SUFFICES ASSUME at # 0 PROVE FALSE
              OBVIOUS
            <6>1. 1 \in Heads
              BY <5>2 DEF CollectInv
            <6>2. PICK m \in 1 .. Len(Entries) : \E h \in Heads :
                     at = m /\ LastHead(h, m) /\ Replayed(h) /\ Accumulated(h, m)
              BY <5>2 DEF CollectInv
            <6>3. PICK h \in Heads : at = m /\ LastHead(h, m) /\ Replayed(h) /\ Accumulated(h, m)
              BY <6>2
            <6>4. m \in h .. Len(Entries) /\ \A g \in Heads : g <= m => g <= h
              BY <1>1, <5>2, <6>3, EntriesType DEF LastHead
            <6>. QED  BY <1>1, <5>1, <5>2, <6>1, <6>3, <6>4, BeforeChunk
          <5>4. Entries # <<>> /\ 1 \notin Heads
            <6>1. Entries # <<>>
              BY <1>1, <5>1, <5>2, <5>3, EntriesType, EmptySeq
            <6>. QED  BY <5>1, <5>3, <6>1 DEF Heads, HeadsIn
          <5>5. IllFormed
            BY <5>4, IllFormedMeans
          <5>. QED  BY <1>1, <5>1, <5>2, <5>5
        <4>3. CASE RefuseCollected
          <5>1. run' = run /\ p' = p /\ pc' = "done" /\ pc = "write" /\ hadError
            BY <4>3 DEF RefuseCollected, Stop
          <5>2. IllFormed /\ p <= Len(run.plugins)
            BY <5>1, ReplayedWhole DEF OutputInv
          <5>. QED  BY <1>1, <5>1, <5>2
        <4>4. CASE WriteFile
          <5>1. /\ run' = run /\ p' = p /\ pc' = "done" /\ pc = "write" /\ Format[Where] = "dir"
                /\ ~run.allowEscape /\ \E n \in Collected : n \in Dotted
            BY <2>3, <3>1, <4>4 DEF WriteFile, Stop, Writing
          <5>2. p <= Len(run.plugins) /\ \E k \in Heads : Entries[k].name \in Dotted
            BY <5>1, ReplayedWhole DEF OutputInv
          <5>. QED  BY <1>1, <5>1, <5>2
        <4>5. CASE SkipPlugin \/ StartChunk \/ EndResponse \/ AllWritten \/ WriteArchive
          BY <2>3, <3>1, <4>5 DEF SkipPlugin, StartChunk, EndResponse, AllWritten, WriteArchive,
             NextPlugin, Stop
        <4>. QED  BY <1>12, <4>1, <4>2, <4>3, <4>4, <4>5 DEF LoopStep
      <3>. HIDE DEF Cause
      <3>. QED  BY <1>4, <2>1, <2>3, <3>2
    <2>. QED  BY <2>2, <2>3
  <1>13. CASE UNCHANGED allVars
    BY <1>6, <1>13 DEF allVars, loopVars, vars, exchangeVars
  <1>. QED  BY <1>8, <1>9, <1>10, <1>11, <1>12, <1>13 DEF LoopNext

\* Once compiled, a command is refused only for a plugin that failed or left, a
\* response that cannot be applied, a file that would leave its directory, or
\* warnings that are fatal, and then only when all has been written.
THEOREM RefusedOnlyForCause == LoopSpec => []RefusedForCause
  <1>1. LoopInit => CauseInv
    BY DEF LoopInit, Init, CauseInv, RefusedForCause
  <1>2. LoopSpec => []OutputInv
    BY OutputInvariance, LoopRunsOutput, PTL
  <1>3. LoopInv /\ OutputInv /\ CauseInv /\ [LoopNext]_allVars => CauseInv'
    BY CauseInvStep
  <1>4. LoopSpec => []CauseInv
    BY <1>1, <1>2, <1>3, LoopInvariance, PTL DEF LoopSpec
  <1>5. CauseInv => RefusedForCause
    BY DEF CauseInv
  <1>. QED  BY <1>4, <1>5, PTL

-------------------------------------------------------------------------------
(* Where the lines of a response are. *)

From(content, k) == {i \in 1 .. Len(content) : content[i].from = k}

\* The lines of entry j come before those of entry k, or before the marks of the point.
TextBefore(content, j, k) ==
    \A a, b \in 1 .. Len(content) : content[a].from = j /\ content[b].from = k => a < b
MarkAfter(content, j, point) ==
    \A a, b \in 1 .. Len(content) : content[a].from = j /\ content[b].mark = point => a < b

LEMMA CountIs ==
    ASSUME NEW content \in Seq(Line), NEW k
    PROVE  /\ CountFrom(content, k) = Cardinality(From(content, k))
           /\ IsFiniteSet(From(content, k)) /\ CountFrom(content, k) \in Nat
           /\ CountFrom(content, k) = 0 <=> \A i \in 1 .. Len(content) : content[i].from # k
  <1>1. DOMAIN content = 1 .. Len(content) /\ Len(content) \in Nat
    BY LenProperties
  <1>2. CountFrom(content, k) = Cardinality(From(content, k))
    BY <1>1 DEF CountFrom, From
  <1>3. IsFiniteSet(From(content, k)) /\ Cardinality(From(content, k)) \in Nat
    <2>1. From(content, k) \in SUBSET (1 .. Len(content))
      BY DEF From
    <2>2. IsFiniteSet(1 .. Len(content))
      BY <1>1, FS_Interval
    <2>3. IsFiniteSet(From(content, k))
      BY <2>1, <2>2, FS_Subset
    <2>. QED  BY <2>3, FS_CardinalityType
  <1>4. Cardinality(From(content, k)) = 0 <=> From(content, k) = {}
    BY <1>3, FS_EmptySet
  <1>. QED  BY <1>2, <1>3, <1>4 DEF From

\* A set of positions moved along by d is as large.
LEMMA Shifted ==
    ASSUME NEW S \in SUBSET Nat, IsFiniteSet(S), NEW d \in Nat
    PROVE  /\ IsFiniteSet({d + i : i \in S})
           /\ Cardinality({d + i : i \in S}) = Cardinality(S)
  <1>. DEFINE T == {d + i : i \in S}
              f == [i \in S |-> d + i]
  <1>1. f \in Bijection(S, T)
    <2>1. f \in [S -> T]
      OBVIOUS
    <2>2. \A a, b \in S : f[a] = f[b] => a = b
      OBVIOUS
    <2>3. \A t \in T : \E s \in S : f[s] = t
      OBVIOUS
    <2>. QED  BY <2>1, <2>2, <2>3 DEF Bijection, Injection, Surjection, IsInjective
  <1>2. ExistsBijection(S, T)
    BY <1>1 DEF ExistsBijection
  <1>. HIDE DEF T, f
  <1>3. IsFiniteSet(T) /\ Cardinality(T) = Cardinality(S)
    BY <1>2, FS_Bijection
  <1>. QED  BY <1>3 DEF T

\* The lines of an entry in two texts joined are those in both.
LEMMA ConcatCount ==
    ASSUME NEW a \in Seq(Line), NEW b \in Seq(Line), NEW k
    PROVE  CountFrom(a \o b, k) = CountFrom(a, k) + CountFrom(b, k)
  <1>1. /\ a \o b \in Seq(Line) /\ Len(a \o b) = Len(a) + Len(b)
        /\ \A i \in 1 .. Len(a) + Len(b) :
              (a \o b)[i] = IF i <= Len(a) THEN a[i] ELSE b[i - Len(a)]
    BY ConcatProperties
  <1>2. Len(a) \in Nat /\ Len(b) \in Nat
    BY LenProperties
  <1>. DEFINE A == From(a, k)
              B == From(b, k)
              C == {Len(a) + i : i \in B}
  <1>3. From(a \o b, k) = A \cup C
    <2>. DEFINE s == a \o b
    <2>1. /\ Len(s) = Len(a) + Len(b)
          /\ \A i \in 1 .. Len(a) + Len(b) : s[i] = IF i <= Len(a) THEN a[i] ELSE b[i - Len(a)]
      BY <1>1
    <2>. HIDE DEF s
    <2>2. ASSUME NEW i \in From(s, k) PROVE i \in A \cup C
      <3>1. i \in 1 .. Len(a) + Len(b) /\ s[i].from = k
        BY <2>1 DEF From
      <3>2. CASE i <= Len(a)
        BY <1>2, <2>1, <3>1, <3>2 DEF From
      <3>3. CASE ~ (i <= Len(a))
        <4>1. i - Len(a) \in 1 .. Len(b) /\ b[i - Len(a)].from = k
          BY <1>2, <2>1, <3>1, <3>3
        <4>2. i - Len(a) \in B /\ i = Len(a) + (i - Len(a))
          BY <1>2, <3>1, <4>1 DEF From
        <4>. QED  BY <4>2
      <3>. QED  BY <3>2, <3>3
    <2>3. ASSUME NEW i \in A PROVE i \in From(s, k)
      <3>1. i \in 1 .. Len(a) /\ a[i].from = k
        BY DEF From
      <3>2. i \in 1 .. Len(a) + Len(b) /\ i <= Len(a)
        BY <1>2, <3>1
      <3>. QED  BY <2>1, <3>1, <3>2 DEF From
    <2>4. ASSUME NEW i \in B PROVE Len(a) + i \in From(s, k)
      <3>1. i \in 1 .. Len(b) /\ b[i].from = k
        BY DEF From
      <3>2. /\ Len(a) + i \in 1 .. Len(a) + Len(b) /\ ~ (Len(a) + i <= Len(a))
            /\ (Len(a) + i) - Len(a) = i
        BY <1>2, <3>1
      <3>. QED  BY <2>1, <3>1, <3>2 DEF From
    <2>5. C \subseteq From(s, k)
      BY <2>4
    <2>. HIDE DEF A, C
    <2>6. From(s, k) = A \cup C
      BY <2>2, <2>3, <2>5
    <2>. QED  BY <2>6 DEF s
  <1>4. A \cap C = {}
    BY <1>2 DEF From
  <1>5. /\ IsFiniteSet(A) /\ IsFiniteSet(B) /\ B \in SUBSET Nat
        /\ Cardinality(A) \in Nat /\ Cardinality(B) \in Nat
        /\ CountFrom(a, k) = Cardinality(A) /\ CountFrom(b, k) = Cardinality(B)
        /\ CountFrom(a \o b, k) = Cardinality(A \cup C)
    <2>1. B \in SUBSET Nat
      BY DEF From
    <2>. QED  BY <1>1, <1>3, <2>1, CountIs
  <1>. HIDE DEF A, B
  <1>6. IsFiniteSet(C) /\ Cardinality(C) = Cardinality(B)
    BY <1>2, <1>5, Shifted
  <1>. HIDE DEF C
  <1>7. Cardinality(A \cap C) = 0
    BY <1>4, FS_EmptySet
  <1>8. Cardinality(A \cup C) = Cardinality(A) + Cardinality(C) - Cardinality(A \cap C)
    BY <1>5, <1>6, FS_Union
  <1>. QED  BY <1>5, <1>6, <1>7, <1>8

\* insertAt: what each line of the text is.
LEMMA SpliceShape ==
    ASSUME NEW target \in Seq(Line), NEW i \in 1 .. Len(target), NEW data \in Seq(Line)
    PROVE  \E s \in Seq(Line) :
              /\ s = Splice(target, i, data)
              /\ Len(s) = Len(target) + Len(data)
              /\ \A q \in 1 .. Len(target) : q < i => s[q] = target[q]
              /\ \A q \in 1 .. Len(data) : /\ s[i - 1 + q].mark = data[q].mark
                                           /\ s[i - 1 + q].from = data[q].from
              /\ \A q \in 1 .. Len(target) : ~ (q < i) => s[q + Len(data)] = target[q]
              /\ \A k : CountFrom(s, k) = CountFrom(target, k) + CountFrom(data, k)
  <1>. DEFINE a == SubSeq(target, 1, i - 1)
              b == [k \in 1 .. Len(data) |-> [indent |-> data[k].indent + target[i].indent,
                                              mark   |-> data[k].mark,
                                              from   |-> data[k].from]]
              c == SubSeq(target, i, Len(target))
  <1>1. /\ Len(target) \in Nat /\ Len(data) \in Nat
        /\ \A k \in 1 .. Len(target) : target[k] \in Line
        /\ \A k \in 1 .. Len(data) : data[k] \in Line
    BY LenProperties, ElementOfSeq
  <1>2. /\ a \in Seq(Line) /\ Len(a) = i - 1
        /\ \A k \in 1 .. i - 1 : a[k] = target[k]
    <2>1. \A k \in 1 .. i - 1 : target[k] \in Line
      BY <1>1
    <2>. QED  BY <1>1, <2>1, SubSeqProperties
  <1>3. /\ b \in Seq(Line) /\ Len(b) = Len(data)
        /\ \A k \in 1 .. Len(data) : b[k].mark = data[k].mark /\ b[k].from = data[k].from
    <2>1. ASSUME NEW k \in 1 .. Len(data)
          PROVE  b[k] \in Line /\ b[k].mark = data[k].mark /\ b[k].from = data[k].from
      <3>1. /\ data[k].indent \in Nat /\ target[i].indent \in Nat
            /\ data[k].mark \in AnyPoint /\ data[k].from \in Nat
        BY <1>1 DEF Line
      <3>2. data[k].indent + target[i].indent \in Nat
        BY <3>1
      <3>3. b[k] = [indent |-> data[k].indent + target[i].indent,
                    mark |-> data[k].mark, from |-> data[k].from]
        OBVIOUS
      <3>. HIDE DEF b
      <3>4. b[k].mark = data[k].mark /\ b[k].from = data[k].from
        BY <3>3
      <3>5. [indent |-> data[k].indent + target[i].indent,
             mark |-> data[k].mark, from |-> data[k].from] \in Line
        BY <3>1, <3>2 DEF Line
      <3>. QED  BY <3>3, <3>4, <3>5
    <2>2. \A k \in 1 .. Len(data) : b[k] \in Line
      BY <2>1
    <2>3. b = [k \in 1 .. Len(data) |-> b[k]]
      OBVIOUS
    <2>. HIDE DEF b
    <2>. QED  BY <1>1, <2>1, <2>2, <2>3
  <1>4. /\ c \in Seq(Line) /\ Len(c) = Len(target) - i + 1
        /\ \A k \in 1 .. Len(target) - i + 1 : c[k] = target[i + k - 1]
    BY <1>1, SubSeqProperties
  <1>5. Splice(target, i, data) = (a \o b) \o c
    BY DEF Splice
  <1>6. target = a \o c
    <2>. HIDE DEF a, c
    <2>1. /\ a \o c \in Seq(Line) /\ Len(a \o c) = Len(a) + Len(c)
          /\ \A k \in 1 .. Len(a) + Len(c) :
                (a \o c)[k] = IF k <= Len(a) THEN a[k] ELSE c[k - Len(a)]
      BY <1>2, <1>4, ConcatProperties
    <2>2. Len(a \o c) = Len(target)
      BY <1>1, <1>2, <1>4, <2>1
    <2>3. ASSUME NEW k \in 1 .. Len(target) PROVE (a \o c)[k] = target[k]
      <3>1. CASE k <= Len(a)
        BY <1>1, <1>2, <1>4, <2>1, <2>2, <3>1
      <3>2. CASE ~ (k <= Len(a))
        <4>1. /\ (a \o c)[k] = c[k - Len(a)] /\ k - Len(a) \in 1 .. Len(target) - i + 1
              /\ i + (k - Len(a)) - 1 = k
          BY <1>1, <1>2, <1>4, <2>1, <2>2, <3>2
        <4>. QED  BY <1>4, <4>1
      <3>. QED  BY <3>1, <3>2
    <2>. QED  BY <2>1, <2>2, <2>3, SeqEqual
  <1>. HIDE DEF a, b, c
  <1>7. PICK ab \in Seq(Line) : ab = a \o b
    BY <1>2, <1>3, ConcatProperties
  <1>8. PICK s \in Seq(Line) : s = ab \o c
    BY <1>4, ConcatProperties
  <1>9. /\ Len(ab) = Len(a) + Len(b)
        /\ \A k \in 1 .. Len(a) + Len(b) : ab[k] = IF k <= Len(a) THEN a[k] ELSE b[k - Len(a)]
    <2>1. a \in Seq(Line) /\ b \in Seq(Line)
      BY <1>2, <1>3
    <2>2. /\ Len(a \o b) = Len(a) + Len(b)
          /\ \A k \in 1 .. Len(a) + Len(b) :
                (a \o b)[k] = IF k <= Len(a) THEN a[k] ELSE b[k - Len(a)]
      BY <2>1, ConcatProperties
    <2>. QED  BY <1>7, <2>2
  <1>10. /\ Len(s) = Len(ab) + Len(c)
         /\ \A k \in 1 .. Len(ab) + Len(c) : s[k] = IF k <= Len(ab) THEN ab[k] ELSE c[k - Len(ab)]
    BY <1>4, <1>8, ConcatProperties
  <1>11. s = Splice(target, i, data)
    BY <1>5, <1>7, <1>8
  <1>12. Len(s) = Len(target) + Len(data)
    BY <1>1, <1>2, <1>3, <1>4, <1>9, <1>10
  <1>13. ASSUME NEW q \in 1 .. Len(target), q < i PROVE s[q] = target[q]
    <2>1. q \in 1 .. i - 1 /\ q <= Len(a) /\ q <= Len(ab) /\ q \in 1 .. Len(a) + Len(b)
          /\ q \in 1 .. Len(ab) + Len(c)
      BY <1>1, <1>2, <1>3, <1>4, <1>9, <1>13
    <2>. QED  BY <1>2, <1>9, <1>10, <2>1
  <1>14. ASSUME NEW q \in 1 .. Len(data)
         PROVE  s[i - 1 + q].mark = data[q].mark /\ s[i - 1 + q].from = data[q].from
    <2>1. PICK r \in Nat : r = i - 1 + q
      BY <1>1
    <2>2. /\ r <= Len(ab) /\ r \in 1 .. Len(a) + Len(b) /\ r \in 1 .. Len(ab) + Len(c)
          /\ ~ (r <= Len(a)) /\ r - Len(a) = q
      BY <1>1, <1>2, <1>3, <1>4, <1>9, <2>1
    <2>3. s[r] = b[q]
      BY <1>9, <1>10, <2>2
    <2>. QED  BY <1>3, <2>1, <2>3
  <1>15. ASSUME NEW q \in 1 .. Len(target), ~ (q < i) PROVE s[q + Len(data)] = target[q]
    <2>1. PICK r \in Nat : r = q + Len(data)
      BY <1>1
    <2>2. PICK m \in Nat : m = q - i + 1
      BY <1>1, <1>15
    <2>3. /\ r \in 1 .. Len(ab) + Len(c) /\ ~ (r <= Len(ab)) /\ r - Len(ab) = m
          /\ m \in 1 .. Len(target) - i + 1 /\ i + m - 1 = q
      BY <1>1, <1>2, <1>3, <1>4, <1>9, <1>15, <2>1, <2>2
    <2>4. s[r] = c[m]
      BY <1>10, <2>3
    <2>. QED  BY <1>4, <2>1, <2>3, <2>4
  <1>16. ASSUME NEW k PROVE CountFrom(s, k) = CountFrom(target, k) + CountFrom(data, k)
    <2>1. CountFrom(b, k) = CountFrom(data, k)
      <3>1. From(b, k) = From(data, k)
        BY <1>3 DEF From
      <3>. QED  BY <1>3, <3>1, CountIs
    <2>2. CountFrom(ab, k) = CountFrom(a, k) + CountFrom(b, k)
      BY <1>2, <1>3, <1>7, ConcatCount
    <2>3. CountFrom(s, k) = CountFrom(ab, k) + CountFrom(c, k)
      BY <1>4, <1>8, ConcatCount
    <2>4. CountFrom(target, k) = CountFrom(a, k) + CountFrom(c, k)
      BY <1>2, <1>4, <1>6, ConcatCount
    <2>5. CountFrom(a, k) \in Nat /\ CountFrom(c, k) \in Nat /\ CountFrom(data, k) \in Nat
      BY <1>2, <1>4, CountIs
    <2>. QED  BY <2>1, <2>2, <2>3, <2>4, <2>5
  <1>. QED  BY <1>11, <1>12, <1>13, <1>14, <1>15, <1>16

-------------------------------------------------------------------------------
(* insertAt, line by line. *)

\* s is the target with the data inserted at position i.
Spliced(s, target, i, data) ==
    /\ Len(s) = Len(target) + Len(data) /\ Len(target) \in Nat /\ Len(data) \in Nat
    /\ i \in 1 .. Len(target)
    /\ \A q \in 1 .. Len(target) : q < i => s[q] = target[q]
    /\ \A q \in 1 .. Len(data) : /\ s[i - 1 + q].mark = data[q].mark
                                 /\ s[i - 1 + q].from = data[q].from
    /\ \A q \in 1 .. Len(target) : ~ (q < i) => s[q + Len(data)] = target[q]

\* No line of the text is entry k's.
Lacks(text, k) == \A i \in 1 .. Len(text) : text[i].from # k

\* Where the line at position a of s comes from.
StandsFor(s, target, i, data, a) ==
    \/ a \in 1 .. Len(target) /\ a < i /\ s[a] = target[a]
    \/ \E q \in 1 .. Len(data) : /\ a = i - 1 + q /\ s[a].mark = data[q].mark
                                 /\ s[a].from = data[q].from
    \/ \E q \in 1 .. Len(target) : a = q + Len(data) /\ ~ (q < i) /\ s[a] = target[q]

\* Each line of the result is one of the two texts'.
LEMMA SplicedLines ==
    ASSUME NEW s, NEW target, NEW i, NEW data, Spliced(s, target, i, data),
           NEW a \in 1 .. Len(s)
    PROVE  StandsFor(s, target, i, data, a)
  <1>1. CASE a < i
    BY <1>1 DEF Spliced, StandsFor
  <1>2. CASE ~ (a < i) /\ a < i + Len(data)
    <2>1. PICK q \in 1 .. Len(data) : a = i - 1 + q
      <3>1. a - i + 1 \in 1 .. Len(data) /\ a = i - 1 + (a - i + 1)
        BY <1>2 DEF Spliced, StandsFor
      <3>. QED  BY <3>1
    <2>. QED  BY <2>1 DEF Spliced, StandsFor
  <1>3. CASE ~ (a < i + Len(data))
    <2>1. PICK q \in 1 .. Len(target) : a = q + Len(data) /\ ~ (q < i)
      <3>1. /\ a - Len(data) \in 1 .. Len(target) /\ a = (a - Len(data)) + Len(data)
            /\ ~ (a - Len(data) < i)
        BY <1>3 DEF Spliced, StandsFor
      <3>. QED  BY <3>1
    <2>. QED  BY <2>1 DEF Spliced, StandsFor
  <1>. QED  BY <1>1, <1>2, <1>3

\* A line the data does not have is the target's, at or after its place.
LEMMA SplicedKept ==
    ASSUME NEW s, NEW target, NEW i, NEW data, Spliced(s, target, i, data),
           NEW j, Lacks(data, j),
           NEW a \in 1 .. Len(s), s[a].from = j
    PROVE  \E q \in 1 .. Len(target) :
              target[q].from = j /\ a = IF q < i THEN q ELSE q + Len(data)
  BY SplicedLines DEF Lacks, StandsFor

\* Lines of the target keep their order.
LEMMA TextKept ==
    ASSUME NEW s, NEW target, NEW i, NEW data, Spliced(s, target, i, data),
           NEW j, Lacks(data, j),
           NEW k, Lacks(data, k), TextBefore(target, j, k)
    PROVE  TextBefore(s, j, k)
  <1>0. /\ Len(s) = Len(target) + Len(data) /\ Len(target) \in Nat /\ Len(data) \in Nat
        /\ i \in 1 .. Len(target)
    BY DEF Spliced
  <1>. SUFFICES ASSUME NEW a \in 1 .. Len(s), NEW b \in 1 .. Len(s),
                       s[a].from = j, s[b].from = k
                PROVE  a < b
    BY DEF TextBefore
  <1>1. PICK q \in 1 .. Len(target) : target[q].from = j /\ a = IF q < i THEN q ELSE q + Len(data)
    BY SplicedKept
  <1>2. PICK r \in 1 .. Len(target) : target[r].from = k /\ b = IF r < i THEN r ELSE r + Len(data)
    BY SplicedKept
  <1>3. q < r
    BY <1>1, <1>2 DEF TextBefore
  <1>. QED  BY <1>0, <1>1, <1>2, <1>3

\* Those before position i come before the lines of the data.
LEMMA TextSplit ==
    ASSUME NEW s, NEW target, NEW i, NEW data, Spliced(s, target, i, data),
           NEW j, Lacks(data, j),
           NEW k, Lacks(target, k),
           \A q \in 1 .. Len(target) : target[q].from = j => q < i
    PROVE  TextBefore(s, j, k)
  <1>0. /\ Len(s) = Len(target) + Len(data) /\ Len(target) \in Nat /\ Len(data) \in Nat
        /\ i \in 1 .. Len(target)
    BY DEF Spliced
  <1>. SUFFICES ASSUME NEW a \in 1 .. Len(s), NEW b \in 1 .. Len(s),
                       s[a].from = j, s[b].from = k
                PROVE  a < b
    BY DEF TextBefore
  <1>1. PICK q \in 1 .. Len(target) : target[q].from = j /\ a = IF q < i THEN q ELSE q + Len(data)
    BY SplicedKept
  <1>2. PICK r \in 1 .. Len(data) : b = i - 1 + r
    <2>1. ASSUME NEW r \in 1 .. Len(target), s[b] = target[r] PROVE FALSE
      BY <2>1 DEF Lacks
    <2>2. \/ b \in 1 .. Len(target) /\ s[b] = target[b]
          \/ \E r \in 1 .. Len(data) : b = i - 1 + r
          \/ \E r \in 1 .. Len(target) : s[b] = target[r]
      <3>1. StandsFor(s, target, i, data, b)
        BY SplicedLines
      <3>. QED  BY <3>1 DEF StandsFor
    <2>. QED  BY <2>1, <2>2
  <1>3. q < i
    BY <1>1
  <1>. QED  BY <1>0, <1>1, <1>2, <1>3

\* Lines of the target keep their order with marks, if the data has none.
LEMMA MarkKept ==
    ASSUME NEW s, NEW target, NEW i, NEW data, Spliced(s, target, i, data),
           NEW j, Lacks(data, j),
           NEW point, \A q \in 1 .. Len(data) : data[q].mark # point,
           MarkAfter(target, j, point)
    PROVE  MarkAfter(s, j, point)
  <1>0. /\ Len(s) = Len(target) + Len(data) /\ Len(target) \in Nat /\ Len(data) \in Nat
        /\ i \in 1 .. Len(target)
    BY DEF Spliced
  <1>. SUFFICES ASSUME NEW a \in 1 .. Len(s), NEW b \in 1 .. Len(s),
                       s[a].from = j, s[b].mark = point
                PROVE  a < b
    BY DEF MarkAfter
  <1>1. PICK q \in 1 .. Len(target) : target[q].from = j /\ a = IF q < i THEN q ELSE q + Len(data)
    BY SplicedKept
  <1>2. PICK r \in 1 .. Len(target) : target[r].mark = point /\ b = IF r < i THEN r ELSE r + Len(data)
    <2>1. ASSUME NEW r \in 1 .. Len(data), s[b].mark = data[r].mark PROVE FALSE
      BY <2>1 DEF Lacks
    <2>2. \/ b \in 1 .. Len(target) /\ b < i /\ s[b] = target[b]
          \/ \E r \in 1 .. Len(data) : s[b].mark = data[r].mark
          \/ \E r \in 1 .. Len(target) : b = r + Len(data) /\ ~ (r < i) /\ s[b] = target[r]
      <3>1. StandsFor(s, target, i, data, b)
        BY SplicedLines
      <3>. QED  BY <3>1 DEF StandsFor
    <2>. QED  BY <2>1, <2>2
  <1>3. q < r
    BY <1>1, <1>2 DEF MarkAfter
  <1>. QED  BY <1>0, <1>1, <1>2, <1>3

\* Lines before position i come before the marks of a point, if none is before it.
LEMMA MarkSplit ==
    ASSUME NEW s, NEW target, NEW i, NEW data, Spliced(s, target, i, data),
           NEW j, Lacks(data, j),
           NEW point, \A q \in 1 .. Len(target) : target[q].from = j => q < i,
           \A q \in 1 .. Len(target) : q < i => target[q].mark # point
    PROVE  MarkAfter(s, j, point)
  <1>0. /\ Len(s) = Len(target) + Len(data) /\ Len(target) \in Nat /\ Len(data) \in Nat
        /\ i \in 1 .. Len(target)
    BY DEF Spliced
  <1>. SUFFICES ASSUME NEW a \in 1 .. Len(s), NEW b \in 1 .. Len(s),
                       s[a].from = j, s[b].mark = point
                PROVE  a < b
    BY DEF MarkAfter
  <1>1. PICK q \in 1 .. Len(target) : target[q].from = j /\ a = IF q < i THEN q ELSE q + Len(data)
    BY SplicedKept
  <1>2. q < i
    BY <1>1
  <1>3. ~ (b < i)
    <2>. SUFFICES ASSUME b < i PROVE FALSE
      OBVIOUS
    <2>1. b \in 1 .. Len(target) /\ s[b] = target[b]
      BY <1>0 DEF Spliced
    <2>. QED  BY <2>1
  <1>. QED  BY <1>0, <1>1, <1>2, <1>3

\* A line the target does not have is the data's.
LEMMA SplicedNew ==
    ASSUME NEW s, NEW target, NEW i, NEW data, Spliced(s, target, i, data),
           NEW j, Lacks(target, j),
           NEW a \in 1 .. Len(s), s[a].from = j
    PROVE  \E q \in 1 .. Len(data) : data[q].from = j /\ a = i - 1 + q
  BY SplicedLines DEF Lacks, StandsFor

\* Lines of the data keep their order.
LEMMA TextOwn ==
    ASSUME NEW s, NEW target, NEW i, NEW data, Spliced(s, target, i, data),
           NEW j, Lacks(target, j),
           NEW k, Lacks(target, k), TextBefore(data, j, k)
    PROVE  TextBefore(s, j, k)
  <1>0. /\ Len(s) = Len(target) + Len(data) /\ Len(target) \in Nat /\ Len(data) \in Nat
        /\ i \in 1 .. Len(target)
    BY DEF Spliced
  <1>. SUFFICES ASSUME NEW a \in 1 .. Len(s), NEW b \in 1 .. Len(s),
                       s[a].from = j, s[b].from = k
                PROVE  a < b
    BY DEF TextBefore
  <1>1. PICK q \in 1 .. Len(data) : data[q].from = j /\ a = i - 1 + q
    BY SplicedNew
  <1>2. PICK r \in 1 .. Len(data) : data[r].from = k /\ b = i - 1 + r
    BY SplicedNew
  <1>3. q < r
    BY <1>1, <1>2 DEF TextBefore
  <1>. QED  BY <1>0, <1>1, <1>2, <1>3

\* No line of a text before position i marks the point.
UnmarkedBefore(content, i, point) ==
    \A q \in 1 .. Len(content) : q < i => content[q].mark # point

\* They come before the marks of a point, if none is before position i or in the data.
LEMMA MarkOwn ==
    ASSUME NEW s, NEW target, NEW i, NEW data, Spliced(s, target, i, data),
           NEW j, Lacks(target, j),
           NEW point, ~ Marks(data, point), UnmarkedBefore(target, i, point)
    PROVE  MarkAfter(s, j, point)
  <1>0. /\ Len(s) = Len(target) + Len(data) /\ Len(target) \in Nat /\ Len(data) \in Nat
        /\ i \in 1 .. Len(target)
    BY DEF Spliced
  <1>. SUFFICES ASSUME NEW a \in 1 .. Len(s), NEW b \in 1 .. Len(s),
                       s[a].from = j, s[b].mark = point
                PROVE  a < b
    BY DEF MarkAfter
  <1>1. PICK q \in 1 .. Len(data) : a = i - 1 + q
    BY SplicedNew
  <1>2. PICK r \in 1 .. Len(target) : b = r + Len(data) /\ ~ (r < i)
    <2>1. StandsFor(s, target, i, data, b)
      BY SplicedLines
    <2>2. ASSUME NEW m \in 1 .. Len(data), s[b].mark = data[m].mark PROVE FALSE
      BY <2>2 DEF Marks
    <2>3. ~ (b \in 1 .. Len(target) /\ b < i /\ s[b] = target[b])
      BY DEF UnmarkedBefore
    <2>. QED  BY <2>1, <2>2, <2>3 DEF StandsFor
  <1>. QED  BY <1>0, <1>1, <1>2

-------------------------------------------------------------------------------
(* What each file holds while a response is replayed. *)

\* The point of entry j has not been brought into its file again by the text of its
\* chunk, nor since, up to entry m, by text that goes elsewhere.
Unbrought(j, m) ==
    \A i \in 1 .. Len(Entries) : i < m /\ FileOf(i) = FileOf(j) =>
        /\ HeadOf(i) = HeadOf(j) => ~Brings(i, PointOf(j))
        /\ HeadOf(j) < HeadOf(i) /\ PointOf(i) # PointOf(j) => ~Brings(i, PointOf(j))

\* What the chunks before entry m have made of a file: the lines of their entries and
\* no more; those inserted at a point before the point, where the next go, and after
\* the lines inserted there before them.
HoldsLines(content, n, m) ==
    \A j \in 1 .. Len(Entries) :
        CountFrom(content, j) = IF j < m /\ FileOf(j) = n THEN Len(Entries[j].data) ELSE 0

PrecedesPoint(content, n, m) ==
    \A j \in 1 .. Len(Entries) :
        j < m /\ FileOf(j) = n /\ PointOf(j) # NoPoint /\ Unbrought(j, m) =>
            MarkAfter(content, j, PointOf(j))

InOrder(content, n, m) ==
    \A j, k \in 1 .. Len(Entries) :
        j < k /\ k < m /\ FileOf(j) = n /\ InsertedAlike(j, k) => TextBefore(content, j, k)

FileDelivered(content, n, m) ==
    HoldsLines(content, n, m) /\ PrecedesPoint(content, n, m) /\ InOrder(content, n, m)

Delivered(m) == ~hadError => \A n \in DOMAIN files : FileDelivered(files[n], n, m)

\* The current chunk has the lines of its entries, one entry after the other.
Gathered(h, k) ==
    /\ \A j \in 1 .. Len(Entries) :
          CountFrom(current.data, j) = IF j \in h .. k THEN Len(Entries[j].data) ELSE 0
    /\ \A i, j \in h .. k : i < j => TextBefore(current.data, i, j)

\* The entries of a chunk, and those before it.
LEMMA ChunkEntries ==
    ASSUME run \in Run, p \in Nat \ {0}, p <= Len(run.plugins), 1 \in Heads,
           NEW h \in Heads, NEW k \in h .. Len(Entries),
           \A g \in Heads : g <= k => g <= h
    PROVE  /\ h \in Nat /\ k \in Nat /\ Len(Entries) \in Nat /\ h <= k /\ k <= Len(Entries)
           /\ \A j \in h .. k : /\ j \in 1 .. Len(Entries) /\ HeadOf(j) = h
                                /\ FileOf(j) = Entries[h].name /\ PointOf(j) = Entries[h].point
           /\ \A j \in 1 .. Len(Entries) : j < h => HeadOf(j) \in Nat /\ HeadOf(j) < h
           /\ \A j \in 1 .. Len(Entries) : j < k + 1 <=> j < h \/ j \in h .. k
           /\ \A j \in 1 .. Len(Entries) : j \in h .. k => ~ (j < h)
  <1>1. /\ h \in 1 .. Len(Entries) /\ h \in Nat /\ k \in Nat /\ Len(Entries) \in Nat
        /\ Heads \subseteq 1 .. Len(Entries) /\ h <= k /\ k <= Len(Entries)
    BY EntriesType
  <1>2. ASSUME NEW j \in h .. k
        PROVE  /\ j \in 1 .. Len(Entries) /\ HeadOf(j) = h
               /\ FileOf(j) = Entries[h].name /\ PointOf(j) = Entries[h].point
    <2>1. j \in 1 .. Len(Entries) /\ h <= j /\ \A g \in Heads : g <= j => g <= h
      BY <1>1
    <2>2. HeadOf(j) = h
      BY <2>1, HeadOfUnique
    <2>. QED  BY <2>1, <2>2 DEF FileOf, PointOf
  <1>3. ASSUME NEW j \in 1 .. Len(Entries), j < h PROVE HeadOf(j) \in Nat /\ HeadOf(j) < h
    <2>1. HeadOf(j) \in Nat /\ HeadOf(j) <= j
      BY HeadOfEntry
    <2>. QED  BY <1>1, <1>3, <2>1
  <1>4. \A j \in 1 .. Len(Entries) : /\ j < k + 1 <=> j < h \/ j \in h .. k
                                     /\ j \in h .. k => ~ (j < h)
    BY <1>1
  <1>. QED  BY <1>1, <1>2, <1>3, <1>4

\* A chunk that is applied without an error leaves the other files alone, and either
\* makes its own or is inserted before the first mark of its point.
LEMMA FlushMeans ==
    ASSUME run \in Run, p \in Nat \ {0}, p <= Len(run.plugins), 1 \in Heads,
           NEW h \in Heads, NEW k \in h .. Len(Entries),
           \A g \in Heads : g <= k => g <= h,
           Replayed(h), Accumulated(h, k),
           Flush, ~hadError'
    PROVE  /\ ~hadError /\ current.data \in Seq(Line)
           /\ DOMAIN files' = DOMAIN files \cup {current.name}
           /\ \A n \in DOMAIN files : n # current.name => files'[n] = files[n]
           /\ \/ /\ current.point = NoPoint /\ ~Present
                 /\ files'[current.name] = current.data
              \/ /\ current.point # NoPoint /\ Present
                 /\ files[current.name] \in Seq(Line)
                 /\ \E i \in 1 .. Len(files[current.name]) :
                       /\ files[current.name][i].mark = current.point
                       /\ \A q \in 1 .. Len(files[current.name]) :
                             q < i => files[current.name][q].mark # current.point
                       /\ files'[current.name] = Splice(files[current.name], i, current.data)
  <1>1. current # NoChunk /\ current.data \in Seq(Line)
    BY BeforeChunk
  <1>2. PlainWrite \/ Insertion
    BY <1>1 DEF Flush
  <1>3. \A n \in DOMAIN files : files[n] \in Seq(Line)
    BY DEF Replayed
  <1>4. hadError \in BOOLEAN
    BY DEF Replayed
  <1>5. ASSUME NEW content, Store(content)
        PROVE  /\ DOMAIN files' = DOMAIN files \cup {current.name}
               /\ files'[current.name] = content
               /\ \A n \in DOMAIN files : n # current.name => files'[n] = files[n]
    BY <1>5 DEF Store, With
  <1>6. CASE PlainWrite
    <2>1. /\ current.point = NoPoint /\ ~Present /\ Store(current.data) /\ hadError' = hadError
      BY <1>6 DEF PlainWrite
    <2>. QED  BY <1>1, <1>5, <2>1
  <1>7. CASE Insertion
    <2>. DEFINE target == files[current.name]
                S == Marked(current.point)
    <2>1. /\ current.point # NoPoint /\ Present /\ S # {} /\ hadError' = hadError
          /\ Store(Splice(target, Min(S), current.data))
      BY <1>7 DEF Insertion
    <2>2. target \in Seq(Line) /\ DOMAIN target = 1 .. Len(target) /\ Len(target) \in Nat
      BY <1>3, <2>1, LenProperties DEF Present
    <2>3. S \in SUBSET Nat /\ S = {q \in 1 .. Len(target) : target[q].mark = current.point}
      BY <2>2 DEF Marked
    <2>4. \E m \in S : \A q \in S : m <= q
      <3>. HIDE DEF S
      <3>. QED  BY <2>1, <2>3, LeastNat
    <2>5. PICK i \in S : i = Min(S) /\ \A q \in S : i <= q
      <3>. HIDE DEF S
      <3>. QED  BY <2>4 DEF Min
    <2>. HIDE DEF S
    <2>6. /\ i \in 1 .. Len(target) /\ target[i].mark = current.point
          /\ \A q \in 1 .. Len(target) : q < i => target[q].mark # current.point
      <3>. HIDE DEF target
      <3>1. i \in 1 .. Len(target) /\ target[i].mark = current.point
        BY <2>3, <2>5
      <3>2. ASSUME NEW q \in 1 .. Len(target), q < i PROVE target[q].mark # current.point
        <4>1. q \notin S
          BY <2>2, <2>5, <3>1, <3>2
        <4>. QED  BY <2>3, <4>1
      <3>. QED  BY <3>1, <3>2
    <2>7. /\ DOMAIN files' = DOMAIN files \cup {current.name}
          /\ files'[current.name] = Splice(target, i, current.data)
          /\ \A n \in DOMAIN files : n # current.name => files'[n] = files[n]
      BY <1>5, <2>1, <2>5
    <2>. QED  BY <1>1, <2>1, <2>2, <2>6, <2>7
  <1>. QED  BY <1>2, <1>6, <1>7

\* A point is unbrought up to an entry if it is up to a later one; and two entries
\* inserted alike have the point of the first unbrought up to the chunk of the second.
LEMMA UnbroughtUpTo ==
    ASSUME run \in Run, p \in Nat \ {0}, p <= Len(run.plugins), 1 \in Heads,
           NEW h \in Heads, NEW k \in h .. Len(Entries),
           \A g \in Heads : g <= k => g <= h,
           NEW j \in 1 .. Len(Entries)
    PROVE  /\ Unbrought(j, k + 1) => Unbrought(j, h)
           /\ \A l \in h .. k : InsertedAlike(j, l) => Unbrought(j, h)
  <1>1. Unbrought(j, k + 1) => Unbrought(j, h)
    BY ChunkEntries DEF Unbrought
  <1>2. ASSUME NEW l \in h .. k, InsertedAlike(j, l) PROVE Unbrought(j, h)
    <2>1. DOMAIN Entries = 1 .. Len(Entries) /\ HeadOf(l) = h
      BY EntriesType, ChunkEntries
    <2>2. ASSUME NEW i \in 1 .. Len(Entries), i < h, FileOf(i) = FileOf(j)
          PROVE  /\ HeadOf(i) = HeadOf(j) => ~Brings(i, PointOf(j))
                 /\ HeadOf(j) < HeadOf(i) /\ PointOf(i) # PointOf(j) => ~Brings(i, PointOf(j))
      <3>1. HeadOf(i) < h
        BY <2>2, ChunkEntries
      <3>. QED  BY <1>2, <2>1, <2>2, <3>1 DEF InsertedAlike
    <2>. QED  BY <2>2 DEF Unbrought
  <1>. QED  BY <1>1, <1>2

\* To insert a chunk is to have delivered one more to its file.
LEMMA InsertionDelivers ==
    ASSUME run \in Run, p \in Nat \ {0}, p <= Len(run.plugins), 1 \in Heads,
           NEW h \in Heads, NEW k \in h .. Len(Entries),
           \A g \in Heads : g <= k => g <= h,
           Accumulated(h, k), Gathered(h, k), current.data \in Seq(Line), current.point # NoPoint,
           NEW target \in Seq(Line), FileDelivered(target, current.name, h),
           NEW i \in 1 .. Len(target), target[i].mark = current.point,
           \A q \in 1 .. Len(target) : q < i => target[q].mark # current.point
    PROVE  FileDelivered(Splice(target, i, current.data), current.name, k + 1)
  <1>. DEFINE n == current.name
              data == current.data
  <1>1. PICK s \in Seq(Line) :
           /\ s = Splice(target, i, data)
           /\ Len(s) = Len(target) + Len(data)
           /\ \A q \in 1 .. Len(target) : q < i => s[q] = target[q]
           /\ \A q \in 1 .. Len(data) : /\ s[i - 1 + q].mark = data[q].mark
                                        /\ s[i - 1 + q].from = data[q].from
           /\ \A q \in 1 .. Len(target) : ~ (q < i) => s[q + Len(data)] = target[q]
           /\ \A l : CountFrom(s, l) = CountFrom(target, l) + CountFrom(data, l)
    BY SpliceShape
  <1>2. Spliced(s, target, i, data)
    BY <1>1, LenProperties DEF Spliced
  <1>. HIDE DEF n, data
  <1>3. /\ \A j \in h .. k : /\ j \in 1 .. Len(Entries) /\ HeadOf(j) = h
                             /\ FileOf(j) = n /\ PointOf(j) = current.point
        /\ \A j \in 1 .. Len(Entries) : j < h => HeadOf(j) \in Nat /\ HeadOf(j) < h
        /\ \A j \in 1 .. Len(Entries) : j < k + 1 <=> j < h \/ j \in h .. k
        /\ \A j \in 1 .. Len(Entries) : j \in h .. k => ~ (j < h)
    BY ChunkEntries DEF n, Accumulated
  <1>4. h \in Nat /\ k \in Nat /\ Len(Entries) \in Nat /\ h <= k /\ k <= Len(Entries)
    BY ChunkEntries
  <1>5. \A j \in 1 .. Len(Entries) :
           /\ CountFrom(target, j) = IF j < h /\ FileOf(j) = n THEN Len(Entries[j].data) ELSE 0
           /\ CountFrom(data, j) = IF j \in h .. k THEN Len(Entries[j].data) ELSE 0
           /\ Len(Entries[j].data) \in Nat
    BY EntriesType, LenProperties DEF n, data, Gathered, FileDelivered, HoldsLines
  \* The lines of earlier entries are in the target, those of the chunk in the data.
  <1>6. \A j \in 1 .. Len(Entries) : j \notin h .. k => Lacks(data, j)
    <2>. SUFFICES ASSUME NEW j \in 1 .. Len(Entries), j \notin h .. k
                  PROVE  Lacks(data, j)
      OBVIOUS
    <2>1. CountFrom(data, j) = 0
      BY <1>5
    <2>. QED  BY <2>1, CountIs DEF data, Lacks
  <1>7. \A j \in h .. k : Lacks(target, j)
    <2>. SUFFICES ASSUME NEW j \in h .. k
                  PROVE  Lacks(target, j)
      OBVIOUS
    <2>1. CountFrom(target, j) = 0
      BY <1>3, <1>5
    <2>. QED  BY <2>1, CountIs DEF Lacks
  <1>8. \A point \in AnyPoint :
           (\A j \in h .. k : ~Brings(j, point)) => \A q \in 1 .. Len(data) : data[q].mark # point
    <2>1. \A j \in h .. k : DOMAIN Entries[j].data = 1 .. Len(Entries[j].data)
      BY <1>3, EntriesType
    <2>2. \A j \in h .. k : \A point : Brings(j, point) <=> Marks(Entries[j].data, point)
      BY <2>1 DEF Brings, Marks
    <2>3. \A point \in AnyPoint : Marks(data, point) => \E j \in h .. k : Marks(Entries[j].data, point)
      BY DEF Accumulated, data
    <2>. QED  BY <2>2, <2>3 DEF Marks
  \* What has been inserted at the point before comes before position i.
  <1>9. ASSUME NEW j \in 1 .. Len(Entries), j < h, FileOf(j) = n, PointOf(j) = current.point,
               Unbrought(j, h)
        PROVE  \A q \in 1 .. Len(target) : target[q].from = j => q < i
    <2>1. MarkAfter(target, j, current.point)
      BY <1>9 DEF FileDelivered, PrecedesPoint, n
    <2>. QED  BY <2>1 DEF MarkAfter
  <1>10. HoldsLines(s, n, k + 1)
    <2>. SUFFICES ASSUME NEW j \in 1 .. Len(Entries)
                  PROVE  CountFrom(s, j) = IF j < k + 1 /\ FileOf(j) = n
                                           THEN Len(Entries[j].data) ELSE 0
      BY DEF HoldsLines
    <2>1. CountFrom(s, j) = CountFrom(target, j) + CountFrom(data, j)
      BY <1>1
    <2>2. CASE j \in h .. k
      BY <1>3, <1>5, <2>1, <2>2
    <2>3. CASE j \notin h .. k
      BY <1>3, <1>5, <2>1, <2>3
    <2>. QED  BY <2>2, <2>3
  <1>11. PrecedesPoint(s, n, k + 1)
    <2>. SUFFICES ASSUME NEW j \in 1 .. Len(Entries), j < k + 1, FileOf(j) = n,
                         PointOf(j) # NoPoint, Unbrought(j, k + 1)
                  PROVE  MarkAfter(s, j, PointOf(j))
      BY DEF PrecedesPoint
    <2>. PICK point \in AnyPoint : point = PointOf(j)
      <3>1. HeadOf(j) \in 1 .. Len(Entries)
        BY HeadOfEntry, EntriesType
      <3>2. Entries[HeadOf(j)].point \in AnyPoint
        BY <3>1, EntriesType DEF Entry
      <3>. QED  BY <3>2 DEF PointOf
    <2>. SUFFICES MarkAfter(s, j, point)
      OBVIOUS
    <2>1. CASE j \in h .. k
      <3>1. PointOf(j) = current.point /\ HeadOf(j) = h
        BY <1>3, <2>1
      <3>2. \A l \in h .. k : ~Brings(l, point)
        BY <1>3, <3>1 DEF Unbrought
      <3>3. Lacks(target, j)
        BY <1>7, <2>1
      <3>4. \A q \in 1 .. Len(data) : data[q].mark # point
        BY <1>8, <3>2
      <3>5. \A q \in 1 .. Len(target) : q < i => target[q].mark # point
        BY <3>1
      <3>6. ~ Marks(data, point)
        BY <3>4 DEF Marks
      <3>7. UnmarkedBefore(target, i, point)
        BY <3>5 DEF UnmarkedBefore
      <3>. QED  BY <1>2, <3>3, <3>6, <3>7, MarkOwn
    <2>2. CASE j \notin h .. k
      <3>1. j < h /\ Unbrought(j, h) /\ HeadOf(j) < h
        BY <1>3, <2>2, UnbroughtUpTo
      <3>2. Lacks(data, j)
        BY <1>6, <2>2
      <3>3. CASE PointOf(j) = current.point
        <4>1. \A q \in 1 .. Len(target) : target[q].from = j => q < i
          BY <1>9, <3>1, <3>3
        <4>2. \A q \in 1 .. Len(target) : q < i => target[q].mark # point
          BY <3>3
        <4>. QED  BY <1>2, <3>2, <4>1, <4>2, MarkSplit
      <3>4. CASE PointOf(j) # current.point
        <4>1. \A l \in h .. k : ~Brings(l, point)
          <5>1. \A l \in h .. k : /\ l \in 1 .. Len(Entries) /\ l < k + 1 /\ FileOf(l) = FileOf(j)
                                  /\ HeadOf(j) < HeadOf(l) /\ PointOf(l) # PointOf(j)
            BY <1>3, <3>1, <3>4
          <5>. QED  BY <5>1 DEF Unbrought
        <4>2. \A q \in 1 .. Len(data) : data[q].mark # point
          BY <1>8, <4>1
        <4>3. MarkAfter(target, j, point)
          BY <3>1 DEF FileDelivered, PrecedesPoint, n
        <4>. QED  BY <1>2, <3>2, <4>2, <4>3, MarkKept
      <3>. QED  BY <3>3, <3>4
    <2>. QED  BY <2>1, <2>2
  <1>12. InOrder(s, n, k + 1)
    <2>. SUFFICES ASSUME NEW j \in 1 .. Len(Entries), NEW l \in 1 .. Len(Entries),
                         j < l, l < k + 1, FileOf(j) = n, InsertedAlike(j, l)
                  PROVE  TextBefore(s, j, l)
      BY DEF InOrder
    <2>1. CASE l \notin h .. k
      <3>1. l < h /\ j < h /\ j \notin h .. k
        BY <1>3, <1>4, <2>1
      <3>2. TextBefore(target, j, l)
        BY <3>1 DEF FileDelivered, InOrder, n
      <3>. QED  BY <1>2, <1>6, <2>1, <3>1, <3>2, TextKept
    <2>2. CASE l \in h .. k /\ j \in h .. k
      <3>1. TextBefore(data, j, l)
        BY <2>2 DEF Gathered, data
      <3>. QED  BY <1>2, <1>7, <2>2, <3>1, TextOwn
    <2>3. CASE l \in h .. k /\ j \notin h .. k
      <3>1. j < h
        BY <1>3, <1>4, <2>3
      <3>0. Unbrought(j, h)
        BY <2>3, UnbroughtUpTo
      <3>2. PointOf(j) = current.point
        BY <1>3, <2>3 DEF InsertedAlike
      <3>3. \A q \in 1 .. Len(target) : target[q].from = j => q < i
        BY <1>9, <3>0, <3>1, <3>2
      <3>. QED  BY <1>2, <1>6, <1>7, <2>3, <3>3, TextSplit
    <2>. QED  BY <2>1, <2>2, <2>3
  <1>. QED  BY <1>1, <1>10, <1>11, <1>12 DEF FileDelivered, n, data

\* What has been delivered is told by the response, which does not change.
LEMMA DeliveredStatic ==
    ASSUME run' = run, p' = p
    PROVE  /\ \A content, n, m : FileDelivered(content, n, m)' <=> FileDelivered(content, n, m)
           /\ \A j, m : Unbrought(j, m)' <=> Unbrought(j, m)
           /\ \A j, k : InsertedAlike(j, k)' <=> InsertedAlike(j, k)
  <1>1. /\ Entries' = Entries
        /\ \A k : HeadOf(k)' = HeadOf(k) /\ FileOf(k)' = FileOf(k) /\ PointOf(k)' = PointOf(k)
    BY Static
  <1>2. \A k, point : Brings(k, point)' <=> Brings(k, point)
    BY <1>1 DEF Brings
  <1>3. \A j, m : Unbrought(j, m)' <=> Unbrought(j, m)
    BY <1>1, <1>2 DEF Unbrought
  <1>4. \A j, k : InsertedAlike(j, k)' <=> InsertedAlike(j, k)
    BY <1>1, <1>2 DEF InsertedAlike
  <1>5. ASSUME NEW content, NEW n, NEW m
        PROVE  FileDelivered(content, n, m)' <=> FileDelivered(content, n, m)
    <2>1. HoldsLines(content, n, m)' <=> HoldsLines(content, n, m)
      BY <1>1 DEF HoldsLines, CountFrom
    <2>2. PrecedesPoint(content, n, m)' <=> PrecedesPoint(content, n, m)
      BY <1>1, <1>3 DEF PrecedesPoint, MarkAfter
    <2>3. InOrder(content, n, m)' <=> InOrder(content, n, m)
      BY <1>1, <1>4 DEF InOrder, TextBefore
    <2>. QED  BY <2>1, <2>2, <2>3 DEF FileDelivered
  <1>. QED  BY <1>3, <1>4, <1>5

\* To apply a chunk without an error is to have delivered one more.
LEMMA DeliverChunk ==
    ASSUME run \in Run, p \in Nat \ {0}, p <= Len(run.plugins), 1 \in Heads,
           NEW h \in Heads, NEW k \in h .. Len(Entries),
           \A g \in Heads : g <= k => g <= h,
           Replayed(h), Accumulated(h, k), Delivered(h), Gathered(h, k),
           Flush, run' = run, p' = p
    PROVE  Delivered(k + 1)'
  <1>. SUFFICES ASSUME ~hadError', NEW n \in DOMAIN files', NEW content, content = files'[n]
                PROVE  FileDelivered(content, n, k + 1)
    BY DeliveredStatic DEF Delivered
  <1>1. /\ ~hadError /\ current.data \in Seq(Line)
        /\ DOMAIN files' = DOMAIN files \cup {current.name}
        /\ \A m \in DOMAIN files : m # current.name => files'[m] = files[m]
    BY FlushMeans
  <1>2. \A m \in DOMAIN files : FileDelivered(files[m], m, h)
    BY <1>1 DEF Delivered
  <1>3. /\ \A j \in h .. k : /\ j \in 1 .. Len(Entries) /\ HeadOf(j) = h
                             /\ FileOf(j) = current.name /\ PointOf(j) = current.point
        /\ \A j \in 1 .. Len(Entries) : j < k + 1 <=> j < h \/ j \in h .. k
        /\ \A j \in 1 .. Len(Entries) : j \in h .. k => ~ (j < h)
        /\ \A j \in 1 .. Len(Entries) : j < h => FileOf(j) \in DOMAIN files
        /\ h \in Nat /\ k \in Nat /\ Len(Entries) \in Nat /\ h <= k
    BY ChunkEntries, BeforeChunk DEF Accumulated
  <1>4. CASE n # current.name
    <2>1. n \in DOMAIN files /\ content = files[n] /\ FileDelivered(content, n, h)
      BY <1>1, <1>2, <1>4
    <2>2. \A j \in 1 .. Len(Entries) : FileOf(j) = n => (j < k + 1 <=> j < h)
      BY <1>3, <1>4
    <2>3. \A j \in 1 .. Len(Entries) : Unbrought(j, k + 1) => Unbrought(j, h)
      BY UnbroughtUpTo
    <2>4. HoldsLines(content, n, k + 1)
      BY <2>1, <2>2 DEF FileDelivered, HoldsLines
    <2>5. PrecedesPoint(content, n, k + 1)
      BY <2>1, <2>2, <2>3 DEF FileDelivered, PrecedesPoint
    <2>6. InOrder(content, n, k + 1)
      BY <2>1, <2>2 DEF FileDelivered, InOrder, InsertedAlike
    <2>. QED  BY <2>4, <2>5, <2>6 DEF FileDelivered
  <1>5. CASE n = current.name /\ current.point = NoPoint /\ ~Present /\ files'[n] = current.data
    <2>1. \A j \in 1 .. Len(Entries) : FileOf(j) = n /\ j < k + 1 <=> j \in h .. k
      BY <1>3, <1>5 DEF Present
    <2>2. HoldsLines(content, n, k + 1)
      BY <1>5, <2>1 DEF HoldsLines, Gathered
    <2>3. PrecedesPoint(content, n, k + 1)
      BY <1>3, <1>5, <2>1 DEF PrecedesPoint
    <2>4. InOrder(content, n, k + 1)
      <3>. SUFFICES ASSUME NEW j \in 1 .. Len(Entries), NEW l \in 1 .. Len(Entries),
                           j < l, l < k + 1, FileOf(j) = n, InsertedAlike(j, l)
                    PROVE  FALSE
        BY DEF InOrder
      <3>1. j < k + 1
        BY <1>3
      <3>2. PointOf(j) = NoPoint
        BY <1>3, <1>5, <2>1, <3>1
      <3>. QED  BY <3>2 DEF InsertedAlike
    <2>. QED  BY <2>2, <2>3, <2>4 DEF FileDelivered
  <1>6. CASE /\ n = current.name /\ current.point # NoPoint /\ Present
             /\ files[current.name] \in Seq(Line)
             /\ \E i \in 1 .. Len(files[current.name]) :
                   /\ files[current.name][i].mark = current.point
                   /\ \A q \in 1 .. Len(files[current.name]) :
                         q < i => files[current.name][q].mark # current.point
                   /\ files'[current.name] = Splice(files[current.name], i, current.data)
    <2>1. PICK target \in Seq(Line) : target = files[current.name]
      BY <1>6
    <2>2. PICK i \in 1 .. Len(target) :
             /\ target[i].mark = current.point
             /\ \A q \in 1 .. Len(target) : q < i => target[q].mark # current.point
             /\ content = Splice(target, i, current.data)
      BY <1>6, <2>1
    <2>3. FileDelivered(target, current.name, h)
      BY <1>2, <1>6, <2>1 DEF Present
    <2>4. FileDelivered(Splice(target, i, current.data), current.name, k + 1)
      BY <1>1, <1>6, <2>2, <2>3, InsertionDelivers
    <2>. QED  BY <1>6, <2>2, <2>4
  <1>. QED  BY <1>4, <1>5, <1>6, FlushMeans

-------------------------------------------------------------------------------
(* While the response is replayed and written. *)

\* The files written so far are those that come first.
Written ==
    Format[Where] = "dir" =>
        \A n \in Collected : Rank(n) < at => n \in DOMAIN disk[Where] /\ disk[Where][n] = files[n]

LinesInv ==
    /\ run \in Runs
    /\ DOMAIN disk = Location
    /\ pc = "collect" => \A h \in Heads : LastHead(h, at) => Delivered(h) /\ Gathered(h, at)
    /\ pc = "write" => /\ \E m \in Nat : m = Len(Entries) + 1 /\ Delivered(m)
                       /\ Written

\* The lines of an entry are labelled with it.
LEMMA EntryLines ==
    ASSUME run \in Runs, p \in Nat \ {0}, p <= Len(run.plugins),
           NEW k \in 1 .. Len(Entries)
    PROVE  \A j : CountFrom(Entries[k].data, j) = IF j = k THEN Len(Entries[k].data) ELSE 0
  <1>1. run \in Run
    BY RunsAssumption
  <1>2. PICK data \in Seq(Line) : data = Entries[k].data
    BY <1>1, EntriesType
  <1>3. DOMAIN data = 1 .. Len(data) /\ Len(data) \in Nat
    BY LenProperties
  <1>4. \A l \in 1 .. Len(data) : data[l].from = k
    <2>1. run.plugins \in Seq(Plugin)
      BY <1>1 DEF Run
    <2>2. p \in DOMAIN run.plugins
      BY <2>1, LenProperties
    <2>3. ThePlugin \in Range(run.plugins)
      BY <2>2 DEF Range, ThePlugin
    <2>4. k \in DOMAIN ThePlugin.entries
      BY <1>1, EntriesType DEF Entries
    <2>5. \A line \in Range(ThePlugin.entries[k].data) : line.from = k
      BY <2>3, <2>4, RunsAssumption
    <2>. QED  BY <1>2, <1>3, <2>5 DEF Range, Entries
  <1>5. CountFrom(data, k) = Len(data)
    <2>1. From(data, k) = 1 .. Len(data)
      BY <1>4 DEF From
    <2>2. Cardinality(1 .. Len(data)) = Len(data)
      <3>1. PICK l \in Nat : l = Len(data)
        BY <1>3
      <3>2. Cardinality(1 .. l) = l
        BY FS_Interval
      <3>. QED  BY <3>1, <3>2
    <2>. QED  BY <2>1, <2>2, CountIs
  <1>6. ASSUME NEW j, j # k PROVE CountFrom(data, j) = 0
    BY <1>4, <1>6, CountIs
  <1>. QED  BY <1>2, <1>5, <1>6

\* The numbers of a finite set that come before each.
LEMMA RanksBelow ==
    ASSUME NEW S, S \subseteq Nat, IsFiniteSet(S)
    PROVE  /\ \A n \in S : /\ Cardinality({m \in S : m < n}) \in Nat
                           /\ Cardinality({m \in S : m < n}) < Cardinality(S)
           /\ \A l, n \in S : Cardinality({m \in S : m < l}) = Cardinality({m \in S : m < n}) => l = n
  <1>1. ASSUME NEW n \in S
        PROVE  /\ IsFiniteSet({m \in S : m < n}) /\ Cardinality({m \in S : m < n}) \in Nat
               /\ Cardinality({m \in S : m < n}) < Cardinality(S)
    <2>1. {m \in S : m < n} \in SUBSET S /\ n \notin {m \in S : m < n}
      OBVIOUS
    <2>2. /\ IsFiniteSet({m \in S : m < n})
          /\ Cardinality({m \in S : m < n}) <= Cardinality(S)
          /\ Cardinality({m \in S : m < n}) = Cardinality(S) => {m \in S : m < n} = S
      BY <2>1, FS_Subset
    <2>3. Cardinality({m \in S : m < n}) \in Nat /\ Cardinality(S) \in Nat
      BY <2>2, FS_CardinalityType
    <2>4. Cardinality({m \in S : m < n}) # Cardinality(S)
      BY <2>1, <2>2
    <2>. QED  BY <2>2, <2>3, <2>4
  <1>2. ASSUME NEW l \in S, NEW n \in S, l < n
        PROVE  Cardinality({m \in S : m < l}) # Cardinality({m \in S : m < n})
    <2>1. {m \in S : m < l} \in SUBSET {m \in S : m < n}
      <3>1. \A m \in S : m < l => m < n
        BY <1>2
      <3>. QED  BY <3>1
    <2>2. l \in {m \in S : m < n} /\ l \notin {m \in S : m < l}
      BY <1>2
    <2>3. IsFiniteSet({m \in S : m < n})
      BY <1>1
    <2>4. Cardinality({m \in S : m < l}) = Cardinality({m \in S : m < n}) =>
             {m \in S : m < l} = {m \in S : m < n}
      BY <2>1, <2>3, FS_Subset
    <2>. QED  BY <2>2, <2>4
  <1>3. \A l, n \in S : l < n \/ n < l \/ l = n
    OBVIOUS
  <1>. QED  BY <1>1, <1>2, <1>3

\* File names can be ranked.
LEMMA NamesRanked ==
    ASSUME NEW S \in SUBSET AnyName
    PROVE  /\ \A n \in S : /\ Cardinality({m \in S : m < n}) \in Nat
                           /\ Cardinality({m \in S : m < n}) < Cardinality(S)
           /\ \A l, n \in S : Cardinality({m \in S : m < l}) = Cardinality({m \in S : m < n}) => l = n
  <1>1. IsFiniteSet(AnyName) /\ AnyName \subseteq Nat
    <2>1. IsFiniteSet(Name) /\ Name \subseteq Nat /\ NoName \in Nat
      BY NameAssumption DEF NoName
    <2>2. IsFiniteSet(Name \cup {NoName})
      BY <2>1, FS_AddElement
    <2>. QED  BY <2>1, <2>2 DEF AnyName
  <1>2. IsFiniteSet(S) /\ S \subseteq Nat
    BY <1>1, FS_Subset
  <1>. QED  BY <1>2, RanksBelow

\* The files collected, and their order.
LEMMA CollectedRanks ==
    ASSUME NEW m, Replayed(m)
    PROVE  /\ Collected = DOMAIN files
           /\ \A n \in Collected : Rank(n) \in Nat /\ Rank(n) < Cardinality(Collected)
           /\ \A l, n \in Collected : Rank(l) = Rank(n) => l = n
  <1>1. Collected = DOMAIN files /\ order \in Seq(AnyName)
    BY DEF Replayed, Collected
  <1>2. PICK S \in SUBSET AnyName : S = Collected
    BY <1>1, RangeWithin DEF Collected
  <1>3. \A n : Rank(n) = Cardinality({l \in S : l < n})
    BY <1>2 DEF Rank
  <1>. QED  BY <1>1, <1>2, <1>3, NamesRanked

LEMMA DeliveredStays ==
    ASSUME run' = run, p' = p, UNCHANGED outputDir, NEW m, Delivered(m)
    PROVE  Delivered(m)'
  <1>. SUFFICES ASSUME ~hadError', NEW n \in DOMAIN files', NEW content, content = files'[n]
                PROVE  FileDelivered(content, n, m)
    BY DeliveredStatic DEF Delivered
  <1>. QED  BY DEF Delivered, outputDir

\* The chunk before the next entry's, if any, has been delivered.
LEMMA StartChunkDelivers ==
    ASSUME OutputInv, LinesInv, StartChunk
    PROVE  \A h \in Heads' : LastHead(h, at)' => Delivered(h)' /\ Gathered(h, at)'
  <1>1. PICK k \in Nat : k = at + 1
    BY DEF OutputInv
  <1>2. /\ run \in Run /\ p \in Nat \ {0} /\ p <= Len(run.plugins) /\ at \in Nat
        /\ at < Len(Entries) /\ CollectInv
        /\ run' = run /\ p' = p /\ at' = k /\ current' = Entries[k] /\ Flush
        /\ Entries[k].point # NoPoint \/ Entries[k].name # NoName
        /\ run \in Runs
        /\ \A h \in Heads : LastHead(h, at) => Delivered(h) /\ Gathered(h, at)
    BY <1>1 DEF OutputInv, StartChunk, TheEntry, Entries, LinesInv
  <1>3. /\ k \in 1 .. Len(Entries) /\ Heads \subseteq 1 .. Len(Entries)
        /\ Len(Entries) \in Nat /\ k \in Heads
    BY <1>1, <1>2, EntriesType DEF Heads, HeadsIn
  <1>4. Delivered(k)'
    <2>1. CASE at = 0 /\ current = NoChunk /\ Replayed(1)
      <3>1. UNCHANGED outputDir
        BY <2>1, <1>2 DEF Flush
      <3>2. {g \in Heads : g < 1} = {}
        <4>1. \A g \in Heads : ~ (g < 1)
          BY <1>3
        <4>. QED  BY <4>1
      <3>3. DOMAIN files = {}
        BY <2>1, <3>2 DEF Replayed
      <3>4. DOMAIN files' = {}
        BY <3>1, <3>3 DEF outputDir
      <3>. QED  BY <3>4 DEF Delivered
    <2>2. CASE ~ (at = 0 /\ current = NoChunk /\ Replayed(1))
      <3>1. 1 \in Heads
        BY <1>2, <2>2 DEF CollectInv
      <3>2. PICK m \in 1 .. Len(Entries) : \E h \in Heads :
               at = m /\ LastHead(h, m) /\ Replayed(h) /\ Accumulated(h, m)
        BY <1>2, <2>2 DEF CollectInv
      <3>3. PICK h \in Heads : at = m /\ LastHead(h, m) /\ Replayed(h) /\ Accumulated(h, m)
        BY <3>2
      <3>4. m \in h .. Len(Entries) /\ \A g \in Heads : g <= m => g <= h
        BY <1>3, <3>3 DEF LastHead
      <3>5. Delivered(h) /\ Gathered(h, m)
        BY <1>2, <3>3
      <3>6. Delivered(m + 1)'
        BY <1>2, <3>1, <3>3, <3>4, <3>5, DeliverChunk
      <3>7. m + 1 = k
        BY <1>1, <3>3
      <3>. QED  BY <3>6, <3>7
    <2>. QED  BY <2>1, <2>2
  <1>5. Entries' = Entries /\ Heads' = Heads
    BY <1>2, Static
  <1>6. Gathered(k, k)'
    <2>1. \A j \in 1 .. Len(Entries) :
             CountFrom(Entries[k].data, j) = IF j \in k .. k THEN Len(Entries[j].data) ELSE 0
      <3>1. \A j : CountFrom(Entries[k].data, j) = IF j = k THEN Len(Entries[k].data) ELSE 0
        BY <1>2, <1>3, EntryLines
      <3>2. \A j : j \in k .. k <=> j = k
        OBVIOUS
      <3>. QED  BY <3>1, <3>2
    <2>2. \A i, j \in k .. k : ~ (i < j)
      OBVIOUS
    <2>. QED  BY <1>2, <1>5, <2>1, <2>2 DEF Gathered, CountFrom
  <1>7. \A h \in Heads' : LastHead(h, at)' => h = k
    BY <1>2, <1>3, <1>5 DEF LastHead
  <1>. QED  BY <1>2, <1>4, <1>6, <1>7

\* An entry that goes on with a chunk adds its lines after those of the chunk.
LEMMA ContinueChunkDelivers ==
    ASSUME OutputInv, LinesInv, ContinueChunk, current # NoChunk
    PROVE  \A h \in Heads' : LastHead(h, at)' => Delivered(h)' /\ Gathered(h, at)'
  <1>1. PICK m \in 1 .. Len(Entries) : \E h \in Heads :
           at = m /\ LastHead(h, m) /\ Replayed(h) /\ Accumulated(h, m)
    BY DEF CollectInv, OutputInv, ContinueChunk
  <1>2. PICK h \in Heads : at = m /\ LastHead(h, m) /\ Replayed(h) /\ Accumulated(h, m)
    BY <1>1
  <1>3. PICK k \in Nat : k = m + 1
    BY EntriesType
  <1>4. /\ run \in Run /\ p \in Nat \ {0} /\ p <= Len(run.plugins) /\ at \in Nat
        /\ at < Len(Entries) /\ UNCHANGED outputDir
        /\ run' = run /\ p' = p /\ at' = k
        /\ current' = [name |-> current.name, point |-> current.point,
                       data |-> current.data \o Entries[k].data]
        /\ Entries[k].point = NoPoint /\ Entries[k].name = NoName
        /\ run \in Runs /\ Delivered(h) /\ Gathered(h, m)
    BY <1>2, <1>3 DEF OutputInv, CollectInv, ContinueChunk, TheEntry, Entries, LinesInv
  <1>5. /\ k \in 1 .. Len(Entries) /\ Heads \subseteq 1 .. Len(Entries) /\ Len(Entries) \in Nat
        /\ Entries[k].data \in Seq(Line) /\ k \notin Heads
    <2>1. /\ Heads \subseteq 1 .. Len(Entries) /\ Len(Entries) \in Nat
          /\ \A j \in 1 .. Len(Entries) : Entries[j].data \in Seq(Line)
      BY <1>4, EntriesType
    <2>2. k \in 1 .. Len(Entries)
      BY <1>2, <1>3, <1>4, <2>1
    <2>. QED  BY <1>4, <2>1, <2>2 DEF Heads, HeadsIn
  <1>6. /\ Entries' = Entries /\ Heads' = Heads
    BY <1>4, Static
  <1>7. PICK a \in Seq(Line) : a = current.data
    BY <1>2 DEF Accumulated, Entry
  <1>8. PICK b \in Seq(Line) : b = Entries[k].data
    BY <1>5
  <1>9. h \in Nat /\ h <= m /\ \A j : j \in h .. k <=> j \in h .. m \/ j = k
    BY <1>2, <1>3, <1>5 DEF LastHead
  <1>10. h .. m \subseteq 1 .. Len(Entries) /\ k \notin h .. m
    BY <1>3, <1>5, <1>9
  <1>11. \A j \in 1 .. Len(Entries) :
            /\ CountFrom(a, j) = IF j \in h .. m THEN Len(Entries[j].data) ELSE 0
            /\ CountFrom(b, j) = IF j = k THEN Len(Entries[j].data) ELSE 0
            /\ Len(Entries[j].data) \in Nat
    BY <1>4, <1>5, <1>7, <1>8, EntryLines, EntriesType, LenProperties DEF Gathered
  <1>12. PICK s \in Seq(Line) : s = a \o b
    BY ConcatProperties
  <1>13. \A j \in 1 .. Len(Entries) :
            CountFrom(s, j) = IF j \in h .. k THEN Len(Entries[j].data) ELSE 0
    <2>1. \A j : CountFrom(s, j) = CountFrom(a, j) + CountFrom(b, j)
      BY <1>12, ConcatCount
    <2>. SUFFICES ASSUME NEW j \in 1 .. Len(Entries)
                  PROVE  CountFrom(s, j) = IF j \in h .. k THEN Len(Entries[j].data) ELSE 0
      OBVIOUS
    <2>2. PICK x \in Nat : x = Len(Entries[j].data)
      BY <1>11
    <2>3. /\ CountFrom(a, j) = IF j \in h .. m THEN x ELSE 0
          /\ CountFrom(b, j) = IF j = k THEN x ELSE 0
      BY <1>11, <2>2
    <2>4. ~ (j \in h .. m /\ j = k)
      BY <1>10
    <2>5. j \in h .. k <=> j \in h .. m \/ j = k
      BY <1>9
    <2>6. CASE j \in h .. m
      BY <2>1, <2>2, <2>3, <2>4, <2>5, <2>6
    <2>7. CASE j \notin h .. m
      BY <2>1, <2>2, <2>3, <2>5, <2>7
    <2>. QED  BY <2>6, <2>7
  <1>14. /\ Len(s) = Len(a) + Len(b) /\ Len(a) \in Nat /\ Len(b) \in Nat
         /\ \A i \in 1 .. Len(a) + Len(b) : s[i] = IF i <= Len(a) THEN a[i] ELSE b[i - Len(a)]
    <2>1. /\ Len(a \o b) = Len(a) + Len(b)
          /\ \A i \in 1 .. Len(a) + Len(b) : (a \o b)[i] = IF i <= Len(a) THEN a[i] ELSE b[i - Len(a)]
      BY ConcatProperties
    <2>. QED  BY <1>12, <2>1, LenProperties
  <1>15. ASSUME NEW q \in 1 .. Len(s)
         PROVE  \/ q \in 1 .. Len(a) /\ s[q] = a[q]
                \/ ~ (q <= Len(a)) /\ \E r \in 1 .. Len(b) : s[q] = b[r]
    <2>1. CASE q <= Len(a)
      BY <1>14, <2>1
    <2>2. CASE ~ (q <= Len(a))
      <3>1. q - Len(a) \in 1 .. Len(b) /\ s[q] = b[q - Len(a)]
        BY <1>14, <2>2
      <3>. QED  BY <2>2, <3>1
    <2>. QED  BY <2>1, <2>2
  <1>16. \A i, j \in h .. k : i < j => TextBefore(s, i, j)
    <2>. SUFFICES ASSUME NEW i \in h .. k, NEW j \in h .. k, i < j,
                         NEW q \in 1 .. Len(s), NEW r \in 1 .. Len(s),
                         s[q].from = i, s[r].from = j
                  PROVE  q < r
      BY DEF TextBefore
    <2>1. i \in h .. m
      BY <1>3, <1>9
    <2>2. Lacks(b, i)
      <3>1. CountFrom(b, i) = 0
        BY <1>10, <1>11, <2>1
      <3>. QED  BY <3>1, CountIs DEF Lacks
    <2>3. q \in 1 .. Len(a) /\ s[q] = a[q]
      BY <1>15, <2>2 DEF Lacks
    <2>4. CASE j = k
      <3>1. Lacks(a, j)
        <4>1. CountFrom(a, j) = 0
          BY <1>5, <1>10, <1>11, <2>4
        <4>. QED  BY <4>1, CountIs DEF Lacks
      <3>2. ~ (r <= Len(a))
        BY <1>15, <3>1 DEF Lacks
      <3>. QED  BY <1>14, <2>3, <3>2
    <2>5. CASE j # k
      <3>1. j \in h .. m
        BY <1>9, <2>5
      <3>2. Lacks(b, j)
        <4>1. CountFrom(b, j) = 0
          BY <1>10, <1>11, <2>5, <3>1
        <4>. QED  BY <4>1, CountIs DEF Lacks
      <3>3. r \in 1 .. Len(a) /\ s[r] = a[r]
        BY <1>15, <3>2 DEF Lacks
      <3>4. TextBefore(a, i, j)
        BY <1>4, <1>7, <2>1, <3>1 DEF Gathered
      <3>. QED  BY <2>3, <3>3, <3>4 DEF TextBefore
    <2>. QED  BY <2>4, <2>5
  <1>17. Gathered(h, k)'
    <2>1. current'.data = s
      BY <1>4, <1>7, <1>8, <1>12
    <2>. QED  BY <1>6, <1>13, <1>16, <2>1 DEF Gathered, CountFrom, TextBefore
  <1>18. Delivered(h)'
    BY <1>4, DeliveredStays
  <1>19. \A g \in Heads' : LastHead(g, at)' => g = h
    <2>. SUFFICES ASSUME NEW g \in Heads, g <= k, \A l \in Heads : l <= k => l <= g PROVE g = h
      BY <1>4, <1>6 DEF LastHead
    <2>1. h <= g /\ g <= m
      BY <1>3, <1>5, <1>9
    <2>2. g <= h
      BY <1>2, <2>1 DEF LastHead
    <2>. QED  BY <1>5, <1>9, <2>1, <2>2
  <1>. QED  BY <1>4, <1>17, <1>18, <1>19

\* At the end of the response every chunk has been delivered.
LEMMA EndResponseDelivers ==
    ASSUME OutputInv, LinesInv, EndResponse
    PROVE  \E m \in Nat : m = Len(Entries') + 1 /\ Delivered(m)'
  <1>1. /\ run \in Run /\ p \in Nat \ {0} /\ p <= Len(run.plugins) /\ at \in Nat
        /\ at = Len(Entries) /\ CollectInv /\ run' = run /\ p' = p /\ Flush
        /\ \A h \in Heads : LastHead(h, at) => Delivered(h) /\ Gathered(h, at)
    BY DEF OutputInv, LinesInv, EndResponse, Entries
  <1>2. /\ Entries' = Entries /\ Heads \subseteq 1 .. Len(Entries) /\ Len(Entries) \in Nat
    BY <1>1, Static, EntriesType
  <1>3. CASE at = 0 /\ current = NoChunk /\ Replayed(1)
    <2>1. UNCHANGED outputDir
      BY <1>1, <1>3 DEF Flush
    <2>2. {g \in Heads : g < 1} = {}
      <3>1. \A g \in Heads : ~ (g < 1)
        BY <1>2
      <3>. QED  BY <3>1
    <2>3. DOMAIN files = {}
      BY <1>3, <2>2 DEF Replayed
    <2>4. Delivered(1)'
      BY <2>1, <2>3 DEF Delivered, outputDir
    <2>. QED  BY <1>1, <1>2, <1>3, <2>4
  <1>4. CASE ~ (at = 0 /\ current = NoChunk /\ Replayed(1))
    <2>1. 1 \in Heads
      BY <1>1, <1>4 DEF CollectInv
    <2>2. PICK m \in 1 .. Len(Entries) : \E h \in Heads :
             at = m /\ LastHead(h, m) /\ Replayed(h) /\ Accumulated(h, m)
      BY <1>1, <1>4 DEF CollectInv
    <2>3. PICK h \in Heads : at = m /\ LastHead(h, m) /\ Replayed(h) /\ Accumulated(h, m)
      BY <2>2
    <2>4. m \in h .. Len(Entries) /\ \A g \in Heads : g <= m => g <= h
      BY <1>2, <2>3 DEF LastHead
    <2>5. Delivered(h) /\ Gathered(h, m)
      BY <1>1, <2>3
    <2>6. Delivered(m + 1)'
      BY <1>1, <2>1, <2>3, <2>4, <2>5, DeliverChunk
    <2>. QED  BY <1>1, <1>2, <2>3, <2>6
  <1>. QED  BY <1>3, <1>4

\* Each file of a directory is written when those before it have been.
LEMMA WriteFileWrites ==
    ASSUME OutputInv, LinesInv, WriteFile, pc' = "write"
    PROVE  Written'
  <1>1. /\ run \in Run /\ p \in Nat \ {0} /\ at \in Nat /\ p <= Len(run.plugins) /\ pc = "write"
        /\ run' = run /\ p' = p /\ UNCHANGED outputDir /\ DOMAIN disk = Location
        /\ Format[Where] = "dir" /\ Written
    BY DEF OutputInv, LinesInv, WriteFile, Writing
  <1>2. PICK m : Replayed(m)
    BY <1>1 DEF OutputInv, AllReplayed
  <1>3. PICK n \in Collected :
           /\ Rank(n) = at /\ at' = at + 1
           /\ disk' = [disk EXCEPT ![Where] = With(disk[Where], n, files[n])]
    BY DEF WriteFile, Stop
  <1>4. /\ \A l \in Collected : Rank(l) \in Nat
        /\ \A l \in Collected : Rank(l) = Rank(n) => l = n
    BY <1>2, CollectedRanks
  <1>5. /\ Where' = Where /\ Collected' = Collected /\ files' = files /\ \A l : Rank(l)' = Rank(l)
    <2>1. Where' = Where /\ order' = order /\ files' = files
      BY <1>1, Static DEF outputDir
    <2>. QED  BY <2>1 DEF Collected, Rank
  <1>6. Where \in Location
    <2>1. ThePlugin \in Plugin
      <3>1. run.plugins \in Seq(Plugin) /\ Len(run.plugins) \in Nat
        BY <1>1, LenProperties DEF Run
      <3>. QED  BY <1>1, <3>1, ElementOfSeq DEF ThePlugin
    <2>. QED  BY <2>1 DEF Plugin, Where
  <1>7. disk'[Where] = With(disk[Where], n, files[n])
    BY <1>1, <1>3, <1>6
  <1>8. ASSUME NEW l \in Collected, Rank(l) < at + 1
        PROVE  l \in DOMAIN disk'[Where] /\ disk'[Where][l] = files[l]
    <2>1. CASE l = n
      BY <1>7, <2>1 DEF With
    <2>2. CASE l # n
      <3>1. Rank(l) < at
        BY <1>1, <1>3, <1>4, <1>8, <2>2
      <3>2. l \in DOMAIN disk[Where] /\ disk[Where][l] = files[l]
        BY <1>1, <3>1 DEF Written
      <3>. QED  BY <1>7, <2>2, <3>2 DEF With
    <2>. QED  BY <2>1, <2>2
  <1>. QED  BY <1>3, <1>5, <1>8 DEF Written

LEMMA LinesInvStep ==
    ASSUME OutputInv, LinesInv, [Next]_vars
    PROVE  LinesInv'
  <1>1. run' = run /\ run \in Runs
    BY DEF LinesInv, Next, SkipPlugin, PluginFails, TakeResponse, AllPluginsRun, StartChunk,
       ContinueChunk, EndResponse, RefuseCollected, WriteFile, AllWritten, WriteArchive,
       Terminated, vars
  <1>2. OutputInv'
    BY OutputInvStep
  <1>3. DOMAIN disk' = Location
    <2>1. CASE WriteFile
      <3>1. \/ UNCHANGED disk
            \/ \E f : disk' = [disk EXCEPT ![Where] = f]
        BY <2>1 DEF WriteFile
      <3>. QED  BY <3>1 DEF LinesInv
    <2>2. CASE WriteArchive
      BY <2>2 DEF WriteArchive, LinesInv
    <2>3. CASE ~ (WriteFile \/ WriteArchive)
      BY <2>3 DEF LinesInv, Next, SkipPlugin, PluginFails, TakeResponse, AllPluginsRun, StartChunk,
         ContinueChunk, EndResponse, RefuseCollected, AllWritten, Terminated, vars
    <2>. QED  BY <2>1, <2>2, <2>3
  <1>4. ASSUME pc' \notin {"collect", "write"} PROVE LinesInv'
    BY <1>1, <1>3, <1>4 DEF LinesInv
  <1>5. CASE SkipPlugin \/ PluginFails \/ AllPluginsRun \/ RefuseCollected \/ AllWritten
             \/ WriteArchive \/ Terminated
    <2>1. pc' \notin {"collect", "write"}
      BY <1>5 DEF SkipPlugin, PluginFails, AllPluginsRun, RefuseCollected, AllWritten, WriteArchive,
         Terminated, NextPlugin, Stop, vars
    <2>. QED  BY <1>4, <2>1
  <1>6. CASE TakeResponse
    <2>1. CASE pc' # "collect"
      BY <1>4, <1>6, <2>1 DEF TakeResponse, Stop
    <2>2. CASE pc' = "collect"
      <3>1. at' = 0 /\ p' = p /\ p \in Nat \ {0} /\ p <= Len(run.plugins) /\ run \in Run
        BY <1>6 DEF TakeResponse, ToRun, OutputInv
      <3>2. Heads' \subseteq Nat \ {0}
        <4>1. Heads \subseteq 1 .. Len(Entries) /\ Heads' = Heads
          BY <1>1, <3>1, EntriesType, Static
        <4>. QED  BY <4>1
      <3>3. \A h \in Heads' : ~ LastHead(h, at)'
        BY <3>1, <3>2 DEF LastHead
      <3>. QED  BY <1>1, <1>3, <2>2, <3>3 DEF LinesInv
    <2>. QED  BY <2>1, <2>2
  <1>7. CASE StartChunk
    <2>1. pc' = "collect"
      BY <1>7 DEF StartChunk
    <2>2. \A h \in Heads' : LastHead(h, at)' => Delivered(h)' /\ Gathered(h, at)'
      BY <1>7, StartChunkDelivers
    <2>. QED  BY <1>1, <1>3, <2>1, <2>2 DEF LinesInv
  <1>8. CASE ContinueChunk
    <2>1. CASE current = NoChunk
      BY <1>4, <1>8, <2>1 DEF ContinueChunk, Stop
    <2>2. CASE current # NoChunk
      <3>1. pc' = "collect"
        BY <1>8, <2>2 DEF ContinueChunk
      <3>2. \A h \in Heads' : LastHead(h, at)' => Delivered(h)' /\ Gathered(h, at)'
        BY <1>8, <2>2, ContinueChunkDelivers
      <3>. QED  BY <1>1, <1>3, <3>1, <3>2 DEF LinesInv
    <2>. QED  BY <2>1, <2>2
  <1>9. CASE EndResponse
    <2>1. pc' = "write" /\ at' = 0
      BY <1>9 DEF EndResponse
    <2>2. \E m \in Nat : m = Len(Entries') + 1 /\ Delivered(m)'
      BY <1>9, EndResponseDelivers
    <2>3. Written'
      <3>1. PICK m : Replayed(m)'
        BY <1>2, <2>1 DEF OutputInv, AllReplayed
      <3>2. PICK S \in SUBSET AnyName : S = Collected'
        <4>1. PICK s \in Seq(AnyName) : s = order'
          BY <3>1 DEF Replayed
        <4>2. \A k \in 1 .. Len(s) : s[k] \in AnyName
          BY ElementOfSeq
        <4>3. Range(s) \in SUBSET AnyName
          BY <4>2, RangeWithin
        <4>. QED  BY <4>1, <4>3 DEF Collected
      <3>3. \A n : Rank(n)' = Cardinality({l \in S : l < n})
        BY <3>2 DEF Rank
      <3>4. \A n \in S : Rank(n)' \in Nat
        BY <3>3, NamesRanked
      <3>5. \A n \in Collected' : ~ (Rank(n)' < 0)
        BY <3>2, <3>4
      <3>. QED  BY <2>1, <3>5 DEF Written
    <2>. QED  BY <1>1, <1>3, <2>1, <2>2, <2>3 DEF LinesInv
  <1>10. CASE WriteFile
    <2>1. CASE pc' # "write"
      BY <1>4, <1>10, <2>1 DEF WriteFile, Stop, Writing
    <2>2. CASE pc' = "write"
      <3>1. p' = p /\ UNCHANGED outputDir /\ pc = "write"
        BY <1>10 DEF WriteFile, Writing
      <3>2. PICK m \in Nat : m = Len(Entries) + 1 /\ Delivered(m)
        BY <3>1 DEF LinesInv
      <3>3. Delivered(m)' /\ m = Len(Entries') + 1
        BY <1>1, <3>1, <3>2, DeliveredStays, Static
      <3>4. Written'
        BY <1>10, <2>2, WriteFileWrites
      <3>. QED  BY <1>1, <1>3, <2>2, <3>3, <3>4 DEF LinesInv
    <2>. QED  BY <2>1, <2>2
  <1>11. CASE UNCHANGED vars
    <2>1. /\ p' = p /\ UNCHANGED outputDir /\ pc' = pc /\ at' = at /\ disk' = disk
          /\ current' = current /\ Entries' = Entries /\ Heads' = Heads /\ Where' = Where
      BY <1>1, <1>11, Static DEF vars
    <2>2. CASE pc = "collect"
      <3>1. ASSUME NEW h \in Heads, LastHead(h, at) PROVE Delivered(h)' /\ Gathered(h, at)'
        <4>1. Delivered(h) /\ Gathered(h, at)
          BY <2>2, <3>1 DEF LinesInv
        <4>2. Delivered(h)'
          BY <1>1, <2>1, <4>1, DeliveredStays
        <4>3. Gathered(h, at)'
          <5>1. /\ \A j \in 1 .. Len(Entries') : CountFrom(current'.data, j) =
                      IF j \in h .. at' THEN Len(Entries'[j].data) ELSE 0
                /\ \A i, j \in h .. at' : i < j => TextBefore(current'.data, i, j)
            BY <2>1, <4>1 DEF Gathered
          <5>. QED  BY <5>1 DEF Gathered, CountFrom, TextBefore
        <4>. QED  BY <4>2, <4>3
      <3>2. \A h \in Heads' : LastHead(h, at)' => LastHead(h, at)
        BY <2>1 DEF LastHead
      <3>. QED  BY <1>1, <1>3, <2>1, <2>2, <3>1, <3>2 DEF LinesInv
    <2>3. CASE pc = "write"
      <3>1. PICK m \in Nat : m = Len(Entries) + 1 /\ Delivered(m)
        BY <2>3 DEF LinesInv
      <3>2. Delivered(m)' /\ m = Len(Entries') + 1
        BY <1>1, <2>1, <3>1, DeliveredStays
      <3>3. Written'
        <4>1. Written
          BY <2>3 DEF LinesInv
        <4>2. Collected' = Collected /\ files' = files /\ \A n : Rank(n)' = Rank(n)
          BY <2>1 DEF outputDir, Collected, Rank
        <4>. QED  BY <2>1, <4>1, <4>2 DEF Written
      <3>. QED  BY <1>1, <1>3, <2>1, <2>3, <3>2, <3>3 DEF LinesInv
    <2>4. CASE pc \notin {"collect", "write"}
      BY <1>4, <2>1, <2>4
    <2>. QED  BY <2>2, <2>3, <2>4
  <1>. QED  BY <1>5, <1>6, <1>7, <1>8, <1>9, <1>10, <1>11 DEF Next

\* A file has, at any time, the lines of its entries so far, those inserted at one
\* point in the order of their entries and before the point (flush, insertAt).
THEOREM LinesInvariance == Spec => []LinesInv
  <1>1. Init => LinesInv
    BY DEF Init, LinesInv
  <1>2. OutputInv /\ LinesInv /\ [Next]_vars => LinesInv'
    BY LinesInvStep
  <1>. QED  BY <1>1, <1>2, OutputInvariance, PTL DEF Spec

\* A response that has been written out is all there.
LEMMA DeliversFiles ==
    ASSUME OutputInv, LinesInv, Next, Delivers
    PROVE  \A n \in DOMAIN files : disk'[Where][n] = files[n]
  <1>1. /\ run \in Run /\ p \in Nat \ {0} /\ at \in Nat /\ p <= Len(run.plugins) /\ pc = "write"
        /\ pc' = "plugin" /\ ~hadError /\ DOMAIN disk = Location /\ Written
    BY DEF Delivers, Writing, OutputInv, LinesInv
  <1>2. PICK m : Replayed(m)
    BY <1>1 DEF OutputInv, AllReplayed
  <1>3. /\ Collected = DOMAIN files
        /\ \A n \in Collected : Rank(n) \in Nat /\ Rank(n) < Cardinality(Collected)
    BY <1>2, CollectedRanks
  <1>4. Where \in Location
    <2>1. ThePlugin \in Plugin
      <3>1. run.plugins \in Seq(Plugin) /\ Len(run.plugins) \in Nat
        BY <1>1, LenProperties DEF Run
      <3>. QED  BY <1>1, <3>1, ElementOfSeq DEF ThePlugin
    <2>. QED  BY <2>1 DEF Plugin, Where
  <1>5. CASE AllWritten
    <2>1. Format[Where] = "dir" /\ at = Cardinality(Collected) /\ disk' = disk
      BY <1>5 DEF AllWritten
    <2>. QED  BY <1>1, <1>3, <2>1 DEF Written
  <1>6. CASE WriteArchive
    <2>1. disk' = [disk EXCEPT ![Where] = ArchiveFiles]
      BY <1>1, <1>6 DEF WriteArchive, Stop
    <2>2. disk'[Where] = ArchiveFiles
      BY <1>1, <1>4, <2>1
    <2>3. \A n \in DOMAIN files : ArchiveFiles[n] = files[n]
      BY DEF ArchiveFiles, With
    <2>. QED  BY <2>2, <2>3
  <1>7. AllWritten \/ WriteArchive
    BY <1>1 DEF Next, SkipPlugin, PluginFails, TakeResponse, AllPluginsRun, StartChunk,
       ContinueChunk, EndResponse, RefuseCollected, WriteFile, Terminated, Stop, vars
  <1>. QED  BY <1>5, <1>6, <1>7

\* Every line of a response that is written out is there once, in the file its entry
\* names, and what is inserted at one point is there in the order of the entries.
THEOREM EveryLineDelivered == Spec => LinesDelivered
  <1>1. OutputInv /\ LinesInv /\ [Next]_vars =>
          [Delivers =>
             /\ \A k \in DOMAIN Entries : \A n \in DOMAIN files :
                   CountFrom(disk'[Where][n], k) =
                       IF n = FileOf(k) THEN Len(Entries[k].data) ELSE 0
             /\ \A j, k \in DOMAIN Entries :
                   j < k /\ InsertedAlike(j, k) =>
                       LET content == disk'[Where][FileOf(k)]
                       IN  \A a, b \in DOMAIN content :
                              content[a].from = j /\ content[b].from = k => a < b]_vars
    <2>. SUFFICES ASSUME OutputInv, LinesInv, Next, Delivers
         PROVE  /\ \A k \in DOMAIN Entries : \A n \in DOMAIN files :
                      CountFrom(disk'[Where][n], k) =
                          IF n = FileOf(k) THEN Len(Entries[k].data) ELSE 0
                /\ \A j, k \in DOMAIN Entries :
                      j < k /\ InsertedAlike(j, k) =>
                          LET content == disk'[Where][FileOf(k)]
                          IN  \A a, b \in DOMAIN content :
                                 content[a].from = j /\ content[b].from = k => a < b
      OBVIOUS
    <2>1. /\ run \in Run /\ p \in Nat \ {0} /\ p <= Len(run.plugins) /\ pc = "write" /\ ~hadError
      BY DEF Delivers, Writing, OutputInv
    <2>2. /\ Len(Entries) \in Nat /\ DOMAIN Entries = 1 .. Len(Entries)
          /\ Heads \subseteq 1 .. Len(Entries)
      BY <2>1, EntriesType
    <2>3. PICK m \in Nat : m = Len(Entries) + 1 /\ Delivered(m)
      BY <2>1 DEF LinesInv
    <2>4. Replayed(m) /\ (Entries # <<>> => 1 \in Heads)
      BY <2>1, <2>3 DEF OutputInv, AllReplayed
    <2>5. /\ \A n \in DOMAIN files : files[n] \in Seq(Line) /\ FileDelivered(files[n], n, m)
          /\ \A n \in DOMAIN files : disk'[Where][n] = files[n]
      BY <2>1, <2>3, <2>4, DeliversFiles DEF Delivered, Replayed
    <2>6. \A k \in 1 .. Len(Entries) : k < m
      BY <2>2, <2>3
    <2>7. ASSUME NEW k \in DOMAIN Entries, NEW n \in DOMAIN files
          PROVE  CountFrom(disk'[Where][n], k) =
                    IF n = FileOf(k) THEN Len(Entries[k].data) ELSE 0
      <3>1. CountFrom(files[n], k) = IF k < m /\ FileOf(k) = n THEN Len(Entries[k].data) ELSE 0
        BY <2>2, <2>5 DEF FileDelivered, HoldsLines
      <3>. QED  BY <2>2, <2>5, <2>6, <3>1
    <2>8. ASSUME NEW j \in DOMAIN Entries, NEW k \in DOMAIN Entries, j < k, InsertedAlike(j, k)
          PROVE  \A a, b \in DOMAIN disk'[Where][FileOf(k)] :
                    disk'[Where][FileOf(k)][a].from = j /\ disk'[Where][FileOf(k)][b].from = k => a < b
      <3>1. PICK n : n = FileOf(k)
        OBVIOUS
      <3>2. n \in DOMAIN files
        <4>1. Entries # <<>>
          BY EmptySeq
        <4>2. HeadOf(k) \in Heads
          BY <2>1, <2>2, <2>4, <4>1, HeadOfEntry
        <4>3. HeadOf(k) < m
          BY <2>2, <2>6, <4>2
        <4>. QED  BY <2>4, <3>1, <4>2, <4>3 DEF Replayed, FileOf
      <3>3. FileOf(j) = n
        BY <2>8, <3>1 DEF InsertedAlike
      <3>4. TextBefore(files[n], j, k)
        BY <2>2, <2>5, <2>6, <2>8, <3>2, <3>3 DEF FileDelivered, InOrder
      <3>5. DOMAIN files[n] = 1 .. Len(files[n])
        BY <2>5, <3>2, LenProperties
      <3>6. disk'[Where][n] = files[n]
        BY <2>5, <3>2
      <3>. QED  BY <3>1, <3>4, <3>5, <3>6 DEF TextBefore
    <2>. QED  BY <2>7, <2>8
  <1>. QED  BY <1>1, LinesInvariance, OutputInvariance, PTL DEF Spec, LinesDelivered

\* The same with the processes and pipes in place.
THEOREM LoopDeliversEveryLine == LoopSpec => LinesDelivered
  BY EveryLineDelivered, LoopRunsOutput

-------------------------------------------------------------------------------
(* What the locations hold. *)

\* A location has what the plugins run so far have answered, but for the files in S.
HoldsBut(l, S) ==
    /\ \A q \in PluginsTo(l) : \A n \in NamesOf(q) \ S :
          \/ Over(l, q, n)
          \/ n \in DOMAIN disk[l] /\ Says(run.plugins[q].entries, n, disk[l][n])
    /\ \A n \in DOMAIN disk[l] \ S : \E q \in PluginsTo(l) :
          /\ ~Over(l, q, n)
          /\ n \in NamesOf(q) \/ (Format[l] = "jar" /\ n = Manifest)

\* The files of this response that have been written.
Done == IF pc = "write" /\ ~hadError THEN {n \in Collected : Rank(n) < at} ELSE {}
DoneIn(l) == IF l = Where THEN Done ELSE {}

\* The command has ended, and left the response of its last plugin written in part.
LeftIn(l) == PartWritten /\ pc = "done" /\ l = Where

\* A response is written file by file, over what plugins before have left.
LocationsInv ==
    /\ exit # "running" => pc = "done"
    /\ pc \in {"collect", "write"} => ThePlugin.hasOutput
    /\ \A l \in Location : HoldsBut(l, DoneIn(l)) \/ LeftIn(l)

LEMMA HoldsAll == ASSUME NEW l PROVE HoldsBut(l, {}) <=> HoldsAnswers(l)
  BY DEF HoldsBut, HoldsAnswers

\* The place of the plugin that is run.
LEMMA WhereIs ==
    ASSUME run \in Run, p \in Nat \ {0}, p <= Len(run.plugins)
    PROVE  Where \in Location /\ ThePlugin = run.plugins[p] /\ Entries = run.plugins[p].entries
  <1>1. ThePlugin \in Plugin
    <2>1. run.plugins \in Seq(Plugin) /\ Len(run.plugins) \in Nat
      BY LenProperties DEF Run
    <2>. QED  BY <2>1, ElementOfSeq DEF ThePlugin
  <1>. QED  BY <1>1 DEF Plugin, Where, ThePlugin, Entries

\* What is collected of a whole response are the files it names, each with its lines.
LEMMA CollectedSays ==
    ASSUME OutputInv, LinesInv, pc = "write", ~hadError
    PROVE  /\ Collected = Named(Entries) /\ Collected = DOMAIN files
           /\ \A n \in Collected : Says(Entries, n, files[n])
  <1>1. run \in Run /\ p \in Nat \ {0} /\ p <= Len(run.plugins)
    BY DEF OutputInv
  <1>2. /\ Len(Entries) \in Nat /\ DOMAIN Entries = 1 .. Len(Entries)
        /\ Heads \subseteq 1 .. Len(Entries)
    BY <1>1, EntriesType
  <1>3. PICK m \in Nat : m = Len(Entries) + 1 /\ Delivered(m)
    BY DEF LinesInv
  <1>4. Replayed(m)
    BY <1>3 DEF OutputInv, AllReplayed
  <1>5. Collected = DOMAIN files
    BY <1>4, CollectedRanks
  <1>6. DOMAIN files = Named(Entries)
    <2>1. {g \in Heads : g < m} = Heads
      <3>1. \A g \in Heads : g < m
        BY <1>2, <1>3
      <3>. QED  BY <3>1
    <2>2. DOMAIN files = {Entries[h].name : h \in Heads}
      BY <1>4, <2>1 DEF Replayed
    <2>. QED  BY <2>2 DEF Named, Heads
  <1>7. ASSUME NEW n \in Collected PROVE Says(Entries, n, files[n])
    <2>1. HoldsLines(files[n], n, m)
      BY <1>3, <1>5 DEF Delivered, FileDelivered
    <2>2. \A k \in DOMAIN Entries :
             CountFrom(files[n], k) = IF FileOf(k) = n THEN Len(Entries[k].data) ELSE 0
      BY <1>2, <1>3, <2>1 DEF HoldsLines
    <2>. QED  BY <2>2 DEF Says, FileOf, HeadOf, Heads
  <1>. QED  BY <1>5, <1>6, <1>7

\* A location changes only with what is on it and with the plugins that have been run.
LEMMA HoldsStays ==
    ASSUME run' = run, NEW l, PluginsTo(l)' = PluginsTo(l), disk'[l] = disk[l], NEW S
    PROVE  HoldsBut(l, S)' <=> HoldsBut(l, S)
  <1>1. \A q : NamesOf(q)' = NamesOf(q)
    BY DEF NamesOf
  <1>2. \A q, n : Over(l, q, n)' <=> Over(l, q, n)
    BY <1>1 DEF Over
  <1>3. \A q, n : Says(run'.plugins[q].entries, n, disk'[l][n])
                     <=> Says(run.plugins[q].entries, n, disk[l][n])
    OBVIOUS
  <1>. QED  BY <1>1, <1>2, <1>3 DEF HoldsBut

\* The plugins whose output goes to a location, when there is one more.
LEMMA OneMore ==
    ASSUME run' = run, run \in Run, p \in Nat \ {0}, NEW l
    PROVE  /\ p' = p => PluginsTo(l)' = PluginsTo(l)
           /\ p' = p + 1 /\ ~(ThePlugin.hasOutput /\ Where = l) => PluginsTo(l)' = PluginsTo(l)
           /\ p' = p + 1 /\ ThePlugin.hasOutput /\ Where = l =>
                 /\ p \in PluginsTo(l)' /\ PluginsTo(l) \subseteq PluginsTo(l)'
                 /\ \A q \in PluginsTo(l)' : q = p \/ (q \in PluginsTo(l) /\ q < p)
                 /\ \A q \in PluginsTo(l) : q < p
  BY DEF PluginsTo, ThePlugin, Where

\* One file more of a directory is written, or it is refused or cut short.
LEMMA WriteFileHolds ==
    ASSUME OutputInv, LinesInv, LocationsInv, WriteFile, NEW l \in Location
    PROVE  HoldsBut(l, DoneIn(l))' \/ LeftIn(l)'
  <1>1. /\ run \in Run /\ p \in Nat \ {0} /\ at \in Nat /\ p <= Len(run.plugins)
        /\ pc = "write" /\ ~hadError /\ run' = run /\ p' = p /\ UNCHANGED outputDir
        /\ DOMAIN disk = Location /\ Format[Where] = "dir"
    BY DEF WriteFile, Writing, OutputInv, LinesInv
  <1>2. PICK m : Replayed(m)
    BY <1>1 DEF OutputInv, AllReplayed
  <1>3. /\ Where \in Location /\ Where' = Where /\ Collected' = Collected /\ hadError' = hadError
        /\ \A n : Rank(n)' = Rank(n)
        /\ Entries' = Entries
    BY <1>1, WhereIs, Static DEF outputDir, Collected, Rank
  <1>4. PluginsTo(l)' = PluginsTo(l)
    BY <1>1, OneMore
  <1>5. HoldsBut(l, DoneIn(l))
    BY <1>1 DEF LocationsInv, LeftIn
  <1>6. PICK n \in Collected : Rank(n) = at /\
           \/ n \in Dotted /\ ~run.allowEscape /\ Stop("refused") /\ UNCHANGED <<at, disk>>
           \/ /\ disk' = [disk EXCEPT ![Where] = With(@, n, files[n])]
              /\ at' = at + 1 /\ UNCHANGED <<pc, exit>>
           \/ /\ \/ UNCHANGED disk
                 \/ \E cut \in 0 .. Len(files[n]) :
                       disk' = [disk EXCEPT ![Where] = With(@, n, SubSeq(files[n], 1, cut))]
              /\ Stop("ioError")
    BY DEF WriteFile
  <1>7. CASE l # Where
    <2>1. disk'[l] = disk[l] /\ DoneIn(l) = {} /\ DoneIn(l)' = {}
      BY <1>1, <1>3, <1>6, <1>7 DEF DoneIn
    <2>. QED  BY <1>1, <1>4, <1>5, <2>1, HoldsStays
  <1>8. CASE l = Where /\ Stop("ioError")
    BY <1>3, <1>8 DEF LeftIn, PartWritten, Stop
  <1>9. CASE l = Where /\ n \in Dotted /\ ~run.allowEscape /\ Stop("refused")
    <2>1. n \in Named(Entries)
      BY <1>1, CollectedSays
    <2>2. PartWritten'
      BY <1>1, <1>3, <1>9, <2>1 DEF PartWritten, Stop
    <2>. QED  BY <1>3, <1>9, <2>2 DEF LeftIn, Stop
  <1>10. CASE /\ l = Where /\ disk' = [disk EXCEPT ![Where] = With(@, n, files[n])]
              /\ at' = at + 1 /\ UNCHANGED <<pc, exit>>
    <2>1. disk'[l] = With(disk[l], n, files[n])
      BY <1>1, <1>3, <1>10
    <2>2. /\ DoneIn(l) = {k \in Collected : Rank(k) < at}
          /\ DoneIn(l)' = {k \in Collected : Rank(k) < at + 1}
      BY <1>1, <1>3, <1>10 DEF DoneIn, Done
    <2>3. DoneIn(l) \subseteq DoneIn(l)' /\ n \in DoneIn(l)'
      <3>1. \A k \in Collected : Rank(k) \in Nat
        BY <1>2, CollectedRanks
      <3>. QED  BY <1>1, <1>6, <2>2, <3>1
    <2>4. PICK S, T : S = DoneIn(l) /\ T = DoneIn(l)'
      OBVIOUS
    <2>5. HoldsBut(l, T)'
      <3>1. \A q : NamesOf(q)' = NamesOf(q)
        BY <1>1 DEF NamesOf
      <3>2. \A q, k : Over(l, q, k)' <=> Over(l, q, k)
        BY <1>4, <3>1 DEF Over
      <3>3. HoldsBut(l, S) /\ S \subseteq T /\ n \in T
        BY <1>5, <2>3, <2>4
      <3>4. \A k : k \notin T => (k \in DOMAIN disk'[l] <=> k \in DOMAIN disk[l])
        BY <2>1, <3>3 DEF With
      <3>5. \A k : k \notin T /\ k \in DOMAIN disk[l] => disk'[l][k] = disk[l][k]
        BY <2>1, <3>3 DEF With
      <3>6. ASSUME NEW q \in PluginsTo(l), NEW k \in NamesOf(q) \ T
            PROVE  \/ Over(l, q, k)
                   \/ k \in DOMAIN disk'[l] /\ Says(run.plugins[q].entries, k, disk'[l][k])
        <4>1. \/ Over(l, q, k)
              \/ k \in DOMAIN disk[l] /\ Says(run.plugins[q].entries, k, disk[l][k])
          BY <3>3, <3>6 DEF HoldsBut
        <4>. QED  BY <3>4, <3>5, <3>6, <4>1
      <3>7. ASSUME NEW k \in DOMAIN disk'[l] \ T
            PROVE  \E q \in PluginsTo(l) :
                      /\ ~Over(l, q, k)
                      /\ k \in NamesOf(q) \/ (Format[l] = "jar" /\ k = Manifest)
        <4>1. k \in DOMAIN disk[l] \ S
          BY <3>3, <3>4, <3>7
        <4>. QED  BY <3>3, <4>1 DEF HoldsBut
      <3>8. /\ \A q \in PluginsTo(l)' : \A k \in NamesOf(q)' \ T :
                  \/ Over(l, q, k)'
                  \/ k \in DOMAIN disk'[l] /\ Says(run'.plugins[q].entries, k, disk'[l][k])
            /\ \A k \in DOMAIN disk'[l] \ T : \E q \in PluginsTo(l)' :
                  /\ ~Over(l, q, k)'
                  /\ k \in NamesOf(q)' \/ (Format[l] = "jar" /\ k = Manifest)
        BY <1>1, <1>4, <3>1, <3>2, <3>6, <3>7
      <3>. QED  BY <3>8 DEF HoldsBut, Says, CountFrom
    <2>. QED  BY <2>4, <2>5
  <1>. QED  BY <1>6, <1>7, <1>8, <1>9, <1>10

\* When a response has been written out, its location has one answer more.
LEMMA NextPluginHolds ==
    ASSUME OutputInv, LinesInv, LocationsInv, AllWritten \/ WriteArchive, NextPlugin,
           ThePlugin.hasOutput, NEW l \in Location
    PROVE  HoldsBut(l, DoneIn(l))'
  <1>1. /\ run \in Run /\ p \in Nat \ {0} /\ at \in Nat /\ p <= Len(run.plugins)
        /\ pc = "write" /\ ~hadError /\ run' = run /\ p' = p + 1 /\ pc' = "plugin"
        /\ DOMAIN disk = Location
    BY DEF AllWritten, WriteArchive, NextPlugin, Writing, OutputInv, LinesInv
  <1>2. PICK m : Replayed(m)
    BY <1>1 DEF OutputInv, AllReplayed
  <1>3. /\ Where \in Location /\ Entries = run.plugins[p].entries
        /\ Collected = Named(Entries) /\ Collected = DOMAIN files
        /\ \A n \in Collected : Says(Entries, n, files[n])
    BY <1>1, WhereIs, CollectedSays
  <1>4. HoldsBut(l, DoneIn(l))
    BY <1>1 DEF LocationsInv, LeftIn
  <1>5. DoneIn(l)' = {}
    BY <1>1 DEF DoneIn, Done
  <1>8. PICK last \in Nat : last = p
    BY <1>1
  <1>6. CASE l # Where
    <2>1. PluginsTo(l)' = PluginsTo(l)
      BY <1>1, <1>6, OneMore
    <2>2. disk'[l] = disk[l] /\ DoneIn(l) = {}
      <3>1. disk' = disk \/ \E f : disk' = [disk EXCEPT ![Where] = f]
        BY <1>1 DEF AllWritten, WriteArchive, Stop
      <3>. QED  BY <1>1, <1>6, <3>1 DEF DoneIn
    <2>. QED  BY <1>1, <1>4, <1>5, <2>1, <2>2, HoldsStays
  <1>7. CASE l = Where
    <2>1. /\ last \in PluginsTo(l)' /\ PluginsTo(l) \subseteq PluginsTo(l)'
          /\ \A q \in PluginsTo(l)' : q = last \/ (q \in PluginsTo(l) /\ q < last)
          /\ \A q \in PluginsTo(l) : q < last
      BY <1>1, <1>7, <1>8, OneMore
    <2>2. \A q : NamesOf(q)' = NamesOf(q)
      BY <1>1 DEF NamesOf
    <2>3. NamesOf(last) = Collected /\ run.plugins[last].entries = Entries
      BY <1>3, <1>8 DEF NamesOf
    <2>4. \A n : ~Over(l, last, n)'
      <3>1. \A o \in PluginsTo(l)' : ~(last < o)
        BY <1>1, <1>8, <2>1 DEF PluginsTo
      <3>. QED  BY <3>1 DEF Over
    <2>5. ASSUME NEW q \in PluginsTo(l), NEW n
          PROVE  Over(l, q, n)' <=> Over(l, q, n) \/ (Format[l] = "dir" => n \in Collected)
      BY <2>1, <2>2, <2>3 DEF Over
    <2>6. \A q, n : Says(run'.plugins[q].entries, n, disk'[l][n])
                       <=> Says(run.plugins[q].entries, n, disk'[l][n])
      BY <1>1
    <2>. SUFFICES /\ \A q \in PluginsTo(l)' : \A n \in NamesOf(q) :
                       \/ Over(l, q, n)'
                       \/ n \in DOMAIN disk'[l] /\ Says(run.plugins[q].entries, n, disk'[l][n])
                  /\ \A n \in DOMAIN disk'[l] : \E q \in PluginsTo(l)' :
                       /\ ~Over(l, q, n)'
                       /\ n \in NamesOf(q) \/ (Format[l] = "jar" /\ n = Manifest)
      <3>1. /\ \A q \in PluginsTo(l)' : \A k \in NamesOf(q)' \ {} :
                  \/ Over(l, q, k)'
                  \/ k \in DOMAIN disk'[l] /\ Says(run'.plugins[q].entries, k, disk'[l][k])
            /\ \A k \in DOMAIN disk'[l] \ {} : \E q \in PluginsTo(l)' :
                  /\ ~Over(l, q, k)'
                  /\ k \in NamesOf(q)' \/ (Format[l] = "jar" /\ k = Manifest)
        BY <2>2, <2>6
      <3>2. HoldsBut(l, {})'
        BY <3>1 DEF HoldsBut
      <3>. QED  BY <1>5, <3>2
    <2>7. CASE AllWritten
      <3>1. Format[l] = "dir" /\ at = Cardinality(Collected) /\ disk' = disk
        BY <1>7, <2>7 DEF AllWritten
      <3>2. /\ DoneIn(l) = Collected
            /\ \A n \in Collected : n \in DOMAIN disk[l] /\ disk[l][n] = files[n]
        <4>1. \A n \in Collected : Rank(n) < at
          BY <1>2, <3>1, CollectedRanks
        <4>2. Written
          BY <1>1 DEF LinesInv
        <4>3. DoneIn(l) = {n \in Collected : Rank(n) < at}
          BY <1>1, <1>7 DEF DoneIn, Done
        <4>. QED  BY <1>7, <3>1, <4>1, <4>2, <4>3 DEF Written
      <3>3. HoldsBut(l, Collected)
        BY <1>4, <3>2
      <3>4. ASSUME NEW q \in PluginsTo(l)', NEW n \in NamesOf(q)
            PROVE  \/ Over(l, q, n)'
                   \/ n \in DOMAIN disk'[l] /\ Says(run.plugins[q].entries, n, disk'[l][n])
        <4>1. CASE q = last
          BY <1>3, <2>3, <3>1, <3>2, <3>4, <4>1
        <4>2. CASE q \in PluginsTo(l) /\ n \in Collected
          BY <2>5, <4>2
        <4>3. CASE q \in PluginsTo(l) /\ n \notin Collected
          <5>1. \/ Over(l, q, n)
                \/ n \in DOMAIN disk[l] /\ Says(run.plugins[q].entries, n, disk[l][n])
            BY <3>3, <3>4, <4>3 DEF HoldsBut
          <5>. QED  BY <2>5, <3>1, <4>3, <5>1
        <4>. QED  BY <2>1, <4>1, <4>2, <4>3
      <3>5. ASSUME NEW n \in DOMAIN disk'[l]
            PROVE  \E q \in PluginsTo(l)' :
                      /\ ~Over(l, q, n)'
                      /\ n \in NamesOf(q) \/ (Format[l] = "jar" /\ n = Manifest)
        <4>1. CASE n \in Collected
          BY <2>1, <2>3, <2>4, <4>1
        <4>2. CASE n \notin Collected
          <5>1. PICK q \in PluginsTo(l) :
                   /\ ~Over(l, q, n)
                   /\ n \in NamesOf(q) \/ (Format[l] = "jar" /\ n = Manifest)
            BY <3>1, <3>3, <3>5, <4>2 DEF HoldsBut
          <5>2. ~Over(l, q, n)'
            BY <2>5, <3>1, <4>2, <5>1
          <5>. QED  BY <2>1, <5>1, <5>2
        <4>. QED  BY <4>1, <4>2
      <3>. QED  BY <3>4, <3>5
    <2>8. CASE WriteArchive
      <3>1. Format[l] # "dir" /\ disk' = [disk EXCEPT ![Where] = ArchiveFiles]
        BY <1>1, <1>7, <2>8 DEF WriteArchive, Stop
      <3>2. disk'[l] = ArchiveFiles
        BY <1>1, <1>3, <1>7, <3>1
      <3>3. /\ \A n \in DOMAIN files : n \in DOMAIN ArchiveFiles /\ ArchiveFiles[n] = files[n]
            /\ \A n \in DOMAIN ArchiveFiles :
                  n \in DOMAIN files \/ (Format[l] = "jar" /\ n = Manifest)
        BY <1>7 DEF ArchiveFiles, With
      <3>4. ASSUME NEW q \in PluginsTo(l)', NEW n \in NamesOf(q)
            PROVE  \/ Over(l, q, n)'
                   \/ n \in DOMAIN disk'[l] /\ Says(run.plugins[q].entries, n, disk'[l][n])
        <4>1. CASE q = last
          <5>1. n \in DOMAIN files /\ Says(Entries, n, files[n])
            BY <1>3, <2>3, <3>4, <4>1
          <5>2. n \in DOMAIN disk'[l] /\ disk'[l][n] = files[n]
            BY <3>2, <3>3, <5>1
          <5>3. run.plugins[q].entries = Entries
            BY <2>3, <4>1
          <5>. QED  BY <5>1, <5>2, <5>3
        <4>2. CASE q \in PluginsTo(l)
          BY <2>5, <3>1, <4>2
        <4>. QED  BY <2>1, <4>1, <4>2
      <3>5. ASSUME NEW n \in DOMAIN disk'[l]
            PROVE  \E q \in PluginsTo(l)' :
                      /\ ~Over(l, q, n)'
                      /\ n \in NamesOf(q) \/ (Format[l] = "jar" /\ n = Manifest)
        BY <1>3, <2>1, <2>3, <2>4, <3>2, <3>3
      <3>. QED  BY <3>4, <3>5
    <2>. QED  BY <2>7, <2>8
  <1>. QED  BY <1>6, <1>7

LEMMA LocationsStep ==
    ASSUME OutputInv, LinesInv, LocationsInv, [Next]_vars
    PROVE  LocationsInv'
  <1>1. /\ run \in Run /\ p \in Nat \ {0} /\ at \in Nat /\ Len(run.plugins) \in Nat /\ run' = run
        /\ pc \in {"collect", "write"} => p <= Len(run.plugins)
        /\ DOMAIN disk = Location
    BY LenProperties DEF OutputInv, LinesInv, Run, Next, SkipPlugin, PluginFails, TakeResponse,
       AllPluginsRun, StartChunk, ContinueChunk, EndResponse, RefuseCollected, WriteFile,
       AllWritten, WriteArchive, Terminated, vars
  <1>2. OutputInv'
    BY OutputInvStep
  <1>3. \A l \in Location : pc # "done" => HoldsBut(l, DoneIn(l))
    BY DEF LocationsInv, LeftIn
  <1>4. \A l : pc # "write" \/ hadError => DoneIn(l) = {}
    BY DEF DoneIn, Done
  <1>5. ASSUME pc # "done", p' = p, UNCHANGED disk,
               \A l \in Location : DoneIn(l) = {} /\ DoneIn(l)' = {}
        PROVE  \A l \in Location : HoldsBut(l, DoneIn(l))'
    <2>. SUFFICES ASSUME NEW l \in Location PROVE HoldsBut(l, DoneIn(l))'
      OBVIOUS
    <2>1. HoldsBut(l, {})
      BY <1>3, <1>5
    <2>2. PluginsTo(l)' = PluginsTo(l)
      BY <1>1, <1>5, OneMore
    <2>3. HoldsBut(l, {})'
      BY <1>1, <1>5, <2>1, <2>2, HoldsStays
    <2>4. DoneIn(l)' = {}
      BY <1>5
    <2>. QED  BY <2>3, <2>4
  <1>6. CASE PluginFails \/ TakeResponse \/ AllPluginsRun \/ StartChunk \/ ContinueChunk
    <2>1. /\ pc \in {"plugin", "collect"} /\ pc' # "write" /\ p' = p /\ UNCHANGED disk
          /\ pc' \in {"collect", "done"} /\ (exit' # "running" => pc' = "done")
          /\ (pc' = "collect" => ThePlugin.hasOutput)
      BY <1>6 DEF PluginFails, TakeResponse, AllPluginsRun, StartChunk, ContinueChunk, Stop, ToRun,
         LocationsInv
    <2>2. \A l \in Location : DoneIn(l) = {} /\ DoneIn(l)' = {}
      BY <2>1 DEF DoneIn, Done
    <2>3. ThePlugin' = ThePlugin
      BY <1>1, <2>1, Static
    <2>. QED  BY <1>5, <2>1, <2>2, <2>3 DEF LocationsInv
  <1>7. CASE EndResponse
    <2>1. /\ pc = "collect" /\ pc' = "write" /\ at' = 0 /\ p' = p /\ UNCHANGED <<disk, exit>>
          /\ ThePlugin.hasOutput /\ exit = "running"
      BY <1>7 DEF EndResponse, LocationsInv
    <2>2. \A l \in Location : DoneIn(l) = {} /\ DoneIn(l)' = {}
      <3>1. PICK m : Replayed(m)'
        BY <1>2, <2>1 DEF OutputInv, AllReplayed
      <3>2. {n \in Collected' : Rank(n)' < 0} = {}
        <4>1. PICK S \in SUBSET AnyName : S = Collected'
          <5>1. PICK s \in Seq(AnyName) : s = order'
            BY <3>1 DEF Replayed
          <5>2. \A k \in 1 .. Len(s) : s[k] \in AnyName
            BY ElementOfSeq
          <5>3. Range(s) \in SUBSET AnyName
            BY <5>2, RangeWithin
          <5>. QED  BY <5>1, <5>3 DEF Collected
        <4>2. \A n : Rank(n)' = Cardinality({l \in S : l < n})
          BY <4>1 DEF Rank
        <4>3. \A n \in S : Rank(n)' \in Nat
          BY <4>2, NamesRanked
        <4>4. \A n \in Collected' : ~(Rank(n)' < 0)
          BY <4>1, <4>3
        <4>. QED  BY <4>4
      <3>. QED  BY <2>1, <3>2 DEF DoneIn, Done
    <2>3. ThePlugin' = ThePlugin
      BY <1>1, <2>1, Static
    <2>. QED  BY <1>5, <2>1, <2>2, <2>3 DEF LocationsInv
  <1>8. CASE RefuseCollected
    <2>1. pc = "write" /\ hadError /\ pc' = "done" /\ p' = p /\ UNCHANGED disk
      BY <1>8 DEF RefuseCollected, Stop
    <2>2. \A l \in Location : DoneIn(l) = {} /\ DoneIn(l)' = {}
      BY <2>1 DEF DoneIn, Done
    <2>. QED  BY <1>5, <2>1, <2>2 DEF LocationsInv
  <1>9. CASE WriteFile
    <2>1. \A l \in Location : HoldsBut(l, DoneIn(l))' \/ LeftIn(l)'
      BY <1>9, WriteFileHolds
    <2>2. /\ p' = p /\ pc = "write" /\ Format[Where] = "dir" /\ ThePlugin.hasOutput
          /\ exit = "running" /\ (exit' # "running" => pc' = "done") /\ pc' \in {"write", "done"}
      BY <1>9 DEF WriteFile, Writing, Stop, LocationsInv
    <2>3. ThePlugin' = ThePlugin /\ Where' = Where
      BY <1>1, <2>2, Static
    <2>. QED  BY <2>1, <2>2, <2>3 DEF LocationsInv
  <1>10. CASE (AllWritten \/ WriteArchive) /\ NextPlugin
    <2>1. ThePlugin.hasOutput /\ pc' = "plugin" /\ exit' = "running"
      BY <1>10 DEF AllWritten, WriteArchive, Writing, NextPlugin, LocationsInv
    <2>2. \A l \in Location : HoldsBut(l, DoneIn(l))'
      BY <1>10, <2>1, NextPluginHolds
    <2>. QED  BY <2>1, <2>2 DEF LocationsInv
  <1>11. CASE WriteArchive /\ ~NextPlugin
    <2>1. /\ pc = "write" /\ pc' = "done" /\ exit' = "ioError" /\ p' = p
          /\ Format[Where] \in {"zip", "jar"}
          /\ disk' \in {disk, [disk EXCEPT ![Where] = NoFiles]}
      BY <1>11 DEF WriteArchive, Writing, Stop
    <2>2. Where' = Where
      BY <1>1, <2>1, Static
    <2>3. \A l : l = Where => LeftIn(l)'
      BY <2>1, <2>2 DEF LeftIn, PartWritten
    <2>4. ASSUME NEW l \in Location, l # Where PROVE HoldsBut(l, DoneIn(l))'
      <3>1. PluginsTo(l)' = PluginsTo(l)
        BY <1>1, <2>1, OneMore
      <3>2. disk'[l] = disk[l] /\ DoneIn(l) = {} /\ DoneIn(l)' = {}
        BY <1>1, <2>1, <2>2, <2>4 DEF DoneIn
      <3>3. HoldsBut(l, {})
        BY <1>3, <2>1, <3>2
      <3>4. HoldsBut(l, {})'
        BY <1>1, <3>1, <3>2, <3>3, HoldsStays
      <3>. QED  BY <3>2, <3>4
    <2>. QED  BY <2>1, <2>3, <2>4 DEF LocationsInv
  <1>12. CASE SkipPlugin
    <2>1. /\ pc = "plugin" /\ pc' = "plugin" /\ p' = p + 1 /\ ~ThePlugin.hasOutput
          /\ UNCHANGED <<disk, exit>>
      BY <1>12 DEF SkipPlugin
    <2>2. ASSUME NEW l \in Location PROVE HoldsBut(l, DoneIn(l))'
      <3>1. PluginsTo(l)' = PluginsTo(l)
        BY <1>1, <2>1, OneMore
      <3>2. DoneIn(l) = {} /\ DoneIn(l)' = {}
        BY <2>1 DEF DoneIn, Done
      <3>3. HoldsBut(l, {})
        BY <1>3, <2>1, <3>2
      <3>4. HoldsBut(l, {})'
        BY <1>1, <2>1, <3>1, <3>3, HoldsStays
      <3>. QED  BY <3>2, <3>4
    <2>. QED  BY <2>1, <2>2 DEF LocationsInv
  <1>13. CASE UNCHANGED vars
    <2>1. /\ p' = p /\ pc' = pc /\ at' = at /\ exit' = exit /\ disk' = disk
          /\ order' = order /\ hadError' = hadError
      BY <1>13 DEF vars, outputDir
    <2>2. ThePlugin' = ThePlugin /\ Entries' = Entries /\ Where' = Where
      BY <1>1, <2>1, Static
    <2>3. ASSUME NEW l \in Location PROVE HoldsBut(l, DoneIn(l))' \/ LeftIn(l)'
      <3>1. LeftIn(l)' <=> LeftIn(l)
        BY <1>1, <2>1, <2>2 DEF LeftIn, PartWritten
      <3>2. PICK S : S = DoneIn(l)
        OBVIOUS
      <3>3. DoneIn(l)' = S
        BY <2>1, <2>2, <3>2 DEF DoneIn, Done, Collected, Rank
      <3>4. PluginsTo(l)' = PluginsTo(l)
        BY <1>1, <2>1, OneMore
      <3>5. HoldsBut(l, S)' <=> HoldsBut(l, S)
        BY <1>1, <2>1, <3>4, HoldsStays
      <3>6. HoldsBut(l, S) \/ LeftIn(l)
        BY <3>2 DEF LocationsInv
      <3>. QED  BY <3>1, <3>3, <3>5, <3>6
    <2>. QED  BY <2>1, <2>2, <2>3 DEF LocationsInv
  <1>. QED  BY <1>6, <1>7, <1>8, <1>9, <1>10, <1>11, <1>12, <1>13
            DEF Next, Terminated, AllWritten

\* Whatever the plugins answer, and however the command ends, each location has what those
\* run so far have answered, each file or archive from the last of them, except where the
\* last response was written in part (Run, WritePluginOutput, writeArchive).
THEOREM LocationsAlwaysHold == LoopSpec => []LocationsHoldAnswers
  <1>1. Init => LocationsInv
    <2>. SUFFICES ASSUME Init PROVE LocationsInv
      OBVIOUS
    <2>1. exit = "running" /\ pc = "plugin" /\ p = 1 /\ disk = [l \in Location |-> NoFiles]
      BY DEF Init
    <2>2. \A l : PluginsTo(l) = {}
      BY <2>1 DEF PluginsTo
    <2>3. \A l \in Location : DOMAIN disk[l] = {}
      BY <2>1 DEF NoFiles
    <2>4. \A l \in Location : \A S : HoldsBut(l, S)
      BY <2>2, <2>3 DEF HoldsBut
    <2>. QED  BY <2>1, <2>4 DEF LocationsInv
  <1>2. OutputInv /\ LinesInv /\ LocationsInv /\ [Next]_vars => LocationsInv'
    BY LocationsStep
  <1>3. OutputInv /\ LocationsInv => LocationsHoldAnswers
    <2>. SUFFICES ASSUME OutputInv, LocationsInv, NEW l \in Location, ~(PartWritten /\ l = Where)
                  PROVE  HoldsAnswers(l)
      BY DEF LocationsHoldAnswers
    <2>1. DoneIn(l) = {}
      BY DEF DoneIn, Done, PartWritten
    <2>2. HoldsBut(l, {})
      BY <2>1 DEF LocationsInv, LeftIn
    <2>. QED  BY <2>2, HoldsAll
  <1>4. Spec => []LocationsHoldAnswers
    BY <1>1, <1>2, <1>3, LinesInvariance, OutputInvariance, PTL DEF Spec
  <1>. QED  BY <1>4, LoopRunsOutput

================================================================================
