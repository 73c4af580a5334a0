--------------------------- MODULE ImportWalk_proofs ---------------------------
(***************************************************************************)
(* Proofs about ImportWalk for every set of files, every import graph,     *)
(* every request and every descriptor set.  The invariant is built in      *)
(* layers, each inductive relative to the ones before it:                  *)
(*   TypeOK, StackInv (the shape of the call stack), ReachInv (only needed *)
(*   files are walked), ErrorsInv (an error means the request has no       *)
(*   answer) and OrderInv (without an error, all that is behind the walk   *)
(*   is ordered).                                                          *)
(***************************************************************************)
EXTENDS ImportWalk, ProofLemmas

(***************************************************************************)
(* The import graph                                                        *)
(***************************************************************************)
LEMMA ExpandType ==
    ASSUME NEW j \in Job, NEW f \in File
    PROVE  Expand(j, f) \subseteq File
  BY RangeOfSeq DEF Expand, Job

\* Needed is closed under imports, contains the request and is the least such set.
LEMMA NeededProperties ==
    ASSUME NEW j \in Job
    PROVE  /\ Needed(j) \subseteq File
           /\ Range(j.relFiles) \subseteq Needed(j)
           /\ Closed(j, Needed(j))
           /\ \A S \in SUBSET File :
                 Closed(j, S) /\ Range(j.relFiles) \subseteq S => Needed(j) \subseteq S
  <1>1. Range(j.relFiles) \subseteq File
    BY RangeOfSeq DEF Job
  <1>2. \A f \in File : Expand(j, f) \subseteq File
    BY ExpandType
  <1>. QED  BY <1>1, <1>2 DEF Needed, Closed

LEMMA DescendantsProperties ==
    ASSUME NEW j \in Job, NEW f \in File
    PROVE  /\ Descendants(j, f) \subseteq File
           /\ Expand(j, f) \subseteq Descendants(j, f)
           /\ Closed(j, Descendants(j, f))
           /\ \A S \in SUBSET File :
                 Closed(j, S) /\ Expand(j, f) \subseteq S => Descendants(j, f) \subseteq S
  <1>1. \A g \in File : Expand(j, g) \subseteq File
    BY ExpandType
  <1>. QED  BY <1>1 DEF Descendants, Closed

(***************************************************************************)
(* Returning from a call                                                   *)
(***************************************************************************)
LEMMA ReturnEffect ==
    ASSUME NEW s \in Seq(Frame), NEW failed \in SUBSET File,
           at \in Nat \ {0}, Return(s, failed)
    PROVE  /\ stack' \in Seq(Frame)
           /\ Len(stack') = Len(s)
           /\ at' = IF s = <<>> THEN at + 1 ELSE at
           /\ at' \in Nat \ {0}
           /\ \A i \in 1 .. Len(s) :
                /\ stack'[i].file = s[i].file
                /\ i # Len(s) => stack'[i] = s[i]
                /\ i = Len(s) => /\ stack'[i].next = s[i].next + 1
                                 /\ stack'[i].failedDeps = s[i].failedDeps \cup failed
  <1>1. CASE s = <<>>
    BY <1>1, EmptySeq DEF Return
  <1>2. CASE s # <<>>
    <2>. DEFINE n == Len(s)
                e == [file       |-> s[n].file,
                      next       |-> s[n].next + 1,
                      failedDeps |-> s[n].failedDeps \cup failed]
    <2>1. n \in 1 .. Len(s)
      BY <1>2, EmptySeq
    <2>2. s[n] \in Frame
      BY <2>1, ElementOfSeq
    <2>3. /\ e \in Frame
          /\ e.file = s[n].file
          /\ e.next = s[n].next + 1
          /\ e.failedDeps = s[n].failedDeps \cup failed
      BY <2>2 DEF Frame
    <2>4. stack' = [s EXCEPT ![n] = e] /\ at' = at
      BY <1>2 DEF Return
    <2>5. /\ stack' \in Seq(Frame)
          /\ Len(stack') = Len(s)
          /\ \A i \in 1 .. Len(s) : stack'[i] = IF i = n THEN e ELSE s[i]
      BY <2>1, <2>3, <2>4, ExceptSeq
    <2>. HIDE DEF n, e
    <2>6. \A i \in 1 .. Len(s) : (i = n => stack'[i] = e) /\ (i # n => stack'[i] = s[i])
      BY <2>5
    <2>7. \A i \in 1 .. Len(s) : i = Len(s) <=> i = n
      BY DEF n
    <2>. QED  BY <1>2, <2>1, <2>3, <2>4, <2>5, <2>6, <2>7
  <1>. QED  BY <1>1, <1>2

\* The caller's frames once the innermost call has returned.
LEMMA BelowProperties ==
    ASSUME stack \in Seq(Frame), stack # <<>>
    PROVE  /\ Len(stack) \in Nat \ {0}
           /\ Below \in Seq(Frame)
           /\ Len(Below) = Len(stack) - 1
           /\ \A i \in 1 .. Len(stack) - 1 : Below[i] = stack[i]
           /\ Below = <<>> <=> Len(stack) = 1
           /\ Top \in Frame
  <1>1. Len(stack) \in Nat \ {0}
    BY EmptySeq
  <1>3. /\ Below \in Seq(Frame)
        /\ Len(Below) = Len(stack) - 1
        /\ \A i \in 1 .. Len(stack) - 1 : Below[i] = stack[i]
    BY AllButLast DEF Below
  <1>4. Below = <<>> <=> Len(stack) = 1
    BY <1>1, <1>3, EmptySeq
  <1>5. Top \in Frame
    BY <1>1, ElementOfSeq DEF Top
  <1>. QED  BY <1>1, <1>3, <1>4, <1>5

(***************************************************************************)
(* Layer 1: types                                                          *)
(***************************************************************************)
LEMMA JobType ==
    ASSUME TypeOK
    PROVE  /\ job.content \in [File -> Content]
           /\ job.imports \in [File -> Seq(File)]
           /\ job.relFiles \in Seq(File)
           /\ job.descriptorSet \in Seq(File)
           /\ Preloaded(job) \subseteq File
  <1>1. /\ job.content \in [File -> Content]
        /\ job.imports \in [File -> Seq(File)]
        /\ job.relFiles \in Seq(File)
        /\ job.descriptorSet \in Seq(File)
    BY DEF TypeOK, Job
  <1>. QED  BY <1>1, RangeOfSeq DEF Preloaded

\* The frame of a file on the import stack, and the chain reported for it.
LEMMA CycleChainProperties ==
    ASSUME TypeOK, NEW f \in ImportStack
    PROVE  /\ \E idx \in 1 .. Len(stack) : stack[idx].file = f
           /\ CycleChain(f) \in Seq(File)
  <1>. DEFINE idx == CHOOSE i \in 1 .. Len(stack) : stack[i].file = f
  <1>1. idx \in 1 .. Len(stack) /\ stack[idx].file = f
    BY DEF ImportStack
  <1>2. Len(stack) \in Nat /\ \A i \in 1 .. Len(stack) : stack[i] \in Frame
    BY LenProperties, ElementOfSeq DEF TypeOK
  <1>3. \A i \in 1 .. Len(stack) : stack[i].file \in File
    BY <1>2 DEF Frame
  <1>. HIDE DEF idx
  <1>. DEFINE n == Len(stack) - idx + 2
              chain == [i \in 1 .. n |-> IF i = n THEN f ELSE stack[idx + i - 1].file]
  <1>4. n \in Nat
    BY <1>1, <1>2
  <1>5. chain \in [1 .. n -> File]
    BY <1>1, <1>2, <1>3
  <1>6. chain \in Seq(File)
    <2>. HIDE DEF chain, n
    <2>. QED  BY <1>4, <1>5, SeqDef
  <1>7. CycleChain(f) = chain
    BY DEF CycleChain, idx
  <1>. QED  BY <1>1, <1>6, <1>7

\* A call is for a file, and a completed frame holds one.
LEMMA CallTypes ==
    ASSUME TypeOK
    PROVE  /\ \A f \in ImportStack : f \in File
           /\ stack # <<>> => Top.file \in ImportStack /\ Top.failedDeps \subseteq File
  <1>1. Len(stack) \in Nat /\ \A i \in 1 .. Len(stack) : stack[i] \in Frame
    BY LenProperties, ElementOfSeq DEF TypeOK
  <1>2. stack # <<>> => Len(stack) \in 1 .. Len(stack)
    BY <1>1, EmptySeq DEF TypeOK
  <1>. QED  BY <1>1, <1>2 DEF Frame, ImportStack, Top

LEMMA TypeOKStep ==
    ASSUME TypeOK, [Next]_vars
    PROVE  TypeOK'
  <1>. USE JobType, CallTypes
  <1>1. CASE Adopt
    <2>1. job.descriptorSet[at] \in File
      BY <1>1, ElementOfSeq DEF Adopt, TypeOK
    <2>2. Append(orderedFiles, job.descriptorSet[at]) \in Seq(File)
      BY <2>1, AppendProperties DEF TypeOK
    <2>3. /\ orderedFiles' \in Seq(File) /\ parsed' \in SUBSET File
          /\ at' = at + 1 /\ job' = job /\ pc' = pc /\ stack' = stack /\ errors' = errors
      BY <1>1, <2>1, <2>2 DEF Adopt, TypeOK
    <2>. QED  BY <2>3 DEF TypeOK
  <1>2. CASE StartWalk
    BY <1>2 DEF StartWalk, TypeOK
  <1>3. ASSUME NEW f \in File, ReportCycle(f) PROVE TypeOK'
    <2>1. stack' \in Seq(Frame) /\ at' \in Nat \ {0}
      BY <1>3, ReturnEffect DEF ReportCycle, TypeOK
    <2>2. [kind |-> "cycle", files |-> CycleChain(f)] \in Error
      BY <1>3, CycleChainProperties DEF ReportCycle, Error
    <2>. QED  BY <1>3, <2>1, <2>2 DEF ReportCycle, TypeOK
  <1>4. ASSUME NEW f \in File, Reuse(f) PROVE TypeOK'
    <2>1. stack' \in Seq(Frame) /\ at' \in Nat \ {0}
      BY <1>4, ReturnEffect DEF Reuse, TypeOK
    <2>. QED  BY <1>4, <2>1 DEF Reuse, TypeOK
  <1>5. ASSUME NEW f \in File, ReportUnusable(f) PROVE TypeOK'
    <2>1. stack' \in Seq(Frame) /\ at' \in Nat \ {0}
      BY <1>5, ReturnEffect DEF ReportUnusable, RejectLoaded, TypeOK
    <2>2. /\ [kind |-> "open", files |-> <<f>>] \in Error
          /\ [kind |-> "parse", files |-> <<f>>] \in Error
      BY DEF Error
    <2>. QED  BY <1>5, <2>1, <2>2 DEF ReportUnusable, RejectLoaded, TypeOK
  <1>6. ASSUME NEW f \in File, Descend(f) PROVE TypeOK'
    <2>1. [file |-> f, next |-> 1, failedDeps |-> {}] \in Frame
      BY DEF Frame
    <2>. QED  BY <1>6, <2>1, AppendProperties DEF Descend, EnterLoaded, TypeOK
  <1>7. CASE Complete
    <2>1. stack # <<>>
      BY <1>7 DEF Complete, Finish, FailSelfImport, FailImports, ImportsDone
    <2>2. Top.file \in File /\ Top.failedDeps \subseteq File /\ Below \in Seq(Frame)
      BY <2>1, BelowProperties DEF TypeOK
    <2>3. PICK failed \in SUBSET File : Return(Below, failed)
      BY <1>7, <2>2 DEF Complete, Finish, FailSelfImport, FailImports
    <2>4. stack' \in Seq(Frame) /\ at' \in Nat \ {0}
      BY <2>2, <2>3, ReturnEffect DEF TypeOK
    <2>5. orderedFiles' \in Seq(File) /\ parsed' \in SUBSET File /\ job' = job /\ pc' = pc
      <3>1. Append(orderedFiles, Top.file) \in Seq(File)
        BY <2>2, AppendProperties DEF TypeOK
      <3>. QED  BY <1>7, <3>1 DEF Complete, Finish, FailSelfImport, FailImports, TypeOK
    <2>6. errors' \in SUBSET Error
      <3>1. \A d \in File : [kind |-> "import", files |-> <<Top.file, d>>] \in Error
        BY <2>2 DEF Error
      <3>2. [kind |-> "type", files |-> <<Top.file>>] \in Error
        BY <2>2 DEF Error
      <3>3. CASE FailImports
        <4>1. PICK undefined \in SUBSET {[kind |-> "type", files |-> <<Top.file>>]} :
                errors' = errors \cup undefined
                            \cup {[kind |-> "import", files |-> <<Top.file, d>>] :
                                    d \in Top.failedDeps \ {Top.file}}
          BY <3>3 DEF FailImports
        <4>. QED  BY <2>2, <3>1, <3>2, <4>1 DEF TypeOK
      <3>4. CASE Finish \/ FailSelfImport
        BY <3>4 DEF Finish, FailSelfImport, TypeOK
      <3>. QED  BY <1>7, <3>3, <3>4 DEF Complete
    <2>. QED  BY <2>4, <2>5, <2>6 DEF TypeOK
  <1>8. CASE EndWalk
    BY <1>8 DEF EndWalk, TypeOK
  <1>9. CASE UNCHANGED vars
    BY <1>9 DEF vars, TypeOK
  <1>. QED
    BY <1>1, <1>2, <1>3, <1>4, <1>5, <1>6, <1>7, <1>8, <1>9 DEF Next, Call, Terminated

\* Every variable keeps its type: in particular the call stack holds only files
\* of the source tree and the walk reports only errors of the five kinds.
THEOREM TypeCorrect == Safety => []TypeOK
  <1>1. Init => TypeOK
    BY JobsAssumption, EmptySeq DEF Init, TypeOK
  <1>2. TypeOK /\ [Next]_vars => TypeOK'
    BY TypeOKStep
  <1>. QED  BY <1>1, <1>2, PTL DEF Safety

(***************************************************************************)
(* Layer 2: the shape of the call stack                                    *)
(***************************************************************************)

\* A return to a caller in the stack, the innermost one (s = stack) or the one
\* below it (s = Below), keeps the files of the remaining frames.
LEMMA ReturnShape ==
    ASSUME TypeOK, StackShape, NEW failed \in SUBSET File,
           NEW s \in Seq(Frame), s = stack \/ (stack # <<>> /\ s = Below),
           Return(s, failed), job' = job
    PROVE  /\ StackShape'
           /\ stack' \in Seq(Frame)
           /\ Len(stack') = Len(s)
           /\ Len(s) <= Len(stack)
           /\ at' = IF s = <<>> THEN at + 1 ELSE at
           /\ \A i \in 1 .. Len(s) :
                /\ i \in 1 .. Len(stack)
                /\ stack'[i].file = stack[i].file
                /\ i # Len(s) => stack'[i] = stack[i]
                /\ i = Len(s) => /\ stack'[i].next = stack[i].next + 1
                                 /\ stack'[i].failedDeps = stack[i].failedDeps \cup failed
           /\ ImportStack' \subseteq ImportStack
  <1>1. Len(stack) \in Nat /\ Len(s) \in Nat
    BY LenProperties DEF TypeOK
  <1>2. /\ stack' \in Seq(Frame)
        /\ Len(stack') = Len(s)
        /\ at' = IF s = <<>> THEN at + 1 ELSE at
        /\ \A i \in 1 .. Len(s) :
             /\ stack'[i].file = s[i].file
             /\ i # Len(s) => stack'[i] = s[i]
             /\ i = Len(s) => /\ stack'[i].next = s[i].next + 1
                              /\ stack'[i].failedDeps = s[i].failedDeps \cup failed
    BY ReturnEffect DEF TypeOK
  <1>3. Len(s) <= Len(stack) /\ \A i \in 1 .. Len(s) : s[i] = stack[i]
    BY <1>1, BelowProperties DEF TypeOK
  <1>4. \A i \in 1 .. Len(s) :
             /\ i \in 1 .. Len(stack)
             /\ stack'[i].file = stack[i].file
             /\ i # Len(s) => stack'[i] = stack[i]
             /\ i = Len(s) => /\ stack'[i].next = stack[i].next + 1
                              /\ stack'[i].failedDeps = stack[i].failedDeps \cup failed
    BY <1>1, <1>2, <1>3
  <1>5. ImportStack' \subseteq ImportStack
    BY <1>2, <1>4 DEF ImportStack
  <1>6. StackShape'
    <2>1. \A i, j \in 1 .. Len(stack') : stack'[i].file = stack'[j].file => i = j
      BY <1>2, <1>4 DEF StackShape
    <2>2. ASSUME NEW i \in 1 .. Len(stack') - 1
          PROVE  /\ stack'[i].next <= Len(job.imports[stack'[i].file])
                 /\ job.imports[stack'[i].file][stack'[i].next] = stack'[i + 1].file
      <3>1. /\ i \in 1 .. Len(s) /\ i # Len(s) /\ i + 1 \in 1 .. Len(s)
            /\ i \in 1 .. Len(stack) - 1
        BY <1>1, <1>2, <1>3
      <3>. QED  BY <1>4, <3>1 DEF StackShape
    <2>3. stack' # <<>> => at' <= Len(job.relFiles) /\ stack'[1].file = job.relFiles[at']
      <3>1. CASE s = <<>>
        BY <1>2, <3>1, EmptySeq
      <3>2. CASE s # <<>>
        <4>1. 1 \in 1 .. Len(s) /\ stack # <<>>
          BY <1>1, <1>3, <3>2, EmptySeq
        <4>. QED  BY <1>2, <1>4, <3>2, <4>1 DEF StackShape
      <3>. QED  BY <3>1, <3>2
    <2>. QED  BY <2>1, <2>2, <2>3 DEF StackShape
  <1>. QED  BY <1>2, <1>3, <1>4, <1>5, <1>6

\* A completed call returns to the frame below with the file as failed or not.
LEMMA CompleteReturns ==
    ASSUME TypeOK, Complete
    PROVE  /\ stack # <<>>
           /\ Top.file \in File
           /\ Below \in Seq(Frame)
           /\ job' = job /\ pc' = pc /\ parsed' = parsed
           /\ Finish => Return(Below, {})
           /\ FailSelfImport \/ FailImports => Return(Below, {Top.file})
           /\ \E failed \in SUBSET File : Return(Below, failed)
  <1>1. stack # <<>>
    BY DEF Complete, Finish, FailSelfImport, FailImports, ImportsDone
  <1>2. Top.file \in File /\ Below \in Seq(Frame)
    BY <1>1, CallTypes, BelowProperties DEF TypeOK
  <1>. QED  BY <1>1, <1>2 DEF Complete, Finish, FailSelfImport, FailImports

\* A call without effect on the stack returns at once.
LEMMA CallReturns ==
    ASSUME TypeOK, NEW f \in File, ReportCycle(f) \/ Reuse(f) \/ ReportUnusable(f)
    PROVE  /\ job' = job /\ pc' = pc /\ parsed' = parsed /\ orderedFiles' = orderedFiles
           /\ stack \in Seq(Frame)
           /\ \E failed \in SUBSET {f} : Return(stack, failed)
  BY DEF TypeOK, ReportCycle, Reuse, ReportUnusable, RejectLoaded

\* What Descend does to the stack.
LEMMA DescendEffect ==
    ASSUME TypeOK, NEW f \in File, Descend(f)
    PROVE  /\ Len(stack') = Len(stack) + 1
           /\ \A i \in 1 .. Len(stack) : stack'[i] = stack[i]
           /\ stack'[Len(stack) + 1] = [file |-> f, next |-> 1, failedDeps |-> {}]
           /\ stack'[Len(stack) + 1].file = f
           /\ stack'[Len(stack) + 1].next = 1
           /\ stack'[Len(stack) + 1].failedDeps = {}
           /\ stack' # <<>>
           /\ Len(stack) \in Nat
           /\ Len(stack) = 0 <=> stack = <<>>
           /\ ImportStack' = ImportStack \cup {f}
  <1>1. [file |-> f, next |-> 1, failedDeps |-> {}] \in Frame
    BY DEF Frame
  <1>2. /\ Len(stack') = Len(stack) + 1
        /\ \A i \in 1 .. Len(stack) : stack'[i] = stack[i]
        /\ stack'[Len(stack) + 1] = [file |-> f, next |-> 1, failedDeps |-> {}]
        /\ stack' # <<>>
    BY <1>1, AppendProperties DEF Descend, EnterLoaded, TypeOK
  <1>3. Len(stack) \in Nat /\ (Len(stack) = 0 <=> stack = <<>>)
    BY LenProperties, EmptySeq DEF TypeOK
  <1>4. ASSUME NEW x PROVE x \in ImportStack' <=> x \in ImportStack \cup {f}
    BY <1>2, <1>3 DEF ImportStack
  <1>. QED  BY <1>2, <1>3, <1>4

LEMMA StackShapeStep ==
    ASSUME TypeOK, StackShape, BookInv, [Next]_vars
    PROVE  StackShape'
  <1>1. CASE Adopt \/ StartWalk \/ EndWalk
    <2>1. stack = <<>> /\ stack' = <<>>
      BY <1>1 DEF Adopt, StartWalk, EndWalk, BookInv
    <2>. QED  BY <2>1, EmptySeq DEF StackShape
  <1>2. ASSUME NEW f \in File, ReportCycle(f) \/ Reuse(f) \/ ReportUnusable(f)
        PROVE  StackShape'
    <2>1. PICK failed \in SUBSET {f} : Return(stack, failed)
      BY <1>2, CallReturns
    <2>. QED  BY <1>2, <2>1, CallReturns, ReturnShape
  <1>3. ASSUME NEW f \in File, Descend(f) PROVE StackShape'
    <2>. DEFINE n == Len(stack)
    <2>1. /\ Len(stack') = n + 1
          /\ \A i \in 1 .. n : stack'[i] = stack[i]
          /\ stack'[n + 1].file = f
          /\ n \in Nat
          /\ n = 0 <=> stack = <<>>
      BY <1>3, DescendEffect
    <2>2. job' = job /\ at' = at /\ Calls(f) /\ f \notin ImportStack
      BY <1>3 DEF Descend, EnterLoaded
    <2>. HIDE DEF n
    <2>3. \A i \in 1 .. n : stack[i].file # f
      BY <2>2 DEF ImportStack, n
    <2>4. \A i, j \in 1 .. n : stack[i].file = stack[j].file => i = j
      BY DEF StackShape, n
    <2>5. \A i, j \in 1 .. Len(stack') : stack'[i].file = stack'[j].file => i = j
      BY <2>1, <2>3, <2>4
    <2>6. ASSUME NEW i \in 1 .. Len(stack') - 1
          PROVE  /\ stack'[i].next <= Len(job.imports[stack'[i].file])
                 /\ job.imports[stack'[i].file][stack'[i].next] = stack'[i + 1].file
      <3>1. CASE i = n
        <4>1. stack # <<>> /\ stack'[i] = Top /\ stack'[i + 1].file = f
          BY <2>1, <3>1 DEF Top, n
        <4>. QED  BY <2>2, <4>1 DEF Calls
      <3>2. CASE i # n
        <4>1. i \in 1 .. n /\ i + 1 \in 1 .. n /\ i \in 1 .. Len(stack) - 1
          BY <2>1, <3>2 DEF n
        <4>. QED  BY <2>1, <4>1 DEF StackShape
      <3>. QED  BY <3>1, <3>2
    <2>7. stack'[1].file = job.relFiles[at] /\ at <= Len(job.relFiles)
      <3>1. CASE stack = <<>>
        BY <2>1, <2>2, <3>1 DEF Calls
      <3>2. CASE stack # <<>>
        <4>1. 1 \in 1 .. n
          BY <2>1, <3>2
        <4>. QED  BY <2>1, <3>2, <4>1 DEF StackShape
      <3>. QED  BY <3>1, <3>2
    <2>. QED  BY <2>2, <2>5, <2>6, <2>7 DEF StackShape
  <1>4. CASE Complete
    <2>1. PICK failed \in SUBSET File : Return(Below, failed)
      BY <1>4, CompleteReturns
    <2>. QED  BY <1>4, <2>1, CompleteReturns, ReturnShape
  <1>5. CASE UNCHANGED vars
    BY <1>5 DEF vars, StackShape
  <1>. QED  BY <1>1, <1>2, <1>3, <1>4, <1>5 DEF Next, Call, Terminated

(***************************************************************************)
(* Layer 3: what is parsed, ordered and on the stack                       *)
(***************************************************************************)

\* The file of the completed frame is no longer on the stack.
LEMMA CompleteStack ==
    ASSUME TypeOK, StackShape, Complete
    PROVE  /\ Top.file \in ImportStack
           /\ ImportStack' = ImportStack \ {Top.file}
  <1>1. PICK failed \in SUBSET File : Return(Below, failed)
    BY CompleteReturns
  <1>2. /\ stack # <<>> /\ Below \in Seq(Frame) /\ job' = job
        /\ Len(stack) \in Nat \ {0}
        /\ Len(Below) = Len(stack) - 1
    BY CompleteReturns, BelowProperties DEF TypeOK
  <1>3. /\ Len(stack') = Len(Below)
        /\ \A i \in 1 .. Len(Below) : stack'[i].file = stack[i].file
    BY <1>1, <1>2, ReturnShape
  <1>4. \A i \in 1 .. Len(Below) : i \in 1 .. Len(stack) /\ stack[i].file # Top.file
    BY <1>2 DEF StackShape, Top
  <1>5. \A i \in 1 .. Len(stack) : i \in 1 .. Len(Below) \/ stack[i].file = Top.file
    BY <1>2 DEF Top
  <1>6. ASSUME NEW x PROVE x \in ImportStack' <=> x \in ImportStack \ {Top.file}
    BY <1>3, <1>4, <1>5 DEF ImportStack
  <1>7. Top.file \in ImportStack
    BY <1>2 DEF ImportStack, Top
  <1>. QED  BY <1>6, <1>7

LEMMA BookInvStep ==
    ASSUME TypeOK, StackShape, BookInv, [Next]_vars
    PROVE  BookInv'
  <1>1. CASE Adopt
    <2>. DEFINE f == job.descriptorSet[at]
    <2>1. /\ at \in 1 .. Len(job.descriptorSet)
          /\ f \in File /\ f \in Preloaded(job)
      <3>1. at \in 1 .. Len(job.descriptorSet)
        BY <1>1, JobType, LenProperties DEF Adopt, TypeOK
      <3>. QED  BY <3>1, JobType, ElementOfSeq, RangeEquality DEF Preloaded
    <2>2. /\ pc = "adopt" /\ pc' = pc /\ job' = job /\ stack = <<>> /\ stack' = <<>>
          /\ at' = at + 1
      BY <1>1 DEF Adopt, BookInv
    <2>3. ImportStack = {} /\ ImportStack' = {}
      BY <2>2, EmptySeq DEF ImportStack
    <2>4. /\ parsed' = parsed \cup {f}
          /\ Range(orderedFiles') = Range(orderedFiles) \cup {f}
          /\ IsInjective(orderedFiles')
      <3>1. CASE f \in parsed
        BY <1>1, <2>2, <3>1 DEF Adopt, BookInv, OrderedOnce
      <3>2. CASE f \notin parsed
        <4>1. orderedFiles' = Append(orderedFiles, f) /\ parsed' = parsed \cup {f}
          BY <1>1, <3>2 DEF Adopt
        <4>2. f \in File \ Range(orderedFiles)
          BY <2>1, <3>2 DEF BookInv
        <4>. QED
          BY <4>1, <4>2, AppendRange, AppendInjectiveSeq DEF TypeOK, BookInv, OrderedOnce
      <3>. QED  BY <3>1, <3>2
    <2>. HIDE DEF f
    <2>5. \A k \in 1 .. Len(job.descriptorSet) :
             k < at' => job.descriptorSet[k] \in Range(orderedFiles')
      <3>1. \A k \in 1 .. Len(job.descriptorSet) :
               k < at => job.descriptorSet[k] \in Range(orderedFiles)
        BY <2>2 DEF BookInv
      <3>2. job.descriptorSet[at] = f
        BY DEF f
      <3>3. ASSUME NEW k \in 1 .. Len(job.descriptorSet), k < at'
            PROVE  k < at \/ k = at
        BY <2>2, <3>3 DEF TypeOK
      <3>. QED  BY <2>4, <3>1, <3>2, <3>3
    <2>. QED
      BY <2>1, <2>2, <2>3, <2>4, <2>5 DEF BookInv, OrderedOnce, Preloaded
  <1>2. CASE StartWalk
    <2>1. \A k \in 1 .. Len(job.descriptorSet) : k < at
      BY <1>2, JobType, LenProperties DEF StartWalk, TypeOK
    <2>2. Preloaded(job) \subseteq Range(orderedFiles)
      <3>1. \A k \in 1 .. Len(job.descriptorSet) :
               job.descriptorSet[k] \in Range(orderedFiles)
        BY <1>2, <2>1 DEF StartWalk, BookInv
      <3>. QED  BY <3>1, JobType, RangeWithin DEF Preloaded
    <2>3. /\ pc' = "walk" /\ job' = job /\ stack' = stack /\ parsed' = parsed
          /\ orderedFiles' = orderedFiles
      BY <1>2 DEF StartWalk
    <2>. QED  BY <2>2, <2>3 DEF BookInv, OrderedOnce, ImportStack, Preloaded
  <1>3. ASSUME NEW f \in File, ReportCycle(f) \/ Reuse(f) \/ ReportUnusable(f)
        PROVE  BookInv'
    <2>1. pc = "walk"
      BY <1>3 DEF ReportCycle, Reuse, ReportUnusable, RejectLoaded, Calls
    <2>2. PICK failed \in SUBSET {f} : Return(stack, failed)
      BY <1>3, CallReturns
    <2>3. ImportStack' \subseteq ImportStack
      BY <1>3, <2>2, CallReturns, ReturnShape
    <2>4. job' = job /\ pc' = pc /\ parsed' = parsed /\ orderedFiles' = orderedFiles
      BY <1>3, CallReturns
    <2>. QED  BY <2>1, <2>3, <2>4 DEF BookInv, OrderedOnce, Preloaded
  <1>4. ASSUME NEW f \in File, Descend(f) PROVE BookInv'
    <2>1. ImportStack' = ImportStack \cup {f}
      BY <1>4, DescendEffect
    <2>. QED
      BY <1>4, <2>1 DEF Descend, EnterLoaded, Calls, BookInv, OrderedOnce, Preloaded
  <1>5. CASE Complete
    <2>1. /\ job' = job /\ pc' = pc /\ parsed' = parsed /\ pc = "walk"
          /\ Top.file \in File
      BY <1>5, CompleteReturns DEF BookInv
    <2>2. Top.file \in ImportStack /\ ImportStack' = ImportStack \ {Top.file}
      BY <1>5, CompleteStack
    <2>3. CASE Finish
      <3>1. orderedFiles' = Append(orderedFiles, Top.file)
        BY <2>3 DEF Finish
      <3>2. Top.file \in File \ Range(orderedFiles)
        BY <2>1, <2>2 DEF BookInv
      <3>3. Range(orderedFiles') = Range(orderedFiles) \cup {Top.file}
        BY <3>1, <3>2, AppendRange DEF TypeOK
      <3>4. IsInjective(orderedFiles')
        BY <3>1, <3>2, AppendInjectiveSeq DEF TypeOK, BookInv, OrderedOnce
      <3>. QED  BY <2>1, <2>2, <3>3, <3>4 DEF BookInv, OrderedOnce, Preloaded
    <2>4. CASE FailSelfImport \/ FailImports
      <3>1. orderedFiles' = orderedFiles
        BY <2>4 DEF FailSelfImport, FailImports
      <3>. QED  BY <2>1, <2>2, <3>1 DEF BookInv, OrderedOnce, Preloaded
    <2>. QED  BY <1>5, <2>3, <2>4 DEF Complete
  <1>6. CASE EndWalk
    BY <1>6 DEF EndWalk, BookInv, OrderedOnce, ImportStack, Preloaded
  <1>7. CASE UNCHANGED vars
    BY <1>7 DEF vars, BookInv, OrderedOnce, ImportStack, Preloaded
  <1>. QED  BY <1>1, <1>2, <1>3, <1>4, <1>5, <1>6, <1>7 DEF Next, Call, Terminated

\* The file being walked is a source file that parsed: what it expands to is
\* exactly its import list.
LEMMA StackExpand ==
    ASSUME TypeOK, BookInv, NEW f \in ImportStack
    PROVE  /\ f \in File /\ f \notin Preloaded(job)
           /\ Expand(job, f) = Range(job.imports[f])
  <1>1. pc = "walk"
    BY EmptySeq DEF BookInv, ImportStack
  <1>2. f \notin Preloaded(job) /\ f \in parsed
    BY <1>1 DEF BookInv
  <1>. QED  BY <1>2, CallTypes DEF BookInv, Expand

(***************************************************************************)
(* Layer 4: only needed files are walked                                   *)
(***************************************************************************)

\* A file parseRecursive is called for is needed, and an import of every file
\* on the stack, directly or not.
LEMMA CallsNeeded ==
    ASSUME TypeOK, StackShape, BookInv, ReachInv, NEW f \in File, Calls(f)
    PROVE  /\ f \in Needed(job)
           /\ \A i \in 1 .. Len(stack) : f \in Descendants(job, stack[i].file)
  <1>1. job \in Job
    BY DEF TypeOK
  <1>2. CASE stack = <<>>
    <2>1. at \in 1 .. Len(job.relFiles) /\ f = job.relFiles[at]
      BY <1>2, JobType, LenProperties DEF Calls, TypeOK
    <2>2. f \in Range(job.relFiles)
      BY <2>1, JobType, RangeEquality
    <2>. QED  BY <1>1, <1>2, <2>2, NeededProperties, EmptySeq
  <1>3. CASE stack # <<>>
    <2>1. Top.file \in ImportStack /\ Len(stack) \in Nat \ {0} /\ Top \in Frame
      BY <1>3, CallTypes, BelowProperties DEF TypeOK
    <2>2. /\ Top.file \in File /\ Top.file \notin Preloaded(job)
          /\ Expand(job, Top.file) = Range(job.imports[Top.file])
      BY <2>1, StackExpand
    <2>3. f \in Range(job.imports[Top.file])
      <3>1. job.imports[Top.file] \in Seq(File) /\ Top.next \in Nat \ {0}
        BY <2>1, <2>2, JobType DEF Frame
      <3>2. Len(job.imports[Top.file]) \in Nat
        BY <3>1, LenProperties
      <3>3. /\ Top.next \in 1 .. Len(job.imports[Top.file])
            /\ f = job.imports[Top.file][Top.next]
        BY <1>3, <3>1, <3>2 DEF Calls
      <3>. QED  BY <3>1, <3>3, RangeEquality
    <2>4. Top.file \in Needed(job)
      BY <2>1, <2>2 DEF BookInv, ReachInv
    <2>5. f \in Needed(job)
      BY <1>1, <2>2, <2>3, <2>4, NeededProperties DEF Closed
    <2>6. ASSUME NEW i \in 1 .. Len(stack)
          PROVE  f \in Descendants(job, stack[i].file)
      <3>1. stack[i].file \in File
        BY CallTypes DEF ImportStack
      <3>2. CASE i = Len(stack)
        BY <1>1, <2>2, <2>3, <3>1, <3>2, DescendantsProperties DEF Top
      <3>3. CASE i # Len(stack)
        <4>1. i < Len(stack) /\ Len(stack) \in 1 .. Len(stack)
          BY <2>1, <3>3
        <4>2. Top.file \in Descendants(job, stack[i].file)
          BY <4>1 DEF ReachInv, Top
        <4>. QED  BY <1>1, <2>2, <2>3, <3>1, <4>2, DescendantsProperties DEF Closed
      <3>. QED  BY <3>2, <3>3
    <2>. QED  BY <2>5, <2>6
  <1>. QED  BY <1>2, <1>3

LEMMA ReachInvStep ==
    ASSUME TypeOK, StackShape, BookInv, ReachInv, [Next]_vars
    PROVE  ReachInv'
  <1>1. CASE Adopt \/ StartWalk \/ EndWalk
    <2>1. stack' = <<>> /\ job' = job /\ Len(stack') = 0
      BY <1>1, EmptySeq DEF Adopt, StartWalk, EndWalk, BookInv
    <2>2. parsed' \subseteq Preloaded(job) \cup Needed(job)
      <3>1. CASE Adopt
        <4>1. job.descriptorSet[at] \in Preloaded(job)
          <5>1. at \in 1 .. Len(job.descriptorSet)
            BY <3>1, JobType, LenProperties DEF Adopt, TypeOK
          <5>. QED  BY <5>1, JobType, RangeEquality DEF Preloaded
        <4>2. parsed' \subseteq parsed \cup {job.descriptorSet[at]}
          BY <3>1 DEF Adopt
        <4>. QED  BY <4>1, <4>2 DEF ReachInv
      <3>2. CASE StartWalk \/ EndWalk
        BY <3>2 DEF StartWalk, EndWalk, ReachInv
      <3>. QED  BY <1>1, <3>1, <3>2
    <2>. QED  BY <2>1, <2>2 DEF ReachInv, Preloaded
  <1>2. ASSUME NEW failed \in SUBSET File,
               NEW s \in Seq(Frame), s = stack \/ (stack # <<>> /\ s = Below),
               Return(s, failed), job' = job, parsed' = parsed
        PROVE  ReachInv'
    <2>1. /\ Len(stack') = Len(s)
          /\ \A i \in 1 .. Len(s) : i \in 1 .. Len(stack) /\ stack'[i].file = stack[i].file
      BY <1>2, ReturnShape
    <2>2. \A i, j \in 1 .. Len(stack') :
             i < j => stack'[j].file \in Descendants(job, stack'[i].file)
      BY <2>1 DEF ReachInv
    <2>. QED  BY <1>2, <2>2 DEF ReachInv
  <1>3. ASSUME NEW f \in File, ReportCycle(f) \/ Reuse(f) \/ ReportUnusable(f)
        PROVE  ReachInv'
    BY <1>2, <1>3, CallReturns
  <1>4. ASSUME NEW f \in File, Descend(f) PROVE ReachInv'
    <2>1. job' = job /\ parsed' = parsed \cup {f} /\ Calls(f)
      BY <1>4 DEF Descend, EnterLoaded
    <2>2. /\ f \in Needed(job)
          /\ \A i \in 1 .. Len(stack) : f \in Descendants(job, stack[i].file)
      BY <2>1, CallsNeeded
    <2>. DEFINE n == Len(stack)
    <2>3. /\ Len(stack') = n + 1
          /\ \A i \in 1 .. n : stack'[i] = stack[i]
          /\ stack'[n + 1].file = f
          /\ n \in Nat
      BY <1>4, DescendEffect
    <2>4. \A i, j \in 1 .. n : i < j => stack[j].file \in Descendants(job, stack[i].file)
      BY DEF ReachInv
    <2>5. \A i \in 1 .. n : f \in Descendants(job, stack[i].file)
      BY <2>2
    <2>. HIDE DEF n
    <2>6. \A i, j \in 1 .. Len(stack') :
             i < j => stack'[j].file \in Descendants(job, stack'[i].file)
      BY <2>3, <2>4, <2>5
    <2>. QED  BY <2>1, <2>2, <2>6 DEF ReachInv
  <1>5. CASE Complete
    BY <1>2, <1>5, CompleteReturns
  <1>6. CASE UNCHANGED vars
    BY <1>6 DEF vars, ReachInv
  <1>. QED  BY <1>1, <1>3, <1>4, <1>5, <1>6 DEF Next, Call, Terminated

(***************************************************************************)
(* Layer 5: an error is always recorded, and never without a reason        *)
(***************************************************************************)

\* A file imported by itself through the stack, or one that cannot be opened or
\* parsed, leaves the request without an answer.
LEMMA ErrorHasReason ==
    ASSUME TypeOK, StackShape, BookInv, ReachInv,
           NEW f \in File, ReportCycle(f) \/ ReportUnusable(f)
    PROVE  ~Clean(job)
  <1>1. /\ f \in Needed(job)
        /\ \A i \in 1 .. Len(stack) : f \in Descendants(job, stack[i].file)
    BY CallsNeeded DEF ReportCycle, ReportUnusable, RejectLoaded
  <1>2. CASE ReportCycle(f)
    <2>1. f \in ImportStack
      BY <1>2 DEF ReportCycle
    <2>2. OnCycle(job, f)
      BY <1>1, <2>1 DEF ImportStack, OnCycle
    <2>3. f \notin Preloaded(job)
      BY <2>1, StackExpand
    <2>. QED  BY <1>1, <2>2, <2>3 DEF Clean
  <1>3. CASE ReportUnusable(f)
    <2>1. pc = "walk" /\ f \notin parsed /\ job.content[f] # "parses"
      BY <1>3 DEF ReportUnusable, RejectLoaded, Calls
    <2>2. f \notin Preloaded(job)
      BY <2>1 DEF BookInv
    <2>. QED  BY <1>1, <2>1, <2>2 DEF Clean
  <1>. QED  BY <1>2, <1>3

LEMMA ErrorsInvStep ==
    ASSUME TypeOK, StackShape, BookInv, ReachInv, ErrorsInv, [Next]_vars
    PROVE  ErrorsInv'
  <1>1. CASE Adopt \/ StartWalk \/ EndWalk
    <2>1. stack' = <<>> /\ job' = job /\ Len(stack') = 0 /\ errors' = errors
      BY <1>1, EmptySeq DEF Adopt, StartWalk, EndWalk, BookInv
    <2>. QED  BY <2>1 DEF ErrorsInv
  \* A return leaves failed imports behind only together with an error.
  <1>2. ASSUME NEW failed \in SUBSET File,
               NEW s \in Seq(Frame), s = stack \/ (stack # <<>> /\ s = Below),
               Return(s, failed), job' = job,
               errors \subseteq errors',
               failed # {} => errors' # {},
               errors' # {} => ~Clean(job)
        PROVE  ErrorsInv'
    <2>1. /\ Len(stack') = Len(s)
          /\ \A i \in 1 .. Len(s) :
               /\ i \in 1 .. Len(stack)
               /\ stack'[i].file = stack[i].file
               /\ i # Len(s) => stack'[i] = stack[i]
               /\ i = Len(s) => /\ stack'[i].next = stack[i].next + 1
                                /\ stack'[i].failedDeps = stack[i].failedDeps \cup failed
      BY <1>2, ReturnShape
    <2>2. \A i \in 1 .. Len(stack') : stack'[i].failedDeps # {} => errors' # {}
      <3>. SUFFICES ASSUME NEW i \in 1 .. Len(stack'), stack'[i].failedDeps # {}
                    PROVE  errors' # {}
        OBVIOUS
      <3>0. i \in 1 .. Len(s)
        BY <2>1
      <3>1. stack[i].failedDeps # {} \/ failed # {}
        BY <2>1, <3>0
      <3>2. stack[i].failedDeps # {} => errors # {}
        BY <2>1, <3>0 DEF ErrorsInv
      <3>. QED  BY <1>2, <3>1, <3>2
    <2>. QED  BY <1>2, <2>2 DEF ErrorsInv
  <1>3. ASSUME NEW f \in File, ReportCycle(f) \/ ReportUnusable(f)
        PROVE  ErrorsInv'
    <2>1. /\ errors' # {} /\ errors \subseteq errors' /\ job' = job
          /\ Return(stack, {f}) /\ stack \in Seq(Frame)
      BY <1>3 DEF ReportCycle, ReportUnusable, RejectLoaded, TypeOK
    <2>. QED  BY <1>2, <1>3, <2>1, ErrorHasReason
  <1>4. ASSUME NEW f \in File, Reuse(f) PROVE ErrorsInv'
    <2>1. errors' = errors /\ job' = job /\ Return(stack, {}) /\ stack \in Seq(Frame)
      BY <1>4 DEF Reuse, TypeOK
    <2>. QED  BY <1>2, <2>1 DEF ErrorsInv
  <1>5. ASSUME NEW f \in File, Descend(f) PROVE ErrorsInv'
    <2>. DEFINE n == Len(stack)
    <2>1. /\ Len(stack') = n + 1
          /\ \A i \in 1 .. n : stack'[i] = stack[i]
          /\ stack'[n + 1].failedDeps = {}
          /\ n \in Nat
      BY <1>5, DescendEffect
    <2>2. errors' = errors /\ job' = job
      BY <1>5 DEF Descend, EnterLoaded
    <2>3. \A i \in 1 .. n : stack[i].failedDeps # {} => errors # {}
      BY DEF ErrorsInv
    <2>. HIDE DEF n
    <2>4. \A i \in 1 .. Len(stack') : stack'[i].failedDeps # {} => errors # {}
      BY <2>1, <2>3
    <2>. QED  BY <2>2, <2>4 DEF ErrorsInv
  <1>6. CASE Complete
    <2>1. /\ stack # <<>> /\ Below \in Seq(Frame) /\ job' = job /\ Top.file \in File
          /\ Finish => Return(Below, {})
          /\ FailSelfImport \/ FailImports => Return(Below, {Top.file})
      BY <1>6, CompleteReturns
    <2>2. Len(stack) \in 1 .. Len(stack)
      BY <2>1, BelowProperties DEF TypeOK
    <2>3. CASE Finish
      <3>1. errors' = errors
        BY <2>3 DEF Finish
      <3>. QED  BY <1>2, <2>1, <2>3, <3>1 DEF ErrorsInv
    <2>4. CASE FailSelfImport \/ FailImports
      <3>1. Top.failedDeps # {} /\ errors \subseteq errors'
        BY <2>4 DEF FailSelfImport, FailImports
      <3>2. errors # {}
        BY <2>2, <3>1 DEF ErrorsInv, Top
      <3>. QED  BY <1>2, <2>1, <2>4, <3>1, <3>2 DEF ErrorsInv
    <2>. QED  BY <1>6, <2>3, <2>4 DEF Complete
  <1>7. CASE UNCHANGED vars
    BY <1>7 DEF vars, ErrorsInv
  <1>. QED  BY <1>1, <1>3, <1>4, <1>5, <1>6, <1>7 DEF Next, Call, Terminated

(***************************************************************************)
(* Layer 6: without an error, everything behind the walk is ordered        *)
(***************************************************************************)

\* Appending a file whose imports are all in the list keeps the order topological.
LEMMA AppendTopological ==
    ASSUME TypeOK, NEW e \in File, orderedFiles' = Append(orderedFiles, e), job' = job,
           \A g \in Range(orderedFiles) \ Preloaded(job) :
              \A f \in Range(job.imports[g]) : Precedes(f, g),
           e \in Preloaded(job) \/ Range(job.imports[e]) \subseteq Range(orderedFiles)
    PROVE  \A g \in Range(orderedFiles') \ Preloaded(job) :
              \A f \in Range(job.imports[g]) : Precedes(f, g)'
  <1>. DEFINE n == Len(orderedFiles)
  <1>1. /\ Len(orderedFiles') = n + 1
        /\ \A i \in 1 .. n : orderedFiles'[i] = orderedFiles[i]
        /\ orderedFiles'[n + 1] = e
        /\ orderedFiles' \in Seq(File)
    BY AppendProperties DEF TypeOK
  <1>2. DOMAIN orderedFiles = 1 .. n /\ n \in Nat /\ DOMAIN orderedFiles' = 1 .. n + 1
    BY <1>1, LenProperties DEF TypeOK
  <1>3. Range(orderedFiles') = Range(orderedFiles) \cup {e}
    BY AppendRange DEF TypeOK
  <1>4. ASSUME NEW f, NEW g, Precedes(f, g) PROVE Precedes(f, g)'
    BY <1>1, <1>2, <1>4 DEF Precedes
  <1>5. ASSUME NEW f \in Range(orderedFiles) PROVE Precedes(f, e)'
    <2>1. PICK m \in 1 .. n : orderedFiles[m] = f
      BY <1>2 DEF Range
    <2>2. m \in 1 .. n + 1 /\ n + 1 \in 1 .. n + 1 /\ m < n + 1
      BY <1>2
    <2>. QED  BY <1>1, <1>2, <2>1, <2>2 DEF Precedes
  <1>. QED  BY <1>3, <1>4, <1>5

\* Under a call that has returned, the files behind the walk stay ordered when
\* the file just returned from is.
LEMMA OrderAfterReturn ==
    ASSUME TypeOK, StackShape, pc = "walk", pc' = pc, job' = job,
           NEW failed \in SUBSET File,
           NEW s \in Seq(Frame), s = stack \/ (stack # <<>> /\ s = Below),
           Return(s, failed),
           NEW f \in Range(orderedFiles'),
           Range(orderedFiles) \subseteq Range(orderedFiles'),
           s = <<>> => at <= Len(job.relFiles) /\ f = job.relFiles[at],
           s # <<>> => f = job.imports[stack[Len(s)].file][stack[Len(s)].next],
           \A k \in 1 .. Len(job.relFiles) :
              k < at => job.relFiles[k] \in Range(orderedFiles),
           \A i \in 1 .. Len(stack) : \A k \in 1 .. Len(job.imports[stack[i].file]) :
              k < stack[i].next => job.imports[stack[i].file][k] \in Range(orderedFiles)
    PROVE  /\ \A k \in 1 .. Len(job.relFiles) :
                 k < at' => job.relFiles[k] \in Range(orderedFiles')
           /\ \A i \in 1 .. Len(stack') : \A k \in 1 .. Len(job.imports[stack'[i].file]) :
                 k < stack'[i].next =>
                    job.imports[stack'[i].file][k] \in Range(orderedFiles')
  <1>1. /\ Len(stack') = Len(s)
        /\ at' = IF s = <<>> THEN at + 1 ELSE at
        /\ \A i \in 1 .. Len(s) :
             /\ i \in 1 .. Len(stack)
             /\ stack'[i].file = stack[i].file
             /\ i # Len(s) => stack'[i] = stack[i]
             /\ i = Len(s) => /\ stack'[i].next = stack[i].next + 1
                              /\ stack'[i].failedDeps = stack[i].failedDeps \cup failed
    BY ReturnShape
  <1>2. ASSUME NEW k \in 1 .. Len(job.relFiles), k < at'
        PROVE  job.relFiles[k] \in Range(orderedFiles')
    <2>1. k < at \/ (s = <<>> /\ k = at)
      BY <1>1, <1>2 DEF TypeOK
    <2>. QED  BY <2>1
  <1>3. ASSUME NEW i \in 1 .. Len(stack'),
               NEW k \in 1 .. Len(job.imports[stack'[i].file]), k < stack'[i].next
        PROVE  job.imports[stack'[i].file][k] \in Range(orderedFiles')
    <2>1. i \in 1 .. Len(s) /\ i \in 1 .. Len(stack) /\ stack'[i].file = stack[i].file
      BY <1>1
    <2>2. s # <<>>
      BY <2>1, EmptySeq
    <2>3. stack[i].next \in Nat
      <3>1. stack[i] \in Frame
        BY <2>1, ElementOfSeq DEF TypeOK
      <3>. QED  BY <3>1 DEF Frame
    <2>4. k < stack[i].next \/ (i = Len(s) /\ k = stack[i].next)
      BY <1>1, <1>3, <2>1, <2>3
    <2>. QED  BY <2>1, <2>2, <2>4
  <1>. QED  BY <1>2, <1>3

LEMMA OrderInvStep ==
    ASSUME TypeOK, StackShape, BookInv, ErrorsInv, OrderInv, [Next]_vars
    PROVE  OrderInv'
  <1>. SUFFICES ASSUME errors' = {} PROVE OrderInv'
    BY DEF OrderInv
  <1>1. CASE Adopt
    <2>. DEFINE f == job.descriptorSet[at]
    <2>1. /\ at \in 1 .. Len(job.descriptorSet) /\ f \in Preloaded(job) /\ f \in File
      <3>1. at \in 1 .. Len(job.descriptorSet)
        BY <1>1, JobType, LenProperties DEF Adopt, TypeOK
      <3>. QED  BY <3>1, JobType, ElementOfSeq, RangeEquality DEF Preloaded
    <2>2. /\ pc' = "adopt" /\ job' = job /\ stack' = <<>> /\ errors = {}
          /\ parsed' = parsed \cup {f}
          /\ f \notin parsed => orderedFiles' = Append(orderedFiles, f)
          /\ f \in parsed => orderedFiles' = orderedFiles
      BY <1>1 DEF Adopt, BookInv
    <2>3. Range(orderedFiles') = Range(orderedFiles) \cup {f}
      <3>1. CASE f \in parsed
        BY <1>1, <2>2, <3>1 DEF Adopt, BookInv
      <3>2. CASE f \notin parsed
        BY ZenonT(60), <2>1, <2>2, <3>2, AppendRange DEF TypeOK
      <3>. QED  BY <3>1, <3>2
    <2>4. parsed' \subseteq Range(orderedFiles')
      BY <1>1, <2>2, <2>3 DEF Adopt, BookInv
    <2>5. Range(orderedFiles') \subseteq Preloaded(job)
      BY <1>1, <2>1, <2>3 DEF Adopt, BookInv
    <2>. QED
      BY <2>2, <2>4, <2>5, EmptySeq DEF OrderInv, Topological, Preloaded
  <1>2. CASE StartWalk
    <2>1. /\ job' = job /\ stack' = <<>> /\ orderedFiles' = orderedFiles /\ parsed' = parsed
          /\ errors' = errors /\ at' = 1 /\ pc' = "walk" /\ stack = <<>>
      BY <1>2 DEF StartWalk, BookInv
    <2>2. Topological'
      BY <2>1 DEF OrderInv, Topological, Precedes, Preloaded
    <2>. QED  BY <2>1, <2>2, EmptySeq DEF OrderInv, ImportStack
  <1>3. ASSUME NEW f \in File, ReportCycle(f) \/ ReportUnusable(f) PROVE OrderInv'
    <2>1. errors' # {}
      BY <1>3 DEF ReportCycle, ReportUnusable, RejectLoaded
    <2>. QED  BY <2>1
  <1>4. ASSUME NEW f \in File, Reuse(f) PROVE OrderInv'
    <2>1. /\ Calls(f) /\ f \notin ImportStack /\ f \in parsed /\ Return(stack, {})
          /\ job' = job /\ pc' = pc /\ pc = "walk" /\ parsed' = parsed
          /\ orderedFiles' = orderedFiles /\ errors' = errors
      BY <1>4 DEF Reuse, Calls
    <2>2. f \in Range(orderedFiles)
      BY <2>1 DEF OrderInv
    <2>3. Topological'
      BY <2>1 DEF OrderInv, Topological, Precedes, Preloaded
    <2>4. ImportStack' = ImportStack
      <3>1. /\ Len(stack') = Len(stack)
            /\ \A i \in 1 .. Len(stack) : stack'[i].file = stack[i].file
        BY <2>1, ReturnShape DEF TypeOK
      <3>. QED  BY <3>1 DEF ImportStack
    <2>5. /\ stack \in Seq(Frame)
          /\ stack = <<>> => at <= Len(job.relFiles) /\ f = job.relFiles[at]
          /\ stack # <<>> => f = job.imports[stack[Len(stack)].file][stack[Len(stack)].next]
      BY <2>1 DEF Calls, Top, TypeOK
    <2>6. /\ \A k \in 1 .. Len(job.relFiles) :
                k < at' => job.relFiles[k] \in Range(orderedFiles')
          /\ \A i \in 1 .. Len(stack') : \A k \in 1 .. Len(job.imports[stack'[i].file]) :
                k < stack'[i].next =>
                   job.imports[stack'[i].file][k] \in Range(orderedFiles')
      BY <2>1, <2>2, <2>5, OrderAfterReturn DEF OrderInv
    <2>. QED  BY <2>1, <2>3, <2>4, <2>6 DEF OrderInv
  <1>5. ASSUME NEW f \in File, Descend(f) PROVE OrderInv'
    <2>. DEFINE n == Len(stack)
    <2>1. /\ Len(stack') = n + 1
          /\ \A i \in 1 .. n : stack'[i] = stack[i]
          /\ stack'[n + 1].next = 1
          /\ n \in Nat
          /\ ImportStack' = ImportStack \cup {f}
      BY <1>5, DescendEffect
    <2>2. /\ job' = job /\ pc' = pc /\ pc = "walk" /\ parsed' = parsed \cup {f}
          /\ orderedFiles' = orderedFiles /\ errors' = errors /\ at' = at
      BY <1>5 DEF Descend, EnterLoaded, Calls
    <2>3. Topological'
      BY <2>2 DEF OrderInv, Topological, Precedes, Preloaded
    <2>4. \A i \in 1 .. n : \A k \in 1 .. Len(job.imports[stack[i].file]) :
             k < stack[i].next => job.imports[stack[i].file][k] \in Range(orderedFiles)
      BY <2>2 DEF OrderInv
    <2>. HIDE DEF n
    <2>5. \A i \in 1 .. Len(stack') : \A k \in 1 .. Len(job.imports[stack'[i].file]) :
             k < stack'[i].next => job.imports[stack'[i].file][k] \in Range(orderedFiles)
      BY <2>1, <2>4
    <2>. QED  BY <2>1, <2>2, <2>3, <2>5 DEF OrderInv
  <1>6. CASE Finish
    <2>1. /\ stack # <<>> /\ Top.file \in File /\ Below \in Seq(Frame)
          /\ Return(Below, {}) /\ job' = job /\ pc' = pc /\ pc = "walk" /\ parsed' = parsed
      BY <1>6, CompleteReturns DEF Complete, BookInv
    <2>2. /\ orderedFiles' = Append(orderedFiles, Top.file) /\ errors' = errors
          /\ Top.next > Len(job.imports[Top.file])
      BY <1>6 DEF Finish, ImportsDone
    <2>3. Range(orderedFiles') = Range(orderedFiles) \cup {Top.file}
      BY <2>1, <2>2, AppendRange DEF TypeOK
    <2>4. Top.file \in ImportStack /\ ImportStack' = ImportStack \ {Top.file}
      BY <1>6, CompleteStack DEF Complete
    <2>5. /\ Len(stack) \in Nat \ {0} /\ Len(Below) = Len(stack) - 1
          /\ Below = <<>> <=> Len(stack) = 1
          /\ Top \in Frame
      BY <2>1, BelowProperties DEF TypeOK
    <2>6. Range(job.imports[Top.file]) \subseteq Range(orderedFiles)
      <3>1. /\ job.imports[Top.file] \in Seq(File)
            /\ Len(job.imports[Top.file]) \in Nat
            /\ Top.next \in Nat
        BY <2>1, <2>5, JobType, LenProperties DEF Frame
      <3>2. \A k \in 1 .. Len(job.imports[Top.file]) : k < Top.next
        BY <2>2, <3>1
      <3>3. \A k \in 1 .. Len(job.imports[Top.file]) :
               job.imports[Top.file][k] \in Range(orderedFiles)
        BY <2>2, <2>5, <3>2 DEF OrderInv, Top
      <3>. QED  BY <3>1, <3>3, RangeEquality
    <2>7. Topological'
      <3>1. \A g \in Range(orderedFiles') \ Preloaded(job) :
               \A f \in Range(job.imports[g]) : Precedes(f, g)'
        BY <2>1, <2>2, <2>6, AppendTopological DEF OrderInv, Topological
      <3>. QED  BY <2>1, <3>1 DEF Topological, Preloaded
    <2>8. /\ Below = <<>> => at <= Len(job.relFiles) /\ Top.file = job.relFiles[at]
          /\ Below # <<>> =>
                Top.file = job.imports[stack[Len(Below)].file][stack[Len(Below)].next]
      <3>1. CASE Below = <<>>
        BY <2>1, <2>5, <3>1 DEF StackShape, Top
      <3>2. CASE Below # <<>>
        <4>1. Len(Below) \in 1 .. Len(stack) - 1 /\ Len(Below) + 1 = Len(stack)
          BY <2>5, <3>2
        <4>. QED  BY <3>2, <4>1 DEF StackShape, Top
      <3>. QED  BY <3>1, <3>2
    <2>9. /\ \A k \in 1 .. Len(job.relFiles) :
                k < at' => job.relFiles[k] \in Range(orderedFiles')
          /\ \A i \in 1 .. Len(stack') : \A k \in 1 .. Len(job.imports[stack'[i].file]) :
                k < stack'[i].next =>
                   job.imports[stack'[i].file][k] \in Range(orderedFiles')
      BY <2>1, <2>2, <2>3, <2>8, OrderAfterReturn DEF OrderInv
    <2>. QED  BY <2>1, <2>2, <2>3, <2>4, <2>7, <2>9 DEF OrderInv
  <1>7. CASE FailSelfImport \/ FailImports
    <2>1. stack # <<>> /\ Top.failedDeps # {} /\ errors \subseteq errors'
      BY <1>7 DEF FailSelfImport, FailImports, ImportsDone
    <2>2. Len(stack) \in 1 .. Len(stack)
      BY <2>1, BelowProperties DEF TypeOK
    <2>3. errors # {}
      BY <2>1, <2>2 DEF ErrorsInv, Top
    <2>. QED  BY <2>1, <2>3
  <1>8. CASE EndWalk
    <2>1. /\ pc = "walk" /\ pc' = "done" /\ at > Len(job.relFiles) /\ job' = job
          /\ stack' = stack /\ stack = <<>> /\ parsed' = parsed
          /\ orderedFiles' = orderedFiles /\ errors' = errors
      BY <1>8 DEF EndWalk
    <2>2. Range(job.relFiles) \subseteq Range(orderedFiles)
      <3>1. \A k \in 1 .. Len(job.relFiles) : k < at
        BY <2>1, JobType, LenProperties DEF TypeOK
      <3>2. \A k \in 1 .. Len(job.relFiles) : job.relFiles[k] \in Range(orderedFiles)
        BY <2>1, <3>1 DEF OrderInv
      <3>. QED  BY <3>2, JobType, RangeWithin
    <2>3. Topological'
      BY <2>1 DEF OrderInv, Topological, Precedes, Preloaded
    <2>. QED  BY <2>1, <2>2, <2>3, EmptySeq DEF OrderInv, ImportStack
  <1>9. CASE UNCHANGED vars
    BY <1>9 DEF vars, OrderInv, Topological, Precedes, Preloaded, ImportStack
  <1>. QED
    BY <1>1, <1>2, <1>3, <1>4, <1>5, <1>6, <1>7, <1>8, <1>9
    DEF Next, Call, Complete, Terminated

(***************************************************************************)
(* The invariant, and what it says of the walk                             *)
(***************************************************************************)

\* All layers hold together in every reachable state.
THEOREM Invariance == Safety => []IInv
  <1>1. Init => IInv
    <2>. SUFFICES ASSUME Init PROVE IInv
      OBVIOUS
    <2>1. TypeOK
      BY JobsAssumption, EmptySeq DEF Init, TypeOK
    <2>2. Range(orderedFiles) = {} /\ ImportStack = {} /\ Len(stack) = 0
      <3>1. Len(stack) = 0 /\ Len(orderedFiles) = 0 /\ orderedFiles \in Seq(File)
        BY EmptySeq DEF Init
      <3>2. Range(orderedFiles) = {orderedFiles[k] : k \in 1 .. Len(orderedFiles)}
        BY <3>1, RangeEquality
      <3>. QED  BY <3>1, <3>2 DEF ImportStack
    <2>3. IsInjective(orderedFiles)
      BY <2>2 DEF IsInjective, Range
    <2>4. StackShape /\ ReachInv /\ ErrorsInv
      BY <2>2 DEF Init, StackShape, ReachInv, ErrorsInv
    <2>5. BookInv
      BY <2>1, <2>2, <2>3, JobType, LenProperties DEF Init, BookInv, OrderedOnce
    <2>6. OrderInv
      BY <2>2 DEF Init, OrderInv, Topological
    <2>. QED  BY <2>1, <2>4, <2>5, <2>6 DEF IInv
  <1>2. IInv /\ [Next]_vars => IInv'
    BY TypeOKStep, StackShapeStep, BookInvStep, ReachInvStep, ErrorsInvStep, OrderInvStep
    DEF IInv
  <1>. QED  BY <1>1, <1>2, PTL DEF Safety

\* The orderedFiles list is always a topological order of the import graph while
\* the compilation has no error.
THEOREM OrderIsTopological == Safety => []Topological
  <1>1. IInv => Topological
    BY DEF IInv, OrderInv, Topological
  <1>. QED  BY <1>1, Invariance, PTL

\* No file is ever ordered twice.
THEOREM OrderHasNoDuplicates == Safety => []OrderedOnce
  <1>1. IInv => OrderedOnce
    BY DEF IInv, BookInv
  <1>. QED  BY <1>1, Invariance, PTL

\* A topological list that contains its members' imports is closed under Expand.
LEMMA OrderClosed ==
    ASSUME TypeOK, Topological, errors = {}
    PROVE  Closed(job, Range(orderedFiles))
  <1>1. ASSUME NEW g \in Range(orderedFiles), NEW f \in Expand(job, g)
        PROVE  f \in Range(orderedFiles)
    <2>1. g \notin Preloaded(job) /\ f \in Range(job.imports[g])
      BY <1>1 DEF Expand
    <2>2. Precedes(f, g)
      BY <2>1 DEF Topological
    <2>. QED  BY <2>2 DEF Precedes, Range
  <1>. QED  BY <1>1 DEF Closed

\* A file in a topological list without duplicates does not import itself: what
\* comes before it in the list is closed under imports and does not contain it.
LEMMA OrderAcyclic ==
    ASSUME TypeOK, Topological, OrderedOnce, errors = {}, NEW f \in Range(orderedFiles)
    PROVE  ~OnCycle(job, f)
  <1>1. PICK n \in DOMAIN orderedFiles : orderedFiles[n] = f
    BY DEF Range
  <1>2. DOMAIN orderedFiles \subseteq Nat /\ \A i \in DOMAIN orderedFiles : orderedFiles[i] \in File
    BY LenProperties, ElementOfSeq DEF TypeOK
  <1>. DEFINE S == {orderedFiles[i] : i \in {m \in DOMAIN orderedFiles : m < n}}
  \* The imports of a file at position k are at positions below k.
  <1>3. ASSUME NEW k \in DOMAIN orderedFiles, NEW g \in Expand(job, orderedFiles[k])
        PROVE  \E i \in DOMAIN orderedFiles : i < k /\ orderedFiles[i] = g
    <2>1. /\ orderedFiles[k] \in Range(orderedFiles) \ Preloaded(job)
          /\ g \in Range(job.imports[orderedFiles[k]])
      BY <1>3 DEF Expand, Range
    <2>2. Precedes(g, orderedFiles[k])
      BY <2>1 DEF Topological
    <2>. QED  BY <1>3, <2>2 DEF Precedes, OrderedOnce, IsInjective
  <1>4. Closed(job, S)
    <2>1. ASSUME NEW k \in DOMAIN orderedFiles, k < n, NEW g \in Expand(job, orderedFiles[k])
          PROVE  g \in S
      <3>1. PICK i \in DOMAIN orderedFiles : i < k /\ orderedFiles[i] = g
        BY <1>3, <2>1
      <3>2. i < n
        BY <1>2, <1>1, <2>1, <3>1
      <3>. QED  BY <3>1, <3>2
    <2>. QED  BY <2>1 DEF Closed
  <1>5. Expand(job, f) \subseteq S
    BY <1>1, <1>3
  <1>6. f \notin S
    BY <1>1, <1>2 DEF OrderedOnce, IsInjective
  <1>7. S \in SUBSET File
    BY <1>2
  <1>. HIDE DEF S
  <1>. QED  BY <1>4, <1>5, <1>6, <1>7 DEF OnCycle, Descendants

LEMMA VerdictFromInvariant ==
    ASSUME IInv
    PROVE  Verdict /\ Delivered
  <1>. USE DEF IInv
  <1>1. ASSUME pc = "done", errors = {}
        PROVE  Clean(job) /\ Range(orderedFiles) = Preloaded(job) \cup Needed(job)
    <2>1. Topological /\ Range(job.relFiles) \subseteq Range(orderedFiles)
      BY <1>1 DEF OrderInv
    <2>2. Range(orderedFiles) \in SUBSET File /\ job \in Job
      BY RangeOfSeq DEF TypeOK
    <2>3. Closed(job, Range(orderedFiles))
      BY <1>1, <2>1, OrderClosed
    <2>4. Needed(job) \subseteq Range(orderedFiles)
      BY <2>1, <2>2, <2>3, NeededProperties
    <2>5. /\ Preloaded(job) \subseteq Range(orderedFiles)
          /\ Range(orderedFiles) \subseteq parsed
          /\ parsed \subseteq Preloaded(job) \cup Needed(job)
      BY <1>1 DEF BookInv, ReachInv
    <2>6. ASSUME NEW f \in Needed(job) \ Preloaded(job)
          PROVE  job.content[f] = "parses" /\ ~OnCycle(job, f)
      <3>1. f \in Range(orderedFiles) /\ f \in parsed
        BY <2>4, <2>5
      <3>2. job.content[f] = "parses"
        BY <3>1 DEF BookInv
      <3>3. ~OnCycle(job, f)
        BY <1>1, <2>1, <3>1, OrderAcyclic DEF BookInv
      <3>. QED  BY <3>2, <3>3
    <2>. QED  BY <2>4, <2>5, <2>6 DEF Clean
  <1>2. errors # {} => ~Clean(job)
    BY DEF ErrorsInv
  <1>. QED  BY <1>1, <1>2 DEF Verdict, Delivered

\* The walk ends without an error exactly when every file the request needs can
\* be opened, parses and does not import itself.
THEOREM VerdictIsRight == Safety => []Verdict
  <1>1. IInv => Verdict
    BY VerdictFromInvariant
  <1>. QED  BY <1>1, Invariance, PTL

\* A walk without an error has ordered the descriptor sets and the files the
\* request needs, and nothing else.
THEOREM DeliveryIsComplete == Safety => []Delivered
  <1>1. IInv => Delivered
    BY VerdictFromInvariant
  <1>. QED  BY <1>1, Invariance, PTL

(***************************************************************************)
(* Cycle chains                                                            *)
(***************************************************************************)

\* The files e.files of a cycle error form a closed path of the import graph.
ClosedPath(j, chain) ==
    /\ Len(chain) > 1
    /\ chain[1] = chain[Len(chain)]
    /\ \A i \in 1 .. Len(chain) - 1 : chain[i + 1] \in Expand(j, chain[i])

\* A frame's file imports the next frame's, and the innermost one's the file the
\* walk is called for.
LEMMA StackIsPath ==
    ASSUME TypeOK, StackShape, BookInv
    PROVE  /\ \A i \in 1 .. Len(stack) - 1 :
                 stack[i + 1].file \in Expand(job, stack[i].file)
           /\ stack # <<>> =>
                 \A f : Calls(f) => f \in Expand(job, stack[Len(stack)].file)
  <1>1. Len(stack) \in Nat /\ \A i \in 1 .. Len(stack) : stack[i] \in Frame
    BY LenProperties, ElementOfSeq DEF TypeOK
  <1>2. ASSUME NEW i \in 1 .. Len(stack),
               stack[i].next <= Len(job.imports[stack[i].file])
        PROVE  job.imports[stack[i].file][stack[i].next] \in Expand(job, stack[i].file)
    <2>1. stack[i].file \in ImportStack /\ stack[i] \in Frame
      BY <1>1 DEF ImportStack
    <2>2. /\ job.imports[stack[i].file] \in Seq(File)
          /\ Len(job.imports[stack[i].file]) \in Nat
      BY <2>1, StackExpand, JobType, LenProperties DEF TypeOK
    <2>3. stack[i].next \in 1 .. Len(job.imports[stack[i].file])
      BY <1>2, <2>1, <2>2 DEF Frame
    <2>. QED  BY <2>1, <2>2, <2>3, StackExpand, RangeEquality
  <1>3. \A i \in 1 .. Len(stack) - 1 : stack[i + 1].file \in Expand(job, stack[i].file)
    <2>. SUFFICES ASSUME NEW i \in 1 .. Len(stack) - 1
                  PROVE  stack[i + 1].file \in Expand(job, stack[i].file)
      OBVIOUS
    <2>1. i \in 1 .. Len(stack)
      BY <1>1
    <2>. QED  BY <1>2, <2>1 DEF StackShape
  <1>4. stack # <<>> => Len(stack) \in 1 .. Len(stack)
    BY <1>1, EmptySeq DEF TypeOK
  <1>5. ASSUME stack # <<>>, NEW f, Calls(f)
        PROVE  f \in Expand(job, stack[Len(stack)].file)
    BY <1>2, <1>4, <1>5 DEF Calls, Top
  <1>. QED  BY <1>3, <1>5

LEMMA CycleChainIsClosedPath ==
    ASSUME TypeOK, StackShape, BookInv, NEW f \in ImportStack, Calls(f)
    PROVE  ClosedPath(job, CycleChain(f))
  <1>. DEFINE idx == CHOOSE i \in 1 .. Len(stack) : stack[i].file = f
              n == Len(stack) - idx + 2
              chain == CycleChain(f)
  <1>1. idx \in 1 .. Len(stack) /\ stack[idx].file = f
    BY DEF ImportStack
  <1>2. Len(stack) \in Nat /\ stack # <<>>
    BY <1>1, LenProperties, EmptySeq DEF TypeOK
  <1>3. chain = [i \in 1 .. n |-> IF i = n THEN f ELSE stack[idx + i - 1].file]
    BY DEF CycleChain
  <1>4. chain \in Seq(File)
    BY CycleChainProperties
  <1>. HIDE DEF idx, chain
  <1>5. n \in Nat /\ n > 1
    BY <1>1, <1>2
  <1>6. Len(chain) = n
    <2>1. DOMAIN chain = 1 .. n
      BY <1>3
    <2>. QED  BY <1>4, <1>5, <2>1, LenProperties
  <1>7. /\ chain[1] = f /\ chain[n] = f
        /\ \A i \in 1 .. n - 1 : chain[i] = stack[idx + i - 1].file
    BY <1>1, <1>3, <1>5
  <1>8. ASSUME NEW i \in 1 .. n - 1 PROVE chain[i + 1] \in Expand(job, chain[i])
    <2>1. CASE i = n - 1
      <3>1. chain[i] = stack[Len(stack)].file /\ chain[i + 1] = f
        BY <1>1, <1>2, <1>5, <1>7, <2>1
      <3>. QED  BY <1>2, <3>1, StackIsPath
    <2>2. CASE i # n - 1
      <3>. DEFINE k == idx + i - 1
      <3>1. k \in 1 .. Len(stack) - 1 /\ i + 1 \in 1 .. n - 1 /\ idx + (i + 1) - 1 = k + 1
        BY <1>1, <1>2, <2>2
      <3>2. chain[i] = stack[k].file /\ chain[i + 1] = stack[k + 1].file
        BY <1>7, <3>1
      <3>. HIDE DEF k
      <3>. QED  BY <3>1, <3>2, StackIsPath
    <2>. QED  BY <2>1, <2>2
  <1>. QED  BY <1>5, <1>6, <1>7, <1>8 DEF ClosedPath, chain

\* Only ReportCycle adds an error of kind "cycle".
LEMMA NewCycleErrors ==
    ASSUME TypeOK, BookInv, [Next]_vars
    PROVE  /\ job' = job
           /\ \A e \in errors' \ errors :
                 e.kind = "cycle" =>
                    \E f \in ImportStack : Calls(f) /\ e.files = CycleChain(f)
  <1>1. ASSUME NEW f \in File, ReportCycle(f)
        PROVE  /\ job' = job
               /\ \A e \in errors' \ errors :
                    f \in ImportStack /\ Calls(f) /\ e.files = CycleChain(f)
    BY <1>1 DEF ReportCycle
  <1>2. ASSUME NEW f \in File, ReportUnusable(f)
        PROVE  job' = job /\ \A e \in errors' \ errors : e.kind # "cycle"
    BY <1>2 DEF ReportUnusable, RejectLoaded
  <1>3. CASE Complete
    BY <1>3 DEF Complete, Finish, FailSelfImport, FailImports
  <1>4. CASE Adopt \/ StartWalk \/ EndWalk
    BY <1>4 DEF Adopt, StartWalk, EndWalk
  <1>5. ASSUME NEW f \in File, Reuse(f) \/ Descend(f)
        PROVE  job' = job /\ errors' = errors
    BY <1>5 DEF Reuse, Descend, EnterLoaded
  <1>6. CASE UNCHANGED vars
    BY <1>6 DEF vars
  <1>. QED  BY <1>1, <1>2, <1>3, <1>4, <1>5, <1>6 DEF Next, Call, Terminated

\* Every chain a "recursively imports itself" error names is a closed path of
\* imports that exist: the path of parseRecursive calls leads along them.
THEOREM CyclesAreReal == Safety => []CycleChainsAreReal
  <1>1. Init => CycleChainsAreReal
    BY DEF Init, CycleChainsAreReal
  <1>2. IInv /\ CycleChainsAreReal /\ [Next]_vars => CycleChainsAreReal'
    <2>. SUFFICES ASSUME IInv, CycleChainsAreReal, [Next]_vars,
                         NEW e \in errors', e.kind = "cycle"
                  PROVE  ClosedPath(job', e.files)
      BY DEF CycleChainsAreReal, ClosedPath
    <2>1. TypeOK /\ StackShape /\ BookInv /\ job' = job
      BY NewCycleErrors DEF IInv
    <2>2. CASE e \in errors
      BY <2>1, <2>2 DEF CycleChainsAreReal, ClosedPath
    <2>3. CASE e \notin errors
      <3>1. PICK f \in ImportStack : Calls(f) /\ e.files = CycleChain(f)
        BY <2>1, <2>3, NewCycleErrors
      <3>. QED  BY <2>1, <3>1, CycleChainIsClosedPath
    <2>. QED  BY <2>2, <2>3
  <1>. QED  BY <1>1, <1>2, Invariance, PTL DEF Safety

(***************************************************************************)
(* The walk implements ImportResolution                                    *)
(***************************************************************************)

\* The abstract specification speaks of the same import graph.
LEMMA SameGraph ==
    ASSUME NEW j
    PROVE  /\ \A s : Resolution!Range(s) = Range(s)
           /\ Resolution!Preloaded(j) = Preloaded(j)
           /\ \A f : Resolution!Expand(j, f) = Expand(j, f)
           /\ Resolution!Needed(j) = Needed(j)
           /\ Resolution!Clean(j) = Clean(j)
  <1>0. \A s : Resolution!Range(s) = Range(s)
    BY DEF Resolution!Range, Range
  <1>1. Resolution!Preloaded(j) = Preloaded(j)
    BY <1>0 DEF Resolution!Preloaded, Preloaded
  <1>2. \A f : Resolution!Expand(j, f) = Expand(j, f)
    BY <1>0, <1>1 DEF Resolution!Expand, Expand
  <1>3. \A S : Resolution!Closed(j, S) <=> Closed(j, S)
    BY <1>2 DEF Resolution!Closed, Closed
  <1>4. Resolution!Needed(j) = Needed(j)
    BY <1>0, <1>3 DEF Resolution!Needed, Needed
  <1>5. \A f : Resolution!Descendants(j, f) = Descendants(j, f)
    BY <1>2, <1>3 DEF Resolution!Descendants, Descendants
  <1>6. \A f : Resolution!OnCycle(j, f) <=> OnCycle(j, f)
    BY <1>5 DEF Resolution!OnCycle, OnCycle
  <1>7. Resolution!Clean(j) = Clean(j)
    BY <1>1, <1>4, <1>6 DEF Resolution!Clean, Clean
  <1>. QED  BY <1>0, <1>1, <1>2, <1>4, <1>7

\* A finished frame holds a needed source file whose imports are all ordered.
LEMMA FinishEmits ==
    ASSUME IInv, Finish, errors = {}
    PROVE  /\ Top.file \in Needed(job) \ (Preloaded(job) \cup Range(orderedFiles))
           /\ Top.file \in File
           /\ job.content[Top.file] = "parses"
           /\ Expand(job, Top.file) \subseteq Range(orderedFiles)
  <1>. USE DEF IInv
  <1>1. stack # <<>> /\ Top.file \in ImportStack /\ Top.file \in File
    BY CallTypes DEF Finish, ImportsDone
  <1>2. /\ Top.file \notin Preloaded(job)
        /\ Expand(job, Top.file) = Range(job.imports[Top.file])
    BY <1>1, StackExpand
  <1>3. Top.file \in parsed /\ Top.file \notin Range(orderedFiles)
    BY <1>1 DEF BookInv
  <1>4. /\ job.imports[Top.file] \in Seq(File)
        /\ Len(job.imports[Top.file]) \in Nat
        /\ Top.next \in Nat
        /\ Len(stack) \in 1 .. Len(stack)
    <2>1. Top \in Frame /\ Len(stack) \in Nat \ {0}
      BY <1>1, BelowProperties DEF TypeOK
    <2>. QED  BY <1>1, <2>1, JobType, LenProperties DEF Frame
  <1>5. \A k \in 1 .. Len(job.imports[Top.file]) : k < Top.next
    BY <1>4 DEF Finish, ImportsDone
  <1>6. \A k \in 1 .. Len(job.imports[Top.file]) :
           job.imports[Top.file][k] \in Range(orderedFiles)
    BY <1>4, <1>5 DEF OrderInv, Top
  <1>7. Range(job.imports[Top.file]) \subseteq Range(orderedFiles)
    BY <1>4, <1>6, RangeWithin
  <1>. QED  BY <1>1, <1>2, <1>3, <1>7 DEF BookInv, ReachInv

LEMMA ResolutionStep ==
    ASSUME IInv, IInv', [Next]_vars
    PROVE  [Resolution!AbsNext]_(Resolution!absVars)
  <1>. USE DEF IInv
  <1>. USE SameGraph DEF Resolution!absVars, Resolution!AbsNext
  <1>1. errors # {} => errors' # {}
    BY DEF Next, Adopt, StartWalk, Call, ReportCycle, Reuse, ReportUnusable, RejectLoaded, Descend, EnterLoaded, Complete,
           Finish, FailSelfImport, FailImports, EndWalk, Terminated, vars
  <1>2. job' = job
    BY CompleteReturns DEF Next, Adopt, StartWalk, Call, ReportCycle, Reuse, ReportUnusable, RejectLoaded,
           Descend, EnterLoaded, EndWalk, Terminated, vars
  <1>3. CASE errors # {}
    BY <1>1, <1>2, <1>3
  <1>4. CASE errors = {} /\ errors' # {}
    <2>1. pc = "walk"
      <3>1. (\E f \in File : ReportCycle(f) \/ ReportUnusable(f)) \/ FailImports
        BY <1>4 DEF Next, Adopt, StartWalk, Call, Reuse, Descend, EnterLoaded, Complete, Finish,
                    FailSelfImport, EndWalk, Terminated, vars
      <3>. QED  BY <3>1 DEF ReportCycle, ReportUnusable, RejectLoaded, Calls, FailImports, ImportsDone, BookInv
    <2>2. ~Clean(job)
      BY <1>2, <1>4 DEF ErrorsInv
    <2>3. Resolution!Reject
      BY <1>2, <1>4, <2>1, <2>2 DEF Resolution!Reject
    <2>. QED  BY <2>3
  <1>5. CASE errors = {} /\ errors' = {}
    <2>1. CASE Adopt
      <3>. DEFINE f == job.descriptorSet[at]
      <3>1. /\ f \in Preloaded(job) /\ f \in File /\ pc = "adopt" /\ pc' = pc
        <4>1. at \in 1 .. Len(job.descriptorSet)
          BY <2>1, JobType, LenProperties DEF Adopt, TypeOK
        <4>. QED  BY <2>1, <4>1, JobType, ElementOfSeq, RangeEquality DEF Preloaded, Adopt
      <3>2. CASE f \in parsed
        <4>1. orderedFiles' = orderedFiles
          BY <2>1, <3>2 DEF Adopt
        <4>. QED  BY <1>2, <1>5, <3>1, <4>1
      <3>3. CASE f \notin parsed
        <4>1. orderedFiles' = Append(orderedFiles, f) /\ f \notin Range(orderedFiles)
          BY <2>1, <3>3 DEF Adopt, BookInv
        <4>2. Resolution!EmitPreloaded(f)
          BY <1>2, <1>5, <3>1, <4>1 DEF Resolution!EmitPreloaded
        <4>. QED  BY <3>1, <4>2
      <3>. QED  BY <3>2, <3>3
    <2>2. CASE StartWalk \/ Call
      <3>1. orderedFiles' = orderedFiles /\ (pc = "done" <=> pc' = "done")
        BY <2>2 DEF StartWalk, Call, ReportCycle, Reuse, ReportUnusable, RejectLoaded, Descend, EnterLoaded
      <3>. QED  BY <1>2, <1>5, <3>1
    <2>3. CASE Finish
      <3>1. /\ orderedFiles' = Append(orderedFiles, Top.file)
            /\ pc = "walk" /\ pc' = pc
        BY <2>3 DEF Finish, ImportsDone, BookInv
      <3>2. Resolution!EmitSource(Top.file)
        BY <1>2, <1>5, <2>3, <3>1, FinishEmits DEF Resolution!EmitSource
      <3>. QED  BY <1>5, <2>3, <3>2, FinishEmits
    <2>4. CASE FailSelfImport \/ FailImports
      <3>1. orderedFiles' = orderedFiles /\ pc' = pc
        BY <2>4 DEF FailSelfImport, FailImports
      <3>. QED  BY <1>2, <1>5, <3>1
    <2>5. CASE EndWalk
      <3>1. /\ pc = "walk" /\ pc' = "done" /\ orderedFiles' = orderedFiles
        BY <2>5 DEF EndWalk
      <3>2. Range(job.relFiles) \cup Preloaded(job) \subseteq Range(orderedFiles)
        BY <1>2, <1>5, <3>1 DEF OrderInv, BookInv
      <3>3. Resolution!Accept
        BY <1>2, <1>5, <3>1, <3>2 DEF Resolution!Accept
      <3>. QED  BY <3>3
    <2>6. CASE UNCHANGED vars
      BY <2>6 DEF vars
    <2>. QED  BY <2>1, <2>2, <2>3, <2>4, <2>5, <2>6 DEF Next, Complete, Terminated
  <1>. QED  BY <1>3, <1>4, <1>5

\* Every behaviour of the walk is one of the abstract resolution: files are
\* emitted after their imports, and a request is accepted or rejected rightly.
THEOREM ImplementsResolution == Safety => Resolution!AbsSafety
  <1>1. Init => Resolution!AbsInit
    BY JobsAssumption DEF Init, Resolution!AbsInit, Resolution!Job, Resolution!Content, Job, Content
  <1>2. IInv /\ IInv' /\ [Next]_vars => [Resolution!AbsNext]_(Resolution!absVars)
    BY ResolutionStep
  <1>. QED  BY <1>1, <1>2, Invariance, PTL DEF Safety, Resolution!AbsSafety
================================================================================
