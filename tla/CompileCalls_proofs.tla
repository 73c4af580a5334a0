--------------------------- MODULE CompileCalls_proofs ---------------------------
(***************************************************************************)
(* Proofs about concurrent calls of Compile, for any number of them, any   *)
(* compiler and any requests: what the calls share on disk and in the      *)
(* process-wide registry is always told by where each of them is; and      *)
(* every name and path leads a call to the file it should, which needs     *)
(* what Clean, Rel and the round trip of the source tree do to paths.      *)
(***************************************************************************)
EXTENDS CompileCalls, ProofLemmas, TLAPS

\* A call is under way, and may have a directory; it reads names and files below
\* it; and the files it has parsed are registered.
UnderWay(c) == pc[c] \notin {"start", "returned"}
Complete(c) == pc[c] \in {"relative", "walk", "check", "release"}
Registering(c) == pc[c] \in {"walk", "check", "release"}

\* The directories on disk are those of the calls under way, each its own.
DirInv ==
    /\ dir \in [Call -> Dir \cup {None}]
    /\ \A d \in DOMAIN disk : d \in Dir /\ disk[d] \subseteq Overlay
    /\ \A d \in DOMAIN disk : \E c \in Call : UnderWay(c) /\ dir[c] = d
    /\ \A c \in Call : UnderWay(c) /\ dir[c] # None => dir[c] \in DOMAIN disk
    /\ \A c, e \in Call :
          UnderWay(c) /\ UnderWay(e) /\ dir[c] = dir[e] /\ dir[c] # None => c = e
    /\ \A c \in Call : pc[c] = "start" => dir[c] = None
    /\ \A c \in Call : UnderWay(c) /\ Overlay # {} => dir[c] # None
    /\ \A c \in Call : pc[c] = "overlay" => dir[c] # None
    /\ \A c \in Call : Complete(c) /\ Overlay # {} => disk[dir[c]] = Overlay

\* The registry holds what the calls that are walking, checking or about to release have
\* read from their source trees, and nothing else; what descriptor sets have comes first, so
\* that it is never read.
RegistryInv ==
    /\ \A c \in Call : pc[c] \in {"start", "overlay", "relative"} => DOMAIN from[c] = {}
    /\ \A s \in DOMAIN index :
          /\ \E c \in Call : Registering(c) /\ \E n \in DOMAIN from[c] : s = <<c, n>>
          /\ s[2] \notin compiler.described
          /\ index[s] \in {"unbuilt", "built"}
    /\ \A c \in Call : Registering(c) =>
          \A n \in DOMAIN from[c] \ compiler.described : <<c, n>> \in DOMAIN index
    /\ \A c \in Call : pc[c] \in {"walk", "check"} => compiler.described \subseteq DOMAIN from[c]
    /\ \A c \in Call : \A n \in DOMAIN from[c] \cap compiler.described : from[c][n] = Described(n)
    /\ \A s \in indexed : s[2] \notin compiler.described
    /\ \A s \in scanned : s[2] \in compiler.described

ControlInv ==
    /\ compiler \in Compilers /\ request \in [Call -> Requests]
    /\ pc \in [Call -> {"start", "overlay", "relative", "walk", "check", "release", "remove",
                        "returned"}]
    /\ DOMAIN names = Call /\ DOMAIN from = Call

\* Names are made of the paths that were given, and files read of what is needed.
SourceInv ==
    /\ \A c \in Call : DOMAIN names[c] \subseteq request[c].paths /\ DOMAIN from[c] \subseteq Needed(c)
    /\ \A s \in indexed \cup scanned : SourceInfo(s)

CallsInv == ControlInv /\ DirInv /\ RegistryInv /\ SourceInv

-------------------------------------------------------------------------------
LEMMA InitCalls == Init => CallsInv
  BY DEF Init, CallsInv, ControlInv, DirInv, RegistryInv, SourceInv, UnderWay, Complete,
         Registering, Needed, SourceInfo

LEMMA ControlStep ==
    ASSUME ControlInv, [Next]_vars
    PROVE  ControlInv'
  <1>1. CASE UNCHANGED vars
    BY <1>1 DEF vars, ControlInv
  <1>2. ASSUME NEW c \in Call, Step(c) PROVE ControlInv'
    <2>. USE DEF ControlInv, GoTo
    <2>1. CASE \/ MakeDir(c) \/ WriteOverlay(c) \/ StartWalk(c) \/ EndWalk(c) \/ FailWalk(c)
               \/ EndChecks(c) \/ Release(c) \/ RemoveDir(c)
      BY <2>1 DEF MakeDir, WriteOverlay, StartWalk, EndWalk, FailWalk, EndChecks, Release, RemoveDir
    <2>2. CASE \E p \in request[c].paths : NamePath(c, p)
      BY <2>2 DEF NamePath
    <2>3. CASE \E n \in Needed(c) : ReadSource(c, n) \/ Lookup(c, n)
      BY <2>3 DEF ReadSource, Lookup
    <2>. QED  BY <1>2, <2>1, <2>2, <2>3 DEF Step
  <1>. QED  BY <1>1, <1>2 DEF Next, Terminated

LEMMA DirStep ==
    ASSUME ControlInv, DirInv, [Next]_vars
    PROVE  DirInv'
  <1>1. CASE UNCHANGED vars
    BY <1>1 DEF vars, DirInv, UnderWay, Complete, Overlay
  <1>2. ASSUME NEW c \in Call, Step(c) PROVE DirInv'
    <2>. USE DEF ControlInv, DirInv, GoTo, UnderWay, Complete, Overlay
    <2>1. CASE MakeDir(c)
      <3>1. CASE Overlay = {} /\ GoTo(c, "relative") /\ UNCHANGED <<dir, disk, compiler>>
        BY <2>1, <3>1 DEF MakeDir
      <3>2. CASE GoTo(c, "returned") /\ UNCHANGED <<dir, disk, compiler>>
        BY <2>1, <3>2 DEF MakeDir
      <3>3. CASE /\ Overlay # {} /\ GoTo(c, "overlay") /\ UNCHANGED compiler
                 /\ \E d \in Dir \ DOMAIN disk :
                       dir' = [dir EXCEPT ![c] = d] /\ disk' = With(disk, d, {})
        <4>1. None \notin Dir
          BY FilesAssumption
        <4>. QED  BY <2>1, <3>3, <4>1 DEF MakeDir, With
      <3>. QED  BY <2>1, <3>1, <3>2, <3>3 DEF MakeDir
    <2>2. CASE WriteOverlay(c)
      <3>1. CASE /\ \E n \in Overlay \ disk[dir[c]] : disk' = [disk EXCEPT ![dir[c]] = @ \cup {n}]
                 /\ UNCHANGED pc
        <4>1. pc[c] = "overlay" /\ pc' = pc /\ dir' = dir /\ compiler' = compiler
          BY <2>2, <3>1 DEF WriteOverlay
        <4>2. DOMAIN disk' = DOMAIN disk /\ dir[c] \in DOMAIN disk
          BY <3>1, <4>1
        <4>3. \A d \in DOMAIN disk : disk'[d] \subseteq Overlay /\ (d # dir[c] => disk'[d] = disk[d])
          BY <3>1
        <4>4. \A e \in Call : Complete(e) => dir[e] # dir[c]
          BY <4>1
        <4>5. \A e \in Call : Complete(e) /\ Overlay # {} => disk'[dir[e]] = disk[dir[e]]
          BY <4>3, <4>4
        <4>. QED  BY <4>1, <4>2, <4>3, <4>5
      <3>2. CASE UNCHANGED disk
        BY <2>2, <3>2 DEF WriteOverlay
      <3>. QED  BY <2>2, <3>1, <3>2 DEF WriteOverlay
    <2>3. CASE StartWalk(c) \/ EndWalk(c) \/ FailWalk(c) \/ EndChecks(c) \/ Release(c)
      BY <2>3 DEF StartWalk, EndWalk, FailWalk, EndChecks, Release
    <2>4. CASE RemoveDir(c)
      BY <2>4 DEF RemoveDir, Without
    <2>5. CASE \E p \in request[c].paths : NamePath(c, p)
      BY <2>5 DEF NamePath
    <2>6. CASE \E n \in Needed(c) : ReadSource(c, n) \/ Lookup(c, n)
      BY <2>6 DEF ReadSource, Lookup
    <2>. QED  BY <1>2, <2>1, <2>2, <2>3, <2>4, <2>5, <2>6 DEF Step
  <1>. QED  BY <1>1, <1>2 DEF Next, Terminated

LEMMA RegistryStep ==
    ASSUME ControlInv, RegistryInv, [Next]_vars
    PROVE  RegistryInv'
  <1>1. CASE UNCHANGED vars
    BY <1>1 DEF vars, RegistryInv, Registering
  <1>2. ASSUME NEW c \in Call, Step(c) PROVE RegistryInv'
    <2>. USE DEF ControlInv, RegistryInv, GoTo, Registering
    <2>1. CASE MakeDir(c) \/ WriteOverlay(c) \/ EndWalk(c) \/ FailWalk(c)
               \/ EndChecks(c) \/ RemoveDir(c)
      BY <2>1 DEF MakeDir, WriteOverlay, EndWalk, FailWalk, EndChecks, RemoveDir
    <2>6. CASE StartWalk(c)
      BY <2>6 DEF StartWalk
    <2>2. CASE Release(c)
      BY <2>2 DEF Release, Without
    <2>3. CASE \E p \in request[c].paths : NamePath(c, p)
      BY <2>3 DEF NamePath
    <2>4. ASSUME NEW n \in Needed(c), ReadSource(c, n) PROVE RegistryInv'
      BY <2>4 DEF ReadSource, With
    <2>5. ASSUME NEW n \in Needed(c), Lookup(c, n) PROVE RegistryInv'
      BY <2>5 DEF Lookup
    <2>. QED  BY <1>2, <2>1, <2>2, <2>3, <2>4, <2>5, <2>6 DEF Step
  <1>. QED  BY <1>1, <1>2 DEF Next, Terminated

LEMMA SourceStep ==
    ASSUME ControlInv, RegistryInv, SourceInv, [Next]_vars
    PROVE  SourceInv'
  <1>1. CASE UNCHANGED vars
    BY <1>1 DEF vars, SourceInv, Needed, SourceInfo
  <1>2. ASSUME NEW c \in Call, Step(c) PROVE SourceInv'
    <2>. USE DEF ControlInv, SourceInv, Needed, SourceInfo
    <2>1. CASE \/ MakeDir(c) \/ WriteOverlay(c) \/ EndWalk(c) \/ FailWalk(c)
               \/ EndChecks(c) \/ Release(c) \/ RemoveDir(c)
      BY <2>1 DEF MakeDir, WriteOverlay, EndWalk, FailWalk, EndChecks, Release, RemoveDir
    <2>5. CASE StartWalk(c)
      <3>1. DOMAIN from[c] = {}
        BY <2>5 DEF StartWalk, RegistryInv
      <3>2. from' = [from EXCEPT ![c] = [n \in compiler.described |-> Described(n)]] \/ from' = from
        BY <2>5 DEF StartWalk
      <3>3. \A b \in Call : DOMAIN from'[b] \subseteq Needed(b)' /\ DOMAIN from[b] \subseteq DOMAIN from'[b]
        BY <2>5, <3>1, <3>2 DEF StartWalk
      <3>. QED  BY <2>5, <3>3 DEF StartWalk
    <2>2. ASSUME NEW p \in request[c].paths, NamePath(c, p) PROVE SourceInv'
      BY <2>2 DEF NamePath, With
    <2>3. ASSUME NEW n \in Needed(c), ReadSource(c, n) PROVE SourceInv'
      BY <2>3 DEF ReadSource, With
    <2>4. ASSUME NEW n \in Needed(c), Lookup(c, n) PROVE SourceInv'
      BY <2>4 DEF Lookup
    <2>. QED  BY <1>2, <2>1, <2>2, <2>3, <2>4, <2>5 DEF Step, Needed
  <1>. QED  BY <1>1, <1>2 DEF Next, Terminated

\* The directories and the registered files there are, are told by where each call is:
\* no call can take what is another's (Compiler.Compile, registerLocationIndex).
THEOREM CallsInvariance == Spec => []CallsInv
  <1>1. CallsInv /\ [Next]_vars => CallsInv'
    BY ControlStep, DirStep, RegistryStep, SourceStep DEF CallsInv
  <1>. QED  BY <1>1, InitCalls, PTL DEF Spec

\* The state stays within its types, for any calls, compilers and requests.
THEOREM CallsTypeCorrect == Spec => []TypeOK
  <1>1. CallsInv => TypeOK
    BY DEF CallsInv, ControlInv, DirInv, RegistryInv, SourceInv, TypeOK, SourceInfo
  <1>. QED  BY <1>1, CallsInvariance, PTL

\* When no call is running, neither a directory nor a registry entry is left of any,
\* wherever each of them failed.
THEOREM CallsLeaveNothing == Spec => []NothingLeftBehind
  <1>1. CallsInv => NothingLeftBehind
    BY DEF CallsInv, DirInv, RegistryInv, NothingLeftBehind, UnderWay, Registering
  <1>. QED  BY <1>1, CallsInvariance, PTL

\* Whatever calls run and fail beside it, a call's positions in what it has read come from
\* the index, and those in the files of descriptor sets from the scan (compileInternal,
\* findLocationByPath).
THEOREM CallsKeepTheirIndex == Spec => []PositionsFromIndex
  <1>1. CallsInv => PositionsFromIndex
    BY DEF CallsInv, RegistryInv, PositionsFromIndex
  <1>. QED  BY <1>1, CallsInvariance, PTL

\* From the first name a call makes to the last file it reads, its directory exists,
\* has every file of the overlay, and is no other call's.
OverlayIsOwn ==
    \A c \in Call : Complete(c) /\ Overlay # {} =>
        /\ dir[c] \in DOMAIN disk /\ disk[dir[c]] = Overlay
        /\ \A e \in Call : UnderWay(e) /\ dir[e] = dir[c] => e = c

\* No call reads names or files while its overlay is incomplete, gone, or another's
\* ("Compile is safe for concurrent use"), whatever fails in the other calls.
THEOREM CallsReadTheirOverlay == Spec => []OverlayIsOwn
  <1>1. CallsInv => OverlayIsOwn
    BY DEF CallsInv, DirInv, OverlayIsOwn, UnderWay, Complete
  <1>. QED  BY <1>1, CallsInvariance, PTL

(***************************************************************************)
(* Names and paths                                                         *)
(***************************************************************************)
Dots == {"", ".", ".."}

\* One component of a path, as Clean takes it.
CleanStep(done, part) ==
    IF part \in {"", "."} THEN done
    ELSE IF part # ".." THEN Append(done, part)
    ELSE IF done = <<>> THEN <<>> ELSE Front(done)

LEMMA CleanStepType ==
    ASSUME NEW S, NEW done \in Seq(S \ Dots), NEW part \in S
    PROVE  CleanStep(done, part) \in Seq(S \ Dots)
  <1>1. CASE part \in {"", "."}
    BY <1>1 DEF CleanStep
  <1>2. CASE part \notin Dots
    <2>1. Append(done, part) \in Seq(S \ Dots)
      BY <1>2, AppendProperties
    <2>. QED  BY <1>2, <2>1 DEF CleanStep, Dots
  <1>3. CASE part = ".." /\ done = <<>>
    BY <1>3 DEF CleanStep
  <1>4. CASE part = ".." /\ done # <<>>
    <2>1. Front(done) \in Seq(S \ Dots)
      BY <1>4, AllButLast DEF Front
    <2>. QED  BY <1>4, <2>1 DEF CleanStep
  <1>. QED  BY <1>1, <1>2, <1>3, <1>4 DEF Dots

\* Clean goes through the components from the first to the last.
LEMMA CleanRuns ==
    ASSUME NEW S, NEW path \in Seq(S)
    PROVE  \E r \in [0 .. Len(path) -> Seq(S \ Dots)] :
              /\ r[0] = <<>> /\ Clean(path) = r[Len(path)]
              /\ \A k \in 1 .. Len(path) : r[k] = CleanStep(r[k - 1], path[k])
  <1>. DEFINE n == Len(path)
              V == Seq(S \ Dots)
              op == [x \in V \X S |-> CleanStep(x[1], x[2])]
              Solves(g) == g = [u \in SUBSET (1 .. n) |->
                                  IF u = {} THEN <<>>
                                  ELSE CleanStep(g[u \ {Greatest(u)}], path[Greatest(u)])]
  <1>1. n \in Nat /\ path \in [1 .. n -> S] /\ DOMAIN path = 1 .. n
    OBVIOUS
  <1>2. <<>> \in V /\ op \in [V \X S -> V]
    BY CleanStepType
  <1>3. Clean(path) = (CHOOSE g : Solves(g))[1 .. n]
    BY <1>1 DEF Clean, FoldLeft, MapThenFoldSet, CleanStep, Max, Greatest
  <1>4. \E g : Solves(g)
    <2>. HIDE DEF op
    <2>1. PICK g \in [SUBSET (1 .. n) -> V] : \A u \in SUBSET (1 .. n) :
             g[u] = IF u = {} THEN <<>> ELSE op[<<g[u \ {Greatest(u)}], path[Greatest(u)]>>]
      <3>1. \E g \in [SUBSET (1 .. n) -> V] : SolvesFold(<<>>, n, path, op, g)
        <4>. HIDE DEF n, V
        <4>. QED  BY <1>1, <1>2, FoldExists
      <3>. HIDE DEF n, V
      <3>. QED  BY <3>1 DEF SolvesFold
    <2>2. ASSUME NEW u \in SUBSET (1 .. n), u # {}
          PROVE  op[<<g[u \ {Greatest(u)}], path[Greatest(u)]>>]
                    = CleanStep(g[u \ {Greatest(u)}], path[Greatest(u)])
      <3>1. Greatest(u) \in u
        <4>1. PICK m \in u : \A i \in u : i <= m
          <5>1. u \in SUBSET Nat /\ \A i \in u : i <= n
            BY <1>1
          <5>. HIDE DEF n
          <5>. QED  BY <1>1, <2>2, <5>1, GreatestNat
        <4>2. \A i \in u : m >= i
          BY <4>1
        <4>. QED  BY <4>2 DEF Greatest
      <3>2. g[u \ {Greatest(u)}] \in V /\ path[Greatest(u)] \in S
        BY <1>1, <3>1
      <3>. HIDE DEF V
      <3>. QED  BY <3>2 DEF op
    <2>3. g = [u \in SUBSET (1 .. n) |->
                  IF u = {} THEN <<>>
                  ELSE CleanStep(g[u \ {Greatest(u)}], path[Greatest(u)])]
      BY <2>1, <2>2
    <2>. QED  BY <2>3
  <1>5. PICK g : Solves(g) /\ Clean(path) = g[1 .. n]
    <2>. HIDE DEF Solves
    <2>. QED  BY <1>3, <1>4
  <1>. DEFINE r == [k \in 0 .. n |-> g[1 .. k]]
  <1>6. r[0] = <<>>
    BY <1>5, FirstIndices
  <1>7. \A k \in 1 .. n : r[k] = CleanStep(r[k - 1], path[k])
    <2>. SUFFICES ASSUME NEW k \in 1 .. n PROVE r[k] = CleanStep(r[k - 1], path[k])
      OBVIOUS
    <2>1. /\ 1 .. k \in SUBSET (1 .. n) /\ 1 .. k # {}
          /\ Greatest(1 .. k) = k /\ (1 .. k) \ {k} = 1 .. (k - 1)
      BY <1>1, FirstIndices
    <2>2. g[1 .. k] = CleanStep(g[1 .. (k - 1)], path[k])
      BY <1>5, <2>1
    <2>3. k \in 0 .. n /\ k - 1 \in 0 .. n
      BY <1>1
    <2>. QED  BY <2>2, <2>3
  <1>8. \A k \in 0 .. n : r[k] \in V
    <2>. DEFINE P == {k \in 0 .. n : r[k] \in V}
    <2>1. 0 \in P
      <3>1. 0 \in 0 .. n
        BY <1>1
      <3>. HIDE DEF r, V, n
      <3>. QED  BY <1>2, <1>6, <3>1
    <2>2. ASSUME NEW k \in 1 .. n, k - 1 \in P PROVE k \in P
      <3>1. r[k - 1] \in V /\ path[k] \in S /\ k \in 0 .. n
        BY <1>1, <2>2
      <3>2. CleanStep(r[k - 1], path[k]) \in V
        BY <3>1, CleanStepType
      <3>. HIDE DEF r, V
      <3>. QED  BY <1>7, <3>1, <3>2
    <2>3. \A k \in 0 .. n : k \in P
      <3>. HIDE DEF P
      <3>. QED  BY <1>1, <2>1, <2>2, UpTo
    <2>. QED  BY <2>3
  <1>9. r \in [0 .. n -> V] /\ Clean(path) = r[n]
    <2>1. n \in 0 .. n
      BY <1>1
    <2>2. r[n] = g[1 .. n]
      BY <2>1
    <2>3. r \in [0 .. n -> V]
      <3>1. DOMAIN r = 0 .. n /\ r = [k \in 0 .. n |-> r[k]]
        OBVIOUS
      <3>. HIDE DEF r, V, n
      <3>. QED  BY <1>8, <3>1
    <2>. QED  BY <1>5, <2>2, <2>3
  <1>. HIDE DEF r
  <1>. QED  BY <1>6, <1>7, <1>9

\* What Clean returns has no empty component, no "." and no "..", and it leaves a path
\* alone that has none (filepath.Clean).
LEMMA CleanIsTidy ==
    ASSUME NEW S, NEW path \in Seq(S)
    PROVE  Clean(path) \in Seq(S \ Dots)
  <1>. Len(path) \in 0 .. Len(path)
    BY LenProperties
  <1>. QED  BY CleanRuns

LEMMA CleanOfTidy ==
    ASSUME NEW S, NEW path \in Seq(S \ Dots)
    PROVE  Clean(path) = path
  <1>1. path \in Seq(S) /\ Len(path) \in Nat
    OBVIOUS
  <1>2. PICK r \in [0 .. Len(path) -> Seq(S \ Dots)] :
              /\ r[0] = <<>> /\ Clean(path) = r[Len(path)]
              /\ \A k \in 1 .. Len(path) : r[k] = CleanStep(r[k - 1], path[k])
    BY <1>1, CleanRuns
  <1>. DEFINE P == {k \in 0 .. Len(path) : r[k] = SubSeq(path, 1, k)}
  <1>3. 0 \in P
    BY <1>1, <1>2, SubSeqEmpty
  <1>4. ASSUME NEW k \in 1 .. Len(path), k - 1 \in P PROVE k \in P
    <2>1. r[k] = Append(SubSeq(path, 1, k - 1), path[k])
      <3>1. path[k] \in S \ Dots
        BY ElementOfSeq
      <3>. QED  BY <1>2, <1>4, <3>1 DEF CleanStep, Dots
    <2>2. SubSeq(path, 1, k) = Append(SubSeq(path, 1, k - 1), path[k])
      <3>1. SubSeq(path, 1, k) = SubSeq(path, 1, k - 1) \o <<path[k]>>
        BY <1>1, SubSeqRecursiveSecond
      <3>2. SubSeq(path, 1, k - 1) \in Seq(S \ Dots) /\ path[k] \in S \ Dots
        BY <1>1, ElementOfSeq, SubSeqProperties
      <3>. QED  BY <3>1, <3>2, AppendIsConcat
    <2>3. k \in 0 .. Len(path)
      BY <1>1
    <2>. QED  BY <2>1, <2>2, <2>3
  <1>5. Len(path) \in P
    <2>1. \A k \in 0 .. Len(path) : k \in P
      <3>. HIDE DEF P
      <3>. QED  BY <1>1, <1>3, <1>4, UpTo
    <2>. QED  BY <1>1, <2>1
  <1>. QED  BY <1>2, <1>5, SubSeqFull

LEMMA PrefixMeans ==
    ASSUME NEW S, NEW s \in Seq(S), NEW t \in Seq(S)
    PROVE  /\ IsPrefix(s, t) <=> Len(s) <= Len(t) /\ \A i \in 1 .. Len(s) : s[i] = t[i]
           /\ IsPrefix(s, t) <=> Len(s) <= Len(t) /\ s = SubSeq(t, 1, Len(s))
  <1>1. Len(s) \in Nat /\ Len(t) \in Nat /\ SubSeq(s, 1, Len(s)) = s
    BY LenProperties, SubSeqFull
  <1>2. IsPrefix(s, t) <=> Len(s) <= Len(t) /\ s = SubSeq(t, 1, Len(s))
    BY <1>1 DEF IsPrefix
  <1>3. ASSUME Len(s) <= Len(t)
        PROVE  s = SubSeq(t, 1, Len(s)) <=> \A i \in 1 .. Len(s) : s[i] = t[i]
    <2>. DEFINE u == SubSeq(t, 1, Len(s))
    <2>1. u \in Seq(S) /\ Len(u) = Len(s) /\ \A i \in 1 .. Len(s) : u[i] = t[i]
      <3>1. 1 \in 1 .. Len(t) + 1 /\ Len(s) \in 0 .. Len(t)
        BY <1>1, <1>3
      <3>2. /\ SubSeq(t, 1, Len(s)) \in Seq(S)
            /\ Len(SubSeq(t, 1, Len(s))) = IF 1 <= Len(s) THEN Len(s) - 1 + 1 ELSE 0
            /\ \A i \in 1 .. Len(s) - 1 + 1 : SubSeq(t, 1, Len(s))[i] = t[1 + i - 1]
        BY <3>1, SubSeqProperties
      <3>3. Len(s) - 1 + 1 = Len(s) /\ (1 <= Len(s) \/ Len(s) = 0)
        BY <1>1
      <3>4. \A i \in 1 .. Len(s) : 1 + i - 1 = i
        BY <1>1
      <3>. QED  BY <3>2, <3>3, <3>4
    <2>. HIDE DEF u
    <2>2. s = u <=> \A i \in 1 .. Len(s) : s[i] = u[i]
      BY <2>1, SeqEqual
    <2>. QED  BY <2>1, <2>2 DEF u
  <1>. QED  BY <1>1, <1>2, <1>3

\* How Rel is made: what two paths have in common, a ".." for what is left of the first,
\* and what is left of the second.
RelFrom(base, target, common) ==
    [i \in 1 .. Len(base) - common |-> ".."] \o SubSeq(target, common + 1, Len(target))

LEMMA RelMeans ==
    ASSUME NEW S, NEW base \in Seq(S), NEW target \in Seq(S)
    PROVE  \E common \in 0 .. Len(base) :
              /\ common <= Len(target)
              /\ \A i \in 1 .. common : base[i] = target[i]
              /\ IsPrefix(base, target) => common = Len(base)
              /\ Rel(base, target) = IF RelFrom(base, target, common) = <<>> THEN <<".">>
                                     ELSE RelFrom(base, target, common)
  <1>. DEFINE C == CommonPrefixes({base, target})
  <1>1. Len(base) \in Nat /\ Len(target) \in Nat
    BY LenProperties
  <1>2. \A p \in C : p \in Seq(S) /\ IsPrefix(p, base) /\ IsPrefix(p, target)
    <2>. SUFFICES ASSUME NEW p \in C PROVE p \in Seq(S)
      BY DEF CommonPrefixes
    <2>1. p \in Prefixes(base) \/ p \in Prefixes(target)
      BY DEF CommonPrefixes
    <2>2. \A t \in Seq(S) : \A l \in 0 .. Len(t) : SubSeq(t, 1, l) \in Seq(S)
      BY LenProperties, SubSeqProperties
    <2>. QED  BY <2>1, <2>2 DEF Prefixes
  <1>3. <<>> \in C
    <2>1. SubSeq(base, 1, 0) = <<>>
      BY SubSeqEmpty
    <2>2. 0 \in 0 .. Len(base)
      BY <1>1
    <2>3. <<>> \in Prefixes(base)
      BY <2>1, <2>2 DEF Prefixes
    <2>4. <<>> \in Seq(S) /\ Len(<<>>) = 0
      OBVIOUS
    <2>5. IsPrefix(<<>>, base) /\ IsPrefix(<<>>, target)
      <3>1. PICK empty \in Seq(S) : empty = <<>> /\ Len(empty) = 0
        BY <2>4
      <3>2. Len(empty) <= Len(base) /\ Len(empty) <= Len(target) /\ 1 .. Len(empty) = {}
        BY <1>1, <3>1
      <3>3. IsPrefix(empty, base) /\ IsPrefix(empty, target)
        BY <3>2, PrefixMeans
      <3>. QED  BY <3>1, <3>3
    <2>. QED  BY <2>3, <2>5 DEF CommonPrefixes
  <1>4. PICK longest : /\ longest = LongestCommonPrefix({base, target}) /\ longest \in C
                       /\ \A p \in C : Len(p) <= Len(longest)
    <2>. DEFINE Lens == {Len(p) : p \in C}
    <2>1. Lens \in SUBSET Nat /\ Lens # {} /\ \A l \in Lens : l <= Len(base)
      <3>. HIDE DEF C
      <3>1. ASSUME NEW p \in C PROVE Len(p) \in Nat /\ Len(p) <= Len(base)
        <4>1. p \in Seq(S) /\ IsPrefix(p, base)
          BY <1>2
        <4>. QED  BY <4>1, PrefixMeans, LenProperties
      <3>. QED  BY <1>3, <3>1
    <2>2. PICK m \in Lens : \A l \in Lens : l <= m
      <3>. HIDE DEF Lens
      <3>. QED  BY <1>1, <2>1, GreatestNat
    <2>3. \E longest \in C : \A p \in C : Len(p) <= Len(longest)
      <3>. HIDE DEF C
      <3>. QED  BY <2>2
    <2>. QED  BY <2>3 DEF LongestCommonPrefix
  <1>. DEFINE common == Len(longest)
  <1>5. longest \in Seq(S) /\ IsPrefix(longest, base) /\ IsPrefix(longest, target)
    <2>. HIDE DEF C
    <2>. QED  BY <1>2, <1>4
  <1>6. /\ common \in 0 .. Len(base) /\ common <= Len(target)
        /\ \A i \in 1 .. common : base[i] = target[i]
    <2>1. common \in Nat
      BY <1>5, LenProperties
    <2>2. common <= Len(base) /\ \A i \in 1 .. common : longest[i] = base[i]
      BY <1>5, PrefixMeans
    <2>3. common <= Len(target) /\ \A i \in 1 .. common : longest[i] = target[i]
      BY <1>5, PrefixMeans
    <2>. QED  BY <1>1, <2>1, <2>2, <2>3
  <1>7. ASSUME IsPrefix(base, target) PROVE common = Len(base)
    <2>1. base \in Prefixes(base)
      <3>1. SubSeq(base, 1, Len(base)) = base /\ Len(base) \in 0 .. Len(base)
        BY <1>1, SubSeqFull
      <3>. QED  BY <3>1 DEF Prefixes
    <2>2. IsPrefix(base, base)
      BY <1>1, PrefixMeans
    <2>3. base \in C
      BY <1>7, <2>1, <2>2 DEF CommonPrefixes
    <2>4. Len(base) <= common
      <3>. HIDE DEF C
      <3>. QED  BY <1>4, <2>3
    <2>. QED  BY <1>1, <1>6, <2>4
  <1>8. Rel(base, target) = IF RelFrom(base, target, common) = <<>> THEN <<".">>
                            ELSE RelFrom(base, target, common)
    BY <1>4 DEF Rel, RelFrom
  <1>. HIDE DEF common
  <1>. QED  BY <1>6, <1>7, <1>8

\* From a directory to what is in it, Rel is the rest of the path; a path that does not go
\* up leads to something in the directory, or to itself; and the path has no other
\* components than those it is made of (filepath.Rel).
LEMMA RelBelow ==
    ASSUME NEW S, NEW base \in Seq(S), NEW target \in Seq(S),
           IsPrefix(base, target), base # target
    PROVE  Rel(base, target) = SubSeq(target, Len(base) + 1, Len(target))
  <1>1. PICK common \in 0 .. Len(base) :
              /\ IsPrefix(base, target) => common = Len(base)
              /\ Rel(base, target) = IF RelFrom(base, target, common) = <<>> THEN <<".">>
                                     ELSE RelFrom(base, target, common)
    BY RelMeans
  <1>. DEFINE rest == SubSeq(target, Len(base) + 1, Len(target))
  <1>2. Len(base) \in Nat /\ Len(target) \in Nat /\ Len(base) <= Len(target)
    BY PrefixMeans, LenProperties
  <1>3. Len(base) # Len(target)
    <2>1. base = SubSeq(target, 1, Len(base))
      BY PrefixMeans
    <2>. QED  BY <2>1, SubSeqFull
  <1>4. rest \in Seq(S) /\ Len(rest) = Len(target) - Len(base)
    <2>1. Len(base) + 1 \in 1 .. Len(target) + 1 /\ Len(target) \in Len(base) .. Len(target)
      BY <1>2
    <2>2. /\ rest \in Seq(S)
          /\ Len(rest) = IF Len(base) + 1 <= Len(target) THEN Len(target) - (Len(base) + 1) + 1 ELSE 0
      BY <2>1, SubSeqProperties
    <2>. QED  BY <1>2, <1>3, <2>2
  <1>5. RelFrom(base, target, common) = rest
    <2>1. [i \in 1 .. Len(base) - common |-> ".."] = <<>>
      <3>1. 1 .. Len(base) - common = {}
        BY <1>1, <1>2
      <3>2. [i \in 1 .. Len(base) - common |-> ".."] = [i \in {} |-> ".."]
        BY <3>1
      <3>3. [i \in {} |-> ".."] = <<>>
        OBVIOUS
      <3>. QED  BY <3>2, <3>3
    <2>2. <<>> \o rest = rest
      BY <1>4, ConcatEmptySeq
    <2>3. common + 1 = Len(base) + 1
      BY <1>1
    <2>. QED  BY <2>1, <2>2, <2>3 DEF RelFrom
  <1>6. rest # <<>>
    <2>. HIDE DEF rest
    <2>. QED  BY <1>2, <1>3, <1>4
  <1>. QED  BY <1>1, <1>5, <1>6

LEMMA RelInside ==
    ASSUME NEW S, NEW base \in Seq(S), NEW target \in Seq(S), Head(Rel(base, target)) # ".."
    PROVE  IsPrefix(base, target)
  <1>1. PICK common \in 0 .. Len(base) :
              /\ common <= Len(target)
              /\ \A i \in 1 .. common : base[i] = target[i]
              /\ Rel(base, target) = IF RelFrom(base, target, common) = <<>> THEN <<".">>
                                     ELSE RelFrom(base, target, common)
    BY RelMeans
  <1>2. Len(base) \in Nat /\ Len(target) \in Nat
    BY LenProperties
  <1>3. CASE common = Len(base)
    BY <1>1, <1>3, PrefixMeans
  <1>4. CASE common # Len(base)
    <2>. DEFINE T == S \cup {".."}
                up == [i \in 1 .. Len(base) - common |-> ".."]
                rest == SubSeq(target, common + 1, Len(target))
    <2>1. up \in Seq(T) /\ Len(up) = Len(base) - common /\ up[1] = ".." /\ Len(up) > 0
      BY <1>1, <1>2, <1>4
    <2>2. rest \in Seq(T)
      <3>1. common + 1 \in 1 .. Len(target) + 1 /\ Len(target) \in common .. Len(target)
        BY <1>1, <1>2
      <3>2. target \in Seq(T)
        OBVIOUS
      <3>. HIDE DEF T
      <3>. QED  BY <3>1, <3>2, SubSeqProperties
    <2>3. up \o rest \in Seq(T) /\ Len(up \o rest) > 0 /\ (up \o rest)[1] = ".."
      <3>. HIDE DEF up, rest, T
      <3>1. Len(up) \in Nat /\ Len(rest) \in Nat /\ 1 \in 1 .. Len(up)
        BY <2>1, <2>2, LenProperties
      <3>. QED  BY <2>1, <2>2, <3>1, ConcatProperties
    <2>4. RelFrom(base, target, common) = up \o rest
      BY DEF RelFrom
    <2>. HIDE DEF up, rest, T
    <2>5. up \o rest # <<>> /\ Head(up \o rest) = ".."
      BY <2>3
    <2>. QED  BY <1>1, <2>4, <2>5
  <1>. QED  BY <1>3, <1>4

LEMMA RelParts ==
    ASSUME NEW S, NEW R, NEW base \in Seq(R), NEW target \in Seq(S)
    PROVE  Rel(base, target) \in Seq(S \cup {".", ".."})
  <1>. DEFINE T == S \cup {".", ".."}
  <1>1. PICK common \in 0 .. Len(base) :
              /\ common <= Len(target)
              /\ Rel(base, target) = IF RelFrom(base, target, common) = <<>> THEN <<".">>
                                     ELSE RelFrom(base, target, common)
    <2>1. base \in Seq(S \cup R) /\ target \in Seq(S \cup R)
      OBVIOUS
    <2>. QED  BY <2>1, RelMeans
  <1>. DEFINE up == [i \in 1 .. Len(base) - common |-> ".."]
              rest == SubSeq(target, common + 1, Len(target))
  <1>2. Len(base) \in Nat /\ Len(target) \in Nat
    BY LenProperties
  <1>3. up \in Seq(T)
    BY <1>1, <1>2
  <1>4. rest \in Seq(T)
    <2>1. common + 1 \in 1 .. Len(target) + 1 /\ Len(target) \in common .. Len(target)
      BY <1>1, <1>2
    <2>2. target \in Seq(T)
      OBVIOUS
    <2>. HIDE DEF T
    <2>. QED  BY <2>1, <2>2, SubSeqProperties
  <1>5. up \o rest \in Seq(T)
    <2>. HIDE DEF up, rest, T
    <2>. QED  BY <1>3, <1>4, ConcatProperties
  <1>6. <<".">> \in Seq(T)
    OBVIOUS
  <1>. QED  BY <1>1, <1>5, <1>6 DEF RelFrom

\* What is on the disk is named by components, and by the directories of calls.
Part == Component \cup Dir
TidyPath == Seq(Part \ Dots)
Mapping == [virtual : Seq(Component), disk : TidyPath]
HasIn(files, m, n) == IsStrictPrefix(m.virtual, n) /\ Stat(files, At(m, n))

LEMMA DotsAreParts == Dots \subseteq Component /\ Dots \subseteq Part
  BY FilesAssumption DEF Dots, Part

\* What a mapping adds to, and takes from, the rest of a name.
LEMMA RestMeans ==
    ASSUME NEW m \in Mapping, NEW n \in Seq(Part), IsStrictPrefix(m.virtual, n)
    PROVE  \E rest \in Seq(Part) :
              /\ rest = SubSeq(n, Len(m.virtual) + 1, Len(n)) /\ n = m.virtual \o rest
              /\ Len(rest) \in Nat \ {0}
              /\ \A i \in 1 .. Len(rest) : rest[i] = n[Len(m.virtual) + i]
              /\ At(m, n) = m.disk \o rest
  <1>. DEFINE v == m.virtual
              rest == SubSeq(n, Len(v) + 1, Len(n))
  <1>1. /\ v \in Seq(Part) /\ Len(v) \in Nat /\ Len(n) \in Nat
        /\ Len(v) <= Len(n) /\ v = SubSeq(n, 1, Len(v)) /\ v # n
    <2>1. v \in Seq(Part)
      BY DEF Mapping, Part
    <2>. HIDE DEF v
    <2>2. IsPrefix(v, n) /\ v # n
      BY DEF IsStrictPrefix, v
    <2>. QED  BY <2>1, <2>2, PrefixMeans, LenProperties
  <1>2. Len(v) # Len(n)
    <2>. HIDE DEF v
    <2>. QED  BY <1>1, SubSeqFull
  <1>3. /\ rest \in Seq(Part) /\ Len(rest) = Len(n) - Len(v)
        /\ \A i \in 1 .. Len(rest) : rest[i] = n[Len(v) + i]
    <2>. HIDE DEF v
    <2>1. Len(v) + 1 \in 1 .. Len(n) + 1 /\ Len(n) \in Len(v) + 1 - 1 .. Len(n)
      BY <1>1
    <2>2. /\ rest \in Seq(Part)
          /\ Len(rest) = IF Len(v) + 1 <= Len(n) THEN Len(n) - (Len(v) + 1) + 1 ELSE 0
          /\ \A i \in 1 .. Len(n) - (Len(v) + 1) + 1 : rest[i] = n[(Len(v) + 1) + i - 1]
      BY <2>1, SubSeqProperties
    <2>3. Len(rest) = Len(n) - Len(v) /\ Len(n) - (Len(v) + 1) + 1 = Len(n) - Len(v)
      BY <1>1, <1>2, <2>2
    <2>. HIDE DEF rest
    <2>4. \A i \in 1 .. Len(n) - Len(v) : (Len(v) + 1) + i - 1 = Len(v) + i
      BY <1>1
    <2>. QED  BY <2>2, <2>3, <2>4
  <1>4. n = v \o rest
    <2>. HIDE DEF v
    <2>1. 1 \in 1 .. Len(n) + 1 /\ Len(v) \in 1 - 1 .. Len(n) /\ Len(n) \in Len(v) .. Len(n)
      BY <1>1
    <2>2. SubSeq(n, 1, Len(v)) \o SubSeq(n, Len(v) + 1, Len(n)) = SubSeq(n, 1, Len(n))
      BY <2>1, ConcatAdjacentSubSeq
    <2>3. SubSeq(n, 1, Len(n)) = n
      BY SubSeqFull
    <2>. QED  BY <1>1, <2>2, <2>3
  <1>5. At(m, n) = m.disk \o rest
    BY DEF At
  <1>6. Len(rest) \in Nat \ {0}
    <2>1. Len(rest) = Len(n) - Len(v)
      BY <1>3
    <2>. HIDE DEF v, rest
    <2>2. Len(n) - Len(v) \in Nat \ {0}
      BY <1>1, <1>2
    <2>. QED  BY <2>1, <2>2
  <1>. HIDE DEF rest
  <1>. QED  BY <1>3, <1>4, <1>5, <1>6 DEF rest

\* A name that is valid is found in a mapping exactly if there is something of that name;
\* the round trip refuses the others (findFile).
LEMMA FindsMeans ==
    ASSUME NEW files \in SUBSET TidyPath, NEW m \in Mapping, NEW n \in Seq(Part),
           ~ IsVirtualPathInvalid(n)
    PROVE  /\ Finds(files, m, n) <=> HasIn(files, m, n)
           /\ Finds(files, m, n) => DiskFile(m, n) = At(m, n)
  <1>. SUFFICES ASSUME IsStrictPrefix(m.virtual, n)
                PROVE  /\ Finds(files, m, n) <=> HasIn(files, m, n)
                       /\ Finds(files, m, n) => DiskFile(m, n) = At(m, n)
    BY DEF Finds, HasIn
  <1>1. PICK rest \in Seq(Part) :
              /\ rest = SubSeq(n, Len(m.virtual) + 1, Len(n)) /\ n = m.virtual \o rest
              /\ Len(rest) \in Nat \ {0}
              /\ \A i \in 1 .. Len(rest) : rest[i] = n[Len(m.virtual) + i]
              /\ At(m, n) = m.disk \o rest
    BY RestMeans
  <1>2. /\ m.virtual \in Seq(Part) /\ m.disk \in Seq(Part \ Dots)
        /\ m.disk \in Seq(Part)
    BY DEF Mapping, TidyPath, Part
  <1>. DEFINE v == Len(m.virtual)
              d == Len(m.disk)
              l == Len(rest)
  <1>0. d \in Nat /\ v \in Nat /\ l \in Nat \ {0}
    BY <1>1, <1>2, LenProperties
  <1>. DEFINE path == m.disk \o rest
  <1>3. /\ path \in Seq(Part) /\ Len(path) = Len(m.disk) + Len(rest)
        /\ (\A k \in 1 .. Len(m.disk) : path[k] = m.disk[k])
        /\ (\A k \in 1 .. Len(rest) : path[Len(m.disk) + k] = rest[k])
    <2>. DEFINE base == m.disk
    <2>1. base \in Seq(Part) /\ Len(base) \in Nat /\ path = base \o rest
      BY <1>2
    <2>. HIDE DEF base, path
    <2>2. /\ path \in Seq(Part) /\ Len(path) = Len(base) + Len(rest)
          /\ \A k \in 1 .. Len(base) + Len(rest) :
                path[k] = IF k <= Len(base) THEN base[k] ELSE rest[k - Len(base)]
      BY <2>1, ConcatProperties
    <2>3. Len(rest) \in Nat
      BY <1>0
    <2>4. ASSUME NEW k \in 1 .. Len(base) PROVE path[k] = base[k]
      <3>1. k \in 1 .. Len(base) + Len(rest) /\ k <= Len(base)
        BY <2>1, <2>3
      <3>. QED  BY <2>2, <3>1
    <2>5. ASSUME NEW k \in 1 .. Len(rest) PROVE path[Len(base) + k] = rest[k]
      <3>1. /\ Len(base) + k \in 1 .. Len(base) + Len(rest) /\ ~ (Len(base) + k <= Len(base))
            /\ Len(base) + k - Len(base) = k
        BY <2>1, <2>3
      <3>. QED  BY <2>2, <3>1
    <2>. QED  BY <2>2, <2>4, <2>5 DEF base
  <1>4. DiskFile(m, n) = Clean(path)
    BY <1>1 DEF DiskFile
  <1>5. CASE rest \in Seq(Part \ Dots)
    <2>1. path \in Seq(Part \ Dots)
      BY <1>2, <1>5, ConcatProperties
    <2>2. Clean(path) = path
      <3>. HIDE DEF path
      <3>. QED  BY <2>1, CleanOfTidy
    <2>3. IsPrefix(m.disk, path) /\ m.disk # path
      <3>. HIDE DEF path
      <3>1. Len(m.disk) <= Len(path) /\ Len(m.disk) # Len(path)
        <4>1. Len(path) = d + l
          BY <1>3
        <4>. HIDE DEF l
        <4>2. d <= d + l /\ d # d + l
          BY <1>0
        <4>. QED  BY <4>1, <4>2
      <3>. QED  BY <1>2, <1>3, <3>1, PrefixMeans
    <2>4. Rel(m.disk, path) = SubSeq(path, Len(m.disk) + 1, Len(path))
      <3>. HIDE DEF path
      <3>. QED  BY <1>2, <1>3, <2>3, RelBelow
    <2>5. SubSeq(path, Len(m.disk) + 1, Len(path)) = rest
      BY <1>2, ConcatTail
    <2>. HIDE DEF path
    <2>6. m.virtual \o Rel(m.disk, path) = n
      BY <1>1, <2>4, <2>5
    <2>. QED  BY <1>1, <1>4, <2>2, <2>6 DEF Finds, HasIn, path
  <1>6. CASE rest \notin Seq(Part \ Dots)
    <2>1. PICK i \in 1 .. Len(rest) : rest[i] \in Dots
      <3>. SUFFICES ASSUME \A i \in 1 .. Len(rest) : rest[i] \notin Dots PROVE FALSE
        OBVIOUS
      <3>1. \A i \in 1 .. Len(rest) : rest[i] \in Part
        OBVIOUS
      <3>2. rest \in [1 .. Len(rest) -> Part \ Dots]
        BY <3>1
      <3>3. rest \in Seq(Part \ Dots)
        <4>1. Len(rest) \in Nat
          BY <1>1
        <4>. QED  BY <3>2, <4>1
      <3>. QED  BY <1>6, <3>3
    <2>2. rest[i] = ""
      <3>1. Len(m.virtual) + i \in DOMAIN n /\ rest[i] = n[Len(m.virtual) + i]
        <4>1. Len(n) = v + l
          <5>1. n = m.virtual \o rest
            BY <1>1
          <5>. QED  BY <1>2, <5>1, ConcatProperties
        <4>2. DOMAIN n = 1 .. Len(n)
          BY LenProperties
        <4>3. v + i \in 1 .. v + l
          <5>. HIDE DEF v, l
          <5>1. i \in 1 .. l
            BY DEF l
          <5>. QED  BY <1>0, <5>1
        <4>4. rest[i] = n[v + i]
          BY <1>1
        <4>. QED  BY <4>1, <4>2, <4>3, <4>4
      <3>. QED  BY <2>1, <3>1 DEF IsVirtualPathInvalid, Dots
    <2>3. ~ HasIn(files, m, n)
      <3>. SUFFICES ASSUME NEW f \in files, IsPrefix(path, f) PROVE FALSE
        BY <1>1 DEF HasIn, Stat
      <3>. HIDE DEF path
      <3>1. f \in Seq(Part \ Dots) /\ f \in Seq(Part)
        BY DEF TidyPath
      <3>2. Len(path) <= Len(f) /\ \A k \in 1 .. Len(path) : path[k] = f[k]
        BY <1>3, <3>1, PrefixMeans
      <3>3. Len(m.disk) + i \in 1 .. Len(path) /\ Len(m.disk) + i \in 1 .. Len(f)
        <4>1. Len(path) = d + l /\ Len(f) \in Nat /\ Len(path) <= Len(f)
          BY <1>3, <3>1, <3>2, LenProperties
        <4>2. i \in 1 .. l
          OBVIOUS
        <4>3. d + i \in 1 .. d + l /\ \A u \in Nat : d + l <= u => d + i \in 1 .. u
          <5>. HIDE DEF d, l
          <5>. QED  BY <1>0, <4>2
        <4>. QED  BY <4>1, <4>3
      <3>4. f[Len(m.disk) + i] = ""
        BY <1>3, <2>2, <3>2, <3>3
      <3>5. f[Len(m.disk) + i] \in Part \ Dots
        BY <3>1, <3>3, ElementOfSeq
      <3>. QED  BY <3>4, <3>5 DEF Dots
    <2>4. ~ Finds(files, m, n)
      <3>. SUFFICES ASSUME m.virtual \o Rel(m.disk, Clean(path)) = n PROVE FALSE
        BY <1>4 DEF Finds
      <3>. DEFINE back == Rel(m.disk, Clean(path))
                  T == (Part \ Dots) \cup {".", ".."}
      <3>1. Clean(path) \in Seq(Part \ Dots)
        <4>. HIDE DEF path
        <4>. QED  BY <1>3, CleanIsTidy
      <3>2. back \in Seq(T)
        <4>. HIDE DEF path
        <4>. QED  BY <1>2, <3>1, RelParts
      <3>3. back \in Seq(Part)
        <4>1. T \subseteq Part
          BY DotsAreParts DEF Dots
        <4>. HIDE DEF T, back
        <4>. QED  BY <3>2, <4>1
      <3>. HIDE DEF back
      <3>4. back = rest
        <4>1. SubSeq(m.virtual \o back, Len(m.virtual) + 1, Len(m.virtual \o back)) = back
          BY <1>2, <3>3, ConcatTail
        <4>2. SubSeq(m.virtual \o rest, Len(m.virtual) + 1, Len(m.virtual \o rest)) = rest
          BY <1>2, ConcatTail
        <4>3. m.virtual \o back = m.virtual \o rest
          BY <1>1 DEF back
        <4>. QED  BY <4>1, <4>2, <4>3
      <3>5. back[i] \in T
        <4>. HIDE DEF T
        <4>. QED  BY <3>2, <3>4, ElementOfSeq
      <3>. QED  BY <2>2, <3>4, <3>5 DEF Dots
    <2>. QED  BY <2>3, <2>4
  <1>. QED  BY <1>5, <1>6

\* The mappings that have something of a name, and the first of them.
PlacesIn(files, maps, n) == {i \in DOMAIN maps : HasIn(files, maps[i], n)}
FirstPlace(files, maps, n, i) ==
    i \in PlacesIn(files, maps, n) /\ \A j \in PlacesIn(files, maps, n) : i <= j

LEMMA FirstPlaceExists ==
    ASSUME NEW files, NEW maps \in Seq(Mapping), NEW n
    PROVE  /\ PlacesIn(files, maps, n) = {} \/ \E i : FirstPlace(files, maps, n, i)
           /\ \A i, j : FirstPlace(files, maps, n, i) /\ FirstPlace(files, maps, n, j) => i = j
  <1>1. PlacesIn(files, maps, n) \in SUBSET Nat
    BY DEF PlacesIn
  <1>2. PlacesIn(files, maps, n) = {} \/ \E i : FirstPlace(files, maps, n, i)
    BY <1>1, LeastNat DEF FirstPlace
  <1>3. ASSUME NEW i, NEW j, FirstPlace(files, maps, n, i), FirstPlace(files, maps, n, j)
        PROVE  i = j
    BY <1>1, <1>3 DEF FirstPlace
  <1>. QED  BY <1>2, <1>3

\* The first place that has something of a name is what is found (findFile).
LEMMA FindFileMeans ==
    ASSUME NEW files \in SUBSET TidyPath, NEW maps \in Seq(Mapping), NEW n \in Seq(Part),
           ~ IsVirtualPathInvalid(n)
    PROVE  /\ PlacesIn(files, maps, n) = {} => findFile(files, maps, n) = Nothing
           /\ \A i : FirstPlace(files, maps, n, i) => findFile(files, maps, n) = At(maps[i], n)
  <1>. DEFINE places == PlacesIn(files, maps, n)
              found == {i \in DOMAIN maps : Finds(files, maps[i], n)}
  <1>1. \A i \in DOMAIN maps : maps[i] \in Mapping
    OBVIOUS
  <1>2. found = places
    BY <1>1, FindsMeans DEF PlacesIn
  <1>3. findFile(files, maps, n)
           = IF places = {} THEN Nothing
             ELSE DiskFile(maps[CHOOSE i \in places : \A j \in places : i <= j], n)
    <2>1. findFile(files, maps, n)
             = IF found = {} THEN Nothing
               ELSE DiskFile(maps[CHOOSE i \in found : \A j \in found : i <= j], n)
      BY DEF findFile
    <2>. HIDE DEF found, places
    <2>. QED  BY <1>2, <2>1
  <1>4. ASSUME NEW i, FirstPlace(files, maps, n, i)
        PROVE  findFile(files, maps, n) = At(maps[i], n)
    <2>1. places \in SUBSET Nat /\ i \in places /\ \A j \in places : i <= j
      BY <1>4 DEF FirstPlace, PlacesIn
    <2>2. (CHOOSE k \in places : \A j \in places : k <= j) = i
      <3>. HIDE DEF places
      <3>1. \A k \in places : (\A j \in places : k <= j) => k = i
        BY <2>1
      <3>. QED  BY <2>1, <3>1
    <2>3. i \in found
      BY <1>2, <2>1
    <2>4. DiskFile(maps[i], n) = At(maps[i], n)
      BY <1>1, <2>3, FindsMeans
    <2>. HIDE DEF places
    <2>. QED  BY <1>3, <2>1, <2>2, <2>4
  <1>. QED  BY <1>3, <1>4

\* What is read is the file of that name in the first place that has something of that
\* name, or the bundled file if that is not a file or there is none (Open).
LEMMA OpenMeans ==
    ASSUME NEW files \in SUBSET (TidyPath \ {<<>>}), NEW maps \in Seq(Mapping),
           NEW n \in Seq(Part), NEW bundled, Open(files, maps, bundled, n) # Nothing
    PROVE  /\ ~ IsVirtualPathInvalid(n)
           /\ \/ /\ Open(files, maps, bundled, n) = Bundled(n) /\ n \in bundled
                 /\ \A i : FirstPlace(files, maps, n, i) => At(maps[i], n) \notin files
              \/ \E i : /\ FirstPlace(files, maps, n, i)
                        /\ Open(files, maps, bundled, n) = At(maps[i], n)
                        /\ At(maps[i], n) \in files
  <1>1. ~ IsVirtualPathInvalid(n)
    BY DEF Open
  <1>2. /\ PlacesIn(files, maps, n) = {} => findFile(files, maps, n) = Nothing
        /\ \A i : FirstPlace(files, maps, n, i) => findFile(files, maps, n) = At(maps[i], n)
    <2>1. files \in SUBSET TidyPath
      OBVIOUS
    <2>. QED  BY <1>1, <2>1, FindFileMeans
  <1>3. CASE findFile(files, maps, n) \in files
    <2>1. findFile(files, maps, n) # Nothing
      BY <1>3 DEF Nothing
    <2>2. PICK i : FirstPlace(files, maps, n, i)
      BY <1>2, <2>1, FirstPlaceExists
    <2>. QED  BY <1>1, <1>2, <1>3, <2>2 DEF Open
  <1>4. CASE findFile(files, maps, n) \notin files
    BY <1>1, <1>2, <1>4 DEF Open
  <1>. QED  BY <1>3, <1>4

\* Two disks with the same files below these names, from the root.
SameBelow(files, other, heads) ==
    \A f : f # <<>> /\ f[1] \in heads => (f \in files <=> f \in other)

\* Where a mapping has a name is below the mapping, or below the name's first component.
LEMMA AtMeans ==
    ASSUME NEW m \in Mapping, NEW n \in Seq(Component), IsStrictPrefix(m.virtual, n),
           NEW heads, Component \subseteq heads, m.disk = <<>> \/ m.disk[1] \in heads
    PROVE  /\ At(m, n) \in Seq(Part) /\ At(m, n) # <<>> /\ At(m, n)[1] \in heads
           /\ \A f \in TidyPath : IsPrefix(At(m, n), f) => f # <<>> /\ f[1] = At(m, n)[1]
  <1>1. n \in Seq(Part)
    BY DEF Part
  <1>2. PICK rest \in Seq(Part) :
              /\ Len(rest) \in Nat \ {0} /\ Len(m.virtual) + 1 <= Len(n)
              /\ rest[1] = n[Len(m.virtual) + 1]
              /\ At(m, n) = m.disk \o rest
    <2>1. PICK rest \in Seq(Part) :
              /\ n = m.virtual \o rest
              /\ Len(rest) \in Nat \ {0}
              /\ \A i \in 1 .. Len(rest) : rest[i] = n[Len(m.virtual) + i]
              /\ At(m, n) = m.disk \o rest
      BY <1>1, RestMeans
    <2>2. 1 \in 1 .. Len(rest)
      BY <2>1
    <2>3. Len(n) = Len(m.virtual) + Len(rest) /\ Len(m.virtual) \in Nat
      BY <2>1, ConcatProperties, LenProperties DEF Mapping, Part
    <2>4. Len(m.virtual) + 1 <= Len(n)
      <3>. DEFINE v == Len(m.virtual)
                  l == Len(rest)
      <3>1. v \in Nat /\ l \in Nat \ {0} /\ Len(n) = v + l
        BY <2>1, <2>3
      <3>. HIDE DEF v, l
      <3>2. v + 1 <= Len(n)
        BY <3>1
      <3>. QED  BY <3>2 DEF v
    <2>. QED  BY <2>1, <2>2, <2>4
  <1>. DEFINE v == Len(m.virtual)
              base == m.disk
              path == base \o rest
  <1>3. base \in Seq(Part) /\ v \in Nat
    BY LenProperties DEF Mapping, TidyPath, Part
  <1>4. rest[1] \in Component
    <2>1. v + 1 \in 1 .. Len(n)
      <3>1. Len(n) \in Nat /\ v + 1 <= Len(n)
        BY <1>2, LenProperties
      <3>. HIDE DEF v
      <3>. QED  BY <1>3, <3>1
    <2>. QED  BY <1>2, <2>1, ElementOfSeq
  <1>5. /\ path \in Seq(Part) /\ Len(path) = Len(base) + Len(rest)
        /\ \A k \in 1 .. Len(base) + Len(rest) :
              path[k] = IF k <= Len(base) THEN base[k] ELSE rest[k - Len(base)]
    <2>. HIDE DEF base
    <2>. QED  BY <1>2, <1>3, ConcatProperties
  <1>6. path # <<>> /\ Len(path) >= 1 /\ path[1] \in heads
    <2>1. Len(base) \in Nat
      BY <1>3, LenProperties
    <2>2. CASE base = <<>>
      <3>1. path = rest
        BY <1>2, <2>2, ConcatEmptySeq
      <3>. QED  BY <1>2, <1>4, <3>1
    <2>3. CASE base # <<>>
      <3>1. Len(base) >= 1
        BY <1>3, <2>1, <2>3, EmptySeq
      <3>. DEFINE d == Len(base)
                  l == Len(rest)
      <3>2. 1 \in 1 .. d + l /\ 1 <= d /\ d + l >= 1
        <4>1. d \in Nat /\ l \in Nat \ {0} /\ d >= 1
          BY <1>2, <2>1, <3>1
        <4>. HIDE DEF d, l
        <4>. QED  BY <4>1
      <3>3. path[1] = base[1]
        <4>. HIDE DEF path, base
        <4>. QED  BY <1>5, <3>2
      <3>4. Len(path) >= 1 /\ path # <<>>
        <4>. HIDE DEF path, base
        <4>. QED  BY <1>5, <3>2
      <3>. QED  BY <2>3, <3>3, <3>4
    <2>. QED  BY <2>2, <2>3
  <1>7. ASSUME NEW f \in TidyPath, IsPrefix(path, f)
        PROVE  f # <<>> /\ f[1] = path[1]
    <2>. HIDE DEF path
    <2>1. f \in Seq(Part)
      BY DEF TidyPath
    <2>2. Len(path) <= Len(f) /\ \A i \in 1 .. Len(path) : path[i] = f[i]
      BY <1>5, <1>7, <2>1, PrefixMeans
    <2>3. Len(path) \in Nat /\ Len(f) \in Nat
      BY <1>5, <2>1, LenProperties
    <2>4. 1 \in 1 .. Len(path) /\ Len(f) >= 1
      BY <1>6, <2>2, <2>3
    <2>. QED  BY <2>2, <2>4
  <1>8. At(m, n) = path
    BY <1>2
  <1>. HIDE DEF path
  <1>. QED  BY <1>5, <1>6, <1>7, <1>8

\* A call that has the same files below its mappings, reads the same.
LEMMA SameOpen ==
    ASSUME NEW files \in SUBSET TidyPath, NEW other \in SUBSET TidyPath,
           NEW maps \in Seq(Mapping), NEW n \in Seq(Component), NEW bundled,
           NEW heads, Component \subseteq heads, SameBelow(files, other, heads),
           \A i \in DOMAIN maps : maps[i].disk = <<>> \/ maps[i].disk[1] \in heads
    PROVE  /\ PlacesIn(files, maps, n) = PlacesIn(other, maps, n)
           /\ \A i \in PlacesIn(files, maps, n) : At(maps[i], n) \in files <=> At(maps[i], n) \in other
           /\ <<>> \notin files \cup other => Open(files, maps, bundled, n) = Open(other, maps, bundled, n)
  <1>1. ASSUME NEW i \in DOMAIN maps, IsStrictPrefix(maps[i].virtual, n)
        PROVE  /\ At(maps[i], n) \in files <=> At(maps[i], n) \in other
               /\ Stat(files, At(maps[i], n)) <=> Stat(other, At(maps[i], n))
    <2>. DEFINE m == maps[i]
                path == At(m, n)
    <2>1. m \in Mapping /\ (m.disk = <<>> \/ m.disk[1] \in heads)
      OBVIOUS
    <2>2. /\ path # <<>> /\ path[1] \in heads
          /\ \A f \in TidyPath : IsPrefix(path, f) => f # <<>> /\ f[1] = path[1]
      <3>. HIDE DEF m
      <3>1. IsStrictPrefix(m.virtual, n)
        BY <1>1 DEF m
      <3>. QED  BY <2>1, <3>1, AtMeans
    <2>. HIDE DEF path
    <2>3. path \in files <=> path \in other
      BY <2>2 DEF SameBelow
    <2>4. Stat(files, path) <=> Stat(other, path)
      BY <2>2 DEF SameBelow, Stat
    <2>. QED  BY <2>3, <2>4 DEF path
  <1>2. PlacesIn(files, maps, n) = PlacesIn(other, maps, n)
    BY <1>1 DEF PlacesIn, HasIn
  <1>3. \A i \in PlacesIn(files, maps, n) : At(maps[i], n) \in files <=> At(maps[i], n) \in other
    BY <1>1 DEF PlacesIn, HasIn
  <1>4. ASSUME <<>> \notin files \cup other
        PROVE  Open(files, maps, bundled, n) = Open(other, maps, bundled, n)
    <2>1. CASE IsVirtualPathInvalid(n)
      BY <2>1 DEF Open
    <2>2. CASE ~ IsVirtualPathInvalid(n)
      <3>1. n \in Seq(Part)
        BY DEF Part
      <3>2. CASE PlacesIn(files, maps, n) = {}
        <4>1. findFile(files, maps, n) = Nothing
          BY <2>2, <3>1, <3>2, FindFileMeans
        <4>2. findFile(other, maps, n) = Nothing
          BY <1>2, <2>2, <3>1, <3>2, FindFileMeans
        <4>. QED  BY <1>4, <4>1, <4>2 DEF Open, Nothing
      <3>3. CASE \E i : FirstPlace(files, maps, n, i)
        <4>1. PICK i : FirstPlace(files, maps, n, i)
          BY <3>3
        <4>2. FirstPlace(other, maps, n, i) /\ i \in PlacesIn(files, maps, n)
          BY <1>2, <4>1 DEF FirstPlace
        <4>3. findFile(files, maps, n) = At(maps[i], n) /\ findFile(other, maps, n) = At(maps[i], n)
          BY <2>2, <3>1, <4>1, <4>2, FindFileMeans
        <4>. QED  BY <1>3, <2>2, <4>2, <4>3 DEF Open
      <3>. QED  BY <3>2, <3>3, FirstPlaceExists
    <2>. QED  BY <2>1, <2>2
  <1>. QED  BY <1>2, <1>3, <1>4

\* A name is the path itself, or the path from a mapping that it is in (MakeRelative).
NamedFor(maps, n, p) ==
    /\ n \in Seq(Component)
    /\ \/ n = p /\ ~IsAbs(p)
       \/ \E i \in DOMAIN maps :
             /\ n = maps[i].virtual \o Rel(maps[i].disk, Abs(Cwd, p))
             /\ Head(Rel(maps[i].disk, Abs(Cwd, p))) # ".."

LEMMA AbsIsTidy ==
    ASSUME NEW p \in Seq(Component)
    PROVE  Abs(Cwd, p) \in Seq(Component \ Dots)
  <1>1. Cwd \in Seq(Component)
    <2>1. Cwd \in CleanPath
      BY FilesAssumption
    <2>2. CleanPath = Seq(Component \ Dots)
      BY DEF CleanPath, Dots
    <2>3. \A s \in Seq(Component \ Dots) : s \in Seq(Component)
      OBVIOUS
    <2>. QED  BY <2>1, <2>2, <2>3
  <1>2. Cwd \o p \in Seq(Component)
    BY <1>1, ConcatProperties
  <1>3. (IF IsAbs(p) THEN p ELSE Cwd \o p) \in Seq(Component)
    BY <1>2
  <1>. QED  BY <1>3, CleanIsTidy DEF Abs

LEMMA MakeRelativeNames ==
    ASSUME NEW files, NEW maps \in Seq(Mapping), NEW p \in Seq(Component),
           MakeRelative(files, maps, Cwd, p) # Nothing
    PROVE  NamedFor(maps, MakeRelative(files, maps, Cwd, p), p)
  <1>. DEFINE inside == {i \in DOMAIN maps : Head(Rel(maps[i].disk, Abs(Cwd, p))) # ".."}
              k == CHOOSE i \in inside : \A j \in inside : i <= j
  <1>1. CASE MakeRelative(files, maps, Cwd, p) = p /\ ~IsAbs(p)
    BY <1>1 DEF NamedFor
  <1>2. CASE inside # {} /\ MakeRelative(files, maps, Cwd, p)
                              = maps[k].virtual \o Rel(maps[k].disk, Abs(Cwd, p))
    <2>1. k \in inside
      <3>1. inside \in SUBSET Nat
        OBVIOUS
      <3>2. \E i \in inside : \A j \in inside : i <= j
        <4>. HIDE DEF inside
        <4>. QED  BY <1>2, <3>1, LeastNat
      <3>. HIDE DEF inside
      <3>. QED  BY <3>2
    <2>. DEFINE m == maps[k]
    <2>2. k \in DOMAIN maps /\ Head(Rel(m.disk, Abs(Cwd, p))) # ".." /\ m \in Mapping
      BY <2>1
    <2>. HIDE DEF k
    <2>3. m.virtual \o Rel(m.disk, Abs(Cwd, p)) \in Seq(Component)
      <3>1. Rel(m.disk, Abs(Cwd, p)) \in Seq((Component \ Dots) \cup {".", ".."})
        BY <2>2, AbsIsTidy, RelParts DEF Mapping, TidyPath
      <3>2. (Component \ Dots) \cup {".", ".."} \subseteq Component
        BY DotsAreParts DEF Dots
      <3>3. Rel(m.disk, Abs(Cwd, p)) \in Seq(Component) /\ m.virtual \in Seq(Component)
        BY <2>2, <3>1, <3>2 DEF Mapping
      <3>. HIDE DEF m
      <3>. QED  BY <3>3, ConcatProperties
    <2>. QED  BY <1>2, <2>2, <2>3 DEF NamedFor
  <1>3. \/ MakeRelative(files, maps, Cwd, p) = p /\ ~IsAbs(p)
        \/ inside = {} /\ MakeRelative(files, maps, Cwd, p) = Nothing
        \/ inside # {} /\ MakeRelative(files, maps, Cwd, p)
                            = maps[k].virtual \o Rel(maps[k].disk, Abs(Cwd, p))
    BY DEF MakeRelative
  <1>. QED  BY <1>1, <1>2, <1>3

\* What is read for the name of a file that is there, is that file, unless the path is a
\* name, or another place hides it.
LEMMA NameLeads ==
    ASSUME NEW files \in SUBSET (TidyPath \ {<<>>}), NEW maps \in Seq(Mapping),
           NEW p \in Seq(Component), NEW n, NamedFor(maps, n, p), NEW bundled,
           Open(files, maps, bundled, n) # Nothing, Abs(Cwd, p) \in files
    PROVE  \/ Open(files, maps, bundled, n) = Abs(Cwd, p)
           \/ n = p /\ ~IsAbs(p)
           \/ \E i, j \in PlacesIn(files, maps, n) : i < j /\ At(maps[j], n) = Abs(Cwd, p)
  <1>. DEFINE file == Abs(Cwd, p)
  <1>. SUFFICES ASSUME ~ (n = p /\ ~IsAbs(p))
                PROVE  \/ Open(files, maps, bundled, n) = file
                       \/ \E i, j \in PlacesIn(files, maps, n) : i < j /\ At(maps[j], n) = file
    OBVIOUS
  <1>1. n \in Seq(Part)
    BY DEF NamedFor, Part
  <1>2. PICK j \in DOMAIN maps :
              /\ n = maps[j].virtual \o Rel(maps[j].disk, file)
              /\ Head(Rel(maps[j].disk, file)) # ".."
    BY DEF NamedFor
  <1>. DEFINE m == maps[j]
              base == m.disk
              rest == SubSeq(file, Len(base) + 1, Len(file))
  <1>3. m \in Mapping /\ base \in Seq(Part) /\ file \in Seq(Part) /\ m.virtual \in Seq(Part)
    <2>1. m \in Mapping
      OBVIOUS
    <2>2. file \in Seq(Part)
      BY AbsIsTidy DEF Part
    <2>. HIDE DEF m
    <2>. QED  BY <2>1, <2>2 DEF Mapping, TidyPath, Part
  <1>4. n = m.virtual \o Rel(base, file) /\ IsPrefix(base, file)
    <2>1. n = m.virtual \o Rel(base, file) /\ Head(Rel(base, file)) # ".."
      BY <1>2
    <2>. HIDE DEF base, file
    <2>. QED  BY <1>3, <2>1, RelInside
  <1>. HIDE DEF file
  <1>5. ~ IsVirtualPathInvalid(n)
    BY DEF Open
  <1>6. base # file
    <2>. SUFFICES ASSUME base = file PROVE FALSE
      OBVIOUS
    <2>1. Rel(base, file) = <<".">>
      <3>1. PICK common \in 0 .. Len(base) :
              /\ IsPrefix(base, file) => common = Len(base)
              /\ Rel(base, file) = IF RelFrom(base, file, common) = <<>> THEN <<".">>
                                   ELSE RelFrom(base, file, common)
        <4>. HIDE DEF base
        <4>. QED  BY <1>3, RelMeans
      <3>2. common = Len(base) /\ Len(base) \in Nat
        BY <1>3, <1>4, <3>1, LenProperties
      <3>3. RelFrom(base, base, Len(base)) = <<>>
        <4>. HIDE DEF base
        <4>1. SubSeq(base, Len(base) + 1, Len(base)) = <<>>
          BY <1>3, <3>2, SubSeqEmpty
        <4>2. [i \in 1 .. Len(base) - Len(base) |-> ".."] = <<>>
          <5>1. 1 .. Len(base) - Len(base) = {}
            BY <3>2
          <5>2. [i \in 1 .. Len(base) - Len(base) |-> ".."] = [i \in {} |-> ".."]
            BY <5>1
          <5>3. [i \in {} |-> ".."] = <<>>
            OBVIOUS
          <5>. QED  BY <5>2, <5>3
        <4>3. <<>> \o <<>> = <<>>
          <5>1. <<>> \in Seq(Part)
            OBVIOUS
          <5>. QED  BY <5>1, ConcatEmptySeq
        <4>. QED  BY <4>1, <4>2, <4>3 DEF RelFrom
      <3>. QED  BY <3>1, <3>2, <3>3
    <2>2. n = m.virtual \o <<".">>
      BY <1>4, <2>1
    <2>3. Len(m.virtual) \in Nat
      BY <1>3, LenProperties
    <2>4. Len(m.virtual) + 1 \in DOMAIN n /\ n[Len(m.virtual) + 1] = "."
      <3>. DEFINE v == m.virtual
      <3>1. v \in Seq(Part)
        BY <1>3
      <3>2. PICK one \in Seq(Part) : one = <<".">> /\ Len(one) = 1 /\ one[1] = "."
        <4>1. "." \in Part
          BY DotsAreParts DEF Dots
        <4>2. <<".">> \in Seq(Part)
          BY <4>1
        <4>3. Len(<<".">>) = 1 /\ <<".">>[1] = "."
          OBVIOUS
        <4>. QED  BY <4>2, <4>3
      <3>. HIDE DEF v
      <3>3. /\ v \o one \in Seq(Part) /\ Len(v \o one) = Len(v) + Len(one)
            /\ \A k \in 1 .. Len(v) + Len(one) :
                 (v \o one)[k] = IF k <= Len(v) THEN v[k] ELSE one[k - Len(v)]
        BY <3>1, ConcatProperties
      <3>4. /\ Len(v) + 1 \in 1 .. Len(v) + Len(one) /\ ~ (Len(v) + 1 <= Len(v))
            /\ Len(v) + 1 - Len(v) = 1
        <4>1. Len(v) \in Nat
          BY <3>1, LenProperties
        <4>. QED  BY <3>2, <4>1
      <3>5. (v \o one)[Len(v) + 1] = "."
        BY <3>2, <3>3, <3>4
      <3>6. Len(v) + 1 \in DOMAIN (v \o one)
        BY <3>3, <3>4, LenProperties
      <3>7. n = v \o one
        BY <2>2, <3>2 DEF v
      <3>. QED  BY <3>5, <3>6, <3>7 DEF v
    <2>. QED  BY <1>5, <2>4 DEF IsVirtualPathInvalid
  <1>7. Rel(base, file) = rest /\ n = m.virtual \o rest
    <2>. HIDE DEF base
    <2>1. Rel(base, file) = rest
      BY <1>3, <1>4, <1>6, RelBelow
    <2>. QED  BY <1>4, <2>1
  <1>8. rest \in Seq(Part) /\ rest # <<>> /\ base \o rest = file
    <2>1. Len(base) \in Nat /\ Len(file) \in Nat /\ Len(base) <= Len(file)
          /\ base = SubSeq(file, 1, Len(base))
      <3>. HIDE DEF base
      <3>. QED  BY <1>3, <1>4, PrefixMeans, LenProperties
    <2>. HIDE DEF base
    <2>2. Len(base) # Len(file)
      BY <1>3, <1>6, <2>1, SubSeqFull
    <2>3. Len(base) + 1 \in 1 .. Len(file) + 1 /\ Len(file) \in Len(base) + 1 - 1 .. Len(file)
      BY <2>1
    <2>4. /\ rest \in Seq(Part)
          /\ Len(rest) = IF Len(base) + 1 <= Len(file) THEN Len(file) - (Len(base) + 1) + 1 ELSE 0
      BY <1>3, <2>3, SubSeqProperties
    <2>5. Len(rest) # 0
      BY <2>1, <2>2, <2>4
    <2>6. SubSeq(file, 1, Len(base)) \o SubSeq(file, Len(base) + 1, Len(file)) = SubSeq(file, 1, Len(file))
      <3>1. 1 \in 1 .. Len(file) + 1 /\ Len(base) \in 1 - 1 .. Len(file) /\ Len(file) \in Len(base) .. Len(file)
        BY <2>1
      <3>. QED  BY <1>3, <3>1, ConcatAdjacentSubSeq
    <2>7. SubSeq(file, 1, Len(file)) = file
      BY <1>3, SubSeqFull
    <2>. HIDE DEF rest
    <2>8. rest # <<>>
      BY <2>4, <2>5, EmptySeq
    <2>. QED  BY <2>1, <2>4, <2>6, <2>7, <2>8 DEF rest
  <1>9. IsStrictPrefix(m.virtual, n) /\ SubSeq(n, Len(m.virtual) + 1, Len(n)) = rest
    <2>. DEFINE v == m.virtual
    <2>1. v \in Seq(Part) /\ n = v \o rest
      BY <1>3, <1>7
    <2>. HIDE DEF v, rest
    <2>2. SubSeq(n, Len(v) + 1, Len(n)) = rest
      BY <1>8, <2>1, ConcatTail
    <2>3. /\ Len(n) = Len(v) + Len(rest)
          /\ \A k \in 1 .. Len(v) + Len(rest) :
                (v \o rest)[k] = IF k <= Len(v) THEN v[k] ELSE rest[k - Len(v)]
      BY <1>8, <2>1, ConcatProperties
    <2>4. Len(v) \in Nat /\ Len(rest) \in Nat \ {0}
      BY <1>8, <2>1, LenProperties, EmptySeq
    <2>5. Len(v) <= Len(n) /\ Len(v) # Len(n)
      BY <2>3, <2>4
    <2>6. ASSUME NEW k \in 1 .. Len(v) PROVE v[k] = n[k]
      <3>1. k \in 1 .. Len(v) + Len(rest) /\ k <= Len(v)
        BY <2>4
      <3>. QED  BY <2>1, <2>3, <3>1
    <2>7. IsPrefix(v, n)
      BY <1>1, <2>1, <2>5, <2>6, PrefixMeans
    <2>. QED  BY <2>2, <2>5, <2>7 DEF IsStrictPrefix, v
  <1>10. At(m, n) = file
    BY <1>8, <1>9 DEF At
  <1>11. j \in PlacesIn(files, maps, n)
    <2>1. IsPrefix(file, file)
      <3>1. Len(file) \in Nat /\ SubSeq(file, 1, Len(file)) = file
        BY <1>3, LenProperties, SubSeqFull
      <3>. QED  BY <1>3, <3>1, PrefixMeans
    <2>2. file \in files
      BY DEF file
    <2>. QED  BY <1>9, <1>10, <2>1, <2>2 DEF PlacesIn, HasIn, Stat
  <1>12. PICK i : FirstPlace(files, maps, n, i)
    BY <1>11, FirstPlaceExists
  <1>13. i \in PlacesIn(files, maps, n) /\ i <= j /\ i \in Nat /\ j \in Nat
    BY <1>11, <1>12 DEF FirstPlace, PlacesIn
  <1>14. CASE i = j
    <2>1. At(maps[i], n) = file /\ file \in files
      BY <1>10, <1>14 DEF file
    <2>2. PICK k : /\ FirstPlace(files, maps, n, k)
                   /\ Open(files, maps, bundled, n) = At(maps[k], n)
      BY <1>1, <1>12, <2>1, OpenMeans
    <2>3. k = i
      BY <1>12, <2>2, FirstPlaceExists
    <2>. QED  BY <2>1, <2>2, <2>3
  <1>15. CASE i # j
    BY <1>10, <1>11, <1>13, <1>15
  <1>. QED  BY <1>14, <1>15

(***************************************************************************)
(* What calls read                                                         *)
(***************************************************************************)

\* The disk as if the call were alone: the files there were, and its own overlay.
OwnDisk(c) == compiler.files \cup {<<dir[c]>> \o n : n \in Overlay}
Heads(c) == Component \cup {dir[c]}

LEMMA GivenPaths ==
    ASSUME ControlInv
    PROVE  /\ CleanPath \subseteq TidyPath /\ CleanPath \subseteq Seq(Component) /\ Cwd \in CleanPath
           /\ Overlay \cup compiler.files \subseteq CleanPath \ {<<>>}
           /\ compiler.protoPaths \in Seq(CleanPath)
           /\ compiler.mappings \in Seq([virtual : Seq(Component), disk : CleanPath])
           /\ \A c \in Call : request[c].paths \cup request[c].imports \subseteq Seq(Component) \ {<<>>}
  <1>1. CleanPath = Seq(Component \ Dots)
    BY DEF CleanPath, Dots
  <1>2. Component \ Dots \subseteq Part \ Dots /\ Component \ Dots \subseteq Component
    BY DEF Part
  <1>3. CleanPath \subseteq TidyPath /\ CleanPath \subseteq Seq(Component)
    BY <1>1, <1>2 DEF TidyPath
  <1>4. compiler \in Compilers /\ \A c \in Call : request[c] \in Requests
    BY DEF ControlInv
  <1>5. Overlay \cup compiler.files \subseteq CleanPath \ {<<>>}
    BY <1>4, FilesAssumption DEF Overlay
  <1>6. /\ compiler.protoPaths \in Seq(CleanPath)
        /\ compiler.mappings \in Seq([virtual : Seq(Component), disk : CleanPath])
    BY <1>4, FilesAssumption
  <1>7. \A c \in Call : request[c].paths \cup request[c].imports \subseteq Seq(Component) \ {<<>>}
    BY <1>4, FilesAssumption
  <1>8. Cwd \in CleanPath
    BY FilesAssumption
  <1>. QED  BY <1>3, <1>5, <1>6, <1>7, <1>8

\* The mappings of a call lead to the given directories and, first, to its own.
LEMMA MappingsMean ==
    ASSUME ControlInv, DirInv, NEW c \in Call
    PROVE  /\ Mappings(c) \in Seq(Mapping)
           /\ \A i \in DOMAIN Mappings(c) :
                 Mappings(c)[i].disk = <<>> \/ Mappings(c)[i].disk[1] \in Heads(c)
           /\ dir[c] # None => /\ 1 \in DOMAIN Mappings(c)
                               /\ Mappings(c)[1] = [virtual |-> <<>>, disk |-> <<dir[c]>>]
  <1>. DEFINE D == {r \in TidyPath : r = <<>> \/ r[1] \in Heads(c)}
              M == [virtual : Seq(Component), disk : D]
  <1>1. CleanPath \subseteq D
    <2>1. \A r \in CleanPath : r \in TidyPath /\ r \in Seq(Component)
      BY GivenPaths
    <2>2. \A r \in Seq(Component) : r = <<>> \/ r[1] \in Component
      <3>. SUFFICES ASSUME NEW r \in Seq(Component), r # <<>> PROVE r[1] \in Component
        OBVIOUS
      <3>1. 1 \in 1 .. Len(r)
        <4>1. Len(r) \in Nat \ {0}
          BY LenProperties, EmptySeq
        <4>. QED  BY <4>1
      <3>. QED  BY <3>1, ElementOfSeq
    <2>. QED  BY <2>1, <2>2 DEF Heads
  <1>2. dir[c] # None => <<dir[c]>> \in D
    <2>. SUFFICES ASSUME dir[c] # None PROVE <<dir[c]>> \in D
      OBVIOUS
    <2>1. dir[c] \in Dir
      BY DEF DirInv
    <2>2. dir[c] \in Part \ Dots
      BY <2>1, FilesAssumption, DotsAreParts DEF Part
    <2>. QED  BY <2>2 DEF TidyPath, Heads
  <1>3. compiler.protoPaths \in Seq(D) /\ compiler.mappings \in Seq(M) /\ Cwd \in D
    <2>. DEFINE given == [virtual : Seq(Component), disk : CleanPath]
    <2>1. given \subseteq M
      <3>. HIDE DEF D
      <3>. QED  BY <1>1
    <2>2. /\ compiler.protoPaths \in Seq(CleanPath) /\ compiler.mappings \in Seq(given)
          /\ Cwd \in CleanPath
      BY GivenPaths
    <2>. HIDE DEF D, M, given
    <2>3. \A s \in Seq(CleanPath) : s \in Seq(D)
      BY <1>1
    <2>4. \A s \in Seq(given) : s \in Seq(M)
      BY <2>1
    <2>. QED  BY <1>1, <2>2, <2>3, <2>4
  <1>. DEFINE first == IF dir[c] = None THEN <<>> ELSE <<<<dir[c]>>>>
              roots == IF Roots(c) = <<>> /\ compiler.mappings = <<>> THEN <<Cwd>> ELSE Roots(c)
              front == [i \in DOMAIN roots |-> [virtual |-> <<>>, disk |-> roots[i]]]
  <1>4. first \in Seq(D)
    <2>. HIDE DEF D
    <2>1. <<>> \in Seq(D)
      OBVIOUS
    <2>2. \A s \in D : <<s>> \in Seq(D)
      OBVIOUS
    <2>. QED  BY <1>2, <2>1, <2>2
  <1>5. Roots(c) \in Seq(D)
    <2>1. Roots(c) = first \o compiler.protoPaths
      BY DEF Roots
    <2>. HIDE DEF first, D
    <2>. QED  BY <1>3, <1>4, <2>1, ConcatProperties
  <1>6. roots \in Seq(D)
    <2>. HIDE DEF D
    <2>. QED  BY <1>3, <1>5
  <1>7. /\ front \in Seq(M) /\ Len(front) = Len(roots)
        /\ \A i \in 1 .. Len(roots) : front[i] = [virtual |-> <<>>, disk |-> roots[i]]
    <2>1. <<>> \in Seq(Component)
      OBVIOUS
    <2>2. DOMAIN roots = 1 .. Len(roots) /\ Len(roots) \in Nat
      <3>. HIDE DEF D, roots
      <3>. QED  BY <1>6, LenProperties
    <2>3. \A i \in 1 .. Len(roots) : roots[i] \in D
      <3>. HIDE DEF D, roots
      <3>. QED  BY <1>6, ElementOfSeq
    <2>4. \A i \in 1 .. Len(roots) : [virtual |-> <<>>, disk |-> roots[i]] \in M
      <3>. HIDE DEF D, roots
      <3>. QED  BY <2>1, <2>3
    <2>. HIDE DEF D, M, roots
    <2>. QED  BY <2>2, <2>4
  <1>8. Mappings(c) = front \o compiler.mappings
    BY DEF Mappings
  <1>9. /\ Mappings(c) \in Seq(M) /\ Len(Mappings(c)) = Len(front) + Len(compiler.mappings)
        /\ \A i \in 1 .. Len(front) : Mappings(c)[i] = front[i]
    <2>. DEFINE rest == compiler.mappings
    <2>. HIDE DEF front, M
    <2>1. front \in Seq(M) /\ rest \in Seq(M) /\ Mappings(c) = front \o rest
      BY <1>3, <1>7, <1>8
    <2>. HIDE DEF rest
    <2>2. Len(front) \in Nat /\ Len(rest) \in Nat
      BY <2>1, LenProperties
    <2>3. /\ front \o rest \in Seq(M) /\ Len(front \o rest) = Len(front) + Len(rest)
          /\ \A k \in 1 .. Len(front) + Len(rest) :
                (front \o rest)[k] = IF k <= Len(front) THEN front[k] ELSE rest[k - Len(front)]
      BY <2>1, ConcatProperties
    <2>4. \A i \in 1 .. Len(front) : i \in 1 .. Len(front) + Len(rest) /\ i <= Len(front)
      BY <2>2
    <2>5. \A i \in 1 .. Len(front) : (front \o rest)[i] = front[i]
      BY <2>3, <2>4
    <2>. QED  BY <2>1, <2>3, <2>5 DEF rest
  <1>10. ASSUME dir[c] # None
         PROVE  1 \in DOMAIN Mappings(c) /\ Mappings(c)[1] = [virtual |-> <<>>, disk |-> <<dir[c]>>]
    <2>. DEFINE given == compiler.protoPaths
                one == <<<<dir[c]>>>>
    <2>1. one \in Seq(D) /\ Len(one) = 1 /\ one[1] = <<dir[c]>>
      <3>1. Len(one) = 1 /\ one[1] = <<dir[c]>>
        OBVIOUS
      <3>. QED  BY <1>10, <1>2, <3>1
    <2>2. Roots(c) = one \o given /\ given \in Seq(D)
      BY <1>10, <1>3 DEF Roots
    <2>3. /\ Roots(c) \in Seq(D) /\ Len(Roots(c)) = Len(one) + Len(given) /\ Len(given) \in Nat
          /\ \A k \in 1 .. Len(one) + Len(given) :
                Roots(c)[k] = IF k <= Len(one) THEN one[k] ELSE given[k - Len(one)]
      <3>. HIDE DEF one, given, D
      <3>1. /\ one \o given \in Seq(D) /\ Len(one \o given) = Len(one) + Len(given)
            /\ \A k \in 1 .. Len(one) + Len(given) :
                  (one \o given)[k] = IF k <= Len(one) THEN one[k] ELSE given[k - Len(one)]
        BY <2>1, <2>2, ConcatProperties
      <3>2. Len(given) \in Nat
        BY <2>2, LenProperties
      <3>. QED  BY <2>2, <3>1, <3>2
    <2>4. Len(Roots(c)) >= 1 /\ Roots(c)[1] = <<dir[c]>>
      <3>. HIDE DEF one, given, D
      <3>1. 1 \in 1 .. Len(one) + Len(given) /\ 1 <= Len(one)
        BY <2>1, <2>3
      <3>. QED  BY <2>1, <2>3, <3>1
    <2>5. roots = Roots(c)
      <3>. HIDE DEF D
      <3>1. Roots(c) # <<>>
        BY <2>3, <2>4, EmptySeq
      <3>. QED  BY <3>1
    <2>6. 1 \in 1 .. Len(roots) /\ roots[1] = <<dir[c]>>
      <3>1. Len(Roots(c)) \in Nat
        BY <2>3, LenProperties
      <3>. HIDE DEF roots, D
      <3>. QED  BY <2>4, <2>5, <3>1
    <2>7. front[1] = [virtual |-> <<>>, disk |-> <<dir[c]>>] /\ 1 \in 1 .. Len(front)
      <3>. HIDE DEF roots, front, D, M
      <3>. QED  BY <1>7, <2>6
    <2>8. 1 \in 1 .. Len(Mappings(c)) /\ DOMAIN Mappings(c) = 1 .. Len(Mappings(c))
      <3>. HIDE DEF front, M
      <3>1. Len(compiler.mappings) \in Nat /\ Len(front) \in Nat
        BY <1>3, <1>7, LenProperties
      <3>2. 1 \in 1 .. Len(front) + Len(compiler.mappings)
        BY <2>7, <3>1
      <3>. QED  BY <1>9, <3>2, LenProperties
    <2>. HIDE DEF front, M
    <2>. QED  BY <1>9, <2>7, <2>8
  <1>11. \A i \in DOMAIN Mappings(c) : Mappings(c)[i] \in M
    <2>. HIDE DEF M
    <2>. QED  BY <1>9, ElementOfSeq, LenProperties
  <1>12. Mappings(c) \in Seq(Mapping)
    <2>1. M \subseteq Mapping
      BY DEF Mapping
    <2>. HIDE DEF M
    <2>. QED  BY <1>9, <2>1
  <1>. QED  BY <1>10, <1>11, <1>12

\* Below what a call is given, and below its own directory, the disk is as if it were alone.
LEMMA SameDisk ==
    ASSUME ControlInv, DirInv, NEW c \in Call, Complete(c)
    PROVE  /\ SameBelow(Disk, OwnDisk(c), Heads(c))
           /\ Disk \in SUBSET (TidyPath \ {<<>>}) /\ OwnDisk(c) \in SUBSET (TidyPath \ {<<>>})
  <1>1. ASSUME NEW d \in Dir, NEW n \in Overlay
        PROVE  /\ <<d>> \o n \in TidyPath /\ <<d>> \o n # <<>> /\ (<<d>> \o n)[1] = d
               /\ d \notin Component /\ d # None
    <2>1. d \in Part \ Dots /\ d \notin Component /\ d # None
      BY FilesAssumption, DotsAreParts DEF Part
    <2>2. n \in TidyPath
      BY GivenPaths
    <2>3. PICK one \in TidyPath : one = <<d>> /\ Len(one) = 1 /\ one[1] = d
      <3>1. <<d>> \in TidyPath
        BY <2>1 DEF TidyPath
      <3>2. Len(<<d>>) = 1 /\ <<d>>[1] = d
        OBVIOUS
      <3>. QED  BY <3>1, <3>2
    <2>4. /\ one \o n \in TidyPath /\ Len(one \o n) = Len(one) + Len(n) /\ Len(n) \in Nat
          /\ \A k \in 1 .. Len(one) + Len(n) :
                (one \o n)[k] = IF k <= Len(one) THEN one[k] ELSE n[k - Len(one)]
      BY <2>2, <2>3, ConcatProperties, LenProperties DEF TidyPath
    <2>5. 1 \in 1 .. Len(one) + Len(n) /\ 1 <= Len(one) /\ Len(one \o n) # 0
      BY <2>3, <2>4
    <2>6. (one \o n)[1] = d
      BY <2>3, <2>4, <2>5
    <2>7. one \o n # <<>>
      BY <2>4, <2>5, EmptySeq DEF TidyPath
    <2>. QED  BY <2>1, <2>3, <2>4, <2>6, <2>7
  <1>2. /\ compiler.files \subseteq TidyPath \ {<<>>}
        /\ \A f \in compiler.files : f[1] \in Component
    <2>1. compiler.files \subseteq CleanPath \ {<<>>} /\ CleanPath \subseteq TidyPath
          /\ CleanPath \subseteq Seq(Component)
      BY GivenPaths
    <2>2. ASSUME NEW f \in compiler.files PROVE f[1] \in Component
      <3>1. f \in Seq(Component) /\ f # <<>>
        BY <2>1
      <3>2. Len(f) \in Nat \ {0}
        BY <3>1, LenProperties, EmptySeq
      <3>3. 1 \in 1 .. Len(f)
        BY <3>2
      <3>. QED  BY <3>1, <3>3, ElementOfSeq
    <2>. QED  BY <2>1, <2>2
  <1>3. \A f : f \in Disk <=> \/ f \in compiler.files
                              \/ \E d \in DOMAIN disk : \E n \in disk[d] : f = <<d>> \o n
    <2>. DEFINE overlays(d) == {<<d>> \o n : n \in disk[d]}
    <2>1. \A f, d : f \in overlays(d) <=> \E n \in disk[d] : f = <<d>> \o n
      BY Zenon
    <2>2. Disk = compiler.files \cup UNION {overlays(d) : d \in DOMAIN disk}
      BY Zenon DEF Disk
    <2>. HIDE DEF overlays
    <2>3. \A f : f \in Disk <=> f \in compiler.files \/ \E d \in DOMAIN disk : f \in overlays(d)
      BY <2>2
    <2>. QED  BY <2>1, <2>3
  <1>4. \A f : f \in OwnDisk(c) <=> f \in compiler.files \/ \E n \in Overlay : f = <<dir[c]>> \o n
    BY DEF OwnDisk
  <1>5. \A d \in DOMAIN disk : d \in Dir /\ disk[d] \subseteq Overlay
    BY DEF DirInv
  <1>6. Overlay # {} => /\ dir[c] \in DOMAIN disk /\ dir[c] \in Dir /\ disk[dir[c]] = Overlay
    <2>1. UnderWay(c)
      BY DEF Complete, UnderWay
    <2>. QED  BY <1>5, <2>1 DEF DirInv
  <1>7. Disk \in SUBSET (TidyPath \ {<<>>})
    <2>. SUFFICES ASSUME NEW f \in Disk PROVE f \in TidyPath /\ f # <<>>
      OBVIOUS
    <2>1. ASSUME NEW d \in DOMAIN disk, NEW n \in disk[d], f = <<d>> \o n
          PROVE  f \in TidyPath /\ f # <<>>
      <3>1. n \in Overlay /\ d \in Dir
        BY <1>5
      <3>. QED  BY <1>1, <2>1, <3>1
    <2>. QED  BY <1>2, <1>3, <2>1
  <1>8. OwnDisk(c) \in SUBSET (TidyPath \ {<<>>})
    <2>. SUFFICES ASSUME NEW f \in OwnDisk(c) PROVE f \in TidyPath /\ f # <<>>
      OBVIOUS
    <2>1. ASSUME NEW n \in Overlay, f = <<dir[c]>> \o n
          PROVE  f \in TidyPath /\ f # <<>>
      <3>1. dir[c] \in Dir
        BY <1>6
      <3>. QED  BY <1>1, <2>1, <3>1
    <2>. QED  BY <1>2, <1>4, <2>1
  <1>9. ASSUME NEW f, f # <<>>, f[1] \in Heads(c)
        PROVE  f \in Disk <=> f \in OwnDisk(c)
    <2>1. ASSUME NEW d \in DOMAIN disk, NEW n \in disk[d], f = <<d>> \o n
          PROVE  f \in OwnDisk(c)
      <3>1. n \in Overlay /\ d \in Dir
        BY <1>5
      <3>2. f[1] = d /\ d \notin Component
        BY <1>1, <2>1, <3>1
      <3>3. d = dir[c]
        BY <1>9, <3>2 DEF Heads
      <3>. QED  BY <1>4, <2>1, <3>1, <3>3
    <2>2. ASSUME NEW n \in Overlay, f = <<dir[c]>> \o n
          PROVE  f \in Disk
      BY <1>3, <1>6, <2>2
    <2>. QED  BY <1>3, <1>4, <2>1, <2>2
  <1>. QED  BY <1>7, <1>8, <1>9 DEF SameBelow

\* Names are made of the paths as the call's mappings say, once its overlay is complete.
NameInv ==
    /\ \A c \in Call : pc[c] \in {"start", "overlay"} => DOMAIN names[c] = {}
    /\ \A c \in Call : Complete(c) =>
          \A p \in DOMAIN names[c] : NamedFor(Mappings(c), names[c][p], p)

\* What a call has read, and not from a descriptor set, is what it would have read alone.
ReadAlone(c, n, file) ==
    n \in Seq(Component) /\ file = Open(OwnDisk(c), Mappings(c), compiler.bundled, n) /\ file # Nothing
ReadInv ==
    \A c \in Call : Registering(c) =>
        \A n \in DOMAIN from[c] \ compiler.described : ReadAlone(c, n, from[c][n])

\* A call is the only one to change what is its own, and keeps its directory.
LEMMA StepFrame ==
    ASSUME ControlInv, DirInv, NEW c \in Call, Step(c)
    PROVE  /\ compiler' = compiler /\ request' = request
           /\ \A b \in Call : b # c => /\ pc'[b] = pc[b] /\ dir'[b] = dir[b]
                                       /\ names'[b] = names[b] /\ from'[b] = from[b]
           /\ pc[c] # "start" => dir'[c] = dir[c]
           /\ Complete(c)' => Complete(c) \/ pc[c] \in {"start", "overlay"}
           /\ Registering(c)' => Registering(c) \/ pc[c] = "relative"
           /\ pc[c] \in {"start", "overlay"} => names'[c] = names[c] /\ from'[c] = from[c]
           /\ pc'[c] \in {"start", "overlay"} => pc[c] \in {"start", "overlay"}
  <1>. USE DEF ControlInv, DirInv, GoTo, Complete, Registering
  <1>1. CASE MakeDir(c)
    BY <1>1 DEF MakeDir
  <1>2. CASE WriteOverlay(c) \/ RemoveDir(c)
    BY <1>2 DEF WriteOverlay, RemoveDir
  <1>3. CASE StartWalk(c) \/ EndWalk(c) \/ FailWalk(c) \/ EndChecks(c) \/ Release(c)
    BY <1>3 DEF StartWalk, EndWalk, FailWalk, EndChecks, Release
  <1>4. CASE \E p \in request[c].paths : NamePath(c, p)
    BY <1>4 DEF NamePath
  <1>5. CASE \E n \in Needed(c) : ReadSource(c, n) \/ Lookup(c, n)
    BY <1>5 DEF ReadSource, Lookup
  <1>. QED  BY <1>1, <1>2, <1>3, <1>4, <1>5 DEF Step

\* What a call would read alone changes only with its directory.
LEMMA OwnIsStable ==
    ASSUME NEW c \in Call, compiler' = compiler, dir'[c] = dir[c]
    PROVE  Mappings(c)' = Mappings(c) /\ OwnDisk(c)' = OwnDisk(c)
  <1>1. Roots(c)' = Roots(c)
    BY DEF Roots
  <1>2. Mappings(c)' = Mappings(c)
    BY <1>1 DEF Mappings
  <1>3. OwnDisk(c)' = OwnDisk(c)
    BY DEF OwnDisk, Overlay
  <1>. QED  BY <1>2, <1>3

LEMMA NameStep ==
    ASSUME ControlInv, DirInv, SourceInv, NameInv, [Next]_vars
    PROVE  NameInv'
  <1>1. CASE UNCHANGED vars
    <2>1. \A c \in Call : Mappings(c)' = Mappings(c)
      BY <1>1, OwnIsStable DEF vars
    <2>. QED  BY <1>1, <2>1 DEF vars, NameInv, Complete
  <1>2. ASSUME NEW c \in Call, Step(c) PROVE NameInv'
    <2>1. ASSUME NEW b \in Call, pc'[b] \in {"start", "overlay"}
          PROVE  DOMAIN names'[b] = {}
      BY <1>2, <2>1, StepFrame DEF NameInv
    <2>2. ASSUME NEW b \in Call, Complete(b)', NEW q \in DOMAIN names'[b]
          PROVE  NamedFor(Mappings(b)', names'[b][q], q)
      <3>1. Complete(b)
        <4>1. CASE b # c
          BY <1>2, <2>2, <4>1, StepFrame DEF Complete
        <4>2. CASE b = c
          BY <1>2, <2>2, <4>2, StepFrame DEF NameInv
        <4>. QED  BY <4>1, <4>2
      <3>2. Mappings(b)' = Mappings(b)
        <4>1. pc[b] # "start"
          BY <3>1 DEF Complete
        <4>. QED  BY <1>2, <4>1, StepFrame, OwnIsStable
      <3>3. CASE names'[b] = names[b]
        BY <2>2, <3>1, <3>2, <3>3 DEF NameInv
      <3>4. CASE b = c /\ \E p \in request[c].paths : NamePath(c, p)
        <4>1. PICK p \in request[c].paths : NamePath(c, p)
          BY <3>4
        <4>. DEFINE name == MakeRelative(Disk, Mappings(c), Cwd, p)
        <4>2. CASE name # Nothing /\ names' = [names EXCEPT ![c] = With(@, p, name)]
          <5>1. names'[c] = With(names[c], p, name)
            BY <4>2 DEF ControlInv
          <5>2. CASE q = p
            <6>1. names'[b][q] = name
              <7>. HIDE DEF name
              <7>. QED  BY <3>4, <5>1, <5>2 DEF With
            <6>2. p \in Seq(Component)
              BY <4>1, GivenPaths
            <6>3. NamedFor(Mappings(c), name, p)
              BY <4>2, <6>2, MakeRelativeNames, MappingsMean
            <6>. HIDE DEF name
            <6>. QED  BY <3>2, <3>4, <5>2, <6>1, <6>3
          <5>3. CASE q # p
            <6>1. q \in DOMAIN names[c] /\ names'[b][q] = names[c][q]
              <7>. HIDE DEF name
              <7>. QED  BY <2>2, <3>4, <5>1, <5>3 DEF With
            <6>. QED  BY <3>1, <3>2, <3>4, <6>1 DEF NameInv
          <5>. QED  BY <5>2, <5>3
        <4>3. CASE UNCHANGED names
          BY <3>3, <4>3
        <4>. QED  BY <4>1, <4>2, <4>3 DEF NamePath
      <3>5. names'[b] = names[b] \/ (b = c /\ \E p \in request[c].paths : NamePath(c, p))
        <4>1. CASE b # c
          BY <1>2, <4>1, StepFrame
        <4>2. CASE UNCHANGED names
          BY <4>2
        <4>3. UNCHANGED names \/ \E p \in request[c].paths : NamePath(c, p)
          BY <1>2 DEF Step, MakeDir, WriteOverlay, StartWalk, EndWalk, FailWalk, EndChecks, Release,
                      RemoveDir, ReadSource, Lookup
        <4>. QED  BY <4>1, <4>2, <4>3
      <3>. QED  BY <3>3, <3>4, <3>5
    <2>. QED  BY <2>1, <2>2 DEF NameInv
  <1>. QED  BY <1>1, <1>2 DEF Next, Terminated

LEMMA ReadStep ==
    ASSUME ControlInv, DirInv, RegistryInv, SourceInv, NameInv, ReadInv, [Next]_vars
    PROVE  ReadInv'
  <1>1. CASE UNCHANGED vars
    <2>1. \A c \in Call : Mappings(c)' = Mappings(c) /\ OwnDisk(c)' = OwnDisk(c)
      BY <1>1, OwnIsStable DEF vars
    <2>. QED  BY <1>1, <2>1 DEF vars, ReadInv, ReadAlone, Registering
  <1>2. ASSUME NEW c \in Call, Step(c) PROVE ReadInv'
    <2>. SUFFICES ASSUME NEW b \in Call, Registering(b)', NEW n \in DOMAIN from'[b] \ compiler.described
                  PROVE  /\ n \in Seq(Component) /\ from'[b][n] # Nothing
                         /\ from'[b][n] = Open(OwnDisk(b)', Mappings(b)', compiler'.bundled, n)
      <3>1. compiler' = compiler
        BY <1>2, StepFrame
      <3>. QED  BY <3>1 DEF ReadInv, ReadAlone
    <2>1. b = c \/ (Registering(b) /\ from'[b] = from[b])
      BY <1>2, StepFrame DEF Registering
    <2>2. CASE Registering(b) /\ n \in DOMAIN from[b] /\ from'[b][n] = from[b][n]
      <3>1. pc[b] # "start"
        BY <2>2 DEF Registering
      <3>2. Mappings(b)' = Mappings(b) /\ OwnDisk(b)' = OwnDisk(b) /\ compiler' = compiler
        BY <1>2, <3>1, StepFrame, OwnIsStable
      <3>3. ReadAlone(b, n, from[b][n])
        BY <2>2 DEF ReadInv
      <3>. QED  BY <2>2, <3>2, <3>3 DEF ReadAlone
    <2>3. CASE b = c /\ \E k \in Needed(c) : ReadSource(c, k)
      <3>1. PICK k \in Needed(c) : ReadSource(c, k)
        BY <2>3
      <3>. DEFINE file == Open(Disk, Mappings(c), compiler.bundled, k)
      <3>2. Registering(c) /\ Complete(c) /\ pc[c] # "start"
        BY <3>1 DEF ReadSource, Registering, Complete
      <3>3. file # Nothing /\ from'[c] = With(from[c], k, file)
        BY <3>1 DEF ReadSource, ControlInv
      <3>4. CASE n # k
        <4>1. n \in DOMAIN from[c] /\ from'[c][n] = from[c][n]
          <5>. HIDE DEF file
          <5>. QED  BY <2>3, <3>3, <3>4 DEF With
        <4>. QED  BY <2>2, <2>3, <3>2, <4>1
      <3>5. CASE n = k
        <4>1. from'[c][n] = file
          <5>. HIDE DEF file
          <5>. QED  BY <3>3, <3>5 DEF With
        <4>2. k \in Seq(Component)
          <5>1. k \in request[c].imports \/ \E p \in DOMAIN names[c] : k = names[c][p]
            BY <3>5 DEF Needed
          <5>2. \A p \in DOMAIN names[c] : names[c][p] \in Seq(Component)
            BY <3>2 DEF NameInv, NamedFor
          <5>. QED  BY <5>1, <5>2, GivenPaths
        <4>3. file = Open(OwnDisk(c), Mappings(c), compiler.bundled, k)
          <5>1. /\ SameBelow(Disk, OwnDisk(c), Heads(c))
                /\ Disk \in SUBSET TidyPath /\ OwnDisk(c) \in SUBSET TidyPath
                /\ <<>> \notin Disk \cup OwnDisk(c)
            BY <3>2, SameDisk
          <5>2. /\ Mappings(c) \in Seq(Mapping)
                /\ \A i \in DOMAIN Mappings(c) :
                      Mappings(c)[i].disk = <<>> \/ Mappings(c)[i].disk[1] \in Heads(c)
            BY MappingsMean
          <5>3. Component \subseteq Heads(c)
            BY DEF Heads
          <5>. QED  BY <4>2, <5>1, <5>2, <5>3, SameOpen
        <4>4. Mappings(c)' = Mappings(c) /\ OwnDisk(c)' = OwnDisk(c) /\ compiler' = compiler
          BY <1>2, <3>2, StepFrame, OwnIsStable
        <4>. HIDE DEF file
        <4>. QED  BY <2>3, <3>3, <3>5, <4>1, <4>2, <4>3, <4>4
      <3>. QED  BY <3>4, <3>5
    <2>4. CASE b = c /\ from'[c] = from[c]
      <3>1. Registering(c)
        <4>1. Registering(c) \/ pc[c] = "relative"
          BY <1>2, <2>4, StepFrame
        <4>2. pc[c] # "relative"
          BY <2>4 DEF RegistryInv
        <4>. QED  BY <4>1, <4>2
      <3>. QED  BY <2>2, <2>4, <3>1
    <2>5. CASE b = c /\ StartWalk(c)
      <3>1. from'[c] = [k \in compiler.described |-> Described(k)] \/ from'[c] = from[c]
        BY <2>5 DEF StartWalk, ControlInv
      <3>2. DOMAIN from[c] = {}
        BY <2>5 DEF StartWalk, RegistryInv
      <3>. QED  BY <2>5, <3>1, <3>2
    <2>6. from'[c] = from[c] \/ StartWalk(c) \/ \E k \in Needed(c) : ReadSource(c, k)
      BY <1>2 DEF Step, MakeDir, WriteOverlay, EndWalk, FailWalk, EndChecks, Release,
                  RemoveDir, NamePath, Lookup
    <2>. QED  BY <2>1, <2>2, <2>3, <2>4, <2>5, <2>6
  <1>. QED  BY <1>1, <1>2 DEF Next, Terminated

\* While a call walks or checks, what it has read, and not from a descriptor set, is what it
\* would read now: only its own directory could make a difference, and that has the whole
\* overlay.
LEMMA ReadsNow ==
    ASSUME CallsInv, NameInv, ReadInv, NEW c \in Call, Registering(c),
           NEW n \in DOMAIN from[c] \ compiler.described
    PROVE  /\ n \in Seq(Component)
           /\ from[c][n] = Open(Disk, Mappings(c), compiler.bundled, n)
           /\ from[c][n] # Nothing
  <1>. USE DEF CallsInv
  <1>1. ReadAlone(c, n, from[c][n])
    BY DEF ReadInv
  <1>2. Complete(c)
    BY DEF Complete, Registering
  <1>3. /\ SameBelow(Disk, OwnDisk(c), Heads(c))
        /\ Disk \in SUBSET TidyPath /\ OwnDisk(c) \in SUBSET TidyPath
        /\ <<>> \notin Disk \cup OwnDisk(c)
    BY <1>2, SameDisk
  <1>4. /\ Mappings(c) \in Seq(Mapping)
        /\ \A i \in DOMAIN Mappings(c) :
              Mappings(c)[i].disk = <<>> \/ Mappings(c)[i].disk[1] \in Heads(c)
    BY MappingsMean
  <1>5. Component \subseteq Heads(c)
    BY DEF Heads
  <1>6. n \in Seq(Component)
    BY <1>1 DEF ReadAlone
  <1>7. Open(Disk, Mappings(c), compiler.bundled, n) = Open(OwnDisk(c), Mappings(c), compiler.bundled, n)
    BY <1>3, <1>4, <1>5, <1>6, SameOpen
  <1>. QED  BY <1>1, <1>7 DEF ReadAlone

\* A file of the overlay is found in the call's own directory, before any other place.
LEMMA OverlayIsFirst ==
    ASSUME CallsInv, NEW c \in Call, Complete(c), NEW n \in Overlay
    PROVE  /\ FirstPlace(Disk, Mappings(c), n, 1)
           /\ At(Mappings(c)[1], n) = <<dir[c]>> \o n /\ <<dir[c]>> \o n \in Disk
  <1>. USE DEF CallsInv
  <1>1. dir[c] # None /\ dir[c] \in DOMAIN disk /\ disk[dir[c]] = Overlay
    BY DEF DirInv, Complete, UnderWay
  <1>2. 1 \in DOMAIN Mappings(c) /\ Mappings(c)[1] = [virtual |-> <<>>, disk |-> <<dir[c]>>]
    BY <1>1, MappingsMean
  <1>3. <<dir[c]>> \o n \in OwnDisk(c)
    BY DEF OwnDisk
  <1>4. <<dir[c]>> \o n \in Disk
    <2>. DEFINE below(d) == {<<d>> \o k : k \in disk[d]}
    <2>1. <<dir[c]>> \o n \in below(dir[c])
      BY <1>1
    <2>2. Disk = compiler.files \cup UNION {below(d) : d \in DOMAIN disk}
      BY Zenon DEF Disk
    <2>. HIDE DEF below
    <2>. QED  BY <1>1, <2>1, <2>2
  <1>5. n \in Seq(Part) /\ n # <<>> /\ Disk \in SUBSET TidyPath
    <2>1. n \in CleanPath \ {<<>>} /\ CleanPath \subseteq TidyPath
      BY GivenPaths
    <2>. QED  BY <2>1, SameDisk DEF TidyPath
  <1>6. IsStrictPrefix(<<>>, n)
    <2>1. PICK empty \in Seq(Part) : empty = <<>> /\ Len(empty) = 0
      <3>1. <<>> \in Seq(Part) /\ Len(<<>>) = 0
        OBVIOUS
      <3>. QED  BY <3>1
    <2>2. Len(empty) <= Len(n) /\ 1 .. Len(empty) = {}
      <3>1. Len(n) \in Nat
        BY <1>5, LenProperties
      <3>. QED  BY <2>1, <3>1
    <2>3. IsPrefix(empty, n)
      BY <1>5, <2>2, PrefixMeans
    <2>. QED  BY <1>5, <2>1, <2>3 DEF IsStrictPrefix
  <1>7. At(Mappings(c)[1], n) = <<dir[c]>> \o n
    <2>1. SubSeq(n, 0 + 1, Len(n)) = n
      BY <1>5, SubSeqFull
    <2>2. Len(<<>>) = 0
      OBVIOUS
    <2>. QED  BY <1>2, <2>1, <2>2 DEF At
  <1>8. 1 \in PlacesIn(Disk, Mappings(c), n)
    <2>. DEFINE file == <<dir[c]>> \o n
    <2>1. file \in Seq(Part) /\ file \in Disk
      <3>1. \A s \in TidyPath : s \in Seq(Part)
        BY DEF TidyPath
      <3>. HIDE DEF file
      <3>2. file \in Disk
        BY <1>4 DEF file
      <3>. QED  BY <1>5, <3>1, <3>2
    <2>. HIDE DEF file
    <2>2. IsPrefix(file, file)
      <3>1. Len(file) \in Nat /\ SubSeq(file, 1, Len(file)) = file
        BY <2>1, LenProperties, SubSeqFull
      <3>. QED  BY <2>1, <3>1, PrefixMeans
    <2>3. Stat(Disk, file)
      BY <2>1, <2>2 DEF Stat
    <2>4. Mappings(c)[1].virtual = <<>>
      BY <1>2
    <2>5. HasIn(Disk, Mappings(c)[1], n)
      BY <1>6, <1>7, <2>3, <2>4 DEF HasIn, file
    <2>. QED  BY <1>2, <2>5 DEF PlacesIn
  <1>9. \A i \in PlacesIn(Disk, Mappings(c), n) : 1 <= i
    <2>1. Mappings(c) \in Seq(Mapping)
      BY MappingsMean
    <2>. QED  BY <2>1 DEF PlacesIn
  <1>. QED  BY <1>4, <1>7, <1>8, <1>9 DEF FirstPlace

\* Whatever other calls do, whichever order they do it in and wherever they fail, every name
\* leads a call to the descriptor set that has it, or to the first place that has something
\* of that name, its own overlay before all others, and every path to its file unless a set
\* or an earlier place hides it.
THEOREM CallsReadTheirFiles == Spec => []NamesLeadToFiles
  <1>1. Init => NameInv /\ ReadInv
    BY DEF Init, NameInv, ReadInv, Complete, Registering
  <1>2. CallsInv /\ NameInv /\ ReadInv /\ [Next]_vars => NameInv' /\ ReadInv'
    BY NameStep, ReadStep DEF CallsInv
  <1>3. CallsInv /\ NameInv /\ ReadInv => NamesLeadToFiles
    <2>. SUFFICES ASSUME CallsInv, NameInv, ReadInv, NEW c \in Call, pc[c] \in {"walk", "check"}
                  PROVE  LET maps == Mappings(c)
                             Places(n) == {i \in DOMAIN maps : Has(maps[i], n)}
                         IN  /\ \A n \in DOMAIN from[c] :
                                  IF n \in compiler.described THEN from[c][n] = Described(n)
                                  ELSE IF n \in Overlay THEN from[c][n] = <<dir[c]>> \o n
                                  ELSE \/ /\ from[c][n] = Bundled(n) /\ n \in compiler.bundled
                                          /\ \A i \in Places(n) :
                                               (\A j \in Places(n) : i <= j) => At(maps[i], n) \notin Disk
                                       \/ \E i \in Places(n) :
                                             from[c][n] = At(maps[i], n) /\ \A j \in Places(n) : i <= j
                             /\ \A p \in DOMAIN names[c] :
                                  LET n == names[c][p]
                                      file == Abs(Cwd, p)
                                  IN  n \in DOMAIN from[c] /\ file \in Disk =>
                                         \/ from[c][n] = file
                                         \/ n \in compiler.described
                                         \/ n = p /\ ~IsAbs(p)
                                         \/ \E i, j \in Places(n) : i < j /\ At(maps[j], n) = file
      BY DEF NamesLeadToFiles
    <2>. DEFINE maps == Mappings(c)
                Places(n) == {i \in DOMAIN maps : Has(maps[i], n)}
    <2>1. \A n : Places(n) = PlacesIn(Disk, maps, n)
      BY DEF PlacesIn, HasIn, Has
    <2>2. Registering(c) /\ Complete(c)
      BY DEF Registering, Complete
    <2>3. maps \in Seq(Mapping) /\ Disk \in SUBSET (TidyPath \ {<<>>})
      BY <2>2, MappingsMean, SameDisk DEF CallsInv
    <2>4. ASSUME NEW n \in DOMAIN from[c] \ compiler.described
          PROVE  IF n \in Overlay THEN from[c][n] = <<dir[c]>> \o n
                 ELSE \/ /\ from[c][n] = Bundled(n) /\ n \in compiler.bundled
                         /\ \A i \in Places(n) :
                              (\A j \in Places(n) : i <= j) => At(maps[i], n) \notin Disk
                      \/ \E i \in Places(n) :
                            from[c][n] = At(maps[i], n) /\ \A j \in Places(n) : i <= j
      <3>1. /\ n \in Seq(Part) /\ from[c][n] = Open(Disk, maps, compiler.bundled, n)
            /\ from[c][n] # Nothing
        <4>1. n \in Seq(Component) /\ \A s \in Seq(Component) : s \in Seq(Part)
          BY <2>2, ReadsNow DEF Part
        <4>. QED  BY <2>2, <4>1, ReadsNow
      <3>. HIDE DEF maps
      <3>2. \/ /\ from[c][n] = Bundled(n) /\ n \in compiler.bundled
               /\ \A i : FirstPlace(Disk, maps, n, i) => At(maps[i], n) \notin Disk
            \/ \E i : /\ FirstPlace(Disk, maps, n, i)
                      /\ from[c][n] = At(maps[i], n) /\ At(maps[i], n) \in Disk
        BY <2>3, <3>1, OpenMeans
      <3>3. \A i : FirstPlace(Disk, maps, n, i) <=> i \in Places(n) /\ \A j \in Places(n) : i <= j
        BY <2>1 DEF FirstPlace
      <3>. HIDE DEF Places
      <3>4. CASE n \in Overlay
        <4>1. /\ FirstPlace(Disk, maps, n, 1)
              /\ At(maps[1], n) = <<dir[c]>> \o n /\ <<dir[c]>> \o n \in Disk
          BY <2>2, <3>4, OverlayIsFirst DEF maps
        <4>2. PICK i : FirstPlace(Disk, maps, n, i) /\ from[c][n] = At(maps[i], n)
          BY <3>2, <4>1
        <4>3. i = 1
          BY <2>3, <4>1, <4>2, FirstPlaceExists
        <4>. QED  BY <3>4, <4>1, <4>2, <4>3
      <3>5. CASE n \notin Overlay
        BY <3>2, <3>3, <3>5
      <3>. QED  BY <3>4, <3>5
    <2>5. ASSUME NEW p \in DOMAIN names[c], names[c][p] \in DOMAIN from[c] \ compiler.described,
                 Abs(Cwd, p) \in Disk
          PROVE  \/ from[c][names[c][p]] = Abs(Cwd, p)
                 \/ names[c][p] = p /\ ~IsAbs(p)
                 \/ \E i, j \in Places(names[c][p]) : i < j /\ At(maps[j], names[c][p]) = Abs(Cwd, p)
      <3>1. p \in Seq(Component)
        BY GivenPaths DEF CallsInv, SourceInv
      <3>2. NamedFor(maps, names[c][p], p)
        BY <2>2 DEF NameInv
      <3>. DEFINE n == names[c][p]
      <3>3. from[c][n] = Open(Disk, maps, compiler.bundled, n) /\ from[c][n] # Nothing
        BY <2>2, <2>5, ReadsNow
      <3>. HIDE DEF maps, n
      <3>4. \/ from[c][n] = Abs(Cwd, p)
            \/ n = p /\ ~IsAbs(p)
            \/ \E i, j \in PlacesIn(Disk, maps, n) : i < j /\ At(maps[j], n) = Abs(Cwd, p)
        BY <2>3, <2>5, <3>1, <3>2, <3>3, NameLeads DEF n
      <3>. HIDE DEF Places
      <3>. QED  BY <2>1, <3>4 DEF n
    <2>6. \A n \in DOMAIN from[c] \cap compiler.described : from[c][n] = Described(n)
      BY DEF CallsInv, RegistryInv
    <2>. HIDE DEF Places, maps
    <2>. QED  BY <2>4, <2>5, <2>6 DEF Places, maps
  <1>. QED  BY <1>1, <1>2, <1>3, CallsInvariance, PTL DEF Spec

================================================================================
