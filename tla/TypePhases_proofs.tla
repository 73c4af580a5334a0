--------------------------- MODULE TypePhases_proofs ---------------------------
(***************************************************************************)
(* Proofs about the phases that deal with types, for all pools: the table  *)
(* a file's references are looked up in, however its public imports cross  *)
(* or run in circles, and what an errorless resolution leaves.             *)
(***************************************************************************)
EXTENDS TypePhases, ProofLemmas

F == Resolution!TheFile
Deps == Resolution!Deps
InPool == Resolution!Parsed(job)
DataOf(g) == job.files[g]
Decl(g) == Resolution!Declared(job, g)
Public(g) == Resolution!PublicDeps(job, g)
Seen == Resolution!Visible(job, F)

\* The imports of the file, and the file.
Direct == {F} \cup (Resolution!Range(Deps) \cap InPool)

-------------------------------------------------------------------------------
(* The pool. *)

\* What is known of a pool's files and of their order.
LEMMA PoolFacts ==
    ASSUME job \in Jobs
    PROVE  /\ job.ordered \in Seq(File) /\ Len(job.ordered) \in Nat
           /\ DOMAIN job.ordered = 1 .. Len(job.ordered)
           /\ \A i \in 1 .. Len(job.ordered) : job.ordered[i] \in InPool
           /\ \A i, k \in 1 .. Len(job.ordered) : job.ordered[i] = job.ordered[k] => i = k
           /\ InPool \subseteq File
           /\ \A g \in File : Resolution!IsFileData(job.files[g])
           /\ \A g \in File :
                 /\ DataOf(g).deps \in Seq(File) /\ DataOf(g).public \in Seq(Nat \ {0})
                 /\ DataOf(g).refs \in Seq(Resolution!Reference)
                 /\ Len(DataOf(g).deps) \in Nat /\ Len(DataOf(g).public) \in Nat
                 /\ Len(DataOf(g).refs) \in Nat
                 /\ DOMAIN DataOf(g).deps = 1 .. Len(DataOf(g).deps)
                 /\ DOMAIN DataOf(g).public = 1 .. Len(DataOf(g).public)
                 /\ DOMAIN DataOf(g).refs = 1 .. Len(DataOf(g).refs)
                 /\ \A i \in 1 .. Len(DataOf(g).deps) : DataOf(g).deps[i] \in File
  <1>1. IsPool(job)
    BY JobsAssumption
  <1>2. /\ job.ordered \in Seq(File) /\ IsInjective(job.ordered)
        /\ \A g \in File : IsFileData(job.files[g])
    BY <1>1 DEF IsPool
  <1>3. \A g \in File : Resolution!IsFileData(job.files[g])
    BY <1>2 DEF IsFileData, Resolution!IsFileData, Name, Resolution!Name, Kind, Resolution!Kind,
       Reference, Resolution!Reference, Role, Resolution!Role, Range, Resolution!Range
  <1>4. /\ Len(job.ordered) \in Nat /\ DOMAIN job.ordered = 1 .. Len(job.ordered)
        /\ \A i \in 1 .. Len(job.ordered) : job.ordered[i] \in File
    BY <1>2, LenProperties, ElementOfSeq
  <1>5. InPool = {job.ordered[i] : i \in 1 .. Len(job.ordered)}
    BY <1>4 DEF InPool, Resolution!Parsed, Resolution!Range
  <1>6. \A i, k \in 1 .. Len(job.ordered) : job.ordered[i] = job.ordered[k] => i = k
    BY <1>2, <1>4 DEF IsInjective
  <1>7. ASSUME NEW g \in File
        PROVE  /\ DataOf(g).deps \in Seq(File) /\ DataOf(g).public \in Seq(Nat \ {0})
               /\ DataOf(g).refs \in Seq(Resolution!Reference)
               /\ Len(DataOf(g).deps) \in Nat /\ Len(DataOf(g).public) \in Nat
               /\ Len(DataOf(g).refs) \in Nat
               /\ DOMAIN DataOf(g).deps = 1 .. Len(DataOf(g).deps)
               /\ DOMAIN DataOf(g).public = 1 .. Len(DataOf(g).public)
               /\ DOMAIN DataOf(g).refs = 1 .. Len(DataOf(g).refs)
               /\ \A i \in 1 .. Len(DataOf(g).deps) : DataOf(g).deps[i] \in File
    <2>1. /\ DataOf(g).deps \in Seq(File) /\ DataOf(g).public \in Seq(Nat \ {0})
          /\ DataOf(g).refs \in Seq(Resolution!Reference)
      BY <1>3 DEF DataOf, Resolution!IsFileData
    <2>. QED  BY <2>1, LenProperties, ElementOfSeq
  <1>. QED  BY <1>2, <1>3, <1>4, <1>5, <1>6, <1>7

\* A declared type has a kind.
LEMMA DeclaredKinds ==
    ASSUME job \in Jobs, NEW g \in File, NEW x \in DOMAIN Decl(g)
    PROVE  x \in Resolution!Name /\ Decl(g)[x] \in Resolution!Kind
  <1>. DEFINE d == job.files[g]
  <1>1. /\ d.package \in Resolution!Name
        /\ DOMAIN d.declares \subseteq Resolution!Name
        /\ Resolution!Range(d.declares) \subseteq Resolution!Kind
    BY PoolFacts DEF Resolution!IsFileData
  <1>2. Decl(g) = [y \in {d.package \o q : q \in DOMAIN d.declares} |->
                      d.declares[SubSeq(y, Len(d.package) + 1, Len(y))]]
    BY DEF Decl, Resolution!Declared
  <1>3. PICK q \in DOMAIN d.declares : x = d.package \o q
    BY <1>2
  <1>4. d.package \in Seq(Ident) /\ q \in Seq(Ident)
    BY <1>1 DEF Resolution!Name
  <1>5. SubSeq(x, Len(d.package) + 1, Len(x)) = q /\ x \in Seq(Ident)
    <2>. HIDE DEF d
    <2>. QED  BY <1>3, <1>4, ConcatTail, ConcatProperties
  <1>6. Decl(g)[x] = d.declares[q]
    BY <1>2, <1>3, <1>5
  <1>7. d.declares[q] \in Resolution!Kind
    BY <1>1 DEF Resolution!Range
  <1>. QED  BY <1>5, <1>6, <1>7 DEF Resolution!Name

\* The visible files contain the direct ones and are closed under public imports,
\* but for those of the file itself; and are the least such set.
LEMMA VisibleClosed ==
    ASSUME job \in Jobs, F \in InPool
    PROVE  /\ Direct \subseteq Seen /\ Seen \subseteq File
           /\ \A h \in Seen : h # F => Public(h) \subseteq Seen
  <1>1. Direct \subseteq File /\ F \in File
    BY PoolFacts DEF Direct
  <1>2. \A h \in File : Public(h) \subseteq File
    BY PoolFacts DEF Public, Resolution!PublicDeps, InPool
  <1>3. Seen = {g \in File : \A S \in SUBSET File :
                  Direct \subseteq S /\ (\A h \in S : h # F => Public(h) \subseteq S) => g \in S}
    BY DEF Seen, Resolution!Visible, Direct, Deps, Resolution!Deps, F, InPool, Public
  <1>. QED  BY <1>1, <1>2, <1>3

LEMMA VisibleLeast ==
    ASSUME job \in Jobs, NEW S \in SUBSET File, Direct \subseteq S,
           \A h \in S : h # F => Public(h) \subseteq S
    PROVE  Seen \subseteq S
  BY DEF Seen, Resolution!Visible, Direct, Deps, Resolution!Deps, F, InPool, Public

-------------------------------------------------------------------------------
(* The inductive invariant of the table. *)

\* All types of g are in the table.
Got(g) == DOMAIN Decl(g) \subseteq DOMAIN types

\* The public import at position q of g's has been gone into, if there is such a file.
Followed(g, q) ==
    LET i == DataOf(g).public[q]
    IN  i \in DOMAIN DataOf(g).deps /\ DataOf(g).deps[i] \in InPool => DataOf(g).deps[i] \in visited

\* It still will be, when the call of collectPublicImportTypes for g gets there.
Pending(g, q) == \E k \in 1 .. Len(frames) : frames[k].file = g /\ frames[k].next <= q

\* What the table has comes from the files that can be seen.
TableSound ==
    /\ \A x \in DOMAIN types : \E g \in Seen : x \in DOMAIN Decl(g) /\ types[x] = Decl(g)[x]
    /\ visited \subseteq File /\ visited \cap InPool \subseteq Seen

\* It has the types of the file and of all that has been visited.
TableGot == F \in visited /\ \A g \in visited \cap InPool : Got(g)

DirectGot == \A i \in 1 .. Len(Deps) : Deps[i] \in InPool => Got(Deps[i])

\* While public imports are followed, each of a visited file's has been followed or is
\* still pending.
PublicInv ==
    /\ frames \in Seq(Resolution!Frame)
    /\ \A k \in 1 .. Len(frames) : frames[k].file \in visited \cap InPool /\ frames[k].file # F
    /\ at \in Nat \ {0}
    /\ \A i \in 1 .. Len(Deps) : i < at => Deps[i] \in visited
    /\ \A g \in visited \cap InPool : g # F =>
          \A q \in 1 .. Len(DataOf(g).public) : Pending(g, q) \/ Followed(g, q)

TableInv ==
    /\ job \in Jobs
    /\ n \in Nat \ {0}
    /\ pc \in {"file", "direct", "public", "refs", "done"}
    /\ pc # "public" => frames = <<>>
    /\ pc \in {"direct", "public", "refs"} =>
          n <= Len(job.ordered) /\ TableSound /\ TableGot
    /\ pc = "direct" =>
          /\ visited = {F} /\ at \in Nat \ {0}
          /\ \A i \in 1 .. Len(Deps) : i < at /\ Deps[i] \in InPool => Got(Deps[i])
    /\ pc = "public" => DirectGot /\ PublicInv
    /\ pc = "refs" => Resolution!TableIsVisible

-------------------------------------------------------------------------------
LEMMA FileFacts ==
    ASSUME job \in Jobs, n \in Nat \ {0}, n <= Len(job.ordered)
    PROVE  /\ F \in InPool /\ F \in File /\ F \in Seen
           /\ Deps = DataOf(F).deps /\ Len(Deps) \in Nat
           /\ \A i \in 1 .. Len(Deps) : Deps[i] \in InPool => Deps[i] \in Seen
  <1>1. n \in 1 .. Len(job.ordered)
    BY PoolFacts
  <1>2. F \in InPool /\ F \in File
    BY <1>1, PoolFacts DEF F, Resolution!TheFile
  <1>3. Deps = DataOf(F).deps /\ Len(Deps) \in Nat /\ DOMAIN Deps = 1 .. Len(Deps)
    BY <1>2, PoolFacts DEF Deps, Resolution!Deps, DataOf, F
  <1>4. \A i \in 1 .. Len(Deps) : Deps[i] \in InPool => Deps[i] \in Direct
    BY <1>3 DEF Direct, Resolution!Range
  <1>. QED  BY <1>2, <1>3, <1>4, VisibleClosed DEF Direct

\* The table grows by the types of a visible file.
LEMMA MergeSound ==
    ASSUME NEW g \in Seen, TableSound, types' = Resolution!Merge(types, Resolution!Declared(job, g))
    PROVE  /\ DOMAIN types' = DOMAIN types \cup DOMAIN Decl(g)
           /\ \A x \in DOMAIN types' : \E h \in Seen : x \in DOMAIN Decl(h) /\ types'[x] = Decl(h)[x]
  <1>1. types' = [x \in DOMAIN types \cup DOMAIN Decl(g) |->
                     IF x \in DOMAIN Decl(g) THEN Decl(g)[x] ELSE types[x]]
    BY DEF Resolution!Merge, Decl
  <1>. QED  BY <1>1 DEF TableSound

\* Nothing of the pool changes.
LEMMA SamePool ==
    ASSUME UNCHANGED <<job, n>>
    PROVE  /\ F' = F /\ Deps' = Deps /\ InPool' = InPool /\ Seen' = Seen /\ Direct' = Direct
           /\ \A g : DataOf(g)' = DataOf(g) /\ Decl(g)' = Decl(g) /\ Public(g)' = Public(g)
  BY DEF F, Deps, InPool, Seen, Direct, DataOf, Decl, Public, Resolution!TheFile, Resolution!Deps

LEMMA TableStart ==
    ASSUME TableInv, Resolution!StartFile
    PROVE  TableInv'
  <1>1. /\ job \in Jobs /\ n \in Nat \ {0} /\ n <= Len(job.ordered) /\ UNCHANGED <<job, n, frames>>
        /\ types' = Decl(F) /\ visited' = {F} /\ pc' = "direct" /\ at' = 1 /\ frames = <<>>
    BY DEF TableInv, Resolution!StartFile, F, Decl
  <1>2. F \in InPool /\ F \in File /\ F \in Seen
    BY <1>1, FileFacts
  <1>. QED  BY <1>1, <1>2, SamePool DEF TableInv, TableSound, TableGot, Got

LEMMA TableDirect ==
    ASSUME TableInv, Resolution!CollectDirect
    PROVE  TableInv'
  <1>1. /\ job \in Jobs /\ n \in Nat \ {0} /\ n <= Len(job.ordered)
        /\ UNCHANGED <<job, n, visited, frames>> /\ pc = "direct"
        /\ visited = {F} /\ at \in Nat \ {0} /\ frames = <<>>
        /\ TableSound /\ TableGot
        /\ \A i \in 1 .. Len(Deps) : i < at /\ Deps[i] \in InPool => Got(Deps[i])
    BY DEF TableInv, Resolution!CollectDirect
  <1>2. /\ F \in InPool /\ F \in File /\ F \in Seen /\ Len(Deps) \in Nat
        /\ \A i \in 1 .. Len(Deps) : Deps[i] \in InPool => Deps[i] \in Seen
    BY <1>1, FileFacts
  <1>3. /\ F' = F /\ Deps' = Deps /\ InPool' = InPool /\ Seen' = Seen
        /\ \A g : DataOf(g)' = DataOf(g) /\ Decl(g)' = Decl(g)
    BY <1>1, SamePool
  <1>4. CASE at <= Len(Deps) /\ Deps[at] \in InPool
    <2>1. /\ types' = Resolution!Merge(types, Resolution!Declared(job, Deps[at]))
          /\ at' = at + 1 /\ pc' = "direct"
      BY <1>1, <1>2, <1>4 DEF Resolution!CollectDirect, Deps, InPool
    <2>2. at \in 1 .. Len(Deps) /\ Deps[at] \in Seen
      BY <1>1, <1>2, <1>4
    <2>3. /\ DOMAIN types' = DOMAIN types \cup DOMAIN Decl(Deps[at])
          /\ \A x \in DOMAIN types' : \E h \in Seen : x \in DOMAIN Decl(h) /\ types'[x] = Decl(h)[x]
      BY <1>1, <2>1, <2>2, MergeSound
    <2>4. \A i \in 1 .. Len(Deps) : i < at + 1 => i < at \/ i = at
      BY <1>1, <1>2
    <2>. QED  BY <1>1, <1>3, <2>1, <2>3, <2>4 DEF TableInv, TableSound, TableGot, Got
  <1>5. CASE at <= Len(Deps) /\ Deps[at] \notin InPool
    <2>1. types' = types /\ at' = at + 1 /\ pc' = "direct"
      BY <1>1, <1>2, <1>5 DEF Resolution!CollectDirect, Deps, InPool
    <2>2. \A i \in 1 .. Len(Deps) : i < at + 1 => i < at \/ i = at
      BY <1>1, <1>2
    <2>. QED  BY <1>1, <1>3, <1>5, <2>1, <2>2 DEF TableInv, TableSound, TableGot, Got
  <1>6. CASE ~ (at <= Len(Deps))
    <2>1. types' = types /\ at' = 1 /\ pc' = "public"
      BY <1>1, <1>2, <1>6 DEF Resolution!CollectDirect, Deps
    <2>2. \A i \in 1 .. Len(Deps) : i < at /\ ~ (i < 1)
      BY <1>1, <1>2, <1>6
    <2>3. frames' \in Seq(Resolution!Frame) /\ Len(frames') = 0
      BY <1>1, EmptySeq
    <2>. QED  BY <1>1, <1>3, <2>1, <2>2, <2>3
              DEF TableInv, TableSound, TableGot, Got, DirectGot, PublicInv
  <1>. QED  BY <1>1, <1>2, <1>4, <1>5, <1>6

\* The same, of any calls and any visited files.
PendingIn(s, g, q) == \E k \in 1 .. Len(s) : s[k].file = g /\ s[k].next <= q
FollowedIn(V, g, q) ==
    LET i == DataOf(g).public[q]
    IN  i \in DOMAIN DataOf(g).deps /\ DataOf(g).deps[i] \in InPool => DataOf(g).deps[i] \in V

LEMMA PublicInvIn ==
    PublicInv <=>
      /\ frames \in Seq(Resolution!Frame)
      /\ \A k \in 1 .. Len(frames) : frames[k].file \in visited \cap InPool /\ frames[k].file # F
      /\ at \in Nat \ {0}
      /\ \A i \in 1 .. Len(Deps) : i < at => Deps[i] \in visited
      /\ \A g \in visited \cap InPool : g # F =>
            \A q \in 1 .. Len(DataOf(g).public) : PendingIn(frames, g, q) \/ FollowedIn(visited, g, q)
  BY DEF PublicInv, Pending, Followed, PendingIn, FollowedIn

\* A call for d: what it leaves to be followed is pending in its frame.
LEMMA CallFollows ==
    ASSUME job \in Jobs, NEW d \in File, NEW below \in Seq(Resolution!Frame),
           F \in visited, visited \subseteq File,
           \A k \in 1 .. Len(below) : below[k].file \in visited \cap InPool /\ below[k].file # F,
           \A g \in visited \cap InPool : g # F =>
              \A q \in 1 .. Len(DataOf(g).public) :
                 PendingIn(below, g, q) \/ FollowedIn(visited \cup {d}, g, q),
           Resolution!Call(d, below)
    PROVE  /\ visited' = visited \cup {d}
           /\ frames' \in Seq(Resolution!Frame)
           /\ \A k \in 1 .. Len(frames') :
                 frames'[k].file \in visited' \cap InPool /\ frames'[k].file # F
           /\ \A g \in visited' \cap InPool : g # F =>
                 \A q \in 1 .. Len(DataOf(g).public) :
                    PendingIn(frames', g, q) \/ FollowedIn(visited', g, q)
  <1>1. visited' = visited \cup {d}
    BY DEF Resolution!Call
  <1>2. CASE d \in visited \/ d \notin InPool
    <2>1. frames' = below
      BY <1>2 DEF Resolution!Call, InPool
    <2>2. \A g \in visited' \cap InPool : g \in visited \cap InPool
      BY <1>1, <1>2
    <2>. QED  BY <1>1, <2>1, <2>2
  <1>3. CASE d \notin visited /\ d \in InPool
    <2>. DEFINE new == [file |-> d, next |-> 1]
    <2>1. frames' = Append(below, new) /\ new \in Resolution!Frame
      BY <1>3 DEF Resolution!Call, InPool, Resolution!Frame
    <2>2. /\ frames' \in Seq(Resolution!Frame) /\ Len(frames') = Len(below) + 1
          /\ \A k \in 1 .. Len(below) : frames'[k] = below[k]
          /\ frames'[Len(below) + 1] = new /\ Len(below) \in Nat
      <3>. HIDE DEF new
      <3>. QED  BY <2>1, AppendProperties, LenProperties
    <2>3. \A k \in 1 .. Len(frames') : k \in 1 .. Len(below) \/ frames'[k] = new
      BY <2>2
    <2>4. \A k \in 1 .. Len(frames') :
             frames'[k].file \in visited' \cap InPool /\ frames'[k].file # F
      BY <1>1, <1>3, <2>2, <2>3
    <2>5. ASSUME NEW g \in visited' \cap InPool, g # F, NEW q \in 1 .. Len(DataOf(g).public)
          PROVE  PendingIn(frames', g, q) \/ FollowedIn(visited', g, q)
      <3>1. CASE g = d
        <4>1. Len(below) + 1 \in 1 .. Len(frames')
          BY <2>2
        <4>2. new.file = g /\ new.next <= q
          BY <3>1, PoolFacts
        <4>. HIDE DEF new
        <4>. QED  BY <2>2, <4>1, <4>2 DEF PendingIn
      <3>2. CASE g # d
        <4>1. g \in visited \cap InPool
          BY <1>1, <2>5, <3>2
        <4>2. PendingIn(below, g, q) \/ FollowedIn(visited \cup {d}, g, q)
          BY <2>5, <4>1
        <4>3. \A k \in 1 .. Len(below) : k \in 1 .. Len(frames') /\ frames'[k] = below[k]
          BY <2>2
        <4>. QED  BY <1>1, <4>2, <4>3 DEF PendingIn
      <3>. QED  BY <3>1, <3>2
    <2>. QED  BY <1>1, <2>2, <2>4, <2>5
  <1>. QED  BY <1>2, <1>3

LEMMA TableCollectPublic ==
    ASSUME TableInv, Resolution!CollectPublic
    PROVE  TableInv'
  <1>1. /\ job \in Jobs /\ n \in Nat \ {0} /\ n <= Len(job.ordered)
        /\ UNCHANGED <<job, n, pc, types>> /\ pc = "public" /\ frames = <<>>
        /\ at <= Len(Deps) /\ at' = at + 1 /\ Resolution!Call(Deps[at], <<>>)
        /\ TableSound /\ TableGot /\ DirectGot /\ PublicInv
    BY DEF TableInv, Resolution!CollectPublic, Deps
  <1>2. /\ F \in InPool /\ F \in File /\ F \in Seen /\ Len(Deps) \in Nat
        /\ \A i \in 1 .. Len(Deps) : Deps[i] \in InPool => Deps[i] \in Seen
        /\ Deps = DataOf(F).deps
    BY <1>1, FileFacts
  <1>3. /\ F' = F /\ Deps' = Deps /\ InPool' = InPool /\ Seen' = Seen
        /\ \A g : DataOf(g)' = DataOf(g) /\ Decl(g)' = Decl(g)
    BY <1>1, SamePool
  <1>. DEFINE d == Deps[at]
  <1>4. at \in 1 .. Len(Deps) /\ d \in File
    BY <1>1, <1>2, PoolFacts DEF PublicInv
  <1>5. /\ <<>> \in Seq(Resolution!Frame) /\ Len(<<>>) = 0
    BY EmptySeq
  <1>6. /\ visited' = visited \cup {d}
        /\ frames' \in Seq(Resolution!Frame)
        /\ \A k \in 1 .. Len(frames') :
              frames'[k].file \in visited' \cap InPool /\ frames'[k].file # F
        /\ \A g \in visited' \cap InPool : g # F =>
              \A q \in 1 .. Len(DataOf(g).public) :
                 PendingIn(frames', g, q) \/ FollowedIn(visited', g, q)
    <2>1. PICK e \in File : e = d
      BY <1>4
    <2>2. \A g \in visited \cap InPool : g # F =>
              \A q \in 1 .. Len(DataOf(g).public) :
                 PendingIn(<<>>, g, q) \/ FollowedIn(visited \cup {e}, g, q)
      BY <1>1, PublicInvIn DEF FollowedIn
    <2>3. Resolution!Call(e, <<>>)
      BY <1>1, <2>1
    <2>4. F \in visited /\ visited \subseteq File
      BY <1>1 DEF TableGot, TableSound
    <2>5. \A k \in 1 .. Len(<<>>) : <<>>[k].file \in visited \cap InPool /\ <<>>[k].file # F
      BY <1>5
    <2>. HIDE DEF d
    <2>6. /\ visited' = visited \cup {e}
          /\ frames' \in Seq(Resolution!Frame)
          /\ \A k \in 1 .. Len(frames') :
                frames'[k].file \in visited' \cap InPool /\ frames'[k].file # F
          /\ \A g \in visited' \cap InPool : g # F =>
                \A q \in 1 .. Len(DataOf(g).public) :
                   PendingIn(frames', g, q) \/ FollowedIn(visited', g, q)
      BY <1>1, <1>5, <2>2, <2>3, <2>4, <2>5, CallFollows
    <2>. QED  BY <2>1, <2>6
  <1>7. \A i \in 1 .. Len(Deps) : i < at + 1 => Deps[i] \in visited'
    <2>1. \A i \in 1 .. Len(Deps) : i < at + 1 => i < at \/ i = at
      BY <1>4
    <2>. QED  BY <1>1, <1>6, <2>1 DEF PublicInv
  <1>8. PublicInv'
    <2>1. at + 1 \in Nat \ {0}
      BY <1>4
    <2>. QED  BY <1>1, <1>3, <1>6, <1>7, <2>1
              DEF PublicInv, Pending, Followed, PendingIn, FollowedIn
  <1>9. TableSound' /\ TableGot' /\ DirectGot'
    <2>1. d \in InPool => d \in Seen /\ Got(d)
      BY <1>1, <1>2, <1>4 DEF DirectGot
    <2>. HIDE DEF d
    <2>. QED  BY <1>1, <1>3, <1>4, <1>6, <2>1 DEF TableSound, TableGot, DirectGot, Got
  <1>. QED  BY <1>1, <1>3, <1>8, <1>9 DEF TableInv

\* What is below the innermost call, and what it will be next.
LEMMA TopFrame ==
    ASSUME job \in Jobs, PublicInv, visited \subseteq File, frames # <<>>
    PROVE  /\ Len(frames) \in Nat \ {0} /\ Len(frames) \in 1 .. Len(frames)
           /\ Resolution!Top = frames[Len(frames)] /\ Resolution!Top \in Resolution!Frame
           /\ Resolution!Top.file \in visited \cap InPool /\ Resolution!Top.file # F
           /\ Resolution!Top.file \in File /\ Resolution!Top.next \in Nat \ {0}
           /\ Resolution!Below \in Seq(Resolution!Frame)
           /\ Len(Resolution!Below) = Len(frames) - 1
           /\ \A k \in 1 .. Len(frames) - 1 : Resolution!Below[k] = frames[k]
           /\ Resolution!TopData = DataOf(Resolution!Top.file)
  <1>1. frames \in Seq(Resolution!Frame)
    BY DEF PublicInv
  <1>2. Len(frames) \in Nat \ {0} /\ Len(frames) \in 1 .. Len(frames)
    BY <1>1, EmptySeq
  <1>3. /\ Resolution!Below \in Seq(Resolution!Frame)
        /\ Len(Resolution!Below) = Len(frames) - 1
        /\ \A k \in 1 .. Len(frames) - 1 : Resolution!Below[k] = frames[k]
    BY <1>1, AllButLast DEF Resolution!Below
  <1>4. frames[Len(frames)] \in Resolution!Frame
    BY <1>1, <1>2, ElementOfSeq
  <1>5. frames[Len(frames)].file \in visited \cap InPool /\ frames[Len(frames)].file # F
    BY <1>2 DEF PublicInv
  <1>. QED  BY <1>2, <1>3, <1>4, <1>5 DEF Resolution!Top, Resolution!TopData, DataOf, Resolution!Frame

LEMMA TableReturnPublic ==
    ASSUME TableInv, Resolution!ReturnPublic
    PROVE  TableInv'
  <1>1. /\ job \in Jobs /\ n \in Nat \ {0} /\ n <= Len(job.ordered)
        /\ UNCHANGED <<job, n, pc, at, types, visited>> /\ pc = "public" /\ frames # <<>>
        /\ Resolution!Top.next > Len(Resolution!TopData.public)
        /\ frames' = Resolution!Below
        /\ TableSound /\ TableGot /\ DirectGot /\ PublicInv
    BY DEF TableInv, Resolution!ReturnPublic
  <1>2. /\ F' = F /\ Deps' = Deps /\ InPool' = InPool /\ Seen' = Seen
        /\ \A g : DataOf(g)' = DataOf(g) /\ Decl(g)' = Decl(g)
    BY <1>1, SamePool
  <1>. DEFINE L == Len(frames)
  <1>3. /\ L \in Nat \ {0} /\ Resolution!Top = frames[L] /\ Resolution!Top.next \in Nat
        /\ Resolution!Top.file \in File
        /\ frames' \in Seq(Resolution!Frame) /\ Len(frames') = L - 1
        /\ \A k \in 1 .. L - 1 : frames'[k] = frames[k]
        /\ Resolution!TopData = DataOf(Resolution!Top.file)
    BY <1>1, TopFrame DEF TableSound
  <1>4. ASSUME NEW g, NEW q \in 1 .. Len(DataOf(g).public), Pending(g, q)
        PROVE  \E k \in 1 .. Len(frames') : frames'[k].file = g /\ frames'[k].next <= q
    <2>1. PICK k \in 1 .. L : frames[k].file = g /\ frames[k].next <= q
      BY <1>4 DEF Pending
    <2>2. k # L
      <3>1. CASE g = Resolution!Top.file
        <4>1. Len(DataOf(g).public) \in Nat
          BY <1>1, <1>3, <3>1, PoolFacts
        <4>. QED  BY <1>1, <1>3, <2>1, <3>1, <4>1
      <3>2. CASE g # Resolution!Top.file
        BY <1>3, <2>1, <3>2
      <3>. QED  BY <3>1, <3>2
    <2>3. k \in 1 .. L - 1
      BY <1>3, <2>2
    <2>. QED  BY <1>3, <2>1, <2>3
  <1>. HIDE DEF L
  <1>5. PublicInv'
    <2>1. \A k \in 1 .. Len(frames') : frames'[k] = frames[k] /\ k \in 1 .. Len(frames)
      BY <1>3 DEF L
    <2>2. \A k \in 1 .. Len(frames') : frames'[k].file \in visited \cap InPool /\ frames'[k].file # F
      BY <1>1, <2>1 DEF PublicInv
    <2>3. \A g \in visited \cap InPool : g # F =>
             \A q \in 1 .. Len(DataOf(g).public) :
                \/ \E k \in 1 .. Len(frames') : frames'[k].file = g /\ frames'[k].next <= q
                \/ Followed(g, q)
      BY <1>1, <1>4 DEF PublicInv
    <2>. QED  BY <1>1, <1>2, <1>3, <2>2, <2>3 DEF PublicInv, Pending, Followed
  <1>. QED  BY <1>1, <1>2, <1>5 DEF TableInv, TableSound, TableGot, DirectGot, Got

LEMMA TableFollowPublic ==
    ASSUME TableInv, Resolution!FollowPublic
    PROVE  TableInv'
  <1>1. /\ job \in Jobs /\ n \in Nat \ {0} /\ n <= Len(job.ordered)
        /\ UNCHANGED <<job, n, pc, at>> /\ pc = "public" /\ frames # <<>>
        /\ Resolution!Top.next <= Len(Resolution!TopData.public)
        /\ TableSound /\ TableGot /\ DirectGot /\ PublicInv
    BY DEF TableInv, Resolution!FollowPublic
  <1>2. /\ F' = F /\ Deps' = Deps /\ InPool' = InPool /\ Seen' = Seen
        /\ \A g : DataOf(g)' = DataOf(g) /\ Decl(g)' = Decl(g)
    BY <1>1, SamePool
  <1>3. PICK L \in Nat \ {0} : L = Len(frames)
    BY <1>1, TopFrame DEF TableSound
  <1>4. PICK top \in Resolution!Frame : top = Resolution!Top
    BY <1>1, TopFrame DEF TableSound
  <1>5. /\ top = frames[L] /\ top.file \in visited \cap InPool /\ top.file # F /\ top.file \in File
        /\ top.next \in Nat \ {0} /\ Resolution!TopData = DataOf(top.file)
        /\ Resolution!Below \in Seq(Resolution!Frame) /\ Len(Resolution!Below) = L - 1
        /\ \A k \in 1 .. L - 1 : Resolution!Below[k] = frames[k]
    BY <1>1, <1>3, <1>4, TopFrame DEF TableSound
  <1>. DEFINE i == DataOf(top.file).public[top.next]
              after == [file |-> top.file, next |-> top.next + 1]
              rest == Append(Resolution!Below, after)
  <1>6. /\ top.next \in 1 .. Len(DataOf(top.file).public)
        /\ DOMAIN DataOf(top.file).public = 1 .. Len(DataOf(top.file).public)
        /\ \A k \in DOMAIN DataOf(top.file).deps : DataOf(top.file).deps[k] \in File
    <2>1. Len(DataOf(top.file).public) \in Nat
      BY <1>1, <1>5, PoolFacts
    <2>. QED  BY <1>1, <1>4, <1>5, <2>1, PoolFacts
  <1>7. /\ rest \in Seq(Resolution!Frame) /\ Len(rest) = L
        /\ \A k \in 1 .. L : rest[k] = IF k = L THEN after ELSE frames[k]
    <2>1. after \in Resolution!Frame
      BY <1>5 DEF Resolution!Frame
    <2>. HIDE DEF after
    <2>2. /\ rest \in Seq(Resolution!Frame) /\ Len(rest) = Len(Resolution!Below) + 1
          /\ \A k \in 1 .. Len(Resolution!Below) : rest[k] = Resolution!Below[k]
          /\ rest[Len(Resolution!Below) + 1] = after
      BY <1>5, <2>1, AppendProperties
    <2>. HIDE DEF rest
    <2>3. Len(rest) = L /\ rest[L] = after /\ \A k \in 1 .. L - 1 : rest[k] = frames[k]
      BY <1>3, <1>5, <2>2
    <2>4. \A k \in 1 .. L : k # L => k \in 1 .. L - 1
      BY <1>3
    <2>. QED  BY <2>2, <2>3, <2>4
  <1>8. PICK below \in Seq(Resolution!Frame) : below = rest
    BY <1>7
  <1>9. /\ Len(below) = L
        /\ \A k \in 1 .. L : below[k] = IF k = L THEN after ELSE frames[k]
    <2>. HIDE DEF rest, after
    <2>. QED  BY <1>7, <1>8
  <1>10. IF i \notin DOMAIN DataOf(top.file).deps
         THEN frames' = below /\ UNCHANGED <<types, visited>>
         ELSE /\ types' = IF DataOf(top.file).deps[i] \in InPool
                          THEN Resolution!Merge(types, Resolution!Declared(job, DataOf(top.file).deps[i]))
                          ELSE types
              /\ Resolution!Call(DataOf(top.file).deps[i], below)
    BY <1>4, <1>5, <1>8 DEF Resolution!FollowPublic, InPool
  <1>11. \A k \in 1 .. Len(below) : below[k].file \in visited \cap InPool /\ below[k].file # F
    BY <1>1, <1>3, <1>5, <1>9 DEF PublicInv
  <1>12. ASSUME NEW V, visited \subseteq V,
                i \in DOMAIN DataOf(top.file).deps => DataOf(top.file).deps[i] \in V,
                NEW g \in visited \cap InPool, g # F, NEW q \in 1 .. Len(DataOf(g).public)
         PROVE  PendingIn(below, g, q) \/ FollowedIn(V, g, q)
    <2>1. CASE Followed(g, q)
      BY <1>12, <2>1 DEF Followed, FollowedIn
    <2>2. CASE Pending(g, q)
      <3>1. PICK k \in 1 .. L : frames[k].file = g /\ frames[k].next <= q
        BY <1>3, <2>2 DEF Pending
      <3>2. CASE k # L
        BY <1>9, <3>1, <3>2 DEF PendingIn
      <3>3. CASE k = L /\ q = top.next
        BY <1>5, <1>12, <3>1, <3>3 DEF FollowedIn
      <3>4. CASE k = L /\ q # top.next
        <4>1. g \in File /\ q \in Nat
          BY <1>1, <1>12, PoolFacts
        <4>2. below[L].file = g /\ below[L].next <= q
          BY <1>5, <1>9, <3>1, <3>4, <4>1
        <4>. QED  BY <1>9, <3>4, <4>2 DEF PendingIn
      <3>. QED  BY <3>2, <3>3, <3>4
    <2>. QED  BY <1>1, <1>12, <2>1, <2>2 DEF PublicInv
  <1>13. CASE i \notin DOMAIN DataOf(top.file).deps
    <2>1. frames' = below /\ UNCHANGED <<types, visited>>
      BY <1>10, <1>13
    <2>2. \A g \in visited \cap InPool : g # F =>
             \A q \in 1 .. Len(DataOf(g).public) : PendingIn(below, g, q) \/ FollowedIn(visited, g, q)
      BY <1>12, <1>13
    <2>3. PublicInv'
      BY <1>1, <1>2, <1>11, <2>1, <2>2 DEF PublicInv, Pending, Followed, PendingIn, FollowedIn
    <2>. QED  BY <1>1, <1>2, <2>1, <2>3 DEF TableInv, TableSound, TableGot, DirectGot, Got
  <1>14. CASE i \in DOMAIN DataOf(top.file).deps
    <2>1. PICK d \in File : d = DataOf(top.file).deps[i]
      BY <1>6, <1>14
    <2>2. /\ types' = IF d \in InPool THEN Resolution!Merge(types, Resolution!Declared(job, d)) ELSE types
          /\ Resolution!Call(d, below)
      BY <1>10, <1>14, <2>1
    <2>3. \A g \in visited \cap InPool : g # F =>
             \A q \in 1 .. Len(DataOf(g).public) :
                PendingIn(below, g, q) \/ FollowedIn(visited \cup {d}, g, q)
      BY <1>12, <2>1
    <2>4. F \in visited /\ visited \subseteq File
      BY <1>1 DEF TableGot, TableSound
    <2>5. /\ visited' = visited \cup {d}
          /\ frames' \in Seq(Resolution!Frame)
          /\ \A k \in 1 .. Len(frames') :
                frames'[k].file \in visited' \cap InPool /\ frames'[k].file # F
          /\ \A g \in visited' \cap InPool : g # F =>
                \A q \in 1 .. Len(DataOf(g).public) :
                   PendingIn(frames', g, q) \/ FollowedIn(visited', g, q)
      BY <1>1, <1>11, <2>2, <2>3, <2>4, CallFollows
    <2>6. PublicInv'
      BY <1>1, <1>2, <2>5 DEF PublicInv, Pending, Followed, PendingIn, FollowedIn
    <2>7. d \in InPool => d \in Seen
      <3>. SUFFICES ASSUME d \in InPool PROVE d \in Seen
        OBVIOUS
      <3>1. i \in Resolution!Range(DataOf(top.file).public)
        BY <1>6 DEF Resolution!Range
      <3>2. d \in Public(top.file)
        <4>. HIDE DEF i
        <4>. QED  BY <1>14, <2>1, <3>1 DEF Public, Resolution!PublicDeps, InPool, DataOf
      <3>3. top.file \in Seen /\ F \in InPool
        BY <1>1, <1>5, FileFacts DEF TableSound
      <3>. QED  BY <1>1, <1>5, <3>2, <3>3, VisibleClosed
    <2>8. TableSound' /\ TableGot' /\ DirectGot'
      <3>1. CASE d \in InPool
        <4>1. /\ DOMAIN types' = DOMAIN types \cup DOMAIN Decl(d)
              /\ \A x \in DOMAIN types' : \E h \in Seen : x \in DOMAIN Decl(h) /\ types'[x] = Decl(h)[x]
          BY <1>1, <2>2, <2>7, <3>1, MergeSound
        <4>. QED  BY <1>1, <1>2, <2>5, <2>7, <3>1, <4>1 DEF TableSound, TableGot, DirectGot, Got
      <3>2. CASE d \notin InPool
        BY <1>1, <1>2, <2>2, <2>5, <3>2 DEF TableSound, TableGot, DirectGot, Got
      <3>. QED  BY <3>1, <3>2
    <2>. QED  BY <1>1, <1>2, <2>6, <2>8 DEF TableInv
  <1>. QED  BY <1>13, <1>14

\* When all calls have returned, all that can be seen has been visited.
LEMMA TableEndCollection ==
    ASSUME TableInv, Resolution!EndCollection
    PROVE  TableInv'
  <1>1. /\ job \in Jobs /\ n \in Nat \ {0} /\ n <= Len(job.ordered)
        /\ UNCHANGED <<job, n, types, visited, frames>> /\ pc = "public" /\ pc' = "refs"
        /\ frames = <<>> /\ at > Len(Deps)
        /\ TableSound /\ TableGot /\ DirectGot /\ PublicInv
    BY DEF TableInv, Resolution!EndCollection, Deps
  <1>2. /\ F' = F /\ Deps' = Deps /\ InPool' = InPool /\ Seen' = Seen
        /\ \A g : DataOf(g)' = DataOf(g) /\ Decl(g)' = Decl(g)
    BY <1>1, SamePool
  <1>3. F \in InPool /\ F \in File /\ Deps = DataOf(F).deps /\ Len(Deps) \in Nat
    BY <1>1, FileFacts
  <1>. DEFINE S == visited \cap InPool
  <1>4. S \in SUBSET File
    BY <1>1 DEF TableSound
  <1>5. Direct \subseteq S
    <2>1. \A k \in 1 .. Len(Deps) : Deps[k] \in visited
      BY <1>1, <1>3 DEF PublicInv
    <2>2. DOMAIN Deps = 1 .. Len(Deps)
      BY <1>1, <1>3, PoolFacts
    <2>. QED  BY <1>1, <1>3, <2>1, <2>2 DEF Direct, TableGot, Resolution!Range
  <1>6. ASSUME NEW h \in S, h # F, NEW x \in Public(h) PROVE x \in S
    <2>1. x \in InPool
      BY <1>6 DEF Public, Resolution!PublicDeps, InPool
    <2>2. PICK i \in DOMAIN DataOf(h).deps :
             i \in Resolution!Range(DataOf(h).public) /\ x = DataOf(h).deps[i]
      BY <1>6 DEF Public, Resolution!PublicDeps, DataOf
    <2>3. PICK q \in DOMAIN DataOf(h).public : i = DataOf(h).public[q]
      BY <2>2 DEF Resolution!Range
    <2>4. q \in 1 .. Len(DataOf(h).public)
      BY <1>1, <1>4, <1>6, <2>3, PoolFacts
    <2>5. Pending(h, q) \/ Followed(h, q)
      BY <1>1, <1>6, <2>4 DEF PublicInv
    <2>6. ~ Pending(h, q)
      <3>1. Len(frames) = 0
        BY <1>1, EmptySeq
      <3>. QED  BY <3>1 DEF Pending
    <2>. QED  BY <2>1, <2>2, <2>3, <2>5, <2>6 DEF Followed
  <1>7. Seen \subseteq S
    <2>. HIDE DEF S
    <2>. QED  BY <1>1, <1>4, <1>5, <1>6, VisibleLeast
  <1>8. DOMAIN types = UNION {DOMAIN Decl(g) : g \in Seen}
    <2>1. \A g \in Seen : DOMAIN Decl(g) \subseteq DOMAIN types
      BY <1>1, <1>7 DEF TableGot, Got
    <2>2. \A x \in DOMAIN types : \E g \in Seen : x \in DOMAIN Decl(g)
      BY <1>1 DEF TableSound
    <2>. QED  BY <2>1, <2>2
  <1>9. Resolution!TableIsVisible'
    <2>1. DOMAIN types = Resolution!VisibleTypes(job, F)
      BY <1>8 DEF Resolution!VisibleTypes, Decl, Seen
    <2>. QED  BY <1>1, <1>2, <2>1 DEF Resolution!TableIsVisible, F
  <1>. QED  BY <1>1, <1>2, <1>9 DEF TableInv, TableSound, TableGot, Got

LEMMA TableStep ==
    ASSUME TableInv, [Next]_vars
    PROVE  TableInv'
  <1>1. ASSUME UNCHANGED <<job, n, pc, at, types, visited, frames>> PROVE TableInv'
    <2>1. /\ F' = F /\ Deps' = Deps /\ InPool' = InPool /\ Seen' = Seen
          /\ \A g : DataOf(g)' = DataOf(g) /\ Decl(g)' = Decl(g)
      BY <1>1, SamePool
    <2>. QED  BY <1>1, <2>1 DEF TableInv, TableSound, TableGot, DirectGot, Got, PublicInv, Pending,
              Followed, Resolution!TableIsVisible, F
  <1>2. CASE Resolve
    <2>1. CASE Resolution!ResolveRef
      <3>1. UNCHANGED <<job, n, pc, types, visited, frames>> /\ pc = "refs"
        BY <2>1 DEF Resolution!ResolveRef
      <3>2. /\ F' = F /\ Deps' = Deps /\ InPool' = InPool /\ Seen' = Seen
            /\ \A g : DataOf(g)' = DataOf(g) /\ Decl(g)' = Decl(g)
        BY <3>1, SamePool
      <3>. QED  BY <3>1, <3>2 DEF TableInv, TableSound, TableGot, Got, Resolution!TableIsVisible, F
    <2>2. CASE Resolution!EndFile
      <3>1. /\ UNCHANGED <<job, types, visited>> /\ n' = n + 1 /\ pc = "refs" /\ pc' = "file"
            /\ frames' = frames
        BY <2>2 DEF Resolution!EndFile
      <3>. QED  BY <3>1 DEF TableInv
    <2>3. CASE Resolution!EndFiles
      BY <2>3 DEF Resolution!EndFiles, TableInv
    <2>. QED  BY <1>2, <2>1, <2>2, <2>3, TableStart, TableDirect, TableCollectPublic,
              TableFollowPublic, TableReturnPublic, TableEndCollection DEF Resolve, Resolution!Next
  <1>3. CASE Check \/ DetectUnused \/ Terminated \/ UNCHANGED vars
    BY <1>1, <1>3 DEF Check, DetectUnused, Terminated, Unresolved!CheckRef, Unused!CheckFile,
       resolutionVars, vars
  <1>. QED  BY <1>2, <1>3 DEF Next

\* While the table of a file is collected, it holds types the file can see, and all of
\* those that no pending call of collectPublicImportTypes will still reach.
THEOREM TableInvariance == Spec => []TableInv
  <1>1. Init => TableInv
    BY DEF Init, Resolution!Init, TableInv
  <1>2. TableInv /\ [Next]_vars => TableInv'
    BY TableStep
  <1>. QED  BY <1>1, <1>2, PTL DEF Spec

\* Depth-first collection ends up with exactly the types a file can see, whatever the
\* public imports of the files are.
THEOREM TableIsComplete == Spec => []TableIsVisible
  <1>1. TableInv => TableIsVisible
    BY DEF TableInv, TableIsVisible, Resolution!TableIsVisible
  <1>. QED  BY <1>1, TableInvariance, PTL

-------------------------------------------------------------------------------
(* What references resolve to. *)

LEMMA MaxOf ==
    ASSUME NEW S \in SUBSET Nat, S # {}, NEW b \in Nat, \A k \in S : k <= b
    PROVE  Resolution!Max(S) \in S /\ \A k \in S : k <= Resolution!Max(S)
  <1>1. \E m \in S : \A k \in S : k <= m
    BY GreatestNat
  <1>2. \E m \in S : \A k \in S : m >= k
    BY <1>1
  <1>. QED  BY <1>2 DEF Resolution!Max

\* The names at the scopes around a reference that are declared, and the scopes where a
\* type of its first part stops the search.
Whole(scope, ref, table) ==
    {k \in 0 .. Len(scope) : Resolution!Outer(scope, k) \o ref.name \in table}
First(scope, ref, table) ==
    {k \in 1 .. Len(scope) : Resolution!Outer(scope, k) \o <<Head(ref.name)>> \in table}

\* The search stops at the innermost scope that has the name, if a nearer one has no
\* type of its first part.
LEMMA LookupInnermost ==
    ASSUME NEW scope, Len(scope) \in Nat, NEW ref, NEW table, ref.absolute = FALSE,
           Whole(scope, ref, DOMAIN table) # {},
           Resolution!Max(First(scope, ref, DOMAIN table) \cup {0})
              <= Resolution!Max(Whole(scope, ref, DOMAIN table))
    PROVE  Resolution!Lookup(ref, scope, table) =
              Resolution!Outer(scope, Resolution!Max(Whole(scope, ref, DOMAIN table))) \o ref.name
  <1>. DEFINE W == Whole(scope, ref, DOMAIN table)
              G == First(scope, ref, DOMAIN table) \cup {0}
              K == Resolution!Max(W)
              T == {0} \cup {k \in 1 .. Len(scope) : Resolution!Stops(scope, ref.name, table, k)}
  <1>1. /\ W \in SUBSET Nat /\ G \in SUBSET Nat /\ T \in SUBSET Nat
        /\ W # {} /\ G # {} /\ T # {} /\ Len(scope) \in Nat
        /\ \A k \in W : k <= Len(scope)
        /\ \A k \in G : k <= Len(scope)
        /\ \A k \in T : k <= Len(scope)
    BY DEF Whole, First
  <1>2. K \in W /\ \A k \in W : k <= K
    <2>. HIDE DEF W
    <2>. QED  BY <1>1, MaxOf
  <1>3. \A k \in G : k <= K
    <2>1. Resolution!Max(G) \in G /\ \A k \in G : k <= Resolution!Max(G)
      <3>. HIDE DEF G
      <3>. QED  BY <1>1, MaxOf
    <2>2. Resolution!Max(G) <= K /\ K \in Nat
      BY <1>1, <1>2
    <2>. SUFFICES ASSUME NEW k \in G PROVE k <= K
      OBVIOUS
    <2>3. k \in Nat /\ Resolution!Max(G) \in Nat /\ k <= Resolution!Max(G)
      <3>. HIDE DEF G
      <3>. QED  BY <1>1, <2>1
    <2>. HIDE DEF G, K
    <2>. QED  BY <2>2, <2>3
  <1>4. K \in T
    <2>. HIDE DEF K
    <2>. QED  BY <1>2 DEF Whole, Resolution!Stops
  <1>5. \A k \in T : k <= K
    <2>1. \A k \in T : k \in W \cup G
      BY DEF Resolution!Stops, Whole, First
    <2>. QED  BY <1>2, <1>3, <2>1
  <1>6. Resolution!Max(T) = K
    <2>1. Resolution!Max(T) \in T /\ \A k \in T : k <= Resolution!Max(T)
      <3>. HIDE DEF T
      <3>. QED  BY <1>1, MaxOf
    <2>2. Resolution!Max(T) \in Nat /\ K \in Nat /\ Resolution!Max(T) <= K /\ K <= Resolution!Max(T)
      <3>. HIDE DEF T, K
      <3>. QED  BY <1>1, <1>4, <1>5, <2>1
    <2>. HIDE DEF T, K
    <2>. QED  BY <2>2
  <1>7. Resolution!StopAt(scope, ref.name, table) = K
    BY <1>6 DEF Resolution!StopAt
  <1>8. Resolution!Outer(scope, K) \o ref.name \in DOMAIN table
    <2>. HIDE DEF K
    <2>. QED  BY <1>2 DEF Whole
  <1>. HIDE DEF K
  <1>. QED  BY <1>7, <1>8 DEF Resolution!Lookup, K

-------------------------------------------------------------------------------
(* The inductive invariant of what has been resolved. *)

RefOf(g, i) == DataOf(g).refs[i]

\* Reference i of g has become the innermost declaration of its name, if no nearer type
\* of the first part stops the search.
Innermost(g, i) ==
    LET ref == RefOf(g, i)
        scope == Resolution!Scope(job, g, ref)
        table == Resolution!VisibleTypes(job, g)
    IN  /\ ref.absolute = FALSE /\ Whole(scope, ref, table) # {}
        /\ Resolution!Max(First(scope, ref, table) \cup {0}) <= Resolution!Max(Whole(scope, ref, table))
        => resolved[g][i].name =
              Resolution!Outer(scope, Resolution!Max(Whole(scope, ref, table))) \o ref.name

\* It is the name of a type that g can see, of the right kind.
Sound(g, i) ==
    LET role == RefOf(g, i).role
    IN  role # "group" =>
          \E h \in Resolution!Visible(job, g) :
             /\ resolved[g][i].name \in DOMAIN Decl(h)
             /\ role \in {"extendee", "method"} => Decl(h)[resolved[g][i].name] = "message"
             /\ role \in {"field", "value", "extension"} => Decl(h)[resolved[g][i].name] = resolved[g][i].kind

\* How far the references of the ordered files have been resolved.
Reached(m) ==
    IF m < n THEN Len(DataOf(job.ordered[m]).refs)
    ELSE IF m = n /\ pc = "refs" THEN at - 1
    ELSE 0

ResolvedInv ==
    /\ DOMAIN resolved = File
    /\ \A g \in File : \E S : resolved[g] \in Seq(S)
    /\ pc = "refs" => at \in Nat \ {0} /\ at <= Len(Resolution!Refs) + 1
    /\ pc = "done" => n > Len(job.ordered)
    /\ \A m \in 1 .. Len(job.ordered) : Len(resolved[job.ordered[m]]) = Reached(m)
    /\ \A g \in InPool : \A i \in 1 .. Len(resolved[g]) :
          /\ Innermost(g, i)
          /\ errors = {} /\ DataOf(g).located => Sound(g, i)

LEMMA ResolvedRef ==
    ASSUME TableInv, ResolvedInv, Resolution!ResolveRef
    PROVE  ResolvedInv'
  <1>1. /\ job \in Jobs /\ n \in Nat \ {0} /\ n <= Len(job.ordered) /\ n \in 1 .. Len(job.ordered)
        /\ UNCHANGED <<job, n, pc, types>> /\ pc = "refs" /\ at' = at + 1
        /\ at \in Nat \ {0} /\ at <= Len(Resolution!Refs)
        /\ TableSound /\ Resolution!TableIsVisible
    BY PoolFacts DEF TableInv, ResolvedInv, Resolution!ResolveRef
  <1>2. /\ F \in InPool /\ F \in File /\ InPool \subseteq File /\ Len(DataOf(F).refs) \in Nat
        /\ Resolution!Refs = DataOf(F).refs
        /\ \A m \in 1 .. Len(job.ordered) : job.ordered[m] = F => m = n
        /\ job.ordered[n] = F /\ \A m \in 1 .. Len(job.ordered) : job.ordered[m] \in File
    BY <1>1, FileFacts, PoolFacts DEF Resolution!Refs, DataOf, F, Resolution!TheFile
  <1>3. /\ F' = F /\ InPool' = InPool
        /\ \A g : DataOf(g)' = DataOf(g) /\ Decl(g)' = Decl(g)
    BY <1>1, SamePool
  <1>. DEFINE ref == RefOf(F, at)
              scope == Resolution!Scope(job, F, ref)
              found == Resolution!Lookup(ref, scope, types)
              new == [name |-> found, kind |-> Resolution!StatedKind(ref, found)]
              faults == Resolution!Faults(ref, found, Resolution!Shadowed(ref, scope, types))
  <1>4. /\ resolved' = [resolved EXCEPT ![F] = Append(resolved[F], new)]
        /\ errors' = errors \cup {[file |-> F, ref |-> at, kind |-> k] : k \in faults}
    BY <1>2 DEF Resolution!ResolveRef, RefOf, F
  <1>5. PICK S : resolved[F] \in Seq(S)
    BY <1>2 DEF ResolvedInv
  <1>6. PICK r : r = new
    OBVIOUS
  <1>7. /\ Append(resolved[F], r) \in Seq(S \cup {r})
        /\ Len(Append(resolved[F], r)) = Len(resolved[F]) + 1
        /\ \A i \in 1 .. Len(resolved[F]) : Append(resolved[F], r)[i] = resolved[F][i]
        /\ Append(resolved[F], r)[Len(resolved[F]) + 1] = r
        /\ Len(resolved[F]) \in Nat
    <2>1. resolved[F] \in Seq(S \cup {r})
      <3>1. /\ Len(resolved[F]) \in Nat /\ resolved[F] = [k \in 1 .. Len(resolved[F]) |-> resolved[F][k]]
            /\ \A k \in 1 .. Len(resolved[F]) : resolved[F][k] \in S
        BY <1>5, LenProperties, ElementOfSeq
      <3>. QED  BY <3>1
    <2>. QED  BY <2>1, AppendProperties, LenProperties
  <1>8. Len(resolved[F]) = at - 1
    <2>1. Len(resolved[job.ordered[n]]) = Reached(n)
      BY <1>1 DEF ResolvedInv
    <2>2. Reached(n) = at - 1
      BY <1>1 DEF Reached
    <2>. QED  BY <1>2, <2>1, <2>2
  <1>9. /\ DOMAIN resolved' = File
        /\ resolved'[F] = Append(resolved[F], r)
        /\ \A g \in File : g # F => resolved'[g] = resolved[g]
    <2>. HIDE DEF new
    <2>. QED  BY <1>2, <1>4, <1>6 DEF ResolvedInv
  <1>10. /\ Len(resolved'[F]) = at /\ resolved'[F][at] = r
         /\ \A i \in 1 .. Len(resolved'[F]) :
               i # at => i \in 1 .. Len(resolved[F]) /\ resolved'[F][i] = resolved[F][i]
    BY <1>1, <1>7, <1>8, <1>9
  <1>11. \A g \in File : \E T : resolved'[g] \in Seq(T)
    BY <1>7, <1>9 DEF ResolvedInv
  <1>12. at' \in Nat \ {0} /\ at' <= Len(DataOf(F).refs) + 1
    BY <1>1, <1>2
  <1>13. ASSUME NEW m \in 1 .. Len(job.ordered)
         PROVE  Len(resolved'[job.ordered[m]]) = IF m < n THEN Len(DataOf(job.ordered[m]).refs)
                                                 ELSE IF m = n THEN at' - 1 ELSE 0
    <2>1. CASE m = n
      BY <1>1, <1>2, <1>10, <2>1
    <2>2. CASE m # n
      <3>1. resolved'[job.ordered[m]] = resolved[job.ordered[m]]
        BY <1>2, <1>9, <2>2
      <3>. QED  BY <2>2, <3>1 DEF ResolvedInv, Reached
    <2>. QED  BY <2>1, <2>2
  <1>14. DOMAIN types = Resolution!VisibleTypes(job, F)
    BY <1>1 DEF Resolution!TableIsVisible, F
  <1>15. Len(scope) \in Nat /\ r.name = found /\ r.kind = Resolution!StatedKind(ref, found)
    <2>1. ref \in Resolution!Reference
      <3>1. DataOf(F).refs \in Seq(Resolution!Reference) /\ at \in 1 .. Len(DataOf(F).refs)
        BY <1>1, <1>2, PoolFacts
      <3>. QED  BY <3>1, ElementOfSeq DEF RefOf
    <2>2. ref.scope \in Seq(Ident)
      BY <2>1 DEF Resolution!Reference, Resolution!Name
    <2>3. job.files[F].package \in Seq(Ident)
      BY <1>1, <1>2, PoolFacts DEF Resolution!IsFileData, Resolution!Name
    <2>4. scope \in Seq(Ident)
      <3>. HIDE DEF ref
      <3>. QED  BY <2>2, <2>3, ConcatProperties DEF Resolution!Scope
    <2>. HIDE DEF scope, ref, found
    <2>. QED  BY <1>6, <2>4, LenProperties
  <1>16. /\ ref.absolute = FALSE /\ Whole(scope, ref, DOMAIN types) # {}
         /\ Resolution!Max(First(scope, ref, DOMAIN types) \cup {0})
               <= Resolution!Max(Whole(scope, ref, DOMAIN types))
         => r.name = Resolution!Outer(scope, Resolution!Max(Whole(scope, ref, DOMAIN types)))
                        \o ref.name
    <2>. HIDE DEF scope, ref
    <2>. QED  BY <1>15, LookupInnermost DEF found
  <1>17. ASSUME errors' = {}, DataOf(F).located, ref.role # "group"
         PROVE  \E h \in Seen :
                  /\ r.name \in DOMAIN Decl(h)
                  /\ ref.role \in {"extendee", "method"} => Decl(h)[r.name] = "message"
                  /\ ref.role \in {"field", "value", "extension"} => Decl(h)[r.name] = r.kind
    <2>1. faults = {}
      <3>. HIDE DEF faults
      <3>. QED  BY <1>4, <1>17
    <2>2. found \in DOMAIN types
      <3>. HIDE DEF found, ref, scope
      <3>. QED  BY <1>17, <2>1 DEF Resolution!Faults, Resolution!Positioned, DataOf, F
    <2>3. PICK h \in Seen : found \in DOMAIN Decl(h) /\ types[found] = Decl(h)[found]
      <3>. HIDE DEF found
      <3>. QED  BY <1>1, <2>2 DEF TableSound
    <2>4. Decl(h)[found] \in {"message", "enum"}
      <3>1. h \in File
        BY <1>1, <1>2, <2>3, VisibleClosed
      <3>. HIDE DEF found
      <3>. QED  BY <1>1, <2>3, <3>1, DeclaredKinds DEF Resolution!Kind
    <2>5. ref.role \in {"extendee", "method"} => types[found] # "enum"
      <3>. HIDE DEF found, ref, scope
      <3>. QED  BY <1>17, <2>1, <2>2 DEF Resolution!Faults, Resolution!Positioned, DataOf, F
    <2>6. ref.role \in {"field", "value", "extension"} => r.kind = types[found]
      <3>. HIDE DEF found, ref, scope
      <3>. QED  BY <1>15, <2>2 DEF Resolution!StatedKind
    <2>. HIDE DEF found, ref, scope
    <2>. QED  BY <1>15, <2>3, <2>4, <2>5, <2>6
  <1>. HIDE DEF new, found, faults
  <1>18. ASSUME NEW g \in InPool, NEW i \in 1 .. Len(resolved'[g]),
                g # F \/ i # at
         PROVE  Innermost(g, i)' /\ (errors' = {} /\ DataOf(g).located => Sound(g, i)')
    <2>1. i \in 1 .. Len(resolved[g]) /\ resolved'[g][i] = resolved[g][i]
      BY <1>2, <1>9, <1>10, <1>18
    <2>2. Innermost(g, i) /\ (errors' = {} /\ DataOf(g).located => Sound(g, i))
      BY <1>4, <2>1 DEF ResolvedInv
    <2>. QED  BY <1>1, <1>3, <2>1, <2>2 DEF Innermost, Sound, RefOf
  <1>19. PICK g \in File, i \in Nat : g = F /\ i = at
    BY <1>1, <1>2
  <1>20. Innermost(g, i)' /\ (errors' = {} /\ DataOf(g).located => Sound(g, i)')
    <2>1. /\ resolved'[g][i] = r /\ RefOf(g, i) = ref /\ RefOf(g, i)' = ref
          /\ Resolution!Scope(job, g, ref) = scope /\ Resolution!Visible(job, g) = Seen
          /\ DOMAIN types = Resolution!VisibleTypes(job, g) /\ job' = job
      BY <1>1, <1>3, <1>10, <1>14, <1>19 DEF RefOf, Seen
    <2>2. Innermost(g, i)'
      <3>. HIDE DEF ref, scope
      <3>. QED  BY <1>16, <2>1 DEF Innermost
    <2>3. errors' = {} /\ DataOf(g).located => Sound(g, i)'
      <3>. HIDE DEF ref, scope
      <3>. QED  BY <1>3, <1>17, <1>19, <2>1 DEF Sound
    <2>. QED  BY <2>2, <2>3
  <1>21. \A h \in InPool : \A k \in 1 .. Len(resolved'[h]) :
           Innermost(h, k)' /\ (errors' = {} /\ DataOf(h).located => Sound(h, k)')
    <2>. SUFFICES ASSUME NEW h \in InPool, NEW k \in 1 .. Len(resolved'[h])
                  PROVE  Innermost(h, k)' /\ (errors' = {} /\ DataOf(h).located => Sound(h, k)')
      OBVIOUS
    <2>1. CASE h = g /\ k = i
      BY <1>20, <2>1
    <2>2. CASE ~ (h = g /\ k = i)
      BY <1>18, <1>19, <2>2
    <2>. QED  BY <2>1, <2>2
  <1>. HIDE DEF ref, scope
  <1>22. Resolution!Refs' = Resolution!Refs
    BY <1>1 DEF Resolution!Refs, Resolution!TheFile
  <1>. QED  BY <1>1, <1>2, <1>3, <1>9, <1>11, <1>12, <1>13, <1>21, <1>22
            DEF ResolvedInv, Reached

\* Steps that resolve nothing, but for going to the next file.
LEMMA ResolvedSame ==
    ASSUME TableInv, ResolvedInv, UNCHANGED <<job, n, resolved, errors>>,
           \/ pc # "refs" /\ pc' # "refs"
           \/ pc # "refs" /\ pc' = "refs" /\ at' = 1 /\ n <= Len(job.ordered)
           \/ pc' = pc /\ at' = at,
           pc' = "done" => n > Len(job.ordered)
    PROVE  ResolvedInv'
  <1>1. job \in Jobs /\ n \in Nat \ {0}
    BY DEF TableInv
  <1>2. /\ F' = F /\ InPool' = InPool
        /\ \A g : DataOf(g)' = DataOf(g) /\ Decl(g)' = Decl(g)
    BY SamePool
  <1>3. Resolution!Refs' = Resolution!Refs
    BY DEF Resolution!Refs, Resolution!TheFile
  <1>4. pc' = "refs" => at' \in Nat \ {0} /\ at' <= Len(Resolution!Refs) + 1
    <2>1. CASE pc' = "refs" /\ at' = 1 /\ n <= Len(job.ordered)
      <3>1. Len(Resolution!Refs) \in Nat
        BY <1>1, <2>1, FileFacts, PoolFacts DEF Resolution!Refs, F, DataOf
      <3>. QED  BY <2>1, <3>1
    <2>2. CASE pc' = pc /\ at' = at
      BY <2>2 DEF ResolvedInv
    <2>. QED  BY <2>1, <2>2
  <1>5. \A m \in 1 .. Len(job.ordered) :
           Reached(m) = IF m < n THEN Len(DataOf(job.ordered[m]).refs)
                        ELSE IF m = n /\ pc' = "refs" THEN at' - 1 ELSE 0
    BY DEF Reached
  <1>6. \A m \in 1 .. Len(job.ordered) :
           Len(resolved[job.ordered[m]]) = IF m < n THEN Len(DataOf(job.ordered[m]).refs)
                        ELSE IF m = n /\ pc' = "refs" THEN at' - 1 ELSE 0
    BY <1>5 DEF ResolvedInv
  <1>7. \A g \in InPool : \A i \in 1 .. Len(resolved'[g]) :
           Innermost(g, i)' /\ (errors' = {} /\ DataOf(g).located => Sound(g, i)')
    <2>1. ASSUME NEW g, NEW i
          PROVE  Innermost(g, i)' = Innermost(g, i) /\ Sound(g, i)' = Sound(g, i)
      <3>1. RefOf(g, i)' = RefOf(g, i) /\ job' = job /\ resolved' = resolved
        BY <1>2 DEF RefOf, DataOf
      <3>. QED  BY <3>1, <1>2 DEF Innermost, Sound
    <2>. QED  BY <2>1 DEF ResolvedInv
  <1>8. DOMAIN resolved = File /\ \A g \in File : \E S : resolved[g] \in Seq(S)
    BY DEF ResolvedInv
  <1>9. pc' = "done" => n' > Len(job'.ordered)
    OBVIOUS
  <1>. QED  BY <1>2, <1>3, <1>4, <1>6, <1>7, <1>8, <1>9 DEF ResolvedInv, Reached

LEMMA ResolvedEndFile ==
    ASSUME TableInv, ResolvedInv, Resolution!EndFile
    PROVE  ResolvedInv'
  <1>1. /\ job \in Jobs /\ n \in Nat \ {0} /\ n <= Len(job.ordered) /\ n \in 1 .. Len(job.ordered)
        /\ UNCHANGED <<job, at, resolved, errors>> /\ pc = "refs" /\ pc' = "file" /\ n' = n + 1
        /\ at > Len(Resolution!Refs) /\ at \in Nat \ {0} /\ at <= Len(Resolution!Refs) + 1
    BY PoolFacts DEF TableInv, ResolvedInv, Resolution!EndFile
  <1>2. /\ Len(DataOf(F).refs) \in Nat /\ Resolution!Refs = DataOf(F).refs /\ job.ordered[n] = F
    BY <1>1, FileFacts, PoolFacts DEF Resolution!Refs, DataOf, F, Resolution!TheFile
  <1>3. InPool' = InPool /\ \A g : DataOf(g)' = DataOf(g) /\ Decl(g)' = Decl(g)
    BY <1>1 DEF InPool, DataOf, Decl
  <1>4. ASSUME NEW m \in 1 .. Len(job.ordered)
        PROVE  Reached(m) = IF m < n + 1 THEN Len(DataOf(job.ordered[m]).refs) ELSE 0
    <2>1. CASE m = n
      BY <1>1, <1>2, <2>1 DEF Reached
    <2>2. CASE m # n
      BY <1>1, <2>2 DEF Reached
    <2>. QED  BY <2>1, <2>2
  <1>5. \A m \in 1 .. Len(job.ordered) :
           Len(resolved[job.ordered[m]])
              = IF m < n + 1 THEN Len(DataOf(job.ordered[m]).refs) ELSE 0
    BY <1>4 DEF ResolvedInv
  <1>6. \A g \in InPool : \A i \in 1 .. Len(resolved'[g]) :
           Innermost(g, i)' /\ (errors' = {} /\ DataOf(g).located => Sound(g, i)')
    <2>1. ASSUME NEW g, NEW i
          PROVE  Innermost(g, i)' = Innermost(g, i) /\ Sound(g, i)' = Sound(g, i)
      <3>1. RefOf(g, i)' = RefOf(g, i) /\ job' = job /\ resolved' = resolved
        BY <1>1, <1>3 DEF RefOf, DataOf
      <3>. QED  BY <3>1, <1>3 DEF Innermost, Sound
    <2>. QED  BY <1>1, <2>1 DEF ResolvedInv
  <1>7. DOMAIN resolved = File /\ \A g \in File : \E S : resolved[g] \in Seq(S)
    BY DEF ResolvedInv
  <1>. QED  BY <1>1, <1>3, <1>5, <1>6, <1>7 DEF ResolvedInv, Reached

LEMMA ResolvedStep ==
    ASSUME TableInv, ResolvedInv, [Next]_vars
    PROVE  ResolvedInv'
  <1>1. CASE Resolve
    <2>1. CASE Resolution!StartFile
      <3>. QED  BY <2>1, ResolvedSame DEF Resolution!StartFile
    <2>2. CASE Resolution!CollectDirect
      <3>1. UNCHANGED <<job, n, resolved, errors>> /\ pc = "direct" /\ pc' \in {"direct", "public"}
        BY <2>2 DEF Resolution!CollectDirect
      <3>. QED  BY <3>1, ResolvedSame
    <2>3. CASE Resolution!CollectPublic
      BY <2>3, ResolvedSame DEF Resolution!CollectPublic
    <2>4. CASE Resolution!FollowPublic
      BY <2>4, ResolvedSame DEF Resolution!FollowPublic
    <2>5. CASE Resolution!ReturnPublic
      BY <2>5, ResolvedSame DEF Resolution!ReturnPublic
    <2>6. CASE Resolution!EndCollection
      <3>1. /\ UNCHANGED <<job, n, resolved, errors>> /\ pc = "public" /\ pc' = "refs" /\ at' = 1
            /\ n <= Len(job.ordered)
        BY <2>6 DEF Resolution!EndCollection, TableInv
      <3>. QED  BY <3>1, ResolvedSame
    <2>7. CASE Resolution!EndFiles
      BY <2>7, ResolvedSame DEF Resolution!EndFiles
    <2>. QED  BY <1>1, <2>1, <2>2, <2>3, <2>4, <2>5, <2>6, <2>7, ResolvedRef, ResolvedEndFile
              DEF Resolve, Resolution!Next
  <1>2. CASE Check \/ DetectUnused \/ Terminated \/ UNCHANGED vars
    <2>1. UNCHANGED <<job, n, pc, at, resolved, errors>>
      BY <1>2 DEF Check, DetectUnused, Terminated, Unresolved!CheckRef, Unused!CheckFile,
         resolutionVars, vars
    <2>2. pc' = "done" => n > Len(job.ordered)
      BY <2>1 DEF ResolvedInv
    <2>. QED  BY <2>1, <2>2, ResolvedSame
  <1>. QED  BY <1>1, <1>2 DEF Next

LEMMA ResolvedInit ==
    ASSUME Init
    PROVE  ResolvedInv
  <1>1. /\ n = 1 /\ pc = "file" /\ \A g \in File : resolved[g] = <<>>
        /\ DOMAIN resolved = File /\ job \in Jobs
    BY DEF Init, Resolution!Init
  <1>2. \A m \in 1 .. Len(job.ordered) : job.ordered[m] \in File /\ Reached(m) = 0
    BY <1>1, PoolFacts DEF Reached
  <1>3. InPool \subseteq File /\ Len(<<>>) = 0 /\ <<>> \in Seq({})
    BY <1>1, PoolFacts, EmptySeq
  <1>4. \A g \in File : resolved[g] \in Seq({}) /\ Len(resolved[g]) = 0
    BY <1>1, <1>3
  <1>5. \A m \in 1 .. Len(job.ordered) : Len(resolved[job.ordered[m]]) = Reached(m)
    BY <1>2, <1>4
  <1>6. \A g \in InPool : \A i \in 1 .. Len(resolved[g]) : FALSE
    BY <1>3, <1>4
  <1>. QED  BY <1>1, <1>4, <1>5, <1>6 DEF ResolvedInv

\* What has been resolved so far was looked up in the finished table of its file, and what
\* could not be was reported, if the file has positions (ResolveTypes).
THEOREM ResolvedInvariance == Spec => []ResolvedInv
  <1>1. Init => ResolvedInv
    BY ResolvedInit
  <1>2. TableInv /\ ResolvedInv /\ [Next]_vars => ResolvedInv'
    BY ResolvedStep
  <1>. QED  BY <1>1, <1>2, TableInvariance, PTL DEF Spec

LEMMA ResolvedIsSound ==
    ASSUME TableInv, ResolvedInv
    PROVE  SoundResolution
  <1>1. job \in Jobs /\ n \in Nat \ {0}
    BY DEF TableInv
  <1>2. Resolution!SoundResolution
    <2>. SUFFICES ASSUME pc = "done", errors = {}, NEW g \in InPool, DataOf(g).located,
                         NEW i \in DOMAIN DataOf(g).refs
                  PROVE  Sound(g, i)
      BY DEF Resolution!SoundResolution, Sound, RefOf, DataOf, InPool, Decl
    <2>1. PICK m \in 1 .. Len(job.ordered) : job.ordered[m] = g
      BY <1>1, PoolFacts DEF InPool, Resolution!Parsed, Resolution!Range
    <2>2. Len(resolved[g]) = Len(DataOf(g).refs)
      <3>1. m < n
        BY <1>1, <2>1, PoolFacts DEF ResolvedInv
      <3>2. Reached(m) = Len(DataOf(g).refs)
        BY <2>1, <3>1 DEF Reached
      <3>. QED  BY <2>1, <3>2 DEF ResolvedInv
    <2>3. i \in 1 .. Len(resolved[g])
      BY <1>1, <2>2, PoolFacts
    <2>. QED  BY <2>3 DEF ResolvedInv
  <1>3. Resolution!InnermostWins
    <2>. SUFFICES ASSUME NEW g \in InPool, NEW i \in DOMAIN resolved[g],
                         ~RefOf(g, i).absolute
                  PROVE  LET ref   == RefOf(g, i)
                             scope == Resolution!Scope(job, g, ref)
                             table == Resolution!VisibleTypes(job, g)
                         IN  /\ Whole(scope, ref, table) # {}
                             /\ Resolution!Max(First(scope, ref, table) \cup {0})
                                   <= Resolution!Max(Whole(scope, ref, table))
                             => resolved[g][i].name =
                                  Resolution!Outer(scope, Resolution!Max(Whole(scope, ref, table)))
                                     \o ref.name
      BY DEF Resolution!InnermostWins, RefOf, DataOf, InPool, Whole, First
    <2>1. g \in File /\ DOMAIN resolved[g] = 1 .. Len(resolved[g])
      <3>1. g \in File
        BY <1>1, PoolFacts
      <3>2. PICK S : resolved[g] \in Seq(S)
        BY <3>1 DEF ResolvedInv
      <3>. QED  BY <3>1, <3>2, LenProperties
    <2>2. Innermost(g, i)
      BY <2>1 DEF ResolvedInv
    <2>. QED  BY <2>2 DEF Innermost
  <1>. QED  BY <1>2, <1>3 DEF SoundResolution

\* If no error is reported, every reference of a file with positions is the full name of a
\* type the file can see and is of the right kind; and at any time, a reference that has
\* been resolved names the innermost declaration of its name, unless a nearer type of the
\* name's first part stops the search.
THEOREM ResolutionIsSound == Spec => []SoundResolution
  <1>1. TableInv /\ ResolvedInv => SoundResolution
    BY ResolvedIsSound
  <1>. QED  BY <1>1, TableInvariance, ResolvedInvariance, PTL

-------------------------------------------------------------------------------
(* Undefined types next to imports that have failed. *)

Checkee == job.file
Known == Unresolved!AvailableTypes(job)
MissingAt(i) ==
    /\ Unresolved!Checked(Unresolved!TheRef(i))
    /\ Unresolved!Undefined(Unresolved!TheRef(i), Unresolved!TheScope(i), Known)

\* The references before the position have been checked against the available types.
ReportedInv ==
    /\ job \in Jobs /\ checkAt \in Nat \ {0}
    /\ job.failed # {} =>
          \A i \in 1 .. Len(DataOf(Checkee).refs) :
             i < checkAt /\ MissingAt(i) => \E e \in reports : e.ref = i

\* A name that resolves in none of a larger table's scopes, and is not hidden in it, does
\* not resolve in a smaller table.
LEMMA UndefinedInSmaller ==
    ASSUME NEW ref, NEW scope, Len(scope) \in Nat, NEW more, NEW less,
           DOMAIN less \subseteq DOMAIN more,
           Unresolved!Undefined(ref, scope, more), ~Unresolved!Shadowed(ref, scope, more)
    PROVE  Unresolved!Undefined(ref, scope, less)
  <1>. DEFINE inner(k) == Unresolved!Outer(scope, k) \o ref.name
              T(table) == {0} \cup {k \in 1 .. Len(scope) : Unresolved!Stops(scope, ref.name, table, k)}
  <1>1. \A table : Unresolved!StopAt(scope, ref.name, table) = Unresolved!Max(T(table))
    BY DEF Unresolved!StopAt
  <1>2. \A table : Unresolved!Lookup(ref, scope, table) =
           IF ~ref.absolute /\ inner(Unresolved!StopAt(scope, ref.name, table)) \in DOMAIN table
           THEN inner(Unresolved!StopAt(scope, ref.name, table)) ELSE ref.name
    BY DEF Unresolved!Lookup
  <1>3. CASE ref.absolute
    BY <1>2, <1>3 DEF Unresolved!Undefined
  <1>4. CASE ~ref.absolute
    <2>1. /\ Unresolved!StopAt(scope, ref.name, more) = 0
          /\ inner(0) \notin DOMAIN more /\ ref.name \notin DOMAIN more
      BY <1>2, <1>4 DEF Unresolved!Undefined, Unresolved!Shadowed
    <2>2. T(more) = {0}
      <3>1. T(more) \in SUBSET Nat /\ T(more) # {} /\ \A k \in T(more) : k <= Len(scope)
        OBVIOUS
      <3>2. \E m \in T(more) : \A k \in T(more) : k <= m
        <4>. HIDE DEF T
        <4>. QED  BY <3>1, GreatestNat
      <3>3. Unresolved!Max(T(more)) \in T(more) /\ \A k \in T(more) : Unresolved!Max(T(more)) >= k
        <4>1. \E m \in T(more) : \A k \in T(more) : m >= k
          <5>. HIDE DEF T
          <5>. QED  BY <3>1, <3>2
        <4>. HIDE DEF T
        <4>. QED  BY <4>1 DEF Unresolved!Max
      <3>4. \A k \in T(more) : 0 >= k
        <4>. HIDE DEF T
        <4>. QED  BY <1>1, <2>1, <3>3
      <3>. QED  BY <3>1, <3>4
    <2>3. \A k \in 1 .. Len(scope) : ~Unresolved!Stops(scope, ref.name, more, k)
      <3>. SUFFICES ASSUME NEW k \in 1 .. Len(scope), Unresolved!Stops(scope, ref.name, more, k)
                    PROVE  FALSE
        OBVIOUS
      <3>1. k \in T(more) /\ k # 0
        OBVIOUS
      <3>. HIDE DEF T
      <3>. QED  BY <2>2, <3>1
    <2>4. \A k \in 1 .. Len(scope) : ~Unresolved!Stops(scope, ref.name, less, k)
      BY <2>3 DEF Unresolved!Stops
    <2>5. T(less) = {0}
      BY <2>4
    <2>6. Unresolved!Max({0}) = 0
      <3>1. Unresolved!Max({0}) \in {0}
        <4>1. \E m \in {0} : \A k \in {0} : m >= k
          OBVIOUS
        <4>. QED  BY <4>1 DEF Unresolved!Max
      <3>. QED  BY <3>1
    <2>7. Unresolved!StopAt(scope, ref.name, less) = 0
      <3>. HIDE DEF T
      <3>. QED  BY <1>1, <2>5, <2>6
    <2>. HIDE DEF inner
    <2>. QED  BY <1>2, <1>4, <2>1, <2>7 DEF Unresolved!Undefined
  <1>. QED  BY <1>3, <1>4

\* The available types are among all that can be seen.
LEMMA KnownAreSeen ==
    ASSUME job \in Jobs, job.failed # {}
    PROVE  /\ Checkee \in File
           /\ DOMAIN Known \subseteq Unresolved!VisibleTypes(job, Checkee)
  <1>1. IsPool(job)
    BY JobsAssumption
  <1>2. /\ Checkee \in File
        /\ Unresolved!Range(DataOf(Checkee).deps) \subseteq Unresolved!Range(job.ordered) \cup job.failed
    BY <1>1 DEF IsPool, Checkee, DataOf, Range, Unresolved!Range
  <1>3. Unresolved!Available(job) \subseteq Unresolved!Range(DataOf(Checkee).deps) \cap Unresolved!Parsed(job)
    BY <1>2 DEF Unresolved!Available, Unresolved!Parsed, Checkee, DataOf
  <1>4. Unresolved!Parsed(job) \subseteq File
    BY PoolFacts DEF InPool, Resolution!Parsed, Unresolved!Parsed, Resolution!Range, Unresolved!Range
  <1>5. {Checkee} \cup Unresolved!Available(job) \subseteq Unresolved!Visible(job, Checkee)
    BY <1>2, <1>3, <1>4 DEF Unresolved!Visible, DataOf
  <1>6. DOMAIN Known = UNION {DOMAIN Unresolved!Declared(job, g) : g \in {Checkee} \cup Unresolved!Available(job)}
    BY DEF Known, Unresolved!AvailableTypes, Checkee
  <1>. QED  BY <1>2, <1>5, <1>6 DEF Unresolved!VisibleTypes

LEMMA ReportedStep ==
    ASSUME ReportedInv, [Next]_vars
    PROVE  ReportedInv'
  <1>1. ASSUME UNCHANGED <<job, checkAt, reports>> PROVE ReportedInv'
    BY <1>1 DEF ReportedInv, MissingAt, Known, Checkee, DataOf, Unresolved!TheRef, Unresolved!TheScope
  <1>2. CASE Check
    <2>1. /\ job \in Jobs /\ checkAt \in Nat \ {0} /\ job.failed # {} /\ UNCHANGED job
          /\ checkAt' = checkAt + 1 /\ checkAt <= Len(DataOf(Checkee).refs)
      BY <1>2 DEF ReportedInv, Check, Unresolved!CheckRef, Checkee, DataOf
    <2>2. Checkee' = Checkee /\ DataOf(Checkee)' = DataOf(Checkee) /\ \A i : MissingAt(i)' = MissingAt(i)
      BY <2>1 DEF Checkee, DataOf, MissingAt, Known, Unresolved!TheRef, Unresolved!TheScope
    <2>3. PICK new \in Unresolved!Reports(Unresolved!TheRef(checkAt), Unresolved!TheScope(checkAt), Known) :
             reports' = reports \cup new
      BY <1>2 DEF Check, Unresolved!CheckRef, Unresolved!TheRef, Unresolved!TheScope, Known
    <2>4. MissingAt(checkAt) => \E e \in new : e.ref = checkAt
      <3>. DEFINE ref == Unresolved!TheRef(checkAt)
                  scope == Unresolved!TheScope(checkAt)
      <3>. SUFFICES ASSUME Unresolved!Checked(ref), Unresolved!Undefined(ref, scope, Known)
                    PROVE  \E e \in new : e.ref = checkAt
        BY DEF MissingAt
      <3>. HIDE DEF ref, scope
      <3>1. new \in Unresolved!Reports(ref, scope, Known)
        BY <2>3 DEF ref, scope
      <3>2. CASE Unresolved!Shadowed(ref, scope, Known)
        <4>1. new = {[ref |-> checkAt, kind |-> "shadowed", hint |-> {}]}
          BY <3>1, <3>2 DEF Unresolved!Reports
        <4>. QED  BY <4>1
      <3>3. CASE ~Unresolved!Shadowed(ref, scope, Known) /\ Unresolved!Hints(job, ref, scope) = {}
        <4>1. new = {[ref |-> checkAt, kind |-> "undefined", hint |-> {}]}
          BY <3>1, <3>3 DEF Unresolved!Reports
        <4>. QED  BY <4>1
      <3>4. CASE ~Unresolved!Shadowed(ref, scope, Known) /\ Unresolved!Hints(job, ref, scope) # {}
        <4>1. PICK g : new = {[ref |-> checkAt, kind |-> "hint", hint |-> {g}]}
          BY <3>1, <3>4 DEF Unresolved!Reports
        <4>. QED  BY <4>1
      <3>. QED  BY <3>2, <3>3, <3>4
    <2>5. ASSUME NEW i \in 1 .. Len(DataOf(Checkee).refs), i < checkAt + 1, MissingAt(i)
          PROVE  \E e \in reports' : e.ref = i
      <3>1. CASE i = checkAt
        BY <2>3, <2>4, <2>5, <3>1
      <3>2. CASE i < checkAt
        BY <2>1, <2>3, <2>5, <3>2 DEF ReportedInv
      <3>. QED  BY <2>1, <2>5, <3>1, <3>2
    <2>. QED  BY <2>1, <2>2, <2>5 DEF ReportedInv
  <1>3. CASE Resolve
    <2>1. UNCHANGED job
      BY <1>3 DEF Resolve, Resolution!Next, Resolution!StartFile, Resolution!CollectDirect,
         Resolution!CollectPublic, Resolution!FollowPublic, Resolution!ReturnPublic,
         Resolution!EndCollection, Resolution!ResolveRef, Resolution!EndFile, Resolution!EndFiles
    <2>. QED  BY <1>1, <1>3, <2>1 DEF Resolve
  <1>4. CASE DetectUnused \/ Terminated \/ UNCHANGED vars
    BY <1>1, <1>4 DEF DetectUnused, Terminated, Unused!CheckFile, vars
  <1>. QED  BY <1>2, <1>3, <1>4 DEF Next

\* That some imports of a file have failed hides no undefined type of a message's field or
\* of a method: one that would not resolve in all the file can see, and is not hidden there
\* by a nearer type of its first part, is reported.  Map values are not among these.
THEOREM FailedImportsHideNothing == Spec => []UndefinedAreReported
  <1>1. Init => ReportedInv
    BY DEF Init, Resolution!Init, Unresolved!Init, ReportedInv
  <1>2. ReportedInv /\ [Next]_vars => ReportedInv'
    BY ReportedStep
  <1>3. ReportedInv => UndefinedAreReported
    <2>. SUFFICES ASSUME ReportedInv, job.failed # {}, checkAt > Len(DataOf(Checkee).refs),
                         NEW i \in DOMAIN DataOf(Checkee).refs,
                         Unresolved!TheRef(i).role \in {"field", "group", "method"},
                         Unresolved!Undefined(Unresolved!TheRef(i), Unresolved!TheScope(i),
                                              Unresolved!SeenTypes),
                         ~Unresolved!Shadowed(Unresolved!TheRef(i), Unresolved!TheScope(i),
                                              Unresolved!SeenTypes)
                  PROVE  \E e \in reports : e.ref = i
      BY DEF UndefinedAreReported, Unresolved!UndefinedAreReported, DataOf, Checkee
    <2>1. /\ job \in Jobs /\ checkAt \in Nat \ {0} /\ Checkee \in File
          /\ DOMAIN Known \subseteq Unresolved!VisibleTypes(job, Checkee)
      BY KnownAreSeen DEF ReportedInv
    <2>2. /\ i \in 1 .. Len(DataOf(Checkee).refs) /\ i < checkAt
          /\ DataOf(Checkee).refs \in Seq(Resolution!Reference)
      BY <2>1, PoolFacts
    <2>3. DOMAIN Known \subseteq DOMAIN Unresolved!SeenTypes
      BY <2>1 DEF Unresolved!SeenTypes, Checkee
    <2>4. Len(Unresolved!TheScope(i)) \in Nat
      <3>1. DataOf(Checkee).refs[i] \in Resolution!Reference
        BY <2>2, ElementOfSeq
      <3>2. DataOf(Checkee).refs[i].scope \in Seq(Ident) /\ DataOf(Checkee).package \in Seq(Ident)
        BY <2>1, <3>1, PoolFacts DEF Resolution!Reference, Resolution!Name, Resolution!IsFileData, DataOf
      <3>. QED  BY <3>2, ConcatProperties, LenProperties
                DEF Unresolved!TheScope, Unresolved!TheRef, Unresolved!Scope, DataOf, Checkee
    <2>5. MissingAt(i)
      <3>1. Unresolved!Undefined(Unresolved!TheRef(i), Unresolved!TheScope(i), Known)
        BY <2>3, <2>4, UndefinedInSmaller
      <3>. QED  BY <3>1 DEF MissingAt, Unresolved!Checked
    <2>. QED  BY <2>2, <2>5 DEF ReportedInv
  <1>. QED  BY <1>1, <1>2, <1>3, PTL DEF Spec

-------------------------------------------------------------------------------
(* Imports that are reported as unused. *)

Pool == Unused!Parsed(job)
Sight(f) == Unused!Visible(job, f)
Less(f, d) == Unused!Dropped(job, f, d)

\* What has been reported was neither used nor importing publicly, and the resolution it
\* follows from is over.
WarnedInv ==
    /\ job \in Jobs
    /\ warnings # {} => pc = "done" /\ NamesAreUnique
    /\ \A f, d \in File : <<f, d>> \in warnings =>
          f \in Pool /\ d \in Unused!Trackable(job, f) \ Unused!Used(job, f)

LEMMA WarnedStep ==
    ASSUME WarnedInv, [Next]_vars
    PROVE  WarnedInv'
  <1>1. CASE Check \/ Terminated \/ UNCHANGED vars
    <2>1. UNCHANGED <<job, pc, resolved, warnings>>
      BY <1>1 DEF Check, Unresolved!CheckRef, Terminated, vars, resolutionVars
    <2>. QED  BY <2>1 DEF WarnedInv, NamesAreUnique, Pool, Unused!Used, Unused!TypesUsed
  <1>2. CASE Resolve
    <2>1. pc # "done" /\ UNCHANGED <<job, warnings>>
      BY <1>2 DEF Resolve, Resolution!Next, Resolution!StartFile, Resolution!CollectDirect,
         Resolution!CollectPublic, Resolution!FollowPublic, Resolution!ReturnPublic,
         Resolution!EndCollection, Resolution!ResolveRef, Resolution!EndFile, Resolution!EndFiles
    <2>. QED  BY <2>1 DEF WarnedInv
  <1>3. CASE DetectUnused
    <2>. DEFINE file == job.relFiles[relAt]
                new == IF file \in Pool
                       THEN {<<file, d>> : d \in Unused!Trackable(job, file) \ Unused!Used(job, file)}
                       ELSE {}
    <2>1. /\ UNCHANGED <<job, pc, resolved>> /\ warnings' = warnings \cup new
          /\ pc = "done" /\ NamesAreUnique
      BY <1>3 DEF DetectUnused, Unused!CheckFile, Pool
    <2>2. ASSUME NEW f \in File, NEW d \in File, <<f, d>> \in warnings'
          PROVE  f \in Pool /\ d \in Unused!Trackable(job, f) \ Unused!Used(job, f)
      <3>1. CASE <<f, d>> \in warnings
        BY <3>1 DEF WarnedInv
      <3>2. CASE <<f, d>> \in new
        BY <3>2
      <3>. QED  BY <2>1, <2>2, <3>1, <3>2
    <2>3. /\ NamesAreUnique' /\ Pool' = Pool
          /\ \A f : Unused!Trackable(job, f)' = Unused!Trackable(job, f)
          /\ \A f : Unused!Used(job, f)' = Unused!Used(job, f)
      BY <2>1 DEF NamesAreUnique, Pool, Unused!Used, Unused!TypesUsed
    <2>. HIDE DEF new
    <2>. QED  BY <2>1, <2>2, <2>3 DEF WarnedInv
  <1>. QED  BY <1>1, <1>2, <1>3 DEF Next

\* Deleting an import changes what is declared nowhere, and what other files import.
LEMMA DroppedFacts ==
    ASSUME job \in Jobs, NEW f \in Pool, NEW d \in File
    PROVE  /\ Pool \subseteq File
           /\ Less(f, d).ordered = job.ordered
           /\ \A g \in File \ {f} : Less(f, d).files[g] = job.files[g]
           /\ \A g : Unused!Declared(Less(f, d), g) = Unused!Declared(job, g)
           /\ Unused!Range(job.files[f].deps) \subseteq
                 Unused!Range(Less(f, d).files[f].deps) \cup {d}
           /\ Unused!Range(job.files[f].optionDeps) \subseteq
                 Unused!Range(Less(f, d).files[f].optionDeps) \cup {d}
  <1>. DEFINE data == job.files[f]
              without(s) == [i \in DOMAIN s |-> IF s[i] = d THEN f ELSE s[i]]
              less == [data EXCEPT !.deps = without(data.deps), !.optionDeps = without(data.optionDeps)]
  <1>1. IsPool(job)
    BY JobsAssumption
  <1>2. /\ "files" \in DOMAIN job /\ "ordered" \in DOMAIN job
        /\ DOMAIN job.files = File /\ \A g \in File : IsFileData(job.files[g])
    BY <1>1 DEF IsPool
  <1>3. Pool \subseteq File
    BY PoolFacts DEF Pool, InPool, Resolution!Parsed, Unused!Parsed, Resolution!Range, Unused!Range
  <1>4. /\ f \in File /\ {"deps", "optionDeps", "declares", "package"} \subseteq DOMAIN data
    BY <1>2, <1>3 DEF IsFileData
  <1>5. Less(f, d) = [job EXCEPT !.files[f] = less]
    BY DEF Less, Unused!Dropped
  <1>6. /\ less.deps = without(data.deps) /\ less.optionDeps = without(data.optionDeps)
        /\ less.package = data.package /\ less.declares = data.declares
    <2>. HIDE DEF data
    <2>. QED  BY <1>4
  <1>7. /\ Less(f, d).files = [job.files EXCEPT ![f] = less]
        /\ Less(f, d).ordered = job.ordered
    <2>. HIDE DEF less
    <2>. QED  BY <1>2, <1>5
  <1>8. /\ Less(f, d).files[f] = less
        /\ \A g : g # f => Less(f, d).files[g] = job.files[g]
    <2>. HIDE DEF less
    <2>. QED  BY <1>2, <1>4, <1>7
  <1>9. \A g : Unused!Declared(Less(f, d), g) = Unused!Declared(job, g)
    <2>. SUFFICES ASSUME NEW g
                  PROVE  Unused!Declared(Less(f, d), g) = Unused!Declared(job, g)
      OBVIOUS
    <2>1. /\ Less(f, d).files[g].package = job.files[g].package
          /\ Less(f, d).files[g].declares = job.files[g].declares
      <3>. HIDE DEF less
      <3>. QED  BY <1>6, <1>8
    <2>. QED  BY <2>1 DEF Unused!Declared
  <1>10. \A s : Unused!Range(s) \subseteq Unused!Range(without(s)) \cup {d}
    BY DEF Unused!Range
  <1>. HIDE DEF less, without
  <1>. QED  BY <1>3, <1>6, <1>7, <1>8, <1>9, <1>10

\* What a file sees is in the pool, and all but the import that is deleted is still seen,
\* if that imports nothing publicly.
LEMMA StillSeen ==
    ASSUME job \in Jobs, NEW f \in Pool, NEW d \in File, ~Unused!HasPublic(job, d)
    PROVE  /\ Sight(f) \subseteq Pool
           /\ Sight(f) \ {d} \subseteq Unused!Visible(Less(f, d), f)
  <1>. DEFINE less == Less(f, d)
              direct(j) == {f} \cup (Unused!Range(j.files[f].deps) \cap Unused!Parsed(j))
              closed(j, S) == \A h \in S : h # f => Unused!PublicDeps(j, h) \subseteq S
  <1>1. \A j : Unused!Visible(j, f) =
           {g \in File : \A S \in SUBSET File : direct(j) \subseteq S /\ closed(j, S) => g \in S}
    BY DEF Unused!Visible
  <1>2. /\ Pool \subseteq File /\ less.ordered = job.ordered
        /\ \A g \in File \ {f} : less.files[g] = job.files[g]
        /\ Unused!Range(job.files[f].deps) \subseteq Unused!Range(less.files[f].deps) \cup {d}
    BY DroppedFacts
  <1>3. Unused!Parsed(less) = Pool
    BY <1>2 DEF Unused!Parsed, Pool
  <1>4. \A h \in File : h # f => Unused!PublicDeps(less, h) = Unused!PublicDeps(job, h)
    BY <1>2, <1>3 DEF Unused!PublicDeps, Pool
  <1>5. \A h : Unused!PublicDeps(job, h) \subseteq Pool
    BY DEF Unused!PublicDeps, Pool
  <1>6. Sight(f) \subseteq Pool
    <2>1. direct(job) \subseteq Pool /\ closed(job, Pool)
      BY <1>5 DEF Pool
    <2>2. Sight(f) = {g \in File : \A S \in SUBSET File :
                         direct(job) \subseteq S /\ closed(job, S) => g \in S}
      BY <1>1 DEF Sight
    <2>. HIDE DEF direct, closed
    <2>. QED  BY <1>2, <2>1, <2>2
  <1>7. d \in Pool => Unused!PublicDeps(job, d) = {}
    BY DEF Unused!HasPublic, Pool, Unused!PublicDeps, Unused!Range
  <1>8. ASSUME NEW g \in Sight(f) \ {d}, NEW S \in SUBSET File,
               direct(less) \subseteq S, closed(less, S)
        PROVE  g \in S
    <2>1. closed(job, S)
      BY <1>4, <1>8
    <2>2. direct(job) \subseteq S \cup (Pool \cap {d})
      BY <1>2, <1>3, <1>8 DEF Pool
    <2>3. closed(job, S \cup (Pool \cap {d}))
      BY <1>7, <2>1
    <2>4. S \cup (Pool \cap {d}) \in SUBSET File
      BY <1>2
    <2>5. g \in S \cup (Pool \cap {d})
      <3>1. \A T \in SUBSET File : direct(job) \subseteq T /\ closed(job, T) => g \in T
        BY <1>1, <1>8 DEF Sight
      <3>. HIDE DEF direct, closed
      <3>. QED  BY <2>2, <2>3, <2>4, <3>1
    <2>. QED  BY <1>8, <2>5
  <1>9. Sight(f) \subseteq File
    BY <1>2, <1>6
  <1>. HIDE DEF direct, closed, less
  <1>. QED  BY <1>1, <1>6, <1>8, <1>9 DEF less

\* A file entered last among some is the one the maps lead to.
LEMMA LastDeclarer ==
    ASSUME job \in Jobs, NEW P \in SUBSET DOMAIN job.ordered, P # {}
    PROVE  \E i \in P : Unused!LastOf(job, P) = {job.ordered[i]}
  <1>1. P \in SUBSET Nat /\ \A k \in P : k <= Len(job.ordered)
    BY PoolFacts
  <1>2. \E m \in P : \A k \in P : k <= m
    BY <1>1, PoolFacts, GreatestNat
  <1>3. Unused!Max(P) \in P
    <2>1. \E m \in P : \A k \in P : m >= k
      BY <1>1, <1>2
    <2>. QED  BY <2>1 DEF Unused!Max
  <1>. QED  BY <1>3 DEF Unused!LastOf

\* The only file that declares a type counts as used wherever the type is.
LEMMA DeclarerIsUsed ==
    ASSUME job \in Jobs, NamesAreUnique, NEW f, NEW x \in Unused!TypesUsed(f),
           NEW g \in Pool, x \in DOMAIN Unused!Declared(job, g)
    PROVE  g \in Unused!Used(job, f)
  <1>. DEFINE P == Unused!TypeDeclarers(job, x)
  <1>1. PICK k \in DOMAIN job.ordered : job.ordered[k] = g
    BY DEF Pool, Unused!Parsed, Unused!Range
  <1>2. P = {i \in DOMAIN job.ordered : x \in DOMAIN Unused!Declared(job, job.ordered[i])}
    BY DEF Unused!TypeDeclarers
  <1>3. k \in P /\ P \subseteq DOMAIN job.ordered
    BY <1>1, <1>2
  <1>4. PICK i \in P : Unused!LastOf(job, P) = {job.ordered[i]}
    <2>. HIDE DEF P
    <2>. QED  BY <1>3, LastDeclarer
  <1>5. x \in DOMAIN Unused!Declared(job, job.ordered[i]) /\ job.ordered[i] \in Pool
    BY <1>2, <1>4 DEF Pool, Unused!Parsed, Unused!Range
  <1>6. job.ordered[i] = g
    <2>1. \A h : DOMAIN Declared(job, h) = DOMAIN Unused!Declared(job, h)
      BY DEF Declared, Unused!Declared
    <2>2. Parsed(job) = Pool
      BY DEF Parsed, Pool, Unused!Parsed, Range, Unused!Range
    <2>. QED  BY <1>5, <2>1, <2>2 DEF NamesAreUnique
  <1>7. g \in Unused!LastOf(job, Unused!TypeDeclarers(job, x))
    BY <1>4, <1>6
  <1>. QED  BY <1>7 DEF Unused!Used

LEMMA WarnedAreRemovable ==
    ASSUME WarnedInv
    PROVE  UnusedAreRemovable
  <1>. SUFFICES ASSUME NEW f \in File, NEW d \in File, <<f, d>> \in warnings
                PROVE  LET without == Less(f, d)
                           seen(e) == {g \in Unused!OptionFiles(job, f) : e \in job.files[g].extends}
                       IN  /\ Unused!TypesUsed(f) \cap Unused!VisibleTypes(job, f)
                                \subseteq Unused!VisibleTypes(without, f)
                           /\ \A e \in job.files[f].sets :
                                 /\ seen(e) # {}
                                 /\ Unused!LastOf(job, Unused!ExtensionDeclarers(job, e)) \subseteq seen(e)
                                 => seen(e) \cap Unused!OptionFiles(without, f) # {}
    BY DEF UnusedAreRemovable, Unused!UnusedAreRemovable, Less
  <1>1. /\ job \in Jobs /\ NamesAreUnique /\ f \in Pool
        /\ d \notin Unused!Used(job, f) /\ ~Unused!HasPublic(job, d)
    BY DEF WarnedInv, Unused!Trackable
  <1>2. /\ Sight(f) \subseteq Pool /\ Sight(f) \ {d} \subseteq Unused!Visible(Less(f, d), f)
    BY <1>1, StillSeen
  <1>3. /\ \A g : Unused!Declared(Less(f, d), g) = Unused!Declared(job, g)
        /\ Unused!Parsed(Less(f, d)) = Pool
        /\ Unused!Range(job.files[f].optionDeps) \subseteq
              Unused!Range(Less(f, d).files[f].optionDeps) \cup {d}
    BY <1>1, DroppedFacts DEF Pool, Unused!Parsed
  <1>4. ASSUME NEW x \in Unused!TypesUsed(f) \cap Unused!VisibleTypes(job, f)
        PROVE  x \in Unused!VisibleTypes(Less(f, d), f)
    <2>1. PICK g \in Sight(f) : x \in DOMAIN Unused!Declared(job, g)
      BY DEF Unused!VisibleTypes, Sight
    <2>2. g # d
      BY <1>1, <1>2, <2>1, DeclarerIsUsed
    <2>. QED  BY <1>2, <1>3, <2>1, <2>2 DEF Unused!VisibleTypes
  <1>5. ASSUME NEW e \in job.files[f].sets, NEW seen,
               seen = {g \in Unused!OptionFiles(job, f) : e \in job.files[g].extends}, seen # {},
               Unused!LastOf(job, Unused!ExtensionDeclarers(job, e)) \subseteq seen
        PROVE  seen \cap Unused!OptionFiles(Less(f, d), f) # {}
    <2>. DEFINE P == Unused!ExtensionDeclarers(job, e)
    <2>1. \A j : Unused!OptionFiles(j, f) =
             Unused!Visible(j, f) \cup (Unused!Range(j.files[f].optionDeps) \cap Unused!Parsed(j))
      BY DEF Unused!OptionFiles
    <2>2. Unused!OptionFiles(job, f) \subseteq Pool
      BY <1>2, <2>1 DEF Sight, Pool
    <2>3. P = {i \in DOMAIN job.ordered : e \in job.files[job.ordered[i]].extends}
      BY DEF Unused!ExtensionDeclarers
    <2>4. P # {} /\ P \in SUBSET DOMAIN job.ordered
      BY <1>5, <2>2, <2>3 DEF Pool, Unused!Parsed, Unused!Range
    <2>5. PICK i \in P : Unused!LastOf(job, P) = {job.ordered[i]}
      <3>. HIDE DEF P
      <3>. QED  BY <1>1, <2>4, LastDeclarer
    <2>6. job.ordered[i] \in seen /\ job.ordered[i] \in Unused!Used(job, f)
      <3>1. job.ordered[i] \in Unused!LastOf(job, Unused!ExtensionDeclarers(job, e))
        BY <2>5
      <3>2. job.ordered[i] \in seen
        BY <1>5, <3>1
      <3>3. job.ordered[i] \in UNION {Unused!LastOf(job, Unused!ExtensionDeclarers(job, x)) :
                                        x \in job.files[f].sets}
        BY <3>1, Zenon
      <3>. QED  BY <3>2, <3>3 DEF Unused!Used
    <2>7. job.ordered[i] # d /\ job.ordered[i] \in Unused!OptionFiles(job, f)
      BY <1>1, <1>5, <2>6
    <2>8. job.ordered[i] \in Unused!OptionFiles(Less(f, d), f)
      BY <1>2, <1>3, <2>1, <2>7 DEF Sight, Pool
    <2>. QED  BY <2>6, <2>8
  <1>. QED  BY <1>4, <1>5

\* An import that is reported as unused can be deleted: each type the file refers to and each
\* extension its options set is still in sight, unless the extension's number is used again,
\* later, by a file out of sight (detectUnusedImports).  It needs that no type is declared by
\* two files, which validateDuplicateNames has seen to by then.
THEOREM UnusedCanBeRemoved == Spec => []UnusedAreRemovable
  <1>1. Init => WarnedInv
    BY DEF Init, Resolution!Init, Unused!Init, WarnedInv
  <1>2. WarnedInv /\ [Next]_vars => WarnedInv'
    BY WarnedStep
  <1>3. WarnedInv => UnusedAreRemovable
    BY WarnedAreRemovable
  <1>. QED  BY <1>1, <1>2, <1>3, PTL DEF Spec

================================================================================
