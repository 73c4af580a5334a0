--------------------------- MODULE NameSpaces_proofs ---------------------------
(***************************************************************************)
(* Proofs about the names of the declarations of a file, for every file as *)
(* parsing leaves it: what validateDuplicateNames registers of the file is *)
(* each of its declarations, under its name and in its scope, and once;    *)
(* the names made for oneofs are free; and the registry names exactly the  *)
(* declarations with a name that another one had first.                    *)
(***************************************************************************)
EXTENDS Features, ProofLemmas

-------------------------------------------------------------------------------
(* Sequences. *)

IsSeq(s) == s \in Seq(Range(s))

LEMMA SeqIs ==
    ASSUME NEW s, IsSeq(s)
    PROVE  Len(s) \in Nat /\ DOMAIN s = 1 .. Len(s)
  BY LenProperties DEF IsSeq

LEMMA IsSeqOf ==
    ASSUME NEW S, NEW s \in Seq(S)
    PROVE  IsSeq(s)
  <1>1. Len(s) \in Nat /\ DOMAIN s = 1 .. Len(s) /\ s \in [1 .. Len(s) -> S]
    BY LenProperties
  <1>2. s \in [1 .. Len(s) -> Range(s)]
    BY <1>1 DEF Range
  <1>. QED  BY <1>1, <1>2, SeqDef DEF IsSeq

LEMMA IsSeqOver ==
    ASSUME NEW n \in Nat, NEW s, s = [i \in 1 .. n |-> s[i]]
    PROVE  IsSeq(s) /\ Len(s) = n
  <1>1. s \in [1 .. n -> Range(s)]
    BY DEF Range
  <1>2. IsSeq(s) /\ DOMAIN s = 1 .. n
    BY <1>1, SeqDef DEF IsSeq
  <1>. QED  BY <1>2, LenProperties DEF IsSeq

LEMMA AppendIsSeq ==
    ASSUME NEW s, NEW e, IsSeq(s)
    PROVE  /\ IsSeq(Append(s, e)) /\ Len(Append(s, e)) = Len(s) + 1 /\ Append(s, e)[Len(s) + 1] = e
           /\ \A i \in 1 .. Len(s) : Append(s, e)[i] = s[i]
  <1>. DEFINE S == Range(s) \cup {e}
  <1>1. s \in Seq(S) /\ e \in S
    BY SeqMonotonic DEF IsSeq
  <1>2. PICK u : u = Append(s, e)
    OBVIOUS
  <1>3. u \in Seq(S) /\ Len(u) = Len(s) + 1 /\ u[Len(s) + 1] = e /\ \A i \in 1 .. Len(s) : u[i] = s[i]
    <2>. HIDE DEF S
    <2>. QED  BY <1>1, <1>2, AppendProperties
  <1>. QED  BY <1>2, <1>3, IsSeqOf

\* Two sequences with one more element each are one if both their parts are.
LEMMA AppendSplits ==
    ASSUME NEW s, NEW t, IsSeq(s), IsSeq(t), NEW x, NEW y
    PROVE  Append(s, x) = Append(t, y) <=> s = t /\ x = y
  <1>. DEFINE S == Range(s) \cup Range(t) \cup {x, y}
  <1>1. s \in Seq(S) /\ t \in Seq(S) /\ x \in S /\ y \in S
    BY SeqMonotonic DEF IsSeq
  <1>. HIDE DEF S
  <1>2. /\ Len(Append(s, x)) = Len(s) + 1 /\ Append(s, x)[Len(s) + 1] = x
        /\ \A i \in 1 .. Len(s) : Append(s, x)[i] = s[i]
    BY <1>1, AppendProperties
  <1>3. /\ Len(Append(t, y)) = Len(t) + 1 /\ Append(t, y)[Len(t) + 1] = y
        /\ \A i \in 1 .. Len(t) : Append(t, y)[i] = t[i]
    BY <1>1, AppendProperties
  <1>4. Len(s) \in Nat /\ Len(t) \in Nat
    BY SeqIs
  <1>5. ASSUME Append(s, x) = Append(t, y) PROVE s = t /\ x = y
    <2>1. Len(s) = Len(t)
      BY <1>2, <1>3, <1>4, <1>5
    <2>2. \A i \in 1 .. Len(s) : s[i] = t[i]
      BY <1>2, <1>3, <1>5, <2>1
    <2>3. s = t
      BY <1>1, <2>1, <2>2, SeqEqual
    <2>. QED  BY <1>2, <1>3, <1>5, <2>1, <2>3
  <1>. QED  BY <1>5

\* The front of a sequence with one more element is the sequence.
LEMMA FrontOfAppend ==
    ASSUME NEW s, IsSeq(s), NEW x, NEW y
    PROVE  Front(Append(s, x)) \o <<y>> = Append(s, y)
  <1>. DEFINE S == Range(s) \cup {x, y}
  <1>1. s \in Seq(S) /\ x \in S /\ y \in S
    BY SeqMonotonic DEF IsSeq
  <1>. HIDE DEF S
  <1>2. PICK u : u = Append(s, x)
    OBVIOUS
  <1>3. u \in Seq(S) /\ Len(u) = Len(s) + 1 /\ \A i \in 1 .. Len(s) : u[i] = s[i]
    BY <1>1, <1>2, AppendProperties
  <1>4. Len(s) \in Nat
    BY SeqIs
  <1>5. u # <<>>
    <2>1. Len(<<>>) = 0
      OBVIOUS
    <2>. QED  BY <1>3, <1>4, <2>1
  <1>6. Front(u) = SubSeq(u, 1, Len(u) - 1)
    BY DEF Front
  <1>7. /\ Front(u) \in Seq(S) /\ Len(Front(u)) = Len(s)
        /\ \A i \in 1 .. Len(s) : Front(u)[i] = u[i]
    <2>1. Len(u) - 1 = Len(s)
      BY <1>3, <1>4
    <2>. QED  BY <1>3, <1>5, <1>6, <2>1, AllButLast
  <1>8. Front(u) = s
    BY <1>1, <1>3, <1>7, SeqEqual
  <1>9. s \o <<y>> = Append(s, y)
    BY <1>1
  <1>. QED  BY <1>2, <1>8, <1>9

\* One thing for each element of a sequence.
LEMMA ForEach ==
    ASSUME NEW s, IsSeq(s), NEW t, t = [k \in DOMAIN s |-> t[k]]
    PROVE  IsSeq(t) /\ DOMAIN t = DOMAIN s
  <1>1. Len(s) \in Nat /\ DOMAIN s = 1 .. Len(s)
    BY SeqIs
  <1>2. t = [k \in 1 .. Len(s) |-> t[k]]
    BY <1>1
  <1>. QED  BY <1>1, <1>2, IsSeqOver

LEMMA EmptyImage ==
    ASSUME NEW T, NEW f, {f[i] : i \in T} = {}
    PROVE  T = {}
  OBVIOUS

\* The least of a set of indices.
LEMMA MinOfIndices ==
    ASSUME NEW S \in SUBSET Nat, S # {}
    PROVE  Min(S) \in S /\ \A i \in S : Min(S) <= i
  <1>1. PICK low \in S : \A i \in S : low <= i
    BY LeastNat
  <1>. QED  BY <1>1 DEF Min

\* FlattenSeq (SequencesExt) joins one sequence after the other.
FlattensTo(f, g) ==
    /\ DOMAIN g = 1 .. Len(f)
    /\ \A i \in 1 .. Len(f) : g[i] = IF i = 1 THEN f[i] ELSE g[i - 1] \o f[i]

LEMMA FlattenRuns ==
    ASSUME NEW f, IsSeq(f), Len(f) # 0
    PROVE  \E g : FlattensTo(f, g) /\ FlattenSeq(f) = g[Len(f)]
  <1>. DEFINE n == Len(f)
              Solves(g) == g = [i \in 1 .. n |-> IF i = 1 THEN f[i] ELSE g[i - 1] \o f[i]]
              Upto(g, k) == \A i \in 1 .. k : g[i] = IF i = 1 THEN f[i] ELSE g[i - 1] \o f[i]
              P == {k \in 0 .. n : \E g : Upto(g, k)}
  <1>1. n \in Nat /\ n # 0
    BY SeqIs
  <1>2. FlattenSeq(f) = (CHOOSE g : Solves(g))[n]
    BY <1>1 DEF FlattenSeq
  <1>3. 0 \in P
    BY <1>1
  <1>4. ASSUME NEW k \in 1 .. n, k - 1 \in P
        PROVE  k \in P
    <2>1. PICK g : Upto(g, k - 1)
      BY <1>4
    <2>. DEFINE h == [i \in 1 .. k |-> IF i < k THEN g[i] ELSE IF k = 1 THEN f[k] ELSE g[k - 1] \o f[k]]
    <2>2. ASSUME NEW i \in 1 .. k
          PROVE  h[i] = IF i = 1 THEN f[i] ELSE h[i - 1] \o f[i]
      <3>1. i # 1 => i - 1 \in 1 .. k /\ i - 1 < k
        BY <1>1
      <3>2. CASE i < k
        <4>1. h[i] = g[i] /\ i \in 1 .. k - 1
          BY <1>1, <3>2
        <4>2. i # 1 => h[i - 1] = g[i - 1]
          BY <3>1
        <4>. HIDE DEF h
        <4>. QED  BY <2>1, <4>1, <4>2
      <3>3. CASE i = k
        <4>1. h[i] = IF k = 1 THEN f[k] ELSE g[k - 1] \o f[k]
          BY <3>3
        <4>2. i # 1 => h[i - 1] = g[i - 1]
          BY <3>1
        <4>. HIDE DEF h
        <4>. QED  BY <3>3, <4>1, <4>2
      <3>4. i < k \/ i = k
        BY <1>1
      <3>. QED  BY <3>2, <3>3, <3>4
    <2>3. Upto(h, k)
      <3>. HIDE DEF h
      <3>. QED  BY <2>2
    <2>. HIDE DEF h
    <2>. QED  BY <1>1, <2>3
  <1>5. \A k \in 0 .. n : k \in P
    <2>. HIDE DEF P, n
    <2>. QED  BY <1>1, <1>3, <1>4, UpTo
  <1>6. PICK g : Upto(g, n)
    <2>1. n \in P
      <3>. HIDE DEF P, n
      <3>. QED  BY <1>1, <1>5
    <2>. QED  BY <2>1
  <1>7. \E s : Solves(s)
    <2>. DEFINE s == [i \in 1 .. n |-> g[i]]
    <2>1. \A i \in 1 .. n : i # 1 => i - 1 \in 1 .. n
      BY <1>1
    <2>2. \A i \in 1 .. n : s[i] = IF i = 1 THEN f[i] ELSE s[i - 1] \o f[i]
      BY <1>6, <2>1
    <2>3. Solves(s)
      <3>1. s = [i \in 1 .. n |-> s[i]]
        OBVIOUS
      <3>. HIDE DEF s
      <3>. QED  BY <2>2, <3>1
    <2>. HIDE DEF Solves
    <2>. QED  BY <2>3
  <1>8. PICK s : Solves(s) /\ FlattenSeq(f) = s[n]
    <2>. HIDE DEF Solves
    <2>. QED  BY <1>2, <1>7
  <1>9. FlattensTo(f, s)
    BY <1>8 DEF FlattensTo
  <1>. QED  BY <1>8, <1>9

-------------------------------------------------------------------------------
(* Declarations in order. *)

\* s lists S in ascending order.
Ascends(s, S) ==
    /\ s \in Seq(Int)
    /\ \A i \in 1 .. Len(s) : s[i] \in S
    /\ \A e \in S : \E i \in 1 .. Len(s) : s[i] = e
    /\ \A i, j \in 1 .. Len(s) : i < j => s[i] < s[j]

LEMMA AscendingAscends ==
    ASSUME NEW S \in SUBSET Int, IsFiniteSet(S)
    PROVE  Ascends(Ascending(S), S)
  <1>. DEFINE n == Cardinality(S)
              Below(e) == {d \in S : d < e}
              L == [e \in S |-> Below(e)]
              s == Ascending(S)
  <1>1. s = [i \in 1 .. n |-> CHOOSE e \in S : Cardinality(Below(e)) = i - 1]
    BY DEF Ascending
  <1>2. Ranks(S, L, s)
    <2>1. \A e \in S : L[e] = Below(e)
      OBVIOUS
    <2>2. L \in [S -> SUBSET S]
      OBVIOUS
    <2>3. ASSUME NEW i \in 1 .. n, NEW e \in S, Cardinality(L[e]) = i - 1
          PROVE  s[i] \in S /\ Cardinality(L[s[i]]) = i - 1
      <3>1. s[i] = CHOOSE d \in S : Cardinality(Below(d)) = i - 1
        BY <1>1
      <3>2. Cardinality(Below(e)) = i - 1
        BY <2>3
      <3>3. s[i] \in S /\ Cardinality(Below(s[i])) = i - 1
        <4>. HIDE DEF Below, s, L, n
        <4>. QED  BY <3>1, <3>2
      <3>. HIDE DEF Below, s, L, n
      <3>. QED  BY <2>1, <3>3
    <2>4. \A e \in S : e \notin L[e]
      OBVIOUS
    <2>5. ASSUME NEW d \in S, NEW e \in S, d \in L[e]
          PROVE  L[d] \subseteq L[e]
      <3>. SUFFICES ASSUME NEW c \in S, c < d PROVE c < e
        OBVIOUS
      <3>1. c \in Int /\ d \in Int /\ e \in Int /\ d < e
        BY <2>5
      <3>. QED  BY <3>1
    <2>6. \A d, e \in S : d # e => d \in L[e] \/ e \in L[d]
      OBVIOUS
    <2>. HIDE DEF L, s, Below
    <2>. QED  BY <2>2, <2>3, <2>4, <2>5, <2>6 DEF Ranks
  <1>3. /\ n \in Nat
        /\ \A i \in 1 .. n : s[i] \in S
        /\ \A e \in S : \E i \in 1 .. n : s[i] = e
        /\ \A i, j \in 1 .. n : i < j => s[i] \in L[s[j]]
    <2>. HIDE DEF L, s, Below
    <2>. QED  BY <1>2, RanksInOrder
  <1>4. \A i, j \in 1 .. n : i < j => s[i] < s[j]
    <2>. SUFFICES ASSUME NEW i \in 1 .. n, NEW j \in 1 .. n, i < j PROVE s[i] < s[j]
      OBVIOUS
    <2>1. s[j] \in S /\ s[i] \in L[s[j]]
      BY <1>3
    <2>. HIDE DEF s
    <2>. QED  BY <2>1
  <1>5. s \in Seq(Int) /\ Len(s) = n
    <2>1. s = [i \in 1 .. n |-> s[i]]
      <3>. HIDE DEF Below, n
      <3>. QED  BY <1>1
    <2>2. \A i \in 1 .. n : s[i] \in Int
      BY <1>3
    <2>3. s \in [1 .. n -> Int]
      <3>. HIDE DEF s, n
      <3>. QED  BY <2>1, <2>2
    <2>4. n \in Nat
      BY <1>3
    <2>5. s \in Seq(Int) /\ DOMAIN s = 1 .. n
      <3>. HIDE DEF s, n
      <3>. QED  BY <2>3, <2>4, SeqDef
    <2>. HIDE DEF s, n
    <2>. QED  BY <2>4, <2>5, LenProperties
  <1>6. Ascends(s, S)
    <2>. HIDE DEF s, n, L
    <2>. QED  BY <1>3, <1>4, <1>5 DEF Ascends
  <1>. QED  BY <1>6

\* The declarations of a message: each once, in order, and in that message.
AreIn(list, file, m, kinds) ==
    /\ list \in Seq(Int)
    /\ \A k \in 1 .. Len(list) :
          list[k] \in DOMAIN file.nodes /\ file.nodes[list[k]].in = m /\ file.nodes[list[k]].kind \in kinds
    /\ \A i \in DOMAIN file.nodes :
          file.nodes[i].in = m /\ file.nodes[i].kind \in kinds => \E k \in 1 .. Len(list) : list[k] = i
    /\ \A i, j \in 1 .. Len(list) : i < j => list[i] < list[j]

LEMMA OfAreIn ==
    ASSUME NEW file, IsFile(file), NEW m, NEW kinds
    PROVE  AreIn(Of(file, m, kinds), file, m, kinds)
  <1>. DEFINE S == {i \in DOMAIN file.nodes : file.nodes[i].in = m /\ file.nodes[i].kind \in kinds}
  <1>1. Len(file.nodes) \in Nat /\ DOMAIN file.nodes = 1 .. Len(file.nodes)
    BY LenProperties DEF IsFile
  <1>2. S \in SUBSET Int /\ S \in SUBSET (1 .. Len(file.nodes))
    BY <1>1
  <1>3. IsFiniteSet(S)
    <2>1. PICK n \in Nat : n = Len(file.nodes)
      BY <1>1
    <2>2. IsFiniteSet(1 .. n)
      BY FS_Interval
    <2>. HIDE DEF S
    <2>. QED  BY <1>2, <2>1, <2>2, FS_Subset
  <1>4. Ascends(Ascending(S), S)
    <2>. HIDE DEF S
    <2>. QED  BY <1>2, <1>3, AscendingAscends
  <1>5. Of(file, m, kinds) = Ascending(S)
    BY DEF Of
  <1>6. \A i : i \in S <=> i \in DOMAIN file.nodes /\ file.nodes[i].in = m /\ file.nodes[i].kind \in kinds
    OBVIOUS
  <1>. HIDE DEF S
  <1>7. PICK s : s = Of(file, m, kinds) /\ Ascends(s, S)
    BY <1>4, <1>5
  <1>8. /\ s \in Seq(Int) /\ \A k \in 1 .. Len(s) : s[k] \in S
        /\ \A i \in S : \E k \in 1 .. Len(s) : s[k] = i
        /\ \A i, j \in 1 .. Len(s) : i < j => s[i] < s[j]
    BY <1>7 DEF Ascends
  <1>9. AreIn(s, file, m, kinds)
    BY <1>6, <1>8 DEF AreIn
  <1>. QED  BY <1>7, <1>9

LEMMA InOnce ==
    ASSUME NEW list, NEW file, NEW m, NEW kinds, AreIn(list, file, m, kinds)
    PROVE  /\ Len(list) \in Nat /\ DOMAIN list = 1 .. Len(list)
           /\ \A i, j \in 1 .. Len(list) : list[i] = list[j] => i = j
  <1>1. Len(list) \in Nat /\ DOMAIN list = 1 .. Len(list)
    BY LenProperties DEF AreIn
  <1>2. ASSUME NEW i \in 1 .. Len(list), NEW j \in 1 .. Len(list), i # j
        PROVE  list[i] # list[j]
    <2>1. list[i] \in Int /\ list[j] \in Int
      BY ElementOfSeq DEF AreIn
    <2>2. i < j \/ j < i
      BY <1>1, <1>2
    <2>3. list[i] < list[j] \/ list[j] < list[i]
      BY <2>2 DEF AreIn
    <2>. QED  BY <2>1, <2>3
  <1>. QED  BY <1>1, <1>2

LEMMA OfIsSeq ==
    ASSUME NEW file, IsFile(file), NEW m, NEW kinds
    PROVE  /\ IsSeq(Of(file, m, kinds)) /\ DOMAIN Of(file, m, kinds) = 1 .. Len(Of(file, m, kinds))
           /\ \A k \in DOMAIN Of(file, m, kinds) :
                 /\ Of(file, m, kinds)[k] \in DOMAIN file.nodes
                 /\ file.nodes[Of(file, m, kinds)[k]].in = m
                 /\ file.nodes[Of(file, m, kinds)[k]].kind \in kinds
           /\ \A i \in DOMAIN file.nodes :
                 file.nodes[i].in = m /\ file.nodes[i].kind \in kinds
                    => \E k \in DOMAIN Of(file, m, kinds) : Of(file, m, kinds)[k] = i
  <1>1. PICK s : s = Of(file, m, kinds)
    OBVIOUS
  <1>2. AreIn(s, file, m, kinds)
    BY <1>1, OfAreIn
  <1>3. IsSeq(s) /\ DOMAIN s = 1 .. Len(s)
    BY <1>2, IsSeqOf, SeqIs DEF AreIn
  <1>. QED  BY <1>1, <1>2, <1>3 DEF AreIn

\* A declaration is found where it is.
LEMMA InOf ==
    ASSUME NEW file, IsFile(file), NEW m, NEW kinds, NEW i \in DOMAIN file.nodes,
           file.nodes[i].in = m, file.nodes[i].kind \in kinds
    PROVE  i \in Range(Of(file, m, kinds))
  <1>1. PICK list : list = Of(file, m, kinds)
    OBVIOUS
  <1>2. AreIn(list, file, m, kinds)
    BY <1>1, OfAreIn
  <1>3. \E k \in DOMAIN list : list[k] = i
    BY <1>2 DEF AreIn
  <1>. QED  BY <1>1, <1>3 DEF Range

\* What is found in a declaration is in it.
LEMMA OfHas ==
    ASSUME NEW file, IsFile(file), NEW m, NEW kinds, NEW i \in Range(Of(file, m, kinds))
    PROVE  i \in DOMAIN file.nodes /\ file.nodes[i].in = m /\ file.nodes[i].kind \in kinds
  BY OfIsSeq DEF Range

\* Scopes of declarations are those of what they are in, and their names.
LEMMA ScopesAre ==
    ASSUME NEW file, IsFile(file), IsDescribed(file)
    PROVE  \E sc : /\ sc = Scopes(file)
                   /\ sc[0] = file.package
                   /\ \A i \in DOMAIN file.nodes :
                         sc[i] = Append(sc[file.nodes[i].in], TypeName(file.nodes[i]))
                   /\ \A i \in 0 .. Len(file.nodes) : IsSeq(sc[i])
  <1>. DEFINE n == Len(file.nodes)
              At(g, i) == IF i = 0 THEN file.package
                          ELSE Append(g[file.nodes[i].in], TypeName(file.nodes[i]))
              Solves(g) == g = [i \in 0 .. n |-> At(g, i)]
              Upto(g, k) == \A i \in 0 .. k : g[i] = At(g, i)
              P == {k \in 0 .. n : \E g : Upto(g, k)}
  <1>1. n \in Nat /\ DOMAIN file.nodes = 1 .. n
    BY LenProperties DEF IsFile
  <1>2. Scopes(file) = CHOOSE g : Solves(g)
    BY DEF Scopes
  <1>3. \A i \in 1 .. n : file.nodes[i].in \in 0 .. i - 1
    BY <1>1 DEF IsFile
  <1>4. ASSUME NEW i \in 0 .. n, NEW g, NEW h, i # 0 => g[file.nodes[i].in] = h[file.nodes[i].in]
        PROVE  At(g, i) = At(h, i)
    BY <1>4
  <1>5. 0 \in P
    <2>1. Upto([i \in {0} |-> file.package], 0)
      OBVIOUS
    <2>. HIDE DEF Upto
    <2>. QED  BY <1>1, <2>1
  <1>. HIDE DEF At
  <1>6. ASSUME NEW k \in 1 .. n, k - 1 \in P PROVE k \in P
    <2>1. PICK g : Upto(g, k - 1)
      BY <1>6
    <2>. DEFINE h == [i \in 0 .. k |-> IF i < k THEN g[i] ELSE At(g, k)]
    <2>2. ASSUME NEW i \in 0 .. k PROVE h[i] = At(h, i)
      <3>1. i # 0 => file.nodes[i].in \in 0 .. i - 1
        BY <1>1, <1>3
      <3>2. i # 0 => g[file.nodes[i].in] = h[file.nodes[i].in]
        BY <1>1, <3>1
      <3>3. At(g, i) = At(h, i)
        <4>1. i \in 0 .. n
          BY <1>1
        <4>. HIDE DEF h
        <4>. QED  BY <1>4, <3>2, <4>1
      <3>4. h[i] = At(g, i)
        <4>1. CASE i < k
          <5>1. i \in 0 .. k - 1
            BY <1>1, <4>1
          <5>. QED  BY <2>1, <4>1, <5>1
        <4>2. CASE i = k
          BY <4>2
        <4>. QED  BY <1>1, <4>1, <4>2
      <3>. QED  BY <3>3, <3>4
    <2>3. Upto(h, k)
      <3>. HIDE DEF h
      <3>. QED  BY <2>2
    <2>. HIDE DEF h, Upto
    <2>. QED  BY <1>1, <2>3
  <1>7. \A k \in 0 .. n : k \in P
    <2>. HIDE DEF P, n
    <2>. QED  BY <1>1, <1>5, <1>6, UpTo
  <1>8. PICK g : Upto(g, n)
    <2>1. n \in P
      <3>. HIDE DEF P, n
      <3>. QED  BY <1>1, <1>7
    <2>. QED  BY <2>1
  <1>9. \E s : Solves(s)
    <2>. DEFINE s == [i \in 0 .. n |-> g[i]]
    <2>1. ASSUME NEW i \in 0 .. n PROVE s[i] = At(s, i)
      <3>1. i # 0 => file.nodes[i].in \in 0 .. n
        BY <1>1, <1>3
      <3>2. i # 0 => g[file.nodes[i].in] = s[file.nodes[i].in]
        BY <3>1
      <3>3. s[i] = At(g, i)
        BY <1>8
      <3>. HIDE DEF s
      <3>. QED  BY <1>4, <3>2, <3>3
    <2>2. s = [i \in 0 .. n |-> At(s, i)]
      <3>1. s = [i \in 0 .. n |-> s[i]]
        OBVIOUS
      <3>. HIDE DEF s
      <3>. QED  BY <2>1, <3>1
    <2>. HIDE DEF s
    <2>. QED  BY <2>2
  <1>10. PICK sc : sc = Scopes(file) /\ Solves(sc)
    <2>. HIDE DEF Solves
    <2>. QED  BY <1>2, <1>9
  <1>11. \A i \in 0 .. n : sc[i] = At(sc, i)
    BY <1>10
  <1>12. sc[0] = file.package
    BY <1>1, <1>11 DEF At
  <1>13. ASSUME NEW i \in 1 .. n
         PROVE  sc[i] = Append(sc[file.nodes[i].in], TypeName(file.nodes[i]))
    <2>1. i \in 0 .. n /\ i # 0
      BY <1>1
    <2>2. sc[i] = At(sc, i)
      BY <1>11, <2>1
    <2>. QED  BY <2>1, <2>2 DEF At
  <1>14. \A i \in 0 .. n : IsSeq(sc[i])
    <2>. DEFINE Bad == {i \in 0 .. n : ~ IsSeq(sc[i])}
    <2>. SUFFICES ASSUME Bad # {} PROVE FALSE
      OBVIOUS
    <2>1. PICK i \in Bad : \A j \in Bad : i <= j
      <3>1. Bad \in SUBSET Nat
        BY <1>1
      <3>. HIDE DEF Bad
      <3>. QED  BY <3>1, LeastNat
    <2>2. i \in 0 .. n /\ ~ IsSeq(sc[i])
      OBVIOUS
    <2>3. i # 0
      BY <1>12, <2>2 DEF IsDescribed, IsSeq
    <2>4. file.nodes[i].in \in 0 .. i - 1 /\ i \in 1 .. n
      BY <1>1, <1>3, <2>2, <2>3
    <2>5. file.nodes[i].in \notin Bad /\ file.nodes[i].in \in 0 .. n
      <3>1. ~ (i <= file.nodes[i].in) /\ file.nodes[i].in \in 0 .. n
        BY <1>1, <2>4
      <3>. HIDE DEF Bad
      <3>. QED  BY <2>1, <3>1
    <2>6. IsSeq(sc[file.nodes[i].in])
      BY <2>5
    <2>. HIDE DEF Bad, n, P, Upto, Solves
    <2>7. IsSeq(Append(sc[file.nodes[i].in], TypeName(file.nodes[i])))
      BY <2>6, AppendIsSeq
    <2>. QED  BY <1>13, <2>2, <2>4, <2>7
  <1>. QED  BY <1>1, <1>10, <1>12, <1>13, <1>14

-------------------------------------------------------------------------------
(* Symbols. *)

\* Symbols are told apart by their declaration and by what they are of it.
Tag(s) == <<s.node, s.as>>

\* What kinds of declarations are declared as.
Has(kind, as) ==
    \/ as = "field" /\ kind \in FieldKinds
    \/ as = "oneof" /\ kind \in {"oneof", "optional"}
    \/ as = "type" /\ kind \in TypeKinds
    \/ as \in {"key", "element"} /\ kind = "map"
    \/ as \in {"extension", "enum", "value", "service", "method"} /\ kind = as

As == {"field", "oneof", "type", "key", "element", "extension", "enum", "value", "service", "method"}
Tags(file) == {t \in (DOMAIN file.nodes) \X As : Has(file.nodes[t[1]].kind, t[2])}

\* The symbol has the name and the scope of what it is.
IsSymbol(file, s) ==
    LET d == file.nodes[s.node]
        sc == Scopes(file)
    IN  /\ s = Symbol(s.node, s.as, s.name, s.scope, s.enum)
        /\ s.as = "field" => s.name = FieldName(d)
        /\ s.as = "oneof" => \E o \in Range(Oneofs(file, d.in)) : o.node = s.node /\ s.name = o.name
        /\ s.as = "type" => s.name = TypeName(d)
        /\ s.as = "key" => s.name = <<"key">>
        /\ s.as = "element" => s.name = <<"value">>
        /\ s.as \in {"extension", "enum", "value", "service", "method"} => s.name = d.name
        /\ s.as \in {"key", "element"} => s.scope = sc[s.node]
        /\ s.as = "value" => s.scope = sc[file.nodes[d.in].in] /\ s.enum = file.nodes[d.in].name
        /\ s.as \notin {"key", "element", "value"} => s.scope = sc[d.in]
        /\ s.as # "value" => s.enum = NoEnum

\* The sequence has the symbols with these tags and no others, each once.
Lists(file, s, T) ==
    /\ IsSeq(s)
    /\ \A k \in DOMAIN s : Tag(s[k]) \in T /\ IsSymbol(file, s[k])
    /\ \A t \in T : \E k \in DOMAIN s : Tag(s[k]) = t
    /\ \A j, k \in DOMAIN s : Tag(s[j]) = Tag(s[k]) => j = k

\* A sequence that is made of another, one symbol for each element.
LEMMA ListsEach ==
    ASSUME NEW file, NEW s, IsSeq(s), NEW u, u = [k \in DOMAIN s |-> u[k]], NEW T,
           \A k \in DOMAIN s : Tag(u[k]) \in T /\ IsSymbol(file, u[k]),
           \A t \in T : \E k \in DOMAIN s : Tag(u[k]) = t,
           \A j, k \in DOMAIN s : Tag(u[j]) = Tag(u[k]) => j = k
    PROVE  Lists(file, u, T)
  <1>1. IsSeq(u) /\ DOMAIN u = DOMAIN s
    BY ForEach
  <1>. QED  BY <1>1 DEF Lists

LEMMA ListsConcat ==
    ASSUME NEW file, NEW s, NEW S, Lists(file, s, S), NEW u, NEW U, Lists(file, u, U),
           \A t \in S : t \notin U, NEW T, \A t : t \in T <=> t \in S \/ t \in U
    PROVE  Lists(file, s \o u, T)
  <1>. DEFINE R == Range(s) \cup Range(u)
  <1>1. s \in Seq(R) /\ u \in Seq(R)
    BY SeqMonotonic DEF Lists, IsSeq
  <1>2. PICK w : w = s \o u
    OBVIOUS
  <1>3. PICK m \in Nat, n \in Nat : /\ m = Len(s) /\ DOMAIN s = 1 .. m
                                    /\ n = Len(u) /\ DOMAIN u = 1 .. n
    <2>1. Len(s) \in Nat /\ DOMAIN s = 1 .. Len(s) /\ Len(u) \in Nat /\ DOMAIN u = 1 .. Len(u)
      BY SeqIs DEF Lists
    <2>. QED  BY <2>1
  <1>4. /\ w \in Seq(R) /\ Len(w) = m + n
        /\ \A k \in 1 .. m + n : w[k] = IF k <= m THEN s[k] ELSE u[k - m]
    <2>. HIDE DEF R
    <2>. QED  BY <1>1, <1>2, <1>3, ConcatProperties
  <1>5. IsSeq(w) /\ DOMAIN w = 1 .. m + n
    BY <1>4, IsSeqOf, SeqIs
  <1>6. ASSUME NEW k \in 1 .. m + n
        PROVE  \/ k \in 1 .. m /\ w[k] = s[k]
               \/ k - m \in 1 .. n /\ w[k] = u[k - m]
    BY <1>4
  <1>7. /\ \A k \in 1 .. m : k \in 1 .. m + n /\ w[k] = s[k]
        /\ \A k \in 1 .. n : m + k \in 1 .. m + n /\ w[m + k] = u[k]
    <2>1. ASSUME NEW k \in 1 .. n PROVE m + k \in 1 .. m + n /\ w[m + k] = u[k]
      <3>1. m + k \in 1 .. m + n /\ ~ (m + k <= m) /\ (m + k) - m = k
        OBVIOUS
      <3>. QED  BY <1>4, <3>1
    <2>. QED  BY <1>4, <2>1
  <1>. HIDE DEF R
  <1>8. \A k \in 1 .. m : Tag(s[k]) \in T /\ IsSymbol(file, s[k])
    <2>1. ASSUME NEW k \in DOMAIN s PROVE Tag(s[k]) \in T /\ IsSymbol(file, s[k])
      <3>1. Tag(s[k]) \in S /\ IsSymbol(file, s[k])
        BY DEF Lists
      <3>. QED  BY <3>1
    <2>. QED  BY <1>3, <2>1
  <1>9. \A k \in 1 .. n : Tag(u[k]) \in T /\ IsSymbol(file, u[k])
    <2>1. ASSUME NEW k \in DOMAIN u PROVE Tag(u[k]) \in T /\ IsSymbol(file, u[k])
      <3>1. Tag(u[k]) \in U /\ IsSymbol(file, u[k])
        BY DEF Lists
      <3>. QED  BY <3>1
    <2>. QED  BY <1>3, <2>1
  <1>10. ASSUME NEW k \in DOMAIN w PROVE Tag(w[k]) \in T /\ IsSymbol(file, w[k])
    <2>1. CASE k \in 1 .. m /\ w[k] = s[k]
      BY <1>8, <2>1
    <2>2. CASE k - m \in 1 .. n /\ w[k] = u[k - m]
      <3>1. Tag(u[k - m]) \in T /\ IsSymbol(file, u[k - m])
        BY <1>9, <2>2
      <3>. QED  BY <2>2, <3>1
    <2>. QED  BY <1>5, <1>6, <2>1, <2>2
  <1>11. ASSUME NEW t \in T PROVE \E k \in DOMAIN w : Tag(w[k]) = t
    <2>1. CASE t \in S
      <3>1. PICK k \in 1 .. m : Tag(s[k]) = t
        BY <1>3, <2>1 DEF Lists
      <3>. QED  BY <1>5, <1>7, <3>1
    <2>2. CASE t \in U
      <3>1. PICK k \in 1 .. n : Tag(u[k]) = t
        BY <1>3, <2>2 DEF Lists
      <3>. QED  BY <1>5, <1>7, <3>1
    <2>. QED  BY <1>11, <2>1, <2>2
  <1>12. ASSUME NEW j \in DOMAIN w, NEW k \in DOMAIN w, Tag(w[j]) = Tag(w[k]) PROVE j = k
    <2>1. CASE j \in 1 .. m /\ w[j] = s[j] /\ k \in 1 .. m /\ w[k] = s[k]
      BY <1>3, <1>12, <2>1 DEF Lists
    <2>2. CASE j - m \in 1 .. n /\ w[j] = u[j - m] /\ k - m \in 1 .. n /\ w[k] = u[k - m]
      <3>1. j - m = k - m
        BY <1>3, <1>12, <2>2 DEF Lists
      <3>. QED  BY <1>5, <3>1
    <2>3. CASE j \in 1 .. m /\ w[j] = s[j] /\ k - m \in 1 .. n /\ w[k] = u[k - m]
      BY <1>3, <1>12, <2>3 DEF Lists
    <2>4. CASE j - m \in 1 .. n /\ w[j] = u[j - m] /\ k \in 1 .. m /\ w[k] = s[k]
      BY <1>3, <1>12, <2>4 DEF Lists
    <2>. QED  BY <1>5, <1>6, <2>1, <2>2, <2>3, <2>4
  <1>. QED  BY <1>2, <1>5, <1>10, <1>11, <1>12 DEF Lists

LEMMA ListsOne ==
    ASSUME NEW file, NEW x, IsSymbol(file, x)
    PROVE  Lists(file, <<x>>, {Tag(x)})
  <1>1. <<x>> \in Seq({x}) /\ DOMAIN <<x>> = {1} /\ <<x>>[1] = x
    OBVIOUS
  <1>2. IsSeq(<<x>>)
    BY <1>1, IsSeqOf
  <1>. QED  BY <1>1, <1>2 DEF Lists

LEMMA ListsAppend ==
    ASSUME NEW file, NEW s, NEW S, Lists(file, s, S), NEW x, IsSymbol(file, x), Tag(x) \notin S,
           NEW T, \A t : t \in T <=> t \in S \/ t = Tag(x)
    PROVE  Lists(file, Append(s, x), T)
  <1>1. s \in Seq(Range(s) \cup {x}) /\ x \in Range(s) \cup {x}
    BY SeqMonotonic DEF Lists, IsSeq
  <1>2. Append(s, x) = s \o <<x>>
    BY <1>1, AppendIsConcat
  <1>3. Lists(file, s \o <<x>>, T)
    <2>1. \A t : t \in T <=> t \in S \/ t \in {Tag(x)}
      OBVIOUS
    <2>2. \A t \in S : t \notin {Tag(x)}
      OBVIOUS
    <2>3. Lists(file, <<x>>, {Tag(x)})
      BY ListsOne
    <2>. QED  BY <2>1, <2>2, <2>3, ListsConcat
  <1>. QED  BY <1>2, <1>3

\* Sequences of different symbols, joined.
LEMMA ListsFlatten ==
    ASSUME NEW file, NEW f, IsSeq(f), NEW P, \A k \in DOMAIN f : Lists(file, f[k], P[k]),
           \A j, k \in DOMAIN f : j # k => \A t \in P[j] : t \notin P[k],
           NEW T, \A t : t \in T <=> \E k \in DOMAIN f : t \in P[k]
    PROVE  Lists(file, FlattenSeq(f), T)
  <1>1. PICK n \in Nat : n = Len(f) /\ DOMAIN f = 1 .. n
    <2>1. Len(f) \in Nat /\ DOMAIN f = 1 .. Len(f)
      BY SeqIs
    <2>. QED  BY <2>1
  <1>2. CASE n = 0
    <2>1. FlattenSeq(f) = f /\ DOMAIN f = {}
      BY <1>1, <1>2 DEF FlattenSeq
    <2>2. \A t : t \notin T
      BY <2>1
    <2>. QED  BY <2>1, <2>2 DEF Lists
  <1>3. CASE n # 0
    <2>1. PICK g : FlattensTo(f, g) /\ FlattenSeq(f) = g[n]
      BY <1>1, <1>3, FlattenRuns
    <2>. DEFINE Upto(k) == UNION {P[i] : i \in 1 .. k}
                Q == {k \in 0 .. n : k = 0 \/ Lists(file, g[k], Upto(k))}
    <2>2. \A k, t : t \in Upto(k) <=> \E i \in 1 .. k : t \in P[i]
      OBVIOUS
    <2>. HIDE DEF Upto
    <2>3. 0 \in Q
      BY <1>1
    <2>4. ASSUME NEW k \in 1 .. n, k - 1 \in Q PROVE k \in Q
      <3>1. g[k] = IF k = 1 THEN f[k] ELSE g[k - 1] \o f[k]
        BY <1>1, <2>1 DEF FlattensTo
      <3>2. CASE k = 1
        <4>1. g[k] = f[k] /\ \A i : i \in 1 .. k <=> i = k
          BY <3>1, <3>2
        <4>2. Upto(k) = P[k]
          <5>1. \A t : t \in Upto(k) <=> t \in P[k]
            BY <2>2, <4>1
          <5>. QED  BY <5>1 DEF Upto
        <4>3. Lists(file, g[k], Upto(k))
          BY <1>1, <4>1, <4>2
        <4>. QED  BY <1>1, <4>3
      <3>3. CASE k # 1
        <4>1. k - 1 # 0 /\ Lists(file, g[k - 1], Upto(k - 1))
          BY <1>1, <2>4, <3>3
        <4>2. Lists(file, f[k], P[k])
          BY <1>1
        <4>3. \A i \in 1 .. k : i = k \/ i \in 1 .. k - 1
          BY <1>1
        <4>4. \A i \in 1 .. k - 1 : i \in 1 .. k /\ i \in DOMAIN f /\ i # k
          BY <1>1
        <4>5. \A t : t \in Upto(k) <=> t \in Upto(k - 1) \/ t \in P[k]
          <5>1. k \in 1 .. k
            BY <1>1
          <5>. QED  BY <2>2, <4>3, <4>4, <5>1
        <4>6. \A t \in Upto(k - 1) : t \notin P[k]
          BY <1>1, <2>2, <4>4
        <4>7. PICK gk : gk = g[k - 1]
          OBVIOUS
        <4>8. Lists(file, gk \o f[k], Upto(k))
          BY <4>1, <4>2, <4>5, <4>6, <4>7, ListsConcat
        <4>9. Lists(file, g[k], Upto(k))
          BY <3>1, <3>3, <4>7, <4>8
        <4>. QED  BY <1>1, <4>9
      <3>. QED  BY <3>2, <3>3
    <2>5. \A k \in 0 .. n : k \in Q
      <3>. HIDE DEF Q
      <3>. QED  BY <1>1, <2>3, <2>4, UpTo
    <2>6. Lists(file, g[n], Upto(n))
      <3>1. n \in Q
        <4>. HIDE DEF Q
        <4>. QED  BY <1>1, <2>5
      <3>. QED  BY <1>3, <3>1
    <2>7. Upto(n) = T
      BY <1>1, <2>2
    <2>. QED  BY <2>1, <2>6, <2>7
  <1>. QED  BY <1>2, <1>3

-------------------------------------------------------------------------------
(* The oneofs of a message. *)

LEMMA FiniteImage ==
    ASSUME NEW n \in Nat, NEW f, NEW T, \A i \in 1 .. n : f[i] \in T,
           \A t \in T : \E i \in 1 .. n : f[i] = t
    PROVE  IsFiniteSet(T)
  <1>. DEFINE g == [i \in 1 .. n |-> f[i]]
  <1>1. g \in Surjection(1 .. n, T)
    BY DEF Surjection
  <1>. HIDE DEF g
  <1>. QED  BY <1>1, FS_NatSurjection DEF ExistsSurjection

LEMMA ConcatOf ==
    ASSUME NEW s, NEW u, IsSeq(s), IsSeq(u)
    PROVE  IsSeq(s \o u) /\ Len(s \o u) = Len(s) + Len(u)
  <1>. DEFINE R == Range(s) \cup Range(u)
  <1>1. s \in Seq(R) /\ u \in Seq(R)
    BY SeqMonotonic DEF IsSeq
  <1>. HIDE DEF R
  <1>. QED  BY <1>1, ConcatProperties, IsSeqOf

\* Of the names with one "X" more each, one is not taken: there are more than are.
LEMMA FreshIsFree ==
    ASSUME NEW name, IsSeq(name), NEW oneofs, IsFiniteSet(oneofs), NEW fields, IsFiniteSet(fields)
    PROVE  Fresh(name, oneofs, fields) \notin oneofs /\ Fresh(name, oneofs, fields) \notin fields
  <1>. DEFINE Xs(k) == [i \in 1 .. k |-> "X"]
              taken == oneofs \cup fields
              free == {j \in 0 .. Cardinality(taken) : Xs(j) \o name \notin taken}
  <1>1. IsFiniteSet(taken)
    BY FS_Union
  <1>2. PICK n \in Nat : n = Cardinality(taken)
    BY <1>1, FS_CardinalityType
  <1>3. ASSUME NEW j \in 0 .. n PROVE Len(Xs(j) \o name) = j + Len(name)
    <2>1. IsSeq(Xs(j)) /\ Len(Xs(j)) = j
      <3>1. Xs(j) = [i \in 1 .. j |-> Xs(j)[i]] /\ j \in Nat
        OBVIOUS
      <3>. HIDE DEF Xs
      <3>. QED  BY <3>1, IsSeqOver
    <2>. HIDE DEF Xs
    <2>. QED  BY <2>1, ConcatOf
  <1>4. Len(name) \in Nat
    BY SeqIs
  <1>5. free # {}
    <2>. SUFFICES ASSUME free = {} PROVE FALSE
      OBVIOUS
    <2>. DEFINE f == [j \in 0 .. n |-> Xs(j) \o name]
    <2>. HIDE DEF Xs
    <2>1. f \in [0 .. n -> taken]
      BY <1>2
    <2>2. IsFiniteSet(0 .. n) /\ Cardinality(0 .. n) = n + 1
      BY FS_Interval
    <2>3. \E x, y \in 0 .. n : x # y /\ f[x] = f[y]
      <3>1. Cardinality(taken) < Cardinality(0 .. n)
        BY <1>2, <2>2
      <3>. HIDE DEF f, taken
      <3>. QED  BY <1>1, <2>1, <2>2, <3>1, FS_PigeonHole
    <2>4. PICK x \in 0 .. n, y \in 0 .. n : x # y /\ f[x] = f[y]
      BY <2>3
    <2>5. Xs(x) \o name = Xs(y) \o name
      BY <2>4
    <2>6. x + Len(name) = y + Len(name)
      BY <1>3, <2>5
    <2>. QED  BY <1>4, <2>4, <2>6
  <1>6. Min(free) \in free
    <2>1. free \in SUBSET Nat
      BY <1>2
    <2>. HIDE DEF free
    <2>. QED  BY <1>5, <2>1, MinOfIndices
  <1>7. Fresh(name, oneofs, fields) = Xs(Min(free)) \o name
    BY DEF Fresh
  <1>8. Xs(Min(free)) \o name \notin taken
    <2>1. \A j \in free : Xs(j) \o name \notin taken
      OBVIOUS
    <2>. HIDE DEF free, Xs, taken
    <2>. QED  BY <1>6, <2>1
  <1>. QED  BY <1>7, <1>8

\* Each oneof of a message, declared or made, once; the names of those made are taken by no
\* other oneof and by no field.
AreOneofs(s, file, m) ==
    /\ IsSeq(s)
    /\ \A k \in DOMAIN s :
          /\ s[k].node \in DOMAIN file.nodes /\ file.nodes[s[k].node].in = m
          /\ file.nodes[s[k].node].kind \in {"oneof", "optional"}
          /\ file.nodes[s[k].node].kind = "oneof" => s[k].name = file.nodes[s[k].node].name
          /\ file.nodes[s[k].node].kind = "optional" =>
                /\ \A j \in DOMAIN s : s[j].name = s[k].name => j = k
                /\ \A i \in DOMAIN file.nodes :
                      file.nodes[i].in = m /\ file.nodes[i].kind \in FieldKinds =>
                         FieldName(file.nodes[i]) # s[k].name
    /\ \A i \in DOMAIN file.nodes :
          file.nodes[i].in = m /\ file.nodes[i].kind \in {"oneof", "optional"} => \E k \in DOMAIN s : s[k].node = i
    /\ \A j, k \in DOMAIN s : s[j].node = s[k].node => j = k

LEMMA NameIs ==
    ASSUME NEW file, IsFile(file), NEW i \in DOMAIN file.nodes
    PROVE  IsSeq(file.nodes[i].name) /\ IsSeq(syntheticOneofName(file.nodes[i].name))
  <1>1. PICK name : name = file.nodes[i].name /\ IsSeq(name)
    BY DEF IsFile, IsSeq
  <1>2. <<"_">> \in Seq({"_"})
    OBVIOUS
  <1>3. IsSeq(<<"_">> \o name)
    BY <1>1, <1>2, IsSeqOf, ConcatOf
  <1>. QED  BY <1>1, <1>3 DEF syntheticOneofName

\* The oneofs of a message have names of their own, and the one made for an optional field
\* has the name of no field: prefixed with X as often as it takes, it is at last free, since
\* there are more such names than are taken (parseMessage).
THEOREM OneofsAre ==
    ASSUME NEW file, IsFile(file), NEW m
    PROVE  AreOneofs(Oneofs(file, m), file, m)
  <1>. DEFINE declared == Of(file, m, {"oneof"})
              optionals == Of(file, m, {"optional"})
              fields == {FieldName(file.nodes[i]) : i \in Range(Fields(file, m))}
              n == Len(optionals)
              c == Len(declared)
              base == [j \in DOMAIN declared |-> [node |-> declared[j], name |-> file.nodes[declared[j]].name]]
              Named(given) == {o.name : o \in Range(given)}
              Made(given, i) ==
                 [node |-> i, name |-> Fresh(syntheticOneofName(file.nodes[i].name), Named(given), fields)]
              Turn(before, k) == Append(before, Made(before, optionals[k]))
              Solves(g) == g = [k \in 0 .. n |-> IF k = 0 THEN base
                                                 ELSE LET before == g[k - 1]
                                                      IN  Append(before, Made(before, optionals[k]))]
              Upto(g, k) == \A i \in 0 .. k : g[i] = IF i = 0 THEN base ELSE Turn(g[i - 1], i)
              P == {k \in 0 .. n : \E g : Upto(g, k)}
  <1>1. /\ n \in Nat /\ DOMAIN optionals = 1 .. n /\ c \in Nat /\ DOMAIN declared = 1 .. c
        /\ AreIn(optionals, file, m, {"optional"}) /\ AreIn(declared, file, m, {"oneof"})
    <2>1. AreIn(optionals, file, m, {"optional"}) /\ AreIn(declared, file, m, {"oneof"})
      BY OfAreIn
    <2>. HIDE DEF optionals, declared
    <2>. QED  BY <2>1, InOnce
  <1>2. Oneofs(file, m) = (CHOOSE g : Solves(g))[n]
    BY DEF Oneofs
  <1>3. IsSeq(base) /\ DOMAIN base = 1 .. c
    <2>1. base = [j \in 1 .. c |-> base[j]]
      BY <1>1
    <2>. HIDE DEF base, c
    <2>. QED  BY <1>1, <2>1, IsSeqOver
  <1>4. \A j \in 1 .. c : base[j].node = declared[j] /\ base[j].name = file.nodes[declared[j]].name
    BY <1>1
  <1>5. /\ IsFiniteSet(fields)
        /\ \A i \in DOMAIN file.nodes :
              file.nodes[i].in = m /\ file.nodes[i].kind \in FieldKinds => FieldName(file.nodes[i]) \in fields
    <2>1. PICK l : l = Fields(file, m) /\ AreIn(l, file, m, FieldKinds)
      BY OfAreIn DEF Fields
    <2>2. PICK h \in Nat : h = Len(l) /\ DOMAIN l = 1 .. h
      <3>1. Len(l) \in Nat /\ DOMAIN l = 1 .. Len(l)
        BY <2>1, InOnce
      <3>. QED  BY <3>1
    <2>3. \A x : x \in fields <=> \E k \in 1 .. h : x = FieldName(file.nodes[l[k]])
      BY <2>1, <2>2 DEF Range
    <2>. DEFINE f == [k \in 1 .. h |-> FieldName(file.nodes[l[k]])]
    <2>4. (\A k \in 1 .. h : f[k] \in fields) /\ \A x \in fields : \E k \in 1 .. h : f[k] = x
      <3>. HIDE DEF fields
      <3>. QED  BY <2>3
    <2>5. IsFiniteSet(fields)
      <3>. HIDE DEF fields, f
      <3>. QED  BY <2>4, FiniteImage
    <2>6. ASSUME NEW i \in DOMAIN file.nodes, file.nodes[i].in = m, file.nodes[i].kind \in FieldKinds
          PROVE  FieldName(file.nodes[i]) \in fields
      <3>1. PICK k \in 1 .. h : l[k] = i
        BY <2>1, <2>2, <2>6 DEF AreIn
      <3>. HIDE DEF fields
      <3>. QED  BY <2>3, <3>1
    <2>. QED  BY <2>5, <2>6
  <1>. HIDE DEF base, Turn, Made, n, fields
  <1>6. 0 \in P
    <2>1. Upto([i \in {0} |-> base], 0)
      OBVIOUS
    <2>. HIDE DEF Upto
    <2>. QED  BY <1>1, <2>1
  <1>7. ASSUME NEW k \in 1 .. n, k - 1 \in P PROVE k \in P
    <2>1. PICK g : Upto(g, k - 1)
      BY <1>7
    <2>. DEFINE h == [i \in 0 .. k |-> IF i < k THEN g[i] ELSE Turn(g[k - 1], k)]
    <2>2. ASSUME NEW i \in 0 .. k
          PROVE  h[i] = IF i = 0 THEN base ELSE Turn(h[i - 1], i)
      <3>1. i # 0 => i - 1 \in 0 .. k /\ i - 1 < k
        BY <1>1
      <3>2. i # 0 => h[i - 1] = g[i - 1]
        BY <3>1
      <3>3. CASE i < k
        <4>1. h[i] = g[i] /\ i \in 0 .. k - 1
          BY <1>1, <3>3
        <4>. HIDE DEF h
        <4>. QED  BY <2>1, <3>2, <4>1
      <3>4. CASE i = k
        <4>1. h[i] = Turn(g[k - 1], k) /\ k # 0
          BY <1>1, <3>4
        <4>. HIDE DEF h
        <4>. QED  BY <3>2, <3>4, <4>1
      <3>5. i < k \/ i = k
        BY <1>1
      <3>. QED  BY <3>3, <3>4, <3>5
    <2>3. Upto(h, k)
      <3>. HIDE DEF h
      <3>. QED  BY <2>2
    <2>. HIDE DEF h, Upto
    <2>. QED  BY <1>1, <2>3
  <1>8. \A k \in 0 .. n : k \in P
    <2>. HIDE DEF P
    <2>. QED  BY <1>1, <1>6, <1>7, UpTo
  <1>9. PICK g : Upto(g, n)
    <2>1. n \in P
      <3>. HIDE DEF P
      <3>. QED  BY <1>1, <1>8
    <2>. QED  BY <2>1
  <1>10. \E s : Solves(s)
    <2>. DEFINE s == [i \in 0 .. n |-> g[i]]
    <2>1. \A i \in 0 .. n : i # 0 => i - 1 \in 0 .. n
      BY <1>1
    <2>2. \A i \in 0 .. n : s[i] = IF i = 0 THEN base ELSE Turn(s[i - 1], i)
      BY <1>9, <2>1
    <2>3. Solves(s)
      <3>1. s = [i \in 0 .. n |-> s[i]]
        OBVIOUS
      <3>. HIDE DEF s
      <3>. QED  BY <2>2, <3>1 DEF Turn
    <2>. HIDE DEF Solves
    <2>. QED  BY <2>3
  <1>11. PICK s : Solves(s) /\ Oneofs(file, m) = s[n]
    <2>. HIDE DEF Solves
    <2>. QED  BY <1>2, <1>10
  <1>12. \A k \in 0 .. n : s[k] = IF k = 0 THEN base ELSE Turn(s[k - 1], k)
    BY <1>11 DEF Turn
  <1>. DEFINE Good(t, k) ==
                 /\ IsSeq(t) /\ Len(t) = c + k /\ DOMAIN t = 1 .. c + k
                 /\ \A j \in 1 .. c : t[j] = base[j]
                 /\ \A i \in 1 .. k : /\ t[c + i].node = optionals[i] /\ t[c + i].name \notin fields
                                      /\ \A j \in 1 .. c + i - 1 : t[j].name # t[c + i].name
              Q == {k \in 0 .. n : Good(s[k], k)}
  <1>. HIDE DEF c, optionals, declared
  <1>13. 0 \in Q
    <2>1. s[0] = base /\ 0 \in 0 .. n /\ Len(base) = c
      BY <1>1, <1>3, <1>12, LenProperties DEF IsSeq
    <2>2. Good(base, 0)
      BY <1>1, <1>3, <2>1
    <2>. HIDE DEF Good
    <2>. QED  BY <2>1, <2>2
  <1>14. ASSUME NEW k \in 1 .. n, k - 1 \in Q PROVE k \in Q
    <2>1. k \in 0 .. n /\ k # 0 /\ k - 1 \in Nat
      BY <1>1
    <2>2. PICK t : t = s[k - 1] /\ Good(t, k - 1)
      BY <1>14
    <2>3. s[k] = Append(t, Made(t, optionals[k]))
      BY <1>12, <2>1, <2>2 DEF Turn
    <2>4. PICK o : o = Made(t, optionals[k])
      OBVIOUS
    <2>5. IsFiniteSet(Named(t)) /\ \A j \in DOMAIN t : t[j].name \in Named(t)
      <3>1. PICK h \in Nat : DOMAIN t = 1 .. h
        <4>1. c + (k - 1) \in Nat
          BY <1>1, <2>1
        <4>. QED  BY <2>2, <4>1
      <3>2. \A x : x \in Named(t) <=> \E j \in 1 .. h : x = t[j].name
        BY <3>1 DEF Range
      <3>. DEFINE f == [j \in 1 .. h |-> t[j].name]
      <3>3. (\A j \in 1 .. h : f[j] \in Named(t)) /\ \A x \in Named(t) : \E j \in 1 .. h : f[j] = x
        <4>. HIDE DEF Named
        <4>. QED  BY <3>2
      <3>4. IsFiniteSet(Named(t))
        <4>. HIDE DEF Named, f
        <4>. QED  BY <3>3, FiniteImage
      <3>. HIDE DEF Named
      <3>. QED  BY <3>1, <3>2, <3>4
    <2>6. o.node = optionals[k] /\ o.name \notin Named(t) /\ o.name \notin fields
      <3>1. optionals[k] \in DOMAIN file.nodes
        BY <1>1 DEF AreIn, n
      <3>2. IsSeq(syntheticOneofName(file.nodes[optionals[k]].name))
        BY <3>1, NameIs
      <3>3. /\ o.node = optionals[k]
            /\ o.name = Fresh(syntheticOneofName(file.nodes[optionals[k]].name), Named(t), fields)
        <4>. HIDE DEF Named
        <4>. QED  BY <2>4 DEF Made
      <3>. HIDE DEF Named
      <3>. QED  BY <1>5, <2>5, <3>2, <3>3, FreshIsFree
    <2>. HIDE DEF Named
    <2>7. PICK u : u = Append(t, o) /\ s[k] = u
      BY <2>3, <2>4
    <2>8. /\ IsSeq(u) /\ Len(u) = c + k /\ DOMAIN u = 1 .. c + k
          /\ \A j \in 1 .. c + (k - 1) : u[j] = t[j]
          /\ u[c + k] = o
      <3>1. t \in Seq(Range(t) \cup {o}) /\ Len(t) = c + (k - 1) /\ o \in Range(t) \cup {o}
        BY <2>2, SeqMonotonic DEF IsSeq
      <3>2. /\ u \in Seq(Range(t) \cup {o}) /\ Len(u) = Len(t) + 1
            /\ \A j \in 1 .. Len(t) : u[j] = t[j]
            /\ u[Len(t) + 1] = o
        BY <2>7, <3>1, AppendProperties
      <3>3. c + (k - 1) + 1 = c + k
        BY <1>1, <2>1
      <3>. QED  BY <3>1, <3>2, <3>3, IsSeqOf, SeqIs
    <2>9. \A j \in 1 .. c : u[j] = base[j]
      BY <1>1, <2>1, <2>2, <2>8
    <2>10. ASSUME NEW i \in 1 .. k
           PROVE  /\ u[c + i].node = optionals[i] /\ u[c + i].name \notin fields
                  /\ \A j \in 1 .. c + i - 1 : u[j].name # u[c + i].name
      <3>1. CASE i = k
        <4>1. \A j \in 1 .. c + i - 1 : j \in 1 .. c + (k - 1) /\ j \in DOMAIN t
          BY <1>1, <2>1, <2>2, <3>1
        <4>2. \A j \in 1 .. c + i - 1 : u[j].name \in Named(t)
          BY <2>5, <2>8, <4>1
        <4>. QED  BY <2>6, <2>8, <3>1, <4>2
      <3>2. CASE i # k
        <4>1. i \in 1 .. k - 1 /\ c + i \in 1 .. c + (k - 1)
              /\ \A j \in 1 .. c + i - 1 : j \in 1 .. c + (k - 1)
          BY <1>1, <3>2
        <4>2. /\ t[c + i].node = optionals[i] /\ t[c + i].name \notin fields
              /\ \A j \in 1 .. c + i - 1 : t[j].name # t[c + i].name
          BY <2>2, <4>1
        <4>3. u[c + i] = t[c + i] /\ \A j \in 1 .. c + i - 1 : u[j] = t[j]
          BY <2>8, <4>1
        <4>. HIDE DEF Good
        <4>. QED  BY <4>2, <4>3
      <3>. QED  BY <3>1, <3>2
    <2>11. Good(u, k)
      BY <2>8, <2>9, <2>10
    <2>. HIDE DEF Good
    <2>. QED  BY <2>1, <2>7, <2>11
  <1>15. PICK t : t = Oneofs(file, m) /\ Good(t, n)
    <2>1. \A k \in 0 .. n : k \in Q
      <3>. HIDE DEF Q
      <3>. QED  BY <1>1, <1>13, <1>14, UpTo
    <2>2. n \in 0 .. n
      BY <1>1
    <2>3. Good(s[n], n)
      <3>. HIDE DEF Good
      <3>. QED  BY <2>1, <2>2
    <2>. HIDE DEF Good
    <2>. QED  BY <1>11, <2>3
  <1>16. \A j \in 1 .. c + n : j \in 1 .. c \/ \E i \in 1 .. n : j = c + i
    <2>. SUFFICES ASSUME NEW j \in 1 .. c + n, j \notin 1 .. c PROVE \E i \in 1 .. n : j = c + i
      OBVIOUS
    <2>1. j - c \in 1 .. n /\ j = c + (j - c)
      BY <1>1
    <2>. QED  BY <2>1
  <1>17. \A j \in 1 .. c : /\ t[j].node = declared[j] /\ t[j].name = file.nodes[declared[j]].name
                           /\ declared[j] \in DOMAIN file.nodes
                           /\ file.nodes[declared[j]].in = m /\ file.nodes[declared[j]].kind = "oneof"
    <2>1. \A j \in 1 .. c : t[j] = base[j]
      BY <1>15
    <2>. HIDE DEF Good
    <2>2. \A j \in 1 .. c : /\ declared[j] \in DOMAIN file.nodes
                            /\ file.nodes[declared[j]].in = m /\ file.nodes[declared[j]].kind = "oneof"
      BY <1>1 DEF AreIn, c
    <2>3. \A j \in 1 .. c : t[j].node = declared[j] /\ t[j].name = file.nodes[declared[j]].name
      BY <1>4, <2>1
    <2>. QED  BY <2>2, <2>3
  <1>18. \A i \in 1 .. n : /\ t[c + i].node = optionals[i] /\ optionals[i] \in DOMAIN file.nodes
                           /\ file.nodes[optionals[i]].in = m /\ file.nodes[optionals[i]].kind = "optional"
    BY <1>1, <1>15 DEF AreIn, n
  <1>19. /\ \A i, j \in 1 .. c : declared[i] = declared[j] => i = j
         /\ \A i, j \in 1 .. n : optionals[i] = optionals[j] => i = j
    BY <1>1, InOnce DEF c, n
  <1>20. \A i \in DOMAIN file.nodes : file.nodes[i].in = m =>
            /\ file.nodes[i].kind = "oneof" => \E j \in 1 .. c : declared[j] = i
            /\ file.nodes[i].kind = "optional" => \E j \in 1 .. n : optionals[j] = i
    BY <1>1 DEF AreIn, c, n
  <1>21. /\ \A j \in 1 .. c : j \in DOMAIN t
         /\ \A i \in 1 .. n : c + i \in DOMAIN t
    BY <1>1, <1>15
  <1>22. \A j, k \in DOMAIN t : t[j].node = t[k].node => j = k
    <2>. SUFFICES ASSUME NEW j \in DOMAIN t, NEW k \in DOMAIN t, t[j].node = t[k].node PROVE j = k
      OBVIOUS
    <2>1. j \in 1 .. c + n /\ k \in 1 .. c + n
      BY <1>15
    <2>. HIDE DEF Good
    <2>2. CASE j \in 1 .. c /\ k \in 1 .. c
      BY <1>17, <1>19, <2>2
    <2>3. CASE j \in 1 .. c /\ k \notin 1 .. c
      <3>1. file.nodes[t[j].node].kind = "oneof" /\ file.nodes[t[k].node].kind = "optional"
        BY <1>16, <1>17, <1>18, <2>1, <2>3
      <3>. QED  BY <3>1
    <2>4. CASE j \notin 1 .. c /\ k \in 1 .. c
      <3>1. file.nodes[t[k].node].kind = "oneof" /\ file.nodes[t[j].node].kind = "optional"
        BY <1>16, <1>17, <1>18, <2>1, <2>4
      <3>. QED  BY <3>1
    <2>5. CASE j \notin 1 .. c /\ k \notin 1 .. c
      BY <1>16, <1>18, <1>19, <2>1, <2>5
    <2>. QED  BY <2>2, <2>3, <2>4, <2>5
  <1>23. ASSUME NEW k \in DOMAIN t, file.nodes[t[k].node].kind = "optional"
         PROVE  /\ \A j \in DOMAIN t : t[j].name = t[k].name => j = k
                /\ t[k].name \notin fields
    <2>1. k \in 1 .. c + n
      BY <1>15
    <2>2. PICK i \in 1 .. n : k = c + i
      <3>1. k \notin 1 .. c
        BY <1>17, <1>23
      <3>. QED  BY <1>16, <2>1, <3>1
    <2>3. t[k].name \notin fields
      BY <1>15, <2>2
    <2>4. ASSUME NEW j \in DOMAIN t, t[j].name = t[k].name, j # k PROVE FALSE
      <3>1. j \in 1 .. c + n
        BY <1>15
      <3>2. CASE j < k
        <4>1. j \in 1 .. c + i - 1
          BY <1>1, <2>2, <3>1, <3>2
        <4>. QED  BY <1>15, <2>2, <2>4, <4>1
      <3>3. CASE ~ (j < k)
        <4>1. PICK l \in 1 .. n : j = c + l
          <5>1. j \notin 1 .. c
            BY <1>1, <2>1, <2>2, <2>4, <3>1, <3>3
          <5>. HIDE DEF Good
          <5>. QED  BY <1>16, <3>1, <5>1
        <4>2. k \in 1 .. c + l - 1
          BY <1>1, <2>1, <2>2, <2>4, <3>1, <3>3, <4>1
        <4>. QED  BY <1>15, <2>4, <4>1, <4>2
      <3>. QED  BY <3>2, <3>3
    <2>. QED  BY <2>3, <2>4
  <1>24. ASSUME NEW k \in DOMAIN t
         PROVE  /\ t[k].node \in DOMAIN file.nodes /\ file.nodes[t[k].node].in = m
                /\ file.nodes[t[k].node].kind \in {"oneof", "optional"}
                /\ file.nodes[t[k].node].kind = "oneof" => t[k].name = file.nodes[t[k].node].name
    <2>1. k \in 1 .. c + n
      BY <1>15
    <2>. HIDE DEF Good
    <2>2. CASE k \in 1 .. c
      BY <1>17, <2>2
    <2>3. CASE k \notin 1 .. c
      BY <1>16, <1>18, <2>1, <2>3
    <2>. QED  BY <2>2, <2>3
  <1>25. \A i \in DOMAIN file.nodes :
            file.nodes[i].in = m /\ file.nodes[i].kind \in {"oneof", "optional"} => \E k \in DOMAIN t : t[k].node = i
    <2>. HIDE DEF Good
    <2>. QED  BY <1>17, <1>18, <1>20, <1>21
  <1>26. AreOneofs(t, file, m)
    BY <1>5, <1>15, <1>22, <1>23, <1>24, <1>25 DEF AreOneofs
  <1>. QED  BY <1>15, <1>26

-------------------------------------------------------------------------------
(* The declarations in a declaration. *)

\* All that is in the declaration at m, or in what is in it.
Holds(file, m, C) == \A i \in DOMAIN file.nodes : file.nodes[i].in = m \/ file.nodes[i].in \in C => i \in C
Beneath(file, m) == {i \in DOMAIN file.nodes : \A C \in SUBSET DOMAIN file.nodes : Holds(file, m, C) => i \in C}

LEMMA BelowWithin ==
    ASSUME NEW file, NEW m, NEW C \in SUBSET DOMAIN file.nodes, Holds(file, m, C), NEW i \in Beneath(file, m)
    PROVE  i \in C
  BY DEF Beneath

LEMMA BelowIs ==
    ASSUME NEW file, IsFile(file), NEW m
    PROVE  /\ \A i \in DOMAIN file.nodes :
                 i \in Beneath(file, m) <=> file.nodes[i].in = m \/ file.nodes[i].in \in Beneath(file, m)
           /\ Beneath(file, m) \in SUBSET DOMAIN file.nodes
           /\ \A i \in DOMAIN file.nodes : i \in Int /\ file.nodes[i].in \in Int /\ file.nodes[i].in < i
           /\ m \in Int => \A i \in Beneath(file, m) : m < i
  <1>1. Len(file.nodes) \in Nat /\ DOMAIN file.nodes = 1 .. Len(file.nodes)
    BY LenProperties DEF IsFile
  <1>2. ASSUME NEW i \in DOMAIN file.nodes PROVE i \in Int /\ file.nodes[i].in \in Int /\ file.nodes[i].in < i
    <2>1. file.nodes[i].in \in 0 .. i - 1
      BY DEF IsFile
    <2>. QED  BY <1>1, <2>1
  <1>3. Holds(file, m, Beneath(file, m)) /\ Beneath(file, m) \in SUBSET DOMAIN file.nodes
    BY DEF Beneath, Holds
  <1>. DEFINE C == {i \in DOMAIN file.nodes : file.nodes[i].in = m \/ file.nodes[i].in \in Beneath(file, m)}
  <1>4. Holds(file, m, C)
    BY <1>3 DEF Holds
  <1>5. \A i \in Beneath(file, m) : i \in C
    BY <1>4, BelowWithin
  <1>6. ASSUME m \in Int, NEW i \in Beneath(file, m) PROVE m < i
    <2>. DEFINE D == {j \in DOMAIN file.nodes : m < j}
    <2>1. Holds(file, m, D)
      BY <1>2, <1>6 DEF Holds
    <2>. QED  BY <2>1, BelowWithin
  <1>. QED  BY <1>2, <1>3, <1>5, <1>6 DEF Holds

\* What is below m is in m, or below one that is.
LEMMA BelowThrough ==
    ASSUME NEW file, IsFile(file), NEW m, NEW i \in Beneath(file, m)
    PROVE  file.nodes[i].in = m \/ \E c \in DOMAIN file.nodes : file.nodes[c].in = m /\ i \in Beneath(file, c)
  <1>. DEFINE C == {j \in DOMAIN file.nodes :
                      \/ file.nodes[j].in = m
                      \/ \E c \in DOMAIN file.nodes : file.nodes[c].in = m /\ j \in Beneath(file, c)}
  <1>1. \A c : \A j \in DOMAIN file.nodes :
           file.nodes[j].in = c \/ file.nodes[j].in \in Beneath(file, c) => j \in Beneath(file, c)
    BY BelowIs
  <1>2. \A c : \A j \in Beneath(file, c) : j \in DOMAIN file.nodes
    BY BelowIs
  <1>3. Holds(file, m, C)
    BY <1>1, <1>2 DEF Holds
  <1>. QED  BY <1>3, BelowWithin

\* And that is only one.
LEMMA BelowOne ==
    ASSUME NEW file, IsFile(file), NEW m, NEW b \in DOMAIN file.nodes, NEW c \in DOMAIN file.nodes,
           file.nodes[b].in = m, file.nodes[c].in = m
    PROVE  /\ b \notin Beneath(file, c)
           /\ \A i : i \in Beneath(file, b) /\ i \in Beneath(file, c) => b = c
  <1>1. m \in Int /\ b \in Int /\ c \in Int /\ m < b /\ m < c
    BY BelowIs
  <1>2. m \notin Beneath(file, b) /\ m \notin Beneath(file, c)
    BY <1>1, BelowIs
  <1>3. b \notin Beneath(file, c) /\ c \notin Beneath(file, b)
    BY <1>1, <1>2, BelowIs
  <1>. DEFINE C == {i \in Beneath(file, b) : i \in Beneath(file, c) => b = c}
  <1>4. \A i \in DOMAIN file.nodes :
           /\ i \in Beneath(file, b) <=> file.nodes[i].in = b \/ file.nodes[i].in \in Beneath(file, b)
           /\ i \in Beneath(file, c) <=> file.nodes[i].in = c \/ file.nodes[i].in \in Beneath(file, c)
    BY BelowIs
  <1>5. Holds(file, b, C) /\ C \in SUBSET DOMAIN file.nodes
    BY <1>3, <1>4, BelowIs DEF Holds
  <1>6. \A i \in Beneath(file, b) : i \in C
    BY <1>5, BelowWithin
  <1>. QED  BY <1>3, <1>6

\* All declarations are in the file.
LEMMA AllBelow ==
    ASSUME NEW file, IsFile(file)
    PROVE  \A i \in DOMAIN file.nodes : i \in Beneath(file, 0)
  <1>1. PICK n \in Nat : DOMAIN file.nodes = 1 .. n
    BY LenProperties DEF IsFile
  <1>. DEFINE P == {k \in 0 .. n : \A i \in 1 .. k : i \in Beneath(file, 0)}
  <1>2. 0 \in P
    BY <1>1
  <1>3. ASSUME NEW k \in 1 .. n, k - 1 \in P PROVE k \in P
    <2>1. file.nodes[k].in \in 0 .. k - 1
      BY <1>1 DEF IsFile
    <2>2. file.nodes[k].in = 0 \/ file.nodes[k].in \in 1 .. k - 1
      BY <1>1, <2>1
    <2>3. k \in Beneath(file, 0)
      BY <1>1, <1>3, <2>2, BelowIs
    <2>4. \A i \in 1 .. k : i = k \/ i \in 1 .. k - 1
      BY <1>1
    <2>. QED  BY <1>1, <1>3, <2>3, <2>4
  <1>4. \A k \in 0 .. n : k \in P
    <2>. HIDE DEF P
    <2>. QED  BY <1>1, <1>2, <1>3, UpTo
  <1>. QED  BY <1>1, <1>4

\* Nothing is in what holds nothing.
LEMMA NoneBelow ==
    ASSUME NEW file, IsFile(file), NEW c, \A i \in DOMAIN file.nodes : file.nodes[i].in # c
    PROVE  \A i : i \notin Beneath(file, c)
  <1>1. Holds(file, c, {})
    BY DEF Holds
  <1>. QED  BY <1>1, BelowWithin

\* What a message registers, given what those in it do.
InMessage(file, sc, inside, m) ==
    LET types == Types(file, m)
    IN  FieldSymbols(file, m, sc[m])
          \o Plain(file, m, "extension", sc[m])
          \o EnumSymbols(file, m, sc[m])
          \o FlattenSeq([k \in DOMAIN types |->
                Append(inside[types[k]],
                       Symbol(types[k], "type", TypeName(file.nodes[types[k]]), sc[m], NoEnum))])

InType(file, sc, inside, m) ==
    IF file.nodes[m].kind = "map" THEN EntrySymbols(m, sc[m]) ELSE InMessage(file, sc, inside, m)

\* The types in a declaration come after it.
LEMMA TypesComeAfter ==
    ASSUME NEW file, IsFile(file), NEW m \in DOMAIN file.nodes
    PROVE  /\ IsSeq(Types(file, m))
           /\ \A k \in DOMAIN Types(file, m) : Types(file, m)[k] \in m + 1 .. Len(file.nodes)
  <1>1. Len(file.nodes) \in Nat /\ DOMAIN file.nodes = 1 .. Len(file.nodes)
    BY LenProperties DEF IsFile
  <1>2. PICK l : l = Types(file, m)
    OBVIOUS
  <1>3. IsSeq(l) /\ \A k \in DOMAIN l : l[k] \in DOMAIN file.nodes /\ file.nodes[l[k]].in = m
    BY <1>2, OfIsSeq DEF Types
  <1>4. ASSUME NEW k \in DOMAIN l PROVE l[k] \in m + 1 .. Len(file.nodes)
    <2>1. PICK i \in DOMAIN file.nodes : i = l[k] /\ file.nodes[i].in = m
      BY <1>3
    <2>2. m \in 0 .. i - 1
      BY <2>1 DEF IsFile
    <2>3. i \in m + 1 .. Len(file.nodes)
      BY <1>1, <2>2
    <2>. QED  BY <2>1, <2>3
  <1>. QED  BY <1>2, <1>3, <1>4

LEMMA InTypeDependsOn ==
    ASSUME NEW file, IsFile(file), NEW m \in DOMAIN file.nodes, NEW sc, NEW f, NEW g,
           \A i \in m + 1 .. Len(file.nodes) : f[i] = g[i]
    PROVE  InType(file, sc, f, m) = InType(file, sc, g, m)
  <1>1. PICK types : types = Types(file, m)
    OBVIOUS
  <1>2. \A k \in DOMAIN types : f[types[k]] = g[types[k]]
    BY <1>1, TypesComeAfter
  <1>. DEFINE R(h) == [k \in DOMAIN types |->
                         Append(h[types[k]],
                                Symbol(types[k], "type", TypeName(file.nodes[types[k]]), sc[m], NoEnum))]
  <1>3. R(f) = R(g)
    BY <1>2
  <1>4. \A h : InMessage(file, sc, h, m)
                 = FieldSymbols(file, m, sc[m]) \o Plain(file, m, "extension", sc[m])
                     \o EnumSymbols(file, m, sc[m]) \o FlattenSeq(R(h))
    BY <1>1 DEF InMessage
  <1>. HIDE DEF R
  <1>5. InMessage(file, sc, f, m) = InMessage(file, sc, g, m)
    BY <1>3, <1>4
  <1>. QED  BY <1>5, Zenon DEF InType

LEMMA InsideRuns ==
    ASSUME NEW file, IsFile(file), NEW sc, NEW inside, inside = collectDupNamesInMsg(file, sc)
    PROVE  \A m \in DOMAIN file.nodes : inside[m] = InType(file, sc, inside, m)
  <1>. DEFINE n == Len(file.nodes)
              Solves(g) == g = [m \in DOMAIN file.nodes |-> InType(file, sc, g, m)]
              From(g, i) == \A m \in i .. n : g[m] = InType(file, sc, g, m)
              P == {k \in 0 .. n : \E g : From(g, n - k + 1)}
  <1>1. n \in Nat /\ DOMAIN file.nodes = 1 .. n
    BY LenProperties DEF IsFile
  <1>2. inside = CHOOSE g : Solves(g)
    BY DEF collectDupNamesInMsg, InType, InMessage
  <1>. HIDE DEF n
  <1>3. 0 \in P
    <2>1. n - 0 + 1 .. n = {}
      BY <1>1
    <2>2. From(<<>>, n - 0 + 1)
      BY <2>1
    <2>. HIDE DEF From
    <2>. QED  BY <1>1, <2>2
  <1>4. ASSUME NEW g, NEW h, NEW i \in DOMAIN file.nodes, \A j \in i + 1 .. n : g[j] = h[j]
        PROVE  InType(file, sc, g, i) = InType(file, sc, h, i)
    BY <1>4, InTypeDependsOn DEF n
  <1>5. ASSUME NEW k \in 1 .. n, k - 1 \in P PROVE k \in P
    <2>1. PICK m \in 1 .. n : m = n - k + 1 /\ m + 1 = n - (k - 1) + 1
      <3>1. n - k + 1 \in 1 .. n /\ (n - k + 1) + 1 = n - (k - 1) + 1
        BY <1>1
      <3>. QED  BY <3>1
    <2>2. PICK g : From(g, m + 1)
      <3>1. \E g : From(g, n - (k - 1) + 1)
        BY <1>5
      <3>. HIDE DEF From
      <3>. QED  BY <2>1, <3>1
    <2>. DEFINE h == [i \in m .. n |-> IF i = m THEN InType(file, sc, g, m) ELSE g[i]]
    <2>3. \A i \in m + 1 .. n : h[i] = g[i]
      BY <1>1
    <2>4. h[m] = InType(file, sc, g, m)
      BY <1>1
    <2>. HIDE DEF h
    <2>5. ASSUME NEW i \in m .. n PROVE h[i] = InType(file, sc, h, i)
      <3>1. i \in DOMAIN file.nodes /\ \A j \in i + 1 .. n : j \in m + 1 .. n
        BY <1>1
      <3>2. InType(file, sc, g, i) = InType(file, sc, h, i)
        BY <1>4, <2>3, <3>1
      <3>3. CASE i = m
        BY <2>4, <3>2, <3>3
      <3>4. CASE i # m
        <4>1. i \in m + 1 .. n
          BY <1>1, <3>4
        <4>2. h[i] = g[i] /\ g[i] = InType(file, sc, g, i)
          BY <2>2, <2>3, <4>1
        <4>. QED  BY <3>2, <4>2
      <3>. QED  BY <3>3, <3>4
    <2>6. From(h, m)
      BY <2>5
    <2>. HIDE DEF From
    <2>. QED  BY <1>1, <2>1, <2>6
  <1>6. \A k \in 0 .. n : k \in P
    <2>. HIDE DEF P
    <2>. QED  BY <1>1, <1>3, <1>4, <1>5, UpTo
  <1>7. PICK g : From(g, 1)
    <2>1. n \in P /\ n - n + 1 = 1
      <3>. HIDE DEF P
      <3>. QED  BY <1>1, <1>6
    <2>. HIDE DEF From
    <2>. QED  BY <2>1
  <1>8. \E s : Solves(s)
    <2>. DEFINE s == [m \in DOMAIN file.nodes |-> g[m]]
    <2>1. ASSUME NEW m \in DOMAIN file.nodes PROVE s[m] = InType(file, sc, s, m)
      <3>1. \A j \in m + 1 .. n : j \in DOMAIN file.nodes
        BY <1>1
      <3>2. \A j \in m + 1 .. n : g[j] = s[j]
        BY <3>1
      <3>3. InType(file, sc, g, m) = InType(file, sc, s, m)
        <4>. HIDE DEF s
        <4>. QED  BY <1>4, <3>2
      <3>4. s[m] = g[m] /\ g[m] = InType(file, sc, g, m)
        BY <1>1, <1>7
      <3>. QED  BY <3>3, <3>4
    <2>2. s = [m \in DOMAIN file.nodes |-> s[m]]
      OBVIOUS
    <2>3. Solves(s)
      <3>. HIDE DEF s
      <3>. QED  BY <2>1, <2>2
    <2>. HIDE DEF Solves
    <2>. QED  BY <2>3
  <1>9. Solves(inside)
    <2>. HIDE DEF Solves
    <2>. QED  BY <1>2, <1>8
  <1>10. PICK f : f = [m \in DOMAIN file.nodes |-> InType(file, sc, inside, m)]
    OBVIOUS
  <1>11. inside = f
    BY <1>9, <1>10
  <1>. QED  BY <1>10, <1>11

\* The values of an enum as symbols of a scope.
ValueSymbols(file, e, sc) ==
    LET values == Of(file, e, {"value"})
    IN  [k \in DOMAIN values |->
           Symbol(values[k], "value", file.nodes[values[k]].name,
                  ScopeOfValues(file, e, sc), file.nodes[e].name)]

-------------------------------------------------------------------------------
(* What is listed of a declaration. *)

\* Of those in m, and of the values of the enums in it.
TagsIn(file, m, as) == {t \in Tags(file) : file.nodes[t[1]].in = m /\ t[2] \in as}

LEMMA TagIs ==
    ASSUME NEW file, NEW t
    PROVE  t \in Tags(file) <=> /\ t = <<t[1], t[2]>> /\ t[1] \in DOMAIN file.nodes /\ t[2] \in As
                                /\ Has(file.nodes[t[1]].kind, t[2])
  BY DEF Tags

LEMMA SymbolIs ==
    ASSUME NEW i, NEW as, NEW name, NEW scope, NEW enum, NEW s, s = Symbol(i, as, name, scope, enum)
    PROVE  /\ s.node = i /\ s.as = as /\ s.name = name /\ s.scope = scope /\ s.enum = enum
           /\ s = Symbol(s.node, s.as, s.name, s.scope, s.enum) /\ Tag(s) = <<i, as>>
  BY DEF Symbol, Tag

\* One symbol for each of some kinds in m.
LEMMA ListsOf ==
    ASSUME NEW file, IsFile(file), NEW m, NEW kinds, NEW as \in As,
           \A kind : Has(kind, as) <=> kind \in kinds,
           NEW those, those = Of(file, m, kinds), NEW u, u = [k \in DOMAIN those |-> u[k]],
           \A k \in DOMAIN those : Tag(u[k]) = <<those[k], as>> /\ IsSymbol(file, u[k])
    PROVE  Lists(file, u, TagsIn(file, m, {as}))
  <1>1. AreIn(those, file, m, kinds) /\ IsSeq(those)
    BY OfAreIn, OfIsSeq
  <1>2. PICK n \in Nat : /\ DOMAIN those = 1 .. n /\ n = Len(those)
                         /\ \A i, j \in 1 .. n : those[i] = those[j] => i = j
    <2>1. /\ Len(those) \in Nat /\ DOMAIN those = 1 .. Len(those)
          /\ \A i, j \in 1 .. Len(those) : those[i] = those[j] => i = j
      BY <1>1, InOnce
    <2>. QED  BY <2>1
  <1>. DEFINE T == TagsIn(file, m, {as})
  <1>3. \A k \in DOMAIN those : Tag(u[k]) \in T
    <2>1. ASSUME NEW k \in DOMAIN those PROVE <<those[k], as>> \in T
      <3>1. those[k] \in DOMAIN file.nodes /\ file.nodes[those[k]].in = m /\ Has(file.nodes[those[k]].kind, as)
        BY <1>1, <1>2 DEF AreIn
      <3>. QED  BY <3>1 DEF TagsIn, Tags
    <2>. HIDE DEF T
    <2>. QED  BY <2>1
  <1>4. \A t \in T : \E k \in DOMAIN those : Tag(u[k]) = t
    <2>1. ASSUME NEW t \in T PROVE \E k \in DOMAIN those : Tag(u[k]) = t
      <3>1. /\ t = <<t[1], as>> /\ t[1] \in DOMAIN file.nodes /\ file.nodes[t[1]].in = m
            /\ file.nodes[t[1]].kind \in kinds
        <4>1. t \in Tags(file) /\ file.nodes[t[1]].in = m /\ t[2] = as
          BY DEF TagsIn
        <4>2. t = <<t[1], t[2]>> /\ t[1] \in DOMAIN file.nodes /\ Has(file.nodes[t[1]].kind, t[2])
          BY <4>1, TagIs
        <4>3. \A kind : Has(kind, as) => kind \in kinds
          OBVIOUS
        <4>. HIDE DEF T
        <4>. QED  BY <4>1, <4>2, <4>3
      <3>2. PICK k \in DOMAIN those : those[k] = t[1]
        BY <1>1, <1>2, <3>1 DEF AreIn
      <3>. QED  BY <3>1, <3>2
    <2>. QED  BY <2>1
  <1>5. \A j, k \in DOMAIN those : Tag(u[j]) = Tag(u[k]) => j = k
    <2>1. ASSUME NEW j \in 1 .. n, NEW k \in 1 .. n, Tag(u[j]) = Tag(u[k]) PROVE j = k
      <3>1. <<those[j], as>> = <<those[k], as>>
        BY <1>2, <2>1
      <3>. QED  BY <1>2, <3>1
    <2>. QED  BY <1>2, <2>1
  <1>. HIDE DEF T
  <1>6. \A k \in DOMAIN those : IsSymbol(file, u[k])
    OBVIOUS
  <1>7. u = [k \in DOMAIN those |-> u[k]]
    OBVIOUS
  <1>8. PICK l : l = those
    OBVIOUS
  <1>9. PICK w : w = u
    OBVIOUS
  <1>10. w = [k \in DOMAIN l |-> w[k]]
    BY <1>7, <1>8, <1>9
  <1>11. IsSeq(l) /\ \A k \in DOMAIN l : Tag(w[k]) \in T /\ IsSymbol(file, w[k])
    BY <1>1, <1>3, <1>6, <1>8, <1>9
  <1>12. /\ \A t \in T : \E k \in DOMAIN l : Tag(w[k]) = t
         /\ \A j, k \in DOMAIN l : Tag(w[j]) = Tag(w[k]) => j = k
    BY <1>4, <1>5, <1>8, <1>9
  <1>13. Lists(file, w, T)
    BY <1>10, <1>11, <1>12, ListsEach
  <1>. QED  BY <1>9, <1>13 DEF T

LEMMA ListsPlain ==
    ASSUME NEW file, IsFile(file), NEW m, NEW kind \in {"extension", "method"}, NEW sc, sc = Scopes(file)[m]
    PROVE  Lists(file, Plain(file, m, kind, sc), TagsIn(file, m, {kind}))
  <1>1. PICK those : those = Of(file, m, {kind})
    OBVIOUS
  <1>2. PICK u : u = Plain(file, m, kind, sc)
    OBVIOUS
  <1>3. u = [k \in DOMAIN those |-> Symbol(those[k], kind, file.nodes[those[k]].name, sc, NoEnum)]
    BY <1>1, <1>2 DEF Plain
  <1>4. \A k \in DOMAIN those : those[k] \in DOMAIN file.nodes /\ file.nodes[those[k]].in = m
    BY <1>1, OfIsSeq
  <1>5. ASSUME NEW k \in DOMAIN those
        PROVE  Tag(u[k]) = <<those[k], kind>> /\ IsSymbol(file, u[k])
    <2>1. PICK s : s = u[k] /\ s = Symbol(those[k], kind, file.nodes[those[k]].name, sc, NoEnum)
      BY <1>3
    <2>2. /\ s.node = those[k] /\ s.as = kind /\ s.name = file.nodes[those[k]].name /\ s.scope = sc
          /\ s.enum = NoEnum /\ s = Symbol(s.node, s.as, s.name, s.scope, s.enum) /\ Tag(s) = <<those[k], kind>>
      BY <2>1, SymbolIs
    <2>3. IsSymbol(file, s)
      BY <1>4, <2>2 DEF IsSymbol
    <2>. QED  BY <2>1, <2>2, <2>3
  <1>6. u = [k \in DOMAIN those |-> u[k]]
    BY <1>3
  <1>7. (\A k : Has(k, kind) <=> k \in {kind}) /\ kind \in As
    BY DEF Has, As
  <1>8. Lists(file, u, TagsIn(file, m, {kind}))
    BY <1>1, <1>5, <1>6, <1>7, ListsOf
  <1>. QED  BY <1>2, <1>8

LEMMA ListsFields ==
    ASSUME NEW file, IsFile(file), NEW m, NEW sc, sc = Scopes(file)[m]
    PROVE  Lists(file, FieldSymbols(file, m, sc), TagsIn(file, m, {"field", "oneof"}))
  <1>1. PICK oneofs : oneofs = Oneofs(file, m) /\ AreOneofs(oneofs, file, m)
    BY OneofsAre
  <1>2. PICK fields : fields = Of(file, m, FieldKinds)
    OBVIOUS
  <1>3. PICK u : u = [k \in DOMAIN oneofs |-> Symbol(oneofs[k].node, "oneof", oneofs[k].name, sc, NoEnum)]
    OBVIOUS
  <1>4. PICK v : v = [k \in DOMAIN fields |->
                        Symbol(fields[k], "field", FieldName(file.nodes[fields[k]]), sc, NoEnum)]
    OBVIOUS
  <1>5. FieldSymbols(file, m, sc) = u \o v
    BY <1>1, <1>2, <1>3, <1>4 DEF FieldSymbols, Fields
  <1>6. Lists(file, v, TagsIn(file, m, {"field"}))
    <2>1. ASSUME NEW k \in DOMAIN fields
          PROVE  Tag(v[k]) = <<fields[k], "field">> /\ IsSymbol(file, v[k])
      <3>1. PICK s : s = v[k] /\ s = Symbol(fields[k], "field", FieldName(file.nodes[fields[k]]), sc, NoEnum)
        BY <1>4
      <3>2. /\ s.node = fields[k] /\ s.as = "field" /\ s.name = FieldName(file.nodes[fields[k]]) /\ s.scope = sc
            /\ s.enum = NoEnum /\ s = Symbol(s.node, s.as, s.name, s.scope, s.enum) /\ Tag(s) = <<fields[k], "field">>
        BY <3>1, SymbolIs
      <3>3. file.nodes[fields[k]].in = m
        BY <1>2, OfIsSeq
      <3>4. IsSymbol(file, s)
        BY <3>2, <3>3 DEF IsSymbol
      <3>. QED  BY <3>1, <3>2, <3>4
    <2>2. v = [k \in DOMAIN fields |-> v[k]]
      BY <1>4
    <2>3. (\A k : Has(k, "field") <=> k \in FieldKinds) /\ "field" \in As
      BY DEF Has, As
    <2>. QED  BY <1>2, <2>1, <2>2, <2>3, ListsOf
  <1>7. Lists(file, u, TagsIn(file, m, {"oneof"}))
    <2>. DEFINE T == TagsIn(file, m, {"oneof"})
    <2>1. ASSUME NEW k \in DOMAIN oneofs
          PROVE  Tag(u[k]) = <<oneofs[k].node, "oneof">> /\ Tag(u[k]) \in T /\ IsSymbol(file, u[k])
      <3>1. PICK s : s = u[k] /\ s = Symbol(oneofs[k].node, "oneof", oneofs[k].name, sc, NoEnum)
        BY <1>3
      <3>2. /\ s.node = oneofs[k].node /\ s.as = "oneof" /\ s.name = oneofs[k].name /\ s.scope = sc
            /\ s.enum = NoEnum /\ s = Symbol(s.node, s.as, s.name, s.scope, s.enum) /\ Tag(s) = <<oneofs[k].node, "oneof">>
        BY <3>1, SymbolIs
      <3>3. /\ oneofs[k].node \in DOMAIN file.nodes /\ file.nodes[oneofs[k].node].in = m
            /\ file.nodes[oneofs[k].node].kind \in {"oneof", "optional"} /\ oneofs[k] \in Range(Oneofs(file, m))
        BY <1>1 DEF AreOneofs, Range
      <3>4. IsSymbol(file, s)
        BY <3>2, <3>3 DEF IsSymbol
      <3>5. Tag(s) \in T
        BY <3>2, <3>3 DEF TagsIn, Tags, Has, As
      <3>. QED  BY <3>1, <3>2, <3>4, <3>5
    <2>2. ASSUME NEW t \in T PROVE \E k \in DOMAIN oneofs : Tag(u[k]) = t
      <3>1. /\ t = <<t[1], "oneof">> /\ t[1] \in DOMAIN file.nodes /\ file.nodes[t[1]].in = m
            /\ file.nodes[t[1]].kind \in {"oneof", "optional"}
        BY TagIs DEF TagsIn, Has
      <3>2. PICK k \in DOMAIN oneofs : oneofs[k].node = t[1]
        BY <1>1, <3>1 DEF AreOneofs
      <3>. QED  BY <2>1, <3>1, <3>2
    <2>3. \A j, k \in DOMAIN oneofs : Tag(u[j]) = Tag(u[k]) => j = k
      <3>. HIDE DEF T
      <3>. QED  BY <1>1, <2>1 DEF AreOneofs
    <2>4. u = [k \in DOMAIN oneofs |-> u[k]] /\ IsSeq(oneofs)
      BY <1>1, <1>3 DEF AreOneofs
    <2>. HIDE DEF T
    <2>5. Lists(file, u, T)
      BY <2>1, <2>2, <2>3, <2>4, ListsEach
    <2>. QED  BY <2>5 DEF T
  <1>8. Lists(file, u \o v, TagsIn(file, m, {"field", "oneof"}))
    <2>1. \A t \in TagsIn(file, m, {"oneof"}) : t \notin TagsIn(file, m, {"field"})
      BY DEF TagsIn
    <2>2. \A t : t \in TagsIn(file, m, {"field", "oneof"})
                   <=> t \in TagsIn(file, m, {"oneof"}) \/ t \in TagsIn(file, m, {"field"})
      BY DEF TagsIn
    <2>. QED  BY <1>6, <1>7, <2>1, <2>2, ListsConcat
  <1>. QED  BY <1>5, <1>8

\* The enums in m and their values.
EnumTags(file, m) ==
    {t \in Tags(file) : \/ file.nodes[t[1]].in = m /\ t[2] = "enum"
                        \/ t[2] = "value" /\ file.nodes[file.nodes[t[1]].in].in = m}

LEMMA ListsEnums ==
    ASSUME NEW file, IsFile(file), NEW m, NEW sc, sc = Scopes(file)[m]
    PROVE  Lists(file, EnumSymbols(file, m, sc), EnumTags(file, m))
  <1>1. PICK enums : enums = Of(file, m, {"enum"}) /\ IsSeq(enums)
    BY OfIsSeq
  <1>2. /\ \A k \in DOMAIN enums : /\ enums[k] \in DOMAIN file.nodes /\ file.nodes[enums[k]].in = m
                                   /\ file.nodes[enums[k]].kind = "enum"
        /\ \A i \in DOMAIN file.nodes :
              file.nodes[i].in = m /\ file.nodes[i].kind = "enum" => \E k \in DOMAIN enums : enums[k] = i
    BY <1>1, OfIsSeq
  <1>3. \A j, k \in DOMAIN enums : enums[j] = enums[k] => j = k
    <2>1. AreIn(enums, file, m, {"enum"})
      BY <1>1, OfAreIn
    <2>. QED  BY <2>1, InOnce
  <1>. DEFINE Values(e) == ValueSymbols(file, e, sc)
              Named(e) == Symbol(e, "enum", file.nodes[e].name, sc, NoEnum)
              f == [k \in DOMAIN enums |-> Append(Values(enums[k]), Named(enums[k]))]
              E(e) == {t \in Tags(file) : t = <<e, "enum">> \/ (file.nodes[t[1]].in = e /\ t[2] = "value")}
              P == [k \in DOMAIN enums |-> E(enums[k])]
  <1>4. EnumSymbols(file, m, sc) = FlattenSeq(f)
    BY <1>1 DEF EnumSymbols, ValueSymbols
  <1>5. ASSUME NEW e \in DOMAIN file.nodes, file.nodes[e].in = m, file.nodes[e].kind = "enum"
        PROVE  Lists(file, Append(Values(e), Named(e)), E(e))
    <2>1. PICK values : values = Of(file, e, {"value"})
      OBVIOUS
    <2>2. PICK u : u = Values(e)
      OBVIOUS
    <2>3. u = [k \in DOMAIN values |->
                 Symbol(values[k], "value", file.nodes[values[k]].name,
                        ScopeOfValues(file, e, sc), file.nodes[e].name)]
      BY <2>1, <2>2 DEF ValueSymbols
    <2>4. ASSUME NEW k \in DOMAIN values
          PROVE  Tag(u[k]) = <<values[k], "value">> /\ IsSymbol(file, u[k])
      <3>1. PICK s : /\ s = u[k]
                     /\ s = Symbol(values[k], "value", file.nodes[values[k]].name, sc, file.nodes[e].name)
        BY <2>3 DEF ScopeOfValues
      <3>2. /\ s.node = values[k] /\ s.as = "value" /\ s.name = file.nodes[values[k]].name /\ s.scope = sc
            /\ s.enum = file.nodes[e].name /\ s = Symbol(s.node, s.as, s.name, s.scope, s.enum)
            /\ Tag(s) = <<values[k], "value">>
        BY <3>1, SymbolIs
      <3>3. file.nodes[values[k]].in = e
        BY <2>1, OfIsSeq
      <3>4. IsSymbol(file, s)
        BY <1>5, <3>2, <3>3 DEF IsSymbol
      <3>. QED  BY <3>1, <3>2, <3>4
    <2>5. u = [k \in DOMAIN values |-> u[k]]
      BY <2>3
    <2>6. (\A k : Has(k, "value") <=> k \in {"value"}) /\ "value" \in As
      BY DEF Has, As
    <2>7. Lists(file, u, TagsIn(file, e, {"value"}))
      BY <2>1, <2>4, <2>5, <2>6, ListsOf
    <2>8. PICK x : x = Named(e)
      OBVIOUS
    <2>9. IsSymbol(file, x) /\ Tag(x) = <<e, "enum">>
      <3>1. /\ x.node = e /\ x.as = "enum" /\ x.name = file.nodes[e].name /\ x.scope = sc
            /\ x.enum = NoEnum /\ x = Symbol(x.node, x.as, x.name, x.scope, x.enum) /\ Tag(x) = <<e, "enum">>
        BY <2>8, SymbolIs
      <3>. QED  BY <1>5, <3>1 DEF IsSymbol
    <2>10. Tag(x) \notin TagsIn(file, e, {"value"})
      BY <2>9 DEF TagsIn
    <2>11. \A t : t \in E(e) <=> t \in TagsIn(file, e, {"value"}) \/ t = Tag(x)
      <3>1. <<e, "enum">> \in Tags(file)
        BY <1>5 DEF Tags, Has, As
      <3>2. \A t : t \in TagsIn(file, e, {"value"}) <=> t \in Tags(file) /\ file.nodes[t[1]].in = e /\ t[2] = "value"
        BY DEF TagsIn
      <3>. QED  BY <2>9, <3>1, <3>2
    <2>. HIDE DEF E
    <2>12. Lists(file, Append(u, x), E(e))
      BY <2>7, <2>9, <2>10, <2>11, ListsAppend
    <2>. QED  BY <2>2, <2>8, <2>12
  <1>6. \A k \in DOMAIN enums : Lists(file, f[k], P[k])
    <2>. HIDE DEF Values, Named, E
    <2>. QED  BY <1>2, <1>5
  <1>7. IsSeq(f) /\ DOMAIN f = DOMAIN enums
    <2>1. f = [k \in DOMAIN enums |-> f[k]]
      OBVIOUS
    <2>. HIDE DEF f
    <2>. QED  BY <1>1, <2>1, ForEach
  <1>8. ASSUME NEW j \in DOMAIN f, NEW k \in DOMAIN f, j # k, NEW t \in P[j], t \in P[k] PROVE FALSE
    <2>1. t \in E(enums[j]) /\ t \in E(enums[k]) /\ enums[j] # enums[k]
      BY <1>3, <1>7, <1>8
    <2>2. PICK a : a = enums[j]
      OBVIOUS
    <2>3. PICK b : b = enums[k]
      OBVIOUS
    <2>4. /\ t = <<a, "enum">> \/ (file.nodes[t[1]].in = a /\ t[2] = "value")
          /\ t = <<b, "enum">> \/ (file.nodes[t[1]].in = b /\ t[2] = "value")
      BY <2>1, <2>2, <2>3
    <2>. QED  BY <2>1, <2>2, <2>3, <2>4
  <1>9. \A t : t \in EnumTags(file, m) <=> \E k \in DOMAIN f : t \in P[k]
    <2>1. ASSUME NEW t \in EnumTags(file, m) PROVE \E k \in DOMAIN enums : t \in P[k]
      <3>1. /\ t \in Tags(file) /\ t = <<t[1], t[2]>> /\ t[1] \in DOMAIN file.nodes /\ t[2] \in As
            /\ Has(file.nodes[t[1]].kind, t[2])
        BY TagIs DEF EnumTags
      <3>2. CASE file.nodes[t[1]].in = m /\ t[2] = "enum"
        <4>1. file.nodes[t[1]].kind = "enum"
          BY <3>1, <3>2 DEF Has
        <4>2. PICK k \in DOMAIN enums : enums[k] = t[1]
          BY <1>2, <3>1, <3>2, <4>1
        <4>. QED  BY <3>1, <3>2, <4>2
      <3>3. CASE t[2] = "value" /\ file.nodes[file.nodes[t[1]].in].in = m
        <4>1. file.nodes[t[1]].kind = "value"
          BY <3>1, <3>3 DEF Has
        <4>2. PICK e : e = file.nodes[t[1]].in
          OBVIOUS
        <4>3. e \in DOMAIN file.nodes /\ file.nodes[e].kind = "enum"
          <5>1. Len(file.nodes) \in Nat /\ DOMAIN file.nodes = 1 .. Len(file.nodes)
            BY LenProperties DEF IsFile
          <5>2. e \in 0 .. t[1] - 1 /\ (IF e = 0 THEN "file" ELSE file.nodes[e].kind) = "enum"
            BY <3>1, <4>1, <4>2 DEF IsFile
          <5>. QED  BY <3>1, <5>1, <5>2
        <4>4. PICK k \in DOMAIN enums : enums[k] = e
          BY <1>2, <3>3, <4>2, <4>3
        <4>. QED  BY <3>1, <3>3, <4>2, <4>4
      <3>. QED  BY <2>1, <3>2, <3>3 DEF EnumTags
    <2>2. ASSUME NEW k \in DOMAIN enums, NEW t \in P[k] PROVE t \in EnumTags(file, m)
      <3>1. t \in E(enums[k])
        OBVIOUS
      <3>2. t \in Tags(file) /\ (t = <<enums[k], "enum">> \/ (file.nodes[t[1]].in = enums[k] /\ t[2] = "value"))
        BY <3>1
      <3>3. file.nodes[enums[k]].in = m
        BY <1>2
      <3>. QED  BY <3>2, <3>3 DEF EnumTags
    <2>. HIDE DEF P, f
    <2>. QED  BY <1>7, <2>1, <2>2
  <1>. HIDE DEF f, P
  <1>10. Lists(file, FlattenSeq(f), EnumTags(file, m))
    BY <1>6, <1>7, <1>8, <1>9, ListsFlatten
  <1>. QED  BY <1>4, <1>10

\* What the type at m lists of itself, and what those in m do.
InsideTags(file, m) ==
    {t \in Tags(file) : t[1] \in Beneath(file, m) \/ (t[1] = m /\ t[2] \in {"key", "element"})}
TypeTag(file, c, t) == t = <<c, "type">> \/ t \in InsideTags(file, c)
TypeTags(file, m) ==
    {t \in Tags(file) : \E c \in DOMAIN file.nodes :
        file.nodes[c].in = m /\ file.nodes[c].kind \in TypeKinds /\ TypeTag(file, c, t)}
ServiceTags(file) ==
    {t \in Tags(file) : t[2] \in {"service", "method"}}

\* Where declarations are.
LEMMA HolderIs ==
    ASSUME NEW file, IsFile(file), IsDescribed(file), NEW i \in DOMAIN file.nodes
    PROVE  LET d == file.nodes[i]
           IN  /\ d.kind \in DeclarationKinds
               /\ \/ d.in = 0 /\ d.kind \in {"message", "enum", "extension", "service"}
                  \/ /\ d.in \in DOMAIN file.nodes /\ file.nodes[d.in].kind \in {"message", "group"}
                     /\ d.kind \in {"message", "enum", "extension", "oneof"} \cup FieldKinds
                  \/ d.in \in DOMAIN file.nodes /\ file.nodes[d.in].kind = "enum" /\ d.kind = "value"
                  \/ /\ d.in \in DOMAIN file.nodes /\ file.nodes[d.in].kind = "service" /\ d.kind = "method"
                     /\ file.nodes[d.in].in = 0
  <1>1. Len(file.nodes) \in Nat /\ DOMAIN file.nodes = 1 .. Len(file.nodes)
    BY LenProperties DEF IsFile
  <1>2. PICK d : d = file.nodes[i]
    OBVIOUS
  <1>3. d.kind \in DeclarationKinds
    BY <1>2 DEF IsDescribed, Range
  <1>4. PICK h : h = IF d.in = 0 THEN "file" ELSE file.nodes[d.in].kind
    OBVIOUS
  <1>5. /\ d.in \in 0 .. i - 1
        /\ d.kind \in {"message", "enum", "extension"} => h \in {"file", "message", "group"}
        /\ d.kind \in FieldKinds \cup {"oneof"} => h \in {"message", "group"}
        /\ d.kind = "value" => h = "enum"
        /\ d.kind = "method" => h = "service"
        /\ d.kind = "service" => h = "file"
    BY <1>2, <1>4 DEF IsFile
  <1>6. d.in = 0 \/ d.in \in DOMAIN file.nodes
    BY <1>1, <1>5
  <1>7. CASE d.in = 0
    <2>1. h = "file"
      BY <1>4, <1>7
    <2>2. d.kind \in {"message", "enum", "extension", "service"}
      BY <1>3, <1>5, <2>1 DEF DeclarationKinds, FieldKinds
    <2>. QED  BY <1>2, <1>3, <1>7, <2>2
  <1>8. CASE d.in \in DOMAIN file.nodes /\ d.in # 0
    <2>1. h = file.nodes[d.in].kind
      BY <1>4, <1>8
    <2>2. \/ h \in {"message", "group"} /\ d.kind \in {"message", "enum", "extension", "oneof"} \cup FieldKinds
          \/ h = "enum" /\ d.kind = "value"
          \/ h = "service" /\ d.kind = "method"
          \/ h = "file"
      BY <1>3, <1>5 DEF DeclarationKinds, FieldKinds
    <2>3. h = "service" => file.nodes[d.in].in = 0
      <3>1. SUFFICES ASSUME h = "service", file.nodes[d.in].in # 0 PROVE FALSE
        OBVIOUS
      <3>2. file.nodes[file.nodes[d.in].in].kind = "file"
        BY <1>8, <2>1, <3>1 DEF IsFile
      <3>3. file.nodes[d.in].in \in 0 .. d.in - 1
        BY <1>8 DEF IsFile
      <3>4. file.nodes[d.in].in \in DOMAIN file.nodes
        BY <1>1, <1>8, <3>1, <3>3
      <3>. QED  BY <3>2, <3>4 DEF IsDescribed, Range, DeclarationKinds, FieldKinds
    <2>4. h # "file"
      BY <1>8, <2>1 DEF IsDescribed, Range, DeclarationKinds, FieldKinds
    <2>. QED  BY <1>2, <1>3, <1>8, <2>1, <2>2, <2>3, <2>4
  <1>. QED  BY <1>1, <1>6, <1>7, <1>8

\* What is below m, which is a type or the file, is in m, in an enum or a service in m, or
\* below a type in m.
LEMMA WhereBelow ==
    ASSUME NEW file, IsFile(file), IsDescribed(file), NEW m, NEW i \in Beneath(file, m)
    PROVE  /\ i \in DOMAIN file.nodes
           /\ \/ file.nodes[i].in = m
              \/ /\ file.nodes[i].in \in DOMAIN file.nodes /\ file.nodes[file.nodes[i].in].in = m
                 /\ \/ file.nodes[i].kind = "value" /\ file.nodes[file.nodes[i].in].kind = "enum"
                    \/ file.nodes[i].kind = "method" /\ file.nodes[file.nodes[i].in].kind = "service"
              \/ \E c \in DOMAIN file.nodes : /\ file.nodes[c].in = m /\ file.nodes[c].kind \in {"message", "group"}
                                              /\ i \in Beneath(file, c)
  <1>1. i \in DOMAIN file.nodes
    BY BelowIs
  <1>2. CASE file.nodes[i].in # m
    <2>1. PICK c \in DOMAIN file.nodes : file.nodes[c].in = m /\ i \in Beneath(file, c)
      BY <1>2, BelowThrough
    <2>2. PICK j \in DOMAIN file.nodes : file.nodes[j].in = c
      BY <2>1, NoneBelow
    <2>3. file.nodes[c].kind \in {"message", "group", "enum", "service"}
      <3>1. c # 0
        BY LenProperties DEF IsFile
      <3>. QED  BY <2>2, <3>1, HolderIs
    <2>4. CASE file.nodes[c].kind \in {"enum", "service"}
      <3>1. \A b \in DOMAIN file.nodes : file.nodes[b].in = c =>
               \/ file.nodes[b].kind = "value" /\ file.nodes[c].kind = "enum"
               \/ file.nodes[b].kind = "method" /\ file.nodes[c].kind = "service"
        <4>1. c # 0
          BY LenProperties DEF IsFile
        <4>. QED  BY <2>4, <4>1, HolderIs
      <3>2. ASSUME file.nodes[i].in # c PROVE FALSE
        <4>1. PICK b \in DOMAIN file.nodes : file.nodes[b].in = c /\ i \in Beneath(file, b)
          BY <2>1, <3>2, BelowThrough
        <4>2. PICK a \in DOMAIN file.nodes : file.nodes[a].in = b
          BY <4>1, NoneBelow
        <4>3. b # 0
          BY LenProperties DEF IsFile
        <4>4. file.nodes[b].kind \in {"message", "group", "enum", "service"}
          BY <4>2, <4>3, HolderIs
        <4>. QED  BY <3>1, <4>1, <4>4
      <3>. QED  BY <1>1, <2>1, <3>1, <3>2
    <2>. QED  BY <1>1, <2>1, <2>3, <2>4
  <1>. QED  BY <1>1, <1>2

LEMMA BelowInside ==
    ASSUME NEW file, IsFile(file), NEW m, NEW c \in DOMAIN file.nodes, file.nodes[c].in = m
    PROVE  c \in Beneath(file, m) /\ \A i \in Beneath(file, c) : i \in Beneath(file, m)
  <1>1. c \in Beneath(file, m)
    BY BelowIs
  <1>2. Holds(file, c, Beneath(file, m)) /\ Beneath(file, m) \in SUBSET DOMAIN file.nodes
    BY <1>1, BelowIs DEF Holds
  <1>. QED  BY <1>1, <1>2, BelowWithin

\* What the types in m list is not in m itself, and not in its enums or services.
LEMMA TypesApart ==
    ASSUME NEW file, IsFile(file), IsDescribed(file), NEW m, NEW t \in TypeTags(file, m)
    PROVE  /\ t \notin EnumTags(file, m)
           /\ \A as : t \in TagsIn(file, m, as) => t[2] \in {"type", "key", "element"}
           /\ m = 0 => t \notin ServiceTags(file)
  <1>1. PICK c \in DOMAIN file.nodes :
           file.nodes[c].in = m /\ file.nodes[c].kind \in TypeKinds /\ TypeTag(file, c, t)
    BY DEF TypeTags
  <1>2. PICK i, as : t = <<i, as>> /\ i \in DOMAIN file.nodes /\ Has(file.nodes[i].kind, as)
    BY DEF TypeTags, Tags
  <1>3. CASE as \in {"type", "key", "element"}
    BY <1>2, <1>3 DEF EnumTags, ServiceTags, TagsIn
  <1>4. CASE as \notin {"type", "key", "element"}
    <2>1. i \in Beneath(file, c)
      BY <1>1, <1>2, <1>4 DEF TypeTag, InsideTags
    <2>2. file.nodes[i].in # m
      BY <1>1, <1>2, <2>1, BelowOne
    <2>3. ASSUME file.nodes[i].in \in DOMAIN file.nodes, file.nodes[file.nodes[i].in].in = m,
                 file.nodes[file.nodes[i].in].kind \in {"enum", "service"}
          PROVE  FALSE
      <3>1. file.nodes[i].in # c
        BY <1>1, <2>3 DEF TypeKinds
      <3>2. file.nodes[i].in \in Beneath(file, c)
        BY <1>2, <2>1, <3>1, BelowIs
      <3>. QED  BY <1>1, <2>3, <3>2, BelowOne
    <2>4. as = "value" => file.nodes[i].in \in DOMAIN file.nodes /\ file.nodes[file.nodes[i].in].kind = "enum"
      BY <1>2, HolderIs DEF Has, FieldKinds
    <2>5. as = "method" => /\ file.nodes[i].in \in DOMAIN file.nodes /\ file.nodes[file.nodes[i].in].kind = "service"
                           /\ file.nodes[file.nodes[i].in].in = 0
      BY <1>2, HolderIs DEF Has, FieldKinds
    <2>6. as = "service" => file.nodes[i].in = 0
      BY <1>2, HolderIs DEF Has, FieldKinds
    <2>7. t \notin EnumTags(file, m)
      BY <1>2, <2>2, <2>3, <2>4 DEF EnumTags
    <2>8. \A as2 : t \notin TagsIn(file, m, as2)
      BY <1>2, <2>2 DEF TagsIn
    <2>9. m = 0 => t \notin ServiceTags(file)
      BY <1>2, <2>2, <2>3, <2>5, <2>6 DEF ServiceTags
    <2>. QED  BY <2>7, <2>8, <2>9
  <1>. QED  BY <1>3, <1>4

\* What is listed below m, but for its services.
LEMMA TagsBelow ==
    ASSUME NEW file, IsFile(file), IsDescribed(file), NEW m, m = 0 \/ file.nodes[m].kind \in {"message", "group"},
           NEW t \in Tags(file), t[2] \notin {"service", "method"}
    PROVE  t[1] \in Beneath(file, m) <=> \/ t \in TagsIn(file, m, {"field", "oneof"})
                                       \/ t \in TagsIn(file, m, {"extension"})
                                       \/ t \in EnumTags(file, m)
                                       \/ t \in TypeTags(file, m)
  <1>1. PICK i, as : t = <<i, as>> /\ i \in DOMAIN file.nodes /\ as \in As /\ Has(file.nodes[i].kind, as)
    BY DEF Tags
  <1>2. as = "value" => /\ file.nodes[i].kind = "value" /\ file.nodes[i].in \in DOMAIN file.nodes
                        /\ file.nodes[file.nodes[i].in].kind = "enum"
    BY <1>1, HolderIs DEF Has, FieldKinds
  <1>3. ASSUME i \in Beneath(file, m)
        PROVE  \/ t \in TagsIn(file, m, {"field", "oneof"}) \/ t \in TagsIn(file, m, {"extension"})
               \/ t \in EnumTags(file, m) \/ t \in TypeTags(file, m)
    <2>1. CASE file.nodes[i].in = m
      <3>1. as # "value"
        <4>1. m = 0 => m \notin DOMAIN file.nodes
          BY LenProperties DEF IsFile
        <4>. QED  BY <1>2, <2>1, <4>1
      <3>2. CASE as \in {"field", "oneof", "extension", "enum"}
        BY <1>1, <2>1, <3>2 DEF TagsIn, EnumTags
      <3>3. CASE as \in {"type", "key", "element"}
        <4>1. file.nodes[i].kind \in TypeKinds
          BY <1>1, <3>3 DEF Has, TypeKinds
        <4>2. TypeTag(file, i, t)
          BY <1>1, <3>3 DEF TypeTag, InsideTags
        <4>. QED  BY <1>1, <2>1, <4>1, <4>2 DEF TypeTags
      <3>. QED  BY <1>1, <3>1, <3>2, <3>3 DEF As
    <2>2. CASE /\ file.nodes[i].in \in DOMAIN file.nodes /\ file.nodes[file.nodes[i].in].in = m
               /\ file.nodes[i].kind = "value" /\ file.nodes[file.nodes[i].in].kind = "enum"
      <3>1. as = "value"
        BY <1>1, <2>2 DEF Has, FieldKinds, TypeKinds
      <3>. QED  BY <1>1, <2>2, <3>1 DEF EnumTags
    <2>3. CASE file.nodes[i].kind = "method"
      BY <1>1, <2>3 DEF Has, FieldKinds, TypeKinds
    <2>4. ASSUME NEW c \in DOMAIN file.nodes, file.nodes[c].in = m, file.nodes[c].kind \in {"message", "group"},
                 i \in Beneath(file, c)
          PROVE  t \in TypeTags(file, m)
      <3>1. file.nodes[c].kind \in TypeKinds /\ TypeTag(file, c, t)
        BY <1>1, <2>4 DEF TypeKinds, TypeTag, InsideTags
      <3>. QED  BY <2>4, <3>1 DEF TypeTags
    <2>. QED  BY <1>3, <2>1, <2>2, <2>3, <2>4, WhereBelow
  <1>4. ASSUME \/ t \in TagsIn(file, m, {"field", "oneof"}) \/ t \in TagsIn(file, m, {"extension"})
               \/ t \in EnumTags(file, m) \/ t \in TypeTags(file, m)
        PROVE  i \in Beneath(file, m)
    <2>1. CASE file.nodes[i].in = m
      BY <1>1, <2>1, BelowIs
    <2>2. CASE as = "value" /\ file.nodes[file.nodes[i].in].in = m
      <3>1. file.nodes[i].in \in Beneath(file, m)
        BY <1>2, <2>2, BelowIs
      <3>. QED  BY <1>1, <3>1, BelowIs
    <2>3. CASE t \in TypeTags(file, m)
      <3>1. PICK c \in DOMAIN file.nodes : file.nodes[c].in = m /\ TypeTag(file, c, t)
        BY <2>3 DEF TypeTags
      <3>2. i = c \/ i \in Beneath(file, c)
        BY <1>1, <3>1 DEF TypeTag, InsideTags
      <3>. QED  BY <3>1, <3>2, BelowInside
    <2>. QED  BY <1>1, <1>4, <2>1, <2>2, <2>3 DEF TagsIn, EnumTags
  <1>. QED  BY <1>1, <1>3, <1>4

\* There are no services in types.
LEMMA NoServices ==
    ASSUME NEW file, IsFile(file), IsDescribed(file), NEW m \in DOMAIN file.nodes,
           file.nodes[m].kind \in {"message", "group"}, NEW i \in Beneath(file, m)
    PROVE  file.nodes[i].kind \notin {"service", "method"}
  <1>. DEFINE C == {j \in Beneath(file, m) : file.nodes[j].kind \notin {"service", "method"}}
  <1>1. m # 0
    BY LenProperties DEF IsFile
  <1>2. ASSUME NEW j \in DOMAIN file.nodes, file.nodes[j].in = m \/ file.nodes[j].in \in C
        PROVE  j \in C
    <2>1. j \in Beneath(file, m)
      BY <1>2, BelowIs
    <2>2. file.nodes[j].in \in DOMAIN file.nodes /\ file.nodes[j].in # 0
          /\ file.nodes[file.nodes[j].in].kind \notin {"service", "method"}
      <3>1. \A k \in DOMAIN file.nodes : k # 0
        BY LenProperties DEF IsFile
      <3>. QED  BY <1>2, <3>1, BelowIs
    <2>3. file.nodes[j].kind \notin {"service", "method"}
      BY <2>2, HolderIs DEF FieldKinds
    <2>. QED  BY <2>1, <2>3
  <1>3. Holds(file, m, C) /\ C \in SUBSET DOMAIN file.nodes
    BY <1>2, BelowIs DEF Holds
  <1>. QED  BY <1>3, BelowWithin

-------------------------------------------------------------------------------
(* What a file lists. *)

\* The types in m, each after what it lists.
LEMMA ListsTypes ==
    ASSUME NEW file, IsFile(file), NEW m, NEW sc, sc = Scopes(file), NEW inside, NEW types, types = Types(file, m),
           \A k \in DOMAIN types : Lists(file, inside[types[k]], InsideTags(file, types[k])),
           NEW f, f = [k \in DOMAIN types |->
                         Append(inside[types[k]],
                                Symbol(types[k], "type", TypeName(file.nodes[types[k]]), sc[m], NoEnum))]
    PROVE  Lists(file, FlattenSeq(f), TypeTags(file, m))
  <1>1. AreIn(types, file, m, TypeKinds) /\ IsSeq(types)
    BY OfAreIn, OfIsSeq DEF Types
  <1>2. /\ \A k \in DOMAIN types : /\ types[k] \in DOMAIN file.nodes /\ file.nodes[types[k]].in = m
                                   /\ file.nodes[types[k]].kind \in TypeKinds
        /\ \A i \in DOMAIN file.nodes :
              file.nodes[i].in = m /\ file.nodes[i].kind \in TypeKinds => \E k \in DOMAIN types : types[k] = i
    BY OfIsSeq DEF Types
  <1>3. \A j, k \in DOMAIN types : types[j] = types[k] => j = k
    BY <1>1, InOnce
  <1>. DEFINE E(c) == {t \in Tags(file) : TypeTag(file, c, t)}
              P == [k \in DOMAIN types |-> E(types[k])]
  <1>4. ASSUME NEW k \in DOMAIN types PROVE Lists(file, f[k], P[k])
    <2>1. PICK c : c = types[k]
      OBVIOUS
    <2>2. PICK s : s = inside[c] /\ Lists(file, s, InsideTags(file, c))
      BY <2>1
    <2>3. PICK x : x = Symbol(c, "type", TypeName(file.nodes[c]), sc[m], NoEnum)
      OBVIOUS
    <2>4. /\ x.node = c /\ x.as = "type" /\ x.name = TypeName(file.nodes[c]) /\ x.scope = sc[m] /\ x.enum = NoEnum
          /\ x = Symbol(x.node, x.as, x.name, x.scope, x.enum) /\ Tag(x) = <<c, "type">>
      BY <2>3, SymbolIs
    <2>5. c \in DOMAIN file.nodes /\ file.nodes[c].in = m /\ file.nodes[c].kind \in TypeKinds
      BY <1>2, <2>1
    <2>6. IsSymbol(file, x)
      BY <2>4, <2>5 DEF IsSymbol
    <2>7. Tag(x) \notin InsideTags(file, c)
      <3>1. c \notin Beneath(file, c)
        BY <2>5, BelowIs
      <3>. QED  BY <2>4, <3>1 DEF InsideTags
    <2>8. Tag(x) \in Tags(file) /\ \A t \in InsideTags(file, c) : t \in Tags(file)
      BY <2>4, <2>5 DEF InsideTags, Tags, Has, As
    <2>9. \A t : t \in E(c) <=> t \in InsideTags(file, c) \/ t = Tag(x)
      BY <2>4, <2>8 DEF TypeTag
    <2>. HIDE DEF E
    <2>10. Lists(file, Append(s, x), E(c))
      BY <2>2, <2>6, <2>7, <2>9, ListsAppend
    <2>11. f[k] = Append(s, x) /\ P[k] = E(c)
      BY <2>1, <2>2, <2>3
    <2>. QED  BY <2>10, <2>11
  <1>5. IsSeq(f) /\ DOMAIN f = DOMAIN types
    <2>1. f = [k \in DOMAIN types |-> f[k]]
      OBVIOUS
    <2>2. PICK g : g = f
      OBVIOUS
    <2>3. g = [k \in DOMAIN types |-> g[k]]
      BY <2>1, <2>2
    <2>4. IsSeq(g) /\ DOMAIN g = DOMAIN types
      BY <1>1, <2>3, ForEach
    <2>. QED  BY <2>2, <2>4
  <1>6. ASSUME NEW j \in DOMAIN types, NEW k \in DOMAIN types, j # k, NEW t \in P[j], t \in P[k] PROVE FALSE
    <2>1. PICK b : b = types[j]
      OBVIOUS
    <2>2. PICK c : c = types[k]
      OBVIOUS
    <2>3. b # c /\ TypeTag(file, b, t) /\ TypeTag(file, c, t)
      BY <1>3, <1>6, <2>1, <2>2
    <2>4. /\ b \in DOMAIN file.nodes /\ file.nodes[b].in = m
          /\ c \in DOMAIN file.nodes /\ file.nodes[c].in = m
      BY <1>2, <2>1, <2>2
    <2>5. b \notin Beneath(file, c) /\ c \notin Beneath(file, b) /\ ~ (t[1] \in Beneath(file, b) /\ t[1] \in Beneath(file, c))
      BY <2>3, <2>4, BelowOne
    <2>6. \A d : TypeTag(file, d, t) => t[1] = d \/ t[1] \in Beneath(file, d)
      BY DEF TypeTag, InsideTags
    <2>. QED  BY <2>3, <2>5, <2>6
  <1>7. \A t : t \in TypeTags(file, m) <=> \E k \in DOMAIN types : t \in P[k]
    <2>1. ASSUME NEW t \in TypeTags(file, m) PROVE \E k \in DOMAIN types : t \in P[k]
      <3>1. PICK c \in DOMAIN file.nodes :
               file.nodes[c].in = m /\ file.nodes[c].kind \in TypeKinds /\ TypeTag(file, c, t)
        BY DEF TypeTags
      <3>2. PICK k \in DOMAIN types : types[k] = c
        BY <1>2, <3>1
      <3>3. t \in E(types[k])
        BY <3>1, <3>2 DEF TypeTags
      <3>. QED  BY <3>3
    <2>2. ASSUME NEW k \in DOMAIN types, NEW t \in P[k] PROVE t \in TypeTags(file, m)
      <3>1. t \in E(types[k])
        OBVIOUS
      <3>2. t \in Tags(file) /\ TypeTag(file, types[k], t)
        BY <3>1
      <3>. QED  BY <1>2, <3>2 DEF TypeTags
    <2>. HIDE DEF P
    <2>. QED  BY <2>1, <2>2
  <1>8. PICK g : g = f /\ IsSeq(g) /\ DOMAIN g = DOMAIN types /\ \A k \in DOMAIN g : Lists(file, g[k], P[k])
    <2>. HIDE DEF P
    <2>. QED  BY <1>4, <1>5
  <1>. HIDE DEF P
  <1>9. Lists(file, FlattenSeq(g), TypeTags(file, m))
    BY <1>6, <1>7, <1>8, ListsFlatten
  <1>. QED  BY <1>8, <1>9

LEMMA ListsEntry ==
    ASSUME NEW file, IsFile(file), IsDescribed(file), NEW m \in DOMAIN file.nodes, file.nodes[m].kind = "map"
    PROVE  Lists(file, EntrySymbols(m, Scopes(file)[m]), InsideTags(file, m))
  <1>1. \A i : i \notin Beneath(file, m)
    <2>1. \A i \in DOMAIN file.nodes : file.nodes[i].in # m
      <3>1. m # 0
        BY LenProperties DEF IsFile
      <3>. QED  BY <3>1, HolderIs
    <2>. QED  BY <2>1, NoneBelow
  <1>2. PICK sc : sc = Scopes(file)[m]
    OBVIOUS
  <1>3. PICK a : a = Symbol(m, "key", <<"key">>, sc, NoEnum)
    OBVIOUS
  <1>4. PICK b : b = Symbol(m, "element", <<"value">>, sc, NoEnum)
    OBVIOUS
  <1>5. /\ a.node = m /\ a.as = "key" /\ a.name = <<"key">> /\ a.scope = sc /\ a.enum = NoEnum
        /\ a = Symbol(a.node, a.as, a.name, a.scope, a.enum) /\ Tag(a) = <<m, "key">>
    BY <1>3, SymbolIs
  <1>6. /\ b.node = m /\ b.as = "element" /\ b.name = <<"value">> /\ b.scope = sc /\ b.enum = NoEnum
        /\ b = Symbol(b.node, b.as, b.name, b.scope, b.enum) /\ Tag(b) = <<m, "element">>
    BY <1>4, SymbolIs
  <1>7. IsSymbol(file, a)
    BY <1>2, <1>5 DEF IsSymbol
  <1>8. IsSymbol(file, b)
    BY <1>2, <1>6 DEF IsSymbol
  <1>9. \A t : t \in InsideTags(file, m) <=> t \in {Tag(a)} \/ t \in {Tag(b)}
    BY <1>1, <1>5, <1>6 DEF InsideTags, Tags, Has, As
  <1>10. Lists(file, <<a>>, {Tag(a)}) /\ Lists(file, <<b>>, {Tag(b)})
    BY <1>7, <1>8, ListsOne
  <1>11. \A t \in {Tag(a)} : t \notin {Tag(b)}
    BY <1>5, <1>6
  <1>12. Lists(file, <<a>> \o <<b>>, InsideTags(file, m))
    BY <1>9, <1>10, <1>11, ListsConcat
  <1>13. <<a>> \o <<b>> = <<a, b>>
    <2>1. <<a>> \in Seq({a, b}) /\ <<b>> \in Seq({a, b}) /\ Len(<<a>>) = 1 /\ Len(<<b>>) = 1
          /\ <<a>>[1] = a /\ <<b>>[1] = b
      OBVIOUS
    <2>2. PICK u : u = <<a>> \o <<b>>
      OBVIOUS
    <2>3. /\ u \in Seq({a, b}) /\ Len(u) = 2 /\ \A i \in 1 .. 2 : u[i] = IF i <= 1 THEN <<a>>[i] ELSE <<b>>[i - 1]
      BY <2>1, <2>2, ConcatProperties
    <2>4. u[1] = a /\ u[2] = b
      BY <2>1, <2>3
    <2>5. u = <<a, b>>
      BY <2>3, <2>4
    <2>. QED  BY <2>2, <2>5
  <1>14. EntrySymbols(m, sc) = <<a, b>>
    BY <1>3, <1>4, Zenon DEF EntrySymbols
  <1>. QED  BY <1>2, <1>12, <1>13, <1>14

\* What a type lists, given what those in it do.
LEMMA ListsInType ==
    ASSUME NEW file, IsFile(file), IsDescribed(file), NEW m \in DOMAIN file.nodes, file.nodes[m].kind \in TypeKinds,
           NEW sc, sc = Scopes(file), NEW inside,
           \A i \in m + 1 .. Len(file.nodes) :
              file.nodes[i].kind \in TypeKinds => Lists(file, inside[i], InsideTags(file, i))
    PROVE  Lists(file, InType(file, sc, inside, m), InsideTags(file, m))
  <1>1. CASE file.nodes[m].kind = "map"
    BY <1>1, ListsEntry, Zenon DEF InType
  <1>2. CASE file.nodes[m].kind # "map"
    <2>1. file.nodes[m].kind \in {"message", "group"}
      BY <1>2 DEF TypeKinds
    <2>2. PICK types : types = Types(file, m)
      OBVIOUS
    <2>3. ASSUME NEW k \in DOMAIN types
          PROVE  Lists(file, inside[types[k]], InsideTags(file, types[k]))
      <3>1. types[k] \in m + 1 .. Len(file.nodes)
        BY <2>2, TypesComeAfter
      <3>2. file.nodes[types[k]].kind \in TypeKinds
        BY <2>2, OfIsSeq DEF Types
      <3>. QED  BY <3>1, <3>2
    <2>4. PICK f : f = [k \in DOMAIN types |->
                         Append(inside[types[k]],
                                Symbol(types[k], "type", TypeName(file.nodes[types[k]]), sc[m], NoEnum))]
      OBVIOUS
    <2>5. Lists(file, FlattenSeq(f), TypeTags(file, m))
      BY <2>2, <2>3, <2>4, ListsTypes
    <2>6. PICK a : a = FieldSymbols(file, m, sc[m]) /\ Lists(file, a, TagsIn(file, m, {"field", "oneof"}))
      BY ListsFields
    <2>7. PICK b : b = Plain(file, m, "extension", sc[m]) /\ Lists(file, b, TagsIn(file, m, {"extension"}))
      BY ListsPlain
    <2>8. PICK c : c = EnumSymbols(file, m, sc[m]) /\ Lists(file, c, EnumTags(file, m))
      BY ListsEnums
    <2>9. PICK d : d = FlattenSeq(f) /\ Lists(file, d, TypeTags(file, m))
      BY <2>5
    <2>10. InType(file, sc, inside, m) = a \o b \o c \o d
      <3>1. InMessage(file, sc, inside, m) = a \o b \o c \o d
        BY <2>2, <2>4, <2>6, <2>7, <2>8, <2>9 DEF InMessage
      <3>. QED  BY <1>2, <3>1, Zenon DEF InType
    <2>. DEFINE A == TagsIn(file, m, {"field", "oneof"})
                B == TagsIn(file, m, {"extension"})
                C == EnumTags(file, m)
                D == TypeTags(file, m)
    <2>11. /\ \A t \in A : t \notin B
           /\ \A t : t \in A \/ t \in B => t \notin C
           /\ \A t \in D : t \notin A /\ t \notin B /\ t \notin C
      <3>1. \A t \in A : t[2] \in {"field", "oneof"}
        BY DEF TagsIn
      <3>2. \A t \in B : t[2] = "extension"
        BY DEF TagsIn
      <3>3. \A t \in C : t[2] \in {"enum", "value"}
        BY DEF EnumTags
      <3>4. \A t \in D : t \notin C /\ (t \in A \/ t \in B => t[2] \in {"type", "key", "element"})
        BY TypesApart
      <3>. HIDE DEF A, B, C, D
      <3>. QED  BY <3>1, <3>2, <3>3, <3>4
    <2>12. \A t : t \in InsideTags(file, m) <=> t \in A \/ t \in B \/ t \in C \/ t \in D
      <3>1. \A t : t \in A \/ t \in B \/ t \in C \/ t \in D => t \in Tags(file) /\ t[2] \notin {"service", "method"}
        <4>1. \A t \in D : t \in Tags(file) /\ t[2] \notin {"service", "method"}
          <5>1. ASSUME NEW t \in D, t[2] \in {"service", "method"} PROVE FALSE
            <6>1. PICK e \in DOMAIN file.nodes : file.nodes[e].in = m /\ TypeTag(file, e, t)
              BY DEF TypeTags
            <6>2. PICK i, as : t = <<i, as>> /\ i \in Beneath(file, e) /\ as \in {"service", "method"}
                               /\ i \in DOMAIN file.nodes /\ Has(file.nodes[i].kind, as)
              BY <5>1, <6>1, TagIs DEF TypeTag, InsideTags
            <6>3. i \in Beneath(file, m)
              BY <6>1, <6>2, BelowInside
            <6>4. i \notin DOMAIN file.nodes \/ file.nodes[i].kind \in {"service", "method"}
              BY <6>2 DEF Has
            <6>. QED  BY <2>1, <6>2, <6>3, <6>4, NoServices
          <5>. QED  BY <5>1 DEF TypeTags
        <4>. QED  BY <4>1 DEF TagsIn, EnumTags
      <3>2. \A t \in InsideTags(file, m) : t \in Tags(file) /\ t[2] \notin {"service", "method"}
        <4>1. ASSUME NEW t \in InsideTags(file, m), t[2] \in {"service", "method"} PROVE FALSE
          <5>1. PICK i, as : t = <<i, as>> /\ i \in Beneath(file, m) /\ as \in {"service", "method"}
                             /\ i \in DOMAIN file.nodes /\ Has(file.nodes[i].kind, as)
            BY <4>1, TagIs DEF InsideTags
          <5>2. file.nodes[i].kind \in {"service", "method"}
            BY <5>1 DEF Has
          <5>. QED  BY <2>1, <5>1, <5>2, NoServices
        <4>. QED  BY <4>1 DEF InsideTags
      <3>3. \A t \in Tags(file) : t[2] \notin {"service", "method"} =>
               (t[1] \in Beneath(file, m) <=> t \in A \/ t \in B \/ t \in C \/ t \in D)
        BY <2>1, TagsBelow
      <3>4. \A t \in Tags(file) : t \in InsideTags(file, m) <=> t[1] \in Beneath(file, m)
        <4>1. \A t \in Tags(file) : ~ (t[1] = m /\ t[2] \in {"key", "element"})
          BY <2>1, TagIs DEF Has
        <4>. QED  BY <4>1 DEF InsideTags
      <3>. HIDE DEF A, B, C, D
      <3>. QED  BY <3>1, <3>2, <3>3, <3>4
    <2>. DEFINE AB == {t \in Tags(file) : t \in A \/ t \in B}
                ABC == {t \in Tags(file) : t \in A \/ t \in B \/ t \in C}
    <2>13. /\ \A t : t \in AB <=> t \in A \/ t \in B
           /\ \A t : t \in ABC <=> t \in AB \/ t \in C
      BY DEF TagsIn, EnumTags
    <2>. HIDE DEF A, B, C, D, AB, ABC
    <2>14. Lists(file, a \o b, AB)
      BY <2>6, <2>7, <2>11, <2>13, ListsConcat DEF A, B
    <2>15. PICK ab : ab = a \o b /\ Lists(file, ab, AB)
      BY <2>14
    <2>16. Lists(file, ab \o c, ABC)
      <3>1. \A t \in AB : t \notin C
        BY <2>11, <2>13
      <3>. QED  BY <2>8, <2>13, <2>15, <3>1, ListsConcat DEF C
    <2>17. PICK abc : abc = ab \o c /\ Lists(file, abc, ABC)
      BY <2>16
    <2>18. Lists(file, abc \o d, InsideTags(file, m))
      <3>1. \A t \in ABC : t \notin D
        BY <2>11, <2>13
      <3>2. \A t : t \in InsideTags(file, m) <=> t \in ABC \/ t \in D
        BY <2>12, <2>13
      <3>3. Lists(file, d, D)
        BY <2>9 DEF D
      <3>. QED  BY <2>17, <3>1, <3>2, <3>3, ListsConcat
    <2>. QED  BY <2>10, <2>15, <2>17, <2>18
  <1>. QED  BY <1>1, <1>2

LEMMA ListsInside ==
    ASSUME NEW file, IsFile(file), IsDescribed(file), NEW sc, sc = Scopes(file),
           NEW inside, inside = collectDupNamesInMsg(file, sc)
    PROVE  \A m \in DOMAIN file.nodes :
              file.nodes[m].kind \in TypeKinds => Lists(file, inside[m], InsideTags(file, m))
  <1>. DEFINE n == Len(file.nodes)
              Good(m) == file.nodes[m].kind \in TypeKinds => Lists(file, inside[m], InsideTags(file, m))
              P == {k \in 0 .. n : \A m \in n - k + 1 .. n : Good(m)}
  <1>1. n \in Nat /\ DOMAIN file.nodes = 1 .. n
    BY LenProperties DEF IsFile
  <1>2. \A m \in DOMAIN file.nodes : inside[m] = InType(file, sc, inside, m)
    BY InsideRuns
  <1>3. ASSUME NEW m \in DOMAIN file.nodes, \A i \in m + 1 .. n : Good(i)
        PROVE  Good(m)
    <2>. SUFFICES ASSUME file.nodes[m].kind \in TypeKinds PROVE Lists(file, inside[m], InsideTags(file, m))
      OBVIOUS
    <2>1. \A i \in m + 1 .. Len(file.nodes) :
             file.nodes[i].kind \in TypeKinds => Lists(file, inside[i], InsideTags(file, i))
      BY <1>3
    <2>. HIDE DEF n, P, Good
    <2>2. Lists(file, InType(file, sc, inside, m), InsideTags(file, m))
      BY <2>1, ListsInType
    <2>. QED  BY <1>2, <2>2
  <1>4. 0 \in P
    <2>1. n - 0 + 1 .. n = {}
      BY <1>1
    <2>. QED  BY <1>1, <2>1
  <1>5. ASSUME NEW k \in 1 .. n, k - 1 \in P PROVE k \in P
    <2>1. PICK m \in 1 .. n : m = n - k + 1 /\ m + 1 = n - (k - 1) + 1
      <3>1. n - k + 1 \in 1 .. n /\ (n - k + 1) + 1 = n - (k - 1) + 1
        BY <1>1
      <3>. HIDE DEF n
      <3>. QED  BY <3>1
    <2>2. \A i \in m + 1 .. n : Good(i)
      <3>1. \A i \in n - (k - 1) + 1 .. n : Good(i)
        BY <1>5
      <3>. HIDE DEF Good, n
      <3>. QED  BY <2>1, <3>1
    <2>3. Good(m)
      BY <1>1, <1>3, <2>2
    <2>4. \A i \in m .. n : i = m \/ i \in m + 1 .. n
      BY <1>1
    <2>. HIDE DEF Good, n
    <2>. QED  BY <1>1, <2>1, <2>2, <2>3, <2>4
  <1>6. \A k \in 0 .. n : k \in P
    <2>. HIDE DEF P, n
    <2>. QED  BY <1>1, <1>4, <1>5, UpTo
  <1>7. n \in P /\ n - n + 1 = 1
    <2>. HIDE DEF P, n
    <2>. QED  BY <1>1, <1>6
  <1>. QED  BY <1>1, <1>7

LEMMA ListsServices ==
    ASSUME NEW file, IsFile(file), IsDescribed(file), NEW sc, sc = Scopes(file),
           NEW services, services = Of(file, 0, {"service"}),
           NEW f, f = [k \in DOMAIN services |->
                         Append(Plain(file, services[k], "method", sc[services[k]]),
                                Symbol(services[k], "service", file.nodes[services[k]].name, sc[0], NoEnum))]
    PROVE  Lists(file, FlattenSeq(f), ServiceTags(file))
  <1>1. AreIn(services, file, 0, {"service"}) /\ IsSeq(services)
    BY OfAreIn, OfIsSeq
  <1>2. /\ \A k \in DOMAIN services : /\ services[k] \in DOMAIN file.nodes /\ file.nodes[services[k]].in = 0
                                      /\ file.nodes[services[k]].kind = "service"
        /\ \A i \in DOMAIN file.nodes :
              file.nodes[i].in = 0 /\ file.nodes[i].kind = "service" => \E k \in DOMAIN services : services[k] = i
    BY OfIsSeq
  <1>3. \A j, k \in DOMAIN services : services[j] = services[k] => j = k
    BY <1>1, InOnce
  <1>. DEFINE E(c) == {t \in Tags(file) : t = <<c, "service">> \/ t \in TagsIn(file, c, {"method"})}
              P == [k \in DOMAIN services |-> E(services[k])]
  <1>4. ASSUME NEW k \in DOMAIN services PROVE Lists(file, f[k], P[k])
    <2>1. PICK c : c = services[k]
      OBVIOUS
    <2>2. PICK s : s = Plain(file, c, "method", sc[c]) /\ Lists(file, s, TagsIn(file, c, {"method"}))
      BY ListsPlain
    <2>3. PICK x : x = Symbol(c, "service", file.nodes[c].name, sc[0], NoEnum)
      OBVIOUS
    <2>4. /\ x.node = c /\ x.as = "service" /\ x.name = file.nodes[c].name /\ x.scope = sc[0] /\ x.enum = NoEnum
          /\ x = Symbol(x.node, x.as, x.name, x.scope, x.enum) /\ Tag(x) = <<c, "service">>
      BY <2>3, SymbolIs
    <2>5. c \in DOMAIN file.nodes /\ file.nodes[c].in = 0 /\ file.nodes[c].kind = "service"
      BY <1>2, <2>1
    <2>6. IsSymbol(file, x)
      BY <2>4, <2>5 DEF IsSymbol
    <2>7. Tag(x) \notin TagsIn(file, c, {"method"})
      BY <2>4 DEF TagsIn
    <2>8. Tag(x) \in Tags(file) /\ \A t \in TagsIn(file, c, {"method"}) : t \in Tags(file)
      BY <2>4, <2>5 DEF TagsIn, Tags, Has, As
    <2>9. \A t : t \in E(c) <=> t \in TagsIn(file, c, {"method"}) \/ t = Tag(x)
      BY <2>4, <2>8
    <2>. HIDE DEF E
    <2>10. Lists(file, Append(s, x), E(c))
      BY <2>2, <2>6, <2>7, <2>9, ListsAppend
    <2>11. f[k] = Append(s, x) /\ P[k] = E(c)
      BY <2>1, <2>2, <2>3
    <2>. QED  BY <2>10, <2>11
  <1>5. IsSeq(f) /\ DOMAIN f = DOMAIN services
    <2>1. PICK g : g = f
      OBVIOUS
    <2>2. g = [k \in DOMAIN services |-> g[k]]
      BY <2>1
    <2>3. IsSeq(g) /\ DOMAIN g = DOMAIN services
      BY <1>1, <2>2, ForEach
    <2>. QED  BY <2>1, <2>3
  <1>6. ASSUME NEW j \in DOMAIN services, NEW k \in DOMAIN services, j # k, NEW t \in P[j], t \in P[k] PROVE FALSE
    <2>1. PICK b : b = services[j]
      OBVIOUS
    <2>2. PICK c : c = services[k]
      OBVIOUS
    <2>3. /\ b # c
          /\ t = <<b, "service">> \/ t \in TagsIn(file, b, {"method"})
          /\ t = <<c, "service">> \/ t \in TagsIn(file, c, {"method"})
      BY <1>3, <1>6, <2>1, <2>2
    <2>. QED  BY <2>3 DEF TagsIn
  <1>7. \A t : t \in ServiceTags(file) <=> \E k \in DOMAIN services : t \in P[k]
    <2>1. ASSUME NEW t \in ServiceTags(file) PROVE \E k \in DOMAIN services : t \in P[k]
      <3>1. PICK i, as : t = <<i, as>> /\ i \in DOMAIN file.nodes /\ Has(file.nodes[i].kind, as) /\ t \in Tags(file)
        BY DEF ServiceTags, Tags
      <3>2. CASE as = "service"
        <4>1. file.nodes[i].kind = "service" /\ file.nodes[i].in = 0
          BY <3>1, <3>2, HolderIs DEF Has, FieldKinds
        <4>2. PICK k \in DOMAIN services : services[k] = i
          BY <1>2, <3>1, <4>1
        <4>3. t \in E(services[k])
          BY <3>1, <3>2, <4>2
        <4>. QED  BY <4>3
      <3>3. CASE as = "method"
        <4>1. PICK c \in DOMAIN file.nodes : c = file.nodes[i].in /\ file.nodes[c].kind = "service" /\ file.nodes[c].in = 0
          BY <3>1, <3>3, HolderIs DEF Has, FieldKinds
        <4>2. PICK k \in DOMAIN services : services[k] = c
          BY <1>2, <4>1
        <4>3. t \in E(services[k])
          BY <3>1, <3>3, <4>1, <4>2 DEF TagsIn
        <4>. QED  BY <4>3
      <3>. QED  BY <3>1, <3>2, <3>3 DEF ServiceTags
    <2>2. ASSUME NEW k \in DOMAIN services, NEW t \in P[k] PROVE t \in ServiceTags(file)
      <3>1. t \in E(services[k])
        OBVIOUS
      <3>2. t \in Tags(file) /\ (t = <<services[k], "service">> \/ t \in TagsIn(file, services[k], {"method"}))
        BY <3>1
      <3>. QED  BY <3>2 DEF ServiceTags, TagsIn
    <2>. HIDE DEF P
    <2>. QED  BY <2>1, <2>2
  <1>8. PICK g : g = f /\ IsSeq(g) /\ DOMAIN g = DOMAIN services /\ \A k \in DOMAIN g : Lists(file, g[k], P[k])
    <2>. HIDE DEF P
    <2>. QED  BY <1>4, <1>5
  <1>. HIDE DEF P
  <1>9. Lists(file, FlattenSeq(g), ServiceTags(file))
    BY <1>6, <1>7, <1>8, ListsFlatten
  <1>. QED  BY <1>8, <1>9

\* Of a file, validateDuplicateNames registers each declaration, each oneof made and each
\* entry type with its two fields, once, under its name and in its scope, and nothing else,
\* though it walks messages, enums, extensions and services apart from each other.
THEOREM ListsSymbols ==
    ASSUME NEW file, IsFile(file), IsDescribed(file)
    PROVE  Lists(file, Symbols(file), Tags(file))
  <1>1. PICK sc : sc = Scopes(file) /\ sc[0] = file.package
    BY ScopesAre
  <1>2. PICK inside : inside = collectDupNamesInMsg(file, sc)
    OBVIOUS
  <1>3. PICK types : types = Types(file, 0)
    OBVIOUS
  <1>4. PICK services : services = Of(file, 0, {"service"})
    OBVIOUS
  <1>5. PICK f : f = [k \in DOMAIN types |->
                        Append(inside[types[k]],
                               Symbol(types[k], "type", TypeName(file.nodes[types[k]]), sc[0], NoEnum))]
    OBVIOUS
  <1>6. PICK g : g = [k \in DOMAIN services |->
                        Append(Plain(file, services[k], "method", sc[services[k]]),
                               Symbol(services[k], "service", file.nodes[services[k]].name, sc[0], NoEnum))]
    OBVIOUS
  <1>7. ASSUME NEW k \in DOMAIN types
        PROVE  /\ Lists(file, inside[types[k]], InsideTags(file, types[k]))
               /\ TypeName(file.nodes[types[k]]) = file.nodes[types[k]].name
    <2>1. PICK c : c = types[k] /\ c \in DOMAIN file.nodes /\ file.nodes[c].in = 0 /\ file.nodes[c].kind \in TypeKinds
      BY <1>3, OfIsSeq DEF Types
    <2>2. Lists(file, inside[c], InsideTags(file, c))
      BY <1>1, <1>2, <2>1, ListsInside
    <2>3. file.nodes[c].kind # "map"
      <3>1. 0 \notin DOMAIN file.nodes
        BY LenProperties DEF IsFile
      <3>. QED  BY <2>1, <3>1, HolderIs
    <2>. QED  BY <2>1, <2>2, <2>3 DEF TypeName
  <1>8. Lists(file, FlattenSeq(f), TypeTags(file, 0))
    BY <1>1, <1>3, <1>5, <1>7, ListsTypes
  <1>9. Lists(file, FlattenSeq(g), ServiceTags(file))
    BY <1>1, <1>4, <1>6, ListsServices
  <1>10. PICK a : a = FlattenSeq(f) /\ Lists(file, a, TypeTags(file, 0))
    BY <1>8
  <1>11. PICK b : b = EnumSymbols(file, 0, file.package) /\ Lists(file, b, EnumTags(file, 0))
    BY <1>1, ListsEnums
  <1>12. PICK c : c = FlattenSeq(g) /\ Lists(file, c, ServiceTags(file))
    BY <1>9
  <1>13. PICK d : d = Plain(file, 0, "extension", file.package) /\ Lists(file, d, TagsIn(file, 0, {"extension"}))
    BY <1>1, ListsPlain
  <1>14. Symbols(file) = a \o b \o c \o d
    <2>1. f = [k \in DOMAIN types |->
                 Append(inside[types[k]], Symbol(types[k], "type", file.nodes[types[k]].name, file.package, NoEnum))]
      BY <1>1, <1>5, <1>7
    <2>2. g = [k \in DOMAIN services |->
                 Append(Plain(file, services[k], "method", sc[services[k]]),
                        Symbol(services[k], "service", file.nodes[services[k]].name, file.package, NoEnum))]
      BY <1>1, <1>6
    <2>. QED  BY <1>1, <1>2, <1>3, <1>4, <1>10, <1>11, <1>12, <1>13, <2>1, <2>2 DEF Symbols
  <1>. DEFINE A == TypeTags(file, 0)
              B == EnumTags(file, 0)
              C == ServiceTags(file)
              D == TagsIn(file, 0, {"extension"})
              F == TagsIn(file, 0, {"field", "oneof"})
  <1>15. /\ \A t \in A : t \notin B /\ t \notin C /\ t \notin D
         /\ \A t \in B : t \notin C /\ t \notin D
         /\ \A t \in C : t \notin D
    <2>1. \A t \in B : t[2] \in {"enum", "value"}
      BY DEF EnumTags
    <2>2. \A t \in C : t[2] \in {"service", "method"}
      BY DEF ServiceTags
    <2>3. \A t \in D : t[2] = "extension"
      BY DEF TagsIn
    <2>4. \A t \in A : t \notin B /\ t \notin C /\ (t \in D => t[2] \in {"type", "key", "element"})
      BY TypesApart
    <2>. HIDE DEF A, B, C, D
    <2>. QED  BY <2>1, <2>2, <2>3, <2>4
  <1>16. \A t : t \in Tags(file) <=> t \in A \/ t \in B \/ t \in C \/ t \in D
    <2>1. \A t \in Tags(file) : t[1] \in Beneath(file, 0)
      BY AllBelow, TagIs
    <2>2. \A t \in Tags(file) : t[2] \notin {"service", "method"} => t \in F \/ t \in D \/ t \in B \/ t \in A
      BY <2>1, TagsBelow
    <2>3. \A t : t \notin F
      <3>1. ASSUME NEW t \in F PROVE FALSE
        <4>1. /\ t[1] \in DOMAIN file.nodes /\ file.nodes[t[1]].in = 0 /\ t[2] \in {"field", "oneof"}
              /\ Has(file.nodes[t[1]].kind, t[2])
          BY TagIs DEF TagsIn
        <4>2. file.nodes[t[1]].kind \in FieldKinds \cup {"oneof"}
          BY <4>1 DEF Has, FieldKinds
        <4>3. 0 \notin DOMAIN file.nodes
          BY LenProperties DEF IsFile
        <4>. QED  BY <4>1, <4>2, <4>3, HolderIs DEF FieldKinds
      <3>. QED  BY <3>1
    <2>4. \A t \in Tags(file) : t[2] \in {"service", "method"} => t \in C
      BY DEF ServiceTags
    <2>5. \A t : t \in A \/ t \in B \/ t \in C \/ t \in D => t \in Tags(file)
      BY DEF TypeTags, EnumTags, ServiceTags, TagsIn
    <2>. HIDE DEF A, B, C, D, F
    <2>. QED  BY <2>2, <2>3, <2>4, <2>5
  <1>. DEFINE AB == {t \in Tags(file) : t \in A \/ t \in B}
              ABC == {t \in Tags(file) : t \in A \/ t \in B \/ t \in C}
  <1>. HIDE DEF A, B, C, D, F
  <1>17. /\ \A t : t \in AB <=> t \in A \/ t \in B
         /\ \A t : t \in ABC <=> t \in AB \/ t \in C
    BY <1>16
  <1>. HIDE DEF AB, ABC
  <1>18. Lists(file, a \o b, AB)
    BY <1>10, <1>11, <1>15, <1>17, ListsConcat DEF A, B
  <1>19. PICK ab : ab = a \o b /\ Lists(file, ab, AB)
    BY <1>18
  <1>20. Lists(file, ab \o c, ABC)
    <2>1. \A t \in AB : t \notin C
      BY <1>15, <1>17
    <2>. QED  BY <1>12, <1>17, <1>19, <2>1, ListsConcat DEF C
  <1>21. PICK abc : abc = ab \o c /\ Lists(file, abc, ABC)
    BY <1>20
  <1>22. Lists(file, abc \o d, Tags(file))
    <2>1. \A t \in ABC : t \notin D
      BY <1>15, <1>17
    <2>2. \A t : t \in Tags(file) <=> t \in ABC \/ t \in D
      BY <1>16, <1>17
    <2>3. Lists(file, d, D)
      BY <1>13 DEF D
    <2>. QED  BY <1>21, <2>1, <2>2, <2>3, ListsConcat
  <1>. QED  BY <1>14, <1>19, <1>21, <1>22

-------------------------------------------------------------------------------
(* Symbols of one declaration. *)

\* The name of the entry type of a map is not that of its field.
LEMMA EntryNameIsNew ==
    ASSUME NEW name, IsSeq(name)
    PROVE  name # Append(toCamelCase(name), "Entry")
  <1>. DEFINE S == {i \in DOMAIN name : name[i] # "_"}
  <1>1. Len(name) \in Nat /\ DOMAIN name = 1 .. Len(name)
    BY SeqIs
  <1>2. PICK n \in Nat : n = Len(name)
    BY <1>1
  <1>3. S \in SUBSET Int /\ S \in SUBSET (1 .. n)
    <2>1. \A i \in S : i \in 1 .. n
      BY <1>1, <1>2
    <2>. HIDE DEF S
    <2>. QED  BY <2>1
  <1>4. IsFiniteSet(1 .. n) /\ Cardinality(1 .. n) = n
    BY FS_Interval
  <1>5. PICK letters : letters = Letters(name) /\ letters = Ascending(S)
    BY DEF Letters
  <1>6. Ascends(letters, S)
    <2>. HIDE DEF S
    <2>1. IsFiniteSet(S)
      BY <1>3, <1>4, FS_Subset
    <2>. QED  BY <1>3, <1>5, <2>1, AscendingAscends
  <1>7. PICK cc : cc = toCamelCase(name) /\ cc = Joined(name, letters, TRUE)
    BY <1>5 DEF toCamelCase
  <1>8. /\ letters \in Seq(Int) /\ IsSeq(letters) /\ Len(letters) \in Nat /\ DOMAIN letters = 1 .. Len(letters)
        /\ \A k \in 1 .. Len(letters) : letters[k] \in S
    BY <1>6, IsSeqOf, SeqIs DEF Ascends
  <1>9. cc = [k \in DOMAIN letters |-> cc[k]]
    BY <1>7 DEF Joined
  <1>10. IsSeq(cc) /\ DOMAIN cc = DOMAIN letters
    BY <1>8, <1>9, ForEach
  <1>11. Len(cc) = Len(letters)
    <2>1. PICK m \in Nat : m = Len(letters)
      BY <1>8
    <2>2. cc = [k \in 1 .. m |-> cc[k]]
      BY <1>8, <1>9, <2>1
    <2>. QED  BY <2>1, <2>2, IsSeqOver
  <1>12. \A c : c # "_" => Upper(c) # "_"
    <2>1. \A c : Upper(c) = c \/ Upper(c) = "A" \/ Upper(c) = "B"
      BY Zenon DEF Upper
    <2>. QED  BY <2>1
  <1>13. \A k \in 1 .. Len(letters) : cc[k] # "_"
    <2>1. ASSUME NEW k \in 1 .. Len(letters) PROVE cc[k] # "_"
      <3>1. cc[k] = Upper(name[letters[k]]) \/ cc[k] = name[letters[k]]
        BY <1>7, <1>8 DEF Joined
      <3>2. name[letters[k]] # "_"
        BY <1>8
      <3>. QED  BY <1>12, <3>1, <3>2
    <2>. QED  BY <2>1
  <1>14. ASSUME name = Append(cc, "Entry") PROVE FALSE
    <2>1. Len(name) = Len(cc) + 1 /\ name[Len(cc) + 1] = "Entry" /\ \A i \in 1 .. Len(cc) : name[i] = cc[i]
      BY <1>10, <1>14, AppendIsSeq
    <2>2. \A i \in 1 .. n : name[i] # "_"
      <3>. HIDE DEF S
      <3>1. \A i \in 1 .. n : i \in 1 .. Len(letters) \/ i = Len(letters) + 1
        BY <1>2, <1>8, <1>11, <2>1
      <3>. QED  BY <1>11, <1>13, <2>1, <3>1
    <2>3. S = 1 .. n
      BY <1>1, <1>2, <2>2
    <2>4. DOMAIN letters = 1 .. n
      <3>1. DOMAIN Ascending(S) = 1 .. Cardinality(S)
        BY DEF Ascending
      <3>. QED  BY <1>4, <1>5, <2>3, <3>1
    <2>. HIDE DEF S
    <2>5. n = Len(letters) + 1 /\ n \in 1 .. n
      BY <1>2, <1>8, <1>11, <2>1
    <2>6. n \in 1 .. Len(letters)
      BY <1>8, <2>4, <2>5
    <2>. QED  BY <1>8, <2>5, <2>6
  <1>. QED  BY <1>7, <1>14

\* Symbols of one declaration have different names or scopes.
LEMMA OwnNames ==
    ASSUME NEW file, IsFile(file), IsDescribed(file), NEW s, NEW t, IsSymbol(file, s), IsSymbol(file, t),
           Tag(s) \in Tags(file), Tag(t) \in Tags(file), s.node = t.node,
           \/ s.as = "field" /\ t.as \in {"type", "oneof"}
           \/ s.as \in {"field", "type"} /\ t.as \in {"key", "element"}
           \/ s.as = "key" /\ t.as = "element"
    PROVE  Key(s) # Key(t)
  <1>1. PICK i \in DOMAIN file.nodes : i = s.node /\ i = t.node
    BY TagIs DEF Tag
  <1>2. PICK d : d = file.nodes[i]
    OBVIOUS
  <1>3. PICK sc : /\ sc = Scopes(file)
                  /\ sc[i] = Append(sc[d.in], TypeName(d)) /\ IsSeq(sc[d.in])
    <2>1. PICK sc : /\ sc = Scopes(file)
                    /\ \A j \in DOMAIN file.nodes : sc[j] = Append(sc[file.nodes[j].in], TypeName(file.nodes[j]))
                    /\ \A j \in 0 .. Len(file.nodes) : IsSeq(sc[j])
      BY ScopesAre
    <2>2. Len(file.nodes) \in Nat /\ DOMAIN file.nodes = 1 .. Len(file.nodes) /\ d.in \in 0 .. i - 1
      BY <1>2, LenProperties DEF IsFile
    <2>3. d.in \in 0 .. Len(file.nodes)
      BY <2>2
    <2>. QED  BY <1>2, <2>1, <2>3
  <1>4. Has(d.kind, s.as) /\ Has(d.kind, t.as)
    <2>1. Tag(s)[1] = i /\ Tag(s)[2] = s.as /\ Tag(t)[1] = i /\ Tag(t)[2] = t.as
      BY <1>1 DEF Tag
    <2>. QED  BY <1>2, <2>1, TagIs
  <1>5. Key(s) = <<s.scope, s.name>> /\ Key(t) = <<t.scope, t.name>>
    BY DEF Key
  <1>6. CASE s.as \in {"field", "type"} /\ t.as \in {"key", "element"}
    <2>1. s.scope = sc[d.in] /\ t.scope = sc[i]
      BY <1>1, <1>2, <1>3, <1>6 DEF IsSymbol
    <2>2. Len(sc[i]) = Len(sc[d.in]) + 1 /\ Len(sc[d.in]) \in Nat
      BY <1>3, AppendIsSeq, SeqIs
    <2>. QED  BY <1>5, <2>1, <2>2
  <1>7. CASE s.as = "key" /\ t.as = "element"
    <2>1. s.name = <<"key">> /\ t.name = <<"value">>
      BY <1>7 DEF IsSymbol
    <2>2. <<"key">> # <<"value">>
      OBVIOUS
    <2>. QED  BY <1>5, <2>1, <2>2
  <1>8. CASE s.as = "field" /\ t.as = "type"
    <2>1. s.name = FieldName(d) /\ t.name = TypeName(d)
      BY <1>1, <1>2, <1>8 DEF IsSymbol
    <2>2. d.kind = "map" \/ d.kind = "group"
      BY <1>4, <1>8 DEF Has, FieldKinds, TypeKinds
    <2>3. IsSeq(d.name)
      BY <1>2, NameIs
    <2>4. CASE d.kind = "map"
      <3>1. FieldName(d) = d.name /\ TypeName(d) = Append(toCamelCase(d.name), "Entry")
        BY <2>4 DEF FieldName, TypeName
      <3>. QED  BY <1>5, <2>1, <2>3, <3>1, EntryNameIsNew
    <2>5. CASE d.kind = "group"
      <3>1. FieldName(d) = Lowered(d.name) /\ TypeName(d) = d.name
        BY <2>5 DEF FieldName, TypeName
      <3>2. Lowered(d.name) # d.name
        BY <1>2, <2>5 DEF IsFile
      <3>. QED  BY <1>5, <2>1, <3>1, <3>2
    <2>. QED  BY <2>2, <2>4, <2>5
  <1>9. CASE s.as = "field" /\ t.as = "oneof"
    <2>1. d.kind = "optional"
      BY <1>4, <1>9 DEF Has, FieldKinds
    <2>2. PICK l : l = Oneofs(file, d.in) /\ AreOneofs(l, file, d.in)
      BY OneofsAre
    <2>3. PICK o \in Range(l) : o.node = i /\ t.name = o.name
      BY <1>1, <1>2, <1>9, <2>2 DEF IsSymbol
    <2>4. PICK k \in DOMAIN l : l[k] = o
      BY DEF Range
    <2>5. \A j \in DOMAIN file.nodes :
             file.nodes[j].in = d.in /\ file.nodes[j].kind \in FieldKinds => FieldName(file.nodes[j]) # l[k].name
      BY <1>2, <2>1, <2>2, <2>3, <2>4 DEF AreOneofs
    <2>6. FieldName(d) # t.name
      BY <1>2, <2>1, <2>3, <2>4, <2>5 DEF FieldKinds
    <2>7. s.name = FieldName(d)
      BY <1>1, <1>2, <1>9 DEF IsSymbol
    <2>. QED  BY <1>5, <2>6, <2>7
  <1>. QED  BY <1>6, <1>7, <1>8, <1>9

\* A declaration does not take one name twice.
LEMMA SymbolsApart ==
    ASSUME NEW file, IsFile(file), IsDescribed(file), NEW s, NEW t, IsSymbol(file, s), IsSymbol(file, t),
           Tag(s) \in Tags(file), Tag(t) \in Tags(file), s.node = t.node, Key(s) = Key(t)
    PROVE  Tag(s) = Tag(t)
  <1>1. Tag(s) = <<s.node, s.as>> /\ Tag(t) = <<t.node, t.as>>
    BY DEF Tag
  <1>2. Has(file.nodes[s.node].kind, s.as) /\ Has(file.nodes[s.node].kind, t.as)
    <2>1. Tag(s)[1] = s.node /\ Tag(s)[2] = s.as /\ Tag(t)[1] = s.node /\ Tag(t)[2] = t.as
      BY <1>1
    <2>. QED  BY <2>1, TagIs
  <1>3. ASSUME s.as # t.as PROVE FALSE
    <2>1. /\ ~ (s.as = "field" /\ t.as \in {"type", "oneof"})
          /\ ~ (s.as \in {"field", "type"} /\ t.as \in {"key", "element"})
          /\ ~ (s.as = "key" /\ t.as = "element")
      BY OwnNames
    <2>2. /\ ~ (t.as = "field" /\ s.as \in {"type", "oneof"})
          /\ ~ (t.as \in {"field", "type"} /\ s.as \in {"key", "element"})
          /\ ~ (t.as = "key" /\ s.as = "element")
      BY OwnNames
    <2>. QED  BY <1>2, <1>3, <2>1, <2>2 DEF Has, FieldKinds, TypeKinds
  <1>. QED  BY <1>1, <1>3

\* The scope of a symbol is a sequence, and its full name says its scope and its name.
LEMMA ScopeIsSeq ==
    ASSUME NEW file, IsFile(file), IsDescribed(file), NEW s, IsSymbol(file, s), Tag(s) \in Tags(file)
    PROVE  IsSeq(s.scope)
  <1>1. PICK i \in DOMAIN file.nodes : i = s.node
    BY TagIs DEF Tag
  <1>2. PICK d : d = file.nodes[i]
    OBVIOUS
  <1>3. PICK sc : sc = Scopes(file) /\ \A j \in 0 .. Len(file.nodes) : IsSeq(sc[j])
    BY ScopesAre
  <1>4. Len(file.nodes) \in Nat /\ DOMAIN file.nodes = 1 .. Len(file.nodes) /\ d.in \in 0 .. i - 1
    BY <1>2, LenProperties DEF IsFile
  <1>5. i \in 0 .. Len(file.nodes) /\ d.in \in 0 .. Len(file.nodes)
    BY <1>4
  <1>6. CASE s.as = "value"
    <2>1. d.kind = "value"
      <3>1. Tag(s)[1] = i /\ Tag(s)[2] = s.as
        BY <1>1 DEF Tag
      <3>2. Has(d.kind, "value")
        BY <1>2, <1>6, <3>1, TagIs
      <3>. QED  BY <3>2 DEF Has
    <2>2. d.in # 0
      BY <1>2, <2>1 DEF IsFile
    <2>3. d.in \in DOMAIN file.nodes
      BY <1>4, <2>2
    <2>4. file.nodes[d.in].in \in 0 .. d.in - 1
      BY <2>3 DEF IsFile
    <2>5. file.nodes[d.in].in \in 0 .. Len(file.nodes)
      BY <1>4, <2>3, <2>4
    <2>. QED  BY <1>1, <1>2, <1>3, <1>6, <2>5 DEF IsSymbol
  <1>7. CASE s.as # "value"
    <2>1. s.scope = sc[i] \/ s.scope = sc[d.in]
      BY <1>1, <1>2, <1>3, <1>7 DEF IsSymbol
    <2>. QED  BY <1>3, <1>5, <2>1
  <1>. QED  BY <1>6, <1>7

-------------------------------------------------------------------------------
(* The registry. *)

IsRegistry(r) == r = [seen |-> r.seen, errors |-> r.errors]

\* No two of the names that a file registers are the same.
HasUniqueNames(file) ==
    \A i, j \in DOMAIN Symbols(file) : Key(Symbols(file)[i]) = Key(Symbols(file)[j]) => i = j

\* What is said of a symbol that has the name of another: each is a pair of the number of
\* its file and the symbol.
ErrorOf(p, q) ==
    [file |-> p[1], symbol |-> p[2], first |-> q[1],
     note |-> p[2].enum # NoEnum /\ q[2].enum # p[2].enum]

\* For each name the registry notes the first of P with it, one of an earliest file, and
\* its errors are what is said of the others.
NotesFirst(r, P, first) ==
    /\ DOMAIN first = DOMAIN r.seen
    /\ \A p \in P : Key(p[2]) \in DOMAIN first /\ first[Key(p[2])][1] <= p[1]
    /\ \A key \in DOMAIN first :
          /\ first[key] \in P /\ Key(first[key][2]) = key
          /\ r.seen[key] = [file |-> first[key][1], enum |-> first[key][2].enum]
    /\ \A e : e \in r.errors <=> \E p \in P : p # first[Key(p[2])] /\ e = ErrorOf(p, first[Key(p[2])])

Notes(r, P) == IsRegistry(r) /\ IsFiniteSet(P) /\ \E first : NotesFirst(r, P, first)

\* What is checked is noted: as the first of its name, or as an error.
LEMMA CheckNotes ==
    ASSUME NEW r, NEW P, Notes(r, P), NEW k \in Int, NEW s, NEW new, new = <<k, s>>, new \notin P,
           \A p \in P : p[1] \in Int /\ p[1] <= k,
           NEW Q, \A q : q \in Q <=> q \in P \/ q = new
    PROVE  Notes(Check(r, k, s), Q)
  <1>1. PICK c : c = Check(r, k, s)
    OBVIOUS
  <1>2. r = [seen |-> r.seen, errors |-> r.errors]
    BY DEF Notes, IsRegistry
  <1>3. PICK first : NotesFirst(r, P, first)
    BY DEF Notes
  <1>4. PICK key : key = Key(s)
    OBVIOUS
  <1>5. new[1] = k /\ new[2] = s
    OBVIOUS
  <1>6. /\ DOMAIN first = DOMAIN r.seen
        /\ \A p \in P : Key(p[2]) \in DOMAIN first /\ first[Key(p[2])][1] <= p[1]
        /\ \A l \in DOMAIN first :
              /\ first[l] \in P /\ Key(first[l][2]) = l
              /\ r.seen[l] = [file |-> first[l][1], enum |-> first[l][2].enum]
    BY <1>3 DEF NotesFirst
  <1>7. \A e : e \in r.errors <=> \E p \in P : p # first[Key(p[2])] /\ e = ErrorOf(p, first[Key(p[2])])
    BY <1>3 DEF NotesFirst
  <1>8. IsFiniteSet(Q)
    <2>1. Q = P \cup {new}
      OBVIOUS
    <2>2. IsFiniteSet(P)
      BY DEF Notes
    <2>. QED  BY <2>1, <2>2, FS_AddElement
  <1>9. CASE key \in DOMAIN r.seen
    <2>1. PICK f : f = first[key] /\ f \in P
      BY <1>6, <1>9
    <2>2. r.seen[key].file = f[1] /\ r.seen[key].enum = f[2].enum
      <3>1. r.seen[key] = [file |-> f[1], enum |-> f[2].enum]
        BY <1>6, <1>9, <2>1
      <3>. QED  BY <3>1
    <2>3. PICK e : e = ErrorOf(new, f)
      OBVIOUS
    <2>4. e = [file |-> k, symbol |-> s, first |-> r.seen[key].file,
               note |-> s.enum # NoEnum /\ r.seen[key].enum # s.enum]
      BY <1>5, <2>2, <2>3 DEF ErrorOf
    <2>5. c = [r EXCEPT !.errors = r.errors \cup {e}]
      BY <1>1, <1>4, <1>9, <2>4 DEF Check
    <2>6. c = [seen |-> r.seen, errors |-> r.errors \cup {e}]
      BY <1>2, <2>5
    <2>7. IsRegistry(c) /\ c.seen = r.seen /\ \A x : x \in c.errors <=> x \in r.errors \/ x = e
      BY <2>6 DEF IsRegistry
    <2>8. \A q \in Q : Key(q[2]) \in DOMAIN first /\ first[Key(q[2])][1] <= q[1]
      BY <1>4, <1>5, <1>6, <1>9, <2>1
    <2>9. \A x : x \in c.errors <=> \E q \in Q : q # first[Key(q[2])] /\ x = ErrorOf(q, first[Key(q[2])])
      <3>1. new \in Q /\ new # first[Key(new[2])] /\ e = ErrorOf(new, first[Key(new[2])])
        BY <1>4, <1>5, <2>1, <2>3
      <3>2. ASSUME NEW x \in c.errors
            PROVE  \E q \in Q : q # first[Key(q[2])] /\ x = ErrorOf(q, first[Key(q[2])])
        <4>1. CASE x \in r.errors
          <5>1. PICK p \in P : p # first[Key(p[2])] /\ x = ErrorOf(p, first[Key(p[2])])
            BY <1>7, <4>1
          <5>2. p \in Q
            OBVIOUS
          <5>. QED  BY <5>1, <5>2
        <4>2. CASE x = e
          BY <3>1, <4>2
        <4>. QED  BY <2>7, <4>1, <4>2
      <3>3. ASSUME NEW x, NEW q \in Q, q # first[Key(q[2])], x = ErrorOf(q, first[Key(q[2])])
            PROVE  x \in c.errors
        <4>1. CASE q = new
          BY <1>4, <1>5, <2>1, <2>3, <2>7, <3>3, <4>1
        <4>2. CASE q \in P
          BY <1>7, <2>7, <3>3, <4>2
        <4>. QED  BY <4>1, <4>2
      <3>. QED  BY <3>2, <3>3
    <2>10. NotesFirst(c, Q, first)
      BY <1>6, <2>7, <2>8, <2>9 DEF NotesFirst
    <2>. QED  BY <1>1, <1>8, <2>7, <2>10 DEF Notes
  <1>10. CASE key \notin DOMAIN r.seen
    <2>1. PICK seen : /\ seen = [l \in DOMAIN r.seen \cup {key} |->
                                   IF l \in DOMAIN r.seen THEN r.seen[l] ELSE [file |-> k, enum |-> s.enum]]
                      /\ c = [r EXCEPT !.seen = seen]
      BY <1>1, <1>4, <1>10 DEF Check
    <2>2. c = [seen |-> seen, errors |-> r.errors]
      BY <1>2, <2>1
    <2>3. IsRegistry(c) /\ c.seen = seen /\ c.errors = r.errors
      BY <2>2 DEF IsRegistry
    <2>4. PICK then : then = [l \in DOMAIN first \cup {key} |-> IF l \in DOMAIN first THEN first[l] ELSE new]
      OBVIOUS
    <2>5. /\ DOMAIN then = DOMAIN seen /\ then[key] = new
          /\ \A l \in DOMAIN first : l # key /\ then[l] = first[l]
          /\ \A l \in DOMAIN then : l \in DOMAIN first \/ l = key
      BY <1>6, <1>10, <2>1, <2>4
    <2>6. /\ seen[key] = [file |-> k, enum |-> s.enum]
          /\ \A l \in DOMAIN first : seen[l] = r.seen[l]
      BY <1>6, <1>10, <2>1
    <2>7. \A p \in P : then[Key(p[2])] = first[Key(p[2])]
      BY <1>6, <2>5
    <2>8. then[Key(new[2])] = new
      BY <1>4, <1>5, <2>5
    <2>9. \A q \in Q : Key(q[2]) \in DOMAIN then /\ then[Key(q[2])][1] <= q[1]
      <3>1. ASSUME NEW p \in P PROVE Key(p[2]) \in DOMAIN then /\ then[Key(p[2])][1] <= p[1]
        BY <1>6, <2>4, <2>7
      <3>2. Key(new[2]) \in DOMAIN then /\ then[Key(new[2])][1] <= new[1]
        <4>1. Key(new[2]) \in DOMAIN then
          BY <1>4, <1>5, <2>4
        <4>. QED  BY <1>5, <2>8, <4>1
      <3>. QED  BY <3>1, <3>2
    <2>10. \A l \in DOMAIN then :
              /\ then[l] \in Q /\ Key(then[l][2]) = l
              /\ seen[l] = [file |-> then[l][1], enum |-> then[l][2].enum]
      <3>1. ASSUME NEW l \in DOMAIN first
            PROVE  /\ then[l] \in Q /\ Key(then[l][2]) = l
                   /\ seen[l] = [file |-> then[l][1], enum |-> then[l][2].enum]
        BY <1>6, <2>5, <2>6
      <3>2. /\ then[key] \in Q /\ Key(then[key][2]) = key
            /\ seen[key] = [file |-> then[key][1], enum |-> then[key][2].enum]
        BY <1>4, <1>5, <2>5, <2>6
      <3>. QED  BY <2>5, <3>1, <3>2
    <2>11. \A x : x \in c.errors <=> \E q \in Q : q # then[Key(q[2])] /\ x = ErrorOf(q, then[Key(q[2])])
      <3>1. ASSUME NEW x \in c.errors
            PROVE  \E q \in Q : q # then[Key(q[2])] /\ x = ErrorOf(q, then[Key(q[2])])
        <4>1. PICK p \in P : p # first[Key(p[2])] /\ x = ErrorOf(p, first[Key(p[2])])
          BY <1>7, <2>3
        <4>2. p \in Q /\ p # then[Key(p[2])] /\ x = ErrorOf(p, then[Key(p[2])])
          BY <2>7, <4>1
        <4>. QED  BY <4>2
      <3>2. ASSUME NEW x, NEW q \in Q, q # then[Key(q[2])], x = ErrorOf(q, then[Key(q[2])])
            PROVE  x \in c.errors
        <4>1. q \in P
          BY <2>8, <3>2
        <4>. QED  BY <1>7, <2>3, <2>7, <3>2, <4>1
      <3>. QED  BY <3>1, <3>2
    <2>12. NotesFirst(c, Q, then)
      BY <2>3, <2>5, <2>9, <2>10, <2>11 DEF NotesFirst
    <2>. QED  BY <1>1, <1>8, <2>3, <2>12 DEF Notes
  <1>. QED  BY <1>9, <1>10

LEMMA NothingNoted == Notes(EmptyRegistry, {})
  <1>1. PICK first : first = [key \in {} |-> 0]
    OBVIOUS
  <1>2. PICK r : r = EmptyRegistry
    OBVIOUS
  <1>3. r.seen = NoNames /\ r.errors = {} /\ DOMAIN r.seen = {}
    BY <1>2 DEF EmptyRegistry, NoNames
  <1>4. IsRegistry(r)
    <2>1. r = [seen |-> NoNames, errors |-> {}]
      BY <1>2 DEF EmptyRegistry
    <2>. QED  BY <1>3, <2>1 DEF IsRegistry
  <1>5. DOMAIN first = {}
    BY <1>1
  <1>6. NotesFirst(r, {}, first)
    BY <1>3, <1>5 DEF NotesFirst
  <1>. QED  BY <1>2, <1>4, <1>6, FS_EmptySet DEF Notes

\* Registering a file adds its symbols to what is noted.
LEMMA RegisterFileNotes ==
    ASSUME NEW r, NEW P, Notes(r, P), NEW files, NEW k \in Nat, IsFile(files[k]), IsDescribed(files[k]),
           \A p \in P : p[1] \in Int /\ p[1] < k,
           NEW Q, \A q : q \in Q <=> q \in P \/ \E s \in Range(Symbols(files[k])) : q = <<k, s>>
    PROVE  Notes(RegisterFile(r, files, k), Q)
  <1>1. PICK symbols : symbols = Symbols(files[k]) /\ Lists(files[k], symbols, Tags(files[k]))
    BY ListsSymbols
  <1>2. PICK n \in Nat : n = Len(symbols) /\ DOMAIN symbols = 1 .. n
    <2>1. IsSeq(symbols)
      BY <1>1 DEF Lists
    <2>2. Len(symbols) \in Nat /\ DOMAIN symbols = 1 .. Len(symbols)
      BY <2>1, SeqIs
    <2>. QED  BY <2>2, Zenon
  <1>. DEFINE Solves(g) == g = [i \in 0 .. n |-> IF i = 0 THEN r ELSE Check(g[i - 1], k, symbols[i])]
              Upto(g, m) == \A i \in 0 .. m : g[i] = IF i = 0 THEN r ELSE Check(g[i - 1], k, symbols[i])
              R == {m \in 0 .. n : \E g : Upto(g, m)}
  <1>3. RegisterFile(r, files, k) = (CHOOSE g : Solves(g))[n]
    BY <1>1, <1>2 DEF RegisterFile
  <1>4. 0 \in R
    <2>1. Upto([i \in {0} |-> r], 0)
      OBVIOUS
    <2>. HIDE DEF Upto
    <2>. QED  BY <1>2, <2>1
  <1>5. ASSUME NEW m \in 1 .. n, m - 1 \in R PROVE m \in R
    <2>1. PICK g : Upto(g, m - 1)
      BY <1>5
    <2>. DEFINE h == [i \in 0 .. m |-> IF i < m THEN g[i] ELSE Check(g[m - 1], k, symbols[m])]
    <2>2. ASSUME NEW i \in 0 .. m
          PROVE  h[i] = IF i = 0 THEN r ELSE Check(h[i - 1], k, symbols[i])
      <3>1. i # 0 => i - 1 \in 0 .. m /\ i - 1 < m
        BY <1>2
      <3>2. i # 0 => h[i - 1] = g[i - 1]
        BY <3>1
      <3>3. CASE i < m
        <4>1. h[i] = g[i] /\ i \in 0 .. m - 1
          BY <1>2, <3>3
        <4>. HIDE DEF h
        <4>. QED  BY <2>1, <3>2, <4>1
      <3>4. CASE i = m
        <4>1. h[i] = Check(g[m - 1], k, symbols[m]) /\ m # 0
          BY <1>2, <3>4
        <4>. HIDE DEF h
        <4>. QED  BY <3>2, <3>4, <4>1
      <3>5. i < m \/ i = m
        BY <1>2
      <3>. QED  BY <3>3, <3>4, <3>5
    <2>3. Upto(h, m)
      <3>. HIDE DEF h
      <3>. QED  BY <2>2
    <2>. HIDE DEF h, Upto
    <2>. QED  BY <1>2, <2>3
  <1>6. \A m \in 0 .. n : m \in R
    <2>. HIDE DEF R
    <2>. QED  BY <1>2, <1>4, <1>5, UpTo
  <1>7. PICK g : Upto(g, n)
    <2>1. n \in R
      <3>. HIDE DEF R
      <3>. QED  BY <1>2, <1>6
    <2>. QED  BY <2>1
  <1>8. \E s : Solves(s)
    <2>. DEFINE s == [i \in 0 .. n |-> g[i]]
    <2>1. \A i \in 0 .. n : i # 0 => i - 1 \in 0 .. n
      BY <1>2
    <2>2. \A i \in 0 .. n : s[i] = IF i = 0 THEN r ELSE Check(s[i - 1], k, symbols[i])
      BY <1>7, <2>1
    <2>3. Solves(s)
      <3>1. s = [i \in 0 .. n |-> s[i]]
        OBVIOUS
      <3>. HIDE DEF s
      <3>. QED  BY <2>2, <3>1
    <2>. HIDE DEF Solves
    <2>. QED  BY <2>3
  <1>9. PICK s : Solves(s) /\ RegisterFile(r, files, k) = s[n]
    <2>. HIDE DEF Solves
    <2>. QED  BY <1>3, <1>8
  <1>10. \A i \in 0 .. n : s[i] = IF i = 0 THEN r ELSE Check(s[i - 1], k, symbols[i])
    BY <1>9
  <1>. HIDE DEF Solves
  <1>. DEFINE Added(m) == P \cup {<<k, symbols[i]>> : i \in 1 .. m}
              G == {m \in 0 .. n : Notes(s[m], Added(m))}
  <1>11. \A m : \A q : q \in Added(m) <=> q \in P \/ \E i \in 1 .. m : q = <<k, symbols[i]>>
    OBVIOUS
  <1>. HIDE DEF Added
  <1>12. \A i, j \in 1 .. n : symbols[i] = symbols[j] => i = j
    BY <1>1, <1>2 DEF Lists
  <1>13. 0 \in G
    <2>1. Added(0) = P
      <3>1. \A q : q \in Added(0) <=> q \in P
        BY <1>11
      <3>. QED  BY <3>1
    <2>2. s[0] = r
      BY <1>2, <1>10
    <2>. QED  BY <1>2, <2>1, <2>2
  <1>14. ASSUME NEW m \in 1 .. n, m - 1 \in G PROVE m \in G
    <2>1. m \in 0 .. n /\ m # 0
      BY <1>2
    <2>2. PICK before, x : before = s[m - 1] /\ x = symbols[m]
      OBVIOUS
    <2>3. s[m] = Check(before, k, x)
      BY <1>10, <2>1, <2>2
    <2>4. PICK A, B, new : A = Added(m - 1) /\ B = Added(m) /\ new = <<k, x>>
      OBVIOUS
    <2>5. Notes(before, A)
      BY <1>14, <2>2, <2>4
    <2>6. \A i \in 1 .. m - 1 : i \in 1 .. n /\ i # m /\ i \in 1 .. m
      BY <1>2
    <2>7. new \notin A
      <3>1. new \notin P
        BY <2>4
      <3>2. \A i \in 1 .. m - 1 : new # <<k, symbols[i]>>
        BY <1>12, <2>2, <2>4, <2>6
      <3>. QED  BY <1>11, <2>4, <3>1, <3>2
    <2>8. \A p \in A : p[1] \in Int /\ p[1] <= k
      BY <1>11, <2>4
    <2>9. \A q : q \in B <=> q \in A \/ q = new
      <3>1. \A i \in 1 .. m : i \in 1 .. m - 1 \/ i = m
        BY <1>2
      <3>2. m \in 1 .. m
        BY <1>2
      <3>. QED  BY <1>11, <2>2, <2>4, <2>6, <3>1, <3>2
    <2>10. Notes(Check(before, k, x), B)
      BY <2>4, <2>5, <2>7, <2>8, <2>9, CheckNotes
    <2>. QED  BY <2>1, <2>3, <2>4, <2>10
  <1>15. \A m \in 0 .. n : m \in G
    <2>. HIDE DEF G
    <2>. QED  BY <1>2, <1>13, <1>14, UpTo
  <1>16. Notes(s[n], Added(n))
    <2>1. n \in G
      <3>. HIDE DEF G
      <3>. QED  BY <1>2, <1>15
    <2>. QED  BY <2>1
  <1>17. Added(n) = Q
    <2>1. \A t : t \in Range(symbols) <=> \E i \in 1 .. n : t = symbols[i]
      BY <1>2 DEF Range
    <2>2. \A q : q \in Added(n) <=> q \in Q
      BY <1>1, <1>11, <2>1
    <2>. QED  BY <2>2
  <1>. QED  BY <1>9, <1>16, <1>17

\* Without an error, the names of a file are unique.
LEMMA NoErrorsNoted ==
    ASSUME NEW r, NEW P, Notes(r, P), r.errors = {},
           NEW file, IsFile(file), IsDescribed(file), NEW k, \A s \in Range(Symbols(file)) : <<k, s>> \in P
    PROVE  HasUniqueNames(file)
  <1>1. PICK symbols : symbols = Symbols(file) /\ Lists(file, symbols, Tags(file))
    BY ListsSymbols
  <1>2. PICK first : NotesFirst(r, P, first)
    BY DEF Notes
  <1>3. \A p \in P : p = first[Key(p[2])]
    BY <1>2 DEF NotesFirst
  <1>4. ASSUME NEW i \in DOMAIN symbols, NEW j \in DOMAIN symbols, Key(symbols[i]) = Key(symbols[j])
        PROVE  i = j
    <2>1. PICK p, q : p = <<k, symbols[i]>> /\ q = <<k, symbols[j]>>
      OBVIOUS
    <2>2. p[2] = symbols[i] /\ q[2] = symbols[j] /\ p \in P /\ q \in P
      BY <1>1, <2>1 DEF Range
    <2>3. p = q
      BY <1>3, <1>4, <2>2
    <2>4. symbols[i] = symbols[j]
      BY <2>2, <2>3
    <2>. QED  BY <1>1, <2>4 DEF Lists
  <1>. QED  BY <1>1, <1>4 DEF HasUniqueNames

\* Each declaration has its symbols, and they are no others.
LEMMA SymbolOf ==
    ASSUME NEW file, IsFile(file), IsDescribed(file), NEW i \in DOMAIN file.nodes, NEW as \in As,
           Has(file.nodes[i].kind, as)
    PROVE  \E k \in DOMAIN Symbols(file) :
              /\ Symbols(file)[k].node = i /\ Symbols(file)[k].as = as /\ IsSymbol(file, Symbols(file)[k])
  <1>1. PICK symbols : symbols = Symbols(file) /\ Lists(file, symbols, Tags(file))
    BY ListsSymbols
  <1>2. <<i, as>> \in Tags(file)
    BY DEF Tags
  <1>3. PICK k \in DOMAIN symbols : Tag(symbols[k]) = <<i, as>>
    BY <1>1, <1>2 DEF Lists
  <1>4. IsSymbol(file, symbols[k])
    BY <1>1 DEF Lists
  <1>5. symbols[k].node = i /\ symbols[k].as = as
    BY <1>3 DEF Tag
  <1>. QED  BY <1>1, <1>4, <1>5

\* In a file with unique names, values of one enum have different names,
LEMMA ValuesHaveNames ==
    ASSUME NEW file, IsFile(file), IsDescribed(file), HasUniqueNames(file), NEW e \in EnumsOf(file),
           NEW values, values = Of(file, e, {"value"}), NEW a \in DOMAIN values, NEW b \in DOMAIN values,
           file.nodes[values[a]].name = file.nodes[values[b]].name
    PROVE  a = b
  <1>1. AreIn(values, file, e, {"value"})
    BY OfAreIn
  <1>2. /\ Len(values) \in Nat /\ DOMAIN values = 1 .. Len(values)
        /\ \A i, j \in 1 .. Len(values) : values[i] = values[j] => i = j
    BY <1>1, InOnce
  <1>3. PICK symbols : symbols = Symbols(file)
    OBVIOUS
  <1>4. ASSUME NEW c \in DOMAIN values
        PROVE  \E k \in DOMAIN symbols :
                  /\ symbols[k].node = values[c]
                  /\ Key(symbols[k]) = <<Scopes(file)[file.nodes[e].in], file.nodes[values[c]].name>>
    <2>1. PICK i : i = values[c]
      OBVIOUS
    <2>2. i \in DOMAIN file.nodes /\ file.nodes[i].in = e /\ file.nodes[i].kind = "value"
      BY <2>1, OfIsSeq
    <2>3. Has("value", "value") /\ "value" \in As
      BY DEF Has, As
    <2>4. PICK k \in DOMAIN symbols :
             symbols[k].node = i /\ symbols[k].as = "value" /\ IsSymbol(file, symbols[k])
      BY <1>3, <2>2, <2>3, SymbolOf
    <2>5. symbols[k].name = file.nodes[i].name /\ symbols[k].scope = Scopes(file)[file.nodes[e].in]
      BY <2>2, <2>4 DEF IsSymbol
    <2>. QED  BY <2>1, <2>4, <2>5 DEF Key
  <1>5. PICK k \in DOMAIN symbols :
           /\ symbols[k].node = values[a]
           /\ Key(symbols[k]) = <<Scopes(file)[file.nodes[e].in], file.nodes[values[a]].name>>
    BY <1>4
  <1>6. PICK l \in DOMAIN symbols :
           /\ symbols[l].node = values[b]
           /\ Key(symbols[l]) = <<Scopes(file)[file.nodes[e].in], file.nodes[values[b]].name>>
    BY <1>4
  <1>7. k = l
    BY <1>3, <1>5, <1>6 DEF HasUniqueNames
  <1>. QED  BY <1>2, <1>5, <1>6, <1>7

\* and no entry type has the name of another type.
LEMMA NoMapConflicts ==
    ASSUME NEW file, IsFile(file), IsDescribed(file), HasUniqueNames(file)
    PROVE  MapEntryConflicts(file) = {}
  <1>1. SUFFICES ASSUME NEW m, NEW i \in Range(Types(file, m)), NEW j \in Range(Types(file, m)), i # j,
                        TypeName(file.nodes[i]) = TypeName(file.nodes[j])
                 PROVE  FALSE
    BY DEF MapEntryConflicts
  <1>2. PICK symbols : symbols = Symbols(file)
    OBVIOUS
  <1>3. ASSUME NEW c \in Range(Types(file, m))
        PROVE  \E k \in DOMAIN symbols :
                  symbols[k].node = c /\ Key(symbols[k]) = <<Scopes(file)[m], TypeName(file.nodes[c])>>
    <2>1. c \in DOMAIN file.nodes /\ file.nodes[c].in = m /\ file.nodes[c].kind \in TypeKinds
      BY OfHas DEF Types
    <2>2. Has(file.nodes[c].kind, "type") /\ "type" \in As
      BY <2>1 DEF Has, As
    <2>3. PICK k \in DOMAIN symbols :
             symbols[k].node = c /\ symbols[k].as = "type" /\ IsSymbol(file, symbols[k])
      BY <1>2, <2>1, <2>2, SymbolOf
    <2>4. symbols[k].name = TypeName(file.nodes[c]) /\ symbols[k].scope = Scopes(file)[m]
      BY <2>1, <2>3 DEF IsSymbol
    <2>. QED  BY <2>3, <2>4 DEF Key
  <1>4. PICK k \in DOMAIN symbols :
           symbols[k].node = i /\ Key(symbols[k]) = <<Scopes(file)[m], TypeName(file.nodes[i])>>
    BY <1>3
  <1>5. PICK l \in DOMAIN symbols :
           symbols[l].node = j /\ Key(symbols[l]) = <<Scopes(file)[m], TypeName(file.nodes[j])>>
    BY <1>3
  <1>6. k = l
    BY <1>1, <1>2, <1>4, <1>5 DEF HasUniqueNames
  <1>. QED  BY <1>1, <1>4, <1>5, <1>6

-------------------------------------------------------------------------------
(* Full names. *)

Full(s) == Append(s.scope, s.name)

\* What the first n files register.
Registered(files, n) == UNION {{k} \X Range(Symbols(files[k])) : k \in 1 .. n}

AreFiles(files, n) == n \in Nat /\ \A k \in 1 .. n : IsFile(files[k]) /\ IsDescribed(files[k])

LEMMA RegisteredIs ==
    ASSUME NEW files, NEW n, AreFiles(files, n), NEW p \in Registered(files, n)
    PROVE  /\ p = <<p[1], p[2]>> /\ p[1] \in 1 .. n /\ IsFile(files[p[1]]) /\ IsDescribed(files[p[1]])
           /\ p[2] \in Range(Symbols(files[p[1]]))
           /\ IsSymbol(files[p[1]], p[2]) /\ Tag(p[2]) \in Tags(files[p[1]]) /\ IsSeq(p[2].scope)
  <1>1. PICK k \in 1 .. n : \E s \in Range(Symbols(files[k])) : p = <<k, s>>
    BY DEF Registered
  <1>2. PICK s \in Range(Symbols(files[k])) : p = <<k, s>> /\ p = <<p[1], p[2]>> /\ p[1] = k /\ p[2] = s
    BY <1>1
  <1>3. PICK file : file = files[k]
    OBVIOUS
  <1>4. IsFile(file) /\ IsDescribed(file)
    BY <1>3 DEF AreFiles
  <1>5. PICK symbols : symbols = Symbols(file) /\ Lists(file, symbols, Tags(file))
    BY <1>4, ListsSymbols
  <1>6. PICK j \in DOMAIN symbols : symbols[j] = s
    BY <1>3, <1>5 DEF Range
  <1>7. IsSymbol(file, s) /\ Tag(s) \in Tags(file)
    BY <1>5, <1>6 DEF Lists
  <1>8. IsSeq(s.scope)
    BY <1>4, <1>7, ScopeIsSeq
  <1>. QED  BY <1>1, <1>2, <1>3, <1>4, <1>7, <1>8

\* A full name says the scope and the name.
LEMMA FullNameIsKey ==
    ASSUME NEW s, IsSeq(s.scope), NEW t, IsSeq(t.scope)
    PROVE  Full(s) = Full(t) <=> Key(s) = Key(t)
  <1>1. PICK a, b, x, y : a = s.scope /\ b = t.scope /\ x = s.name /\ y = t.name
    OBVIOUS
  <1>2. Append(a, x) = Append(b, y) <=> a = b /\ x = y
    BY <1>1, AppendSplits
  <1>. QED  BY <1>1, <1>2 DEF Full, Key

\* What a declaration registers under one name is one symbol.
LEMMA RegisteredOnce ==
    ASSUME NEW files, NEW n, AreFiles(files, n), NEW p \in Registered(files, n), NEW q \in Registered(files, n),
           p[1] = q[1], p[2].node = q[2].node, Key(p[2]) = Key(q[2])
    PROVE  p = q
  <1>1. PICK k, s, t : k = p[1] /\ s = p[2] /\ t = q[2]
    OBVIOUS
  <1>2. PICK file : file = files[k]
    OBVIOUS
  <1>3. /\ p = <<k, s>> /\ IsFile(file) /\ IsDescribed(file) /\ s \in Range(Symbols(file))
        /\ IsSymbol(file, s) /\ Tag(s) \in Tags(file)
    BY <1>1, <1>2, RegisteredIs
  <1>4. q = <<k, t>> /\ t \in Range(Symbols(file)) /\ IsSymbol(file, t) /\ Tag(t) \in Tags(file)
    BY <1>1, <1>2, RegisteredIs
  <1>5. s.node = t.node /\ Key(s) = Key(t)
    BY <1>1
  <1>6. Tag(s) = Tag(t)
    BY <1>3, <1>4, <1>5, SymbolsApart
  <1>7. PICK symbols : symbols = Symbols(file) /\ Lists(file, symbols, Tags(file))
    BY <1>3, ListsSymbols
  <1>8. PICK i \in DOMAIN symbols, j \in DOMAIN symbols : symbols[i] = s /\ symbols[j] = t
    BY <1>3, <1>4, <1>7 DEF Range
  <1>9. i = j
    BY <1>6, <1>7, <1>8 DEF Lists
  <1>. QED  BY <1>3, <1>4, <1>8, <1>9

\* The errors about a full name, and what is registered of it.
ErrorsAbout(r, name) == {e \in r.errors : Append(e.symbol.scope, e.symbol.name) = name}
RegisteredAs(P, name) == {p \in P : Full(p[2]) = name}
IsFirstOf(f, Q, wrong) ==
    /\ \A p \in Q : f[1] <= p[1]
    /\ \A e : e \in wrong <=> \E p \in Q : p # f /\ e = ErrorOf(p, f)
    /\ IsFiniteSet(Q) /\ Cardinality(wrong) = Cardinality(Q) - 1

\* Of those with one full name, all but one of an earliest file are errors, and there is no
\* other error of that name.
LEMMA ErrorsOfName ==
    ASSUME NEW files, NEW n, AreFiles(files, n), NEW P, P = Registered(files, n), NEW r, Notes(r, P),
           NEW p0 \in P, NEW name, name = Full(p0[2]),
           NEW Q, Q = RegisteredAs(P, name), NEW wrong, wrong = ErrorsAbout(r, name)
    PROVE  \E f \in Q : IsFirstOf(f, Q, wrong)
  <1>1. PICK first : NotesFirst(r, P, first)
    BY DEF Notes
  <1>2. PICK key : key = Key(p0[2])
    OBVIOUS
  <1>3. \A p \in P : Full(p[2]) = Full(p0[2]) <=> Key(p[2]) = key
    <2>1. ASSUME NEW p \in P PROVE Full(p[2]) = Full(p0[2]) <=> Key(p[2]) = key
      <3>1. IsSeq(p[2].scope) /\ IsSeq(p0[2].scope)
        BY RegisteredIs
      <3>. QED  BY <1>2, <3>1, FullNameIsKey
    <2>. QED  BY <2>1
  <1>4. \A p : p \in Q <=> p \in P /\ Key(p[2]) = key
    BY <1>3 DEF RegisteredAs
  <1>5. key \in DOMAIN first
    BY <1>1, <1>2 DEF NotesFirst
  <1>6. PICK f : f = first[key]
    OBVIOUS
  <1>7. f \in Q /\ \A p \in Q : f[1] <= p[1]
    BY <1>1, <1>4, <1>5, <1>6 DEF NotesFirst
  <1>8. \A p : ErrorOf(p, f).symbol = p[2] /\ ErrorOf(p, f).file = p[1]
    BY DEF ErrorOf
  <1>9. ASSUME NEW e PROVE e \in wrong <=> \E p \in Q : p # f /\ e = ErrorOf(p, f)
    <2>1. ASSUME e \in wrong PROVE \E p \in Q : p # f /\ e = ErrorOf(p, f)
      <3>1. e \in r.errors /\ Append(e.symbol.scope, e.symbol.name) = Full(p0[2])
        BY <2>1 DEF ErrorsAbout
      <3>2. PICK p \in P : p # first[Key(p[2])] /\ e = ErrorOf(p, first[Key(p[2])])
        BY <1>1, <3>1 DEF NotesFirst
      <3>3. e.symbol = p[2]
        BY <3>2 DEF ErrorOf
      <3>4. Full(p[2]) = Full(p0[2])
        BY <3>1, <3>3 DEF Full
      <3>5. p \in Q /\ Key(p[2]) = key
        BY <1>3, <3>4 DEF RegisteredAs
      <3>. QED  BY <1>6, <3>2, <3>5
    <2>2. ASSUME NEW p \in Q, p # f, e = ErrorOf(p, f) PROVE e \in wrong
      <3>1. p \in P /\ Key(p[2]) = key /\ Full(p[2]) = Full(p0[2])
        BY <1>3, <1>4
      <3>2. e \in r.errors
        BY <1>1, <1>6, <2>2, <3>1 DEF NotesFirst
      <3>3. e.symbol = p[2]
        BY <1>8, <2>2
      <3>4. Append(e.symbol.scope, e.symbol.name) = Full(p0[2])
        BY <3>1, <3>3 DEF Full
      <3>. QED  BY <3>2, <3>4 DEF ErrorsAbout
    <2>. QED  BY <2>1, <2>2
  <1>10. IsFiniteSet(Q)
    <2>1. IsFiniteSet(P)
      BY DEF Notes
    <2>2. Q \in SUBSET P
      BY <1>4
    <2>. QED  BY <2>1, <2>2, FS_Subset
  <1>11. PICK S : S = Q \ {f}
    OBVIOUS
  <1>12. IsFiniteSet(S) /\ Cardinality(S) = Cardinality(Q) - 1
    BY <1>7, <1>10, <1>11, FS_RemoveElement
  <1>13. PICK g : g = [p \in S |-> ErrorOf(p, f)]
    OBVIOUS
  <1>14. g \in Bijection(S, wrong)
    <2>1. \A p \in S : g[p] = ErrorOf(p, f) /\ g[p] \in wrong
      BY <1>9, <1>11, <1>13
    <2>2. \A p \in S : p = <<p[1], p[2]>>
      <3>1. ASSUME NEW p \in S PROVE p = <<p[1], p[2]>>
        <4>1. p \in Registered(files, n)
          BY <1>4, <1>11
        <4>. QED  BY <4>1, RegisteredIs
      <3>. QED  BY <3>1
    <2>3. \A p, q \in S : g[p] = g[q] => p = q
      <3>1. ASSUME NEW p \in S, NEW q \in S, g[p] = g[q] PROVE p = q
        <4>1. p[1] = q[1] /\ p[2] = q[2]
          BY <1>8, <2>1, <3>1
        <4>. QED  BY <2>2, <4>1
      <3>. QED  BY <3>1
    <2>4. \A e \in wrong : \E p \in S : g[p] = e
      BY <1>9, <1>11, <2>1
    <2>5. g \in [S -> wrong]
      BY <1>13, <2>1
    <2>. QED  BY <2>3, <2>4, <2>5 DEF Bijection, Injection, Surjection, IsInjective
  <1>15. Cardinality(wrong) = Cardinality(S)
    BY <1>12, <1>14, FS_Bijection DEF ExistsBijection
  <1>. QED  BY <1>7, <1>9, <1>10, <1>12, <1>15 DEF IsFirstOf

\* The name made for the oneof of an optional field is that of no field of its message and
\* of no other oneof of it.
LEMMA OneofNameIsNew ==
    ASSUME NEW file, IsFile(file), NEW s, IsSymbol(file, s), Tag(s) \in Tags(file), s.as = "oneof",
           file.nodes[s.node].kind = "optional",
           NEW t, IsSymbol(file, t), Tag(t) \in Tags(file), t.as \in {"field", "oneof"},
           file.nodes[t.node].in = file.nodes[s.node].in, s.name = t.name
    PROVE  Tag(s) = Tag(t)
  <1>1. PICK m : m = file.nodes[s.node].in
    OBVIOUS
  <1>2. PICK l : l = Oneofs(file, m) /\ AreOneofs(l, file, m)
    BY OneofsAre
  <1>3. PICK o \in Range(l) : o.node = s.node /\ s.name = o.name
    BY <1>1, <1>2 DEF IsSymbol
  <1>4. PICK k \in DOMAIN l : l[k] = o
    BY DEF Range
  <1>5. /\ \A j \in DOMAIN l : l[j].name = l[k].name => j = k
        /\ \A i \in DOMAIN file.nodes :
              file.nodes[i].in = m /\ file.nodes[i].kind \in FieldKinds => FieldName(file.nodes[i]) # l[k].name
    BY <1>2, <1>3, <1>4 DEF AreOneofs
  <1>6. t.node \in DOMAIN file.nodes /\ Has(file.nodes[t.node].kind, t.as)
    <2>1. Tag(t)[1] = t.node /\ Tag(t)[2] = t.as
      BY DEF Tag
    <2>. QED  BY <2>1, TagIs
  <1>7. CASE t.as = "field"
    <2>1. t.name = FieldName(file.nodes[t.node])
      BY <1>7 DEF IsSymbol
    <2>2. file.nodes[t.node].kind \in FieldKinds
      BY <1>6, <1>7 DEF Has
    <2>. QED  BY <1>1, <1>3, <1>4, <1>5, <1>6, <2>1, <2>2
  <1>8. CASE t.as = "oneof"
    <2>1. PICK p \in Range(l) : p.node = t.node /\ t.name = p.name
      BY <1>1, <1>2, <1>8 DEF IsSymbol
    <2>2. PICK j \in DOMAIN l : l[j] = p
      BY DEF Range
    <2>3. j = k
      BY <1>3, <1>4, <1>5, <2>1, <2>2
    <2>. QED  BY <1>3, <1>4, <1>8, <2>1, <2>2, <2>3 DEF Tag
  <1>. QED  BY <1>7, <1>8

\* Values, and only they, are known with the name of their enum.
LEMMA EnumIsKnown ==
    ASSUME NEW file, IsFile(file), NEW s, IsSymbol(file, s), Tag(s) \in Tags(file)
    PROVE  /\ s.enum # NoEnum <=> s.as = "value"
           /\ s.as = "value" => s.enum = file.nodes[file.nodes[s.node].in].name
  <1>1. CASE s.as # "value"
    BY <1>1 DEF IsSymbol
  <1>2. CASE s.as = "value"
    <2>1. PICK i \in DOMAIN file.nodes : i = s.node /\ file.nodes[i].kind = "value"
      <3>1. Tag(s)[1] = s.node /\ Tag(s)[2] = s.as
        BY DEF Tag
      <3>2. s.node \in DOMAIN file.nodes /\ Has(file.nodes[s.node].kind, "value")
        BY <1>2, <3>1, TagIs
      <3>. QED  BY <3>2 DEF Has
    <2>2. PICK e : e = file.nodes[i].in
      OBVIOUS
    <2>3. e \in 0 .. i - 1 /\ e # 0
      BY <2>1, <2>2 DEF IsFile
    <2>4. Len(file.nodes) \in Nat /\ DOMAIN file.nodes = 1 .. Len(file.nodes)
      BY LenProperties DEF IsFile
    <2>5. e \in DOMAIN file.nodes
      BY <2>3, <2>4
    <2>6. file.nodes[e].name # <<>>
      BY <2>5 DEF IsFile
    <2>7. s.enum = file.nodes[e].name
      BY <1>2, <2>1, <2>2 DEF IsSymbol
    <2>. QED  BY <1>2, <2>1, <2>2, <2>6, <2>7 DEF NoEnum
  <1>. QED  BY <1>1, <1>2
===============================================================================
