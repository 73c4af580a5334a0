------------------------ MODULE DescriptorPhases_proofs ------------------------
(***************************************************************************)
(* Proofs about the validation of numbers in phase 1, for all files: its    *)
(* validators, each with its own walk over its own kind of mistake, name    *)
(* those and only those whose numbers are not each used once and in bounds. *)
(* Then about the two walks over sorted ranges: the numbers suggested and   *)
(* those printed are the free ones.  Then about the edition defaults: each  *)
(* edition reads from the file what the features are by default in it.      *)
(* Then about names: those that are derived from others stay apart, for     *)
(* which the enums need that their values were registered before.  Then     *)
(* about single declarations: what the validators let through is what the   *)
(* rules of the language allow.  Last about full names: NameSpaces_proofs   *)
(* says what is registered of a file and what the registry makes of it, and *)
(* so the errors are those of the declarations with the name of another.    *)
(***************************************************************************)
EXTENDS DescriptorPhases, NameSpaces_proofs

-------------------------------------------------------------------------------
(* Numbers. *)

\* What conversion to int32 does to the end of a range.
LEMMA Int32Of ==
    ASSUME NEW k \in Nat, k <= MaxInt + 1
    PROVE  Numbers!Int32(k) = IF k = MaxInt + 1 THEN -(MaxInt + 1) ELSE k
  <1>1. MaxInt \in Nat
    BY BoundsAssumption
  <1>2. CASE k = MaxInt + 1
    <2>1. (k + MaxInt + 1) % (2 * (MaxInt + 1)) = 0
      BY <1>1, <1>2
    <2>. QED  BY <1>1, <1>2, <2>1 DEF Numbers!Int32
  <1>3. CASE k # MaxInt + 1
    <2>1. (k + MaxInt + 1) % (2 * (MaxInt + 1)) = k + MaxInt + 1
      BY <1>1, <1>3
    <2>. QED  BY <1>1, <1>3, <2>1 DEF Numbers!Int32
  <1>. QED  BY <1>2, <1>3

\* The ranges of descriptors: none is empty, but for those with an end that has wrapped.
Half ==
    {r \in [from : Nat, to : Int] :
       /\ r.from <= MaxInt /\ r.to <= MaxInt
       /\ r.from < r.to \/ r.to = -(MaxInt + 1)}

\* Ranges overlap if they share a number.
LEMMA OverlapShares ==
    ASSUME NEW r \in Half, NEW s \in Half
    PROVE  Numbers!Overlap(r, s) <=> Numbers!Numbers(r) \cap Numbers!Numbers(s) # {}
  <1>1. /\ MaxInt \in Nat /\ r.from \in Nat /\ r.to \in Int /\ s.from \in Nat /\ s.to \in Int
        /\ r.from < r.to \/ r.to = -(MaxInt + 1)
        /\ s.from < s.to \/ s.to = -(MaxInt + 1)
    BY BoundsAssumption DEF Half
  <1>2. ASSUME r.to > s.from, s.to > r.from
        PROVE  Numbers!Numbers(r) \cap Numbers!Numbers(s) # {}
    <2>. DEFINE low == IF r.from <= s.from THEN s.from ELSE r.from
    <2>1. low \in r.from .. r.to - 1 /\ low \in s.from .. s.to - 1
      BY <1>1, <1>2
    <2>. QED  BY <2>1 DEF Numbers!Numbers
  <1>3. ASSUME NEW k \in Numbers!Numbers(r) \cap Numbers!Numbers(s)
        PROVE  r.to > s.from /\ s.to > r.from
    BY <1>1, <1>3 DEF Numbers!Numbers
  <1>. QED  BY <1>2, <1>3 DEF Numbers!Overlap

LEMMA InNumbers ==
    ASSUME NEW k \in Int, NEW r \in Half
    PROVE  Numbers!In(k, r) <=> k \in Numbers!Numbers(r)
  BY DEF Numbers!In, Numbers!Numbers, Half

-------------------------------------------------------------------------------
(* Sequences with repetitions and of sets that meet. *)

LEMMA SequenceFacts ==
    ASSUME NEW s, Numbers!IsSequence(s)
    PROVE  /\ Len(s) \in Nat /\ DOMAIN s = 1 .. Len(s) /\ s \in Seq(Numbers!Range(s))
           /\ \A i \in DOMAIN s : s[i] \in Numbers!Range(s)
           /\ \A x \in Numbers!Range(s) : \E i \in DOMAIN s : s[i] = x
  BY LenProperties DEF Numbers!IsSequence, Numbers!Range

\* Counting its elements tells whether a sequence repeats one.
LEMMA RepeatedMeans ==
    ASSUME NEW s, NEW S, s \in Seq(S)
    PROVE  Numbers!Repeated(s) <=> \E i, j \in DOMAIN s : i # j /\ s[i] = s[j]
  <1>. DEFINE R == Numbers!Range(s)
  <1>1. Len(s) \in Nat /\ DOMAIN s = 1 .. Len(s) /\ s \in [1 .. Len(s) -> S]
    BY LenProperties
  <1>2. s \in Surjection(1 .. Len(s), R)
    BY <1>1 DEF Surjection, Numbers!Range
  <1>3. IsFiniteSet(1 .. Len(s)) /\ Cardinality(1 .. Len(s)) = Len(s)
    BY <1>1, FS_Interval
  <1>4. /\ IsFiniteSet(R) /\ Cardinality(R) <= Len(s)
        /\ Cardinality(R) = Len(s) <=> s \in Injection(1 .. Len(s), R)
    <2>. HIDE DEF R
    <2>. QED  BY <1>2, <1>3, FS_Surjection
  <1>5. Cardinality(R) \in Nat
    BY <1>4, FS_CardinalityType
  <1>6. s \in Injection(1 .. Len(s), R) <=> \A i, j \in DOMAIN s : s[i] = s[j] => i = j
    <2>1. s \in [1 .. Len(s) -> R]
      BY <1>2 DEF Surjection
    <2>. HIDE DEF R
    <2>. QED  BY <1>1, <2>1 DEF Injection, IsInjective
  <1>7. Numbers!Repeated(s) <=> Cardinality(R) < Len(s)
    <2>1. \A T : Numbers!Cardinality(T) = Cardinality(T)
      BY DEF Numbers!Cardinality, Cardinality
    <2>. QED  BY <2>1 DEF Numbers!Repeated
  <1>. HIDE DEF R
  <1>. QED  BY <1>1, <1>4, <1>5, <1>6, <1>7

\* Two elements of a sequence of sets share something; one of each of two sequences do.
Meets(s) == \E i, j \in DOMAIN s : i # j /\ s[i] \cap s[j] # {}
Across(s, t) == \E i \in DOMAIN s, j \in DOMAIN t : s[i] \cap t[j] # {}

LEMMA ConcatParts ==
    ASSUME NEW S, NEW s \in Seq(S), NEW t \in Seq(S)
    PROVE  /\ s \o t \in Seq(S)
           /\ \A i \in DOMAIN s : i \in DOMAIN (s \o t) /\ (s \o t)[i] = s[i] /\ i <= Len(s)
           /\ \A j \in DOMAIN t : Len(s) + j \in DOMAIN (s \o t) /\ (s \o t)[Len(s) + j] = t[j]
                                  /\ Len(s) + j > Len(s)
           /\ \A k \in DOMAIN (s \o t) : k \in DOMAIN s \/ \E j \in DOMAIN t : k = Len(s) + j
  <1>1. /\ Len(s) \in Nat /\ DOMAIN s = 1 .. Len(s) /\ Len(t) \in Nat /\ DOMAIN t = 1 .. Len(t)
    BY LenProperties
  <1>2. /\ s \o t \in Seq(S) /\ Len(s \o t) = Len(s) + Len(t)
        /\ \A k \in 1 .. Len(s) + Len(t) : (s \o t)[k] = IF k <= Len(s) THEN s[k] ELSE t[k - Len(s)]
    BY ConcatProperties
  <1>3. DOMAIN (s \o t) = 1 .. Len(s) + Len(t)
    BY <1>2, LenProperties
  <1>4. \A i \in DOMAIN s : i \in DOMAIN (s \o t) /\ (s \o t)[i] = s[i] /\ i <= Len(s)
    BY <1>1, <1>2, <1>3
  <1>5. ASSUME NEW j \in DOMAIN t
        PROVE  /\ Len(s) + j \in DOMAIN (s \o t) /\ (s \o t)[Len(s) + j] = t[j]
               /\ Len(s) + j > Len(s)
    <2>1. Len(s) + j \in 1 .. Len(s) + Len(t) /\ ~ (Len(s) + j <= Len(s)) /\ (Len(s) + j) - Len(s) = j
      BY <1>1
    <2>. QED  BY <1>1, <1>2, <1>3, <2>1
  <1>6. ASSUME NEW k \in DOMAIN (s \o t), k \notin DOMAIN s
        PROVE  \E j \in DOMAIN t : k = Len(s) + j
    <2>1. k - Len(s) \in DOMAIN t /\ k = Len(s) + (k - Len(s))
      BY <1>1, <1>3, <1>6
    <2>. QED  BY <2>1
  <1>. QED  BY <1>2, <1>4, <1>5, <1>6

LEMMA ConcatMeets ==
    ASSUME NEW S, NEW s \in Seq(S), NEW t \in Seq(S)
    PROVE  Meets(s \o t) <=> Meets(s) \/ Meets(t) \/ Across(s, t)
  <1>1. PICK u : u = s \o t
    OBVIOUS
  <1>2. /\ \A i \in DOMAIN s : i \in DOMAIN u /\ u[i] = s[i] /\ i <= Len(s)
        /\ \A j \in DOMAIN t : Len(s) + j \in DOMAIN u /\ u[Len(s) + j] = t[j] /\ Len(s) + j > Len(s)
        /\ \A k \in DOMAIN u : k \in DOMAIN s \/ \E j \in DOMAIN t : k = Len(s) + j
        /\ Len(s) \in Nat /\ DOMAIN s = 1 .. Len(s) /\ Len(t) \in Nat /\ DOMAIN t = 1 .. Len(t)
    BY <1>1, ConcatParts, LenProperties
  <1>3. ASSUME Meets(s) PROVE Meets(u)
    BY <1>2, <1>3 DEF Meets
  <1>4. ASSUME Meets(t) PROVE Meets(u)
    <2>1. PICK i, j \in DOMAIN t : i # j /\ t[i] \cap t[j] # {}
      BY <1>4 DEF Meets
    <2>2. PICK a, b \in DOMAIN u : a = Len(s) + i /\ b = Len(s) + j
      BY <1>2
    <2>3. a # b /\ u[a] = t[i] /\ u[b] = t[j]
      BY <1>2, <2>1, <2>2
    <2>. QED  BY <2>1, <2>3 DEF Meets
  <1>5. ASSUME Across(s, t) PROVE Meets(u)
    <2>1. PICK i \in DOMAIN s, j \in DOMAIN t : s[i] \cap t[j] # {}
      BY <1>5 DEF Across
    <2>2. PICK b \in DOMAIN u : b = Len(s) + j
      BY <1>2
    <2>3. i \in DOMAIN u /\ i # b /\ u[i] = s[i] /\ u[b] = t[j]
      BY <1>2, <2>2
    <2>. QED  BY <2>1, <2>3 DEF Meets
  <1>6. ASSUME NEW a \in DOMAIN u, NEW b \in DOMAIN u, a # b, u[a] \cap u[b] # {}
        PROVE  Meets(s) \/ Meets(t) \/ Across(s, t)
    <2>1. CASE a \in DOMAIN s /\ b \in DOMAIN s
      BY <1>2, <1>6, <2>1 DEF Meets
    <2>2. ASSUME a \in DOMAIN s, NEW j \in DOMAIN t, b = Len(s) + j
          PROVE  Across(s, t)
      BY <1>2, <1>6, <2>2 DEF Across
    <2>3. ASSUME b \in DOMAIN s, NEW j \in DOMAIN t, a = Len(s) + j
          PROVE  Across(s, t)
      BY <1>2, <1>6, <2>3 DEF Across
    <2>4. ASSUME NEW i \in DOMAIN t, NEW j \in DOMAIN t, a = Len(s) + i, b = Len(s) + j
          PROVE  Meets(t)
      BY <1>2, <1>6, <2>4 DEF Meets
    <2>. QED  BY <1>2, <2>1, <2>2, <2>3, <2>4
  <1>7. Meets(u) => Meets(s) \/ Meets(t) \/ Across(s, t)
    BY <1>6 DEF Meets
  <1>. QED  BY <1>1, <1>3, <1>4, <1>5, <1>7

LEMMA ConcatAcross ==
    ASSUME NEW S, NEW s \in Seq(S), NEW t \in Seq(S), NEW v
    PROVE  Across(s \o t, v) <=> Across(s, v) \/ Across(t, v)
  <1>1. PICK u : u = s \o t
    OBVIOUS
  <1>2. /\ \A i \in DOMAIN s : i \in DOMAIN u /\ u[i] = s[i]
        /\ \A j \in DOMAIN t : Len(s) + j \in DOMAIN u /\ u[Len(s) + j] = t[j]
        /\ \A k \in DOMAIN u : k \in DOMAIN s \/ \E j \in DOMAIN t : k = Len(s) + j
    BY <1>1, ConcatParts
  <1>3. \A k \in DOMAIN u : (\E i \in DOMAIN s : u[k] = s[i]) \/ (\E j \in DOMAIN t : u[k] = t[j])
    BY <1>2
  <1>4. \A i \in DOMAIN s : \E k \in DOMAIN u : u[k] = s[i]
    BY <1>2
  <1>5. \A j \in DOMAIN t : \E k \in DOMAIN u : u[k] = t[j]
    BY <1>2
  <1>6. Across(u, v) => Across(s, v) \/ Across(t, v)
    BY <1>3 DEF Across
  <1>7. Across(s, v) => Across(u, v)
    BY <1>4 DEF Across
  <1>8. Across(t, v) => Across(u, v)
    BY <1>5 DEF Across
  <1>. QED  BY <1>1, <1>6, <1>7, <1>8

-------------------------------------------------------------------------------
(* What the parser leaves. *)

Msgs == Numbers!Messages
Written(m) == job.messages[m]
Reserved(m) == parsed[m].reserved
Extensions(m) == parsed[m].extensions
NumberAt(m, i) == Numbers!Fields(m)[i].number

\* Within the files as they are written, and the ranges of descriptors.
LEMMA JobFacts ==
    ASSUME Numbers!IsJob(job), NEW m \in Msgs
    PROVE  /\ Numbers!IsMessage(job, m) /\ Numbers!Fields(m) = Written(m).fields
           /\ Len(Numbers!Fields(m)) \in Nat /\ DOMAIN Numbers!Fields(m) = 1 .. Len(Numbers!Fields(m))
           /\ \A i \in DOMAIN Numbers!Fields(m) :
                 NumberAt(m, i) \in Int /\ Numbers!Fields(m)[i] \in Numbers!Range(Numbers!Fields(m))
           /\ \A f \in Numbers!Range(Numbers!Fields(m)) :
                 \E i \in DOMAIN Numbers!Fields(m) : f = Numbers!Fields(m)[i]
           /\ m \notin Numbers!Checked =>
                 \A i \in DOMAIN Numbers!Fields(m) : NumberAt(m, i) \in {1, 2}
           /\ Numbers!Checked \subseteq Msgs
  <1>1. Numbers!IsMessage(job, m) /\ Numbers!Fields(m) = Written(m).fields
    BY DEF Msgs, Numbers!Messages, Numbers!IsJob, Numbers!Fields, Written
  <1>2. Numbers!IsSequence(Written(m).fields) /\ \A f \in Numbers!Range(Written(m).fields) : f.number \in Int
    BY <1>1 DEF Numbers!IsMessage, Written
  <1>3. m \notin Numbers!Checked => \A f \in Numbers!Range(Written(m).fields) : f.number \in {1, 2}
    BY <1>1 DEF Numbers!IsMessage, Written, Numbers!Checked, Msgs
  <1>. QED  BY <1>1, <1>2, <1>3, SequenceFacts DEF NumberAt, Numbers!Checked, Msgs

\* Each range written becomes one that is not empty, unless its end wraps.
LEMMA ParsedRange ==
    ASSUME NEW r, Numbers!IsWritten(r), NEW end \in Nat, r.first < end, end <= MaxInt + 1
    PROVE  [from |-> r.first, to |-> Numbers!Int32(end)] \in Half
  <1>1. r.first \in Nat /\ MaxInt \in Nat
    BY BoundsAssumption DEF Numbers!IsWritten
  <1>. QED  BY <1>1, Int32Of DEF Half

LEMMA ParsedMessageSound ==
    ASSUME Numbers!IsJob(job), NEW m \in Msgs, ~Numbers!Disordered(m)
    PROVE  /\ Numbers!ParsedMessage(m).reserved \in Seq(Half)
           /\ Numbers!ParsedMessage(m).extensions \in Seq(Half)
           /\ Written(m).mapEntry => Numbers!ParsedMessage(m).extensions = <<>>
  <1>. DEFINE R == Written(m).reserved
              X == Written(m).extensions
  <1>1. /\ Numbers!IsSequence(R) /\ Numbers!IsSequence(X)
        /\ \A r \in Numbers!Range(R) \cup Numbers!Range(X) : Numbers!IsWritten(r)
        /\ Written(m).mapEntry => X = <<>>
    BY JobFacts DEF Numbers!IsMessage, Written
  <1>2. /\ Len(R) \in Nat /\ DOMAIN R = 1 .. Len(R) /\ \A i \in DOMAIN R : R[i] \in Numbers!Range(R)
        /\ Len(X) \in Nat /\ DOMAIN X = 1 .. Len(X) /\ \A i \in DOMAIN X : X[i] \in Numbers!Range(X)
    <2>. HIDE DEF R, X
    <2>. QED  BY <1>1, SequenceFacts
  <1>3. MaxInt \in Nat /\ MaxFieldNumber \in Nat /\ MaxFieldNumber + 1 < MaxInt
    BY BoundsAssumption
  <1>4. ASSUME NEW r, Numbers!IsWritten(r)
        PROVE  Numbers!ReservedEnd(r) \in Nat /\ Numbers!ReservedEnd(r) <= MaxInt + 1
    BY <1>3, <1>4 DEF Numbers!ReservedEnd, Numbers!IsWritten
  <1>5. ASSUME NEW r, Numbers!IsWritten(r)
        PROVE  Numbers!ExtensionEnd(m, r) \in Nat /\ Numbers!ExtensionEnd(m, r) <= MaxInt + 1
    <2>1. Numbers!ExtensionEnd(m, r) \in {MaxInt, Numbers!ReservedEnd(r)}
      BY DEF Numbers!ExtensionEnd
    <2>. QED  BY <1>3, <1>4, <1>5, <2>1
  <1>6. ASSUME NEW i \in DOMAIN R
        PROVE  [from |-> R[i].first, to |-> Numbers!Int32(Numbers!ReservedEnd(R[i]))] \in Half
    <2>1. Numbers!IsWritten(R[i]) /\ ~ (Numbers!ReservedEnd(R[i]) <= R[i].first)
      BY <1>1, <1>2 DEF Numbers!Disordered, Written
    <2>2. R[i].first \in Nat /\ Numbers!ReservedEnd(R[i]) \in Nat /\ Numbers!ReservedEnd(R[i]) <= MaxInt + 1
      BY <1>4, <2>1 DEF Numbers!IsWritten
    <2>. HIDE DEF R
    <2>. QED  BY <2>1, <2>2, ParsedRange
  <1>7. ASSUME NEW i \in DOMAIN X
        PROVE  [from |-> X[i].first,
                to |-> Numbers!FixedEnd(m, Numbers!Int32(Numbers!ExtensionEnd(m, X[i])))] \in Half
    <2>1. Numbers!IsWritten(X[i]) /\ ~ (Numbers!ExtensionEnd(m, X[i]) <= X[i].first)
      BY <1>1, <1>2 DEF Numbers!Disordered, Written
    <2>2. /\ X[i].first \in Nat
          /\ Numbers!ExtensionEnd(m, X[i]) \in Nat /\ Numbers!ExtensionEnd(m, X[i]) <= MaxInt + 1
      BY <1>5, <2>1 DEF Numbers!IsWritten
    <2>3. PICK end : end = Numbers!Int32(Numbers!ExtensionEnd(m, X[i]))
      OBVIOUS
    <2>4. [from |-> X[i].first, to |-> end] \in Half
      <3>. HIDE DEF X
      <3>. QED  BY <2>1, <2>2, <2>3, ParsedRange
    <2>5. /\ end \in Int /\ X[i].first <= MaxInt /\ end <= MaxInt
          /\ X[i].first < end \/ end = -(MaxInt + 1)
      BY <2>4 DEF Half
    <2>6. Numbers!FixedEnd(m, end) = end \/ (end = MaxFieldNumber + 1 /\ Numbers!FixedEnd(m, end) = MaxInt)
      BY DEF Numbers!FixedEnd
    <2>. HIDE DEF X
    <2>. QED  BY <1>3, <2>2, <2>3, <2>5, <2>6 DEF Half
  <1>8. Numbers!ParsedMessage(m).reserved =
           [i \in 1 .. Len(R) |-> [from |-> R[i].first, to |-> Numbers!Int32(Numbers!ReservedEnd(R[i]))]]
    BY <1>2 DEF Numbers!ParsedMessage, Written
  <1>9. Numbers!ParsedMessage(m).extensions =
           [i \in 1 .. Len(X) |->
               [from |-> X[i].first,
                to |-> Numbers!FixedEnd(m, Numbers!Int32(Numbers!ExtensionEnd(m, X[i])))]]
    BY <1>2 DEF Numbers!ParsedMessage, Written
  <1>10. Written(m).mapEntry => Numbers!ParsedMessage(m).extensions = <<>>
    <2>1. X = <<>> => Numbers!ParsedMessage(m).extensions = [i \in 1 .. 0 |-> {}]
      BY <1>9, EmptySeq
    <2>2. [i \in 1 .. 0 |-> {}] = <<>>
      OBVIOUS
    <2>. QED  BY <1>1, <2>1, <2>2
  <1>11. Numbers!ParsedMessage(m).reserved \in Seq(Half)
    <2>. HIDE DEF R
    <2>. QED  BY <1>2, <1>6, <1>8
  <1>12. Numbers!ParsedMessage(m).extensions \in Seq(Half)
    <2>. HIDE DEF X
    <2>. QED  BY <1>2, <1>7, <1>9
  <1>. QED  BY <1>10, <1>11, <1>12

-------------------------------------------------------------------------------
(* Whom each validator names. *)

TooLarge(m) ==
    Written(m).messageSet = "no" /\ \E r \in Numbers!Range(Extensions(m)) : r.to > MaxFieldNumber + 1

FieldIn(m, ranges) ==
    \E i \in DOMAIN Numbers!Fields(m) : \E r \in Numbers!Range(ranges) : Numbers!In(NumberAt(m, i), r)

Faulty(v) ==
    CASE v = "ExtRangePositive" ->
           {m \in Numbers!Checked : \E i \in DOMAIN Extensions(m) : Extensions(m)[i].from <= 0}
      [] v = "PositiveFieldNumbers" ->
           {m \in Numbers!Checked : \E i \in DOMAIN Numbers!Fields(m) : NumberAt(m, i) <= 0}
      [] v = "MaxFieldNumbers" ->
           {m \in Numbers!Checked : \E i \in DOMAIN Numbers!Fields(m) : NumberAt(m, i) > MaxFieldNumber}
             \cup {x \in Numbers!Exts : Numbers!Ext[x].number > MaxFieldNumber}
      [] v = "ExtRangeMax" ->
           {m \in Numbers!Checked : TooLarge(m) /\ \A o \in Written(m).within : ~TooLarge(o)}
      [] v = "ReservedFieldNumbers" ->
           {m \in Msgs : \E f \in Numbers!Range(Numbers!Fields(m)) : Numbers!KeptByProtobuf(f.number)}
             \cup {x \in Numbers!Exts : Numbers!KeptByProtobuf(Numbers!Ext[x].number)}
      [] v = "ReservedNumberConflicts" -> {m \in Numbers!Checked : FieldIn(m, Reserved(m))}
      [] v = "DuplicateReservedNames" ->
           {m \in Numbers!Checked : Numbers!Repeated(job.messages[m].reservedNames)}
             \cup {e \in Numbers!Enums : Numbers!Repeated(job.enums[e].reservedNames)}
      [] v = "ReservedNameConflicts" ->
           {m \in Numbers!Checked :
              Numbers!Range(Numbers!NamesOf(Numbers!Fields(m)))
                \cap Numbers!Range(job.messages[m].reservedNames) # {}}
      [] v = "DuplicateFieldNumbers" ->
           {m \in Numbers!Checked : Numbers!Repeated(Numbers!NumbersOf(Numbers!Fields(m)))}
      [] v = "EmptyOneofs" ->
           {m \in Numbers!Checked :
              \E o \in 1 .. job.messages[m].oneofs :
                 \A f \in Numbers!Range(Numbers!Fields(m)) : f.oneof # o}
      [] v = "EmptyEnums" -> {e \in Numbers!Enums : job.enums[e].values = <<>>}
      [] v = "DuplicateEnumValues" ->
           {e \in Numbers!Enums :
              ~ job.enums[e].allowAlias /\ Numbers!Repeated(Numbers!NumbersOf(job.enums[e].values))}
      [] v = "ExtensionFieldConflicts" -> {m \in Numbers!Checked : FieldIn(m, Extensions(m))}
      [] v = "ReservedRangeOverlaps" -> {m \in Numbers!Checked : Numbers!SomeOverlap(Reserved(m))}
      [] v = "EnumReservedRangeOverlaps" ->
           {e \in Numbers!Enums :
              \E i, j \in DOMAIN job.enums[e].reserved :
                 /\ i < j
                 /\ job.enums[e].reserved[i].first <= job.enums[e].reserved[j].last
                 /\ job.enums[e].reserved[j].first <= job.enums[e].reserved[i].last}
      [] v = "EnumReservedValueConflicts" ->
           {e \in Numbers!Enums :
              \E u \in Numbers!Range(job.enums[e].values), r \in Numbers!Range(job.enums[e].reserved) :
                 Numbers!InEnumRange(u.number, r)}
      [] v = "EnumReservedNameConflicts" ->
           {e \in Numbers!Enums :
              Numbers!Range(Numbers!NamesOf(job.enums[e].values))
                \cap Numbers!Range(job.enums[e].reservedNames) # {}}
      [] v = "ExtensionRangeOverlaps" -> {m \in Numbers!Checked : Numbers!SomeOverlap(Extensions(m))}
      [] v = "ExtensionReservedOverlaps" ->
           {m \in Numbers!Checked :
              \E r \in Numbers!Range(Extensions(m)), s \in Numbers!Range(Reserved(m)) :
                 Numbers!Overlap(r, s)}
      [] v = "ExtensionRanges" ->
           {x \in Numbers!Exts :
              ~ \E r \in Numbers!Range(Extensions(Numbers!Ext[x].extendee)) :
                   Numbers!In(Numbers!Ext[x].number, r)}
      [] v = "DuplicateExtensionNumbers" -> {x \in Numbers!Reused : Numbers!SameFile(x)}
      [] v = "MessageSetFields" ->
           {m \in Numbers!Checked : job.messages[m].messageSet # "no" /\ Numbers!Fields(m) # <<>>}
      [] OTHER -> {}

\* A validator names them, and warns of an extension that another file has the number of.
ReportsWrong(v) ==
    /\ outcome = "running" /\ at \in DOMAIN Numbers!Validators /\ Numbers!Validators[at] = v
    /\ errors' = errors \cup {[what |-> v, of |-> x] : x \in Faulty(v)}
    /\ warnings' = IF v = "DuplicateExtensionNumbers"
                   THEN {x \in Numbers!Reused : ~ Numbers!SameFile(x)} ELSE warnings
    /\ at' = at + 1
    /\ UNCHANGED <<job, parsed, outcome, printed>>

LEMMA Reporting ==
    ASSUME NEW v, NEW wrong, NEW request, Numbers!ReportAndAsk(v, wrong, request),
           wrong = Faulty(v), v # "DuplicateExtensionNumbers"
    PROVE  ReportsWrong(v)
  BY DEF Numbers!ReportAndAsk, Numbers!Turn, ReportsWrong

\* Fields are named by their messages.
LEMMA NamedFields ==
    ASSUME NEW W \in SUBSET Numbers!CheckedFields
    PROVE  {k[1] : k \in W}
              = {m \in Numbers!Checked : \E i \in DOMAIN Numbers!Fields(m) : <<m, i>> \in W}
  <1>1. \A k \in W : \E m \in Numbers!Checked : \E i \in DOMAIN Numbers!Fields(m) : k = <<m, i>>
    BY DEF Numbers!CheckedFields
  <1>2. ASSUME NEW k \in W
        PROVE  \E m \in Numbers!Checked :
                  k[1] = m /\ \E i \in DOMAIN Numbers!Fields(m) : <<m, i>> \in W
    <2>1. PICK m \in Numbers!Checked : \E i \in DOMAIN Numbers!Fields(m) : k = <<m, i>>
      BY <1>1
    <2>2. PICK i \in DOMAIN Numbers!Fields(m) : k = <<m, i>>
      BY <2>1
    <2>3. k[1] = m
      BY <2>2
    <2>. QED  BY <2>2, <2>3
  <1>3. ASSUME NEW m \in Numbers!Checked, NEW i \in DOMAIN Numbers!Fields(m), <<m, i>> \in W
        PROVE  m \in {k[1] : k \in W}
    <2>1. <<m, i>>[1] = m
      OBVIOUS
    <2>. QED  BY <1>3, <2>1
  <1>. QED  BY <1>2, <1>3

LEMMA CheckedField ==
    ASSUME NEW m \in Numbers!Checked, NEW i \in DOMAIN Numbers!Fields(m)
    PROVE  <<m, i>> \in Numbers!CheckedFields /\ Numbers!Number(<<m, i>>) = NumberAt(m, i)
  BY DEF Numbers!CheckedFields, Numbers!Number, NumberAt

LEMMA ReportFieldsReports ==
    ASSUME \/ Numbers!PositiveFieldNumbers \/ Numbers!MaxFieldNumbers
           \/ Numbers!ReservedNumberConflicts \/ Numbers!ExtensionFieldConflicts
    PROVE  \E v : ReportsWrong(v)
  <1>1. ASSUME NEW v, NEW W \in SUBSET Numbers!CheckedFields, NEW others,
               Numbers!ReportFields(v, W, others), v # "DuplicateExtensionNumbers",
               Faulty(v) = {m \in Numbers!Checked : \E i \in DOMAIN Numbers!Fields(m) : <<m, i>> \in W}
                             \cup others
        PROVE  ReportsWrong(v)
    <2>1. {k[1] : k \in W} \cup others = Faulty(v)
      BY <1>1, NamedFields
    <2>2. Numbers!ReportAndAsk(v, {k[1] : k \in W} \cup others,
             [m \in Msgs |-> Numbers!Cardinality({k \in W : k[1] = m})])
      BY <1>1 DEF Numbers!ReportFields, Msgs
    <2>. QED  BY <1>1, <2>1, <2>2, Reporting
  <1>2. CASE Numbers!PositiveFieldNumbers
    <2>. DEFINE W == {k \in Numbers!CheckedFields : Numbers!Number(k) <= 0}
    <2>1. Numbers!ReportFields("PositiveFieldNumbers", W, {})
      BY <1>2 DEF Numbers!PositiveFieldNumbers
    <2>2. Faulty("PositiveFieldNumbers")
             = {m \in Numbers!Checked : \E i \in DOMAIN Numbers!Fields(m) : <<m, i>> \in W} \cup {}
      BY CheckedField DEF Faulty
    <2>3. W \in SUBSET Numbers!CheckedFields
      OBVIOUS
    <2>. HIDE DEF W
    <2>. QED  BY <1>1, <2>1, <2>2, <2>3
  <1>3. CASE Numbers!MaxFieldNumbers
    <2>. DEFINE W == {k \in Numbers!CheckedFields : Numbers!Number(k) > MaxFieldNumber}
                others == {x \in Numbers!Exts : Numbers!Ext[x].number > MaxFieldNumber}
    <2>1. Numbers!ReportFields("MaxFieldNumbers", W, others)
      BY <1>3 DEF Numbers!MaxFieldNumbers
    <2>2. Faulty("MaxFieldNumbers")
             = {m \in Numbers!Checked : \E i \in DOMAIN Numbers!Fields(m) : <<m, i>> \in W} \cup others
      BY ZenonT(60), CheckedField DEF Faulty
    <2>3. W \in SUBSET Numbers!CheckedFields
      OBVIOUS
    <2>. HIDE DEF W, others
    <2>. QED  BY <1>1, <2>1, <2>2, <2>3
  <1>4. CASE Numbers!ReservedNumberConflicts
    <2>. DEFINE W == {k \in Numbers!CheckedFields :
                        \E r \in Numbers!Range(parsed[k[1]].reserved) : Numbers!In(Numbers!Number(k), r)}
    <2>1. Numbers!ReportFields("ReservedNumberConflicts", W, {})
      BY <1>4 DEF Numbers!ReservedNumberConflicts
    <2>2. Faulty("ReservedNumberConflicts")
             = {m \in Numbers!Checked : \E i \in DOMAIN Numbers!Fields(m) : <<m, i>> \in W} \cup {}
      BY ZenonT(60), CheckedField DEF Faulty, FieldIn, Reserved
    <2>3. W \in SUBSET Numbers!CheckedFields
      OBVIOUS
    <2>. HIDE DEF W
    <2>. QED  BY <1>1, <2>1, <2>2, <2>3
  <1>5. CASE Numbers!ExtensionFieldConflicts
    <2>. DEFINE W == {k \in Numbers!CheckedFields :
                        \E r \in Numbers!Range(parsed[k[1]].extensions) : Numbers!In(Numbers!Number(k), r)}
    <2>1. Numbers!ReportFields("ExtensionFieldConflicts", W, {})
      BY <1>5 DEF Numbers!ExtensionFieldConflicts
    <2>2. Faulty("ExtensionFieldConflicts")
             = {m \in Numbers!Checked : \E i \in DOMAIN Numbers!Fields(m) : <<m, i>> \in W} \cup {}
      BY ZenonT(60), CheckedField DEF Faulty, FieldIn, Extensions
    <2>3. W \in SUBSET Numbers!CheckedFields
      OBVIOUS
    <2>. HIDE DEF W
    <2>. QED  BY <1>1, <2>1, <2>2, <2>3
  <1>. QED  BY <1>2, <1>3, <1>4, <1>5

LEMMA ValidateReports ==
    ASSUME Numbers!Validate
    PROVE  \E v : ReportsWrong(v)
  <1>1. CASE Numbers!ExtRangePositive
    <2>1. {m \in Numbers!Checked : Numbers!NotPositive(m) # {}} = Faulty("ExtRangePositive")
      BY DEF Faulty, Extensions, Numbers!NotPositive
    <2>. QED  BY <1>1, <2>1, Reporting DEF Numbers!ExtRangePositive
  <1>2. ASSUME NEW v, NEW wrong, Numbers!Report(v, wrong), wrong = Faulty(v),
               v # "DuplicateExtensionNumbers"
        PROVE  ReportsWrong(v)
    BY <1>2, Reporting DEF Numbers!Report
  <1>3. CASE Numbers!ExtRangeMax
    BY <1>2, <1>3 DEF Numbers!ExtRangeMax, Faulty, TooLarge, Written, Extensions
  <1>4. CASE Numbers!ReservedFieldNumbers
    BY <1>2, <1>4 DEF Numbers!ReservedFieldNumbers, Faulty, Msgs
  <1>5. CASE Numbers!DuplicateReservedNames
    BY <1>2, <1>5 DEF Numbers!DuplicateReservedNames, Faulty
  <1>6. CASE Numbers!ReservedNameConflicts
    BY <1>2, <1>6 DEF Numbers!ReservedNameConflicts, Faulty
  <1>7. CASE Numbers!DuplicateFieldNumbers
    BY <1>2, <1>7 DEF Numbers!DuplicateFieldNumbers, Faulty
  <1>8. CASE Numbers!EmptyOneofs
    BY <1>2, <1>8 DEF Numbers!EmptyOneofs, Faulty
  <1>9. CASE Numbers!EmptyEnums
    BY <1>2, <1>9 DEF Numbers!EmptyEnums, Faulty
  <1>10. CASE Numbers!DuplicateEnumValues
    BY <1>2, <1>10 DEF Numbers!DuplicateEnumValues, Faulty
  <1>11. CASE Numbers!Suggest
    <2>1. /\ outcome = "running" /\ at \in DOMAIN Numbers!Validators
          /\ Numbers!Validators[at] = "Suggestions" /\ at' = at + 1
          /\ UNCHANGED <<job, parsed, errors, warnings, outcome, printed>>
      BY <1>11 DEF Numbers!Suggest, Numbers!Turn
    <2>2. Faulty("Suggestions") = {}
      BY DEF Faulty
    <2>3. {[what |-> "Suggestions", of |-> x] : x \in Faulty("Suggestions")} = {}
      BY <2>2
    <2>. QED  BY <2>1, <2>3 DEF ReportsWrong
  <1>12. CASE Numbers!ReservedRangeOverlaps
    BY <1>2, <1>12 DEF Numbers!ReservedRangeOverlaps, Faulty, Reserved
  <1>13. CASE Numbers!EnumReservedRangeOverlaps
    BY <1>2, <1>13 DEF Numbers!EnumReservedRangeOverlaps, Faulty
  <1>14. CASE Numbers!EnumReservedValueConflicts
    BY <1>2, <1>14 DEF Numbers!EnumReservedValueConflicts, Faulty
  <1>15. CASE Numbers!EnumReservedNameConflicts
    BY <1>2, <1>15 DEF Numbers!EnumReservedNameConflicts, Faulty
  <1>16. CASE Numbers!ExtensionRangeOverlaps
    BY <1>2, <1>16 DEF Numbers!ExtensionRangeOverlaps, Faulty, Extensions
  <1>17. CASE Numbers!ExtensionReservedOverlaps
    BY <1>2, <1>17 DEF Numbers!ExtensionReservedOverlaps, Faulty, Extensions, Reserved
  <1>18. CASE Numbers!ExtensionRanges
    BY <1>2, <1>18 DEF Numbers!ExtensionRanges, Faulty, Extensions
  <1>19. CASE Numbers!DuplicateExtensionNumbers
    BY <1>19 DEF Numbers!DuplicateExtensionNumbers, Numbers!Turn, Faulty, ReportsWrong
  <1>20. CASE Numbers!MessageSetFields
    BY <1>2, <1>20 DEF Numbers!MessageSetFields, Faulty
  <1>. QED  BY <1>1, <1>3, <1>4, <1>5, <1>6, <1>7, <1>8, <1>9, <1>10, <1>11, <1>12, <1>13, <1>14,
                <1>15, <1>16, <1>17, <1>18, <1>19, <1>20, ReportFieldsReports DEF Numbers!Validate

-------------------------------------------------------------------------------
(* Whom the validators of messages should name. *)

ParsedInv ==
    \A m \in Msgs :
        /\ Reserved(m) \in Seq(Half) /\ Extensions(m) \in Seq(Half)
        /\ Written(m).mapEntry => Extensions(m) = <<>>

LEMMA RangeFacts ==
    ASSUME NEW S, NEW s \in Seq(S)
    PROVE  /\ Len(s) \in Nat /\ DOMAIN s = 1 .. Len(s)
           /\ \A i \in DOMAIN s : s[i] \in S /\ s[i] \in Numbers!Range(s)
           /\ \A x \in Numbers!Range(s) : x \in S /\ \E i \in DOMAIN s : s[i] = x
  BY LenProperties, ElementOfSeq DEF Numbers!Range

\* The parts of what a message spends.
FieldSets(m) == [i \in DOMAIN Numbers!Fields(m) |-> {NumberAt(m, i)}]
RangeSets(ranges) == [i \in DOMAIN ranges |-> Numbers!Numbers(ranges[i])]

LEMMA RangeSetsMeet ==
    ASSUME NEW ranges \in Seq(Half)
    PROVE  /\ RangeSets(ranges) \in Seq(SUBSET Int)
           /\ Meets(RangeSets(ranges)) <=> Numbers!SomeOverlap(ranges)
  <1>1. /\ Len(ranges) \in Nat /\ DOMAIN ranges = 1 .. Len(ranges)
        /\ \A i \in DOMAIN ranges : ranges[i] \in Half
    BY RangeFacts
  <1>2. \A i \in DOMAIN ranges : Numbers!Numbers(ranges[i]) \in SUBSET Int
    BY DEF Numbers!Numbers
  <1>3. RangeSets(ranges) \in Seq(SUBSET Int)
    BY <1>1, <1>2 DEF RangeSets
  <1>4. ASSUME NEW i \in DOMAIN ranges, NEW j \in DOMAIN ranges
        PROVE  Numbers!Overlap(ranges[i], ranges[j])
                 <=> RangeSets(ranges)[i] \cap RangeSets(ranges)[j] # {}
    BY <1>1, OverlapShares DEF RangeSets
  <1>5. DOMAIN RangeSets(ranges) = DOMAIN ranges
    BY DEF RangeSets
  <1>6. ASSUME Meets(RangeSets(ranges)) PROVE Numbers!SomeOverlap(ranges)
    <2>1. PICK i \in DOMAIN ranges, j \in DOMAIN ranges :
             i # j /\ RangeSets(ranges)[i] \cap RangeSets(ranges)[j] # {}
      BY <1>5, <1>6 DEF Meets
    <2>2. Numbers!Overlap(ranges[i], ranges[j]) /\ Numbers!Overlap(ranges[j], ranges[i])
      BY <1>4, <2>1
    <2>3. i < j \/ j < i
      BY <1>1, <2>1
    <2>. QED  BY <2>2, <2>3 DEF Numbers!SomeOverlap
  <1>7. ASSUME Numbers!SomeOverlap(ranges) PROVE Meets(RangeSets(ranges))
    <2>1. PICK i \in DOMAIN ranges, j \in DOMAIN ranges : i < j /\ Numbers!Overlap(ranges[i], ranges[j])
      BY <1>7 DEF Numbers!SomeOverlap
    <2>2. i # j
      BY <1>1, <2>1
    <2>. QED  BY <1>4, <1>5, <2>1, <2>2 DEF Meets
  <1>. QED  BY <1>3, <1>6, <1>7

LEMMA FieldSetsMeet ==
    ASSUME Numbers!IsJob(job), NEW m \in Msgs
    PROVE  /\ FieldSets(m) \in Seq(SUBSET Int)
           /\ Meets(FieldSets(m)) <=> Numbers!Repeated(Numbers!NumbersOf(Numbers!Fields(m)))
  <1>1. /\ Len(Numbers!Fields(m)) \in Nat /\ DOMAIN Numbers!Fields(m) = 1 .. Len(Numbers!Fields(m))
        /\ \A i \in DOMAIN Numbers!Fields(m) : NumberAt(m, i) \in Int
    BY JobFacts
  <1>2. FieldSets(m) \in Seq(SUBSET Int) /\ DOMAIN FieldSets(m) = DOMAIN Numbers!Fields(m)
    BY <1>1 DEF FieldSets
  <1>. DEFINE s == Numbers!NumbersOf(Numbers!Fields(m))
  <1>3. /\ s \in Seq(Int) /\ DOMAIN s = DOMAIN Numbers!Fields(m)
        /\ \A i \in DOMAIN Numbers!Fields(m) : s[i] = NumberAt(m, i)
    <2>1. s = [i \in 1 .. Len(Numbers!Fields(m)) |-> NumberAt(m, i)]
      BY <1>1 DEF Numbers!NumbersOf, NumberAt
    <2>. HIDE DEF s
    <2>. QED  BY <1>1, <2>1
  <1>4. ASSUME NEW i \in DOMAIN Numbers!Fields(m), NEW j \in DOMAIN Numbers!Fields(m)
        PROVE  FieldSets(m)[i] \cap FieldSets(m)[j] # {} <=> s[i] = s[j]
    <2>1. FieldSets(m)[i] = {s[i]} /\ FieldSets(m)[j] = {s[j]}
      BY <1>3 DEF FieldSets
    <2>. HIDE DEF s
    <2>. QED  BY <2>1
  <1>5. Numbers!Repeated(s) <=> \E i, j \in DOMAIN s : i # j /\ s[i] = s[j]
    <2>. HIDE DEF s
    <2>. QED  BY <1>3, RepeatedMeans
  <1>. HIDE DEF s
  <1>6. Meets(FieldSets(m)) <=> Numbers!Repeated(s)
    BY <1>2, <1>3, <1>4, <1>5 DEF Meets
  <1>. QED  BY <1>2, <1>6 DEF s

LEMMA FieldsAcross ==
    ASSUME Numbers!IsJob(job), NEW m \in Msgs, NEW ranges \in Seq(Half)
    PROVE  Across(FieldSets(m), RangeSets(ranges)) <=> FieldIn(m, ranges)
  <1>1. \A i \in DOMAIN Numbers!Fields(m) : NumberAt(m, i) \in Int
    BY JobFacts
  <1>2. /\ \A j \in DOMAIN ranges : ranges[j] \in Half /\ ranges[j] \in Numbers!Range(ranges)
        /\ \A r \in Numbers!Range(ranges) : r \in Half /\ \E j \in DOMAIN ranges : ranges[j] = r
    BY RangeFacts
  <1>3. ASSUME NEW i \in DOMAIN Numbers!Fields(m), NEW j \in DOMAIN ranges
        PROVE  FieldSets(m)[i] \cap RangeSets(ranges)[j] # {} <=> Numbers!In(NumberAt(m, i), ranges[j])
    <2>1. FieldSets(m)[i] = {NumberAt(m, i)} /\ RangeSets(ranges)[j] = Numbers!Numbers(ranges[j])
      BY DEF FieldSets, RangeSets
    <2>2. Numbers!In(NumberAt(m, i), ranges[j]) <=> NumberAt(m, i) \in Numbers!Numbers(ranges[j])
      BY <1>1, <1>2, InNumbers
    <2>. QED  BY <2>1, <2>2
  <1>4. DOMAIN FieldSets(m) = DOMAIN Numbers!Fields(m) /\ DOMAIN RangeSets(ranges) = DOMAIN ranges
    BY DEF FieldSets, RangeSets
  <1>. QED  BY <1>2, <1>3, <1>4 DEF Across, FieldIn

LEMMA RangesAcross ==
    ASSUME NEW R \in Seq(Half), NEW X \in Seq(Half)
    PROVE  Across(RangeSets(R), RangeSets(X))
             <=> \E r \in Numbers!Range(X), s \in Numbers!Range(R) : Numbers!Overlap(r, s)
  <1>1. /\ \A j \in DOMAIN R : R[j] \in Half /\ R[j] \in Numbers!Range(R)
        /\ \A r \in Numbers!Range(R) : r \in Half /\ \E j \in DOMAIN R : R[j] = r
        /\ \A j \in DOMAIN X : X[j] \in Half /\ X[j] \in Numbers!Range(X)
        /\ \A r \in Numbers!Range(X) : r \in Half /\ \E j \in DOMAIN X : X[j] = r
    BY RangeFacts
  <1>2. ASSUME NEW i \in DOMAIN R, NEW j \in DOMAIN X
        PROVE  RangeSets(R)[i] \cap RangeSets(X)[j] # {} <=> Numbers!Overlap(X[j], R[i])
    <2>1. Numbers!Overlap(X[j], R[i]) <=> Numbers!Numbers(X[j]) \cap Numbers!Numbers(R[i]) # {}
      BY <1>1, OverlapShares
    <2>. QED  BY <2>1 DEF RangeSets
  <1>3. DOMAIN RangeSets(R) = DOMAIN R /\ DOMAIN RangeSets(X) = DOMAIN X
    BY DEF RangeSets
  <1>. QED  BY <1>1, <1>2, <1>3 DEF Across

\* A number with two uses in a message, by the kinds of the uses.
LEMMA SpentTwice ==
    ASSUME Numbers!IsJob(job), NEW m \in Msgs, Reserved(m) \in Seq(Half), Extensions(m) \in Seq(Half)
    PROVE  Meets(Numbers!Spent(m))
             <=> \/ Numbers!Repeated(Numbers!NumbersOf(Numbers!Fields(m)))
                 \/ Numbers!SomeOverlap(Reserved(m)) \/ Numbers!SomeOverlap(Extensions(m))
                 \/ FieldIn(m, Reserved(m)) \/ FieldIn(m, Extensions(m))
                 \/ \E r \in Numbers!Range(Extensions(m)), s \in Numbers!Range(Reserved(m)) :
                       Numbers!Overlap(r, s)
  <1>. DEFINE A == FieldSets(m)
              B == RangeSets(Reserved(m))
              C == RangeSets(Extensions(m))
  <1>1. A \in Seq(SUBSET Int) /\ (Meets(A) <=> Numbers!Repeated(Numbers!NumbersOf(Numbers!Fields(m))))
    BY FieldSetsMeet
  <1>2. B \in Seq(SUBSET Int) /\ (Meets(B) <=> Numbers!SomeOverlap(Reserved(m)))
    BY RangeSetsMeet
  <1>3. C \in Seq(SUBSET Int) /\ (Meets(C) <=> Numbers!SomeOverlap(Extensions(m)))
    BY RangeSetsMeet
  <1>4. /\ Across(A, B) <=> FieldIn(m, Reserved(m))
        /\ Across(A, C) <=> FieldIn(m, Extensions(m))
    BY FieldsAcross
  <1>5. Across(B, C) <=> \E r \in Numbers!Range(Extensions(m)), s \in Numbers!Range(Reserved(m)) :
                            Numbers!Overlap(r, s)
    BY RangesAcross
  <1>6. Numbers!Spent(m) = (A \o B) \o C
    BY DEF Numbers!Spent, FieldSets, RangeSets, NumberAt, Reserved, Extensions
  <1>7. A \o B \in Seq(SUBSET Int) /\ (Meets(A \o B) <=> Meets(A) \/ Meets(B) \/ Across(A, B))
    <2>. HIDE DEF A, B
    <2>. QED  BY <1>1, <1>2, ConcatParts, ConcatMeets
  <1>8. Meets((A \o B) \o C) <=> Meets(A \o B) \/ Meets(C) \/ Across(A \o B, C)
    <2>1. PICK D \in Seq(SUBSET Int) : D = A \o B
      BY <1>7
    <2>. HIDE DEF A, B, C
    <2>2. Meets(D \o C) <=> Meets(D) \/ Meets(C) \/ Across(D, C)
      BY <1>3, ConcatMeets
    <2>. QED  BY <2>1, <2>2
  <1>9. Across(A \o B, C) <=> Across(A, C) \/ Across(B, C)
    <2>. HIDE DEF A, B, C
    <2>. QED  BY <1>1, <1>2, ConcatAcross
  <1>. HIDE DEF A, B, C
  <1>10. Meets(Numbers!Spent(m)) <=> Meets((A \o B) \o C)
    BY <1>6
  <1>. QED  BY <1>1, <1>2, <1>3, <1>4, <1>5, <1>7, <1>8, <1>9, <1>10

-------------------------------------------------------------------------------
(* Offenders, and who covers for whom. *)

OffendingMessages == {m \in Msgs : Numbers!OffendingMessage(m)}
OffendingEnums == {e \in Numbers!Enums : Numbers!OffendingEnum(e)}
OffendingExtensions == {x \in Numbers!Exts : Numbers!OffendingExtension(x)}
Offenders == OffendingMessages \cup OffendingEnums \cup OffendingExtensions

\* Messages are asked for what validators ask of them.
MessageWrong(m) ==
    \/ \E i \in DOMAIN Numbers!Fields(m) : NumberAt(m, i) <= 0 \/ NumberAt(m, i) > MaxFieldNumber
    \/ \E i \in DOMAIN Numbers!Fields(m) : Numbers!KeptByProtobuf(NumberAt(m, i))
    \/ Meets(Numbers!Spent(m))
    \/ \E i \in DOMAIN Extensions(m) : Extensions(m)[i].from <= 0
    \/ TooLarge(m)
    \/ job.messages[m].messageSet # "no" /\ Numbers!Fields(m) # <<>>
    \/ Numbers!Range(Numbers!NamesOf(Numbers!Fields(m)))
          \cap Numbers!Range(job.messages[m].reservedNames) # {}
    \/ Numbers!Repeated(job.messages[m].reservedNames)
    \/ \E o \in 1 .. job.messages[m].oneofs : \A f \in Numbers!Range(Numbers!Fields(m)) : f.oneof # o

LEMMA NumbersAreLegal ==
    ASSUME Numbers!IsJob(job), NEW m \in Msgs
    PROVE  ~ Numbers!Range(Numbers!NumbersOf(Written(m).fields)) \subseteq Numbers!Legal
             <=> \E i \in DOMAIN Numbers!Fields(m) :
                    \/ NumberAt(m, i) <= 0 \/ NumberAt(m, i) > MaxFieldNumber
                    \/ Numbers!KeptByProtobuf(NumberAt(m, i))
  <1>1. Numbers!Fields(m) = Written(m).fields /\ \A i \in DOMAIN Numbers!Fields(m) : NumberAt(m, i) \in Int
    BY JobFacts
  <1>2. Numbers!Range(Numbers!NumbersOf(Written(m).fields))
           = {NumberAt(m, i) : i \in DOMAIN Numbers!Fields(m)}
    BY <1>1 DEF Numbers!Range, Numbers!NumbersOf, NumberAt
  <1>3. FirstReserved \in Int /\ LastReserved \in Int /\ MaxFieldNumber \in Int
    BY BoundsAssumption
  <1>4. \A n \in Int : n \notin Numbers!Legal
                         <=> n <= 0 \/ n > MaxFieldNumber \/ Numbers!KeptByProtobuf(n)
    BY <1>3 DEF Numbers!Legal, Numbers!KeptByProtobuf
  <1>. QED  BY <1>1, <1>2, <1>4

\* A range whose numbers are not all in bounds starts too low, or ends too high.
LEMMA RangesOutOfBounds ==
    ASSUME NEW m \in Msgs, Extensions(m) \in Seq(Half)
    PROVE  /\ TooLarge(m) => \E r \in Numbers!Range(Extensions(m)) :
                               ~ Numbers!Numbers(r) \subseteq 1 .. MaxFieldNumber
           /\ \A r \in Numbers!Range(Extensions(m)) :
                 ~ Numbers!Numbers(r) \subseteq 1 .. MaxFieldNumber
                   => r.from <= 0 \/ r.to > MaxFieldNumber + 1
  <1>1. MaxFieldNumber \in Nat /\ MaxInt \in Nat
    BY BoundsAssumption
  <1>2. \A r \in Numbers!Range(Extensions(m)) : r \in Half
    BY RangeFacts
  <1>3. ASSUME NEW r \in Half, r.to > MaxFieldNumber + 1
        PROVE  ~ Numbers!Numbers(r) \subseteq 1 .. MaxFieldNumber
    <2>1. r.from \in Nat /\ r.to \in Int /\ r.from < r.to
      BY <1>1, <1>3 DEF Half
    <2>2. r.to - 1 \in Numbers!Numbers(r) /\ r.to - 1 \notin 1 .. MaxFieldNumber
      BY <1>1, <1>3, <2>1 DEF Numbers!Numbers
    <2>. QED  BY <2>2
  <1>4. ASSUME NEW r \in Half, NEW k \in Numbers!Numbers(r), k \notin 1 .. MaxFieldNumber
        PROVE  r.from <= 0 \/ r.to > MaxFieldNumber + 1
    BY <1>1, <1>4 DEF Half, Numbers!Numbers
  <1>. QED  BY <1>2, <1>3, <1>4 DEF TooLarge

LEMMA MessagesOffend ==
    ASSUME Numbers!IsJob(job), ParsedInv, NEW m \in Msgs
    PROVE  Numbers!OffendingMessage(m) <=> m \in Numbers!Checked /\ MessageWrong(m)
  <1>1. Numbers!Fields(m) = Written(m).fields /\ Numbers!IsMessage(job, m)
    BY JobFacts
  <1>2. Reserved(m) \in Seq(Half) /\ Extensions(m) \in Seq(Half)
    BY DEF ParsedInv
  <1>. DEFINE Illegal == \E i \in DOMAIN Numbers!Fields(m) :
                            \/ NumberAt(m, i) <= 0 \/ NumberAt(m, i) > MaxFieldNumber
                            \/ Numbers!KeptByProtobuf(NumberAt(m, i))
              TooLow == \E i \in DOMAIN Extensions(m) : Extensions(m)[i].from <= 0
              Beyond == /\ Written(m).messageSet = "no"
                        /\ \E r \in Numbers!Range(Extensions(m)) :
                              ~ Numbers!Numbers(r) \subseteq 1 .. MaxFieldNumber
              Named == \E f \in Numbers!Range(Written(m).fields),
                          n \in Numbers!Range(Written(m).reservedNames) : f.name = n
              Again == \E i, j \in DOMAIN Written(m).reservedNames :
                          i # j /\ Written(m).reservedNames[i] = Written(m).reservedNames[j]
              Empty == ~ 1 .. Written(m).oneofs
                            \subseteq {f.oneof : f \in Numbers!Range(Written(m).fields)}
  <1>3. ~ Numbers!Range(Numbers!NumbersOf(Written(m).fields)) \subseteq Numbers!Legal <=> Illegal
    BY NumbersAreLegal
  <1>4. (\E r \in Numbers!Range(Extensions(m)) : r.from < 1) <=> TooLow
    <2>1. /\ \A i \in DOMAIN Extensions(m) :
                Extensions(m)[i] \in Half /\ Extensions(m)[i] \in Numbers!Range(Extensions(m))
          /\ \A r \in Numbers!Range(Extensions(m)) :
                r \in Half /\ \E i \in DOMAIN Extensions(m) : Extensions(m)[i] = r
      BY <1>2, RangeFacts
    <2>2. \A r \in Half : r.from < 1 <=> r.from <= 0
      BY DEF Half
    <2>. QED  BY <2>1, <2>2
  <1>5. TooLow \/ Beyond <=> TooLow \/ TooLarge(m)
    <2>1. TooLarge(m) => Beyond
      BY <1>2, RangesOutOfBounds DEF TooLarge
    <2>2. ASSUME Beyond, ~TooLow PROVE TooLarge(m)
      <3>1. PICK r \in Numbers!Range(Extensions(m)) : ~ Numbers!Numbers(r) \subseteq 1 .. MaxFieldNumber
        BY <2>2
      <3>2. ~ (r.from <= 0)
        BY <1>2, <2>2, RangeFacts
      <3>. QED  BY <1>2, <2>2, <3>1, <3>2, RangesOutOfBounds DEF TooLarge
    <2>. QED  BY <2>1, <2>2
  <1>6. Named <=> Numbers!Range(Numbers!NamesOf(Numbers!Fields(m)))
                    \cap Numbers!Range(job.messages[m].reservedNames) # {}
    <2>1. Numbers!Range(Numbers!NamesOf(Numbers!Fields(m)))
             = {f.name : f \in Numbers!Range(Written(m).fields)}
      BY <1>1 DEF Numbers!Range, Numbers!NamesOf
    <2>. QED  BY <2>1 DEF Written
  <1>7. Again <=> Numbers!Repeated(job.messages[m].reservedNames)
    <2>1. Numbers!IsSequence(Written(m).reservedNames)
      BY <1>1 DEF Numbers!IsMessage, Written
    <2>. QED  BY <2>1, RepeatedMeans DEF Numbers!IsSequence, Written
  <1>8. Empty <=> \E o \in 1 .. job.messages[m].oneofs :
                     \A f \in Numbers!Range(Numbers!Fields(m)) : f.oneof # o
    BY <1>1 DEF Written
  <1>9. Numbers!OffendingMessage(m)
           <=> /\ m \in Numbers!Checked
               /\ \/ Illegal \/ Meets(Numbers!Spent(m)) \/ TooLow \/ Beyond
                  \/ job.messages[m].messageSet # "no" /\ Numbers!Fields(m) # <<>>
                  \/ Named \/ Again \/ Empty
    BY <1>1, <1>3, <1>4 DEF Numbers!OffendingMessage, Meets, Written, Extensions
  <1>10. MessageWrong(m)
           <=> \/ Illegal \/ Meets(Numbers!Spent(m)) \/ TooLow \/ TooLarge(m)
               \/ job.messages[m].messageSet # "no" /\ Numbers!Fields(m) # <<>>
               \/ Named \/ Again \/ Empty
    <2>. HIDE DEF Named, Again, Empty
    <2>. QED  BY <1>6, <1>7, <1>8 DEF MessageWrong
  <1>. HIDE DEF Illegal, TooLow, Beyond, Named, Again, Empty
  <1>. QED  BY <1>5, <1>9, <1>10

\* The instance has its own copies of the operators on finite sets.
LEMMA IsFiniteSetSame ==
    ASSUME NEW S
    PROVE  Numbers!IsFiniteSet(S) <=> IsFiniteSet(S)
  BY DEF Numbers!IsFiniteSet, IsFiniteSet

\* Of the messages around one, with ranges that are too large, some is around no other.
LEMMA Outermost ==
    ASSUME Numbers!IsJob(job), NEW m \in Numbers!Checked, TooLarge(m)
    PROVE  m \in Faulty("ExtRangeMax") \/ \E o \in Written(m).within : o \in Faulty("ExtRangeMax")
  <1>. DEFINE W == Written(m).within
              Large == {o \in W : TooLarge(o)}
              Family == {T \in SUBSET W : \E o \in Large : T = Written(o).within}
  <1>. SUFFICES ASSUME m \notin Faulty("ExtRangeMax")
                PROVE  \E o \in W : o \in Faulty("ExtRangeMax")
    OBVIOUS
  <1>1. Large # {}
    BY DEF Faulty
  <1>2. /\ IsFiniteSet(W)
        /\ \A o \in W : /\ o \in Msgs /\ ~Written(o).mapEntry
                        /\ Written(o).within \subseteq W
    <2>1. Numbers!IsMessage(job, m)
      BY JobFacts DEF Numbers!Checked, Msgs
    <2>. QED  BY <2>1, IsFiniteSetSame DEF Numbers!IsMessage, Written, Msgs, Numbers!Messages
  <1>3. Family # {} /\ Family \in SUBSET SUBSET W
    BY <1>1, <1>2
  <1>4. PICK T \in Family : \A U \in Family : U \subseteq T => U = T
    <2>. HIDE DEF Family, W
    <2>. QED  BY <1>2, <1>3, SmallestSubset
  <1>5. PICK o \in Large : T = Written(o).within
    OBVIOUS
  <1>6. o \in Msgs /\ o \in Numbers!Checked
    BY <1>2 DEF Numbers!Checked, Msgs, Written
  <1>7. ASSUME NEW p \in Written(o).within, TooLarge(p)
        PROVE  FALSE
    <2>1. Numbers!IsMessage(job, o) /\ p \in W
      BY <1>2, <1>6, <1>7, JobFacts
    <2>2. p \in Msgs /\ Written(p).within \subseteq Written(o).within
      BY <1>7, <2>1 DEF Numbers!IsMessage, Written, Msgs, Numbers!Messages
    <2>3. Numbers!IsMessage(job, p)
      BY <2>2, JobFacts
    <2>4. p \notin Written(p).within
      BY <2>3 DEF Numbers!IsMessage, Written
    <2>5. Written(p).within \in Family
      BY <1>2, <1>7, <2>1
    <2>6. Written(p).within = Written(o).within
      BY <1>4, <1>5, <2>2, <2>5
    <2>. QED  BY <1>7, <2>4, <2>6
  <1>8. o \in Faulty("ExtRangeMax")
    BY <1>6, <1>7 DEF Faulty
  <1>. QED  BY <1>8

\* Each validator of messages names offending ones.
LEMMA FaultyMessages ==
    ASSUME Numbers!IsJob(job), ParsedInv, NEW m \in Msgs
    PROVE  /\ m \in Faulty("ExtRangePositive") \cup Faulty("PositiveFieldNumbers")
                      \cup Faulty("ExtRangeMax") \cup Faulty("ReservedNumberConflicts")
                => Numbers!OffendingMessage(m)
           /\ m \in Faulty("ReservedNameConflicts") \cup Faulty("DuplicateFieldNumbers")
                      \cup Faulty("EmptyOneofs") \cup Faulty("ExtensionFieldConflicts")
                => Numbers!OffendingMessage(m)
           /\ m \in Faulty("ReservedRangeOverlaps") \cup Faulty("ExtensionRangeOverlaps")
                      \cup Faulty("ExtensionReservedOverlaps") \cup Faulty("MessageSetFields")
                => Numbers!OffendingMessage(m)
           /\ m \in Numbers!Checked =>
                 /\ Numbers!Repeated(job.messages[m].reservedNames) => Numbers!OffendingMessage(m)
                 /\ (\E i \in DOMAIN Numbers!Fields(m) : NumberAt(m, i) > MaxFieldNumber)
                      => Numbers!OffendingMessage(m)
           /\ (\E f \in Numbers!Range(Numbers!Fields(m)) : Numbers!KeptByProtobuf(f.number))
                => Numbers!OffendingMessage(m)
  <1>1. Reserved(m) \in Seq(Half) /\ Extensions(m) \in Seq(Half)
    BY DEF ParsedInv
  <1>2. \/ FieldIn(m, Reserved(m)) \/ FieldIn(m, Extensions(m))
        \/ Numbers!Repeated(Numbers!NumbersOf(Numbers!Fields(m)))
        \/ Numbers!SomeOverlap(Reserved(m)) \/ Numbers!SomeOverlap(Extensions(m))
        \/ \E r \in Numbers!Range(Extensions(m)), s \in Numbers!Range(Reserved(m)) :
              Numbers!Overlap(r, s)
        => Meets(Numbers!Spent(m))
    BY <1>1, SpentTwice
  <1>3. Numbers!OffendingMessage(m) <=> m \in Numbers!Checked /\ MessageWrong(m)
    BY MessagesOffend
  <1>4. ASSUME m \in Faulty("ExtRangePositive") \cup Faulty("PositiveFieldNumbers")
                       \cup Faulty("ExtRangeMax") \cup Faulty("ReservedNumberConflicts")
        PROVE  Numbers!OffendingMessage(m)
    BY <1>2, <1>3, <1>4 DEF Faulty, MessageWrong
  <1>5. ASSUME m \in Faulty("ReservedNameConflicts") \cup Faulty("DuplicateFieldNumbers")
                       \cup Faulty("EmptyOneofs") \cup Faulty("ExtensionFieldConflicts")
        PROVE  Numbers!OffendingMessage(m)
    BY <1>2, <1>3, <1>5 DEF Faulty, MessageWrong
  <1>6. ASSUME m \in Faulty("ReservedRangeOverlaps") \cup Faulty("ExtensionRangeOverlaps")
                       \cup Faulty("ExtensionReservedOverlaps") \cup Faulty("MessageSetFields")
        PROVE  Numbers!OffendingMessage(m)
    BY <1>2, <1>3, <1>6 DEF Faulty, MessageWrong
  <1>7. ASSUME NEW f \in Numbers!Range(Numbers!Fields(m)), Numbers!KeptByProtobuf(f.number)
        PROVE  Numbers!OffendingMessage(m)
    <2>1. PICK i \in DOMAIN Numbers!Fields(m) : f = Numbers!Fields(m)[i]
      BY JobFacts
    <2>2. Numbers!KeptByProtobuf(NumberAt(m, i)) /\ NumberAt(m, i) \in Int
      BY <1>7, <2>1, JobFacts DEF NumberAt
    <2>3. NumberAt(m, i) \notin {1, 2}
      BY <2>2, BoundsAssumption DEF Numbers!KeptByProtobuf
    <2>4. m \in Numbers!Checked
      BY <2>3, JobFacts
    <2>. QED  BY <1>3, <2>2, <2>4 DEF MessageWrong
  <1>. QED  BY <1>3, <1>4, <1>5, <1>6, <1>7 DEF MessageWrong

\* And every one is named, or is in one that is.
NamedMessages ==
    Faulty("ExtRangePositive") \cup Faulty("PositiveFieldNumbers") \cup Faulty("MaxFieldNumbers")
        \cup Faulty("ExtRangeMax") \cup Faulty("ReservedFieldNumbers")
        \cup Faulty("ReservedNumberConflicts") \cup Faulty("DuplicateReservedNames")
        \cup Faulty("ReservedNameConflicts") \cup Faulty("DuplicateFieldNumbers")
        \cup Faulty("EmptyOneofs") \cup Faulty("ExtensionFieldConflicts")
        \cup Faulty("ReservedRangeOverlaps") \cup Faulty("ExtensionRangeOverlaps")
        \cup Faulty("ExtensionReservedOverlaps") \cup Faulty("MessageSetFields")

LEMMA MessagesAreCovered ==
    ASSUME Numbers!IsJob(job), ParsedInv, NEW m \in Msgs, Numbers!OffendingMessage(m)
    PROVE  m \in NamedMessages \/ \E o \in Written(m).within : o \in NamedMessages
  <1>1. m \in Numbers!Checked /\ MessageWrong(m) /\ Reserved(m) \in Seq(Half) /\ Extensions(m) \in Seq(Half)
    BY MessagesOffend DEF ParsedInv
  <1>2. CASE \E i \in DOMAIN Numbers!Fields(m) : NumberAt(m, i) <= 0 \/ NumberAt(m, i) > MaxFieldNumber
    <2>1. m \in Faulty("PositiveFieldNumbers") \cup Faulty("MaxFieldNumbers")
      BY <1>1, <1>2 DEF Faulty
    <2>. QED  BY <2>1 DEF NamedMessages
  <1>3. ASSUME NEW i \in DOMAIN Numbers!Fields(m), Numbers!KeptByProtobuf(NumberAt(m, i))
        PROVE  m \in NamedMessages
    <2>1. Numbers!Fields(m)[i] \in Numbers!Range(Numbers!Fields(m))
      BY JobFacts
    <2>2. m \in Faulty("ReservedFieldNumbers")
      BY <1>3, <2>1 DEF Faulty, NumberAt
    <2>. QED  BY <2>2 DEF NamedMessages
  <1>4. CASE Meets(Numbers!Spent(m))
    <2>1. \/ m \in Faulty("DuplicateFieldNumbers")
          \/ m \in Faulty("ReservedRangeOverlaps") \/ m \in Faulty("ExtensionRangeOverlaps")
          \/ m \in Faulty("ReservedNumberConflicts") \/ m \in Faulty("ExtensionFieldConflicts")
          \/ m \in Faulty("ExtensionReservedOverlaps")
      BY <1>1, <1>4, SpentTwice DEF Faulty
    <2>. QED  BY <2>1 DEF NamedMessages
  <1>5. CASE \E i \in DOMAIN Extensions(m) : Extensions(m)[i].from <= 0
    <2>1. m \in Faulty("ExtRangePositive")
      BY <1>1, <1>5 DEF Faulty
    <2>. QED  BY <2>1 DEF NamedMessages
  <1>6. CASE TooLarge(m)
    <2>1. m \in Faulty("ExtRangeMax") \/ \E o \in Written(m).within : o \in Faulty("ExtRangeMax")
      BY <1>1, <1>6, Outermost
    <2>. QED  BY <2>1 DEF NamedMessages
  <1>7. CASE job.messages[m].messageSet # "no" /\ Numbers!Fields(m) # <<>>
    <2>1. m \in Faulty("MessageSetFields")
      BY <1>1, <1>7 DEF Faulty
    <2>. QED  BY <2>1 DEF NamedMessages
  <1>8. CASE Numbers!Range(Numbers!NamesOf(Numbers!Fields(m)))
               \cap Numbers!Range(job.messages[m].reservedNames) # {}
    <2>1. m \in Faulty("ReservedNameConflicts")
      BY <1>1, <1>8 DEF Faulty
    <2>. QED  BY <2>1 DEF NamedMessages
  <1>9. CASE Numbers!Repeated(job.messages[m].reservedNames)
    <2>1. m \in Faulty("DuplicateReservedNames")
      BY <1>1, <1>9 DEF Faulty
    <2>. QED  BY <2>1 DEF NamedMessages
  <1>10. CASE \E o \in 1 .. job.messages[m].oneofs :
                 \A f \in Numbers!Range(Numbers!Fields(m)) : f.oneof # o
    <2>1. m \in Faulty("EmptyOneofs")
      BY <1>1, <1>10 DEF Faulty
    <2>. QED  BY <2>1 DEF NamedMessages
  <1>. QED  BY <1>1, <1>2, <1>3, <1>4, <1>5, <1>6, <1>7, <1>8, <1>9, <1>10 DEF MessageWrong

\* Enums are named exactly if they offend.
NamedEnums ==
    {e \in Numbers!Enums : Numbers!Repeated(job.enums[e].reservedNames)}
        \cup Faulty("EmptyEnums") \cup Faulty("DuplicateEnumValues")
        \cup Faulty("EnumReservedRangeOverlaps") \cup Faulty("EnumReservedValueConflicts")
        \cup Faulty("EnumReservedNameConflicts")

LEMMA EnumsAreNamed ==
    ASSUME Numbers!IsJob(job), NEW e \in Numbers!Enums
    PROVE  Numbers!OffendingEnum(e) <=> e \in NamedEnums
  <1>. DEFINE E == job.enums[e]
              reserved == [i \in DOMAIN E.reserved |-> E.reserved[i].first .. E.reserved[i].last]
  <1>1. Numbers!IsEnum(E)
    BY DEF Numbers!IsJob, Numbers!Enums
  <1>2. /\ Numbers!IsSequence(E.values) /\ Numbers!IsSequence(E.reserved)
        /\ Numbers!IsSequence(E.reservedNames)
        /\ \A v \in Numbers!Range(E.values) : v.number \in Int
        /\ \A r \in Numbers!Range(E.reserved) : r.first \in Int /\ r.last \in Int /\ r.first <= r.last
    BY <1>1 DEF Numbers!IsEnum
  <1>3. (\E i, j \in DOMAIN E.values : i # j /\ E.values[i].number = E.values[j].number)
          <=> Numbers!Repeated(Numbers!NumbersOf(E.values))
    <2>. DEFINE s == Numbers!NumbersOf(E.values)
    <2>1. /\ Len(E.values) \in Nat /\ DOMAIN E.values = 1 .. Len(E.values)
          /\ \A i \in DOMAIN E.values : E.values[i].number \in Int
      BY <1>2, SequenceFacts
    <2>2. /\ s \in Seq(Int) /\ DOMAIN s = DOMAIN E.values
          /\ \A i \in DOMAIN s : s[i] = E.values[i].number
      <3>1. s = [i \in 1 .. Len(E.values) |-> E.values[i].number]
        BY <2>1 DEF Numbers!NumbersOf
      <3>. HIDE DEF s
      <3>. QED  BY <2>1, <3>1
    <2>. HIDE DEF s
    <2>3. Numbers!Repeated(s) <=> \E i, j \in DOMAIN s : i # j /\ s[i] = s[j]
      BY <2>2, RepeatedMeans
    <2>. HIDE DEF E
    <2>4. Numbers!Repeated(s) <=> \E i, j \in DOMAIN E.values : i # j /\ E.values[i].number = E.values[j].number
      BY <2>2, <2>3
    <2>. QED  BY <2>4 DEF s
  <1>4. (\E v \in Numbers!Range(E.values) : v.number \in UNION Numbers!Range(reserved))
          <=> \E v \in Numbers!Range(E.values), r \in Numbers!Range(E.reserved) :
                 Numbers!InEnumRange(v.number, r)
    <2>1. ASSUME NEW v \in Numbers!Range(E.values), NEW r \in Numbers!Range(E.reserved)
          PROVE  Numbers!InEnumRange(v.number, r) <=> v.number \in r.first .. r.last
      BY <1>2 DEF Numbers!InEnumRange
    <2>2. UNION Numbers!Range(reserved) = UNION {r.first .. r.last : r \in Numbers!Range(E.reserved)}
      BY ZenonT(60) DEF Numbers!Range
    <2>. HIDE DEF E, reserved
    <2>. QED  BY <2>1, <2>2
  <1>5. (\E v \in Numbers!Range(E.values) : v.name \in Numbers!Range(E.reservedNames))
          <=> Numbers!Range(Numbers!NamesOf(E.values)) \cap Numbers!Range(E.reservedNames) # {}
    <2>1. Numbers!Range(Numbers!NamesOf(E.values)) = {v.name : v \in Numbers!Range(E.values)}
      BY DEF Numbers!Range, Numbers!NamesOf
    <2>. HIDE DEF E
    <2>. QED  BY <2>1
  <1>6. (\E i, j \in DOMAIN reserved : i # j /\ reserved[i] \cap reserved[j] # {})
          <=> \E i, j \in DOMAIN E.reserved :
                 /\ i < j
                 /\ E.reserved[i].first <= E.reserved[j].last
                 /\ E.reserved[j].first <= E.reserved[i].last
    <2>1. /\ Len(E.reserved) \in Nat /\ DOMAIN E.reserved = 1 .. Len(E.reserved)
          /\ \A i \in DOMAIN E.reserved :
                /\ E.reserved[i].first \in Int /\ E.reserved[i].last \in Int
                /\ E.reserved[i].first <= E.reserved[i].last
      BY <1>2, SequenceFacts
    <2>2. DOMAIN reserved = DOMAIN E.reserved
      OBVIOUS
    <2>3. ASSUME NEW i \in DOMAIN E.reserved, NEW j \in DOMAIN E.reserved
          PROVE  reserved[i] \cap reserved[j] # {}
                   <=> /\ E.reserved[i].first <= E.reserved[j].last
                       /\ E.reserved[j].first <= E.reserved[i].last
      <3>. DEFINE a == E.reserved[i].first
                  b == E.reserved[i].last
                  c == E.reserved[j].first
                  d == E.reserved[j].last
                  low == IF a <= c THEN c ELSE a
      <3>1. a \in Int /\ b \in Int /\ c \in Int /\ d \in Int /\ a <= b /\ c <= d
        BY <2>1
      <3>2. reserved[i] = a .. b /\ reserved[j] = c .. d
        OBVIOUS
      <3>. HIDE DEF a, b, c, d, reserved
      <3>3. ASSUME a <= d, c <= b PROVE (a .. b) \cap (c .. d) # {}
        <4>1. low \in a .. b /\ low \in c .. d
          BY <3>1, <3>3
        <4>. QED  BY <4>1
      <3>4. ASSUME NEW k \in (a .. b) \cap (c .. d) PROVE a <= d /\ c <= b
        BY <3>1, <3>4
      <3>5. reserved[i] \cap reserved[j] # {} <=> a <= d /\ c <= b
        BY <3>2, <3>3, <3>4
      <3>. QED  BY <3>5 DEF a, b, c, d
    <2>4. ASSUME NEW i \in DOMAIN E.reserved, NEW j \in DOMAIN E.reserved
          PROVE  i # j <=> i < j \/ j < i
      BY <2>1
    <2>. HIDE DEF reserved, E
    <2>. QED  BY <2>2, <2>3, <2>4
  <1>7. (\E i, j \in DOMAIN E.reservedNames : i # j /\ E.reservedNames[i] = E.reservedNames[j])
          <=> Numbers!Repeated(E.reservedNames)
    BY <1>2, RepeatedMeans DEF Numbers!IsSequence
  <1>8. Numbers!OffendingEnum(e)
          <=> \/ E.values = <<>>
              \/ ~E.allowAlias
                 /\ \E i, j \in DOMAIN E.values : i # j /\ E.values[i].number = E.values[j].number
              \/ \E v \in Numbers!Range(E.values) : v.number \in UNION Numbers!Range(reserved)
              \/ \E v \in Numbers!Range(E.values) : v.name \in Numbers!Range(E.reservedNames)
              \/ \E i, j \in DOMAIN reserved : i # j /\ reserved[i] \cap reserved[j] # {}
              \/ \E i, j \in DOMAIN E.reservedNames :
                    i # j /\ E.reservedNames[i] = E.reservedNames[j]
    BY DEF Numbers!OffendingEnum
  <1>9. e \in NamedEnums
          <=> \/ E.values = <<>>
              \/ ~E.allowAlias /\ Numbers!Repeated(Numbers!NumbersOf(E.values))
              \/ \E v \in Numbers!Range(E.values), r \in Numbers!Range(E.reserved) :
                    Numbers!InEnumRange(v.number, r)
              \/ Numbers!Range(Numbers!NamesOf(E.values)) \cap Numbers!Range(E.reservedNames) # {}
              \/ \E i, j \in DOMAIN E.reserved :
                    /\ i < j
                    /\ E.reserved[i].first <= E.reserved[j].last
                    /\ E.reserved[j].first <= E.reserved[i].last
              \/ Numbers!Repeated(E.reservedNames)
    BY DEF NamedEnums, Faulty
  <1>. HIDE DEF E, reserved
  <1>. QED  BY <1>3, <1>4, <1>5, <1>6, <1>7, <1>8, <1>9

\* The extensions before one with its number, as numbers.
LEMMA FirstUse ==
    ASSUME Numbers!IsJob(job), NEW x \in Numbers!Exts, Numbers!Earlier(x) # {}
    PROVE  /\ Numbers!Min(Numbers!Earlier(x)) \in Numbers!Earlier(x)
           /\ \A y \in Numbers!Earlier(x) : Numbers!Min(Numbers!Earlier(x)) <= y
  <1>1. x \in Nat
    BY SequenceFacts DEF Numbers!IsJob, Numbers!Exts, Numbers!Ext
  <1>2. Numbers!Earlier(x) \in SUBSET Nat
    BY <1>1 DEF Numbers!Earlier
  <1>3. \E y \in Numbers!Earlier(x) : \A z \in Numbers!Earlier(x) : y <= z
    BY <1>2, LeastNat
  <1>. QED  BY <1>3 DEF Numbers!Min

LEMMA SameFileMeans ==
    ASSUME Numbers!IsJob(job), NEW x \in Numbers!Exts, Numbers!Earlier(x) # {}
    PROVE  Numbers!SameFile(x)
             <=> \A y \in Numbers!Earlier(x) : Numbers!Ext[y].file = Numbers!Ext[x].file
  <1>1. /\ Len(Numbers!Ext) \in Nat /\ Numbers!Exts = 1 .. Len(Numbers!Ext)
    BY SequenceFacts DEF Numbers!IsJob, Numbers!Exts, Numbers!Ext
  <1>2. PICK first \in Numbers!Earlier(x) :
          first = Numbers!Min(Numbers!Earlier(x)) /\ \A y \in Numbers!Earlier(x) : first <= y
    BY FirstUse
  <1>3. Numbers!SameFile(x) <=> Numbers!Ext[first].file = Numbers!Ext[x].file
    BY <1>2 DEF Numbers!SameFile
  <1>4. ASSUME Numbers!SameFile(x), NEW y \in Numbers!Earlier(x)
        PROVE  Numbers!Ext[y].file = Numbers!Ext[x].file
    <2>1. /\ first \in Numbers!Exts /\ y \in Numbers!Exts /\ y < x
          /\ first < y \/ first = y
      BY <1>1, <1>2 DEF Numbers!Earlier
    <2>2. \A a, b, c \in Numbers!Exts :
             a < b /\ b < c /\ Numbers!Ext[a].file = Numbers!Ext[c].file
               => Numbers!Ext[b].file = Numbers!Ext[c].file
      BY DEF Numbers!IsJob, Numbers!Exts, Numbers!Ext
    <2>. QED  BY <1>3, <1>4, <2>1, <2>2
  <1>. QED  BY <1>2, <1>3, <1>4

\* Extensions are named exactly if they offend, but for numbers that are not positive.
NamedExtensions ==
    {x \in Numbers!Exts : Numbers!Ext[x].number > MaxFieldNumber}
        \cup {x \in Numbers!Exts : Numbers!KeptByProtobuf(Numbers!Ext[x].number)}
        \cup Faulty("ExtensionRanges") \cup Faulty("DuplicateExtensionNumbers")

LEMMA ExtensionsAreNamed ==
    ASSUME Numbers!IsJob(job), ParsedInv, NEW x \in Numbers!Exts
    PROVE  /\ x \in NamedExtensions => Numbers!OffendingExtension(x)
           /\ Numbers!OffendingExtension(x)
                => \/ x \in NamedExtensions
                   \/ /\ Numbers!Ext[x].number < 1
                      /\ Numbers!Ext[x].extendee \in Faulty("ExtRangePositive")
  <1>. DEFINE m == Numbers!Ext[x].extendee
              n == Numbers!Ext[x].number
  <1>1. n \in Int /\ m \in Msgs
    <2>1. Numbers!Ext[x] \in Numbers!Range(Numbers!Ext)
      BY SequenceFacts DEF Numbers!IsJob, Numbers!Exts, Numbers!Ext
    <2>. QED  BY <2>1 DEF Numbers!IsJob, Numbers!Ext, Msgs, Numbers!Messages
  <1>2. Extensions(m) \in Seq(Half) /\ (Written(m).mapEntry => Extensions(m) = <<>>)
    BY <1>1 DEF ParsedInv
  <1>3. n \in UNION {Numbers!Numbers(r) : r \in Numbers!Range(Extensions(m))}
          <=> \E r \in Numbers!Range(Extensions(m)) : Numbers!In(n, r)
    <2>1. \A r \in Numbers!Range(Extensions(m)) : Numbers!In(n, r) <=> n \in Numbers!Numbers(r)
      BY <1>1, <1>2, RangeFacts, InNumbers
    <2>. HIDE DEF n, m
    <2>. QED  BY <2>1
  <1>4. FirstReserved \in Int /\ LastReserved \in Int /\ MaxFieldNumber \in Int
    BY BoundsAssumption
  <1>5. n \notin Numbers!Legal <=> n < 1 \/ n > MaxFieldNumber \/ Numbers!KeptByProtobuf(n)
    BY <1>1, <1>4 DEF Numbers!Legal, Numbers!KeptByProtobuf
  <1>6. x \in Faulty("ExtensionRanges") <=> ~ \E r \in Numbers!Range(Extensions(m)) : Numbers!In(n, r)
    BY DEF Faulty
  <1>7. x \in Faulty("DuplicateExtensionNumbers")
          <=> /\ Numbers!Earlier(x) # {}
              /\ \A y \in Numbers!Earlier(x) : Numbers!Ext[y].file = Numbers!Ext[x].file
    BY SameFileMeans DEF Faulty, Numbers!Reused
  <1>8. Numbers!OffendingExtension(x)
          <=> \/ n < 1 \/ n > MaxFieldNumber \/ Numbers!KeptByProtobuf(n)
              \/ x \in Faulty("ExtensionRanges") \/ x \in Faulty("DuplicateExtensionNumbers")
    BY <1>3, <1>5, <1>6, <1>7 DEF Numbers!OffendingExtension, Extensions
  <1>9. ASSUME n < 1, NEW r \in Numbers!Range(Extensions(m)), Numbers!In(n, r)
        PROVE  m \in Faulty("ExtRangePositive")
    <2>1. PICK i \in DOMAIN Extensions(m) : Extensions(m)[i] = r
      BY <1>2, RangeFacts
    <2>2. r \in Half
      BY <1>2, RangeFacts
    <2>3. r.from <= 0
      BY <1>1, <1>9, <2>2 DEF Numbers!In, Half
    <2>4. m \in Numbers!Checked
      <3>1. Len(Extensions(m)) \in Nat /\ DOMAIN Extensions(m) = 1 .. Len(Extensions(m))
        BY <1>2, RangeFacts
      <3>2. Extensions(m) # <<>>
        BY <2>1, <3>1, EmptySeq
      <3>. QED  BY <1>1, <1>2, <3>2 DEF Numbers!Checked, Msgs, Written
    <2>. QED  BY <2>1, <2>3, <2>4 DEF Faulty
  <1>10. x \in NamedExtensions
          <=> \/ n > MaxFieldNumber \/ Numbers!KeptByProtobuf(n)
              \/ x \in Faulty("ExtensionRanges") \/ x \in Faulty("DuplicateExtensionNumbers")
    BY DEF NamedExtensions
  <1>11. ~ x \in Faulty("ExtensionRanges") /\ n < 1 => m \in Faulty("ExtRangePositive")
    BY <1>6, <1>9
  <1>. QED  BY <1>8, <1>10, <1>11

-------------------------------------------------------------------------------
(* The invariant. *)

LEMMA FaultyOffends ==
    ASSUME Numbers!IsJob(job), ParsedInv, NEW v
    PROVE  Faulty(v) \subseteq Offenders
  <1>1. \A m \in Msgs : Numbers!OffendingMessage(m) => m \in Offenders
    BY DEF Offenders, OffendingMessages
  <1>2. \A e \in NamedEnums : e \in Offenders
    <2>1. \A e \in NamedEnums : e \in Numbers!Enums
      BY DEF NamedEnums, Faulty
    <2>. QED  BY <2>1, EnumsAreNamed DEF Offenders, OffendingEnums
  <1>3. \A x \in NamedExtensions : x \in Offenders
    <2>1. \A x \in NamedExtensions : x \in Numbers!Exts
      BY DEF NamedExtensions, Faulty, Numbers!Reused
    <2>. QED  BY <2>1, ExtensionsAreNamed DEF Offenders, OffendingExtensions
  <1>4. Numbers!Checked \subseteq Msgs
    BY DEF Numbers!Checked, Msgs
  <1>5. ASSUME v \in {"ExtRangePositive", "PositiveFieldNumbers", "ExtRangeMax", "ReservedNumberConflicts"}
        PROVE  Faulty(v) \subseteq Offenders
    <2>1. Faulty(v) \subseteq Msgs
      BY <1>4, <1>5 DEF Faulty
    <2>. QED  BY <1>1, <1>5, <2>1, FaultyMessages
  <1>6. ASSUME v \in {"ReservedNameConflicts", "DuplicateFieldNumbers", "EmptyOneofs",
                      "ExtensionFieldConflicts"}
        PROVE  Faulty(v) \subseteq Offenders
    <2>1. Faulty(v) \subseteq Msgs
      BY <1>4, <1>6 DEF Faulty
    <2>. QED  BY <1>1, <1>6, <2>1, FaultyMessages
  <1>7. ASSUME v \in {"ReservedRangeOverlaps", "ExtensionRangeOverlaps", "ExtensionReservedOverlaps",
                      "MessageSetFields"}
        PROVE  Faulty(v) \subseteq Offenders
    <2>1. Faulty(v) \subseteq Msgs
      BY <1>4, <1>7 DEF Faulty
    <2>. QED  BY <1>1, <1>7, <2>1, FaultyMessages
  <1>8. CASE v = "MaxFieldNumbers"
    <2>1. Faulty(v) = {m \in Numbers!Checked :
                        \E i \in DOMAIN Numbers!Fields(m) : NumberAt(m, i) > MaxFieldNumber}
                       \cup {x \in Numbers!Exts : Numbers!Ext[x].number > MaxFieldNumber}
      BY <1>8 DEF Faulty
    <2>2. \A m \in Numbers!Checked :
             (\E i \in DOMAIN Numbers!Fields(m) : NumberAt(m, i) > MaxFieldNumber) => m \in Offenders
      BY <1>1, <1>4, FaultyMessages
    <2>. QED  BY <1>3, <2>1, <2>2 DEF NamedExtensions
  <1>9. CASE v = "ReservedFieldNumbers"
    <2>1. Faulty(v) = {m \in Msgs : \E f \in Numbers!Range(Numbers!Fields(m)) :
                                      Numbers!KeptByProtobuf(f.number)}
                       \cup {x \in Numbers!Exts : Numbers!KeptByProtobuf(Numbers!Ext[x].number)}
      BY <1>9 DEF Faulty
    <2>2. \A m \in Msgs :
             (\E f \in Numbers!Range(Numbers!Fields(m)) : Numbers!KeptByProtobuf(f.number))
               => m \in Offenders
      BY <1>1, FaultyMessages
    <2>. QED  BY <1>3, <2>1, <2>2 DEF NamedExtensions
  <1>10. CASE v = "DuplicateReservedNames"
    <2>1. Faulty(v) = {m \in Numbers!Checked : Numbers!Repeated(job.messages[m].reservedNames)}
                       \cup {e \in Numbers!Enums : Numbers!Repeated(job.enums[e].reservedNames)}
      BY <1>10 DEF Faulty
    <2>2. \A m \in Numbers!Checked : Numbers!Repeated(job.messages[m].reservedNames) => m \in Offenders
      BY <1>1, <1>4, FaultyMessages
    <2>. QED  BY <1>2, <2>1, <2>2 DEF NamedEnums
  <1>11. CASE v \in {"EmptyEnums", "DuplicateEnumValues", "EnumReservedRangeOverlaps",
                     "EnumReservedValueConflicts", "EnumReservedNameConflicts"}
    BY <1>2, <1>11 DEF NamedEnums
  <1>12. CASE v \in {"ExtensionRanges", "DuplicateExtensionNumbers"}
    BY <1>3, <1>12 DEF NamedExtensions
  <1>13. \/ v \in {"ExtRangePositive", "PositiveFieldNumbers", "ExtRangeMax", "ReservedNumberConflicts"}
         \/ v \in {"ReservedNameConflicts", "DuplicateFieldNumbers", "EmptyOneofs",
                   "ExtensionFieldConflicts"}
         \/ v \in {"ReservedRangeOverlaps", "ExtensionRangeOverlaps", "ExtensionReservedOverlaps",
                   "MessageSetFields"}
         \/ v = "MaxFieldNumbers" \/ v = "ReservedFieldNumbers" \/ v = "DuplicateReservedNames"
         \/ v \in {"EmptyEnums", "DuplicateEnumValues", "EnumReservedRangeOverlaps",
                   "EnumReservedValueConflicts", "EnumReservedNameConflicts"}
         \/ v \in {"ExtensionRanges", "DuplicateExtensionNumbers"}
         \/ Faulty(v) = {}
    BY DEF Faulty
  <1>14. CASE Faulty(v) = {}
    BY <1>14
  <1>. QED  BY <1>5, <1>6, <1>7, <1>8, <1>9, <1>10, <1>11, <1>12, <1>13, <1>14

\* What all the validators name together.
AllNamed == UNION {Faulty(Numbers!Validators[i]) : i \in DOMAIN Numbers!Validators}

LEMMA NamedByAll ==
    NamedMessages \cup NamedEnums \cup NamedExtensions \subseteq AllNamed
  <1>. DEFINE V == {"ExtRangePositive", "PositiveFieldNumbers", "MaxFieldNumbers", "ExtRangeMax",
                    "ReservedFieldNumbers", "ReservedNumberConflicts", "DuplicateReservedNames",
                    "ReservedNameConflicts", "DuplicateFieldNumbers", "EmptyOneofs", "EmptyEnums",
                    "DuplicateEnumValues", "ExtensionFieldConflicts", "ReservedRangeOverlaps",
                    "EnumReservedRangeOverlaps", "EnumReservedValueConflicts",
                    "EnumReservedNameConflicts", "ExtensionRangeOverlaps",
                    "ExtensionReservedOverlaps", "ExtensionRanges", "DuplicateExtensionNumbers",
                    "MessageSetFields"}
  <1>1. ASSUME NEW v \in V
        PROVE  \E i \in DOMAIN Numbers!Validators : Numbers!Validators[i] = v
    <2>1. DOMAIN Numbers!Validators = 1 .. 23
      BY DEF Numbers!Validators
    <2>. QED  BY <1>1, <2>1 DEF Numbers!Validators
  <1>2. \A v \in V : Faulty(v) \subseteq AllNamed
    <2>. HIDE DEF V
    <2>. QED  BY <1>1 DEF AllNamed
  <1>3. NamedMessages \subseteq AllNamed
    BY <1>2 DEF NamedMessages
  <1>4. {e \in Numbers!Enums : Numbers!Repeated(job.enums[e].reservedNames)} \subseteq Faulty("DuplicateReservedNames")
    BY DEF Faulty
  <1>5. NamedEnums \subseteq AllNamed
    BY <1>2, <1>4 DEF NamedEnums
  <1>6. /\ {x \in Numbers!Exts : Numbers!Ext[x].number > MaxFieldNumber} \subseteq Faulty("MaxFieldNumbers")
        /\ {x \in Numbers!Exts : Numbers!KeptByProtobuf(Numbers!Ext[x].number)}
              \subseteq Faulty("ReservedFieldNumbers")
    BY DEF Faulty
  <1>7. NamedExtensions \subseteq AllNamed
    BY <1>2, <1>6 DEF NamedExtensions
  <1>. QED  BY <1>3, <1>5, <1>7

Warned == {x \in Numbers!Reused : ~Numbers!SameFile(x)}

\* The errors so far are offenders, and all that the validators before at name; extensions
\* that reuse the number of another file's are warned of once the 22nd has looked.
NumInv ==
    /\ Numbers!IsJob(job)
    /\ at \in 0 .. 24
    /\ at = 0 => errors = {} /\ outcome \in {"running", "unparsed"}
    /\ at > 0 => ParsedInv
    /\ Numbers!Named \subseteq Offenders
    /\ \A i \in DOMAIN Numbers!Validators : i < at => Faulty(Numbers!Validators[i]) \subseteq Numbers!Named
    /\ at > 22 => warnings = Warned
    /\ Numbers!Decided => at = 24
    /\ outcome \in {"accepted", "printed"} => errors = {}
    /\ errors # {} => outcome \in {"running", "refused"}

LEMMA ValidatorsAre ==
    /\ DOMAIN Numbers!Validators = 1 .. 23 /\ Len(Numbers!Validators) = 23
    /\ \A i \in 1 .. 23 : Numbers!Validators[i] = "DuplicateExtensionNumbers" => i = 22
    /\ Numbers!Validators[22] = "DuplicateExtensionNumbers"
  BY DEF Numbers!Validators

\* Whom the validators name depends on the files and their descriptors alone.
LEMMA FaultyStays ==
    ASSUME job' = job, parsed' = parsed
    PROVE  /\ \A i \in DOMAIN Numbers!Validators :
                 Faulty(Numbers!Validators[i])' = Faulty(Numbers!Validators[i])
           /\ Warned' = Warned
           /\ Offenders' = Offenders
           /\ Numbers!IsJob(job)' = Numbers!IsJob(job)
           /\ ParsedInv' = ParsedInv
  <1>1. ParsedInv' = ParsedInv
    BY DEF ParsedInv, Msgs, Numbers!Messages, Reserved, Extensions, Written
  <1>2. Numbers!IsJob(job)' = Numbers!IsJob(job)
    BY DEF Numbers!IsJob, Numbers!IsMessage, Numbers!IsEnum
  <1>3. Warned' = Warned
    BY DEF Warned, Numbers!Reused, Numbers!SameFile, Numbers!Earlier, Numbers!Exts, Numbers!Ext
  <1>4. ASSUME NEW m PROVE Numbers!OffendingMessage(m)' = Numbers!OffendingMessage(m)
    BY DEF Numbers!OffendingMessage, Numbers!Spent, Numbers!Fields, Numbers!Checked, Numbers!Messages
  <1>5. ASSUME NEW e PROVE Numbers!OffendingEnum(e)' = Numbers!OffendingEnum(e)
    BY DEF Numbers!OffendingEnum
  <1>6. ASSUME NEW x PROVE Numbers!OffendingExtension(x)' = Numbers!OffendingExtension(x)
    BY DEF Numbers!OffendingExtension, Numbers!Earlier, Numbers!Ext
  <1>7. Offenders' = Offenders
    BY <1>4, <1>5, <1>6 DEF Offenders, OffendingMessages, OffendingEnums, OffendingExtensions,
         Msgs, Numbers!Messages, Numbers!Enums, Numbers!Exts, Numbers!Ext
  <1>8. ASSUME NEW v PROVE Faulty(v)' = Faulty(v)
    BY DEF Faulty, Msgs, NumberAt, TooLarge, Written, Reserved, Extensions, FieldIn, Numbers!Messages,
         Numbers!Enums, Numbers!Exts, Numbers!Ext, Numbers!Checked, Numbers!Fields,
         Numbers!Reused, Numbers!SameFile, Numbers!Earlier
  <1>. QED  BY <1>1, <1>2, <1>3, <1>7, <1>8

LEMMA NumInit == Init => NumInv
  <1>. SUFFICES ASSUME Init PROVE NumInv
    OBVIOUS
  <1>1. /\ \E family \in Jobs : job \in family
        /\ at = 0 /\ errors = {} /\ outcome = "running"
    BY DEF Init, Numbers!Init
  <1>2. Numbers!IsJob(job)
    BY <1>1, JobsAssumption
  <1>3. Numbers!Named = {}
    BY <1>1 DEF Numbers!Named
  <1>4. \A i \in DOMAIN Numbers!Validators : ~ (i < 0)
    BY ValidatorsAre
  <1>. QED  BY <1>1, <1>2, <1>3, <1>4 DEF NumInv, Numbers!Decided

LEMMA ParseStep == NumInv /\ Numbers!Parse => NumInv'
  <1>. SUFFICES ASSUME NumInv, Numbers!Parse PROVE NumInv'
    OBVIOUS
  <1>1. /\ at = 0 /\ outcome = "running" /\ job' = job
        /\ errors' = errors /\ errors = {} /\ warnings' = warnings
        /\ Numbers!IsJob(job)
    BY DEF NumInv, Numbers!Parse
  <1>2. Numbers!IsJob(job)'
    BY <1>1 DEF Numbers!IsJob, Numbers!IsMessage, Numbers!IsEnum
  <1>3. Numbers!Named' = {}
    BY <1>1 DEF Numbers!Named
  <1>4. CASE outcome' = "unparsed" /\ at' = at
    <2>1. \A i \in DOMAIN Numbers!Validators : ~ (i < 0)
      BY ValidatorsAre
    <2>. QED  BY <1>1, <1>2, <1>3, <1>4, <2>1 DEF NumInv, Numbers!Decided
  <1>5. CASE /\ \A m \in Msgs : ~Numbers!Disordered(m)
             /\ parsed' = [m \in Msgs |-> Numbers!ParsedMessage(m)]
             /\ at' = 1 /\ outcome' = outcome
    <2>1. ASSUME NEW m \in Msgs
          PROVE  /\ Reserved(m)' \in Seq(Half) /\ Extensions(m)' \in Seq(Half)
                 /\ Written(m).mapEntry => Extensions(m)' = <<>>
      <3>1. parsed'[m] = Numbers!ParsedMessage(m)
        BY <1>5
      <3>2. Reserved(m)' = Numbers!ParsedMessage(m).reserved
        BY <3>1 DEF Reserved
      <3>3. Extensions(m)' = Numbers!ParsedMessage(m).extensions
        BY <3>1 DEF Extensions
      <3>. QED  BY <1>1, <1>5, <3>2, <3>3, ParsedMessageSound
    <2>2. Msgs' = Msgs /\ \A m : Written(m)' = Written(m)
      BY <1>1 DEF Msgs, Numbers!Messages, Written
    <2>3. ParsedInv'
      BY <2>1, <2>2 DEF ParsedInv
    <2>4. \A i \in DOMAIN Numbers!Validators : ~ (i < 1)
      BY ValidatorsAre
    <2>. QED  BY <1>1, <1>2, <1>3, <1>5, <2>3, <2>4 DEF NumInv, Numbers!Decided
  <1>. QED  BY <1>4, <1>5 DEF Numbers!Parse, Msgs

LEMMA ValidateStep == NumInv /\ Numbers!Validate => NumInv'
  <1>. SUFFICES ASSUME NumInv, Numbers!Validate PROVE NumInv'
    OBVIOUS
  <1>1. PICK v : ReportsWrong(v)
    BY ValidateReports
  <1>2. /\ outcome = "running" /\ at \in DOMAIN Numbers!Validators /\ Numbers!Validators[at] = v
        /\ errors' = errors \cup {[what |-> v, of |-> x] : x \in Faulty(v)}
        /\ warnings' = IF v = "DuplicateExtensionNumbers" THEN Warned ELSE warnings
        /\ at' = at + 1 /\ job' = job /\ parsed' = parsed /\ outcome' = outcome
    BY <1>1 DEF ReportsWrong, Warned
  <1>3. at \in 1 .. 23 /\ at' \in 0 .. 24 /\ at' > 0
    BY <1>2, ValidatorsAre
  <1>4. Numbers!IsJob(job) /\ ParsedInv
    BY <1>3 DEF NumInv
  <1>5. Numbers!Named' = Numbers!Named \cup Faulty(v)
    <2>1. {e.of : e \in {[what |-> v, of |-> x] : x \in Faulty(v)}} = Faulty(v)
      <3>1. \A x : [what |-> v, of |-> x].of = x
        OBVIOUS
      <3>. QED  BY <3>1
    <2>2. Numbers!Named' = {e.of : e \in errors'}
      BY DEF Numbers!Named
    <2>. QED  BY <1>2, <2>1, <2>2 DEF Numbers!Named
  <1>6. Numbers!Named' \subseteq Offenders'
    BY <1>2, <1>4, <1>5, FaultyOffends, FaultyStays DEF NumInv
  <1>7. ASSUME NEW i \in DOMAIN Numbers!Validators, i < at'
        PROVE  Faulty(Numbers!Validators[i])' \subseteq Numbers!Named'
    <2>1. i < at \/ i = at
      BY <1>2, <1>3, <1>7, ValidatorsAre
    <2>2. Faulty(Numbers!Validators[i]) \subseteq Numbers!Named \cup Faulty(v)
      BY <1>2, <2>1 DEF NumInv
    <2>. QED  BY <1>2, <1>5, <2>2, FaultyStays
  <1>8. at' > 22 => warnings' = Warned'
    <2>1. ASSUME at' > 22 PROVE at = 22 \/ at > 22
      BY <1>2, <1>3, <2>1
    <2>2. CASE at = 22
      BY <1>2, <2>2, ValidatorsAre, FaultyStays
    <2>3. CASE at > 22
      <3>1. v # "DuplicateExtensionNumbers"
        BY <1>2, <1>3, <2>3, ValidatorsAre
      <3>. QED  BY <1>2, <2>3, <3>1, FaultyStays DEF NumInv
    <2>. QED  BY <2>1, <2>2, <2>3
  <1>9. Numbers!IsJob(job)' /\ ParsedInv'
    BY <1>2, <1>4, FaultyStays
  <1>10. ~Numbers!Decided' /\ outcome' = "running"
    BY <1>2 DEF Numbers!Decided
  <1>11. ~ (at' = 0)
    BY <1>3
  <1>. QED  BY <1>3, <1>6, <1>7, <1>8, <1>9, <1>10, <1>11 DEF NumInv

LEMMA NumbersStay ==
    ASSUME NumInv, UNCHANGED <<job, at, parsed, errors, warnings>>,
           Numbers!Decided' => at = 24,
           at = 0 => outcome' \in {"running", "unparsed"},
           outcome' \in {"accepted", "printed"} => errors = {},
           errors # {} => outcome' \in {"running", "refused"}
    PROVE  NumInv'
  <1>1. Numbers!Named' = Numbers!Named
    BY DEF Numbers!Named
  <1>2. ParsedInv' = ParsedInv /\ Offenders' = Offenders /\ Warned' = Warned
        /\ Numbers!IsJob(job)' = Numbers!IsJob(job)
    BY FaultyStays
  <1>3. \A i \in DOMAIN Numbers!Validators : i < at' => Faulty(Numbers!Validators[i])' \subseteq Numbers!Named'
    BY <1>1, FaultyStays DEF NumInv
  <1>. QED  BY <1>1, <1>2, <1>3 DEF NumInv

LEMMA NumStep == NumInv /\ [Next]_vars => NumInv'
  <1>. SUFFICES ASSUME NumInv, [Next]_vars PROVE NumInv'
    OBVIOUS
  <1>1. ASSUME UNCHANGED <<job, numbers>> PROVE NumInv'
    <2>1. UNCHANGED <<job, at, parsed, errors, warnings, outcome>>
      BY <1>1 DEF numbers
    <2>2. Numbers!Decided' = Numbers!Decided
      BY <2>1 DEF Numbers!Decided
    <2>3. /\ Numbers!Decided => at = 24
          /\ at = 0 => outcome \in {"running", "unparsed"}
          /\ outcome \in {"accepted", "printed"} => errors = {}
          /\ errors # {} => outcome \in {"running", "refused"}
      BY DEF NumInv
    <2>. QED  BY <2>1, <2>2, <2>3, NumbersStay
  <1>2. CASE Parse
    BY <1>2, ParseStep DEF Parse
  <1>3. CASE Validate
    BY <1>3, ValidateStep DEF Validate
  <1>4. ASSUME NEW others, Numbers!Decide(others) PROVE NumInv'
    <2>1. /\ at > 23 /\ at = 24
          /\ UNCHANGED <<job, at, parsed, errors, warnings>>
          /\ outcome' = IF errors = {} /\ others = {} THEN "accepted" ELSE "refused"
      BY <1>4, ValidatorsAre DEF NumInv, Numbers!Decide
    <2>. QED  BY <2>1, NumbersStay
  <1>5. CASE Decide
    BY <1>4, <1>5 DEF Decide
  <1>6. CASE PrintFree
    <2>1. /\ outcome = "accepted" /\ outcome' = "printed"
          /\ UNCHANGED <<job, at, parsed, errors, warnings>>
      BY <1>6 DEF PrintFree, Numbers!PrintFree
    <2>2. at = 24 /\ errors = {}
      BY <2>1 DEF NumInv, Numbers!Decided
    <2>. QED  BY <2>1, <2>2, NumbersStay
  <1>7. CASE \/ ValidateRule \/ RegisterNext \/ validateMapEntryConflicts
             \/ ValidateDescriptors \/ DecideDescriptors
    BY <1>1, <1>7 DEF ValidateRule, RegisterNext, validateMapEntryConflicts, ValidateDescriptors,
         DecideDescriptors
  <1>8. CASE CannotDescribe \/ CannotEncode \/ AppendEntry \/ WriteDefaults
    BY <1>1, <1>8 DEF CannotDescribe, CannotEncode, AppendEntry, WriteDefaults, Fail
  <1>9. CASE Terminated \/ UNCHANGED vars
    BY <1>1, <1>9 DEF Terminated, vars
  <1>. QED  BY <1>2, <1>3, <1>5, <1>6, <1>7, <1>8, <1>9 DEF Next

\* Throughout a compilation: the errors so far name offenders, and all that the validators
\* up to now can name (the walks of cli.go that compileInternal calls one after the other).
THEOREM NumbersInvariance == Spec => []NumInv
  BY NumInit, NumStep, PTL DEF Spec

\* Accepted means that every number has one use, in bounds, and errors name offenders: all
\* of them but those in a message with too large a range and extensions with a number that
\* is not positive, whatever the files (the 23 validators of numbers of compileInternal).
THEOREM OffendersAreAlwaysNamed == Spec => []OffendersAreNamed
  <1>1. NumInv => OffendersAreNamed
    <2>. SUFFICES ASSUME NumInv, Numbers!Decided PROVE Numbers!OffendersAreNamed
      BY DEF OffendersAreNamed, Numbers!OffendersAreNamed
    <2>1. /\ at = 24 /\ Numbers!IsJob(job) /\ ParsedInv /\ Numbers!Named \subseteq Offenders
          /\ errors # {} => outcome = "refused"
      BY DEF NumInv, Numbers!Decided
    <2>2. AllNamed \subseteq Numbers!Named
      <3>1. \A i \in DOMAIN Numbers!Validators : i < 24
        BY ValidatorsAre
      <3>. QED  BY <2>1, <3>1 DEF AllNamed, NumInv
    <2>3. NamedMessages \cup NamedEnums \cup NamedExtensions \subseteq Numbers!Named
      BY <2>2, NamedByAll
    <2>4. ASSUME NEW o \in Offenders
          PROVE  \/ o \in Numbers!Named
                 \/ o \in Msgs /\ job.messages[o].within \cap Numbers!Named # {}
                 \/ /\ o \in Numbers!Exts /\ Numbers!Ext[o].number < 1
                    /\ Numbers!Ext[o].extendee \in Numbers!Named
      <3>1. CASE o \in OffendingMessages
        BY <2>1, <2>3, <3>1, MessagesAreCovered DEF OffendingMessages, Written
      <3>2. CASE o \in OffendingEnums
        BY <2>1, <2>3, <3>2, EnumsAreNamed DEF OffendingEnums
      <3>3. CASE o \in OffendingExtensions
        <4>1. Faulty("ExtRangePositive") \subseteq Numbers!Named
          BY <2>3 DEF NamedMessages
        <4>. QED  BY <2>1, <2>3, <3>3, <4>1, ExtensionsAreNamed DEF OffendingExtensions
      <3>. QED  BY <3>1, <3>2, <3>3 DEF Offenders
    <2>5. errors = {} <=> Numbers!Named = {}
      BY DEF Numbers!Named
    <2>6. errors = {} <=> Offenders = {}
      BY <2>1, <2>4, <2>5
    <2>7. Offenders = {m \in Numbers!Messages : Numbers!OffendingMessage(m)}
                        \cup {e \in Numbers!Enums : Numbers!OffendingEnum(e)}
                        \cup {x \in Numbers!Exts : Numbers!OffendingExtension(x)}
      BY DEF Offenders, OffendingMessages, OffendingEnums, OffendingExtensions, Msgs
    <2>. QED  BY <2>1, <2>4, <2>6, <2>7 DEF Numbers!OffendersAreNamed, Msgs
  <1>. QED  BY <1>1, NumbersInvariance, PTL

\* Whatever the files: the later of two extensions of a message with one number is an error
\* or a warning, and where nothing is wrong another file has the number first
\* (validateDuplicateExtensionNumbers).
THEOREM ReuseIsSaid == Spec => []ReuseIsNeverSilent
  <1>1. NumInv => ReuseIsNeverSilent
    <2>. SUFFICES ASSUME NumInv, Numbers!Decided, NEW x \in Numbers!Exts, NEW y \in Numbers!Exts,
                         x < y, Numbers!Ext[x].extendee = Numbers!Ext[y].extendee,
                         Numbers!Ext[x].number = Numbers!Ext[y].number
                  PROVE  /\ y \in Numbers!Named \cup warnings
                         /\ errors = {} => \E z \in Numbers!Earlier(y) :
                                              Numbers!Ext[z].file # Numbers!Ext[y].file
      BY DEF ReuseIsNeverSilent, Numbers!ReuseIsNeverSilent
    <2>1. at = 24 /\ Numbers!IsJob(job) /\ warnings = Warned
      BY DEF NumInv
    <2>2. /\ Len(Numbers!Ext) \in Nat /\ Numbers!Exts = 1 .. Len(Numbers!Ext)
      BY <2>1, SequenceFacts DEF Numbers!IsJob, Numbers!Exts, Numbers!Ext
    <2>3. x \in Numbers!Earlier(y) /\ y \in Numbers!Reused
      BY <2>2 DEF Numbers!Earlier, Numbers!Reused
    <2>4. Faulty("DuplicateExtensionNumbers") \subseteq Numbers!Named
      <3>1. 22 \in DOMAIN Numbers!Validators /\ 22 < 24
        BY ValidatorsAre
      <3>. QED  BY <2>1, <3>1, ValidatorsAre DEF NumInv
    <2>5. y \in Numbers!Named \/ y \in Warned
      BY <2>3, <2>4 DEF Warned, Faulty
    <2>6. ASSUME errors = {}
          PROVE  \E z \in Numbers!Earlier(y) : Numbers!Ext[z].file # Numbers!Ext[y].file
      <3>1. Numbers!Named = {}
        BY <2>6 DEF Numbers!Named
      <3>2. ~Numbers!SameFile(y)
        BY <2>5, <3>1 DEF Warned
      <3>3. Numbers!Earlier(y) # {}
        BY <2>3
      <3>. QED  BY <2>1, <3>2, <3>3, SameFileMeans
    <2>. QED  BY <2>1, <2>5, <2>6
  <1>. QED  BY <1>1, NumbersInvariance, PTL

-------------------------------------------------------------------------------
(* Ranges in their order. *)

AnyRange == [from : Int, to : Int]
Precedes(s, r) == s.from < r.from \/ (s.from = r.from /\ s.to < r.to)

LEMMA CardinalitySame == \A T : Numbers!Cardinality(T) = Cardinality(T)
  BY DEF Numbers!Cardinality, Cardinality

\* Each range of a finite set is in the list of them once, the lower starts first.
LEMMA SortedRanges ==
    ASSUME NEW R \in SUBSET AnyRange, IsFiniteSet(R)
    PROVE  /\ Cardinality(R) \in Nat
           /\ Numbers!Sorted(R) \in [1 .. Cardinality(R) -> R]
           /\ \A r \in R : \E i \in 1 .. Cardinality(R) : Numbers!Sorted(R)[i] = r
           /\ \A i, j \in 1 .. Cardinality(R) :
                 i < j => Numbers!Sorted(R)[i].from <= Numbers!Sorted(R)[j].from
  <1>. DEFINE n == Cardinality(R)
              Below(r) == {q \in R : Precedes(q, r)}
              L == [r \in R |-> Below(r)]
              s == Numbers!Sorted(R)
  <1>1. s = [i \in 1 .. n |-> CHOOSE r \in R : Cardinality(Below(r)) = i - 1]
    BY DEF Numbers!Sorted, Precedes, Numbers!Cardinality, Cardinality
  <1>2. ASSUME NEW r \in R, NEW q \in R
        PROVE  /\ ~ Precedes(r, r)
               /\ Precedes(r, q) => ~ Precedes(q, r) /\ Below(r) \subseteq Below(q)
               /\ r # q => Precedes(r, q) \/ Precedes(q, r)
    <2>1. r \in [from : Int, to : Int] /\ q \in [from : Int, to : Int]
      BY DEF AnyRange
    <2>2. ~ Precedes(r, r) /\ (Precedes(r, q) => ~ Precedes(q, r))
      BY <2>1 DEF Precedes
    <2>3. \A t \in R : Precedes(t, r) /\ Precedes(r, q) => Precedes(t, q)
      BY <2>1 DEF Precedes, AnyRange
    <2>4. r # q => r.from # q.from \/ r.to # q.to
      BY <2>1
    <2>5. r # q => Precedes(r, q) \/ Precedes(q, r)
      BY <2>1, <2>4 DEF Precedes
    <2>. QED  BY <2>2, <2>3, <2>5
  <1>3. Ranks(R, L, s)
    <2>1. \A r \in R : L[r] = Below(r)
      OBVIOUS
    <2>2. L \in [R -> SUBSET R]
      OBVIOUS
    <2>3. ASSUME NEW i \in 1 .. n, NEW r \in R, Cardinality(L[r]) = i - 1
          PROVE  s[i] \in R /\ Cardinality(L[s[i]]) = i - 1
      <3>1. s[i] = CHOOSE q \in R : Cardinality(Below(q)) = i - 1
        BY <1>1
      <3>2. Cardinality(Below(r)) = i - 1
        BY <2>3
      <3>3. s[i] \in R /\ Cardinality(Below(s[i])) = i - 1
        <4>. HIDE DEF Below, s, L, n
        <4>. QED  BY <3>1, <3>2
      <3>. HIDE DEF Below, s, L, n
      <3>. QED  BY <2>1, <3>3
    <2>4. \A r \in R : r \notin L[r]
      BY <1>2
    <2>5. \A r, q \in R : r \in L[q] => L[r] \subseteq L[q]
      BY <1>2
    <2>6. \A r, q \in R : r # q => r \in L[q] \/ q \in L[r]
      BY <1>2
    <2>. HIDE DEF L, s, Below
    <2>. QED  BY <2>2, <2>3, <2>4, <2>5, <2>6 DEF Ranks
  <1>4. /\ n \in Nat
        /\ \A i \in 1 .. n : s[i] \in R
        /\ \A r \in R : \E i \in 1 .. n : s[i] = r
        /\ \A i, j \in 1 .. n : i < j => s[i] \in L[s[j]]
    <2>. HIDE DEF L, s, Below
    <2>. QED  BY <1>3, RanksInOrder
  <1>5. s \in [1 .. n -> R]
    <2>1. s = [i \in 1 .. n |-> s[i]]
      <3>. HIDE DEF Below, n
      <3>. QED  BY <1>1
    <2>. HIDE DEF s, n
    <2>. QED  BY <1>4, <2>1
  <1>6. ASSUME NEW i \in 1 .. n, NEW j \in 1 .. n, i < j
        PROVE  s[i].from <= s[j].from
    <2>1. s[i] \in R /\ s[j] \in R /\ Precedes(s[i], s[j])
      <3>1. s[i] \in L[s[j]] /\ s[i] \in R /\ s[j] \in R
        BY <1>4, <1>6
      <3>2. L[s[j]] = Below(s[j])
        BY <3>1
      <3>. HIDE DEF L, s
      <3>. QED  BY <3>1, <3>2
    <2>. HIDE DEF s
    <2>. QED  BY <2>1 DEF Precedes, AnyRange
  <1>. HIDE DEF s, n, L
  <1>. QED  BY <1>4, <1>5, <1>6 DEF s, n

-------------------------------------------------------------------------------
(* The walk of printFreeFieldNumbers. *)

UsedRanges(m) ==
    {Numbers!Single(f.number) : f \in Numbers!Range(Numbers!Fields(m))}
        \cup Numbers!Range(Extensions(m)) \cup Numbers!Range(Reserved(m))

SkipRange(s, r) ==
    IF s.next >= r.to THEN s
    ELSE [free |-> IF s.next < r.from
                   THEN Append(s.free, [from |-> s.next, to |-> r.from]) ELSE s.free,
          next |-> r.to]

SkipAll(ranges) ==
    (CHOOSE g : g = [u \in SUBSET DOMAIN ranges |->
                       IF u = {} THEN [free |-> <<>>, next |-> 1]
                       ELSE SkipRange(g[u \ {Greatest(u)}], ranges[Greatest(u)])])[DOMAIN ranges]

LEMMA PrintsWalk ==
    ASSUME NEW m
    PROVE  LET end == SkipAll(Numbers!Sorted(UsedRanges(m)))
           IN  Numbers!printFreeFieldNumbers(m) =
                  IF end.next <= MaxFieldNumber
                  THEN Append(end.free, [from |-> end.next, to |-> MaxFieldNumber + 1])
                  ELSE end.free
  BY DEF Numbers!printFreeFieldNumbers, SkipAll, SkipRange, UsedRanges, Extensions, Reserved, Greatest,
         Numbers!FoldLeft, Numbers!MapThenFoldSet, Numbers!Max

Walks == [free : Seq(AnyRange), next : Int]

LEMMA SkippedType ==
    ASSUME NEW s \in Walks, NEW r \in AnyRange
    PROVE  SkipRange(s, r) \in Walks
  <1>1. s.free \in Seq(AnyRange) /\ s.next \in Int /\ r.from \in Int /\ r.to \in Int
    BY DEF Walks, AnyRange
  <1>2. [from |-> s.next, to |-> r.from] \in AnyRange
    BY <1>1 DEF AnyRange
  <1>3. Append(s.free, [from |-> s.next, to |-> r.from]) \in Seq(AnyRange)
    BY <1>1, <1>2, AppendProperties
  <1>. QED  BY <1>1, <1>3 DEF SkipRange, Walks

LEMMA SkipRuns ==
    ASSUME NEW n \in Nat, NEW s \in [1 .. n -> AnyRange]
    PROVE  \E w \in [0 .. n -> Walks] :
              /\ w[0] = [free |-> <<>>, next |-> 1] /\ w[n] = SkipAll(s)
              /\ \A k \in 1 .. n : w[k] = SkipRange(w[k - 1], s[k])
  <1>. DEFINE base == [free |-> <<>>, next |-> 1]
              op == [x \in Walks \X AnyRange |-> SkipRange(x[1], x[2])]
              Solves(g) == g = [u \in SUBSET (1 .. n) |->
                                  IF u = {} THEN base
                                  ELSE SkipRange(g[u \ {Greatest(u)}], s[Greatest(u)])]
  <1>1. base \in Walks /\ op \in [Walks \X AnyRange -> Walks]
    <2>1. <<>> \in Seq(AnyRange)
      OBVIOUS
    <2>. QED  BY <2>1, SkippedType DEF Walks
  <1>2. \A x \in Walks, r \in AnyRange : op[<<x, r>>] = SkipRange(x, r)
    OBVIOUS
  <1>3. SkipAll(s) = (CHOOSE g : Solves(g))[1 .. n]
    BY DEF SkipAll
  <1>. HIDE DEF op
  <1>4. \E g : Solves(g)
    <2>1. PICK g \in [SUBSET (1 .. n) -> Walks] : SolvesFold(base, n, s, op, g)
      <3>. HIDE DEF base
      <3>. QED  BY <1>1, FoldExists
    <2>2. \A u \in SUBSET (1 .. n) :
             u # {} => op[<<g[u \ {Greatest(u)}], s[Greatest(u)]>>]
                          = SkipRange(g[u \ {Greatest(u)}], s[Greatest(u)])
      BY <1>2, GreatestInside
    <2>. QED  BY <2>1, <2>2 DEF SolvesFold
  <1>5. PICK g : Solves(g) /\ SkipAll(s) = g[1 .. n]
    <2>. HIDE DEF Solves
    <2>. QED  BY <1>3, <1>4
  <1>6. Computes(Walks, AnyRange, base, n, s, op, g)
    BY <1>1, <1>2, <1>5, GreatestInside DEF Computes
  <1>. DEFINE w == RunOf(n, g)
  <1>7. /\ w \in [0 .. n -> Walks] /\ w[0] = base /\ w[n] = g[1 .. n]
        /\ \A k \in 1 .. n : w[k] = op[<<w[k - 1], s[k]>>]
    <2>. HIDE DEF base
    <2>. QED  BY <1>6, FoldRuns
  <1>. HIDE DEF w
  <1>8. \A k \in 1 .. n : k - 1 \in 0 .. n
    OBVIOUS
  <1>9. \A k \in 1 .. n : w[k] = SkipRange(w[k - 1], s[k])
    BY <1>2, <1>7, <1>8
  <1>. QED  BY <1>5, <1>7, <1>9

NumbersOfFirst(s, k) == UNION {Numbers!Numbers(s[i]) : i \in 1 .. k}
FreeSoFar(x) == UNION {Numbers!Numbers(x.free[i]) : i \in DOMAIN x.free}

\* After k ranges: what is below the next number and in none of them is free, and all that
\* is free lies before one of them.
WalkInv(s, k, x) ==
    /\ FreeSoFar(x) = (1 .. x.next - 1) \ NumbersOfFirst(s, k)
    /\ x.next >= 1
    /\ \A j \in NumbersOfFirst(s, k) : j < x.next
    /\ x.next # 1 => x.next - 1 \in NumbersOfFirst(s, k)
    /\ \A j \in FreeSoFar(x) : \E i \in 1 .. k : j < s[i].from

LEMMA OneRangeMore ==
    ASSUME NEW n \in Nat, NEW s, NEW k \in 1 .. n
    PROVE  NumbersOfFirst(s, k) = NumbersOfFirst(s, k - 1) \cup Numbers!Numbers(s[k])
  <1>1. \A i : i \in 1 .. k <=> i \in 1 .. k - 1 \/ i = k
    OBVIOUS
  <1>. QED  BY <1>1 DEF NumbersOfFirst

LEMMA FreeIntervals ==
    ASSUME NEW x \in Walks, NEW r \in AnyRange, NEW next \in Int
    PROVE  FreeSoFar([free |-> Append(x.free, r), next |-> next])
              = FreeSoFar(x) \cup Numbers!Numbers(r)
  <1>. DEFINE f == x.free
              g == Append(f, r)
  <1>1. f \in Seq(AnyRange)
    BY DEF Walks
  <1>2. /\ Len(f) \in Nat /\ DOMAIN f = 1 .. Len(f) /\ DOMAIN g = 1 .. Len(f) + 1
        /\ g[Len(f) + 1] = r /\ \A i \in 1 .. Len(f) : g[i] = f[i]
    <2>. HIDE DEF f
    <2>. QED  BY <1>1, AppendProperties, LenProperties
  <1>3. \A i : i \in 1 .. Len(f) + 1 <=> i \in 1 .. Len(f) \/ i = Len(f) + 1
    <2>. HIDE DEF f
    <2>. QED  BY <1>2
  <1>4. UNION {Numbers!Numbers(g[i]) : i \in DOMAIN g}
           = (UNION {Numbers!Numbers(f[i]) : i \in DOMAIN f}) \cup Numbers!Numbers(r)
    <2>. HIDE DEF f, g
    <2>. QED  BY <1>2, <1>3
  <1>. QED  BY <1>4 DEF FreeSoFar

Ordered(s, n) == \A i, j \in 1 .. n : i < j => s[i].from <= s[j].from

LEMMA WalkStep ==
    ASSUME NEW n \in Nat, NEW s \in [1 .. n -> Half], Ordered(s, n), NEW k \in 1 .. n,
           NEW x \in Walks, WalkInv(s, k - 1, x)
    PROVE  WalkInv(s, k, SkipRange(x, s[k]))
  <1>. DEFINE r == s[k]
              before == NumbersOfFirst(s, k - 1)
              after == NumbersOfFirst(s, k)
              here == Numbers!Numbers(r)
  <1>1. /\ r \in Half /\ r.from \in Nat /\ r.to \in Int
        /\ r.from < r.to \/ r.to = -(MaxInt + 1)
        /\ x.next \in Int /\ x.next >= 1 /\ MaxInt \in Nat
    BY BoundsAssumption DEF Half, Walks, WalkInv
  <1>2. after = before \cup here /\ here = r.from .. r.to - 1
    BY OneRangeMore DEF Numbers!Numbers
  <1>3. \A j \in FreeSoFar(x) : j < r.from
    <2>. SUFFICES ASSUME NEW j \in FreeSoFar(x) PROVE j < r.from
      OBVIOUS
    <2>1. PICK i \in 1 .. k - 1 : j < s[i].from
      BY DEF WalkInv
    <2>2. s[i].from <= r.from /\ s[i].from \in Nat /\ j \in Int
      <3>1. i \in 1 .. n /\ i < k
        OBVIOUS
      <3>2. s[i] \in Half
        BY <3>1
      <3>3. j \in Int
        BY <1>1 DEF WalkInv
      <3>. QED  BY <3>1, <3>2, <3>3 DEF Half, Ordered
    <2>. QED  BY <1>1, <2>1, <2>2
  <1>4. /\ FreeSoFar(x) = (1 .. x.next - 1) \ before
        /\ \A j \in before : j < x.next
        /\ x.next # 1 => x.next - 1 \in before
        /\ \A j \in FreeSoFar(x) : \E i \in 1 .. k : j < s[i].from
    BY DEF WalkInv
  <1>5. CASE x.next >= r.to
    <2>1. SkipRange(x, r) = x
      BY <1>5 DEF SkipRange
    <2>2. \A j \in after : j < x.next
      <3>. HIDE DEF r, before, after, here
      <3>. QED  BY <1>1, <1>2, <1>4, <1>5
    <2>3. FreeSoFar(x) = (1 .. x.next - 1) \ after
      <3>. HIDE DEF r, before, after, here
      <3>1. \A j \in 1 .. x.next - 1 : j \in here => j \notin FreeSoFar(x)
        BY <1>1, <1>2, <1>3
      <3>. QED  BY <1>2, <1>4, <3>1
    <2>4. x.next # 1 => x.next - 1 \in after
      <3>. HIDE DEF r, before, after, here
      <3>. QED  BY <1>2, <1>4
    <2>. QED  BY <1>1, <1>4, <2>1, <2>2, <2>3, <2>4 DEF WalkInv
  <1>6. CASE ~ (x.next >= r.to)
    <2>. DEFINE y == SkipRange(x, r)
    <2>1. r.from < r.to /\ x.next < r.to
      BY <1>1, <1>6
    <2>2. y.next = r.to
      BY <1>6 DEF SkipRange
    <2>3. FreeSoFar(y) = FreeSoFar(x) \cup (x.next .. r.from - 1)
      <3>1. CASE x.next < r.from
        <4>. DEFINE gap == [from |-> x.next, to |-> r.from]
        <4>1. y = [free |-> Append(x.free, gap), next |-> r.to]
          BY <1>6, <3>1 DEF SkipRange
        <4>2. gap \in AnyRange
          BY <1>1 DEF AnyRange
        <4>3. Numbers!Numbers(gap) = x.next .. r.from - 1
          BY DEF Numbers!Numbers
        <4>. HIDE DEF r, gap, y
        <4>. QED  BY <1>1, <4>1, <4>2, <4>3, FreeIntervals
      <3>2. CASE ~ (x.next < r.from)
        <4>1. y.free = x.free
          BY <1>6, <3>2 DEF SkipRange
        <4>2. x.next .. r.from - 1 = {}
          BY <1>1, <3>2
        <4>. HIDE DEF y, r
        <4>. QED  BY <4>1, <4>2 DEF FreeSoFar
      <3>. QED  BY <3>1, <3>2
    <2>. HIDE DEF y
    <2>4. \A j \in after : j < y.next
      <3>. HIDE DEF r, before, after, here
      <3>1. \A j \in before : j \in Int => j < r.to
        BY <1>1, <1>4, <2>1
      <3>2. before \in SUBSET Int
        BY DEF before, NumbersOfFirst, Numbers!Numbers
      <3>. QED  BY <1>1, <1>2, <2>2, <3>1, <3>2
    <2>5. FreeSoFar(y) = (1 .. y.next - 1) \ after
      <3>. HIDE DEF r, before, after, here
      <3>1. ASSUME NEW j \in FreeSoFar(x) PROVE j \in (1 .. r.to - 1) \ after
        BY <1>1, <1>2, <1>3, <1>4, <2>1, <3>1
      <3>2. ASSUME NEW j \in x.next .. r.from - 1 PROVE j \in (1 .. r.to - 1) \ after
        BY <1>1, <1>2, <1>4, <2>1, <3>2
      <3>3. ASSUME NEW j \in 1 .. r.to - 1, j \notin after
            PROVE  j \in FreeSoFar(x) \/ j \in x.next .. r.from - 1
        BY <1>1, <1>2, <1>4, <2>1, <3>3
      <3>. QED  BY <2>2, <2>3, <3>1, <3>2, <3>3
    <2>6. y.next - 1 \in after
      <3>. HIDE DEF r, before, after, here
      <3>. QED  BY <1>1, <1>2, <2>1, <2>2
    <2>7. \A j \in FreeSoFar(y) : \E i \in 1 .. k : j < s[i].from
      <3>1. \A j \in x.next .. r.from - 1 : j < s[k].from
        BY <1>1
      <3>2. k \in 1 .. k
        OBVIOUS
      <3>. HIDE DEF r
      <3>. QED  BY <1>4, <2>3, <3>1, <3>2
    <2>8. y.next >= 1
      <3>. HIDE DEF r
      <3>. QED  BY <1>1, <2>1, <2>2
    <2>. QED  BY <2>4, <2>5, <2>6, <2>7, <2>8 DEF WalkInv, y
  <1>. QED  BY <1>5, <1>6

NumbersOf(R) == UNION {Numbers!Numbers(r) : r \in R}

\* The list that is printed.
Printing(end) ==
    IF end.next <= MaxFieldNumber
    THEN Append(end.free, [from |-> end.next, to |-> MaxFieldNumber + 1]) ELSE end.free

LEMMA WalkEnds ==
    ASSUME NEW R \in SUBSET Half, IsFiniteSet(R)
    PROVE  LET end == SkipAll(Numbers!Sorted(R))
           IN  /\ end \in Walks
               /\ FreeSoFar(end) = (1 .. end.next - 1) \ NumbersOf(R)
               /\ end.next >= 1
               /\ \A j \in NumbersOf(R) : j < end.next
               /\ end.next # 1 => end.next - 1 \in NumbersOf(R)
  <1>. DEFINE n == Cardinality(R)
              s == Numbers!Sorted(R)
              end == SkipAll(s)
  <1>1. Half \subseteq AnyRange
    BY DEF Half, AnyRange
  <1>2. /\ n \in Nat /\ s \in [1 .. n -> R]
        /\ \A r \in R : \E i \in 1 .. n : s[i] = r
        /\ Ordered(s, n)
    <2>1. R \in SUBSET AnyRange
      BY <1>1
    <2>. QED  BY <2>1, SortedRanges DEF Ordered
  <1>. HIDE DEF n, s
  <1>3. s \in [1 .. n -> Half] /\ s \in [1 .. n -> AnyRange]
    BY <1>1, <1>2
  <1>4. PICK w \in [0 .. n -> Walks] :
           /\ w[0] = [free |-> <<>>, next |-> 1] /\ w[n] = end
           /\ \A k \in 1 .. n : w[k] = SkipRange(w[k - 1], s[k])
    BY <1>2, <1>3, SkipRuns
  <1>. HIDE DEF end
  <1>. DEFINE P == {k \in 0 .. n : WalkInv(s, k, w[k])}
  <1>5. 0 \in P
    <2>1. w[0].free = <<>> /\ w[0].next = 1
      BY <1>4
    <2>2. FreeSoFar(w[0]) = {}
      BY <2>1 DEF FreeSoFar
    <2>3. NumbersOfFirst(s, 0) = {}
      BY DEF NumbersOfFirst
    <2>4. 1 .. 1 - 1 = {}
      OBVIOUS
    <2>5. WalkInv(s, 0, w[0])
      BY <2>1, <2>2, <2>3, <2>4 DEF WalkInv
    <2>. QED  BY <1>2, <2>5
  <1>6. ASSUME NEW k \in 1 .. n, k - 1 \in P PROVE k \in P
    <2>1. w[k - 1] \in Walks /\ WalkInv(s, k - 1, w[k - 1]) /\ k \in 0 .. n
      BY <1>2, <1>4, <1>6
    <2>2. WalkInv(s, k, SkipRange(w[k - 1], s[k]))
      BY <1>2, <1>3, <2>1, WalkStep
    <2>. QED  BY <1>4, <2>1, <2>2
  <1>7. WalkInv(s, n, end) /\ end \in Walks
    <2>1. \A k \in 0 .. n : k \in P
      <3>. HIDE DEF P
      <3>. QED  BY <1>2, <1>5, <1>6, UpTo
    <2>2. n \in 0 .. n
      BY <1>2
    <2>. QED  BY <1>4, <2>1, <2>2
  <1>8. NumbersOfFirst(s, n) = NumbersOf(R)
    BY <1>2 DEF NumbersOfFirst, NumbersOf
  <1>9. /\ FreeSoFar(end) = (1 .. end.next - 1) \ NumbersOf(R) /\ end.next >= 1
        /\ \A j \in NumbersOf(R) : j < end.next
        /\ end.next # 1 => end.next - 1 \in NumbersOf(R)
    BY <1>7, <1>8 DEF WalkInv
  <1>. QED  BY <1>7, <1>9 DEF end, s

\* What is printed is what the ranges leave of the legal numbers, and the numbers before
\* a range that starts beyond these.
LEMMA PrintsWhatIsLeft ==
    ASSUME NEW R \in SUBSET Half, IsFiniteSet(R)
    PROVE  LET list == Printing(SkipAll(Numbers!Sorted(R)))
           IN  UNION {Numbers!Numbers(r) : r \in Numbers!Range(list)}
                 = {n \in (1 .. MaxInt) \ NumbersOf(R) :
                      n <= MaxFieldNumber \/ \E k \in NumbersOf(R) : n < k}
  <1>1. PICK end : end = SkipAll(Numbers!Sorted(R))
    OBVIOUS
  <1>. DEFINE U == NumbersOf(R)
              list == Printing(end)
              left == {n \in (1 .. MaxInt) \ U : n <= MaxFieldNumber \/ \E k \in U : n < k}
  <1>2. /\ end \in Walks /\ end.next \in Int /\ end.next >= 1
        /\ FreeSoFar(end) = (1 .. end.next - 1) \ U
        /\ \A j \in U : j < end.next
        /\ end.next # 1 => end.next - 1 \in U
    BY <1>1, WalkEnds DEF Walks
  <1>3. /\ MaxInt \in Nat /\ MaxFieldNumber \in Nat /\ MaxFieldNumber + 1 < MaxInt
        /\ U \in SUBSET (0 .. MaxInt)
    <2>1. \A r \in Half : Numbers!Numbers(r) \in SUBSET (0 .. MaxInt)
      BY BoundsAssumption DEF Half, Numbers!Numbers
    <2>. QED  BY <2>1, BoundsAssumption DEF NumbersOf
  <1>4. UNION {Numbers!Numbers(r) : r \in Numbers!Range(list)}
           = UNION {Numbers!Numbers(list[i]) : i \in DOMAIN list}
    <2>. HIDE DEF list
    <2>. QED  BY DEF Numbers!Range
  <1>5. CASE end.next <= MaxFieldNumber
    <2>. DEFINE last == [from |-> end.next, to |-> MaxFieldNumber + 1]
    <2>1. list = Append(end.free, last)
      BY <1>5 DEF Printing
    <2>2. last \in AnyRange /\ Numbers!Numbers(last) = end.next .. MaxFieldNumber
      BY <1>2, <1>3 DEF AnyRange, Numbers!Numbers
    <2>3. UNION {Numbers!Numbers(list[i]) : i \in DOMAIN list}
             = FreeSoFar(end) \cup (end.next .. MaxFieldNumber)
      <3>1. FreeSoFar([free |-> Append(end.free, last), next |-> end.next])
               = FreeSoFar(end) \cup Numbers!Numbers(last)
        <4>1. PICK next \in Int : next = end.next
          BY <1>2
        <4>2. FreeSoFar([free |-> Append(end.free, last), next |-> next])
                 = FreeSoFar(end) \cup Numbers!Numbers(last)
          <5>. HIDE DEF last, U, list, left
          <5>. QED  BY <1>2, <2>2, FreeIntervals
        <4>. QED  BY <4>1, <4>2
      <3>2. FreeSoFar([free |-> Append(end.free, last), next |-> end.next])
               = UNION {Numbers!Numbers(list[i]) : i \in DOMAIN list}
        <4>. HIDE DEF list, last
        <4>. QED  BY <2>1 DEF FreeSoFar
      <3>. QED  BY <2>2, <3>1, <3>2
    <2>4. FreeSoFar(end) \cup (end.next .. MaxFieldNumber) = left
      <3>. HIDE DEF U
      <3>1. \A j \in (1 .. end.next - 1) \ U : j \in left
        BY <1>2, <1>3, <1>5
      <3>2. \A j \in end.next .. MaxFieldNumber : j \in left
        BY <1>2, <1>3, <1>5
      <3>3. \A j \in left : j \in (1 .. end.next - 1) \ U \/ j \in end.next .. MaxFieldNumber
        BY <1>2, <1>3, <1>5
      <3>. HIDE DEF left
      <3>. QED  BY <1>2, <3>1, <3>2, <3>3
    <2>. QED  BY <1>1, <1>4, <2>3, <2>4
  <1>6. CASE ~ (end.next <= MaxFieldNumber)
    <2>1. list = end.free
      BY <1>6 DEF Printing
    <2>2. UNION {Numbers!Numbers(list[i]) : i \in DOMAIN list} = FreeSoFar(end)
      <3>. HIDE DEF list
      <3>. QED  BY <2>1 DEF FreeSoFar
    <2>3. FreeSoFar(end) = left
      <3>. HIDE DEF U
      <3>1. ASSUME NEW j \in (1 .. end.next - 1) \ U PROVE j \in left
        <4>1. end.next - 1 \in U /\ j # end.next - 1
          BY <1>2, <1>3, <1>6, <3>1
        <4>2. j < end.next - 1 /\ j \in 1 .. MaxInt
          BY <1>2, <1>3, <3>1, <4>1
        <4>. QED  BY <3>1, <4>1, <4>2
      <3>2. \A j \in left : j \in (1 .. end.next - 1) \ U
        BY <1>2, <1>3, <1>6
      <3>. HIDE DEF left
      <3>. QED  BY <1>2, <3>1, <3>2
    <2>. QED  BY <1>1, <1>4, <2>2, <2>3
  <1>. QED  BY <1>5, <1>6

-------------------------------------------------------------------------------
(* The walk of suggestFieldNumbers. *)

Before(count, s, r) ==
    LET wanted == count - Len(s.parts)
        new == Numbers!Between(r.from - s.current, 0, wanted)
        parts == s.parts \o [i \in 1 .. new |-> s.current + i - 1]
    IN  [parts |-> parts,
         current |-> IF s.current + new < r.to THEN r.to ELSE s.current + new]

SuggestAll(count, ranges) ==
    (CHOOSE g : g = [u \in SUBSET DOMAIN ranges |->
                       IF u = {} THEN [parts |-> <<>>, current |-> 1]
                       ELSE Before(count, g[u \ {Greatest(u)}], ranges[Greatest(u)])])[DOMAIN ranges]

LEMMA SuggestsWalk ==
    ASSUME NEW m, NEW count
    PROVE  Numbers!suggestFieldNumbers(m, count)
              = SuggestAll(count, Numbers!Sorted(Numbers!Taken(m))).parts
  BY DEF Numbers!suggestFieldNumbers, SuggestAll, Before, Greatest,
         Numbers!FoldLeft, Numbers!MapThenFoldSet, Numbers!Max

ListsUpTo(count) == {x \in [parts : Seq(Int), current : Int] : Len(x.parts) <= count}

\* A range that is not empty, of numbers up to the largest of fields.
Filled == {r \in AnyRange : 0 <= r.from /\ r.from < r.to /\ r.to <= MaxFieldNumber + 1}

\* One step: as many of the numbers before the range as are wanted are appended.
LEMMA BeforeStep ==
    ASSUME NEW count \in Nat, NEW x \in ListsUpTo(count), NEW r \in AnyRange
    PROVE  LET y == Before(count, x, r)
               L == Len(x.parts)
           IN  \E new \in Nat :
                 /\ y \in ListsUpTo(count)
                 /\ L \in Nat /\ L + new <= count
                 /\ new = 0 \/ x.current + new <= r.from
                 /\ L + new = count \/ x.current + new >= r.from
                 /\ y.current = IF x.current + new < r.to THEN r.to ELSE x.current + new
                 /\ Len(y.parts) = L + new
                 /\ \A i \in 1 .. L + new :
                       y.parts[i] = IF i <= L THEN x.parts[i] ELSE x.current + (i - L) - 1
  <1>. DEFINE L == Len(x.parts)
              new == Numbers!Between(r.from - x.current, 0, count - L)
              added == [i \in 1 .. new |-> x.current + i - 1]
              y == Before(count, x, r)
  <1>1. /\ x.parts \in Seq(Int) /\ L \in Nat /\ L <= count /\ x.current \in Int
        /\ r.from \in Int /\ r.to \in Int
    BY DEF ListsUpTo, AnyRange
  <1>2. /\ new \in Nat /\ L + new <= count
        /\ new = 0 \/ x.current + new <= r.from
        /\ L + new = count \/ x.current + new >= r.from
    <2>. HIDE DEF L
    <2>. QED  BY <1>1 DEF Numbers!Between
  <1>. HIDE DEF new
  <1>3. added \in Seq(Int) /\ Len(added) = new
    BY <1>1, <1>2
  <1>4. /\ x.parts \o added \in Seq(Int) /\ Len(x.parts \o added) = L + new
        /\ \A i \in 1 .. L + new :
              (x.parts \o added)[i] = IF i <= L THEN x.parts[i] ELSE added[i - L]
    <2>1. PICK p \in Seq(Int), q \in Seq(Int) : p = x.parts /\ q = added
      BY <1>1, <1>3
    <2>2. /\ p \o q \in Seq(Int) /\ Len(p \o q) = Len(p) + Len(q)
          /\ \A i \in 1 .. Len(p) + Len(q) :
                (p \o q)[i] = IF i <= Len(p) THEN p[i] ELSE q[i - Len(p)]
      BY ConcatProperties
    <2>. HIDE DEF added
    <2>. QED  BY <1>3, <2>1, <2>2
  <1>5. \A i \in 1 .. L + new : ~ (i <= L) => added[i - L] = x.current + (i - L) - 1
    <2>1. \A i \in 1 .. L + new : ~ (i <= L) => i - L \in 1 .. new
      <3>. HIDE DEF L
      <3>. QED  BY <1>1, <1>2
    <2>. HIDE DEF L
    <2>. QED  BY <2>1
  <1>6. y = [parts |-> x.parts \o added,
             current |-> IF x.current + new < r.to THEN r.to ELSE x.current + new]
    BY DEF Before, new
  <1>. HIDE DEF added, y
  <1>7. /\ y.parts = x.parts \o added
        /\ y.current = IF x.current + new < r.to THEN r.to ELSE x.current + new
    BY <1>6
  <1>8. y \in ListsUpTo(count)
    <2>1. y.current \in Int
      BY <1>1, <1>2, <1>7
    <2>2. Len(y.parts) <= count
      BY <1>2, <1>4, <1>7
    <2>3. y \in [parts : Seq(Int), current : Int]
      BY <1>4, <1>6, <1>7, <2>1
    <2>. QED  BY <2>2, <2>3 DEF ListsUpTo
  <1>9. /\ Len(y.parts) = L + new
        /\ \A i \in 1 .. L + new :
              y.parts[i] = IF i <= L THEN x.parts[i] ELSE x.current + (i - L) - 1
    <2>. HIDE DEF L
    <2>. QED  BY <1>4, <1>5, <1>7
  <1>. HIDE DEF L
  <1>. QED  BY <1>1, <1>2, <1>7, <1>8, <1>9 DEF y, L

LEMMA SuggestRuns ==
    ASSUME NEW count \in Nat, NEW n \in Nat, NEW s \in [1 .. n -> AnyRange]
    PROVE  \E w \in [0 .. n -> ListsUpTo(count)] :
              /\ w[0] = [parts |-> <<>>, current |-> 1] /\ w[n] = SuggestAll(count, s)
              /\ \A k \in 1 .. n : w[k] = Before(count, w[k - 1], s[k])
  <1>. DEFINE V == ListsUpTo(count)
              base == [parts |-> <<>>, current |-> 1]
              op == [x \in V \X AnyRange |-> Before(count, x[1], x[2])]
              Solves(g) == g = [u \in SUBSET (1 .. n) |->
                                  IF u = {} THEN base
                                  ELSE Before(count, g[u \ {Greatest(u)}], s[Greatest(u)])]
  <1>1. base \in V /\ op \in [V \X AnyRange -> V]
    <2>1. <<>> \in Seq(Int) /\ Len(<<>>) = 0
      OBVIOUS
    <2>2. base \in V
      BY <2>1 DEF ListsUpTo
    <2>3. ASSUME NEW x \in V, NEW r \in AnyRange PROVE Before(count, x, r) \in V
      BY BeforeStep
    <2>. HIDE DEF V, base
    <2>. QED  BY <2>2, <2>3
  <1>2. \A x \in V, r \in AnyRange : op[<<x, r>>] = Before(count, x, r)
    <2>. HIDE DEF V
    <2>. QED  OBVIOUS
  <1>3. SuggestAll(count, s) = (CHOOSE g : Solves(g))[1 .. n]
    BY DEF SuggestAll
  <1>. HIDE DEF op, V
  <1>4. \E g : Solves(g)
    <2>1. PICK g \in [SUBSET (1 .. n) -> V] : SolvesFold(base, n, s, op, g)
      <3>. HIDE DEF base
      <3>. QED  BY <1>1, FoldExists
    <2>2. \A u \in SUBSET (1 .. n) :
             u # {} => op[<<g[u \ {Greatest(u)}], s[Greatest(u)]>>]
                          = Before(count, g[u \ {Greatest(u)}], s[Greatest(u)])
      BY <1>2, GreatestInside
    <2>. QED  BY <2>1, <2>2 DEF SolvesFold
  <1>5. PICK g : Solves(g) /\ SuggestAll(count, s) = g[1 .. n]
    <2>. HIDE DEF Solves
    <2>. QED  BY <1>3, <1>4
  <1>6. Computes(V, AnyRange, base, n, s, op, g)
    BY <1>1, <1>2, <1>5, GreatestInside DEF Computes
  <1>. DEFINE w == RunOf(n, g)
  <1>7. /\ w \in [0 .. n -> V] /\ w[0] = base /\ w[n] = g[1 .. n]
        /\ \A k \in 1 .. n : w[k] = op[<<w[k - 1], s[k]>>]
    <2>. HIDE DEF base
    <2>. QED  BY <1>6, FoldRuns
  <1>. HIDE DEF w
  <1>8. \A k \in 1 .. n : k - 1 \in 0 .. n
    OBVIOUS
  <1>9. \A k \in 1 .. n : w[k] = Before(count, w[k - 1], s[k])
    BY <1>2, <1>7, <1>8
  <1>. QED  BY <1>5, <1>7, <1>9 DEF V

\* After k ranges: the numbers so far are in order, in none of the ranges and the lowest
\* such numbers; below the current one they are all, while more are wanted.
ListInv(count, s, n, k, x) ==
    LET L == Len(x.parts)
        used == NumbersOfFirst(s, n)
    IN  /\ x.current >= 1 /\ x.current <= MaxFieldNumber + 1
        /\ \A j \in NumbersOfFirst(s, k) : j < x.current
        /\ \A i \in 1 .. L : 1 <= x.parts[i] /\ x.parts[i] < x.current /\ x.parts[i] \notin used
        /\ \A i, j \in 1 .. L : i < j => x.parts[i] < x.parts[j]
        /\ L < count => \A q \in (1 .. x.current - 1) \ used : \E i \in 1 .. L : x.parts[i] = q
        /\ \A q \in Nat \ used :
              q >= 1 /\ (\E j \in 1 .. L : q < x.parts[j]) => \E i \in 1 .. L : x.parts[i] = q

LEMMA ListStep ==
    ASSUME NEW count \in Nat, NEW n \in Nat, NEW s \in [1 .. n -> Filled], Ordered(s, n),
           NEW k \in 1 .. n, NEW x \in ListsUpTo(count), ListInv(count, s, n, k - 1, x)
    PROVE  ListInv(count, s, n, k, Before(count, x, s[k]))
  <1>. DEFINE r == s[k]
              used == NumbersOfFirst(s, n)
              y == Before(count, x, r)
              L == Len(x.parts)
  <1>1. r \in AnyRange /\ r.from \in Int /\ r.to \in Int /\ 0 <= r.from /\ r.from < r.to
        /\ r.to <= MaxFieldNumber + 1
    BY DEF Filled, AnyRange
  <1>. HIDE DEF r
  <1>2. PICK new \in Nat :
           /\ y \in ListsUpTo(count)
           /\ L \in Nat /\ L + new <= count
           /\ new = 0 \/ x.current + new <= r.from
           /\ L + new = count \/ x.current + new >= r.from
           /\ y.current = IF x.current + new < r.to THEN r.to ELSE x.current + new
           /\ Len(y.parts) = L + new
           /\ \A i \in 1 .. L + new :
                 y.parts[i] = IF i <= L THEN x.parts[i] ELSE x.current + (i - L) - 1
    <2>. HIDE DEF y
    <2>. QED  BY <1>1, BeforeStep DEF y
  <1>. HIDE DEF y
  <1>3. /\ x.current \in Int /\ x.parts \in Seq(Int) /\ \A i \in 1 .. L : x.parts[i] \in Int
    BY DEF ListsUpTo
  <1>4. /\ x.current >= 1 /\ x.current <= MaxFieldNumber + 1
        /\ \A j \in NumbersOfFirst(s, k - 1) : j < x.current
        /\ \A i \in 1 .. L : 1 <= x.parts[i] /\ x.parts[i] < x.current /\ x.parts[i] \notin used
        /\ \A i, j \in 1 .. L : i < j => x.parts[i] < x.parts[j]
        /\ L < count => \A q \in (1 .. x.current - 1) \ used : \E i \in 1 .. L : x.parts[i] = q
        /\ \A q \in Nat \ used :
              q >= 1 /\ (\E j \in 1 .. L : q < x.parts[j]) => \E i \in 1 .. L : x.parts[i] = q
    BY DEF ListInv
  <1>. HIDE DEF L
  \* No range has a number between the current one and its start.
  <1>5. \A q \in x.current .. r.from - 1 : q \notin used
    <2>. SUFFICES ASSUME NEW q \in x.current .. r.from - 1, NEW i \in 1 .. n,
                         q \in Numbers!Numbers(s[i])
                  PROVE  FALSE
      BY DEF NumbersOfFirst
    <2>1. s[i].from \in Int /\ s[i].from <= q
      BY DEF Filled, AnyRange, Numbers!Numbers
    <2>2. i < k
      <3>1. k < i => r.from <= s[i].from
        BY DEF Ordered, r
      <3>2. k = i => r.from = s[i].from
        BY DEF r
      <3>. QED  BY <1>1, <1>3, <2>1, <3>1, <3>2
    <2>3. q \in NumbersOfFirst(s, k - 1)
      <3>1. i \in 1 .. k - 1
        BY <2>2
      <3>. QED  BY <3>1 DEF NumbersOfFirst
    <2>. QED  BY <1>3, <1>4, <2>3
  <1>6. /\ y.current \in Int /\ y.current >= x.current /\ y.current >= r.to
        /\ y.current = x.current \/ y.current = r.to
    <2>1. PICK c, a, b, e \in Int : c = x.current /\ a = r.from /\ b = r.to /\ e = y.current
      BY <1>1, <1>2, <1>3
    <2>2. /\ new = 0 \/ c + new <= a
          /\ e = IF c + new < b THEN b ELSE c + new
      BY <1>2, <2>1
    <2>3. a < b
      BY <1>1, <2>1
    <2>. QED  BY <2>1, <2>2, <2>3
  <1>7. \A j \in NumbersOfFirst(s, k) : j < y.current
    <2>1. NumbersOfFirst(s, k) = NumbersOfFirst(s, k - 1) \cup Numbers!Numbers(r)
      BY OneRangeMore DEF r
    <2>2. \A j \in Numbers!Numbers(r) : j < y.current
      BY <1>1, <1>6 DEF Numbers!Numbers
    <2>3. \A j \in NumbersOfFirst(s, k - 1) : j \in Int
      BY DEF NumbersOfFirst, Numbers!Numbers
    <2>. QED  BY <1>3, <1>4, <1>6, <2>1, <2>2, <2>3
  \* The numbers added.
  <1>8. ASSUME NEW i \in 1 .. L + new, i > L
        PROVE  /\ y.parts[i] = x.current + (i - L) - 1
               /\ y.parts[i] \in x.current .. r.from - 1
    <2>1. L \in Nat /\ new \in Nat
      BY <1>2
    <2>2. ~ (i <= L) /\ new # 0 /\ i - L >= 1 /\ i - L <= new
      BY <1>8, <2>1
    <2>3. y.parts[i] = x.current + (i - L) - 1
      BY <1>2, <2>2
    <2>4. x.current + new <= r.from
      BY <1>2, <2>2
    <2>5. x.current + (i - L) - 1 \in x.current .. r.from - 1
      <3>1. i \in Int /\ x.current \in Int /\ r.from \in Int
        BY <1>1, <1>3, <2>1
      <3>2. \A a, b, c, d \in Int : d - c >= 1 => a + (d - c) - 1 >= a
        OBVIOUS
      <3>3. x.current + (i - L) - 1 <= r.from - 1
        BY <2>1, <2>2, <2>4, <3>1
      <3>4. x.current + (i - L) - 1 >= x.current
        BY <2>1, <2>2, <3>1, <3>2
      <3>. QED  BY <2>1, <3>1, <3>3, <3>4
    <2>. QED  BY <2>3, <2>5
  <1>9. \A i \in 1 .. L : i \in 1 .. L + new /\ y.parts[i] = x.parts[i]
    BY <1>2
  <1>10. \A i \in 1 .. L + new : i \in 1 .. L \/ i > L
    BY <1>2
  <1>11. ASSUME NEW i \in 1 .. L + new
         PROVE  1 <= y.parts[i] /\ y.parts[i] < y.current /\ y.parts[i] \notin used
    <2>1. CASE i \in 1 .. L
      BY <1>3, <1>4, <1>6, <1>9, <2>1
    <2>2. CASE i > L
      <3>1. y.parts[i] \in x.current .. r.from - 1
        BY <1>8, <2>2
      <3>. HIDE DEF used
      <3>. QED  BY <1>1, <1>3, <1>4, <1>5, <1>6, <3>1
    <2>. QED  BY <1>10, <2>1, <2>2
  <1>12. ASSUME NEW i \in 1 .. L + new, NEW j \in 1 .. L + new, i < j
         PROVE  y.parts[i] < y.parts[j]
    <2>1. CASE j \in 1 .. L
      <3>1. i \in 1 .. L
        BY <1>2, <1>12, <2>1
      <3>. QED  BY <1>4, <1>9, <1>12, <2>1, <3>1
    <2>2. CASE j > L /\ i \in 1 .. L
      <3>1. y.parts[i] = x.parts[i] /\ x.parts[i] < x.current /\ x.parts[i] \in Int
        BY <1>3, <1>4, <1>9, <2>2
      <3>2. y.parts[j] \in x.current .. r.from - 1
        BY <1>8, <2>2
      <3>3. y.parts[j] \in Int /\ x.current \in Int /\ x.current <= y.parts[j]
        BY <1>1, <1>3, <3>2
      <3>. QED  BY <3>1, <3>3
    <2>3. CASE j > L /\ i > L
      <3>1. y.parts[i] = x.current + (i - L) - 1 /\ y.parts[j] = x.current + (j - L) - 1
        BY <1>8, <2>3
      <3>2. i \in Int /\ j \in Int /\ i < j /\ L \in Int /\ x.current \in Int
        BY <1>2, <1>3, <1>12
      <3>3. x.current + (i - L) - 1 < x.current + (j - L) - 1
        BY <3>2
      <3>. QED  BY <3>1, <3>3
    <2>. QED  BY <1>10, <2>1, <2>2, <2>3
  \* A number from the current one on and before a number added is added.
  <1>13. ASSUME NEW q \in x.current .. x.current + new - 1
         PROVE  \E i \in 1 .. L + new : y.parts[i] = q
    <2>. DEFINE i == L + (q - x.current) + 1
    <2>1. i \in 1 .. L + new /\ i > L /\ x.current + (i - L) - 1 = q
      <3>1. L \in Nat /\ new \in Nat /\ x.current \in Int
        BY <1>2, <1>3
      <3>. QED  BY <3>1
    <2>. HIDE DEF i
    <2>. QED  BY <1>8, <2>1
  <1>14. ASSUME L + new < count, NEW q \in (1 .. y.current - 1) \ used
         PROVE  \E i \in 1 .. L + new : y.parts[i] = q
    <2>1. CASE q < x.current
      <3>1. L < count /\ q \in (1 .. x.current - 1) \ used
        BY <1>2, <1>3, <1>14, <2>1
      <3>. QED  BY <1>4, <1>9, <3>1
    <2>2. CASE q >= x.current
      <3>1. q \in Int /\ q < r.to
        BY <1>1, <1>3, <1>6, <2>2
      <3>2. q \notin r.from .. r.to - 1
        <4>1. Numbers!Numbers(r) \subseteq used
          BY DEF NumbersOfFirst, r
        <4>. QED  BY <4>1 DEF Numbers!Numbers
      <3>3. q < r.from
        BY <1>1, <3>1, <3>2
      <3>4. q \in x.current .. x.current + new - 1
        BY <1>1, <1>2, <1>3, <1>14, <2>2, <3>1, <3>3
      <3>. QED  BY <1>13, <3>4
    <2>. QED  BY <1>3, <2>1, <2>2
  <1>15. ASSUME NEW q \in Nat \ used, q >= 1, NEW j \in 1 .. L + new, q < y.parts[j]
         PROVE  \E i \in 1 .. L + new : y.parts[i] = q
    <2>1. CASE j \in 1 .. L
      BY <1>4, <1>9, <1>15, <2>1
    <2>2. CASE j > L /\ q < x.current
      <3>1. L < count
        BY <1>2, <2>2
      <3>2. q \in (1 .. x.current - 1) \ used
        <4>. HIDE DEF used
        <4>. QED  BY <1>3, <1>15, <2>2
      <3>. QED  BY <1>4, <1>9, <3>1, <3>2
    <2>3. CASE j > L /\ q >= x.current
      <3>1. y.parts[j] = x.current + (j - L) - 1
        BY <1>8, <2>3
      <3>2. /\ j \in Int /\ j <= L + new /\ q \in Int /\ x.current \in Int
            /\ L \in Nat /\ new \in Nat /\ q < x.current + (j - L) - 1
        BY <1>2, <1>3, <1>15, <3>1
      <3>3. q <= x.current + new - 1
        BY <3>2
      <3>4. q \in x.current .. x.current + new - 1
        BY <2>3, <3>2, <3>3
      <3>. QED  BY <1>13, <3>4
    <2>. QED  BY <1>3, <1>10, <2>1, <2>2, <2>3
  <1>16. y.current >= 1 /\ y.current <= MaxFieldNumber + 1
    BY <1>1, <1>3, <1>4, <1>6
  <1>. HIDE DEF used
  <1>17. ListInv(count, s, n, k, y)
    BY <1>2, <1>7, <1>11, <1>12, <1>14, <1>15, <1>16 DEF ListInv, used
  <1>. QED  BY <1>17 DEF y, r

\* Numbers are the lowest of those left, in order: count of them, or all that are left.
Lowest(left, p, count) ==
    /\ p \in Seq(Int) /\ Len(p) <= count
    /\ \A i \in 1 .. Len(p) : p[i] \in left
    /\ \A i, j \in 1 .. Len(p) : i < j => p[i] < p[j]
    /\ \A q \in left :
          Len(p) < count \/ (\E j \in 1 .. Len(p) : q < p[j])
             => \E i \in 1 .. Len(p) : p[i] = q

\* Of those that no range has, so are those that are suggested.
LEMMA SuggestsLowest ==
    ASSUME NEW count \in Nat, NEW R \in SUBSET Filled, IsFiniteSet(R), MaxFieldNumber \in NumbersOf(R)
    PROVE  Lowest((1 .. MaxFieldNumber) \ NumbersOf(R), SuggestAll(count, Numbers!Sorted(R)).parts, count)
  <1>. DEFINE n == Cardinality(R)
              s == Numbers!Sorted(R)
              end == SuggestAll(count, s)
  <1>1. Filled \subseteq AnyRange
    BY DEF Filled
  <1>2. /\ n \in Nat /\ s \in [1 .. n -> R]
        /\ \A r \in R : \E i \in 1 .. n : s[i] = r
        /\ Ordered(s, n)
    <2>1. R \in SUBSET AnyRange
      BY <1>1
    <2>. QED  BY <2>1, SortedRanges DEF Ordered
  <1>. HIDE DEF n, s
  <1>3. s \in [1 .. n -> Filled] /\ s \in [1 .. n -> AnyRange]
    BY <1>1, <1>2
  <1>4. PICK w \in [0 .. n -> ListsUpTo(count)] :
           /\ w[0] = [parts |-> <<>>, current |-> 1] /\ w[n] = end
           /\ \A k \in 1 .. n : w[k] = Before(count, w[k - 1], s[k])
    BY <1>2, <1>3, SuggestRuns
  <1>. HIDE DEF end
  <1>. DEFINE P == {k \in 0 .. n : ListInv(count, s, n, k, w[k])}
  <1>5. 0 \in P
    <2>1. w[0].parts = <<>> /\ w[0].current = 1 /\ Len(w[0].parts) = 0
      BY <1>4
    <2>2. NumbersOfFirst(s, 0) = {}
      BY DEF NumbersOfFirst
    <2>3. 1 .. 0 = {} /\ 1 .. 1 - 1 = {}
      OBVIOUS
    <2>4. 1 <= MaxFieldNumber + 1 /\ 1 >= 1
      BY BoundsAssumption
    <2>5. ListInv(count, s, n, 0, w[0])
      BY <2>1, <2>2, <2>3, <2>4 DEF ListInv
    <2>. QED  BY <1>2, <2>5
  <1>6. ASSUME NEW k \in 1 .. n, k - 1 \in P PROVE k \in P
    <2>1. w[k - 1] \in ListsUpTo(count) /\ ListInv(count, s, n, k - 1, w[k - 1]) /\ k \in 0 .. n
      BY <1>2, <1>4, <1>6
    <2>2. ListInv(count, s, n, k, Before(count, w[k - 1], s[k]))
      BY <1>2, <1>3, <2>1, ListStep
    <2>. QED  BY <1>4, <2>1, <2>2
  <1>7. ListInv(count, s, n, n, end) /\ end \in ListsUpTo(count)
    <2>1. \A k \in 0 .. n : k \in P
      <3>. HIDE DEF P
      <3>. QED  BY <1>2, <1>5, <1>6, UpTo
    <2>2. n \in 0 .. n
      BY <1>2
    <2>. QED  BY <1>4, <2>1, <2>2
  <1>8. NumbersOfFirst(s, n) = NumbersOf(R)
    BY <1>2 DEF NumbersOfFirst, NumbersOf
  <1>. DEFINE p == end.parts
              U == NumbersOf(R)
              L == Len(p)
              left == (1 .. MaxFieldNumber) \ U
  <1>9. /\ p \in Seq(Int) /\ L \in Nat /\ L <= count /\ \A i \in 1 .. L : p[i] \in Int
        /\ end.current \in Int
    BY <1>7 DEF ListsUpTo
  <1>10. /\ end.current <= MaxFieldNumber + 1
         /\ \A j \in U : j < end.current
         /\ \A i \in 1 .. L : 1 <= p[i] /\ p[i] < end.current /\ p[i] \notin U
         /\ \A i, j \in 1 .. L : i < j => p[i] < p[j]
         /\ L < count => \A q \in (1 .. end.current - 1) \ U : \E i \in 1 .. L : p[i] = q
         /\ \A q \in Nat \ U :
               q >= 1 /\ (\E j \in 1 .. L : q < p[j]) => \E i \in 1 .. L : p[i] = q
    BY <1>7, <1>8 DEF ListInv
  <1>. HIDE DEF p, U, L
  <1>11. MaxFieldNumber \in Nat /\ end.current = MaxFieldNumber + 1
    <2>1. MaxFieldNumber \in U
      BY DEF U
    <2>2. MaxFieldNumber < end.current /\ end.current <= MaxFieldNumber + 1 /\ end.current \in Int
      BY <1>9, <1>10, <2>1
    <2>3. MaxFieldNumber \in Nat
      BY BoundsAssumption
    <2>. QED  BY <2>2, <2>3
  <1>12. \A i \in 1 .. L : p[i] \in left
    BY <1>9, <1>10, <1>11
  <1>13. ASSUME NEW q \in left, L < count \/ (\E j \in 1 .. L : q < p[j])
         PROVE  \E i \in 1 .. L : p[i] = q
    <2>1. q \in Nat \ U /\ q >= 1 /\ q \in (1 .. end.current - 1) \ U
      BY <1>11
    <2>. QED  BY <1>10, <1>13, <2>1
  <1>. HIDE DEF left
  <1>14. Lowest(left, p, count)
    BY <1>9, <1>10, <1>12, <1>13 DEF Lowest, L
  <1>. QED  BY <1>14 DEF p, U, left, end, s

-------------------------------------------------------------------------------
(* The ranges of a message. *)

\* There are finitely many ranges between bounds.
LEMMA FiniteRanges ==
    ASSUME NEW low \in Int, NEW high \in Int, NEW R,
           \A r \in R : r \in [from : low .. high, to : low .. high]
    PROVE  IsFiniteSet(R)
  <1>. DEFINE D == low .. high
              pairs == D \X D
              F == [x \in pairs |-> [from |-> x[1], to |-> x[2]]]
              T == [from : D, to : D]
  <1>1. IsFiniteSet(D)
    BY FS_Interval
  <1>2. IsFiniteSet(pairs)
    <2>. HIDE DEF D
    <2>. QED  BY <1>1, FS_Product
  <1>3. F \in Surjection(pairs, T)
    <2>. HIDE DEF D
    <2>1. F \in [pairs -> T]
      OBVIOUS
    <2>2. \A t \in T : \E x \in pairs : F[x] = t
      <3>. SUFFICES ASSUME NEW t \in T PROVE \E x \in pairs : F[x] = t
        OBVIOUS
      <3>1. <<t.from, t.to>> \in pairs /\ F[<<t.from, t.to>>] = t
        OBVIOUS
      <3>. QED  BY <3>1
    <2>. HIDE DEF F, pairs, T
    <2>. QED  BY <2>1, <2>2 DEF Surjection
  <1>4. IsFiniteSet(T)
    <2>. HIDE DEF F, pairs, T
    <2>. QED  BY <1>2, <1>3, FS_Surjection
  <1>5. R \in SUBSET T
    OBVIOUS
  <1>. HIDE DEF T
  <1>. QED  BY <1>4, <1>5, FS_Subset

LEMMA FiniteHalf ==
    ASSUME NEW R \in SUBSET Half
    PROVE  IsFiniteSet(R)
  <1>1. MaxInt \in Nat
    BY BoundsAssumption
  <1>2. \A r \in R : r \in [from : -(MaxInt + 1) .. MaxInt, to : -(MaxInt + 1) .. MaxInt]
    BY <1>1 DEF Half
  <1>. QED  BY <1>1, <1>2, FiniteRanges

LEMMA FiniteFilled ==
    ASSUME NEW R \in SUBSET Filled
    PROVE  IsFiniteSet(R)
  <1>1. MaxFieldNumber \in Nat
    BY BoundsAssumption
  <1>2. \A r \in R : r \in [from : 0 .. MaxFieldNumber + 1, to : 0 .. MaxFieldNumber + 1]
    BY <1>1 DEF Filled, AnyRange
  <1>. QED  BY <1>1, <1>2, FiniteRanges

LEMMA UnionOfConcat ==
    ASSUME NEW S, NEW s \in Seq(SUBSET S), NEW t \in Seq(SUBSET S)
    PROVE  \A q : q \in UNION Numbers!Range(s \o t)
                     <=> q \in UNION Numbers!Range(s) \/ q \in UNION Numbers!Range(t)
  <1>1. PICK u : u = s \o t
    OBVIOUS
  <1>2. /\ \A i \in DOMAIN s : i \in DOMAIN u /\ u[i] = s[i]
        /\ \A j \in DOMAIN t : Len(s) + j \in DOMAIN u /\ u[Len(s) + j] = t[j]
        /\ \A k \in DOMAIN u : k \in DOMAIN s \/ \E j \in DOMAIN t : k = Len(s) + j
    BY <1>1, ConcatParts
  <1>3. \A q : q \in UNION Numbers!Range(u)
                  <=> q \in UNION Numbers!Range(s) \/ q \in UNION Numbers!Range(t)
    BY <1>2 DEF Numbers!Range
  <1>. QED  BY <1>1, <1>3

SpentNumbers(m) == UNION Numbers!Range(Numbers!Spent(m))
RangesOf(m) == Numbers!Range(Reserved(m)) \cup Numbers!Range(Extensions(m))

LEMMA SpentAre ==
    ASSUME Numbers!IsJob(job), NEW m \in Msgs, Reserved(m) \in Seq(Half), Extensions(m) \in Seq(Half)
    PROVE  \A q : q \in SpentNumbers(m)
                     <=> \/ \E i \in DOMAIN Numbers!Fields(m) : q = NumberAt(m, i)
                         \/ \E r \in RangesOf(m) : q \in Numbers!Numbers(r)
  <1>. DEFINE A == FieldSets(m)
              B == RangeSets(Reserved(m))
              C == RangeSets(Extensions(m))
  <1>1. A \in Seq(SUBSET Int) /\ B \in Seq(SUBSET Int) /\ C \in Seq(SUBSET Int)
    BY FieldSetsMeet, RangeSetsMeet
  <1>2. Numbers!Spent(m) = (A \o B) \o C
    BY DEF Numbers!Spent, FieldSets, RangeSets, NumberAt, Reserved, Extensions
  <1>3. \A q : q \in UNION Numbers!Range(A) <=> \E i \in DOMAIN Numbers!Fields(m) : q = NumberAt(m, i)
    BY DEF FieldSets, Numbers!Range
  <1>4. \A q : q \in UNION Numbers!Range(B) <=> \E r \in Numbers!Range(Reserved(m)) : q \in Numbers!Numbers(r)
    BY DEF RangeSets, Numbers!Range
  <1>5. \A q : q \in UNION Numbers!Range(C) <=> \E r \in Numbers!Range(Extensions(m)) : q \in Numbers!Numbers(r)
    BY DEF RangeSets, Numbers!Range
  <1>. HIDE DEF A, B, C
  <1>6. PICK D \in Seq(SUBSET Int) : D = A \o B
    BY <1>1, ConcatParts
  <1>7. \A q : q \in UNION Numbers!Range(D)
                  <=> q \in UNION Numbers!Range(A) \/ q \in UNION Numbers!Range(B)
    BY <1>1, <1>6, UnionOfConcat
  <1>8. \A q : q \in UNION Numbers!Range(D \o C)
                  <=> q \in UNION Numbers!Range(D) \/ q \in UNION Numbers!Range(C)
    BY <1>1, UnionOfConcat
  <1>9. SpentNumbers(m) = UNION Numbers!Range(D \o C)
    BY <1>2, <1>6 DEF SpentNumbers
  <1>. QED  BY <1>3, <1>4, <1>5, <1>7, <1>8, <1>9 DEF RangesOf

LEMMA UsedAre ==
    ASSUME Numbers!IsJob(job), NEW m \in Msgs, Reserved(m) \in Seq(Half), Extensions(m) \in Seq(Half),
           \A i \in DOMAIN Numbers!Fields(m) : NumberAt(m, i) \in 1 .. MaxFieldNumber
    PROVE  UsedRanges(m) \in SUBSET Half /\ NumbersOf(UsedRanges(m)) = SpentNumbers(m)
  <1>1. MaxInt \in Nat /\ MaxFieldNumber \in Nat /\ MaxFieldNumber + 1 < MaxInt
    BY BoundsAssumption
  <1>2. \A n \in 1 .. MaxFieldNumber :
           Numbers!Single(n) \in Half /\ \A q : q \in Numbers!Numbers(Numbers!Single(n)) <=> q = n
    BY <1>1 DEF Numbers!Single, Half, Numbers!Numbers
  <1>3. \A x : x \in UsedRanges(m)
                  <=> \/ \E i \in DOMAIN Numbers!Fields(m) : x = Numbers!Single(NumberAt(m, i))
                      \/ x \in RangesOf(m)
    BY DEF UsedRanges, RangesOf, Numbers!Range, NumberAt
  <1>4. \A r \in RangesOf(m) : r \in Half
    BY RangeFacts DEF RangesOf
  <1>5. UsedRanges(m) \in SUBSET Half
    BY <1>2, <1>3, <1>4
  <1>6. \A q : q \in NumbersOf(UsedRanges(m))
                  <=> \/ \E i \in DOMAIN Numbers!Fields(m) : q = NumberAt(m, i)
                      \/ \E r \in RangesOf(m) : q \in Numbers!Numbers(r)
    <2>1. \A q : q \in NumbersOf(UsedRanges(m))
                    <=> \E x \in UsedRanges(m) : q \in Numbers!Numbers(x)
      BY DEF NumbersOf
    <2>. QED  BY <1>2, <1>3, <2>1
  <1>. QED  BY <1>5, <1>6, SpentAre

\* The numbers of the extensions in the scope of a message.
ScopedNumbers(m) == {x.number : x \in {y \in Numbers!Range(Numbers!Ext) : y.scope = m}}

LEMMA TakenAre ==
    ASSUME Numbers!IsJob(job), NEW m \in Msgs, Reserved(m) \in Seq(Half), Extensions(m) \in Seq(Half)
    PROVE  /\ Numbers!Taken(m) \in SUBSET Filled
           /\ \A q \in 1 .. MaxFieldNumber :
                 q \in NumbersOf(Numbers!Taken(m))
                    <=> \/ q \in SpentNumbers(m) \cup ScopedNumbers(m)
                        \/ q = MaxFieldNumber \/ q \in FirstReserved .. LastReserved
  <1>. DEFINE given == {f.number : f \in Numbers!Range(Numbers!Fields(m))} \cup ScopedNumbers(m)
              legal == {k \in given : 0 < k /\ k <= MaxFieldNumber}
              Cut(r) == [from |-> Numbers!Between(r.from, 0, MaxFieldNumber + 1),
                         to |-> Numbers!Between(r.to, 0, MaxFieldNumber + 1)]
              cut == {Cut(r) : r \in RangesOf(m)}
              kept == [from |-> FirstReserved, to |-> LastReserved + 1]
  <1>1. /\ MaxInt \in Nat /\ MaxFieldNumber \in Nat /\ MaxFieldNumber + 1 < MaxInt
        /\ FirstReserved \in Nat /\ LastReserved \in Nat /\ 2 < FirstReserved
        /\ FirstReserved <= LastReserved /\ LastReserved < MaxFieldNumber
    BY BoundsAssumption
  <1>2. Numbers!Taken(m) = {Numbers!Single(n) : n \in legal} \cup {r \in cut : r.from < r.to}
                              \cup {Numbers!Single(MaxFieldNumber), kept}
    BY DEF Numbers!Taken, RangesOf, Reserved, Extensions, ScopedNumbers
  <1>3. \A n \in 1 .. MaxFieldNumber :
           Numbers!Single(n) \in Filled /\ \A q : q \in Numbers!Numbers(Numbers!Single(n)) <=> q = n
    BY <1>1 DEF Numbers!Single, Filled, AnyRange, Numbers!Numbers
  <1>4. legal \subseteq 1 .. MaxFieldNumber
    <2>1. \A f \in Numbers!Range(Numbers!Fields(m)) : f.number \in Int
      BY JobFacts DEF NumberAt
    <2>2. \A x \in Numbers!Range(Numbers!Ext) : x.number \in Int
      BY DEF Numbers!IsJob, Numbers!Ext
    <2>3. given \subseteq Int
      BY <2>1, <2>2 DEF ScopedNumbers
    <2>. HIDE DEF given
    <2>4. ASSUME NEW k \in legal PROVE k \in 1 .. MaxFieldNumber
      <3>1. k \in Int /\ 0 < k /\ k <= MaxFieldNumber
        BY <2>3
      <3>. QED  BY <1>1, <3>1
    <2>. QED  BY <2>4
  <1>5. \A r \in RangesOf(m) : r \in Half
    BY RangeFacts DEF RangesOf
  <1>6. ASSUME NEW r \in Half
        PROVE  /\ Cut(r).from < Cut(r).to => Cut(r) \in Filled
               /\ \A q \in 1 .. MaxFieldNumber :
                     /\ q \in Numbers!Numbers(Cut(r)) <=> q \in Numbers!Numbers(r)
                     /\ q \in Numbers!Numbers(Cut(r)) => Cut(r).from < Cut(r).to
    <2>1. r.from \in Int /\ r.to \in Int
      BY DEF Half
    <2>. QED  BY <1>1, <2>1 DEF Filled, AnyRange, Numbers!Between, Numbers!Numbers
  <1>7. kept \in Filled /\ \A q : q \in Numbers!Numbers(kept) <=> q \in FirstReserved .. LastReserved
    BY <1>1 DEF Filled, AnyRange, Numbers!Numbers
  <1>8. Numbers!Single(MaxFieldNumber) \in Filled
        /\ \A q : q \in Numbers!Numbers(Numbers!Single(MaxFieldNumber)) <=> q = MaxFieldNumber
    BY <1>1, <1>3
  <1>9. \A x : x \in cut <=> \E r \in RangesOf(m) : x = Cut(r)
    OBVIOUS
  <1>. HIDE DEF Cut, cut, kept
  <1>10. Numbers!Taken(m) \in SUBSET Filled
    <2>1. \A n \in legal : Numbers!Single(n) \in Filled
      <3>. HIDE DEF legal
      <3>. QED  BY <1>3, <1>4
    <2>2. \A x \in cut : x.from < x.to => x \in Filled
      BY <1>5, <1>6, <1>9
    <2>. HIDE DEF legal
    <2>. QED  BY <1>2, <1>7, <1>8, <2>1, <2>2
  <1>11. ASSUME NEW q \in 1 .. MaxFieldNumber
         PROVE  q \in NumbersOf(Numbers!Taken(m))
                   <=> \/ q \in given \/ \E r \in RangesOf(m) : q \in Numbers!Numbers(r)
                       \/ q = MaxFieldNumber \/ q \in FirstReserved .. LastReserved
    <2>1. q \in NumbersOf(Numbers!Taken(m)) <=> \E x \in Numbers!Taken(m) : q \in Numbers!Numbers(x)
      BY DEF NumbersOf
    <2>2. (\E x \in {Numbers!Single(n) : n \in legal} : q \in Numbers!Numbers(x)) <=> q \in given
      <3>1. q \in given <=> q \in legal
        BY <1>1
      <3>. HIDE DEF legal, given
      <3>. QED  BY <1>3, <1>4, <3>1
    <2>3. (\E x \in {r \in cut : r.from < r.to} : q \in Numbers!Numbers(x))
             <=> \E r \in RangesOf(m) : q \in Numbers!Numbers(r)
      BY <1>5, <1>6, <1>9
    <2>. HIDE DEF legal, given
    <2>. QED  BY <1>2, <1>7, <1>8, <2>1, <2>2, <2>3
  <1>12. \A q : q \in given
                  <=> \/ \E i \in DOMAIN Numbers!Fields(m) : q = NumberAt(m, i)
                      \/ q \in ScopedNumbers(m)
    BY DEF Numbers!Range, NumberAt
  <1>. HIDE DEF given
  <1>. QED  BY <1>10, <1>11, <1>12, SpentAre

-------------------------------------------------------------------------------
(* What validators ask for. *)

\* The sizes of the ranges that are not positive add up to a number.
LEMMA AskedIsNumber ==
    ASSUME NEW m, Extensions(m) \in Seq(Half)
    PROVE  /\ Numbers!AskedForRanges(m) \in Nat
           /\ Numbers!NotPositive(m) = {} => Numbers!AskedForRanges(m) = 0
  <1>. DEFINE X == Extensions(m)
              S == Numbers!NotPositive(m)
              w == [i \in DOMAIN X |-> Numbers!SizeOfRange(X[i])]
  <1>1. /\ Len(X) \in Nat /\ DOMAIN X = 1 .. Len(X) /\ \A i \in DOMAIN X : X[i] \in Half
    BY RangeFacts
  <1>2. S \in SUBSET DOMAIN X
    BY DEF Numbers!NotPositive, Extensions
  <1>3. IsFiniteSet(S)
    <2>1. IsFiniteSet(1 .. Len(X))
      BY <1>1, FS_Interval
    <2>. HIDE DEF S, X
    <2>. QED  BY <1>1, <1>2, <2>1, FS_Subset
  <1>4. \A i \in S : w[i] \in Nat
    <2>1. \A r \in Half : Numbers!SizeOfRange(r) \in Nat
      <3>1. MaxFieldNumber \in Nat
        BY BoundsAssumption
      <3>2. ASSUME NEW r \in Half PROVE r.from \in Int /\ r.to \in Int
        BY DEF Half
      <3>. QED  BY <3>1, <3>2 DEF Numbers!SizeOfRange, Numbers!Between
    <2>. HIDE DEF S, X
    <2>. QED  BY <1>1, <1>2, <2>1
  <1>5. Numbers!AskedForRanges(m) = SumOver(w, S)
    <2>1. Numbers!AskedForRanges(m)
             = (CHOOSE g : g = [s \in SUBSET S |->
                                  IF s = {} THEN 0
                                  ELSE Numbers!SizeOfRange(X[Chosen(s)]) + g[s \ {Chosen(s)}]])[S]
      BY DEF Numbers!AskedForRanges, Numbers!MapThenSumSet, Numbers!MapThenFoldSet, Chosen, Extensions
    <2>2. \A s \in SUBSET S : s # {} => Numbers!SizeOfRange(X[Chosen(s)]) = w[Chosen(s)]
      <3>1. \A s \in SUBSET S : s # {} => Chosen(s) \in DOMAIN X
        <4>. HIDE DEF S, X
        <4>. QED  BY <1>2, ChosenInSet
      <3>. QED  BY <3>1
    <2>. DEFINE One(g) == g = [s \in SUBSET S |->
                                 IF s = {} THEN 0
                                 ELSE Numbers!SizeOfRange(X[Chosen(s)]) + g[s \ {Chosen(s)}]]
    <2>3. \A g : One(g) <=> Sums(w, S, g)
      <3>. HIDE DEF w, S, X
      <3>. QED  BY <2>2 DEF Sums
    <2>4. (CHOOSE g : One(g)) = (CHOOSE g : Sums(w, S, g))
      <3>. HIDE DEF One, w, S
      <3>. QED  BY <2>3
    <2>. HIDE DEF w, S
    <2>. QED  BY <2>1, <2>4, SumOverDef DEF S
  <1>6. Numbers!NotPositive(m) = S
    OBVIOUS
  <1>. HIDE DEF w, S
  <1>7. S = {} => SumOver(w, S) = 0
    BY <1>3, SumOverEquation
  <1>. QED  BY <1>3, <1>4, <1>5, <1>6, <1>7, SumOverType

-------------------------------------------------------------------------------
(* What is suggested and printed, throughout a compilation. *)

\* The legal numbers that a message, and the extensions in it, leave; the last is not offered.
LeftOf(m) ==
    (1 .. MaxFieldNumber - 1)
        \ ((FirstReserved .. LastReserved) \cup SpentNumbers(m) \cup ScopedNumbers(m))
AreLowest(m, p, count) == Lowest(LeftOf(m), p, count)

\* What is printed is what the message leaves.
IsRest(m, list) ==
    UNION {Numbers!Numbers(r) : r \in Numbers!Range(list)}
      = {n \in (1 .. MaxInt) \ SpentNumbers(m) : n <= MaxFieldNumber \/ \E k \in SpentNumbers(m) : n < k}

Wanted(m) == Numbers!Between(hints[m], 0, MaxSuggestions)

\* Numbers are wanted for messages that are named only; those suggested are the lowest left.
AskInv ==
    /\ hints \in [Msgs -> 0 .. MaxFieldNumber]
    /\ \A m \in Msgs : hints[m] > 0 => m \in Numbers!Named
    /\ at <= 14 => suggestions = [m \in Msgs |-> <<>>]
    /\ at > 14 => \A m \in Msgs : AreLowest(m, suggestions[m], Wanted(m))
    /\ outcome = "printed" => \A m \in Msgs : IsRest(m, printed[m])

\* What is left goes by the files and their descriptors alone.
LEMMA LeftStays ==
    ASSUME job' = job, parsed' = parsed
    PROVE  /\ Msgs' = Msgs
           /\ \A m : SpentNumbers(m)' = SpentNumbers(m)
           /\ \A m : LeftOf(m)' = LeftOf(m)
  <1>1. ASSUME NEW m PROVE SpentNumbers(m)' = SpentNumbers(m)
    BY DEF SpentNumbers, Numbers!Spent, Numbers!Fields
  <1>2. ASSUME NEW m PROVE ScopedNumbers(m)' = ScopedNumbers(m)
    BY DEF ScopedNumbers, Numbers!Ext
  <1>3. ASSUME NEW m PROVE LeftOf(m)' = LeftOf(m)
    BY <1>1, <1>2 DEF LeftOf
  <1>4. Msgs' = Msgs
    BY DEF Msgs, Numbers!Messages
  <1>. QED  BY <1>1, <1>3, <1>4

LEMMA AskInit == Init => AskInv
  <1>. SUFFICES ASSUME Init PROVE AskInv
    OBVIOUS
  <1>1. /\ at = 0 /\ outcome = "running"
        /\ hints = [m \in Msgs |-> 0] /\ suggestions = [m \in Msgs |-> <<>>]
    BY DEF Init, Numbers!Init, Msgs
  <1>2. MaxFieldNumber \in Nat
    BY BoundsAssumption
  <1>. QED  BY <1>1, <1>2 DEF AskInv

LEMMA AskStays ==
    ASSUME AskInv, UNCHANGED <<job, at, parsed, errors, hints, suggestions>>,
           outcome' = "printed" => outcome = "printed" /\ printed' = printed
    PROVE  AskInv'
  <1>1. Numbers!Named' = Numbers!Named
    BY DEF Numbers!Named
  <1>2. Msgs' = Msgs
    BY LeftStays
  <1>3. ASSUME NEW m, NEW p, NEW count, NEW list
        PROVE  /\ AreLowest(m, p, count) => AreLowest(m, p, count)'
               /\ IsRest(m, list) => IsRest(m, list)'
    BY LeftStays DEF AreLowest, IsRest
  <1>4. \A m : Wanted(m)' = Wanted(m)
    BY DEF Wanted
  <1>. QED  BY <1>1, <1>2, <1>3, <1>4 DEF AskInv

\* A validator asks for numbers only for those it names, and not after the suggestions.
LEMMA AskStep ==
    ASSUME AskInv, NEW v, NEW wrong, NEW request, Numbers!ReportAndAsk(v, wrong, request),
           at \in Int, at # 14, outcome = "running",
           \A m \in Msgs : request[m] \in Nat /\ (request[m] # 0 => m \in wrong /\ at < 14)
    PROVE  AskInv'
  <1>1. /\ at' = at + 1 /\ outcome' = "running"
        /\ UNCHANGED <<job, parsed, suggestions>>
        /\ errors' = errors \cup {[what |-> v, of |-> x] : x \in wrong}
        /\ hints' = [m \in Msgs |-> Numbers!Between(hints[m] + request[m], 0, MaxFieldNumber)]
    BY DEF Numbers!ReportAndAsk, Msgs
  <1>2. MaxFieldNumber \in Nat
    BY BoundsAssumption
  <1>3. Msgs' = Msgs /\ \A m : LeftOf(m)' = LeftOf(m)
    BY <1>1, LeftStays
  <1>4. ASSUME NEW m \in Msgs
        PROVE  /\ hints'[m] \in 0 .. MaxFieldNumber
               /\ hints'[m] > 0 => m \in Numbers!Named'
               /\ at > 14 => hints'[m] = hints[m]
    <2>1. hints[m] \in 0 .. MaxFieldNumber
      BY DEF AskInv
    <2>2. hints'[m] = Numbers!Between(hints[m] + request[m], 0, MaxFieldNumber)
      BY <1>1
    <2>3. PICK h \in 0 .. MaxFieldNumber, a \in Nat : h = hints[m] /\ a = request[m]
      BY <2>1
    <2>4. Numbers!Between(h + a, 0, MaxFieldNumber) \in 0 .. MaxFieldNumber
      BY <1>2 DEF Numbers!Between
    <2>5. a = 0 => Numbers!Between(h + a, 0, MaxFieldNumber) = h
      BY <1>2 DEF Numbers!Between
    <2>6. m \in Numbers!Named \/ m \in wrong => m \in Numbers!Named'
      <3>1. ASSUME m \in Numbers!Named PROVE m \in Numbers!Named'
        BY <1>1, <3>1 DEF Numbers!Named
      <3>2. ASSUME m \in wrong PROVE m \in Numbers!Named'
        <4>1. [what |-> v, of |-> m] \in errors' /\ [what |-> v, of |-> m].of = m
          BY <1>1, <3>2
        <4>. QED  BY <4>1 DEF Numbers!Named
      <3>. QED  BY <3>1, <3>2
    <2>7. h > 0 => m \in Numbers!Named
      BY <2>3 DEF AskInv
    <2>8. a # 0 => m \in wrong /\ at < 14
      BY <2>3
    <2>9. h = 0 \/ h > 0
      OBVIOUS
    <2>10. hints'[m] > 0 => h > 0 \/ a # 0
      BY <2>2, <2>3, <2>5
    <2>11. at > 14 => a = 0
      BY <2>8
    <2>. QED  BY <2>2, <2>3, <2>4, <2>5, <2>6, <2>7, <2>8, <2>10, <2>11
  <1>5. hints' \in [Msgs -> 0 .. MaxFieldNumber]
    BY <1>1, <1>4
  <1>6. ASSUME NEW m, NEW p, NEW count
        PROVE  AreLowest(m, p, count) => AreLowest(m, p, count)'
    BY <1>3 DEF AreLowest
  <1>7. ASSUME at > 14, NEW m \in Msgs PROVE Wanted(m)' = Wanted(m)
    BY <1>4, <1>7 DEF Wanted
  <1>8. at' > 14 => at > 14
    BY <1>1
  <1>9. ASSUME at' > 14, NEW m \in Msgs
        PROVE  AreLowest(m, suggestions[m], Wanted(m))'
    <2>1. AreLowest(m, suggestions[m], Wanted(m)) /\ Wanted(m)' = Wanted(m) /\ suggestions' = suggestions
      BY <1>1, <1>7, <1>8, <1>9 DEF AskInv
    <2>. QED  BY <1>6, <2>1
  <1>10. at' <= 14 => suggestions' = [m \in Msgs |-> <<>>]'
    BY <1>1, <1>3 DEF AskInv
  <1>. QED  BY <1>1, <1>3, <1>4, <1>5, <1>9, <1>10 DEF AskInv

LEMMA TurnsAre ==
    ASSUME NEW v, Numbers!Turn(v)
    PROVE  /\ at \in 1 .. 23 /\ outcome = "running"
           /\ v \in {"ExtRangePositive", "PositiveFieldNumbers", "MaxFieldNumbers",
                     "ReservedNumberConflicts", "ExtensionFieldConflicts"} => at < 14
           /\ v = "Suggestions" <=> at = 14
  <1>1. at \in 1 .. 23 /\ Numbers!Validators[at] = v /\ outcome = "running"
    BY ValidatorsAre DEF Numbers!Turn
  <1>2. /\ \A i \in 1 .. 23 : Numbers!Validators[i] = "Suggestions" <=> i = 14
        /\ \A i \in 1 .. 23 : i >= 14 =>
              Numbers!Validators[i] \notin {"ExtRangePositive", "PositiveFieldNumbers", "MaxFieldNumbers",
                     "ReservedNumberConflicts", "ExtensionFieldConflicts"}
    BY DEF Numbers!Validators
  <1>3. at < 14 \/ at >= 14
    BY <1>1
  <1>. QED  BY <1>1, <1>2, <1>3

LEMMA ReportAsksNothing ==
    ASSUME AskInv, NEW v, NEW wrong, Numbers!Report(v, wrong), v # "Suggestions"
    PROVE  AskInv'
  <1>. DEFINE request == [m \in Msgs |-> 0]
  <1>1. Numbers!ReportAndAsk(v, wrong, request)
    BY DEF Numbers!Report, Msgs
  <1>2. at \in Int /\ at # 14 /\ outcome = "running"
    BY <1>1, TurnsAre DEF Numbers!ReportAndAsk
  <1>3. \A m \in Msgs : request[m] = 0
    OBVIOUS
  <1>. HIDE DEF request
  <1>4. \A m \in Msgs : request[m] \in Nat /\ (request[m] # 0 => m \in wrong /\ at < 14)
    BY <1>3
  <1>. QED  BY <1>1, <1>2, <1>4, AskStep

\* As many numbers are asked for as there are fields with the mistake.
LEMMA FieldsAskSome ==
    ASSUME AskInv, Numbers!IsJob(job), NEW v, NEW W \in SUBSET Numbers!CheckedFields, NEW others,
           Numbers!ReportFields(v, W, others),
           v \in {"PositiveFieldNumbers", "MaxFieldNumbers", "ReservedNumberConflicts",
                  "ExtensionFieldConflicts"}
    PROVE  AskInv'
  <1>. DEFINE request == [m \in Msgs |-> Numbers!Cardinality({k \in W : k[1] = m})]
              wrong == {k[1] : k \in W} \cup others
  <1>1. Numbers!ReportAndAsk(v, wrong, request)
    BY DEF Numbers!ReportFields, Msgs
  <1>2. at \in Int /\ at < 14 /\ at # 14 /\ outcome = "running"
    BY <1>1, TurnsAre DEF Numbers!ReportAndAsk
  <1>3. ASSUME NEW m \in Msgs
        PROVE  request[m] \in Nat /\ (request[m] # 0 => m \in wrong)
    <2>. DEFINE K == {k \in W : k[1] = m}
                F == Numbers!Fields(m)
    <2>1. Len(F) \in Nat /\ DOMAIN F = 1 .. Len(F)
      <3>1. Numbers!IsSequence(F)
        BY <1>3 DEF Numbers!IsJob, Numbers!IsMessage, Numbers!Fields, Msgs, Numbers!Messages
      <3>. QED  BY <3>1, SequenceFacts
    <2>2. K \in SUBSET ({m} \X DOMAIN F)
      <3>1. ASSUME NEW k \in K PROVE k \in {m} \X DOMAIN F
        <4>1. k \in Numbers!CheckedFields /\ k[1] = m
          OBVIOUS
        <4>2. PICK o \in Numbers!Checked : k \in {o} \X DOMAIN Numbers!Fields(o)
          BY <4>1 DEF Numbers!CheckedFields
        <4>3. o = m
          BY <4>1, <4>2
        <4>. QED  BY <4>2, <4>3
      <3>. QED  BY <3>1
    <2>3. IsFiniteSet(K)
      <3>1. IsFiniteSet(DOMAIN F)
        BY <2>1, FS_Interval
      <3>2. IsFiniteSet({m})
        BY FS_Singleton
      <3>3. IsFiniteSet({m} \X DOMAIN F)
        BY <3>1, <3>2, FS_Product
      <3>. QED  BY <2>2, <3>3, FS_Subset
    <2>4. Cardinality(K) \in Nat /\ (K = {} => Cardinality(K) = 0)
      BY <2>3, FS_CardinalityType, FS_EmptySet
    <2>5. request[m] = Numbers!Cardinality(K)
      BY <1>3
    <2>6. Numbers!Cardinality(K) = Cardinality(K)
      BY CardinalitySame
    <2>7. K # {} => m \in wrong
      OBVIOUS
    <2>. HIDE DEF K, request, wrong
    <2>. QED  BY <2>4, <2>5, <2>6, <2>7
  <1>. HIDE DEF request, wrong
  <1>4. \A m \in Msgs : request[m] \in Nat /\ (request[m] # 0 => m \in wrong /\ at < 14)
    BY <1>2, <1>3
  <1>. QED  BY <1>1, <1>2, <1>4, AskStep

LEMMA RangesAskSome ==
    ASSUME AskInv, ParsedInv, Numbers!ExtRangePositive
    PROVE  AskInv'
  <1>. DEFINE v == "ExtRangePositive"
              wrong == {m \in Numbers!Checked : Numbers!NotPositive(m) # {}}
              request == [m \in Msgs |-> IF m \in Numbers!Checked THEN Numbers!AskedForRanges(m) ELSE 0]
  <1>1. Numbers!ReportAndAsk(v, wrong, request)
    BY DEF Numbers!ExtRangePositive, Msgs
  <1>2. at \in Int /\ at < 14 /\ at # 14 /\ outcome = "running"
    BY <1>1, TurnsAre DEF Numbers!ReportAndAsk
  <1>3. ASSUME NEW m \in Msgs
        PROVE  request[m] \in Nat /\ (request[m] # 0 => m \in wrong)
    <2>1. /\ Numbers!AskedForRanges(m) \in Nat
          /\ Numbers!NotPositive(m) = {} => Numbers!AskedForRanges(m) = 0
      BY <1>3, AskedIsNumber DEF ParsedInv
    <2>. QED  BY <2>1
  <1>. HIDE DEF request, wrong
  <1>4. \A m \in Msgs : request[m] \in Nat /\ (request[m] # 0 => m \in wrong /\ at < 14)
    BY <1>2, <1>3
  <1>. QED  BY <1>1, <1>2, <1>4, AskStep

LEMMA SuggestAsks ==
    ASSUME AskInv, Numbers!IsJob(job), ParsedInv, Numbers!Suggest
    PROVE  AskInv'
  <1>1. /\ at = 14 /\ at' = at + 1 /\ outcome = "running"
        /\ UNCHANGED <<job, parsed, errors, hints, outcome>>
        /\ suggestions' = [m \in Msgs |-> Numbers!suggestFieldNumbers(m, Wanted(m))]
    BY TurnsAre DEF Numbers!Suggest, Msgs, Wanted
  <1>2. Msgs' = Msgs /\ \A m : LeftOf(m)' = LeftOf(m)
    BY <1>1, LeftStays
  <1>3. Numbers!Named' = Numbers!Named
    BY <1>1 DEF Numbers!Named
  <1>4. ASSUME NEW m \in Msgs
        PROVE  AreLowest(m, Numbers!suggestFieldNumbers(m, Wanted(m)), Wanted(m))
    <2>1. PICK count : count = Wanted(m)
      OBVIOUS
    <2>2. count \in Nat
      <3>1. hints[m] \in Nat
        <4>1. MaxFieldNumber \in Nat
          BY BoundsAssumption
        <4>2. hints[m] \in 0 .. MaxFieldNumber
          BY DEF AskInv
        <4>. QED  BY <4>1, <4>2
      <3>2. MaxSuggestions \in Nat
        BY BoundsAssumption
      <3>. QED  BY <2>1, <3>1, <3>2 DEF Wanted, Numbers!Between
    <2>3. PICK R : R = Numbers!Taken(m)
      OBVIOUS
    <2>4. /\ Reserved(m) \in Seq(Half) /\ Extensions(m) \in Seq(Half)
      BY DEF ParsedInv
    <2>5. /\ R \in SUBSET Filled
          /\ \A q \in 1 .. MaxFieldNumber :
                q \in NumbersOf(R) <=> \/ q \in SpentNumbers(m) \cup ScopedNumbers(m)
                                       \/ q = MaxFieldNumber \/ q \in FirstReserved .. LastReserved
      BY <2>3, <2>4, TakenAre
    <2>6. IsFiniteSet(R)
      BY <2>5, FiniteFilled
    <2>7. MaxFieldNumber \in NumbersOf(R)
      <3>1. MaxFieldNumber \in 1 .. MaxFieldNumber
        BY BoundsAssumption
      <3>. QED  BY <2>5, <3>1
    <2>8. (1 .. MaxFieldNumber) \ NumbersOf(R) = LeftOf(m)
      <3>1. \A q : q \in 1 .. MaxFieldNumber - 1 <=> q \in 1 .. MaxFieldNumber /\ q # MaxFieldNumber
        BY BoundsAssumption
      <3>. QED  BY <2>5, <3>1 DEF LeftOf
    <2>9. PICK p : p = SuggestAll(count, Numbers!Sorted(R)).parts
      OBVIOUS
    <2>10. Numbers!suggestFieldNumbers(m, Wanted(m)) = p
      BY <2>1, <2>3, <2>9, SuggestsWalk
    <2>11. AreLowest(m, p, count)
      BY <2>2, <2>5, <2>6, <2>7, <2>8, <2>9, SuggestsLowest DEF AreLowest
    <2>. QED  BY <2>1, <2>10, <2>11
  <1>5. ASSUME NEW m, NEW p, NEW count
        PROVE  AreLowest(m, p, count) => AreLowest(m, p, count)'
    BY <1>2 DEF AreLowest
  <1>6. \A m : Wanted(m)' = Wanted(m)
    BY <1>1 DEF Wanted
  <1>7. ASSUME NEW m \in Msgs PROVE AreLowest(m, suggestions[m], Wanted(m))'
    <2>1. PICK p : p = suggestions'[m]
      OBVIOUS
    <2>2. AreLowest(m, p, Wanted(m))
      BY <1>1, <1>4, <2>1
    <2>. QED  BY <1>5, <1>6, <2>1, <2>2
  <1>. QED  BY <1>1, <1>2, <1>3, <1>7 DEF AskInv

\* In a compilation that is accepted, what is printed is what each message leaves.
LEMMA PrintsRest ==
    ASSUME NumInv, outcome = "accepted", NEW m \in Msgs
    PROVE  IsRest(m, Numbers!printFreeFieldNumbers(m))
  <1>1. at = 24 /\ errors = {} /\ Numbers!IsJob(job) /\ ParsedInv
    BY DEF NumInv, Numbers!Decided
  <1>2. Reserved(m) \in Seq(Half) /\ Extensions(m) \in Seq(Half)
    BY <1>1 DEF ParsedInv
  <1>3. Faulty("PositiveFieldNumbers") = {} /\ Faulty("MaxFieldNumbers") = {}
    <2>1. Numbers!Named = {}
      BY <1>1 DEF Numbers!Named
    <2>2. /\ 2 \in DOMAIN Numbers!Validators /\ 3 \in DOMAIN Numbers!Validators
          /\ Numbers!Validators[2] = "PositiveFieldNumbers" /\ Numbers!Validators[3] = "MaxFieldNumbers"
      BY DEF Numbers!Validators
    <2>3. \A i \in DOMAIN Numbers!Validators : i < at => Faulty(Numbers!Validators[i]) = {}
      BY <2>1 DEF NumInv
    <2>. QED  BY <1>1, <2>2, <2>3
  <1>4. ASSUME NEW i \in DOMAIN Numbers!Fields(m)
        PROVE  NumberAt(m, i) \in 1 .. MaxFieldNumber
    <2>1. PICK n \in Int : n = NumberAt(m, i)
      BY <1>1, JobFacts
    <2>2. MaxFieldNumber \in Nat /\ 2 <= MaxFieldNumber
      BY BoundsAssumption
    <2>3. CASE m \in Numbers!Checked
      <3>1. ~ (n <= 0) /\ ~ (n > MaxFieldNumber)
        BY <1>3, <2>1, <2>3 DEF Faulty
      <3>. QED  BY <2>1, <2>2, <3>1
    <2>4. CASE m \notin Numbers!Checked
      <3>1. n \in {1, 2}
        BY <1>1, <2>1, <2>4, JobFacts
      <3>. QED  BY <2>1, <2>2, <3>1
    <2>. QED  BY <2>3, <2>4
  <1>5. UsedRanges(m) \in SUBSET Half /\ NumbersOf(UsedRanges(m)) = SpentNumbers(m)
    BY <1>1, <1>2, <1>4, UsedAre
  <1>6. PICK R : R = UsedRanges(m)
    OBVIOUS
  <1>7. IsFiniteSet(R)
    BY <1>5, <1>6, FiniteHalf
  <1>8. PICK list : list = Printing(SkipAll(Numbers!Sorted(R)))
    OBVIOUS
  <1>9. Numbers!printFreeFieldNumbers(m) = list
    BY <1>6, <1>8, PrintsWalk DEF Printing
  <1>10. IsRest(m, list)
    BY <1>5, <1>6, <1>7, <1>8, PrintsWhatIsLeft DEF IsRest
  <1>. QED  BY <1>9, <1>10

LEMMA FieldValidatorsAsk ==
    ASSUME AskInv, Numbers!IsJob(job),
           \/ Numbers!PositiveFieldNumbers \/ Numbers!MaxFieldNumbers
           \/ Numbers!ReservedNumberConflicts \/ Numbers!ExtensionFieldConflicts
    PROVE  AskInv'
  <1>1. ASSUME NEW v, NEW W, NEW others, Numbers!ReportFields(v, W, others),
               W \subseteq Numbers!CheckedFields,
               v \in {"PositiveFieldNumbers", "MaxFieldNumbers", "ReservedNumberConflicts",
                      "ExtensionFieldConflicts"}
        PROVE  AskInv'
    BY <1>1, FieldsAskSome
  <1>2. CASE Numbers!PositiveFieldNumbers
    <2>. DEFINE W == {k \in Numbers!CheckedFields : Numbers!Number(k) <= 0}
    <2>1. Numbers!ReportFields("PositiveFieldNumbers", W, {}) /\ W \subseteq Numbers!CheckedFields
      BY <1>2 DEF Numbers!PositiveFieldNumbers
    <2>. HIDE DEF W
    <2>. QED  BY <1>1, <2>1
  <1>3. CASE Numbers!MaxFieldNumbers
    <2>. DEFINE W == {k \in Numbers!CheckedFields : Numbers!Number(k) > MaxFieldNumber}
                others == {x \in Numbers!Exts : Numbers!Ext[x].number > MaxFieldNumber}
    <2>1. Numbers!ReportFields("MaxFieldNumbers", W, others) /\ W \subseteq Numbers!CheckedFields
      BY <1>3 DEF Numbers!MaxFieldNumbers
    <2>. HIDE DEF W, others
    <2>. QED  BY <1>1, <2>1
  <1>4. CASE Numbers!ReservedNumberConflicts
    <2>. DEFINE W == {k \in Numbers!CheckedFields :
                        \E r \in Numbers!Range(parsed[k[1]].reserved) : Numbers!In(Numbers!Number(k), r)}
    <2>1. Numbers!ReportFields("ReservedNumberConflicts", W, {}) /\ W \subseteq Numbers!CheckedFields
      BY <1>4 DEF Numbers!ReservedNumberConflicts
    <2>. HIDE DEF W
    <2>. QED  BY <1>1, <2>1
  <1>5. CASE Numbers!ExtensionFieldConflicts
    <2>. DEFINE W == {k \in Numbers!CheckedFields :
                        \E r \in Numbers!Range(parsed[k[1]].extensions) : Numbers!In(Numbers!Number(k), r)}
    <2>1. Numbers!ReportFields("ExtensionFieldConflicts", W, {}) /\ W \subseteq Numbers!CheckedFields
      BY <1>5 DEF Numbers!ExtensionFieldConflicts
    <2>. HIDE DEF W
    <2>. QED  BY <1>1, <2>1
  <1>. QED  BY <1>2, <1>3, <1>4, <1>5

\* The other validators but three ask for nothing.
LEMMA ValidateAsks ==
    ASSUME NumInv, AskInv, Numbers!Validate
    PROVE  AskInv'
  <1>1. Numbers!IsJob(job) /\ (at > 0 => ParsedInv)
    BY DEF NumInv
  <1>2. ASSUME NEW v, NEW wrong, Numbers!Report(v, wrong), v # "Suggestions"
        PROVE  AskInv'
    BY <1>2, ReportAsksNothing
  <1>3. CASE Numbers!ExtRangePositive
    <2>1. at > 0
      BY <1>3, TurnsAre DEF Numbers!ExtRangePositive, Numbers!ReportAndAsk
    <2>. QED  BY <1>1, <1>3, <2>1, RangesAskSome
  <1>4. CASE Numbers!Suggest
    <2>1. at > 0
      BY <1>4, TurnsAre DEF Numbers!Suggest
    <2>. QED  BY <1>1, <1>4, <2>1, SuggestAsks
  <1>5. CASE Numbers!DuplicateExtensionNumbers
    <2>1. /\ Numbers!Turn("DuplicateExtensionNumbers") /\ at' = at + 1
          /\ UNCHANGED <<job, parsed, hints, suggestions, outcome>>
          /\ errors \subseteq errors'
      BY <1>5 DEF Numbers!DuplicateExtensionNumbers
    <2>2. at \in Int /\ at = 22 /\ outcome = "running"
      BY <2>1, ValidatorsAre DEF Numbers!Turn
    <2>3. /\ Msgs' = Msgs /\ \A m : LeftOf(m)' = LeftOf(m)
          /\ Numbers!Named \subseteq Numbers!Named'
      BY <2>1, LeftStays DEF Numbers!Named
    <2>4. ASSUME NEW m \in Msgs PROVE AreLowest(m, suggestions[m], Wanted(m))'
      <3>1. AreLowest(m, suggestions[m], Wanted(m)) /\ Wanted(m)' = Wanted(m) /\ suggestions' = suggestions
        BY <2>1, <2>2 DEF AskInv, Wanted
      <3>. QED  BY <2>3, <3>1 DEF AreLowest, Lowest
    <2>. QED  BY <2>1, <2>2, <2>3, <2>4 DEF AskInv
  <1>6. CASE \/ Numbers!PositiveFieldNumbers \/ Numbers!MaxFieldNumbers
             \/ Numbers!ReservedNumberConflicts \/ Numbers!ExtensionFieldConflicts
    BY <1>1, <1>6, FieldValidatorsAsk
  <1>7. CASE \/ Numbers!ExtRangeMax \/ Numbers!ReservedFieldNumbers \/ Numbers!DuplicateReservedNames
             \/ Numbers!ReservedNameConflicts \/ Numbers!DuplicateFieldNumbers \/ Numbers!EmptyOneofs
             \/ Numbers!EmptyEnums \/ Numbers!DuplicateEnumValues
    BY <1>2, <1>7 DEF Numbers!ExtRangeMax, Numbers!ReservedFieldNumbers, Numbers!DuplicateReservedNames,
         Numbers!ReservedNameConflicts, Numbers!DuplicateFieldNumbers, Numbers!EmptyOneofs,
         Numbers!EmptyEnums, Numbers!DuplicateEnumValues
  <1>8. CASE \/ Numbers!ReservedRangeOverlaps \/ Numbers!EnumReservedRangeOverlaps
             \/ Numbers!EnumReservedValueConflicts \/ Numbers!EnumReservedNameConflicts
             \/ Numbers!ExtensionRangeOverlaps \/ Numbers!ExtensionReservedOverlaps
             \/ Numbers!ExtensionRanges \/ Numbers!MessageSetFields
    BY <1>2, <1>8 DEF Numbers!ReservedRangeOverlaps, Numbers!EnumReservedRangeOverlaps,
         Numbers!EnumReservedValueConflicts, Numbers!EnumReservedNameConflicts,
         Numbers!ExtensionRangeOverlaps, Numbers!ExtensionReservedOverlaps, Numbers!ExtensionRanges,
         Numbers!MessageSetFields
  <1>. QED  BY <1>3, <1>4, <1>5, <1>6, <1>7, <1>8 DEF Numbers!Validate

LEMMA AskNext == NumInv /\ AskInv /\ [Next]_vars => AskInv'
  <1>. SUFFICES ASSUME NumInv, AskInv, [Next]_vars PROVE AskInv'
    OBVIOUS
  <1>1. ASSUME UNCHANGED <<job, numbers>> PROVE AskInv'
    BY <1>1, AskStays DEF numbers
  <1>2. CASE Parse
    <2>1. /\ at = 0 /\ at' \in {0, 1} /\ outcome' \in {"running", "unparsed"}
          /\ UNCHANGED <<job, errors, hints, suggestions>>
      BY <1>2 DEF Parse, Numbers!Parse
    <2>2. Msgs' = Msgs /\ Numbers!Named' = Numbers!Named
      BY <2>1 DEF Msgs, Numbers!Messages, Numbers!Named
    <2>. QED  BY <2>1, <2>2 DEF AskInv
  <1>3. CASE Validate
    BY <1>3, ValidateAsks DEF Validate
  <1>4. CASE Decide
    <2>1. /\ UNCHANGED <<job, at, parsed, errors, hints, suggestions>>
          /\ outcome' \in {"accepted", "refused"}
      BY <1>4 DEF Decide, Numbers!Decide
    <2>. QED  BY <2>1, AskStays
  <1>5. CASE PrintFree
    <2>1. /\ outcome = "accepted" /\ outcome' = "printed"
          /\ UNCHANGED <<job, at, parsed, errors, hints, suggestions>>
          /\ printed' = [m \in Msgs |-> Numbers!printFreeFieldNumbers(m)]
      BY <1>5 DEF PrintFree, Numbers!PrintFree, Msgs
    <2>2. /\ Msgs' = Msgs /\ \A m : SpentNumbers(m)' = SpentNumbers(m)
          /\ \A m : LeftOf(m)' = LeftOf(m)
          /\ Numbers!Named' = Numbers!Named
      BY <2>1, LeftStays DEF Numbers!Named
    <2>3. ASSUME NEW m \in Msgs PROVE IsRest(m, printed[m])'
      <3>1. PICK list : list = printed'[m]
        OBVIOUS
      <3>2. IsRest(m, list)
        BY <2>1, <3>1, PrintsRest
      <3>. QED  BY <2>2, <3>1, <3>2 DEF IsRest
    <2>4. ASSUME at > 14, NEW m \in Msgs PROVE AreLowest(m, suggestions[m], Wanted(m))'
      <3>1. AreLowest(m, suggestions[m], Wanted(m)) /\ Wanted(m)' = Wanted(m) /\ suggestions' = suggestions
        BY <2>1, <2>4 DEF AskInv, Wanted
      <3>. QED  BY <2>2, <3>1 DEF AreLowest, Lowest
    <2>. QED  BY <2>1, <2>2, <2>3, <2>4 DEF AskInv
  <1>6. CASE \/ ValidateRule \/ RegisterNext \/ validateMapEntryConflicts
             \/ ValidateDescriptors \/ DecideDescriptors
    BY <1>1, <1>6 DEF ValidateRule, RegisterNext, validateMapEntryConflicts, ValidateDescriptors,
         DecideDescriptors
  <1>7. CASE CannotDescribe \/ CannotEncode \/ AppendEntry \/ WriteDefaults
    BY <1>1, <1>7 DEF CannotDescribe, CannotEncode, AppendEntry, WriteDefaults, Fail
  <1>8. CASE Terminated \/ UNCHANGED vars
    BY <1>1, <1>8 DEF Terminated, vars
  <1>. QED  BY <1>2, <1>3, <1>4, <1>5, <1>6, <1>7, <1>8 DEF Next

\* Throughout: numbers are wanted for messages that are named, those suggested are the
\* lowest left of each, and those printed all that are left (appendSuggestions,
\* printFreeFieldNumbers).
THEOREM SuggestionsInvariance == Spec => [](NumInv /\ AskInv)
  <1>1. Init => NumInv /\ AskInv
    BY NumInit, AskInit
  <1>2. NumInv /\ AskInv /\ [Next]_vars => NumInv' /\ AskInv'
    BY NumStep, AskNext
  <1>. QED  BY <1>1, <1>2, PTL DEF Spec

\* Whatever the files: what is suggested is free, the lowest first, only where something is
\* wrong, and no number is left out for a higher one; what is printed is all that is free.
THEOREM FreeNumbersAreAlwaysFree == Spec => []FreeNumbersAreFree
  <1>1. NumInv /\ AskInv => FreeNumbersAreFree
    <2>. SUFFICES ASSUME NumInv, AskInv, NEW m \in Msgs
                  PROVE  LET p == suggestions[m]
                             spent == SpentNumbers(m)
                             free == (Numbers!Legal \ {MaxFieldNumber}) \ (spent \cup ScopedNumbers(m))
                         IN  /\ p # <<>> =>
                                 /\ m \in Numbers!Named
                                 /\ Numbers!Range(p) \subseteq free
                                 /\ \A i, j \in DOMAIN p : i < j => p[i] < p[j]
                                 /\ \A n \in free \ Numbers!Range(p) : Len(p) = MaxSuggestions \/ Len(p) = hints[m]
                                 /\ \A n \in free \ Numbers!Range(p), k \in Numbers!Range(p) : k < n
                             /\ outcome = "printed" =>
                                   Numbers!Printed(m) = {n \in 1 .. MaxInt \ spent :
                                                           n <= MaxFieldNumber \/ \E k \in spent : n < k}
      BY DEF FreeNumbersAreFree, Numbers!FreeNumbersAreFree, SpentNumbers, ScopedNumbers, Msgs
    <2>1. outcome = "printed" =>
             Numbers!Printed(m) = {n \in 1 .. MaxInt \ SpentNumbers(m) :
                                     n <= MaxFieldNumber \/ \E k \in SpentNumbers(m) : n < k}
      BY DEF AskInv, IsRest, Numbers!Printed
    <2>2. (Numbers!Legal \ {MaxFieldNumber}) \ (SpentNumbers(m) \cup ScopedNumbers(m)) = LeftOf(m)
      <3>1. \A q : q \in 1 .. MaxFieldNumber - 1 <=> q \in 1 .. MaxFieldNumber /\ q # MaxFieldNumber
        BY BoundsAssumption
      <3>. QED  BY <3>1 DEF LeftOf, Numbers!Legal
    <2>3. PICK p : p = suggestions[m]
      OBVIOUS
    <2>4. ASSUME p # <<>>
          PROVE  /\ m \in Numbers!Named
                 /\ Numbers!Range(p) \subseteq LeftOf(m)
                 /\ \A i, j \in DOMAIN p : i < j => p[i] < p[j]
                 /\ \A n \in LeftOf(m) \ Numbers!Range(p) : Len(p) = MaxSuggestions \/ Len(p) = hints[m]
                 /\ \A n \in LeftOf(m) \ Numbers!Range(p), k \in Numbers!Range(p) : k < n
      <3>1. at > 14
        <4>1. at \in Int
          BY DEF NumInv
        <4>2. ~ (at <= 14)
          BY <2>3, <2>4 DEF AskInv
        <4>. QED  BY <4>1, <4>2
      <3>2. PICK count : count = Wanted(m)
        OBVIOUS
      <3>3. /\ p \in Seq(Int) /\ Len(p) <= count
            /\ \A i \in 1 .. Len(p) : p[i] \in LeftOf(m)
            /\ \A i, j \in 1 .. Len(p) : i < j => p[i] < p[j]
            /\ \A q \in LeftOf(m) :
                  Len(p) < count \/ (\E j \in 1 .. Len(p) : q < p[j])
                     => \E i \in 1 .. Len(p) : p[i] = q
        BY <2>3, <3>1, <3>2 DEF AskInv, AreLowest, Lowest
      <3>4. /\ Len(p) \in Nat /\ DOMAIN p = 1 .. Len(p) /\ Len(p) # 0
            /\ \A i \in 1 .. Len(p) : p[i] \in Int
        BY <2>4, <3>3
      <3>5. \A x : x \in Numbers!Range(p) <=> \E i \in 1 .. Len(p) : p[i] = x
        BY <3>4 DEF Numbers!Range
      <3>6. hints[m] \in Nat /\ MaxSuggestions \in Nat
        <4>1. hints[m] \in 0 .. MaxFieldNumber /\ MaxFieldNumber \in Nat /\ MaxSuggestions \in Nat
          BY BoundsAssumption DEF AskInv
        <4>. QED  BY <4>1
      <3>7. count \in Int /\ count = IF hints[m] > MaxSuggestions THEN MaxSuggestions ELSE hints[m]
        BY <3>2, <3>6 DEF Wanted, Numbers!Between
      <3>8. hints[m] > 0
        BY <3>3, <3>4, <3>6, <3>7
      <3>9. m \in Numbers!Named
        BY <3>8 DEF AskInv
      <3>10. ASSUME NEW n \in LeftOf(m), n \notin Numbers!Range(p)
             PROVE  /\ Len(p) = MaxSuggestions \/ Len(p) = hints[m]
                    /\ \A k \in Numbers!Range(p) : k < n
        <4>1. /\ ~ (Len(p) < count)
              /\ \A j \in 1 .. Len(p) : ~ (n < p[j]) /\ n # p[j]
          BY <3>3, <3>5, <3>10
        <4>2. n \in Int
          BY BoundsAssumption DEF LeftOf
        <4>3. Len(p) = count
          <5>1. /\ Len(p) \in Nat /\ count \in Int
                /\ Len(p) <= count /\ ~ (Len(p) < count)
            BY <3>3, <3>4, <3>7, <4>1
          <5>. QED  BY <5>1
        <4>4. \A j \in 1 .. Len(p) : p[j] < n
          BY <3>4, <4>1, <4>2
        <4>. QED  BY <3>5, <3>7, <4>3, <4>4
      <3>. QED  BY <3>3, <3>4, <3>5, <3>9, <3>10
    <2>. QED  BY <2>1, <2>2, <2>3, <2>4
  <1>. QED  BY <1>1, SuggestionsInvariance, PTL

-------------------------------------------------------------------------------
(* Edition defaults. *)

BetterOf(list, edition, best, k) ==
    IF /\ list[k].edition <= edition
       /\ best = 0 \/ list[best].edition < list[k].edition
    THEN k ELSE best

\* A sequence of defaults with editions.
AreDefaults(list, n) ==
    /\ n \in Nat /\ DOMAIN list = 1 .. n
    /\ \A k \in 1 .. n : list[k].edition \in Int

BestOfAll(list, edition, n, s) ==
    (CHOOSE g : g = [u \in SUBSET (1 .. n) |->
                       IF u = {} THEN 0
                       ELSE BetterOf(list, edition, g[u \ {Greatest(u)}], s[Greatest(u)])])[1 .. n]

LEMMA LatestWalk ==
    ASSUME NEW list, NEW edition, NEW n, AreDefaults(list, n)
    PROVE  latestDefault(list, edition) = BestOfAll(list, edition, n, [k \in 1 .. n |-> k])
  BY DEF latestDefault, AreDefaults, BetterOf, BestOfAll, Greatest, FoldLeft, MapThenFoldSet, Max

\* w has the best of the first k defaults, for every k.
BestSoFar(list, edition, n, w) ==
    /\ w \in [0 .. n -> 0 .. n]
    /\ w[0] = 0 /\ w[n] = latestDefault(list, edition)
    /\ \A k \in 1 .. n : w[k] = BetterOf(list, edition, w[k - 1], k)

LEMMA LatestRuns ==
    ASSUME NEW list, NEW edition \in Int, NEW n, AreDefaults(list, n)
    PROVE  \E w : BestSoFar(list, edition, n, w)
  <1>. DEFINE s == [k \in 1 .. n |-> k]
              V == 0 .. n
              E == 1 .. n
              op == [x \in V \X E |-> BetterOf(list, edition, x[1], x[2])]
              Solves(g) == g = [u \in SUBSET (1 .. n) |->
                                  IF u = {} THEN 0
                                  ELSE BetterOf(list, edition, g[u \ {Greatest(u)}], s[Greatest(u)])]
  <1>1. n \in Nat /\ 0 \in V /\ s \in [1 .. n -> E] /\ \A k \in 1 .. n : s[k] = k
    BY DEF AreDefaults
  <1>2. op \in [V \X E -> V]
    <2>1. \A b \in V, k \in E : BetterOf(list, edition, b, k) \in {b, k}
      BY DEF BetterOf
    <2>2. E \subseteq V
      BY <1>1
    <2>. HIDE DEF V, E
    <2>. QED  BY <2>1, <2>2
  <1>3. \A b \in V, k \in E : op[<<b, k>>] = BetterOf(list, edition, b, k)
    OBVIOUS
  <1>4. latestDefault(list, edition) = (CHOOSE g : Solves(g))[1 .. n]
    <2>1. latestDefault(list, edition) = BestOfAll(list, edition, n, s)
      BY LatestWalk
    <2>. QED  BY <2>1 DEF BestOfAll
  <1>. HIDE DEF op, s
  <1>5. \E g : Solves(g)
    <2>1. PICK g \in [SUBSET (1 .. n) -> V] : SolvesFold(0, n, s, op, g)
      <3>. HIDE DEF V, E
      <3>. QED  BY <1>1, <1>2, FoldExists
    <2>2. ASSUME NEW u \in SUBSET (1 .. n), u # {}
          PROVE  op[<<g[u \ {Greatest(u)}], s[Greatest(u)]>>]
                    = BetterOf(list, edition, g[u \ {Greatest(u)}], s[Greatest(u)])
      <3>1. Greatest(u) \in u /\ Greatest(u) \in 1 .. n /\ s[Greatest(u)] \in E
        BY <1>1, <2>2, GreatestInside
      <3>2. g[u \ {Greatest(u)}] \in V
        <4>. HIDE DEF V
        <4>. QED  BY <2>1
      <3>. HIDE DEF V, E
      <3>. QED  BY <1>3, <3>1, <3>2
    <2>. QED  BY <2>1, <2>2 DEF SolvesFold
  <1>6. PICK g : Solves(g) /\ latestDefault(list, edition) = g[1 .. n]
    <2>. HIDE DEF Solves
    <2>. QED  BY <1>4, <1>5
  <1>7. Computes(V, E, 0, n, s, op, g)
    <2>1. g[{}] = 0
      BY <1>6
    <2>2. ASSUME NEW u \in SUBSET (1 .. n), u # {}, g[u \ {Greatest(u)}] \in V
          PROVE  g[u] = op[<<g[u \ {Greatest(u)}], s[Greatest(u)]>>]
      <3>1. g[u] = BetterOf(list, edition, g[u \ {Greatest(u)}], s[Greatest(u)])
        BY <1>6, <2>2
      <3>2. s[Greatest(u)] \in E
        BY <1>1, <2>2, GreatestInside
      <3>. HIDE DEF V, E
      <3>. QED  BY <1>3, <2>2, <3>1, <3>2
    <2>. HIDE DEF V, E
    <2>. QED  BY <1>1, <1>2, <2>1, <2>2 DEF Computes
  <1>. DEFINE w == RunOf(n, g)
  <1>8. /\ w \in [0 .. n -> V] /\ w[0] = 0 /\ w[n] = g[1 .. n]
        /\ \A k \in 1 .. n : w[k] = op[<<w[k - 1], s[k]>>]
    <2>. HIDE DEF V, E
    <2>. QED  BY <1>7, FoldRuns
  <1>. HIDE DEF w
  <1>9. ASSUME NEW k \in 1 .. n
        PROVE  w[k] = BetterOf(list, edition, w[k - 1], k)
    <2>1. k - 1 \in 0 .. n /\ s[k] = k /\ k \in E
      BY <1>1
    <2>2. w[k - 1] \in V
      <3>. HIDE DEF V
      <3>. QED  BY <1>8, <2>1
    <2>. HIDE DEF V, E
    <2>. QED  BY <1>3, <1>8, <2>1, <2>2
  <1>10. BestSoFar(list, edition, n, w)
    BY <1>6, <1>8, <1>9 DEF BestSoFar
  <1>. QED  BY <1>10

\* best is the newest of the first k defaults that are not after the edition, and of
\* several the first; 0 if there is none.
IsBest(list, edition, k, best) ==
    /\ best \in 0 .. k
    /\ best = 0 => \A j \in 1 .. k : ~ (list[j].edition <= edition)
    /\ best # 0 =>
          /\ list[best].edition <= edition
          /\ \A j \in 1 .. k : list[j].edition <= edition =>
                /\ list[j].edition <= list[best].edition
                /\ list[j].edition = list[best].edition => best <= j

LEMMA LatestIsBest ==
    ASSUME NEW list, NEW edition \in Int, NEW n, AreDefaults(list, n)
    PROVE  IsBest(list, edition, n, latestDefault(list, edition))
  <1>1. PICK w : BestSoFar(list, edition, n, w)
    BY LatestRuns
  <1>. DEFINE P == {k \in 0 .. n : IsBest(list, edition, k, w[k])}
  <1>2. n \in Nat /\ 0 \in 0 .. n
    BY DEF AreDefaults
  <1>3. 0 \in P
    BY <1>1, <1>2 DEF IsBest, BestSoFar
  <1>4. ASSUME NEW k \in 1 .. n, k - 1 \in P
        PROVE  k \in P
    <2>1. k - 1 \in 0 .. n /\ k \in 0 .. n /\ IsBest(list, edition, k - 1, w[k - 1])
      BY <1>2, <1>4
    <2>2. PICK b : b = w[k - 1]
      OBVIOUS
    <2>3. w[k] = BetterOf(list, edition, b, k)
      BY <1>1, <2>2 DEF BestSoFar
    <2>4. /\ \A j \in 1 .. k : list[j].edition \in Int
          /\ \A j : j \in 1 .. k <=> j \in 1 .. (k - 1) \/ j = k
          /\ b \in 0 .. (k - 1)
      <3>1. \A j : j \in 1 .. k <=> j \in 1 .. (k - 1) \/ j = k
        BY <1>2
      <3>2. \A j \in 1 .. k : j \in 1 .. n
        BY <1>2
      <3>3. \A j \in 1 .. k : list[j].edition \in Int
        BY <3>2 DEF AreDefaults
      <3>. QED  BY <2>1, <2>2, <3>1, <3>3 DEF IsBest
    <2>5. IsBest(list, edition, k, w[k])
      <3>1. CASE list[k].edition <= edition /\ (b = 0 \/ list[b].edition < list[k].edition)
        <4>1. w[k] = k /\ k # 0 /\ k \in 0 .. k
          BY <2>3, <3>1 DEF BetterOf
        <4>2. ASSUME NEW j \in 1 .. (k - 1), list[j].edition <= edition
              PROVE  list[j].edition < list[k].edition
          <5>1. b # 0 /\ list[j].edition <= list[b].edition
            BY <2>1, <2>2, <4>2 DEF IsBest
          <5>2. /\ list[j].edition \in Int /\ list[k].edition \in Int
                /\ list[b].edition \in Int
            BY <2>4, <5>1
          <5>. QED  BY <3>1, <5>1, <5>2
        <4>3. ASSUME NEW j \in 1 .. k, list[j].edition <= edition
              PROVE  /\ list[j].edition <= list[k].edition
                     /\ list[j].edition = list[k].edition => k <= j
          <5>1. list[j].edition \in Int /\ list[k].edition \in Int
            BY <2>4
          <5>2. CASE j = k
            BY <5>1, <5>2
          <5>3. CASE j # k
            BY <2>4, <4>2, <4>3, <5>1, <5>3
          <5>. QED  BY <5>2, <5>3
        <4>. QED  BY <3>1, <4>1, <4>3 DEF IsBest
      <3>2. CASE ~ (list[k].edition <= edition /\ (b = 0 \/ list[b].edition < list[k].edition))
        <4>1. w[k] = b /\ b \in 0 .. k
          BY <2>3, <2>4, <3>2 DEF BetterOf
        <4>2. ASSUME b = 0, NEW j \in 1 .. k
              PROVE  ~ (list[j].edition <= edition)
          BY <2>1, <2>2, <2>4, <3>2, <4>2 DEF IsBest
        <4>3. ASSUME b # 0
              PROVE  /\ list[b].edition <= edition
                     /\ \A j \in 1 .. k : list[j].edition <= edition =>
                           /\ list[j].edition <= list[b].edition
                           /\ list[j].edition = list[b].edition => b <= j
          <5>1. /\ list[b].edition <= edition
                /\ \A j \in 1 .. (k - 1) : list[j].edition <= edition =>
                      /\ list[j].edition <= list[b].edition
                      /\ list[j].edition = list[b].edition => b <= j
            BY <2>1, <2>2, <4>3 DEF IsBest
          <5>2. b \in 1 .. k /\ b <= k /\ list[b].edition \in Int /\ list[k].edition \in Int
            BY <2>4, <4>3
          <5>3. list[k].edition <= edition => list[k].edition <= list[b].edition
            BY <3>2, <4>3, <5>2
          <5>. QED  BY <2>4, <5>1, <5>2, <5>3
        <4>. QED  BY <4>1, <4>2, <4>3 DEF IsBest
      <3>. QED  BY <3>1, <3>2
    <2>. QED  BY <2>1, <2>5
  <1>5. \A k \in 0 .. n : k \in P
    <2>. HIDE DEF P
    <2>. QED  BY <1>2, <1>3, <1>4, UpTo
  <1>6. n \in P
    BY <1>2, <1>5
  <1>. QED  BY <1>1, <1>6 DEF BestSoFar

LEMMA LatestIsNewest ==
    ASSUME NEW x, NEW edition \in Int, NEW n, AreDefaults(x.defaults, n)
    PROVE  \A k : k \in Newest(x, edition) <=> k # 0 /\ k = latestDefault(x.defaults, edition)
  <1>. DEFINE old == {k \in 1 .. n : x.defaults[k].edition <= edition}
              newest == {k \in old : \A j \in old : x.defaults[j].edition <= x.defaults[k].edition}
  <1>1. PICK best : best = latestDefault(x.defaults, edition)
    OBVIOUS
  <1>2. IsBest(x.defaults, edition, n, best)
    BY <1>1, LatestIsBest
  <1>3. Newest(x, edition) = {k \in newest : \A j \in newest : k <= j}
    BY DEF Newest, AreDefaults
  <1>4. n \in Nat /\ \A k \in 1 .. n : x.defaults[k].edition \in Int
    BY DEF AreDefaults
  <1>5. CASE best = 0
    <2>1. old = {}
      BY <1>2, <1>5 DEF IsBest
    <2>. QED  BY <1>1, <1>3, <1>5, <2>1
  <1>6. CASE best # 0
    <2>1. /\ best \in 1 .. n /\ x.defaults[best].edition <= edition
          /\ \A j \in old : /\ x.defaults[j].edition <= x.defaults[best].edition
                            /\ x.defaults[j].edition = x.defaults[best].edition => best <= j
      BY <1>2, <1>4, <1>6 DEF IsBest
    <2>2. best \in newest
      BY <2>1
    <2>3. ASSUME NEW j \in newest PROVE best <= j
      <3>1. j \in 1 .. n /\ j \in old /\ x.defaults[best].edition <= x.defaults[j].edition
        BY <2>2
      <3>2. x.defaults[j].edition = x.defaults[best].edition
        BY <1>4, <2>1, <3>1
      <3>. QED  BY <2>1, <3>1, <3>2
    <2>4. ASSUME NEW k \in newest, k <= best PROVE k = best
      <3>1. k \in 1 .. n /\ best <= k
        BY <2>3
      <3>. QED  BY <1>4, <2>1, <2>4, <3>1
    <2>5. best \in Newest(x, edition)
      <3>. HIDE DEF newest
      <3>. QED  BY <1>3, <2>2, <2>3
    <2>6. \A k \in Newest(x, edition) : k = best
      <3>. HIDE DEF newest
      <3>. QED  BY <1>3, <2>2, <2>4
    <2>. QED  BY <1>1, <1>6, <2>5, <2>6
  <1>. QED  BY <1>5, <1>6

HaveDefaults(F) == \A x \in F : \E n : AreDefaults(x.defaults, n)

\* An entry has what each feature is by default in its edition (featureSetsFor).
LEMMA EntryIsDefaults ==
    ASSUME NEW F, NEW edition \in Int, HaveDefaults(F)
    PROVE  /\ Entry(F, edition).edition = edition
           /\ Entry(F, edition).overridable \cup Entry(F, edition).fixed
                 = UNION {ByDefault(x, edition) : x \in F}
  <1>. DEFINE some == Defaulted(F, edition)
              free == {x \in some : isOverridable(x, edition)}
              latest(x) == latestDefault(x.defaults, edition)
  <1>1. /\ Entry(F, edition).edition = edition
        /\ Entry(F, edition).overridable = {Encoded(x, edition) : x \in free}
        /\ Entry(F, edition).fixed = {Encoded(x, edition) : x \in some \ free}
    BY DEF Entry
  <1>2. Entry(F, edition).overridable \cup Entry(F, edition).fixed = {Encoded(x, edition) : x \in some}
    <2>. HIDE DEF some
    <2>. QED  BY <1>1
  <1>3. ASSUME NEW x \in F
        PROVE  \A k : k \in Newest(x, edition) <=> k # 0 /\ k = latest(x)
    BY LatestIsNewest DEF HaveDefaults
  <1>4. ASSUME NEW x \in some
        PROVE  x \in F /\ ByDefault(x, edition) = {Encoded(x, edition)}
    <2>1. x \in F /\ latest(x) # 0
      BY DEF Defaulted
    <2>2. Newest(x, edition) = {latest(x)}
      <3>. HIDE DEF latest
      <3>. QED  BY <1>3, <2>1
    <2>3. Encoded(x, edition) = [number |-> x.number, value |-> Meaning(x, x.defaults[latest(x)].value)]
      BY DEF Encoded, Meaning, DefaultValue
    <2>. HIDE DEF latest
    <2>. QED  BY <2>1, <2>2, <2>3 DEF ByDefault
  <1>5. ASSUME NEW x \in F, x \notin some
        PROVE  ByDefault(x, edition) = {}
    <2>1. latest(x) = 0
      BY <1>5 DEF Defaulted
    <2>2. Newest(x, edition) = {}
      <3>. HIDE DEF latest
      <3>. QED  BY <1>3, <2>1
    <2>. QED  BY <2>2 DEF ByDefault
  <1>6. {Encoded(x, edition) : x \in some} = UNION {ByDefault(x, edition) : x \in F}
    <2>. HIDE DEF some
    <2>. QED  BY <1>4, <1>5
  <1>. QED  BY <1>1, <1>2, <1>6

-------------------------------------------------------------------------------
(* The editions of the entries. *)

Started(F, maximum) == {e \in {d.edition : d \in UNION {Range(x.defaults) : x \in F}} : e <= maximum}

LEMMA PoolHasDefaults ==
    ASSUME NEW pool, IsPool(pool)
    PROVE  HaveDefaults(pool.features)
  <1>. SUFFICES ASSUME NEW x \in pool.features PROVE \E n : AreDefaults(x.defaults, n)
    BY DEF HaveDefaults
  <1>1. x.defaults \in Seq(Range(x.defaults)) /\ \A d \in Range(x.defaults) : d.edition \in Int
    BY DEF IsPool
  <1>2. Len(x.defaults) \in Nat /\ DOMAIN x.defaults = 1 .. Len(x.defaults)
    BY <1>1
  <1>3. \A k \in 1 .. Len(x.defaults) : x.defaults[k] \in Range(x.defaults)
    BY <1>2 DEF Range
  <1>4. AreDefaults(x.defaults, Len(x.defaults))
    BY <1>1, <1>2, <1>3 DEF AreDefaults
  <1>. QED  BY <1>4

\* There are finitely many editions that some default starts at.
LEMMA StartedAreFinite ==
    ASSUME NEW pool, IsPool(pool)
    PROVE  /\ Started(pool.features, pool.maximum) \in SUBSET Int
           /\ IsFiniteSet(Started(pool.features, pool.maximum))
  <1>. DEFINE F == pool.features
              ranges == {Range(x.defaults) : x \in F}
              all == UNION ranges
              editions == {d.edition : d \in all}
              f == [x \in F |-> Range(x.defaults)]
              g == [d \in all |-> d.edition]
  <1>1. IsFiniteSet(F) /\ HaveDefaults(F)
    BY PoolHasDefaults DEF IsPool
  <1>2. IsFiniteSet(ranges)
    <2>1. f \in Surjection(F, ranges)
      BY DEF Surjection
    <2>. HIDE DEF F, ranges, f
    <2>. QED  BY <1>1, <2>1, FS_Surjection
  <1>3. ASSUME NEW x \in F PROVE IsFiniteSet(Range(x.defaults))
    <2>1. PICK n : AreDefaults(x.defaults, n)
      BY <1>1 DEF HaveDefaults
    <2>. DEFINE h == [k \in 1 .. n |-> x.defaults[k]]
    <2>2. n \in Nat /\ IsFiniteSet(1 .. n)
      BY <2>1, FS_Interval DEF AreDefaults
    <2>3. h \in Surjection(1 .. n, Range(x.defaults))
      BY <2>1 DEF AreDefaults, Surjection, Range
    <2>. HIDE DEF h
    <2>. QED  BY <2>2, <2>3, FS_Surjection
  <1>4. IsFiniteSet(all)
    <2>1. \A T \in ranges : IsFiniteSet(T)
      BY <1>3
    <2>. HIDE DEF ranges
    <2>. QED  BY <1>2, <2>1, FS_UNION
  <1>5. IsFiniteSet(editions)
    <2>1. g \in Surjection(all, editions)
      <3>. HIDE DEF all
      <3>. QED  BY DEF Surjection
    <2>. HIDE DEF all, editions, g
    <2>. QED  BY <1>4, <2>1, FS_Surjection
  <1>6. \A d \in all : d.edition \in Int
    BY DEF IsPool
  <1>7. Started(F, pool.maximum) \in SUBSET editions /\ Started(F, pool.maximum) \in SUBSET Int
    <2>1. Started(F, pool.maximum) = {e \in editions : e <= pool.maximum}
      BY DEF Started
    <2>. HIDE DEF all
    <2>. QED  BY <1>6, <2>1
  <1>. HIDE DEF editions
  <1>. QED  BY <1>5, <1>7, FS_Subset

-------------------------------------------------------------------------------
(* The entries that are written. *)

\* The entries so far are those of the first editions; what is written has them all, and
\* comes last.
DefaultsInv ==
    /\ job \in UNION Jobs
    /\ Len(entries) <= Len(Editions)
    /\ entries \in Seq({Entry(job.pool.features, Editions[i]) : i \in 1 .. Len(Editions)})
    /\ \A i \in 1 .. Len(entries) : entries[i] = Entry(job.pool.features, Editions[i])
    /\ written # <<>> =>
          /\ verdict \in {"done", "refused"}
          /\ written[1].entries = entries /\ Len(entries) = Len(Editions)

LEMMA EditionsAre ==
    ASSUME IsPool(job.pool)
    PROVE  Ascends(Editions, Started(job.pool.features, job.pool.maximum))
  <1>1. Editions = Ascending(Started(job.pool.features, job.pool.maximum))
    BY DEF Editions, featureEditions, Started
  <1>. QED  BY <1>1, StartedAreFinite, AscendingAscends

LEMMA JobHasPool ==
    ASSUME job \in UNION Jobs
    PROVE  IsPool(job.pool) /\ Len(Editions) \in Nat
  <1>1. IsPool(job.pool)
    BY PoolsAssumption
  <1>2. Editions \in Seq(Int)
    BY <1>1, EditionsAre DEF Ascends
  <1>. QED  BY <1>1, <1>2, LenProperties

LEMMA DefaultsInit == Init => DefaultsInv
  <1>. SUFFICES ASSUME Init PROVE DefaultsInv
    OBVIOUS
  <1>1. job \in UNION Jobs /\ entries = <<>> /\ written = <<>>
    BY DEF Init, Numbers!Init
  <1>2. Len(Editions) \in Nat
    BY <1>1, JobHasPool
  <1>. QED  BY <1>1, <1>2 DEF DefaultsInv

LEMMA DefaultsStay ==
    ASSUME DefaultsInv, UNCHANGED <<job, entries, written>>,
           verdict \in {"running", "accepted"} \/ verdict' \in {verdict, "refused"}
    PROVE  DefaultsInv'
  <1>1. Editions' = Editions
    BY DEF Editions
  <1>. QED  BY <1>1 DEF DefaultsInv

LEMMA DefaultsStep == DefaultsInv /\ [Next]_vars => DefaultsInv'
  <1>. SUFFICES ASSUME DefaultsInv, [Next]_vars PROVE DefaultsInv'
    OBVIOUS
  <1>1. CASE Parse
    BY <1>1, DefaultsStay DEF Parse, Numbers!Parse, defaults
  <1>2. CASE Validate
    <2>1. job' = job
      BY <1>2, ValidateReports DEF Validate, ReportsWrong
    <2>. QED  BY <1>2, <2>1, DefaultsStay DEF Validate, defaults
  <1>3. CASE Decide
    BY <1>3, DefaultsStay DEF Decide, Numbers!Decide, defaults
  <1>4. CASE \/ ValidateRule \/ RegisterNext \/ validateMapEntryConflicts
             \/ ValidateDescriptors \/ DecideDescriptors
    BY <1>4, DefaultsStay DEF ValidateRule, RegisterNext, validateMapEntryConflicts,
         ValidateDescriptors, DecideDescriptors, defaults
  <1>5. CASE PrintFree
    <2>1. verdict = "accepted" /\ UNCHANGED <<job, entries, written>>
      BY <1>5, Zenon DEF PrintFree, Numbers!PrintFree, defaults
    <2>. QED  BY <2>1, DefaultsStay
  <1>6. CASE CannotDescribe \/ CannotEncode
    <2>1. verdict = "accepted" /\ UNCHANGED <<job, entries, written>>
      BY <1>6, Zenon DEF CannotDescribe, CannotEncode, Asked, Fail, defaults
    <2>. QED  BY <2>1, DefaultsStay
  <1>7. CASE AppendEntry
    <2>. DEFINE F == job.pool.features
                n == Len(entries)
                e == Entry(F, Editions[n + 1])
                S == {Entry(F, Editions[i]) : i \in 1 .. Len(Editions)}
    <2>1. /\ verdict = "accepted" /\ n < Len(Editions) /\ entries' = Append(entries, e)
          /\ UNCHANGED <<job, verdict, written>>
      BY <1>7, Zenon DEF AppendEntry, Asked
    <2>2. Editions' = Editions
      BY <2>1 DEF Editions
    <2>3. entries \in Seq(S) /\ \A i \in 1 .. n : entries[i] = Entry(F, Editions[i])
      BY DEF DefaultsInv
    <2>4. n \in Nat /\ Len(Editions) \in Nat
      BY <2>3, LenProperties, JobHasPool DEF DefaultsInv
    <2>5. n + 1 \in 1 .. Len(Editions) /\ e \in S
      BY <2>1, <2>4
    <2>6. /\ entries' \in Seq(S) /\ Len(entries') = n + 1
          /\ \A i \in 1 .. n : entries'[i] = entries[i]
          /\ entries'[n + 1] = e
      <3>. HIDE DEF S, e
      <3>. QED  BY <2>1, <2>3, <2>5, AppendProperties
    <2>7. \A i \in 1 .. n + 1 : entries'[i] = Entry(F, Editions[i])
      <3>1. \A i \in 1 .. n + 1 : i \in 1 .. n \/ i = n + 1
        BY <2>4
      <3>. HIDE DEF F
      <3>. QED  BY <2>3, <2>6, <3>1
    <2>8. written = <<>>
      BY <2>1 DEF DefaultsInv
    <2>9. job' \in UNION Jobs /\ Len(entries') <= Len(Editions)
      BY <2>1, <2>4, <2>6 DEF DefaultsInv
    <2>. QED  BY <2>1, <2>2, <2>6, <2>7, <2>8, <2>9 DEF DefaultsInv
  <1>8. CASE WriteDefaults
    <2>1. /\ verdict' = "done" /\ written'[1].entries = entries /\ Len(entries) = Len(Editions)
          /\ UNCHANGED <<job, entries>>
      BY <1>8 DEF WriteDefaults
    <2>2. Editions' = Editions
      BY <2>1 DEF Editions
    <2>. QED  BY <2>1, <2>2 DEF DefaultsInv
  <1>9. CASE Terminated \/ UNCHANGED vars
    BY <1>9, DefaultsStay DEF Terminated, vars, defaults
  <1>. QED  BY <1>1, <1>2, <1>3, <1>4, <1>5, <1>6, <1>7, <1>8, <1>9 DEF Next

THEOREM DefaultsInvariance == Spec => []DefaultsInv
  <1>. QED  BY DefaultsInit, DefaultsStep, PTL DEF Spec

\* What a feature is by default does not change between the editions that some default
\* starts at.
LEMMA NewestStays ==
    ASSUME NEW x, NEW early \in Int, NEW late \in Int, early <= late, NEW n, AreDefaults(x.defaults, n),
           \A k \in 1 .. n : x.defaults[k].edition <= late => x.defaults[k].edition <= early
    PROVE  Newest(x, early) = Newest(x, late)
  <1>1. {k \in DOMAIN x.defaults : x.defaults[k].edition <= early}
           = {k \in DOMAIN x.defaults : x.defaults[k].edition <= late}
    BY DEF AreDefaults
  <1>. QED  BY <1>1 DEF Newest

\* The entries that are all of the editions some default starts at say what each feature is
\* by default in any edition up to the maximum.
LEMMA EntriesReadBack ==
    ASSUME DefaultsInv, written # <<>>, NEW edition \in Int, edition <= job.pool.maximum
    PROVE  Read(edition) = UNION {ByDefault(x, edition) : x \in job.pool.features}
  <1>. DEFINE F == job.pool.features
              n == Len(entries)
              s == Editions
              before == {k \in 1 .. n : s[k] <= edition}
  <1>1. IsPool(job.pool) /\ HaveDefaults(F)
    BY JobHasPool, PoolHasDefaults DEF DefaultsInv
  <1>2. Ascends(s, Started(F, job.pool.maximum)) /\ n = Len(s)
    BY <1>1, EditionsAre DEF DefaultsInv
  <1>3. n \in Nat /\ \A i \in 1 .. n : s[i] \in Int
    BY <1>2, LenProperties, ElementOfSeq DEF Ascends
  <1>4. /\ written[1].entries = entries /\ DOMAIN entries = 1 .. n
        /\ \A i \in 1 .. n : entries[i] = Entry(F, s[i])
    BY LenProperties DEF DefaultsInv
  <1>5. \A i \in 1 .. n : Entry(F, s[i]).edition = s[i]
    <2>. HIDE DEF F, s, n
    <2>. QED  BY <1>1, <1>3, EntryIsDefaults
  <1>6. {k \in DOMAIN written[1].entries : written[1].entries[k].edition <= edition} = before
    BY <1>4, <1>5
  <1>7. Read(edition) = IF before = {} THEN {}
                        ELSE entries[Greatest(before)].overridable \cup entries[Greatest(before)].fixed
    <2>. HIDE DEF before
    <2>. QED  BY <1>4, <1>6 DEF Read, Max, Greatest
  <1>8. ASSUME NEW x \in F, NEW m, AreDefaults(x.defaults, m), NEW k \in 1 .. m,
               x.defaults[k].edition <= edition
        PROVE  \E i \in before : s[i] = x.defaults[k].edition
    <2>1. x.defaults[k] \in Range(x.defaults) /\ x.defaults[k].edition \in Int
      BY <1>8 DEF AreDefaults, Range
    <2>2. job.pool.maximum \in Int
      BY <1>1 DEF IsPool
    <2>3. x.defaults[k].edition <= job.pool.maximum
      <3>. PICK e \in Int : e = x.defaults[k].edition
        BY <2>1
      <3>. QED  BY <1>8, <2>2
    <2>4. x.defaults[k].edition \in Started(F, job.pool.maximum)
      BY <2>1, <2>3 DEF Started
    <2>5. PICK i \in 1 .. n : s[i] = x.defaults[k].edition
      BY <1>2, <2>4 DEF Ascends
    <2>. QED  BY <1>8, <2>5
  <1>9. CASE before = {}
    <2>1. ASSUME NEW x \in F PROVE ByDefault(x, edition) = {}
      <3>1. PICK m : AreDefaults(x.defaults, m)
        BY <1>1 DEF HaveDefaults
      <3>2. \A k \in 1 .. m : ~ (x.defaults[k].edition <= edition)
        <4>. HIDE DEF before, s, n, F
        <4>. QED  BY <1>8, <1>9, <3>1
      <3>3. Newest(x, edition) = {}
        BY <3>1, <3>2 DEF Newest, AreDefaults
      <3>. QED  BY <3>3 DEF ByDefault
    <2>. HIDE DEF before
    <2>. QED  BY <1>7, <1>9, <2>1
  <1>10. CASE before # {}
    <2>1. PICK last : last = Greatest(before)
      OBVIOUS
    <2>2. last \in before /\ \A i \in before : i <= last
      <3>1. before \in SUBSET (1 .. n)
        OBVIOUS
      <3>2. last \in before
        <4>. HIDE DEF before, n
        <4>. QED  BY <1>3, <1>10, <2>1, <3>1, GreatestInside
      <3>3. PICK m \in before : \A i \in before : i <= m
        <4>1. before \in SUBSET Nat /\ \A i \in before : i <= n
          BY <1>3
        <4>. HIDE DEF before, n
        <4>. QED  BY <1>3, <1>10, <4>1, GreatestNat
      <3>4. m \in before /\ \A i \in before : m >= i
        <4>1. m \in Int /\ \A i \in before : i \in Int
          BY <1>3
        <4>. HIDE DEF before
        <4>. QED  BY <3>3, <4>1
      <3>5. \A i \in before : last >= i
        <4>. HIDE DEF before
        <4>. QED  BY <2>1, <3>4 DEF Greatest
      <3>6. last \in Int /\ \A i \in before : i \in Int
        BY <1>3, <3>2
      <3>. HIDE DEF before
      <3>. QED  BY <3>2, <3>5, <3>6
    <2>3. PICK early \in Int : early = s[last]
      BY <1>3, <2>2
    <2>4. early <= edition /\ last \in 1 .. n
      BY <2>2, <2>3
    <2>5. ASSUME NEW x \in F PROVE ByDefault(x, early) = ByDefault(x, edition)
      <3>1. PICK m : AreDefaults(x.defaults, m)
        BY <1>1 DEF HaveDefaults
      <3>2. ASSUME NEW k \in 1 .. m, x.defaults[k].edition <= edition
            PROVE  x.defaults[k].edition <= early
        <4>1. PICK i \in before : s[i] = x.defaults[k].edition
          <5>. HIDE DEF before, s, n, F
          <5>. QED  BY <1>8, <3>1, <3>2
        <4>2. i \in 1 .. n /\ i <= last /\ s[i] \in Int
          BY <1>3, <2>2
        <4>3. CASE i = last
          BY <2>3, <4>1, <4>2, <4>3
        <4>4. CASE i # last
          <5>1. i < last
            BY <1>3, <2>4, <4>2, <4>4
          <5>2. s[i] < s[last]
            BY <1>2, <2>4, <4>2, <5>1 DEF Ascends
          <5>. HIDE DEF s
          <5>. QED  BY <2>3, <4>1, <4>2, <5>2
        <4>. QED  BY <4>3, <4>4
      <3>3. Newest(x, early) = Newest(x, edition)
        BY <2>4, <3>1, <3>2, NewestStays
      <3>. QED  BY <3>3 DEF ByDefault
    <2>6. Entry(F, early).overridable \cup Entry(F, early).fixed = UNION {ByDefault(x, early) : x \in F}
      <3>. HIDE DEF F
      <3>. QED  BY <1>1, EntryIsDefaults
    <2>7. Read(edition) = Entry(F, early).overridable \cup Entry(F, early).fixed
      <3>1. Read(edition) = entries[last].overridable \cup entries[last].fixed
        <4>. HIDE DEF before
        <4>. QED  BY <1>7, <1>10, <2>1
      <3>2. entries[last] = Entry(F, early)
        <4>. HIDE DEF F, s, n
        <4>. QED  BY <1>4, <2>3, <2>4
      <3>. HIDE DEF F
      <3>. QED  BY <3>1, <3>2
    <2>8. {ByDefault(x, early) : x \in F} = {ByDefault(x, edition) : x \in F}
      <3>. HIDE DEF F
      <3>. QED  BY <2>5, Zenon
    <2>. QED  BY <2>6, <2>7, <2>8, Zenon
  <1>. QED  BY <1>9, <1>10

\* Whatever the features, their defaults and the bounds: what is written has for every
\* edition up to the maximum what each feature is by default, and nothing else, and ascends.
THEOREM DefaultsAreAlwaysExact == Spec => []DefaultsAreExact
  <1>1. DefaultsInv => DefaultsAreExact
    <2>. SUFFICES ASSUME DefaultsInv PROVE DefaultsAreExact
      OBVIOUS
    <2>1. ASSUME written # <<>>, NEW a \in DOMAIN written[1].entries, NEW b \in DOMAIN written[1].entries, a < b
          PROVE  written[1].entries[a].edition < written[1].entries[b].edition
      <3>1. /\ IsPool(job.pool) /\ HaveDefaults(job.pool.features)
            /\ Ascends(Editions, Started(job.pool.features, job.pool.maximum))
        BY JobHasPool, PoolHasDefaults, EditionsAre DEF DefaultsInv
      <3>2. /\ written[1].entries = entries /\ DOMAIN entries = 1 .. Len(entries)
            /\ Len(entries) = Len(Editions)
            /\ \A i \in 1 .. Len(entries) : entries[i] = Entry(job.pool.features, Editions[i])
        BY <2>1, LenProperties DEF DefaultsInv
      <3>3. a \in 1 .. Len(Editions) /\ b \in 1 .. Len(Editions) /\ Editions[a] < Editions[b]
        BY <2>1, <3>1, <3>2 DEF Ascends
      <3>4. Editions[a] \in Int /\ Editions[b] \in Int
        BY <3>1, <3>3, ElementOfSeq DEF Ascends
      <3>5. /\ Entry(job.pool.features, Editions[a]).edition = Editions[a]
            /\ Entry(job.pool.features, Editions[b]).edition = Editions[b]
        BY <3>1, <3>4, EntryIsDefaults
      <3>. QED  BY <3>2, <3>3, <3>5
    <2>2. ASSUME written # <<>>, NEW edition \in 1 .. job.pool.maximum
          PROVE  Read(edition) = UNION {ByDefault(x, edition) : x \in job.pool.features}
      <3>1. job.pool.maximum \in Int
        BY JobHasPool DEF DefaultsInv, IsPool
      <3>2. edition \in Int /\ edition <= job.pool.maximum
        BY <3>1
      <3>. QED  BY <2>2, <3>2, EntriesReadBack
    <2>3. verdict = "failed" => written = <<>>
      BY DEF DefaultsInv
    <2>. QED  BY <2>1, <2>2, <2>3 DEF DefaultsAreExact
  <1>. QED  BY <1>1, DefaultsInvariance, PTL

-------------------------------------------------------------------------------
(* JSON names. *)

\* One pass reports the fields with the name of one before them, but for those it skips.
LEMMA PassReports ==
    ASSUME NEW file, NEW list, NEW n \in Nat, DOMAIN list = 1 .. n,
           \A i, j \in 1 .. n : list[i] = list[j] => i = j,
           NEW useCustom, NEW b \in 1 .. n
    PROVE  LET d(i) == file.nodes[list[i]]
           IN  list[b] \in ConflictsIn(file, list, useCustom)
                 <=> \E a \in 1 .. b - 1 :
                        /\ JsonName(d(a), useCustom) = JsonName(d(b), useCustom)
                        /\ \A c \in 1 .. a - 1 : JsonName(d(c), useCustom) # JsonName(d(b), useCustom)
                        /\ ~ Skipped(d(b), d(a), useCustom)
  <1>. DEFINE d(i) == file.nodes[list[i]]
              Same == {j \in 1 .. b : JsonName(d(j), useCustom) = JsonName(d(b), useCustom)}
              a == Min(Same)
  <1>1. list[b] \in ConflictsIn(file, list, useCustom) <=> a # b /\ ~ Skipped(d(b), d(a), useCustom)
    <2>. DEFINE Named(k) == {j \in 1 .. k : JsonName(d(j), useCustom) = JsonName(d(k), useCustom)}
                R == {j \in 1 .. n : Min(Named(j)) # j /\ ~ Skipped(d(j), d(Min(Named(j))), useCustom)}
    <2>1. ConflictsIn(file, list, useCustom) = {list[k] : k \in R}
      BY DEF ConflictsIn
    <2>2. \A k \in R : k \in 1 .. n
      OBVIOUS
    <2>3. list[b] \in {list[k] : k \in R} <=> b \in R
      <3>. HIDE DEF R
      <3>. QED  BY <2>2
    <2>. QED  BY <2>1, <2>3
  <1>2. /\ b \in Same /\ Same \in SUBSET Nat
        /\ \A j : j \in Same <=> j \in 1 .. b /\ JsonName(d(j), useCustom) = JsonName(d(b), useCustom)
    OBVIOUS
  <1>3. a \in Same /\ \A j \in Same : a <= j
    <2>. HIDE DEF Same
    <2>. QED  BY <1>2, MinOfIndices
  <1>. HIDE DEF a, Same
  <1>4. a \in 1 .. b
    BY <1>2, <1>3
  <1>5. ASSUME a # b
        PROVE  /\ a \in 1 .. b - 1 /\ JsonName(d(a), useCustom) = JsonName(d(b), useCustom)
               /\ \A c \in 1 .. a - 1 : JsonName(d(c), useCustom) # JsonName(d(b), useCustom)
    <2>1. a \in 1 .. b - 1
      BY <1>4, <1>5
    <2>2. JsonName(d(a), useCustom) = JsonName(d(b), useCustom)
      <3>. HIDE DEF d
      <3>. QED  BY <1>2, <1>3
    <2>3. ASSUME NEW c \in 1 .. a - 1 PROVE c \notin Same /\ c \in 1 .. b
      BY <1>3, <1>4
    <2>. HIDE DEF d
    <2>. QED  BY <1>2, <2>1, <2>2, <2>3
  <1>6. ASSUME NEW i \in 1 .. b - 1, JsonName(d(i), useCustom) = JsonName(d(b), useCustom),
               \A c \in 1 .. i - 1 : JsonName(d(c), useCustom) # JsonName(d(b), useCustom)
        PROVE  a = i /\ i # b
    <2>1. i \in 1 .. b /\ i # b
      OBVIOUS
    <2>2. i \in Same
      <3>. HIDE DEF d
      <3>. QED  BY <1>2, <1>6, <2>1
    <2>3. a <= i /\ a \notin 1 .. i - 1
      <3>1. a <= i /\ JsonName(d(a), useCustom) = JsonName(d(b), useCustom)
        <4>. HIDE DEF d
        <4>. QED  BY <1>2, <1>3, <2>2
      <3>. HIDE DEF d
      <3>. QED  BY <1>6, <3>1
    <2>. QED  BY <1>4, <2>1, <2>3
  <1>. QED  BY <1>1, <1>5, <1>6

\* The two passes together report the fields whose default or actual name one before them
\* has, although each sees one kind of name and skips what the other has reported.
LEMMA JsonClashes ==
    ASSUME NEW files, NEW k \in DOMAIN files, IsFile(files[k]), NEW m \in Bodies(files[k]),
           NEW b \in DOMAIN Fields(files[k], m)
    PROVE  LET d(i) == files[k].nodes[Fields(files[k], m)[i]]
           IN  Fields(files[k], m)[b] \in JsonNameConflicts(files, k)
                 <=> /\ ~ files[k].nodes[m].legacy /\ JsonFormat(files[k])[m] # "LEGACY_BEST_EFFORT"
                     /\ \E a \in 1 .. b - 1 : \/ DefaultJsonName(d(a)) = DefaultJsonName(d(b))
                                              \/ Actual(d(a)) = Actual(d(b))
  <1>. DEFINE file == files[k]
              list == Fields(file, m)
              d(i) == file.nodes[list[i]]
              looked == {i \in Bodies(file) :
                           ~ file.nodes[i].legacy /\ JsonFormat(file)[i] # "LEGACY_BEST_EFFORT"}
  <1>1. \A i : AreIn(Fields(file, i), file, i, FieldKinds)
    BY OfAreIn DEF Fields
  <1>2. PICK n \in Nat : /\ n = Len(list) /\ DOMAIN list = 1 .. n
                         /\ \A i, j \in 1 .. n : list[i] = list[j] => i = j
                         /\ \A i \in 1 .. n : list[i] \in DOMAIN file.nodes /\ file.nodes[list[i]].in = m
    <2>1. AreIn(list, file, m, FieldKinds)
      BY <1>1
    <2>2. Len(list) \in Nat /\ DOMAIN list = 1 .. Len(list)
          /\ \A i, j \in 1 .. Len(list) : list[i] = list[j] => i = j
      <3>. HIDE DEF list, file
      <3>. QED  BY <2>1, InOnce
    <2>3. \A i \in 1 .. Len(list) : list[i] \in DOMAIN file.nodes /\ file.nodes[list[i]].in = m
      <3>. HIDE DEF list, file
      <3>. QED  BY <2>1 DEF AreIn
    <2>. HIDE DEF list, file
    <2>4. PICK n \in Nat : n = Len(list)
      BY <2>2, Zenon
    <2>. WITNESS n \in Nat
    <2>. QED  BY <2>2, <2>3, <2>4
  <1>3. b \in 1 .. n
    BY <1>2
  <1>4. list[b] \in JsonNameConflicts(files, k)
          <=> m \in looked /\ \E useCustom \in Passes(files) : list[b] \in ConflictsIn(file, list, useCustom)
    <2>1. JsonNameConflicts(files, k)
             = UNION {ConflictsIn(file, Fields(file, i), useCustom) : i \in looked, useCustom \in Passes(files)}
      BY DEF JsonNameConflicts
    <2>2. \A x : x \in JsonNameConflicts(files, k)
                   <=> \E i \in looked, useCustom \in Passes(files) :
                          x \in ConflictsIn(file, Fields(file, i), useCustom)
      <3>. HIDE DEF looked, file
      <3>. QED  BY <2>1
    <2>3. ASSUME NEW i, NEW useCustom, list[b] \in ConflictsIn(file, Fields(file, i), useCustom)
          PROVE  i = m
      <3>1. PICK l : l = Fields(file, i)
        OBVIOUS
      <3>2. AreIn(l, file, i, FieldKinds)
        BY <1>1, <3>1
      <3>3. \E j \in DOMAIN l : list[b] = l[j]
        BY <2>3, <3>1 DEF ConflictsIn
      <3>4. file.nodes[list[b]].in = i
        <4>1. DOMAIN l = 1 .. Len(l)
          BY <3>2, InOnce
        <4>. HIDE DEF file, list
        <4>. QED  BY <3>2, <3>3, <4>1 DEF AreIn
      <3>. HIDE DEF file, list
      <3>. QED  BY <1>2, <1>3, <3>4
    <2>. HIDE DEF looked, file
    <2>. QED  BY <2>2, <2>3
  <1>5. m \in looked <=> ~ file.nodes[m].legacy /\ JsonFormat(file)[m] # "LEGACY_BEST_EFFORT"
    OBVIOUS
  <1>6. ASSUME NEW useCustom
        PROVE  list[b] \in ConflictsIn(file, list, useCustom)
                 <=> \E a \in 1 .. b - 1 :
                        /\ JsonName(d(a), useCustom) = JsonName(d(b), useCustom)
                        /\ \A c \in 1 .. a - 1 : JsonName(d(c), useCustom) # JsonName(d(b), useCustom)
                        /\ ~ Skipped(d(b), d(a), useCustom)
    <2>. HIDE DEF list, file
    <2>1. DOMAIN list = 1 .. n /\ \A i, j \in 1 .. n : list[i] = list[j] => i = j
      BY <1>2
    <2>. QED  BY <1>3, <2>1, PassReports
  <1>7. /\ \A x : JsonName(x, FALSE) = DefaultJsonName(x) /\ JsonName(x, TRUE) = Actual(x)
        /\ \A x : IsCustom(x, TRUE) => Explicit(x)
        /\ \A x : ~ IsCustom(x, TRUE) => Actual(x) = DefaultJsonName(x)
        /\ \A x, y : ~ Skipped(x, y, FALSE)
        /\ \A x, y : Skipped(x, y, TRUE) <=> ~ IsCustom(x, TRUE) /\ ~ IsCustom(y, TRUE)
    BY DEF JsonName, IsCustom, Actual, Skipped
  <1>8. /\ FALSE \in Passes(files) /\ Passes(files) \subseteq BOOLEAN
        /\ \A i \in 1 .. n : Explicit(d(i)) => TRUE \in Passes(files)
    <2>1. FALSE \in Passes(files) /\ Passes(files) \subseteq BOOLEAN
      BY DEF Passes
    <2>2. ASSUME NEW i \in 1 .. n, Explicit(d(i))
          PROVE  TRUE \in Passes(files)
      <3>1. d(i) \in Range(file.nodes)
        <4>. HIDE DEF list
        <4>. QED  BY <1>2 DEF Range
      <3>. QED  BY <2>2, <3>1 DEF Passes
    <2>. QED  BY <2>1, <2>2
  <1>9. \A Same \in SUBSET (1 .. b - 1) :
           Same # {} => \E a \in Same : \A c \in 1 .. a - 1 : c \notin Same
    <2>. SUFFICES ASSUME NEW Same \in SUBSET (1 .. b - 1), Same # {}
                  PROVE  \E a \in Same : \A c \in 1 .. a - 1 : c \notin Same
      OBVIOUS
    <2>1. Same \in SUBSET Nat
      BY <1>3
    <2>2. PICK a \in Same : \A i \in Same : a <= i
      BY <2>1, LeastNat
    <2>. QED  BY <2>1, <2>2
  <1>10. ASSUME NEW a \in 1 .. b - 1, DefaultJsonName(d(a)) = DefaultJsonName(d(b))
         PROVE  \E useCustom \in Passes(files) : list[b] \in ConflictsIn(file, list, useCustom)
    <2>. DEFINE Same == {c \in 1 .. b - 1 : DefaultJsonName(d(c)) = DefaultJsonName(d(b))}
    <2>1. PICK e \in Same : \A c \in 1 .. e - 1 : c \notin Same
      <3>1. Same \in SUBSET (1 .. b - 1) /\ Same # {}
        BY <1>10
      <3>. HIDE DEF Same
      <3>. QED  BY <1>9, <3>1
    <2>2. e \in 1 .. b - 1 /\ DefaultJsonName(d(e)) = DefaultJsonName(d(b))
      OBVIOUS
    <2>3. \A c \in 1 .. e - 1 : DefaultJsonName(d(c)) # DefaultJsonName(d(b))
      <3>1. \A c \in 1 .. e - 1 : c \in 1 .. b - 1
        BY <1>3, <2>2
      <3>. QED  BY <2>1, <3>1
    <2>4. list[b] \in ConflictsIn(file, list, FALSE)
      <3>1. /\ JsonName(d(e), FALSE) = JsonName(d(b), FALSE)
            /\ \A c \in 1 .. e - 1 : JsonName(d(c), FALSE) # JsonName(d(b), FALSE)
            /\ ~ Skipped(d(b), d(e), FALSE)
        <4>. HIDE DEF d
        <4>. QED  BY <1>7, <2>2, <2>3
      <3>. HIDE DEF d, list, file, Same
      <3>. QED  BY <1>6, <2>2, <3>1
    <2>. QED  BY <1>8, <2>4
  <1>11. ASSUME NEW a \in 1 .. b - 1, Actual(d(a)) = Actual(d(b)),
                \A c \in 1 .. b - 1 : DefaultJsonName(d(c)) # DefaultJsonName(d(b))
         PROVE  \E useCustom \in Passes(files) : list[b] \in ConflictsIn(file, list, useCustom)
    <2>. DEFINE Same == {c \in 1 .. b - 1 : Actual(d(c)) = Actual(d(b))}
    <2>1. PICK e \in Same : \A c \in 1 .. e - 1 : c \notin Same
      <3>1. Same \in SUBSET (1 .. b - 1) /\ Same # {}
        BY <1>11
      <3>. HIDE DEF Same
      <3>. QED  BY <1>9, <3>1
    <2>2. e \in 1 .. b - 1 /\ Actual(d(e)) = Actual(d(b))
      OBVIOUS
    <2>3. \A c \in 1 .. e - 1 : Actual(d(c)) # Actual(d(b))
      <3>1. \A c \in 1 .. e - 1 : c \in 1 .. b - 1
        BY <1>3, <2>2
      <3>. QED  BY <2>1, <3>1
    <2>4. IsCustom(d(e), TRUE) \/ IsCustom(d(b), TRUE)
      <3>. HIDE DEF d, Same
      <3>. QED  BY <1>7, <1>11, <2>2
    <2>5. TRUE \in Passes(files)
      <3>1. e \in 1 .. n
        BY <1>3, <2>2
      <3>. HIDE DEF d, Same
      <3>. QED  BY <1>3, <1>7, <1>8, <2>4, <3>1
    <2>6. list[b] \in ConflictsIn(file, list, TRUE)
      <3>1. /\ JsonName(d(e), TRUE) = JsonName(d(b), TRUE)
            /\ \A c \in 1 .. e - 1 : JsonName(d(c), TRUE) # JsonName(d(b), TRUE)
            /\ ~ Skipped(d(b), d(e), TRUE)
        <4>. HIDE DEF d
        <4>. QED  BY <1>7, <2>2, <2>3, <2>4
      <3>. HIDE DEF d, list, file, Same
      <3>. QED  BY <1>6, <2>2, <3>1
    <2>. QED  BY <2>5, <2>6
  <1>12. ASSUME NEW useCustom \in Passes(files), list[b] \in ConflictsIn(file, list, useCustom)
         PROVE  \E a \in 1 .. b - 1 : \/ DefaultJsonName(d(a)) = DefaultJsonName(d(b))
                                      \/ Actual(d(a)) = Actual(d(b))
    <2>1. PICK a \in 1 .. b - 1 : JsonName(d(a), useCustom) = JsonName(d(b), useCustom)
      <3>. HIDE DEF d, list, file
      <3>. QED  BY <1>6, <1>12
    <2>2. useCustom = TRUE \/ useCustom = FALSE
      BY <1>8
    <2>. HIDE DEF d
    <2>. QED  BY <1>7, <2>1, <2>2
  <1>. HIDE DEF d, looked
  <1>13. list[b] \in JsonNameConflicts(files, k)
           <=> /\ ~ file.nodes[m].legacy /\ JsonFormat(file)[m] # "LEGACY_BEST_EFFORT"
               /\ \E a \in 1 .. b - 1 : \/ DefaultJsonName(d(a)) = DefaultJsonName(d(b))
                                        \/ Actual(d(a)) = Actual(d(b))
    <2>. HIDE DEF list, file
    <2>. QED  BY <1>4, <1>5, <1>10, <1>11, <1>12
  <1>. QED  BY <1>13 DEF d

-------------------------------------------------------------------------------
(* Values of an enum. *)

\* Values that are one name without the enum's are one number, if none is compared in vain
\* with the first of its name.
LEMMA ValuesStayApart ==
    ASSUME NEW file, IsFile(file), IsDescribed(file), HasUniqueNames(file), NEW e \in EnumsOf(file),
           NEW values, values = Of(file, e, {"value"}), ConflictsInEnum(file, e, values) = {},
           NEW u \in Range(values), NEW v \in Range(values), Stripped(file, e, u) = Stripped(file, e, v)
    PROVE  file.nodes[u].number = file.nodes[v].number
  <1>1. PICK n \in Nat : DOMAIN values = 1 .. n
    BY OfIsSeq, SeqIs
  <1>2. PICK a \in 1 .. n : values[a] = u
    BY <1>1 DEF Range
  <1>3. PICK b \in 1 .. n : values[b] = v
    BY <1>1 DEF Range
  <1>. DEFINE S(j) == Stripped(file, e, values[j])
              Same(k) == {j \in 1 .. k : S(j) = S(k)}
              d(j) == file.nodes[values[j]]
              R == {j \in DOMAIN values :
                      d(Min(Same(j))).name # d(j).name /\ d(Min(Same(j))).number # d(j).number}
  <1>4. R = {}
    <2>1. {values[j] : j \in R} = {}
      BY DEF ConflictsInEnum
    <2>. HIDE DEF R
    <2>. QED  BY <2>1, EmptyImage
  <1>5. \A k \in 1 .. n : d(Min(Same(k))).name = d(k).name \/ d(Min(Same(k))).number = d(k).number
    <2>. HIDE DEF Same, d
    <2>. QED  BY <1>1, <1>4
  <1>. HIDE DEF R
  <1>6. \A k : \A j : j \in Same(k) <=> j \in 1 .. k /\ S(j) = S(k)
    OBVIOUS
  <1>. HIDE DEF Same
  <1>7. ASSUME NEW k \in 1 .. n
        PROVE  /\ Min(Same(k)) \in 1 .. k /\ S(Min(Same(k))) = S(k)
               /\ \A j \in 1 .. k : S(j) = S(k) => Min(Same(k)) <= j
    <2>1. k \in Same(k) /\ Same(k) \in SUBSET Nat
      <3>1. k \in 1 .. k /\ \A j \in 1 .. k : j \in Nat
        OBVIOUS
      <3>. HIDE DEF S
      <3>. QED  BY <1>6, <3>1
    <2>2. Min(Same(k)) \in Same(k) /\ \A j \in Same(k) : Min(Same(k)) <= j
      BY <2>1, MinOfIndices
    <2>. HIDE DEF S
    <2>. QED  BY <1>6, <2>2
  <1>. HIDE DEF S
  <1>8. ASSUME NEW k \in 1 .. n
        PROVE  /\ d(Min(Same(k))).number = d(k).number
               /\ Min(Same(k)) \in Int
    <2>1. PICK m \in 1 .. k : m = Min(Same(k))
      BY <1>7
    <2>2. m \in DOMAIN values /\ k \in DOMAIN values
      BY <1>1
    <2>3. d(m).name = d(k).name => m = k
      BY <2>2, ValuesHaveNames
    <2>. HIDE DEF d
    <2>. QED  BY <1>5, <2>1, <2>3
  <1>9. ASSUME NEW k \in 1 .. n, NEW l \in 1 .. n, S(k) = S(l)
        PROVE  Min(Same(k)) <= Min(Same(l))
    <2>1. PICK x \in 1 .. k : /\ x = Min(Same(k)) /\ \A j \in 1 .. k : S(j) = S(k) => x <= j
      BY <1>7
    <2>2. PICK y \in 1 .. l : y = Min(Same(l)) /\ S(y) = S(l)
      BY <1>7
    <2>3. CASE y <= k
      <3>1. y \in 1 .. k
        BY <2>3
      <3>2. S(y) = S(k)
        BY <1>9, <2>2
      <3>. QED  BY <2>1, <2>2, <3>1, <3>2
    <2>4. CASE ~ (y <= k)
      <3>1. x <= y
        BY <2>4
      <3>. QED  BY <2>1, <2>2, <3>1
    <2>. QED  BY <2>3, <2>4
  <1>10. S(a) = S(b)
    BY <1>2, <1>3 DEF S
  <1>11. Min(Same(a)) = Min(Same(b))
    <2>1. Min(Same(a)) <= Min(Same(b)) /\ Min(Same(b)) <= Min(Same(a))
      BY <1>9, <1>10
    <2>. HIDE DEF d
    <2>. QED  BY <1>8, <2>1
  <1>12. d(a).number = d(b).number
    <2>. HIDE DEF d
    <2>. QED  BY <1>8, <1>11
  <1>. QED  BY <1>2, <1>3, <1>12

-------------------------------------------------------------------------------
(* The validators of names. *)

\* How many files the registry knows.
Known == IF registered > Len(Files) THEN Len(Files) ELSE registered

\* The registry notes what the files so far declare; nothing else is validated, let alone
\* accepted, before all have been registered and their entry types looked at.
RegistryInv ==
    /\ job \in UNION Jobs
    /\ registered \in Nat /\ Len(Files) \in Nat /\ DOMAIN Files = 1 .. Len(Files)
    /\ Notes(registry, Registered(Files, Known))
    /\ registered > Len(Files) =>
          \A k \in DOMAIN Files : {k} \X MapEntryConflicts(Files[k]) \subseteq mapConflicts
    /\ at > 1 => registered > Len(Files)
    /\ outcome \in {"accepted", "printed"} => registry.errors = {}

\* The files of a job, and their declarations, are as parsing and resolution leave them.
LEMMA JobIsDescribed ==
    ASSUME job \in UNION Jobs, NEW k \in DOMAIN Files
    PROVE  IsFile(Files[k]) /\ IsDescribed(Files[k])
  BY FilesAssumption DEF Files, Range

LEMMA JobHasFiles ==
    ASSUME job \in UNION Jobs
    PROVE  /\ Len(Files) \in Nat /\ DOMAIN Files = 1 .. Len(Files)
           /\ AreFiles(Files, Len(Files)) /\ \A k \in DOMAIN Files : IsFile(Files[k]) /\ IsDescribed(Files[k])
  <1>1. Files \in Seq(Range(Files))
    BY FilesAssumption DEF Files
  <1>2. Len(Files) \in Nat /\ DOMAIN Files = 1 .. Len(Files)
    BY <1>1, LenProperties
  <1>3. \A k \in DOMAIN Files : IsFile(Files[k]) /\ IsDescribed(Files[k])
    BY JobIsDescribed
  <1>. QED  BY <1>2, <1>3 DEF AreFiles

\* Without an error, the names of each file so far are unique.
LEMMA NamesAreUnique ==
    ASSUME RegistryInv, registry.errors = {}, NEW k \in DOMAIN Files, k <= registered
    PROVE  HasUniqueNames(Files[k])
  <1>1. PICK P : P = Registered(Files, Known)
    OBVIOUS
  <1>2. k \in 1 .. Known
    BY DEF Known, RegistryInv
  <1>3. Notes(registry, P)
    BY <1>1 DEF RegistryInv
  <1>4. \A s \in Range(Symbols(Files[k])) : <<k, s>> \in P
    BY <1>1, <1>2 DEF Registered
  <1>5. IsFile(Files[k]) /\ IsDescribed(Files[k])
    BY JobIsDescribed DEF RegistryInv
  <1>6. PICK r : r = registry
    OBVIOUS
  <1>7. PICK file : file = Files[k]
    OBVIOUS
  <1>. QED  BY <1>3, <1>4, <1>5, <1>6, <1>7, NoErrorsNoted

LEMMA RegistryInit == Init => RegistryInv
  <1>. SUFFICES ASSUME Init PROVE RegistryInv
    OBVIOUS
  <1>1. /\ job \in UNION Jobs /\ registry = EmptyRegistry /\ registered = 0
        /\ at = 0 /\ outcome = "running"
    BY DEF Init, Numbers!Init
  <1>2. Len(Files) \in Nat /\ DOMAIN Files = 1 .. Len(Files)
    BY <1>1, JobHasFiles
  <1>3. Registered(Files, Known) = {}
    <2>1. Known = 0
      BY <1>1, <1>2 DEF Known
    <2>2. 1 .. 0 = {}
      OBVIOUS
    <2>. QED  BY <2>1, <2>2 DEF Registered
  <1>4. Notes(registry, Registered(Files, Known))
    BY <1>1, <1>3, NothingNoted
  <1>. QED  BY <1>1, <1>2, <1>4 DEF RegistryInv

LEMMA RegistryStays ==
    ASSUME RegistryInv, UNCHANGED <<job, registry, registered, mapConflicts>>,
           at' > 1 => registered > Len(Files),
           outcome' \in {"accepted", "printed"} => registry.errors = {}
    PROVE  RegistryInv'
  <1>1. Files' = Files /\ Known' = Known
    BY DEF Files, Known
  <1>. QED  BY <1>1 DEF RegistryInv

LEMMA RegistryStep == NumInv /\ RegistryInv /\ [Next]_vars => RegistryInv'
  <1>. SUFFICES ASSUME NumInv, RegistryInv, [Next]_vars PROVE RegistryInv'
    OBVIOUS
  <1>1. ASSUME UNCHANGED <<job, registry, registered, mapConflicts, at, outcome>> PROVE RegistryInv'
    BY <1>1, RegistryStays DEF RegistryInv
  <1>2. CASE Parse
    <2>1. /\ UNCHANGED <<job, registry, registered, mapConflicts>> /\ outcome' \in {"running", "unparsed"}
          /\ ~ (at' > 1)
      BY <1>2 DEF Parse, Numbers!Parse, names
    <2>. QED  BY <2>1, RegistryStays
  <1>3. CASE Validate
    <2>1. UNCHANGED <<job, outcome>>
      BY <1>3, ValidateReports DEF Validate, ReportsWrong
    <2>2. UNCHANGED <<registry, registered, mapConflicts>> /\ registered > Len(Files)
      BY <1>3 DEF Validate, names
    <2>. QED  BY <2>1, <2>2, RegistryStays DEF RegistryInv
  <1>4. CASE Decide
    <2>1. /\ UNCHANGED <<job, registry, registered, mapConflicts, at>>
          /\ outcome' = "accepted" => registry.errors = {}
          /\ outcome' \in {"accepted", "refused"}
      BY <1>4 DEF Decide, Numbers!Decide, names
    <2>. QED  BY <2>1, RegistryStays DEF RegistryInv
  <1>5. CASE RegisterNext
    <2>1. PICK k : k = registered + 1
      OBVIOUS
    <2>2. /\ at = 1 /\ registered < Len(Files) /\ registry' = RegisterFile(registry, Files, k)
          /\ registered' = k /\ UNCHANGED <<job, at, outcome>>
      BY <1>5, <2>1 DEF RegisterNext, numbers
    <2>3. k \in DOMAIN Files /\ k \in Nat /\ ~ (k > Len(Files))
      BY <2>1, <2>2 DEF RegistryInv
    <2>4. IsFile(Files[k]) /\ IsDescribed(Files[k])
      BY <2>3, JobIsDescribed DEF RegistryInv
    <2>5. Files' = Files /\ Known' = k /\ Known = registered
      BY <2>2, <2>3 DEF Files, Known, RegistryInv
    <2>6. PICK r, files, P, Q : /\ r = registry /\ files = Files
                                /\ P = Registered(Files, registered) /\ Q = Registered(Files, k)
      OBVIOUS
    <2>7. Notes(r, P)
      BY <2>5, <2>6 DEF RegistryInv
    <2>8. \A p \in P : p[1] \in Int /\ p[1] < k
      <3>1. ASSUME NEW p \in P PROVE p[1] \in Int /\ p[1] < k
        <4>1. PICK j \in 1 .. registered : p \in {j} \X Range(Symbols(Files[j]))
          BY <2>6 DEF Registered
        <4>2. p[1] = j
          BY <4>1
        <4>. QED  BY <2>1, <4>1, <4>2 DEF RegistryInv
      <3>. QED  BY <3>1
    <2>9. \A q : q \in Q <=> q \in P \/ \E s \in Range(Symbols(files[k])) : q = <<k, s>>
      <3>1. \A q : q \in Q <=> \E j \in 1 .. k : q \in {j} \X Range(Symbols(files[j]))
        BY <2>6 DEF Registered
      <3>2. \A q : q \in P <=> \E j \in 1 .. registered : q \in {j} \X Range(Symbols(files[j]))
        BY <2>6 DEF Registered
      <3>3. \A j : j \in 1 .. k <=> j \in 1 .. registered \/ j = k
        BY <2>1 DEF RegistryInv
      <3>4. \A q : q \in {k} \X Range(Symbols(files[k])) <=> \E s \in Range(Symbols(files[k])) : q = <<k, s>>
        OBVIOUS
      <3>. QED  BY <3>1, <3>2, <3>3, <3>4
    <2>10. Notes(RegisterFile(r, files, k), Q)
      BY <2>3, <2>4, <2>6, <2>7, <2>8, <2>9, RegisterFileNotes
    <2>11. Notes(registry', Registered(Files', Known'))
      BY <2>2, <2>5, <2>6, <2>10
    <2>12. ~ (at' > 1) /\ ~ (outcome' \in {"accepted", "printed"})
      BY <2>2 DEF NumInv, Numbers!Decided
    <2>. QED  BY <2>2, <2>3, <2>5, <2>11, <2>12 DEF RegistryInv
  <1>6. CASE validateMapEntryConflicts
    <2>1. /\ registered = Len(Files) /\ registered' = registered + 1
          /\ UNCHANGED <<job, at, outcome, registry>>
          /\ mapConflicts' = IF registry.errors = {} THEN {}
                             ELSE UNION {{k} \X MapEntryConflicts(Files[k]) : k \in DOMAIN Files}
      BY <1>6 DEF validateMapEntryConflicts, numbers
    <2>2. Files' = Files /\ Known' = Known /\ registered' \in Nat /\ registered' > Len(Files)
      BY <2>1 DEF Files, Known, RegistryInv
    <2>3. ASSUME NEW k \in DOMAIN Files
          PROVE  {k} \X MapEntryConflicts(Files[k]) \subseteq mapConflicts'
      <3>1. CASE registry.errors = {}
        <4>1. k <= registered
          BY <2>1 DEF RegistryInv
        <4>2. HasUniqueNames(Files[k])
          BY <3>1, <4>1, NamesAreUnique
        <4>3. IsFile(Files[k]) /\ IsDescribed(Files[k])
          BY JobIsDescribed DEF RegistryInv
        <4>4. MapEntryConflicts(Files[k]) = {}
          BY <4>2, <4>3, NoMapConflicts
        <4>. QED  BY <4>4
      <3>2. CASE registry.errors # {}
        BY <2>1, <3>2
      <3>. QED  BY <3>1, <3>2
    <2>. QED  BY <2>1, <2>2, <2>3 DEF RegistryInv
  <1>7. CASE ValidateRule \/ ValidateDescriptors \/ DecideDescriptors
    BY <1>1, <1>7 DEF ValidateRule, ValidateDescriptors, DecideDescriptors, numbers, names
  <1>8. CASE PrintFree
    <2>1. UNCHANGED <<job, at, registry, registered, mapConflicts>> /\ outcome = "accepted"
      BY <1>8, Zenon DEF PrintFree, Numbers!PrintFree, names
    <2>. QED  BY <2>1, RegistryStays DEF RegistryInv
  <1>9. CASE CannotDescribe \/ CannotEncode \/ AppendEntry \/ WriteDefaults \/ Terminated \/ UNCHANGED vars
    <2>1. UNCHANGED <<job, registry, registered, mapConflicts, at, outcome>>
      BY <1>9, Zenon DEF CannotDescribe, CannotEncode, AppendEntry, WriteDefaults, Terminated, Fail, vars,
           numbers, names
    <2>. QED  BY <1>1, <2>1
  <1>. QED  BY <1>2, <1>3, <1>4, <1>5, <1>6, <1>7, <1>8, <1>9 DEF Next

\* What the validators of names have said once each is done: validateJsonNameConflicts is
\* the first of phase 2, validateEnumPrefixConflict the tenth.
JsonSaid(k, i) ==
    IF Files[k].syntax = "proto2" THEN <<k, i>> \in valWarnings
    ELSE [what |-> "JsonNameConflicts", at |-> <<k, i>>] \in valErrors

FoundInv ==
    /\ checked \in 0 .. 21
    /\ checked > 0 => outcome \in {"accepted", "printed"}
    /\ outcome = "running" => verdict = "running"
    /\ verdict \in {"accepted", "failed", "done"} => checked = 21
    /\ verdict = "refused" /\ outcome = "accepted" => checked = 21
    /\ checked = 0 => valErrors = {} /\ valWarnings = {}
    /\ checked > 0 => \A k \in DOMAIN Files : \A i : JsonSaid(k, i) <=> i \in JsonNameConflicts(Files, k)
    /\ checked > 9 /\ valErrors = {} => \A k \in DOMAIN Files : EnumPrefixConflicts(Files[k]) = {}

LEMMA Phase2Is ==
    /\ Len(Phase2) = 21
    /\ Phase2[1] = "JsonNameConflicts" /\ Phase2[10] = "EnumPrefixConflict"
    /\ \A j \in 2 .. 21 : Phase2[j] # "JsonNameConflicts"
  BY DEF Phase2

LEMMA FoundInit == Init => FoundInv
  BY DEF Init, Numbers!Init, FoundInv

LEMMA FoundStays ==
    ASSUME FoundInv, UNCHANGED <<job, checked, valErrors, valWarnings>>,
           checked > 0 => outcome' \in {"accepted", "printed"},
           outcome' = "running" => verdict' = "running",
           verdict' \in {"accepted", "failed", "done"} => checked = 21,
           verdict' = "refused" /\ outcome' = "accepted" => checked = 21
    PROVE  FoundInv'
  <1>1. Files' = Files
    BY DEF Files
  <1>2. \A k, i : JsonSaid(k, i)' <=> JsonSaid(k, i)
    BY <1>1 DEF JsonSaid
  <1>. QED  BY <1>1, <1>2 DEF FoundInv

LEMMA FoundNext == FoundInv /\ ValidateDescriptors => FoundInv'
  <1>. SUFFICES ASSUME FoundInv, ValidateDescriptors PROVE FoundInv'
    OBVIOUS
  <1>. DEFINE v == Phase2[checked + 1]
              found == IF IsDue(v) THEN UNION {{k} \X Found(v, k) : k \in DOMAIN Files} ELSE {}
              warned == {w \in found : IsWarning(v, w[1])}
  <1>1. /\ outcome = "accepted" /\ verdict = "running" /\ checked < 21
        /\ valErrors' = valErrors \cup {[what |-> v, at |-> w] : w \in found \ warned}
        /\ valWarnings' = valWarnings \cup warned
        /\ checked' = checked + 1 /\ UNCHANGED <<job, outcome, verdict>>
    BY Phase2Is DEF ValidateDescriptors, numbers
  <1>2. Files' = Files
    BY <1>1 DEF Files
  <1>3. checked \in 0 .. 20 /\ checked' \in 1 .. 21
    BY <1>1 DEF FoundInv
  <1>4. \A k, i : IsDue(v) => (<<k, i>> \in found <=> k \in DOMAIN Files /\ i \in Found(v, k))
    OBVIOUS
  <1>5. \A k, i : <<k, i>> \in warned <=> <<k, i>> \in found /\ IsWarning(v, k)
    <2>. HIDE DEF found, v
    <2>. QED  OBVIOUS
  <1>6. \A w : [what |-> v, at |-> w] \in valErrors'
                  <=> [what |-> v, at |-> w] \in valErrors \/ (w \in found /\ w \notin warned)
    <2>. HIDE DEF found, v, warned
    <2>. QED  BY <1>1
  <1>7. \A k \in DOMAIN Files : \A i : JsonSaid(k, i)' <=> i \in JsonNameConflicts(Files, k)
    <2>1. CASE checked = 0
      <3>1. v = "JsonNameConflicts"
        BY <2>1, Phase2Is
      <3>2. IsDue(v) /\ \A k : IsWarning(v, k) <=> Files[k].syntax = "proto2"
        BY <3>1 DEF IsDue, IsWarning
      <3>3. \A k : Found(v, k) = JsonNameConflicts(Files, k)
        BY <3>1 DEF Found
      <3>4. valErrors = {} /\ valWarnings = {}
        BY <2>1 DEF FoundInv
      <3>. HIDE DEF found, warned, v
      <3>5. ASSUME NEW k \in DOMAIN Files, NEW i
            PROVE  JsonSaid(k, i)' <=> i \in JsonNameConflicts(Files, k)
        <4>1. <<k, i>> \in found <=> i \in JsonNameConflicts(Files, k)
          BY <1>4, <3>2, <3>3
        <4>2. CASE Files[k].syntax = "proto2"
          <5>1. <<k, i>> \in valWarnings' <=> <<k, i>> \in warned
            BY <1>1, <3>4
          <5>. QED  BY <1>2, <1>5, <3>2, <4>1, <4>2, <5>1 DEF JsonSaid
        <4>3. CASE Files[k].syntax # "proto2"
          <5>1. [what |-> v, at |-> <<k, i>>] \in valErrors' <=> <<k, i>> \in found /\ <<k, i>> \notin warned
            BY <1>6, <3>4
          <5>. QED  BY <1>2, <1>5, <3>1, <3>2, <4>1, <4>3, <5>1 DEF JsonSaid
        <4>. QED  BY <4>2, <4>3
      <3>. QED  BY <3>5
    <2>2. CASE checked # 0
      <3>1. v # "JsonNameConflicts"
        BY <1>3, <2>2, Phase2Is
      <3>2. warned = {}
        <4>. HIDE DEF found, v
        <4>. QED  BY <3>1 DEF IsWarning
      <3>. HIDE DEF found, warned, v
      <3>3. valWarnings' = valWarnings
        BY <1>1, <3>2
      <3>4. \A w : [what |-> "JsonNameConflicts", at |-> w] \in valErrors'
                      <=> [what |-> "JsonNameConflicts", at |-> w] \in valErrors
        BY <1>1, <3>1
      <3>5. \A k, i : JsonSaid(k, i)' <=> JsonSaid(k, i)
        BY <1>2, <3>3, <3>4 DEF JsonSaid
      <3>6. checked > 0
        BY <1>3, <2>2
      <3>. QED  BY <3>5, <3>6 DEF FoundInv
    <2>. QED  BY <2>1, <2>2
  <1>8. ASSUME checked' > 9, valErrors' = {}
        PROVE  \A k \in DOMAIN Files : EnumPrefixConflicts(Files[k]) = {}
    <2>1. valErrors = {}
      <3>. HIDE DEF found, warned, v
      <3>. QED  BY <1>1, <1>8
    <2>2. CASE checked = 9
      <3>1. v = "EnumPrefixConflict"
        BY <2>2, Phase2Is
      <3>2. IsDue(v) /\ \A k : ~ IsWarning(v, k)
        BY <3>1 DEF IsDue, IsWarning
      <3>3. \A k : Found(v, k) = EnumPrefixConflicts(Files[k])
        BY <3>1 DEF Found
      <3>. HIDE DEF found, warned, v
      <3>4. ASSUME NEW k \in DOMAIN Files, NEW i \in EnumPrefixConflicts(Files[k]) PROVE FALSE
        <4>1. <<k, i>> \in found /\ <<k, i>> \notin warned
          BY <1>4, <1>5, <3>2, <3>3
        <4>. QED  BY <1>6, <1>8, <4>1
      <3>. QED  BY <3>4
    <2>3. CASE checked # 9
      <3>1. checked > 9
        BY <1>1, <1>3, <1>8, <2>3
      <3>. QED  BY <2>1, <3>1 DEF FoundInv
    <2>. QED  BY <2>2, <2>3
  <1>. HIDE DEF found, warned, v
  <1>9. checked' > 0 /\ checked' # 0 /\ checked' \in 0 .. 21
    BY <1>3
  <1>10. outcome' = "accepted" /\ verdict' = "running"
    BY <1>1
  <1>. QED  BY <1>2, <1>7, <1>8, <1>9, <1>10 DEF FoundInv

LEMMA FoundStep == NumInv /\ FoundInv /\ [Next]_vars => FoundInv'
  <1>. SUFFICES ASSUME NumInv, FoundInv, [Next]_vars PROVE FoundInv'
    OBVIOUS
  <1>1. ASSUME UNCHANGED <<job, checked, valErrors, valWarnings, outcome, verdict>> PROVE FoundInv'
    BY <1>1, FoundStays DEF FoundInv
  <1>2. CASE Parse
    <2>1. /\ UNCHANGED <<job, checked, valErrors, valWarnings>> /\ outcome = "running"
          /\ \/ outcome' = "unparsed" /\ verdict' = "refused"
             \/ outcome' = "running" /\ verdict' = verdict
      BY <1>2 DEF Parse, Numbers!Parse, descriptors
    <2>2. checked = 0 /\ verdict = "running"
      BY <2>1 DEF FoundInv
    <2>. QED  BY <2>1, <2>2, FoundStays
  <1>3. CASE Validate
    <2>1. UNCHANGED <<job, outcome>>
      BY <1>3, ValidateReports DEF Validate, ReportsWrong
    <2>. QED  BY <1>1, <1>3, <2>1 DEF Validate, descriptors
  <1>4. CASE Decide
    <2>1. /\ UNCHANGED <<job, checked, valErrors, valWarnings>> /\ outcome = "running"
          /\ \/ outcome' = "refused" /\ verdict' = "refused"
             \/ outcome' = "accepted" /\ verdict' = verdict
      BY <1>4 DEF Decide, Numbers!Decide, descriptors
    <2>2. checked = 0 /\ verdict = "running"
      BY <2>1 DEF FoundInv
    <2>. QED  BY <2>1, <2>2, FoundStays
  <1>5. CASE ValidateDescriptors
    BY <1>5, FoundNext
  <1>6. CASE DecideDescriptors
    <2>1. /\ UNCHANGED <<job, checked, valErrors, valWarnings, outcome>> /\ checked = 21
          /\ verdict' \in {"accepted", "refused"}
      BY <1>6, Phase2Is DEF DecideDescriptors, descriptors, numbers
    <2>2. outcome \in {"accepted", "printed"}
      BY <2>1 DEF FoundInv
    <2>. QED  BY <2>1, <2>2, FoundStays
  <1>7. CASE PrintFree
    <2>1. /\ UNCHANGED <<job, checked, valErrors, valWarnings>> /\ verdict = "accepted"
          /\ outcome' = "printed" /\ verdict' = "done"
      BY <1>7, Zenon DEF PrintFree, Numbers!PrintFree, descriptors
    <2>. QED  BY <2>1, FoundStays DEF FoundInv
  <1>8. CASE CannotDescribe \/ CannotEncode \/ WriteDefaults
    <2>1. /\ UNCHANGED <<job, checked, valErrors, valWarnings, outcome>> /\ verdict = "accepted"
          /\ verdict' \in {"failed", "done"}
      <3>1. /\ UNCHANGED <<job, checked, valErrors, valWarnings, outcome>> /\ verdict = "accepted"
            /\ verdict' = "failed" \/ verdict' = "done"
        BY <1>8, Zenon DEF CannotDescribe, CannotEncode, WriteDefaults, Asked, Fail, descriptors, numbers
      <3>. QED  BY <3>1
    <2>2. checked = 21 /\ outcome \in {"accepted", "printed"}
      BY <2>1 DEF FoundInv
    <2>. QED  BY <2>1, <2>2, FoundStays
  <1>9. CASE ValidateRule \/ RegisterNext \/ validateMapEntryConflicts \/ AppendEntry
             \/ Terminated \/ UNCHANGED vars
    <2>1. UNCHANGED <<job, checked, valErrors, valWarnings, outcome, verdict>>
      BY <1>9, Zenon DEF ValidateRule, RegisterNext, validateMapEntryConflicts, AppendEntry, Terminated,
           vars, numbers, descriptors
    <2>. QED  BY <1>1, <2>1
  <1>. QED  BY <1>2, <1>3, <1>4, <1>5, <1>6, <1>7, <1>8, <1>9 DEF Next

NamesInv == NumInv /\ RegistryInv /\ FoundInv

\* Throughout a compilation: files registered without an error have unique names, and the
\* two validators of derived names have said all they found, and nothing else.
THEOREM NamesInvariance == Spec => []NamesInv
  <1>1. Init => NamesInv
    BY NumInit, RegistryInit, FoundInit DEF NamesInv
  <1>2. NamesInv /\ [Next]_vars => NamesInv'
    BY NumStep, RegistryStep, FoundStep DEF NamesInv
  <1>. QED  BY <1>1, <1>2, PTL DEF Spec

\* However the two passes over JSON names and their skipping interleave, exactly the fields
\* with the default or the actual name of one before them are reported, and values of an
\* accepted enum that are one name without the enum's are one number, because their full
\* names differ too (validateJsonNameConflicts, validateEnumPrefixConflict).
THEOREM DerivedNamesAlwaysStayApart == Spec => []DerivedNamesStayApart
  <1>1. NamesInv => DerivedNamesStayApart
    <2>. SUFFICES ASSUME NamesInv, DescriptorsDecided, NEW k \in DOMAIN Files
                  PROVE  LET nodes == Files[k].nodes
                             format == JsonFormat(Files[k])
                             Reported(i) == IF Files[k].syntax = "proto2" THEN <<k, i>> \in valWarnings
                                            ELSE i \in Wrong("JsonNameConflicts", k)
                             Clash(i, j) == \/ DefaultJsonName(nodes[i]) = DefaultJsonName(nodes[j])
                                            \/ Actual(nodes[i]) = Actual(nodes[j])
                         IN  /\ \A m \in Bodies(Files[k]) :
                                  LET fields == Fields(Files[k], m)
                                      exempt == nodes[m].legacy \/ format[m] = "LEGACY_BEST_EFFORT"
                                  IN  \A b \in DOMAIN fields :
                                         Reported(fields[b])
                                           <=> (~exempt /\ \E a \in 1 .. b - 1 : Clash(fields[a], fields[b]))
                             /\ valErrors = {} =>
                                  \A e \in EnumsOf(Files[k]) :
                                     \/ Files[k].syntax = "proto2" /\ nodes[e].legacy
                                     \/ \A u, v \in Range(Of(Files[k], e, {"value"})) :
                                           Stripped(Files[k], e, u) = Stripped(Files[k], e, v) =>
                                              nodes[u].number = nodes[v].number
      BY DEF DerivedNamesStayApart
    <2>1. checked = 21
      BY DEF NamesInv, FoundInv, DescriptorsDecided
    <2>2. at = 24 /\ registry.errors = {}
      BY <2>1 DEF NamesInv, NumInv, FoundInv, RegistryInv, Numbers!Decided
    <2>3. IsFile(Files[k]) /\ IsDescribed(Files[k]) /\ HasUniqueNames(Files[k])
      <3>1. IsFile(Files[k]) /\ IsDescribed(Files[k]) /\ registered > Len(Files) /\ DOMAIN Files = 1 .. Len(Files)
            /\ registered \in Nat /\ Len(Files) \in Nat
        BY <2>2, JobHasFiles DEF NamesInv, RegistryInv
      <3>2. k <= registered
        BY <3>1
      <3>. QED  BY <2>2, <3>1, <3>2, NamesAreUnique DEF NamesInv
    <2>4. \A i : JsonSaid(k, i) <=> i \in JsonNameConflicts(Files, k)
      BY <2>1 DEF NamesInv, FoundInv
    <2>5. ASSUME NEW m \in Bodies(Files[k]), NEW b \in DOMAIN Fields(Files[k], m)
          PROVE  LET i == Fields(Files[k], m)[b]
                     d(a) == Files[k].nodes[Fields(Files[k], m)[a]]
                 IN  (IF Files[k].syntax = "proto2" THEN <<k, i>> \in valWarnings
                      ELSE i \in Wrong("JsonNameConflicts", k))
                       <=> /\ ~ (Files[k].nodes[m].legacy \/ JsonFormat(Files[k])[m] = "LEGACY_BEST_EFFORT")
                           /\ \E a \in 1 .. b - 1 : \/ DefaultJsonName(d(a)) = DefaultJsonName(d(b))
                                                    \/ Actual(d(a)) = Actual(d(b))
      <3>. DEFINE i == Fields(Files[k], m)[b]
      <3>1. i \in 0 .. Len(Files[k].nodes)
        <4>1. i \in DOMAIN Files[k].nodes
          BY <2>3, OfIsSeq DEF Fields
        <4>2. Len(Files[k].nodes) \in Nat /\ DOMAIN Files[k].nodes = 1 .. Len(Files[k].nodes)
          BY <2>3, LenProperties DEF IsFile
        <4>. HIDE DEF i
        <4>. QED  BY <4>1, <4>2
      <3>2. i \in Wrong("JsonNameConflicts", k) <=> [what |-> "JsonNameConflicts", at |-> <<k, i>>] \in valErrors
        <4>. HIDE DEF i
        <4>. QED  BY <3>1 DEF Wrong
      <3>3. (IF Files[k].syntax = "proto2" THEN <<k, i>> \in valWarnings ELSE i \in Wrong("JsonNameConflicts", k))
              <=> i \in JsonNameConflicts(Files, k)
        <4>. HIDE DEF i
        <4>. QED  BY <2>4, <3>2 DEF JsonSaid
      <3>. QED  BY <2>3, <3>3, JsonClashes
    <2>6. ASSUME valErrors = {}, NEW e \in EnumsOf(Files[k]),
                 ~ (Files[k].syntax = "proto2" /\ Files[k].nodes[e].legacy),
                 NEW u \in Range(Of(Files[k], e, {"value"})), NEW v \in Range(Of(Files[k], e, {"value"})),
                 Stripped(Files[k], e, u) = Stripped(Files[k], e, v)
          PROVE  Files[k].nodes[u].number = Files[k].nodes[v].number
      <3>1. EnumPrefixConflicts(Files[k]) = {}
        BY <2>1, <2>6 DEF NamesInv, FoundInv
      <3>2. PICK values : values = Of(Files[k], e, {"value"})
        OBVIOUS
      <3>3. ConflictsInEnum(Files[k], e, values) = {}
        BY <2>6, <3>1, <3>2 DEF EnumPrefixConflicts
      <3>. QED  BY <2>3, <2>6, <3>2, <3>3, ValuesStayApart
    <2>. QED  BY <2>5, <2>6
  <1>. QED  BY <1>1, NamesInvariance, PTL

-------------------------------------------------------------------------------
(* Scopes and features, along the chain of what a declaration is in. *)

\* The nearest setting, in a declaration or in what it is in.
LEMMA EffectiveIs ==
    ASSUME NEW file, IsFile(file), NEW feature, NEW unset
    PROVE  \E v : /\ v = Effective(file, feature, unset)
                  /\ v[0] = IF Sets(file, feature) THEN file.features[feature] ELSE unset
                  /\ \A i \in DOMAIN file.nodes :
                        v[i] = IF Sets(file.nodes[i], feature) THEN file.nodes[i].features[feature]
                               ELSE v[file.nodes[i].in]
  <1>. DEFINE n == Len(file.nodes)
              At(g, i) == LET d == IF i = 0 THEN file ELSE file.nodes[i]
                          IN  IF Sets(d, feature) THEN d.features[feature]
                              ELSE IF i = 0 THEN unset ELSE g[d.in]
              Solves(g) == g = [i \in 0 .. n |-> At(g, i)]
              Upto(g, k) == \A i \in 0 .. k : g[i] = At(g, i)
              P == {k \in 0 .. n : \E g : Upto(g, k)}
  <1>1. n \in Nat /\ DOMAIN file.nodes = 1 .. n
    BY LenProperties DEF IsFile
  <1>2. Effective(file, feature, unset) = CHOOSE g : Solves(g)
    BY DEF Effective
  <1>3. \A i \in 1 .. n : file.nodes[i].in \in 0 .. i - 1
    BY <1>1 DEF IsFile
  <1>4. ASSUME NEW i \in 0 .. n, NEW g, NEW h, i # 0 => g[file.nodes[i].in] = h[file.nodes[i].in]
        PROVE  At(g, i) = At(h, i)
    BY <1>4
  <1>5. 0 \in P
    <2>1. Upto([i \in {0} |-> IF Sets(file, feature) THEN file.features[feature] ELSE unset], 0)
      OBVIOUS
    <2>. HIDE DEF Upto
    <2>. QED  BY <1>1, <2>1
  <1>. HIDE DEF At
  <1>6. ASSUME NEW k \in 1 .. n, k - 1 \in P PROVE k \in P
    <2>1. PICK g : Upto(g, k - 1)
      BY <1>6
    <2>. DEFINE h == [i \in 0 .. k |-> IF i < k THEN g[i] ELSE At(g, k)]
    <2>2. ASSUME NEW i \in 0 .. k PROVE h[i] = At(h, i)
      <3>1. i # 0 => file.nodes[i].in \in 0 .. i - 1
        BY <1>1, <1>3
      <3>2. i # 0 => g[file.nodes[i].in] = h[file.nodes[i].in]
        BY <1>1, <3>1
      <3>3. At(g, i) = At(h, i)
        <4>1. i \in 0 .. n
          BY <1>1
        <4>. HIDE DEF h
        <4>. QED  BY <1>4, <3>2, <4>1
      <3>4. h[i] = At(g, i)
        <4>1. CASE i < k
          <5>1. i \in 0 .. k - 1
            BY <1>1, <4>1
          <5>. QED  BY <2>1, <4>1, <5>1
        <4>2. CASE i = k
          BY <4>2
        <4>. QED  BY <1>1, <4>1, <4>2
      <3>. QED  BY <3>3, <3>4
    <2>3. Upto(h, k)
      <3>. HIDE DEF h
      <3>. QED  BY <2>2
    <2>. HIDE DEF h, Upto
    <2>. QED  BY <1>1, <2>3
  <1>7. \A k \in 0 .. n : k \in P
    <2>. HIDE DEF P, n
    <2>. QED  BY <1>1, <1>5, <1>6, UpTo
  <1>8. PICK g : Upto(g, n)
    <2>1. n \in P
      <3>. HIDE DEF P, n
      <3>. QED  BY <1>1, <1>7
    <2>. QED  BY <2>1
  <1>9. \E s : Solves(s)
    <2>. DEFINE s == [i \in 0 .. n |-> g[i]]
    <2>1. ASSUME NEW i \in 0 .. n PROVE s[i] = At(s, i)
      <3>1. i # 0 => file.nodes[i].in \in 0 .. n
        BY <1>1, <1>3
      <3>2. i # 0 => g[file.nodes[i].in] = s[file.nodes[i].in]
        BY <3>1
      <3>3. s[i] = At(g, i)
        BY <1>8
      <3>. HIDE DEF s
      <3>. QED  BY <1>4, <3>2, <3>3
    <2>2. s = [i \in 0 .. n |-> At(s, i)]
      <3>1. s = [i \in 0 .. n |-> s[i]]
        OBVIOUS
      <3>. HIDE DEF s
      <3>. QED  BY <2>1, <3>1
    <2>. HIDE DEF s
    <2>. QED  BY <2>2
  <1>10. PICK v : v = Effective(file, feature, unset) /\ Solves(v)
    <2>. HIDE DEF Solves
    <2>. QED  BY <1>2, <1>9
  <1>11. \A i \in 0 .. n : v[i] = At(v, i)
    BY <1>10
  <1>12. v[0] = IF Sets(file, feature) THEN file.features[feature] ELSE unset
    BY <1>1, <1>11 DEF At
  <1>13. ASSUME NEW i \in 1 .. n
         PROVE  v[i] = IF Sets(file.nodes[i], feature) THEN file.nodes[i].features[feature]
                       ELSE v[file.nodes[i].in]
    <2>1. i \in 0 .. n /\ i # 0
      BY <1>1
    <2>2. v[i] = At(v, i)
      BY <1>11, <2>1
    <2>. QED  BY <2>1, <2>2 DEF At
  <1>. QED  BY <1>1, <1>10, <1>12, <1>13

LEMMA DescribedNode ==
    ASSUME NEW file, IsDescribed(file), NEW i \in DOMAIN file.nodes
    PROVE  LET d == file.nodes[i]
           IN  /\ d.kind \in DeclarationKinds /\ d.type \in FieldTypes /\ d.key \in FieldTypes
               /\ DOMAIN d.features \subseteq Feature
               /\ d.label = "required" => d.kind \in FieldKinds \cup {"extension"}
               /\ d.messageSet \/ d.ranges => d.kind \in {"message", "group"}
               /\ d.type = "enum" => d.enum # <<>> /\ IsSeq(d.enum)
  <1>1. PICK d : d = file.nodes[i] /\ d \in Range(file.nodes)
    BY DEF Range
  <1>. QED  BY <1>1 DEF IsDescribed, IsSeq

-------------------------------------------------------------------------------
(* What single declarations may be. *)

\* Phase 1 names no declaration of a file exactly if each may stand.
LEMMA StandingMeans ==
    ASSUME job \in UNION Jobs, NEW k \in DOMAIN Files
    PROVE  (\A d \in Range(Files[k].nodes) : MayStand(d))
              <=> /\ MapKeyTypes(Files[k]) = {} /\ RequiredExtensions(Files[k]) = {}
                  /\ ExtensionJsonName(Files[k]) = {} /\ MessageSetExtensions(Files, k) = {}
  <1>. DEFINE nodes == Files[k].nodes
              sets == collectMessageSetMsgs(Files)
  <1>1. \A i \in DOMAIN nodes : nodes[i].kind \in DeclarationKinds /\ nodes[i].key \in FieldTypes
    BY JobIsDescribed, DescribedNode
  <1>2. \A x : x \in sets <=> \E l \in DOMAIN Files : \E i \in Bodies(Files[l]) :
                                 Files[l].nodes[i].messageSet /\ FullName(Files[l], i) = x
    <2>1. \A l \in DOMAIN Files : \A i \in Bodies(Files[l]) : TypeName(Files[l].nodes[i]) = Files[l].nodes[i].name
      BY DEF Bodies, TypeName
    <2>. QED  BY <2>1 DEF collectMessageSetMsgs, FullName
  <1>3. ASSUME NEW i \in DOMAIN nodes
        PROVE  MayStand(nodes[i])
                 <=> /\ i \notin MapKeyTypes(Files[k]) /\ i \notin RequiredExtensions(Files[k])
                     /\ i \notin ExtensionJsonName(Files[k]) /\ i \notin MessageSetExtensions(Files, k)
    <2>1. nodes[i].kind = "map" => nodes[i].key \in {"int32", "int64", "string"} \/ i \in MapKeyTypes(Files[k])
      BY <1>1 DEF MapKeyTypes, FieldsOf, FieldKinds, FieldTypes
    <2>2. i \in MapKeyTypes(Files[k]) => nodes[i].kind = "map" /\ nodes[i].key \notin {"int32", "int64", "string"}
      BY DEF MapKeyTypes
    <2>3. i \in RequiredExtensions(Files[k]) <=> nodes[i].kind = "extension" /\ nodes[i].label = "required"
      BY DEF RequiredExtensions, ExtensionsOf
    <2>4. i \in ExtensionJsonName(Files[k]) <=> nodes[i].kind = "extension" /\ Explicit(nodes[i])
      BY DEF ExtensionJsonName, ExtensionsOf
    <2>5. i \in MessageSetExtensions(Files, k)
             <=> /\ nodes[i].kind = "extension" /\ nodes[i].extendee \in sets
                 /\ ~ (nodes[i].label = "singular" /\ nodes[i].type = "message")
      <3>1. nodes[i].kind = "extension" => TypeOf(nodes[i]) = nodes[i].type
        BY Zenon DEF TypeOf
      <3>. HIDE DEF sets
      <3>2. i \in MessageSetExtensions(Files, k)
               <=> /\ nodes[i].kind = "extension" /\ nodes[i].extendee \in collectMessageSetMsgs(Files)
                   /\ TypeOf(nodes[i]) # "message" \/ nodes[i].label # "singular"
        BY DEF MessageSetExtensions, ExtensionsOf
      <3>. QED  BY <3>1, <3>2 DEF sets
    <2>6. nodes[i].extendee \in sets <=> \E l \in DOMAIN Files : \E j \in Bodies(Files[l]) :
              Files[l].nodes[j].messageSet /\ FullName(Files[l], j) = nodes[i].extendee
      BY <1>2
    <2>. HIDE DEF sets
    <2>. QED  BY <2>1, <2>2, <2>3, <2>4, <2>5, <2>6 DEF MayStand
  <1>4. /\ MapKeyTypes(Files[k]) \subseteq DOMAIN nodes /\ RequiredExtensions(Files[k]) \subseteq DOMAIN nodes
        /\ ExtensionJsonName(Files[k]) \subseteq DOMAIN nodes /\ MessageSetExtensions(Files, k) \subseteq DOMAIN nodes
    BY DEF MapKeyTypes, RequiredExtensions, ExtensionJsonName, MessageSetExtensions, FieldsOf, ExtensionsOf
  <1>5. \A d : d \in Range(nodes) <=> \E i \in DOMAIN nodes : d = nodes[i]
    BY DEF Range
  <1>. HIDE DEF nodes, sets
  <1>6. (\A d \in Range(nodes) : MayStand(d)) <=> \A i \in DOMAIN nodes : MayStand(nodes[i])
    BY <1>5
  <1>. QED  BY <1>3, <1>4, <1>6 DEF nodes

LEMMA DeclaredAsValue ==
    ASSUME NEW file, IsDescribed(file), NEW i \in DOMAIN file.nodes,
           NEW a \in Declares(file, i), a.as = "value"
    PROVE  /\ file.nodes[i].kind = "value"
           /\ a.full = Append(Scopes(file)[file.nodes[file.nodes[i].in].in], file.nodes[i].name)
  <1>1. file.nodes[i].kind \in DeclarationKinds
    BY DescribedNode
  <1>2. CASE file.nodes[i].kind = "value"
    <2>1. PICK x : x = Append(Scopes(file)[file.nodes[file.nodes[i].in].in], file.nodes[i].name)
      OBVIOUS
    <2>2. a \in {[as |-> "value", full |-> x]}
      BY <1>2, <2>1, Zenon DEF Declares
    <2>3. a.full = x
      BY <2>2
    <2>. QED  BY <1>2, <2>1, <2>3
  <1>3. CASE file.nodes[i].kind # "value"
    <2>. DEFINE d == file.nodes[i]
                scope == Scopes(file)[d.in]
                A(as, full) == [as |-> as, full |-> full]
    <2>1. a.as \in {"field", "type", "key", "element", "oneof", d.kind}
      <3>1. CASE d.kind = "map"
        <4>1. PICK type : type = Append(scope, TypeName(d))
          OBVIOUS
        <4>2. a \in {A("field", Append(scope, d.name)), A("type", type),
                    A("key", Append(type, <<"key">>)), A("element", Append(type, <<"value">>))}
          BY <3>1, <4>1, Zenon DEF Declares
        <4>. QED  BY <4>2
      <3>2. CASE d.kind = "group"
        <4>1. a \in {A("field", Append(scope, Lowered(d.name))), A("type", FullName(file, i))}
          BY <3>2, Zenon DEF Declares
        <4>. QED  BY <4>1
      <3>3. CASE d.kind = "optional"
        <4>1. a \in {A("field", FullName(file, i))}
                 \cup {A("oneof", Append(scope, o.name)) :
                          o \in {x \in Range(Oneofs(file, d.in)) : x.node = i}}
          BY <3>3, Zenon DEF Declares
        <4>. QED  BY <4>1
      <3>4. CASE d.kind \notin {"value", "map", "group", "optional"}
        <4>1. a \in {A(d.kind, FullName(file, i))}
          BY <3>4, Zenon DEF Declares
        <4>. QED  BY <4>1
      <3>. QED  BY <1>3, <3>1, <3>2, <3>3, <3>4
    <2>. QED  BY <1>3, <2>1
  <1>. QED  BY <1>2, <1>3

\* The defaults of enum fields are declared values of their enums.
IsValueOf(default, enum) ==
    \E c \in Declarations : c.as = "value" /\ c.full = Front(enum) \o <<default>>
                            /\ FullName(Files[c.file], Files[c.file].nodes[c.node].in) = enum

LEMMA DeclaredValues ==
    ASSUME job \in UNION Jobs, NEW default, NEW enum
    PROVE  default \in collectEnumValueNames(Files, enum) <=> IsValueOf(default, enum)
  <1>1. ASSUME NEW l \in DOMAIN Files, NEW e \in EnumsOf(Files[l])
        PROVE  /\ e \in DOMAIN Files[l].nodes /\ Files[l].nodes[e].in \in 0 .. Len(Files[l].nodes)
               /\ FullName(Files[l], e) = Append(Scopes(Files[l])[Files[l].nodes[e].in], Files[l].nodes[e].name)
               /\ IsSeq(Scopes(Files[l])[Files[l].nodes[e].in])
    <2>1. IsFile(Files[l]) /\ IsDescribed(Files[l])
      BY JobIsDescribed
    <2>2. e \in DOMAIN Files[l].nodes /\ DOMAIN Files[l].nodes = 1 .. Len(Files[l].nodes) /\ Len(Files[l].nodes) \in Nat
      BY <2>1, LenProperties DEF IsFile, EnumsOf
    <2>3. Files[l].nodes[e].in \in 0 .. e - 1
      BY <2>1, <2>2 DEF IsFile
    <2>4. Files[l].nodes[e].in \in 0 .. Len(Files[l].nodes)
      BY <2>2, <2>3
    <2>. QED  BY <2>1, <2>2, <2>4, ScopesAre DEF FullName
  <1>2. ASSUME NEW l \in DOMAIN Files, NEW v \in DOMAIN Files[l].nodes, Files[l].nodes[v].kind = "value"
        PROVE  Files[l].nodes[v].in \in EnumsOf(Files[l])
    <2>1. IsFile(Files[l]) /\ IsDescribed(Files[l])
      BY JobIsDescribed
    <2>2. DOMAIN Files[l].nodes = 1 .. Len(Files[l].nodes) /\ Len(Files[l].nodes) \in Nat
      BY <2>1, LenProperties DEF IsFile
    <2>3. Files[l].nodes[v].in \in 0 .. v - 1
      BY <2>1 DEF IsFile
    <2>4. Files[l].nodes[v].in # 0 /\ Files[l].nodes[Files[l].nodes[v].in].kind = "enum"
      BY <1>2, <2>1 DEF IsFile
    <2>5. Files[l].nodes[v].in \in DOMAIN Files[l].nodes
      BY <2>2, <2>3, <2>4
    <2>. QED  BY <2>4, <2>5 DEF EnumsOf
  <1>3. ASSUME default \in collectEnumValueNames(Files, enum) PROVE IsValueOf(default, enum)
    <2>1. PICK l \in DOMAIN Files : \E e \in EnumsOf(Files[l]) :
             /\ Append(Scopes(Files[l])[Files[l].nodes[e].in], Files[l].nodes[e].name) = enum
             /\ \E v \in Range(Of(Files[l], e, {"value"})) : Files[l].nodes[v].name = default
      BY <1>3 DEF collectEnumValueNames
    <2>2. PICK e \in EnumsOf(Files[l]) :
             /\ Append(Scopes(Files[l])[Files[l].nodes[e].in], Files[l].nodes[e].name) = enum
             /\ \E v \in Range(Of(Files[l], e, {"value"})) : Files[l].nodes[v].name = default
      BY <2>1
    <2>3. PICK v \in Range(Of(Files[l], e, {"value"})) : Files[l].nodes[v].name = default
      BY <2>2
    <2>4. v \in DOMAIN Files[l].nodes /\ Files[l].nodes[v].in = e /\ Files[l].nodes[v].kind = "value"
      BY JobIsDescribed, OfIsSeq DEF Range
    <2>. DEFINE sc == Scopes(Files[l])[Files[l].nodes[e].in]
                c == [file |-> l, node |-> v, as |-> "value", full |-> Append(sc, default)]
    <2>5. [as |-> "value", full |-> Append(sc, default)] \in Declares(Files[l], v)
      BY <2>3, <2>4, Zenon DEF Declares
    <2>6. c \in Declarations
      <3>1. PICK a : a = [as |-> "value", full |-> Append(sc, default)]
        OBVIOUS
      <3>2. a \in Declares(Files[l], v) /\ c = [file |-> l, node |-> v, as |-> a.as, full |-> a.full]
        BY <2>5, <3>1
      <3>. HIDE DEF c
      <3>. QED  BY <2>4, <3>2 DEF Declarations
    <2>7. Append(sc, default) = Front(enum) \o <<default>>
      <3>1. IsSeq(sc)
        BY <1>1
      <3>. HIDE DEF sc
      <3>2. enum = Append(sc, Files[l].nodes[e].name)
        BY <2>2 DEF sc
      <3>. QED  BY <3>1, <3>2, FrontOfAppend
    <2>8. FullName(Files[l], e) = enum
      BY <1>1, <2>2
    <2>. HIDE DEF sc
    <2>. QED  BY <2>4, <2>6, <2>7, <2>8 DEF IsValueOf
  <1>4. ASSUME IsValueOf(default, enum) PROVE default \in collectEnumValueNames(Files, enum)
    <2>1. PICK c \in Declarations : /\ c.as = "value" /\ c.full = Front(enum) \o <<default>>
                                    /\ FullName(Files[c.file], Files[c.file].nodes[c.node].in) = enum
      BY <1>4 DEF IsValueOf
    <2>2. PICK l \in DOMAIN Files : \E i \in DOMAIN Files[l].nodes : \E a \in Declares(Files[l], i) :
             c = [file |-> l, node |-> i, as |-> a.as, full |-> a.full]
      BY DEF Declarations
    <2>3. PICK v \in DOMAIN Files[l].nodes : \E a \in Declares(Files[l], v) :
             c = [file |-> l, node |-> v, as |-> a.as, full |-> a.full]
      BY <2>2
    <2>4. PICK a \in Declares(Files[l], v) : c = [file |-> l, node |-> v, as |-> a.as, full |-> a.full]
      BY <2>3
    <2>. DEFINE e == Files[l].nodes[v].in
                sc == Scopes(Files[l])[Files[l].nodes[e].in]
    <2>5. a.as = "value" /\ c.file = l /\ c.node = v /\ c.full = a.full
      BY <2>1, <2>4
    <2>6. Files[l].nodes[v].kind = "value" /\ a.full = Append(sc, Files[l].nodes[v].name)
      BY <2>5, JobIsDescribed, DeclaredAsValue
    <2>7. e \in EnumsOf(Files[l])
      BY <1>2, <2>6
    <2>8. /\ IsSeq(sc) /\ enum = Append(sc, Files[l].nodes[e].name)
      BY <1>1, <2>1, <2>5, <2>7
    <2>9. v \in Range(Of(Files[l], e, {"value"}))
      BY <2>6, JobIsDescribed, InOf
    <2>10. Files[l].nodes[v].name = default
      <3>. HIDE DEF sc, e
      <3>1. Append(sc, Files[l].nodes[v].name) = Append(sc, default)
        BY <2>1, <2>5, <2>6, <2>8, FrontOfAppend
      <3>. QED  BY <2>8, <3>1, AppendSplits
    <2>11. Append(Scopes(Files[l])[Files[l].nodes[e].in], Files[l].nodes[e].name) = enum
      BY <2>8
    <2>. HIDE DEF e, sc
    <2>12. default \in UNION {{Files[l].nodes[x].name : x \in Range(Of(Files[l], y, {"value"}))} :
              y \in {z \in EnumsOf(Files[l]) :
                       Append(Scopes(Files[l])[Files[l].nodes[z].in], Files[l].nodes[z].name) = enum}}
      <3>1. default \in {Files[l].nodes[x].name : x \in Range(Of(Files[l], e, {"value"}))}
        BY <2>9, <2>10
      <3>2. e \in {z \in EnumsOf(Files[l]) :
                     Append(Scopes(Files[l])[Files[l].nodes[z].in], Files[l].nodes[z].name) = enum}
        BY <2>7, <2>11
      <3>. QED  BY <3>1, <3>2
    <2>. QED  BY <2>12 DEF collectEnumValueNames
  <1>. QED  BY <1>3, <1>4

\* Options and defaults fit exactly if no validator names one.
LEMMA OptionsMean ==
    ASSUME job \in UNION Jobs, NEW k \in DOMAIN Files
    PROVE  (\A d \in Range(Files[k].nodes) : d.kind \in FieldKinds \cup {"extension"} => OptionsFit(k, d))
              <=> /\ PackedNonRepeated(Files[k]) = {} /\ LazyNonMessage(Files[k]) = {}
                  /\ JstypeNonInt64(Files[k]) = {} /\ RepeatedDefault(Files[k]) = {}
                  /\ MessageDefault(Files[k]) = {} /\ EnumDefaultValues(Files, k) = {}
                  /\ Files[k].syntax = "proto3" => Proto3Default(Files[k]) = {}
  <1>. DEFINE nodes == Files[k].nodes
              IsOne(i) == nodes[i].kind \in FieldKinds \cup {"extension"}
              F == Files[k]
              Free(i) == /\ i \notin PackedNonRepeated(F) /\ i \notin LazyNonMessage(F)
                         /\ i \notin JstypeNonInt64(F) /\ i \notin RepeatedDefault(F)
                         /\ i \notin MessageDefault(F) /\ i \notin EnumDefaultValues(Files, k)
                         /\ F.syntax = "proto3" => i \notin Proto3Default(F)
  <1>1. ASSUME NEW i \in DOMAIN nodes, IsOne(i)
        PROVE  OptionsFit(k, nodes[i]) <=> Free(i)
    <2>1. /\ i \in FieldsAndExtensions(F)
          /\ i \in FieldsOf(F) <=> nodes[i].kind # "extension"
      <3>1. nodes[i].kind \in FieldKinds <=> nodes[i].kind # "extension"
        BY <1>1 DEF FieldKinds
      <3>. QED  BY <1>1, <3>1 DEF FieldsAndExtensions, FieldsOf, ExtensionsOf
    <2>2. i \in PackedNonRepeated(F)
            <=> "packed" \in nodes[i].options /\ ~(Repeated(nodes[i]) /\ TypeOf(nodes[i]) \in {"int32", "int64", "float", "enum"})
      BY <2>1 DEF PackedNonRepeated, isPackableType
    <2>3. i \in LazyNonMessage(F) <=> "lazy" \in nodes[i].options /\ TypeOf(nodes[i]) \notin {"message", "group"}
      BY <2>1 DEF LazyNonMessage
    <2>4. i \in JstypeNonInt64(F) <=> "jstype" \in nodes[i].options /\ TypeOf(nodes[i]) # "int64"
      BY <2>1 DEF JstypeNonInt64, isJstypeAllowedType
    <2>5. i \in RepeatedDefault(F) <=> HasDefault(nodes[i]) /\ nodes[i].kind # "extension" /\ Repeated(nodes[i])
      BY <2>1 DEF RepeatedDefault
    <2>6. i \in MessageDefault(F)
            <=> HasDefault(nodes[i]) /\ nodes[i].kind # "extension" /\ TypeOf(nodes[i]) \in {"message", "group"}
      BY <2>1 DEF MessageDefault
    <2>7. i \in EnumDefaultValues(Files, k)
            <=> /\ HasDefault(nodes[i]) /\ nodes[i].kind # "extension" /\ TypeOf(nodes[i]) = "enum"
                /\ nodes[i].default \notin collectEnumValueNames(Files, nodes[i].enum)
      BY <2>1 DEF EnumDefaultValues
    <2>8. i \in Proto3Default(F) <=> HasDefault(nodes[i]) /\ nodes[i].kind # "extension"
      BY <2>1 DEF Proto3Default
    <2>9. nodes[i].default \in collectEnumValueNames(Files, nodes[i].enum) <=> IsValueOf(nodes[i].default, nodes[i].enum)
      BY DeclaredValues
    <2>10. OptionsFit(k, nodes[i])
             <=> /\ "packed" \in nodes[i].options =>
                       Repeated(nodes[i]) /\ TypeOf(nodes[i]) \in {"int32", "int64", "float", "enum"}
                 /\ "lazy" \in nodes[i].options => TypeOf(nodes[i]) \in {"message", "group"}
                 /\ "jstype" \in nodes[i].options => TypeOf(nodes[i]) = "int64"
                 /\ HasDefault(nodes[i]) /\ nodes[i].kind # "extension" =>
                      /\ ~Repeated(nodes[i]) /\ TypeOf(nodes[i]) \notin {"message", "group"}
                      /\ F.syntax # "proto3"
                      /\ TypeOf(nodes[i]) = "enum" => IsValueOf(nodes[i].default, nodes[i].enum)
      BY Zenon DEF OptionsFit, IsValueOf
    <2>. HIDE DEF nodes, F
    <2>. QED  BY <2>2, <2>3, <2>4, <2>5, <2>6, <2>7, <2>8, <2>9, <2>10
  <1>2. /\ PackedNonRepeated(F) \subseteq DOMAIN nodes /\ LazyNonMessage(F) \subseteq DOMAIN nodes
        /\ JstypeNonInt64(F) \subseteq DOMAIN nodes /\ RepeatedDefault(F) \subseteq DOMAIN nodes
        /\ MessageDefault(F) \subseteq DOMAIN nodes /\ EnumDefaultValues(Files, k) \subseteq DOMAIN nodes
        /\ Proto3Default(F) \subseteq DOMAIN nodes
    BY DEF PackedNonRepeated, LazyNonMessage, JstypeNonInt64, RepeatedDefault, MessageDefault,
           EnumDefaultValues, Proto3Default, FieldsAndExtensions, FieldsOf, ExtensionsOf
  <1>3. \A i \in DOMAIN nodes : ~ IsOne(i) => Free(i)
    BY DEF PackedNonRepeated, LazyNonMessage, JstypeNonInt64, RepeatedDefault, MessageDefault,
           EnumDefaultValues, Proto3Default, FieldsAndExtensions, FieldsOf, ExtensionsOf
  <1>4. \A d : d \in Range(nodes) <=> \E i \in DOMAIN nodes : d = nodes[i]
    BY DEF Range
  <1>5. (\A d \in Range(nodes) : d.kind \in FieldKinds \cup {"extension"} => OptionsFit(k, d))
           <=> \A i \in DOMAIN nodes : IsOne(i) => OptionsFit(k, nodes[i])
    <2>. HIDE DEF nodes
    <2>. QED  BY <1>4
  <1>6. (\A i \in DOMAIN nodes : IsOne(i) => OptionsFit(k, nodes[i])) <=> \A i \in DOMAIN nodes : Free(i)
    <2>. HIDE DEF Free, IsOne, nodes
    <2>. QED  BY <1>1, <1>3
  <1>7. (\A i \in DOMAIN nodes : Free(i))
           <=> /\ PackedNonRepeated(F) = {} /\ LazyNonMessage(F) = {}
               /\ JstypeNonInt64(F) = {} /\ RepeatedDefault(F) = {}
               /\ MessageDefault(F) = {} /\ EnumDefaultValues(Files, k) = {}
               /\ F.syntax = "proto3" => Proto3Default(F) = {}
    <2>. HIDE DEF nodes, F
    <2>. QED  BY <1>2
  <1>. HIDE DEF Free, IsOne
  <1>. QED  BY <1>5, <1>6, <1>7

\* Declarations are of proto3 exactly if its validator names none.
LEMMA Proto3Means ==
    ASSUME job \in UNION Jobs, NEW k \in DOMAIN Files, RequiredExtensions(Files[k]) = {}
    PROVE  (\A d \in Range(Files[k].nodes) : IsProto3(d))
              <=> /\ Proto3Extend(Files[k]) = {} /\ Proto3MessageSet(Files[k]) = {}
                  /\ Proto3Group(Files[k]) = {} /\ Proto3Required(Files[k]) = {}
  <1>. DEFINE nodes == Files[k].nodes
              F == Files[k]
              Free(i) == /\ i \notin Proto3Extend(F) /\ i \notin Proto3MessageSet(F)
                         /\ i \notin Proto3Group(F) /\ i \notin Proto3Required(F)
  <1>1. ASSUME NEW i \in DOMAIN nodes
        PROVE  IsProto3(nodes[i]) <=> Free(i)
    <2>1. /\ nodes[i].label = "required" => nodes[i].kind \in FieldKinds \cup {"extension"}
          /\ nodes[i].messageSet \/ nodes[i].ranges => nodes[i].kind \in {"message", "group"}
      BY JobIsDescribed, DescribedNode
    <2>2. ~ (nodes[i].kind = "extension" /\ nodes[i].label = "required")
      BY DEF RequiredExtensions, ExtensionsOf
    <2>3. i \in Proto3Extend(F) <=> nodes[i].kind = "extension" /\ nodes[i].extendee # OptionMessage
      BY DEF Proto3Extend, ExtensionsOf
    <2>4. i \in Proto3MessageSet(F) <=> nodes[i].kind \in {"message", "group"} /\ (nodes[i].messageSet \/ nodes[i].ranges)
      BY DEF Proto3MessageSet, Bodies
    <2>5. i \in Proto3Group(F) <=> nodes[i].kind = "group"
      BY DEF Proto3Group, FieldsOf, FieldKinds
    <2>6. i \in Proto3Required(F) <=> nodes[i].kind \in FieldKinds /\ nodes[i].label = "required"
      BY DEF Proto3Required, FieldsOf
    <2>. HIDE DEF nodes, F
    <2>. QED  BY <2>1, <2>2, <2>3, <2>4, <2>5, <2>6 DEF IsProto3
  <1>2. /\ Proto3Extend(F) \subseteq DOMAIN nodes /\ Proto3MessageSet(F) \subseteq DOMAIN nodes
        /\ Proto3Group(F) \subseteq DOMAIN nodes /\ Proto3Required(F) \subseteq DOMAIN nodes
    BY DEF Proto3Extend, Proto3MessageSet, Proto3Group, Proto3Required, ExtensionsOf, FieldsOf, Bodies
  <1>3. \A d : d \in Range(nodes) <=> \E i \in DOMAIN nodes : d = nodes[i]
    BY DEF Range
  <1>4. (\A d \in Range(nodes) : IsProto3(d)) <=> \A i \in DOMAIN nodes : IsProto3(nodes[i])
    <2>. HIDE DEF nodes
    <2>. QED  BY <1>3
  <1>5. (\A i \in DOMAIN nodes : IsProto3(nodes[i])) <=> \A i \in DOMAIN nodes : Free(i)
    <2>. HIDE DEF Free, nodes
    <2>. QED  BY <1>1
  <1>6. (\A i \in DOMAIN nodes : Free(i))
           <=> /\ Proto3Extend(F) = {} /\ Proto3MessageSet(F) = {}
               /\ Proto3Group(F) = {} /\ Proto3Required(F) = {}
    <2>. HIDE DEF nodes, F
    <2>. QED  BY <1>2
  <1>. HIDE DEF Free
  <1>. QED  BY <1>4, <1>5, <1>6

\* Features are where they may be exactly if the table of targets says so.
LEMMA TargetsMean ==
    ASSUME NEW kind \in DeclarationKinds, NEW feature \in Feature
    PROVE  feature \in Misplaced(kind) <=> Target(kind) \notin TargetsOf(feature)
  <1>1. Misplaced(kind) = IF kind = "message" THEN Feature \ {"json_format"}
                          ELSE IF kind = "enum" THEN Feature \ {"enum_type", "json_format"}
                          ELSE IF kind \in FieldKinds \cup {"extension"} THEN {"enum_type", "json_format"}
                          ELSE Feature
    <2>1. CASE kind = "message"
      <3>1. Misplaced("message") = Feature \ {"json_format"}
        <4>1. "message" \notin FieldKinds \cup {"extension"}
          BY DEF FieldKinds
        <4>. QED  BY <4>1, Zenon DEF Misplaced
      <3>. QED  BY <2>1, <3>1
    <2>2. CASE kind = "enum"
      <3>1. Misplaced("enum") = Feature \ {"enum_type", "json_format"}
        <4>1. "enum" \notin FieldKinds \cup {"extension"}
          BY DEF FieldKinds
        <4>. QED  BY <4>1, Zenon DEF Misplaced
      <3>. QED  BY <2>2, <3>1
    <2>3. CASE kind \in FieldKinds \cup {"extension"}
      <3>1. kind # "message" /\ kind # "enum"
        BY <2>3 DEF FieldKinds
      <3>2. Misplaced(kind) = {"enum_type", "json_format"}
        BY <2>3, <3>1, Zenon DEF Misplaced
      <3>. QED  BY <2>3, <3>1, <3>2
    <2>4. CASE kind # "message" /\ kind # "enum" /\ kind \notin FieldKinds \cup {"extension"}
      BY <2>4, Zenon DEF Misplaced
    <2>. QED  BY <2>1, <2>2, <2>3, <2>4
  <1>2. TargetsOf(feature) = IF feature = "enum_type" THEN {"file", "enum"}
                             ELSE IF feature = "json_format" THEN {"file", "message", "enum"}
                             ELSE {"file", "field"}
    BY Zenon DEF TargetsOf
  <1>3. Target(kind) = IF kind \in FieldKinds \cup {"extension"} THEN "field" ELSE kind
    BY DEF Target
  <1>. QED  BY <1>1, <1>2, <1>3 DEF Feature, DeclarationKinds, FieldKinds

\* No target is wrong exactly if each feature may be set where it is.
LEMMA PlacedMeans ==
    ASSUME job \in UNION Jobs, NEW k \in DOMAIN Files
    PROVE  FeatureTargetErrors(Files[k]) = {}
              <=> \A i \in DOMAIN Files[k].nodes : \A feature \in DOMAIN Files[k].nodes[i].features :
                     Target(Files[k].nodes[i].kind) \in TargetsOf(feature)
  <1>. DEFINE nodes == Files[k].nodes
  <1>1. ASSUME NEW i \in DOMAIN nodes
        PROVE  i \notin FeatureTargetErrors(Files[k])
                 <=> \A feature \in DOMAIN nodes[i].features : Target(nodes[i].kind) \in TargetsOf(feature)
    <2>1. nodes[i].kind \in DeclarationKinds /\ DOMAIN nodes[i].features \subseteq Feature
      BY JobIsDescribed, DescribedNode
    <2>2. i \notin FeatureTargetErrors(Files[k])
            <=> \A feature \in DOMAIN nodes[i].features : feature \notin Misplaced(nodes[i].kind)
      BY DEF FeatureTargetErrors
    <2>. HIDE DEF nodes
    <2>. QED  BY <2>1, <2>2, TargetsMean
  <1>2. FeatureTargetErrors(Files[k]) \subseteq DOMAIN nodes
    BY DEF FeatureTargetErrors
  <1>. HIDE DEF nodes
  <1>3. FeatureTargetErrors(Files[k]) = {} <=> \A i \in DOMAIN nodes : i \notin FeatureTargetErrors(Files[k])
    BY <1>2
  <1>. QED  BY <1>1, <1>3 DEF nodes

\* A map, or what is no message at all, sets its encoding: what MessageEncodingScalar finds,
\* but for the fields it takes for maps.
EncodesOther(file) ==
    {i \in SettingFields(file, "message_encoding") :
        LET d == file.nodes[i] IN d.kind = "map" \/ TypeOf(d) \notin {"message", "group"}}

LEMMA EncodingMeans ==
    ASSUME job \in UNION Jobs, NEW k \in DOMAIN Files
    PROVE  MessageEncodingScalar(Files[k]) = {}
             <=> /\ EncodesOther(Files[k]) = {}
                 /\ \A d \in Range(Files[k].nodes) : ~TakenForMap(Files[k], d)
  <1>. DEFINE F == Files[k]
              nodes == F.nodes
              Alike(i) == \E e \in Range(nodes) :
                             e.kind = "map" /\ e.in = nodes[i].in /\ LastPart(nodes[i]) = TypeName(e)
  <1>1. \A d : d \in Range(nodes) <=> \E i \in DOMAIN nodes : d = nodes[i]
    BY DEF Range
  <1>2. \A d : d.kind = "map" => TypeName(d) = Append(toCamelCase(d.name), "Entry")
    BY DEF TypeName
  <1>3. \A d : /\ d.kind = "map" => LastPart(d) = TypeName(d) /\ TypeOf(d) = "message"
               /\ d.kind # "map" => LastPart(d) = Last(d.message)
    <2>1. \A d : d.kind = "map" => TypeOf(d) = "message"
      BY Zenon DEF TypeOf
    <2>. QED  BY <2>1 DEF LastPart
  <1>4. \A i \in DOMAIN nodes : LastPart(nodes[i]) \in mapEntryNames(F, nodes[i].in) <=> Alike(i)
    <2>. TAKE i \in DOMAIN nodes
    <2>1. LastPart(nodes[i]) \in mapEntryNames(F, nodes[i].in)
            <=> \E j \in DOMAIN nodes : /\ nodes[j].kind = "map" /\ nodes[j].in = nodes[i].in
                                        /\ LastPart(nodes[i]) = TypeName(nodes[j])
      BY DEF mapEntryNames
    <2>. HIDE DEF nodes
    <2>. QED  BY <1>1, <2>1
  <1>5. \A i \in DOMAIN nodes :
           i \in SettingFields(F, "message_encoding")
             <=> /\ F.syntax = "editions" /\ Sets(nodes[i], "message_encoding")
                 /\ nodes[i].kind \in FieldKinds \cup {"extension"}
    BY DEF SettingFields, FieldsAndExtensions, FieldsOf, ExtensionsOf
  <1>6. \A i \in DOMAIN nodes :
           i \in MessageEncodingScalar(F)
             <=> /\ i \in SettingFields(F, "message_encoding")
                 /\ \/ nodes[i].kind \in FieldKinds /\ TypeOf(nodes[i]) = "message" /\ Alike(i)
                    \/ TypeOf(nodes[i]) \notin {"message", "group"}
    BY <1>4 DEF MessageEncodingScalar, isMap
  <1>7. \A i \in DOMAIN nodes :
           i \in EncodesOther(F)
             <=> /\ i \in SettingFields(F, "message_encoding")
                 /\ nodes[i].kind = "map" \/ TypeOf(nodes[i]) \notin {"message", "group"}
    BY DEF EncodesOther
  <1>8. \A i \in DOMAIN nodes :
           TakenForMap(F, nodes[i])
             <=> /\ F.syntax = "editions" /\ Sets(nodes[i], "message_encoding")
                 /\ nodes[i].kind \in FieldKinds \ {"map"} /\ TypeOf(nodes[i]) = "message"
                 /\ Alike(i)
    BY <1>2, <1>3 DEF TakenForMap
  <1>9. ASSUME NEW i \in DOMAIN nodes, nodes[i].kind = "map"
        PROVE  Alike(i) /\ TypeOf(nodes[i]) = "message"
    <2>1. PICK e : e = nodes[i]
      OBVIOUS
    <2>2. e \in Range(nodes)
      BY <1>1, <2>1
    <2>3. LastPart(e) = TypeName(e) /\ TypeOf(e) = "message" /\ e.kind = "map"
      BY <1>3, <1>9, <2>1
    <2>4. e.in = nodes[i].in /\ LastPart(nodes[i]) = TypeName(e)
      BY <2>1, <2>3
    <2>. QED  BY <2>1, <2>2, <2>3, <2>4
  <1>10. \A i \in DOMAIN nodes :
            i \in MessageEncodingScalar(F) <=> i \in EncodesOther(F) \/ TakenForMap(F, nodes[i])
    <2>. TAKE i \in DOMAIN nodes
    <2>. HIDE DEF Alike, nodes, F
    <2>1. CASE nodes[i].kind = "map"
      <3>1. Alike(i) /\ TypeOf(nodes[i]) = "message"
        BY <1>9, <2>1
      <3>. QED  BY <1>5, <1>6, <1>7, <1>8, <2>1, <3>1 DEF FieldKinds
    <2>2. CASE nodes[i].kind # "map"
      BY <1>5, <1>6, <1>7, <1>8, <2>2 DEF FieldKinds
    <2>. QED  BY <2>1, <2>2
  <1>11. MessageEncodingScalar(F) \subseteq DOMAIN nodes /\ EncodesOther(F) \subseteq DOMAIN nodes
    BY DEF MessageEncodingScalar, EncodesOther, SettingFields, FieldsAndExtensions, FieldsOf, ExtensionsOf
  <1>. HIDE DEF Alike, nodes
  <1>12. MessageEncodingScalar(F) = {}
           <=> EncodesOther(F) = {} /\ \A d \in Range(nodes) : ~TakenForMap(F, d)
    <2>. HIDE DEF F
    <2>. QED  BY <1>1, <1>10, <1>11
  <1>. QED  BY <1>12 DEF nodes

\* What a field sets means something for it exactly if no validator of fields says otherwise.
LEMMA FitsMeans ==
    ASSUME job \in UNION Jobs, NEW k \in DOMAIN Files, Files[k].syntax = "editions",
           NEW i \in FieldsAndExtensions(Files[k]), Files[k].nodes[i].kind # "group"
    PROVE  (\A feature \in DOMAIN Files[k].nodes[i].features : Fits(Files[k].nodes[i], feature))
              <=> /\ i \notin RepeatedFieldEncoding(Files[k]) /\ i \notin FieldPresenceRepeated(Files[k])
                  /\ i \notin FieldPresenceOneof(Files[k]) /\ i \notin EncodesOther(Files[k])
                  /\ i \notin FieldPresenceExtension(Files[k]) /\ i \notin RequiredExtensionEditions(Files[k])
                  /\ i \notin Utf8ValidationNonString(Files[k])
  <1>. DEFINE F == Files[k]
              d == F.nodes[i]
  <1>1. i \in DOMAIN F.nodes
    BY DEF FieldsAndExtensions, FieldsOf, ExtensionsOf
  <1>2. d.type \in FieldTypes /\ DOMAIN d.features \subseteq Feature
    BY <1>1, JobIsDescribed, DescribedNode
  <1>3. TypeOf(d) = IF d.kind = "map" THEN "message" ELSE d.type
    BY Zenon DEF TypeOf
  <1>4. TypeOf(d) # "group"
    BY <1>2, <1>3 DEF FieldTypes
  <1>5. /\ i \in RepeatedFieldEncoding(F) <=> "repeated_field_encoding" \in DOMAIN d.features /\ ~ Repeated(d)
        /\ i \in FieldPresenceRepeated(F) <=> "field_presence" \in DOMAIN d.features /\ Repeated(d)
        /\ i \in FieldPresenceOneof(F) <=> "field_presence" \in DOMAIN d.features /\ d.oneof # 0
        /\ i \in Utf8ValidationNonString(F) <=> "utf8_validation" \in DOMAIN d.features /\ TypeOf(d) # "string"
    BY DEF RepeatedFieldEncoding, FieldPresenceRepeated, FieldPresenceOneof, Utf8ValidationNonString, SettingFields, Sets
  <1>6. i \in EncodesOther(F)
          <=> "message_encoding" \in DOMAIN d.features /\ (d.kind = "map" \/ TypeOf(d) \notin {"message", "group"})
    BY DEF EncodesOther, SettingFields, Sets
  <1>7. i \in FieldPresenceExtension(F) \/ i \in RequiredExtensionEditions(F)
          <=> "field_presence" \in DOMAIN d.features /\ d.kind = "extension"
    BY DEF FieldPresenceExtension, RequiredExtensionEditions, SettingFields, Sets
  <1>8. /\ Fits(d, "field_presence") <=> ~ Repeated(d) /\ d.oneof = 0 /\ d.kind # "extension"
        /\ Fits(d, "repeated_field_encoding") <=> Repeated(d)
        /\ Fits(d, "message_encoding") <=> d.kind # "map" /\ TypeOf(d) = "message"
        /\ Fits(d, "utf8_validation") <=> TypeOf(d) = "string"
    <2>. HIDE DEF d
    <2>1. Fits(d, "field_presence") <=> ~ Repeated(d) /\ d.oneof = 0 /\ d.kind # "extension"
      BY Zenon DEF Fits
    <2>2. Fits(d, "repeated_field_encoding") <=> Repeated(d)
      BY Zenon DEF Fits
    <2>3. Fits(d, "message_encoding") <=> d.kind # "map" /\ TypeOf(d) = "message"
      BY Zenon DEF Fits
    <2>4. Fits(d, "utf8_validation") <=> TypeOf(d) = "string"
      BY Zenon DEF Fits
    <2>. QED  BY <2>1, <2>2, <2>3, <2>4
  <1>9. Fits(d, "enum_type") /\ Fits(d, "json_format")
    <2>. HIDE DEF d
    <2>. QED  BY Zenon DEF Fits
  <1>10. (\A feature \in DOMAIN d.features : Fits(d, feature))
            <=> /\ "field_presence" \in DOMAIN d.features => Fits(d, "field_presence")
                /\ "repeated_field_encoding" \in DOMAIN d.features => Fits(d, "repeated_field_encoding")
                /\ "message_encoding" \in DOMAIN d.features => Fits(d, "message_encoding")
                /\ "utf8_validation" \in DOMAIN d.features => Fits(d, "utf8_validation")
    <2>. HIDE DEF d
    <2>. QED  BY <1>2, <1>9 DEF Feature
  <1>. HIDE DEF d, F
  <1>11. (\A feature \in DOMAIN d.features : Fits(d, feature))
            <=> /\ i \notin RepeatedFieldEncoding(F) /\ i \notin FieldPresenceRepeated(F)
                /\ i \notin FieldPresenceOneof(F) /\ i \notin EncodesOther(F)
                /\ i \notin FieldPresenceExtension(F) /\ i \notin RequiredExtensionEditions(F)
                /\ i \notin Utf8ValidationNonString(F)
    BY <1>4, <1>5, <1>6, <1>7, <1>8, <1>10
  <1>. QED  BY <1>11 DEF d, F

\* In an edition, the features of declarations are coherent exactly if no validator names one.
LEMMA SetWhereMeant ==
    ASSUME job \in UNION Jobs, NEW k \in DOMAIN Files, Files[k].syntax = "editions"
    PROVE  (\A d \in Range(Files[k].nodes) :
              /\ d.kind # "group"
              /\ \A feature \in DOMAIN d.features :
                    /\ Target(d.kind) \in TargetsOf(feature)
                    /\ Target(d.kind) = "field" => Fits(d, feature))
             <=> /\ EditionGroups(Files[k]) = {} /\ FeatureTargetErrors(Files[k]) = {}
                 /\ RepeatedFieldEncoding(Files[k]) = {} /\ FieldPresenceRepeated(Files[k]) = {}
                 /\ FieldPresenceOneof(Files[k]) = {} /\ EncodesOther(Files[k]) = {}
                 /\ FieldPresenceExtension(Files[k]) = {} /\ RequiredExtensionEditions(Files[k]) = {}
                 /\ Utf8ValidationNonString(Files[k]) = {}
  <1>. DEFINE F == Files[k]
              nodes == F.nodes
              Fit(i) == \A feature \in DOMAIN nodes[i].features : Fits(nodes[i], feature)
              Free(i) == /\ i \notin RepeatedFieldEncoding(F) /\ i \notin FieldPresenceRepeated(F)
                         /\ i \notin FieldPresenceOneof(F) /\ i \notin EncodesOther(F)
                         /\ i \notin FieldPresenceExtension(F) /\ i \notin RequiredExtensionEditions(F)
                         /\ i \notin Utf8ValidationNonString(F)
              Placed(i) == \A feature \in DOMAIN nodes[i].features : Target(nodes[i].kind) \in TargetsOf(feature)
  <1>1. (\A i \in DOMAIN nodes : nodes[i].kind # "group") <=> EditionGroups(F) = {}
    BY DEF EditionGroups
  <1>2. (\A i \in DOMAIN nodes : Placed(i)) <=> FeatureTargetErrors(F) = {}
    BY PlacedMeans
  <1>3. \A i \in DOMAIN nodes : Target(nodes[i].kind) = "field" <=> i \in FieldsAndExtensions(F)
    <2>1. ASSUME NEW i \in DOMAIN nodes PROVE nodes[i].kind \in DeclarationKinds
      BY JobIsDescribed, DescribedNode
    <2>2. ASSUME NEW i \in DOMAIN nodes
          PROVE  Target(nodes[i].kind) = "field" <=> nodes[i].kind \in FieldKinds \cup {"extension"}
      BY <2>1 DEF Target, DeclarationKinds, FieldKinds
    <2>. QED  BY <2>2 DEF FieldsAndExtensions, FieldsOf, ExtensionsOf
  <1>4. \A i \in FieldsAndExtensions(F) : nodes[i].kind # "group" => (Fit(i) <=> Free(i))
    BY FitsMeans
  <1>5. \A i \in DOMAIN nodes : i \notin FieldsAndExtensions(F) => Free(i)
    BY DEF RepeatedFieldEncoding, FieldPresenceRepeated, FieldPresenceOneof, EncodesOther,
           FieldPresenceExtension, RequiredExtensionEditions, Utf8ValidationNonString, SettingFields
  <1>6. FieldsAndExtensions(F) \subseteq DOMAIN nodes
    BY DEF FieldsAndExtensions, FieldsOf, ExtensionsOf
  <1>7. (\A i \in DOMAIN nodes : Free(i))
           <=> /\ RepeatedFieldEncoding(F) = {} /\ FieldPresenceRepeated(F) = {}
               /\ FieldPresenceOneof(F) = {} /\ EncodesOther(F) = {}
               /\ FieldPresenceExtension(F) = {} /\ RequiredExtensionEditions(F) = {}
               /\ Utf8ValidationNonString(F) = {}
    <2>1. /\ RepeatedFieldEncoding(F) \subseteq DOMAIN nodes /\ FieldPresenceRepeated(F) \subseteq DOMAIN nodes
          /\ FieldPresenceOneof(F) \subseteq DOMAIN nodes /\ EncodesOther(F) \subseteq DOMAIN nodes
          /\ FieldPresenceExtension(F) \subseteq DOMAIN nodes /\ RequiredExtensionEditions(F) \subseteq DOMAIN nodes
          /\ Utf8ValidationNonString(F) \subseteq DOMAIN nodes
      BY <1>6 DEF RepeatedFieldEncoding, FieldPresenceRepeated, FieldPresenceOneof, EncodesOther,
           FieldPresenceExtension, RequiredExtensionEditions, Utf8ValidationNonString, SettingFields
    <2>. HIDE DEF nodes, F
    <2>. QED  BY <2>1
  <1>8. \A d : d \in Range(nodes) <=> \E i \in DOMAIN nodes : d = nodes[i]
    BY DEF Range
  <1>9. (\A d \in Range(nodes) :
              /\ d.kind # "group"
              /\ \A feature \in DOMAIN d.features :
                    /\ Target(d.kind) \in TargetsOf(feature)
                    /\ Target(d.kind) = "field" => Fits(d, feature))
           <=> \A i \in DOMAIN nodes :
                  nodes[i].kind # "group" /\ Placed(i) /\ (Target(nodes[i].kind) = "field" => Fit(i))
    <2>. HIDE DEF nodes
    <2>. QED  BY <1>8
  <1>10. (\A i \in DOMAIN nodes :
                  nodes[i].kind # "group" /\ Placed(i) /\ (Target(nodes[i].kind) = "field" => Fit(i)))
           <=> /\ \A i \in DOMAIN nodes : nodes[i].kind # "group"
               /\ \A i \in DOMAIN nodes : Placed(i)
               /\ \A i \in DOMAIN nodes : Free(i)
    <2>. HIDE DEF Placed, Fit, Free, nodes, F
    <2>. QED  BY <1>3, <1>4, <1>5, <1>6
  <1>. HIDE DEF Placed, Fit, Free
  <1>. QED  BY <1>1, <1>2, <1>7, <1>9, <1>10

\* Where no message or group opens or closes enums, what holds around an enum is what the
\* file says.
LEMMA OpenedByTheFile ==
    ASSUME NEW file, IsFile(file), IsDescribed(file), NEW unset,
           \A i \in Bodies(file) : ~ Sets(file.nodes[i], "enum_type"),
           NEW e \in EnumsOf(file)
    PROVE  Effective(file, "enum_type", unset)[e]
              = IF Sets(file.nodes[e], "enum_type") THEN file.nodes[e].features["enum_type"]
                ELSE IF Sets(file, "enum_type") THEN file.features["enum_type"] ELSE unset
  <1>1. PICK v : /\ v = Effective(file, "enum_type", unset)
                 /\ v[0] = IF Sets(file, "enum_type") THEN file.features["enum_type"] ELSE unset
                 /\ \A i \in DOMAIN file.nodes :
                       v[i] = IF Sets(file.nodes[i], "enum_type") THEN file.nodes[i].features["enum_type"]
                              ELSE v[file.nodes[i].in]
    BY EffectiveIs
  <1>2. DOMAIN file.nodes = 1 .. Len(file.nodes) /\ Len(file.nodes) \in Nat
    BY LenProperties DEF IsFile
  <1>3. \A i \in DOMAIN file.nodes :
           /\ file.nodes[i].in \in 0 .. i - 1
           /\ file.nodes[i].kind \in {"message", "group", "enum"} => file.nodes[i].in = 0 \/ file.nodes[i].in \in Bodies(file)
    <2>. SUFFICES ASSUME NEW i \in DOMAIN file.nodes
                  PROVE  /\ file.nodes[i].in \in 0 .. i - 1
                         /\ file.nodes[i].kind \in {"message", "group", "enum"} =>
                               file.nodes[i].in = 0 \/ file.nodes[i].in \in Bodies(file)
      OBVIOUS
    <2>1. /\ file.nodes[i].in \in 0 .. i - 1
          /\ file.nodes[i].kind \in {"message", "group", "enum"} =>
                file.nodes[i].in = 0 \/ file.nodes[file.nodes[i].in].kind \in {"message", "group"}
      BY HolderIs DEF IsFile, FieldKinds
    <2>2. file.nodes[i].in = 0 \/ file.nodes[i].in \in DOMAIN file.nodes
      BY <1>2, <2>1
    <2>. QED  BY <2>1, <2>2 DEF Bodies
  <1>4. \A i \in Bodies(file) : v[i] = v[0]
    <2>. DEFINE Bad == {i \in Bodies(file) : v[i] # v[0]}
    <2>. SUFFICES ASSUME Bad # {} PROVE FALSE
      OBVIOUS
    <2>1. PICK i \in Bad : \A j \in Bad : i <= j
      <3>1. Bad \in SUBSET Nat
        BY <1>2 DEF Bodies
      <3>. HIDE DEF Bad
      <3>. QED  BY <3>1, LeastNat
    <2>2. i \in Bodies(file) /\ v[i] # v[0] /\ i \in DOMAIN file.nodes /\ file.nodes[i].kind \in {"message", "group"}
      BY DEF Bodies
    <2>3. v[i] = v[file.nodes[i].in]
      BY <1>1, <2>2
    <2>4. file.nodes[i].in = 0 \/ file.nodes[i].in \in Bodies(file)
      BY <1>3, <2>2
    <2>5. file.nodes[i].in \in Bad /\ ~ (i <= file.nodes[i].in)
      BY <1>2, <1>3, <2>2, <2>3, <2>4
    <2>. HIDE DEF Bad
    <2>. QED  BY <2>1, <2>5
  <1>5. e \in DOMAIN file.nodes /\ file.nodes[e].kind = "enum"
    BY DEF EnumsOf
  <1>6. v[file.nodes[e].in] = v[0]
    BY <1>3, <1>4, <1>5
  <1>. QED  BY <1>1, <1>5, <1>6

\* Enums that are open start at zero exactly if the validator of the syntax names none.
LEMMA OpenMeans ==
    ASSUME job \in UNION Jobs, NEW k \in DOMAIN Files,
           \A i \in Bodies(Files[k]) : ~ Sets(Files[k].nodes[i], "enum_type"),
           Files[k].syntax # "editions" =>
              ~ Sets(Files[k], "enum_type") /\ \A i \in DOMAIN Files[k].nodes : ~ Sets(Files[k].nodes[i], "enum_type")
    PROVE  (\A e \in EnumsOf(Files[k]) :
              LET values == Of(Files[k], e, {"value"})
                  open == Effective(Files[k], "enum_type", IF Files[k].syntax = "proto2" THEN "CLOSED" ELSE "OPEN")
              IN  open[e] = "OPEN" /\ values # <<>> => Files[k].nodes[values[1]].number = 0)
             <=> /\ EditionOpenEnumZero(Files[k]) = {}
                 /\ Files[k].syntax = "proto3" => NonZero(Files[k]) = {}
  <1>. DEFINE F == Files[k]
              unset == IF F.syntax = "proto2" THEN "CLOSED" ELSE "OPEN"
              Open(e) == Effective(F, "enum_type", unset)[e] = "OPEN"
              Starts0(e) == LET values == Of(F, e, {"value"})
                            IN  values # <<>> => F.nodes[values[1]].number = 0
  <1>1. IsFile(F) /\ IsDescribed(F) /\ F.syntax \in {"proto2", "proto3", "editions"}
    BY JobIsDescribed DEF IsDescribed
  <1>2. \A e \in EnumsOf(F) : ~ Starts0(e) <=> e \in NonZero(F)
    BY DEF NonZero
  <1>3. \A e \in EnumsOf(F) :
           Effective(F, "enum_type", unset)[e]
              = IF Sets(F.nodes[e], "enum_type") THEN F.nodes[e].features["enum_type"]
                ELSE IF Sets(F, "enum_type") THEN F.features["enum_type"] ELSE unset
    <2>. HIDE DEF unset
    <2>. QED  BY <1>1, OpenedByTheFile
  <1>4. EnumsOf(F) \subseteq DOMAIN F.nodes /\ NonZero(F) \subseteq EnumsOf(F)
    BY DEF EnumsOf, NonZero
  <1>5. F.syntax = "editions" => \A e \in EnumsOf(F) : Open(e) <=> isEnumOpen(F, F.nodes[e])
    BY <1>3 DEF isEnumOpen
  <1>6. F.syntax = "proto2" => \A e \in EnumsOf(F) : ~ Open(e)
    BY <1>3, <1>4
  <1>7. F.syntax = "proto3" => \A e \in EnumsOf(F) : Open(e)
    BY <1>3, <1>4
  <1>8. EditionOpenEnumZero(F) = {e \in NonZero(F) : F.syntax = "editions" /\ isEnumOpen(F, F.nodes[e])}
    BY DEF EditionOpenEnumZero
  <1>9. (\A e \in EnumsOf(F) :
              LET values == Of(F, e, {"value"})
                  open == Effective(F, "enum_type", unset)
              IN  open[e] = "OPEN" /\ values # <<>> => F.nodes[values[1]].number = 0)
          <=> \A e \in EnumsOf(F) : Open(e) => Starts0(e)
    OBVIOUS
  <1>10. (\A e \in EnumsOf(F) : Open(e) => Starts0(e))
           <=> EditionOpenEnumZero(F) = {} /\ (F.syntax = "proto3" => NonZero(F) = {})
    <2>. HIDE DEF Open, Starts0, F
    <2>. QED  BY <1>1, <1>2, <1>4, <1>5, <1>6, <1>7, <1>8
  <1>. HIDE DEF Open, Starts0
  <1>. QED  BY <1>9, <1>10

\* The validators of features.
FeaturesClean(file) ==
    /\ EditionOpenEnumZero(file) = {} /\ (file.syntax = "proto3" => NonZero(file) = {})
    /\ FileLevelLegacyRequired(file) = {} /\ FeaturesEditionsErrors(file) = {}
    /\ EditionGroups(file) = {} /\ FeatureTargetErrors(file) = {}
    /\ RepeatedFieldEncoding(file) = {} /\ FieldPresenceRepeated(file) = {}
    /\ FieldPresenceOneof(file) = {} /\ EncodesOther(file) = {}
    /\ FieldPresenceExtension(file) = {} /\ RequiredExtensionEditions(file) = {}
    /\ Utf8ValidationNonString(file) = {}

\* Features are coherent exactly if no validator of them names anything.
LEMMA FeaturesMean ==
    ASSUME job \in UNION Jobs, NEW k \in DOMAIN Files
    PROVE  FeaturesFit(Files[k]) <=> FeaturesClean(Files[k])
  <1>. DEFINE F == Files[k]
              nodes == F.nodes
              Opens == \A e \in EnumsOf(F) :
                          LET values == Of(F, e, {"value"})
                              open == Effective(F, "enum_type", IF F.syntax = "proto2" THEN "CLOSED" ELSE "OPEN")
                          IN  open[e] = "OPEN" /\ values # <<>> => F.nodes[values[1]].number = 0
              Bare == F.features = <<>> /\ \A d \in Range(nodes) : d.features = <<>>
              Meant == \A d \in Range(nodes) :
                          /\ d.kind # "group"
                          /\ \A feature \in DOMAIN d.features :
                                /\ Target(d.kind) \in TargetsOf(feature)
                                /\ Target(d.kind) = "field" => Fits(d, feature)
  <1>1. FeaturesFit(F) <=> /\ Opens
                           /\ F.syntax # "editions" => Bare
                           /\ F.syntax = "editions" => ~ (Sets(F, "field_presence") /\ Required(F)) /\ Meant
    BY Zenon DEF FeaturesFit
  <1>2. \A d : d \in Range(nodes) <=> \E i \in DOMAIN nodes : d = nodes[i]
    BY DEF Range
  <1>3. ASSUME \A i \in Bodies(F) : ~ Sets(nodes[i], "enum_type"),
               F.syntax # "editions" => ~ Sets(F, "enum_type") /\ \A i \in DOMAIN nodes : ~ Sets(nodes[i], "enum_type")
        PROVE  Opens <=> EditionOpenEnumZero(F) = {} /\ (F.syntax = "proto3" => NonZero(F) = {})
    BY <1>3, OpenMeans
  <1>4. Bodies(F) \subseteq DOMAIN nodes
    BY DEF Bodies
  <1>5. CASE F.syntax = "editions"
    <2>1. Meant <=> /\ EditionGroups(F) = {} /\ FeatureTargetErrors(F) = {}
                    /\ RepeatedFieldEncoding(F) = {} /\ FieldPresenceRepeated(F) = {}
                    /\ FieldPresenceOneof(F) = {} /\ EncodesOther(F) = {}
                    /\ FieldPresenceExtension(F) = {} /\ RequiredExtensionEditions(F) = {}
                    /\ Utf8ValidationNonString(F) = {}
      BY <1>5, SetWhereMeant
    <2>2. FeaturesEditionsErrors(F) = {}
      BY <1>5 DEF FeaturesEditionsErrors
    <2>3. FileLevelLegacyRequired(F) = {} <=> ~ (Sets(F, "field_presence") /\ Required(F))
      BY <1>5 DEF FileLevelLegacyRequired
    <2>4. FeatureTargetErrors(F) = {} => \A i \in Bodies(F) : ~ Sets(nodes[i], "enum_type")
      <3>1. FeatureTargetErrors(F) = {} =>
               \A i \in DOMAIN nodes : \A feature \in DOMAIN nodes[i].features :
                  Target(nodes[i].kind) \in TargetsOf(feature)
        BY PlacedMeans
      <3>2. TargetsOf("enum_type") = {"file", "enum"}
        BY Zenon DEF TargetsOf
      <3>3. \A i \in Bodies(F) : Target(nodes[i].kind) \in {"message", "field"}
        BY DEF Target, Bodies, FieldKinds
      <3>. HIDE DEF nodes
      <3>. QED  BY <1>4, <3>1, <3>2, <3>3 DEF Sets
    <2>5. FeaturesFit(F) <=> FeaturesClean(F)
      <3>. HIDE DEF Opens, Meant, F, nodes
      <3>. QED  BY <1>1, <1>3, <1>5, <2>1, <2>2, <2>3, <2>4 DEF FeaturesClean
    <2>. QED  BY <2>5
  <1>6. CASE F.syntax # "editions"
    <2>1. FeaturesEditionsErrors(F) = {} <=> Bare
      <3>1. FeaturesEditionsErrors(F) = {} <=> F.features = <<>> /\ \A i \in DOMAIN nodes : nodes[i].features = <<>>
        BY <1>6 DEF FeaturesEditionsErrors
      <3>. HIDE DEF nodes
      <3>. QED  BY <1>2, <3>1
    <2>2. /\ FileLevelLegacyRequired(F) = {} /\ EditionGroups(F) = {} /\ RepeatedFieldEncoding(F) = {}
          /\ FieldPresenceRepeated(F) = {} /\ FieldPresenceOneof(F) = {} /\ EncodesOther(F) = {}
          /\ FieldPresenceExtension(F) = {} /\ RequiredExtensionEditions(F) = {}
          /\ Utf8ValidationNonString(F) = {}
      BY <1>6 DEF FileLevelLegacyRequired, EditionGroups, RepeatedFieldEncoding, FieldPresenceRepeated,
                  FieldPresenceOneof, EncodesOther, FieldPresenceExtension,
                  RequiredExtensionEditions, Utf8ValidationNonString, SettingFields
    <2>3. Bare => /\ FeatureTargetErrors(F) = {}
                  /\ ~ Sets(F, "enum_type") /\ \A i \in DOMAIN nodes : ~ Sets(nodes[i], "enum_type")
      <3>1. DOMAIN <<>> = {}
        OBVIOUS
      <3>2. Bare => \A i \in DOMAIN nodes : DOMAIN nodes[i].features = {}
        <4>. HIDE DEF nodes
        <4>. QED  BY <1>2, <3>1
      <3>3. Bare => DOMAIN F.features = {}
        BY <3>1
      <3>. HIDE DEF Bare
      <3>. QED  BY <3>2, <3>3 DEF FeatureTargetErrors, Sets
    <2>4. FeaturesFit(F) <=> FeaturesClean(F)
      <3>. HIDE DEF Opens, Meant, Bare, F, nodes
      <3>. QED  BY <1>1, <1>3, <1>4, <1>6, <2>1, <2>2, <2>3 DEF FeaturesClean
    <2>. QED  BY <2>4
  <1>. QED  BY <1>5, <1>6

-------------------------------------------------------------------------------
(* The validators of single declarations. *)

LEMMA FoundSame ==
    ASSUME UNCHANGED job, NEW v, NEW k
    PROVE  Found(v, k)' = Found(v, k)
  <1>1. Files' = Files
    BY DEF Files
  <1>. QED  BY <1>1, Zenon DEF Found

LEMMA BrokenSame ==
    ASSUME UNCHANGED job, NEW v, NEW k
    PROVE  Broken(v, k)' = Broken(v, k)
  <1>1. Files' = Files
    BY DEF Files
  <1>. QED  BY <1>1, Zenon DEF Broken

\* What each validator finds.
LEMMA FoundIs ==
    ASSUME NEW k
    PROVE  /\ Found("PackedNonRepeated", k) = PackedNonRepeated(Files[k])
           /\ Found("LazyNonMessage", k) = LazyNonMessage(Files[k])
           /\ Found("JstypeNonInt64", k) = JstypeNonInt64(Files[k])
           /\ Found("RepeatedDefault", k) = RepeatedDefault(Files[k])
           /\ Found("MessageDefault", k) = MessageDefault(Files[k])
           /\ Found("EnumDefaultValues", k) = EnumDefaultValues(Files, k)
           /\ Found("Proto3", k) = Proto3(Files[k])
           /\ Found("EditionGroups", k) = EditionGroups(Files[k])
           /\ Found("EditionOpenEnumZero", k) = EditionOpenEnumZero(Files[k])
           /\ Found("FileLevelLegacyRequired", k) = FileLevelLegacyRequired(Files[k])
           /\ Found("RepeatedFieldEncoding", k) = RepeatedFieldEncoding(Files[k])
           /\ Found("FieldPresenceRepeated", k) = FieldPresenceRepeated(Files[k])
           /\ Found("FieldPresenceOneof", k) = FieldPresenceOneof(Files[k])
           /\ Found("MessageEncodingScalar", k) = MessageEncodingScalar(Files[k])
           /\ Found("FieldPresenceExtension", k) = FieldPresenceExtension(Files[k])
           /\ Found("RequiredExtensionEditions", k) = RequiredExtensionEditions(Files[k])
           /\ Found("Utf8ValidationNonString", k) = Utf8ValidationNonString(Files[k])
           /\ Found("FeaturesEditions", k) = FeaturesEditionsErrors(Files[k])
           /\ Found("FeatureTargets", k) = FeatureTargetErrors(Files[k])
  BY DEF Found

LEMMA BrokenIs ==
    ASSUME NEW k
    PROVE  /\ Broken("MapKeyTypes", k) = MapKeyTypes(Files[k])
           /\ Broken("RequiredExtensions", k) = RequiredExtensions(Files[k])
           /\ Broken("ExtensionJsonName", k) = ExtensionJsonName(Files[k])
           /\ Broken("MessageSetExtensions", k) = MessageSetExtensions(Files, k)
  BY DEF Broken

\* The validators of phase 1 that look at one declaration: an error is one that some
\* validator which is done has found, and a job that is accepted has asked all four.
RulesSaid == ruleErrors = {} <=> \A j \in 1 .. ruled : \A k \in DOMAIN Files : Broken(Rules[j], k) = {}
RulesInv ==
    /\ ruled \in 0 .. 4 /\ RulesSaid
    /\ outcome \in {"accepted", "printed"} => ruled = 4 /\ ruleErrors = {}

\* The validators of phase 2: every error is what one that is done has found, and what it
\* has found is said, but for the targets of features where features are not allowed.
HasCause(e) ==
    \E j \in 1 .. checked : \E k \in DOMAIN Files : \E i \in Found(Phase2[j], k) :
       e = [what |-> Phase2[j], at |-> <<k, i>>]
IsSaid(j, k) == \A i \in Found(Phase2[j], k) : [what |-> Phase2[j], at |-> <<k, i>>] \in valErrors
SaidInv ==
    /\ \A e \in valErrors : HasCause(e)
    /\ \A j \in 1 .. checked : \A k \in DOMAIN Files :
          Phase2[j] # "JsonNameConflicts" /\ IsDue(Phase2[j]) => IsSaid(j, k)

LEMMA RulesIs ==
    /\ Len(Rules) = 4 /\ DOMAIN Rules = 1 .. 4
    /\ Rules[1] = "MapKeyTypes" /\ Rules[2] = "RequiredExtensions"
    /\ Rules[3] = "ExtensionJsonName" /\ Rules[4] = "MessageSetExtensions"
  BY DEF Rules

LEMMA RulesDueIs == RulesDue \in 0 .. 4
  BY DEF RulesDue

LEMMA RulesInit == Init => RulesInv /\ SaidInv
  <1>. SUFFICES ASSUME Init PROVE RulesInv /\ SaidInv
    OBVIOUS
  <1>1. ruled = 0 /\ ruleErrors = {} /\ checked = 0 /\ valErrors = {} /\ outcome = "running"
    BY DEF Init, Numbers!Init
  <1>2. \A j : j \notin 1 .. 0
    OBVIOUS
  <1>3. RulesInv
    BY <1>1, <1>2 DEF RulesInv, RulesSaid
  <1>4. SaidInv
    BY <1>1, <1>2 DEF SaidInv
  <1>. QED  BY <1>3, <1>4

LEMMA RulesStay ==
    ASSUME RulesInv, UNCHANGED <<job, ruled, ruleErrors>>,
           outcome' \in {"accepted", "printed"} => ruled = 4 /\ ruleErrors = {}
    PROVE  RulesInv'
  <1>1. Files' = Files
    BY DEF Files
  <1>2. \A j, k : Broken(Rules[j], k)' = Broken(Rules[j], k)
    <2>1. \A v, k : Broken(v, k)' = Broken(v, k)
      BY BrokenSame
    <2>. QED  BY <2>1 DEF Rules
  <1>. QED  BY <1>1, <1>2 DEF RulesInv, RulesSaid

LEMMA RulesNext == NumInv /\ RulesInv /\ ValidateRule => RulesInv'
  <1>. SUFFICES ASSUME NumInv, RulesInv, ValidateRule PROVE RulesInv'
    OBVIOUS
  <1>. DEFINE v == Rules[ruled + 1]
              all == UNION {{k} \X Broken(v, k) : k \in DOMAIN Files}
              new == {[what |-> v, at |-> w] : w \in all}
  <1>1. /\ outcome = "running" /\ ruled < RulesDue /\ ruleErrors' = ruleErrors \cup new
        /\ ruled' = ruled + 1 /\ UNCHANGED <<job, outcome>>
    BY DEF ValidateRule, numbers
  <1>2. ruled \in 0 .. 3 /\ ruled' \in 1 .. 4
    BY <1>1, RulesDueIs DEF RulesInv
  <1>3. Files' = Files
    BY <1>1 DEF Files
  <1>4. \A j, k : Broken(Rules[j], k)' = Broken(Rules[j], k)
    <2>1. \A w, k : Broken(w, k)' = Broken(w, k)
      BY <1>1, BrokenSame
    <2>. QED  BY <2>1 DEF Rules
  <1>5. new = {} <=> \A k \in DOMAIN Files : Broken(v, k) = {}
    <2>1. new = {} <=> all = {}
      <3>. HIDE DEF all, v
      <3>. QED  OBVIOUS
    <2>2. \A k, i : <<k, i>> \in all <=> k \in DOMAIN Files /\ i \in Broken(v, k)
      <3>. HIDE DEF v
      <3>. QED  OBVIOUS
    <2>3. \A w \in all : \E k \in DOMAIN Files : Broken(v, k) # {}
      <3>. HIDE DEF v
      <3>. QED  OBVIOUS
    <2>. HIDE DEF all, v, new
    <2>. QED  BY <2>1, <2>2, <2>3
  <1>6. \A j \in 1 .. ruled + 1 : j = ruled + 1 \/ j \in 1 .. ruled
    BY <1>2
  <1>7. (\A j \in 1 .. ruled + 1 : \A k \in DOMAIN Files : Broken(Rules[j], k) = {})
           <=> /\ \A j \in 1 .. ruled : \A k \in DOMAIN Files : Broken(Rules[j], k) = {}
               /\ \A k \in DOMAIN Files : Broken(v, k) = {}
    <2>1. ruled + 1 \in 1 .. ruled + 1 /\ \A j \in 1 .. ruled : j \in 1 .. ruled + 1
      BY <1>2
    <2>. DEFINE Q(j) == \A k \in DOMAIN Files : Broken(Rules[j], k) = {}
    <2>2. Q(ruled + 1) <=> \A k \in DOMAIN Files : Broken(v, k) = {}
      OBVIOUS
    <2>3. (\A j \in 1 .. ruled + 1 : Q(j)) <=> (\A j \in 1 .. ruled : Q(j)) /\ Q(ruled + 1)
      <3>. HIDE DEF Q
      <3>. QED  BY <1>6, <2>1
    <2>. QED  BY <2>2, <2>3
  <1>. HIDE DEF new, all, v
  <1>8. ruleErrors' = {} <=> ruleErrors = {} /\ new = {}
    BY <1>1
  <1>9. ruleErrors' = {} <=> \A j \in 1 .. ruled + 1 : \A k \in DOMAIN Files : Broken(Rules[j], k) = {}
    BY <1>5, <1>7, <1>8 DEF RulesInv, RulesSaid
  <1>10. RulesSaid'
    <2>1. ruleErrors' = {} <=> \A j \in 1 .. ruled' : \A k \in DOMAIN Files : Broken(Rules[j], k) = {}
      BY <1>1, <1>9
    <2>. QED  BY <1>3, <1>4, <2>1 DEF RulesSaid
  <1>. QED  BY <1>1, <1>2, <1>10 DEF RulesInv

LEMMA RulesStep == NumInv /\ RulesInv /\ [Next]_vars => RulesInv'
  <1>. SUFFICES ASSUME NumInv, RulesInv, [Next]_vars PROVE RulesInv'
    OBVIOUS
  <1>1. ASSUME UNCHANGED <<job, ruled, ruleErrors, outcome>> PROVE RulesInv'
    BY <1>1, RulesStay DEF RulesInv
  <1>2. CASE Parse
    <2>1. UNCHANGED <<job, ruled, ruleErrors>> /\ outcome' \in {"running", "unparsed"}
      BY <1>2 DEF Parse, Numbers!Parse, rules
    <2>. QED  BY <2>1, RulesStay
  <1>3. CASE Validate
    <2>1. UNCHANGED <<job, outcome>>
      BY <1>3, ValidateReports DEF Validate, ReportsWrong
    <2>. QED  BY <1>1, <1>3, <2>1 DEF Validate, rules
  <1>4. CASE Decide
    <2>1. /\ UNCHANGED <<job, ruled, ruleErrors>> /\ ruled = 4
          /\ outcome' = "accepted" => ruleErrors = {}
          /\ outcome' \in {"accepted", "refused"}
      BY <1>4, RulesIs DEF Decide, Numbers!Decide, rules
    <2>. QED  BY <2>1, RulesStay
  <1>5. CASE ValidateRule
    BY <1>5, RulesNext
  <1>6. CASE PrintFree
    <2>1. UNCHANGED <<job, ruled, ruleErrors>> /\ outcome = "accepted"
      BY <1>6, Zenon DEF PrintFree, Numbers!PrintFree, rules
    <2>. QED  BY <2>1, RulesStay DEF RulesInv
  <1>7. CASE RegisterNext \/ validateMapEntryConflicts \/ ValidateDescriptors \/ DecideDescriptors
             \/ CannotDescribe \/ CannotEncode \/ AppendEntry \/ WriteDefaults \/ Terminated \/ UNCHANGED vars
    <2>1. UNCHANGED <<job, ruled, ruleErrors, outcome>>
      BY <1>7, Zenon DEF RegisterNext, validateMapEntryConflicts, ValidateDescriptors, DecideDescriptors,
           CannotDescribe, CannotEncode, AppendEntry, WriteDefaults, Terminated, Fail, vars, numbers, rules
    <2>. QED  BY <1>1, <2>1
  <1>. QED  BY <1>2, <1>3, <1>4, <1>5, <1>6, <1>7 DEF Next

LEMMA SaidStays ==
    ASSUME SaidInv, UNCHANGED <<job, checked, valErrors>>
    PROVE  SaidInv'
  <1>1. Files' = Files
    BY DEF Files
  <1>2. \A j, k : Found(Phase2[j], k)' = Found(Phase2[j], k)
    <2>1. \A v, k : Found(v, k)' = Found(v, k)
      BY FoundSame
    <2>. QED  BY <2>1 DEF Phase2
  <1>3. \A j : IsDue(Phase2[j])' <=> IsDue(Phase2[j])
    BY DEF IsDue, Phase2
  <1>4. \A e : HasCause(e)' <=> HasCause(e)
    BY <1>1, <1>2 DEF HasCause
  <1>5. \A j, k : IsSaid(j, k)' <=> IsSaid(j, k)
    BY <1>2 DEF IsSaid
  <1>. QED  BY <1>1, <1>3, <1>4, <1>5 DEF SaidInv

LEMMA SaidNext == FoundInv /\ SaidInv /\ ValidateDescriptors => SaidInv'
  <1>. SUFFICES ASSUME FoundInv, SaidInv, ValidateDescriptors PROVE SaidInv'
    OBVIOUS
  <1>. DEFINE n == checked + 1
              v == Phase2[n]
              found == IF IsDue(v) THEN UNION {{k} \X Found(v, k) : k \in DOMAIN Files} ELSE {}
              warned == {w \in found : IsWarning(v, w[1])}
              new == {[what |-> v, at |-> w] : w \in found \ warned}
  <1>1. /\ valErrors' = valErrors \cup new /\ checked' = n /\ UNCHANGED job /\ checked < 21
    BY Phase2Is DEF ValidateDescriptors
  <1>2. Files' = Files
    BY <1>1 DEF Files
  <1>3. \A j, k : Found(Phase2[j], k)' = Found(Phase2[j], k)
    <2>1. \A w, k : Found(w, k)' = Found(w, k)
      BY <1>1, FoundSame
    <2>. QED  BY <2>1 DEF Phase2
  <1>4. checked \in 0 .. 20 /\ n \in 1 .. n /\ \A j \in 1 .. n : j = n \/ j \in 1 .. checked
    BY <1>1 DEF FoundInv
  <1>5. \A j \in 1 .. checked : j \in 1 .. n
    BY <1>4
  <1>6. ASSUME NEW j PROVE IsDue(Phase2[j])' => IsDue(Phase2[j])
    <2>. HIDE DEF new
    <2>. QED  BY <1>1 DEF IsDue, Phase2
  <1>7. \A w \in found : \E k \in DOMAIN Files : \E i \in Found(v, k) : w = <<k, i>>
    <2>. HIDE DEF v
    <2>. QED  OBVIOUS
  <1>8. IsDue(v) => \A k \in DOMAIN Files : \A i \in Found(v, k) : <<k, i>> \in found
    <2>. HIDE DEF v
    <2>. QED  OBVIOUS
  <1>9. v # "JsonNameConflicts" => warned = {}
    <2>. HIDE DEF found, v
    <2>. QED  BY DEF IsWarning
  <1>10. /\ \A e \in new : \E w \in found : e = [what |-> v, at |-> w]
         /\ \A w \in found : w \notin warned => [what |-> v, at |-> w] \in new
    <2>. HIDE DEF found, v, warned
    <2>. QED  OBVIOUS
  <1>. HIDE DEF found, warned, new
  <1>11. \A e \in new : \E k \in DOMAIN Files : \E i \in Found(v, k) : e = [what |-> v, at |-> <<k, i>>]
    <2>. HIDE DEF v
    <2>. QED  BY <1>7, <1>10
  <1>12. v # "JsonNameConflicts" /\ IsDue(v) =>
            \A k \in DOMAIN Files : \A i \in Found(v, k) : [what |-> v, at |-> <<k, i>>] \in new
    <2>. HIDE DEF v
    <2>. QED  BY <1>8, <1>9, <1>10
  <1>13. ASSUME NEW e \in valErrors' PROVE HasCause(e)'
    <2>1. \E j \in 1 .. n : \E k \in DOMAIN Files : \E i \in Found(Phase2[j], k) :
             e = [what |-> Phase2[j], at |-> <<k, i>>]
      <3>1. CASE e \in new
        BY <1>4, <1>11, <3>1
      <3>2. CASE e \in valErrors
        <4>1. PICK j \in 1 .. checked : \E k \in DOMAIN Files : \E i \in Found(Phase2[j], k) :
                 e = [what |-> Phase2[j], at |-> <<k, i>>]
          BY <3>2 DEF SaidInv, HasCause
        <4>2. j \in 1 .. n
          BY <1>5
        <4>. HIDE DEF n
        <4>. QED  BY <4>1, <4>2
      <3>. QED  BY <1>1, <3>1, <3>2
    <2>. HIDE DEF n, v
    <2>. QED  BY <1>1, <1>2, <1>3, <2>1 DEF HasCause
  <1>14. ASSUME NEW j \in 1 .. n, Phase2[j] # "JsonNameConflicts", IsDue(Phase2[j])',
                NEW k \in DOMAIN Files
         PROVE  IsSaid(j, k)'
    <2>1. IsDue(Phase2[j])
      BY <1>6, <1>14
    <2>2. CASE j = n
      <3>1. \A i \in Found(Phase2[j], k) : [what |-> Phase2[j], at |-> <<k, i>>] \in new
        BY <1>12, <1>14, <2>1, <2>2
      <3>. HIDE DEF n, v
      <3>. QED  BY <1>1, <1>3, <3>1 DEF IsSaid
    <2>3. CASE j \in 1 .. checked
      <3>1. IsSaid(j, k)
        BY <1>14, <2>1, <2>3 DEF SaidInv
      <3>. HIDE DEF n, v
      <3>. QED  BY <1>1, <1>3, <3>1 DEF IsSaid
    <2>. QED  BY <1>4, <2>2, <2>3
  <1>15. \A e \in valErrors' : HasCause(e)'
    BY <1>13
  <1>16. \A j \in 1 .. n : \A k \in DOMAIN Files :
            Phase2[j] # "JsonNameConflicts" /\ IsDue(Phase2[j])' => IsSaid(j, k)'
    <2>. HIDE DEF n, v
    <2>. QED  BY <1>14
  <1>. HIDE DEF n, v
  <1>. QED  BY <1>1, <1>2, <1>15, <1>16 DEF SaidInv

LEMMA SaidStep == NumInv /\ FoundInv /\ SaidInv /\ [Next]_vars => SaidInv'
  <1>. SUFFICES ASSUME NumInv, FoundInv, SaidInv, [Next]_vars PROVE SaidInv'
    OBVIOUS
  <1>1. CASE Parse
    BY <1>1, SaidStays DEF Parse, Numbers!Parse, descriptors
  <1>2. CASE Validate
    <2>1. UNCHANGED job
      BY <1>2, ValidateReports DEF Validate, ReportsWrong
    <2>. QED  BY <1>2, <2>1, SaidStays DEF Validate, descriptors
  <1>3. CASE Decide
    BY <1>3, SaidStays DEF Decide, Numbers!Decide, descriptors
  <1>4. CASE ValidateDescriptors
    BY <1>4, SaidNext
  <1>5. CASE PrintFree
    <2>1. UNCHANGED <<job, checked, valErrors>>
      BY <1>5, Zenon DEF PrintFree, Numbers!PrintFree, descriptors
    <2>. QED  BY <2>1, SaidStays
  <1>6. CASE ValidateRule \/ RegisterNext \/ validateMapEntryConflicts \/ DecideDescriptors
             \/ CannotDescribe \/ CannotEncode \/ AppendEntry \/ WriteDefaults \/ Terminated \/ UNCHANGED vars
    <2>1. UNCHANGED <<job, checked, valErrors>>
      BY <1>6, Zenon DEF ValidateRule, RegisterNext, validateMapEntryConflicts, DecideDescriptors,
           CannotDescribe, CannotEncode, AppendEntry, WriteDefaults, Terminated, Fail, vars, descriptors
    <2>. QED  BY <2>1, SaidStays
  <1>. QED  BY <1>1, <1>2, <1>3, <1>4, <1>5, <1>6 DEF Next

SoundInv == NamesInv /\ RulesInv /\ SaidInv

\* Throughout a compilation: what the validators of single declarations have found is said,
\* and nothing else.
THEOREM SoundInvariance == Spec => []SoundInv
  <1>1. Init => SoundInv
    BY NumInit, RegistryInit, FoundInit, RulesInit DEF NamesInv, SoundInv
  <1>2. SoundInv /\ [Next]_vars => SoundInv'
    BY NumStep, RegistryStep, FoundStep, RulesStep, SaidStep DEF NamesInv, SoundInv
  <1>. QED  BY <1>1, <1>2, PTL DEF Spec

LEMMA Phase2Has ==
    /\ Phase2[2] = "PackedNonRepeated" /\ Phase2[3] = "LazyNonMessage" /\ Phase2[4] = "JstypeNonInt64"
    /\ Phase2[5] = "RepeatedDefault" /\ Phase2[6] = "MessageDefault" /\ Phase2[7] = "EnumDefaultValues"
    /\ Phase2[8] = "Proto3" /\ Phase2[9] = "EditionGroups" /\ Phase2[11] = "EditionOpenEnumZero"
    /\ Phase2[12] = "FileLevelLegacyRequired" /\ Phase2[13] = "RepeatedFieldEncoding"
    /\ Phase2[14] = "FieldPresenceRepeated" /\ Phase2[15] = "FieldPresenceOneof"
    /\ Phase2[16] = "MessageEncodingScalar" /\ Phase2[17] = "FieldPresenceExtension"
    /\ Phase2[18] = "RequiredExtensionEditions" /\ Phase2[19] = "Utf8ValidationNonString"
    /\ Phase2[20] = "FeaturesEditions" /\ Phase2[21] = "FeatureTargets"
    /\ \A j \in 1 .. 21 : j \in (2 .. 9) \cup (11 .. 21) <=> Phase2[j] \notin {"JsonNameConflicts", "EnumPrefixConflict"}
    /\ \A j \in 2 .. 20 : Phase2[j] # "FeatureTargets"
  BY DEF Phase2

\* When all validators are done, nothing but names is said exactly if none finds anything.
NothingFound(k) == \A j \in (2 .. 9) \cup (11 .. 21) : Found(Phase2[j], k) = {}

LEMMA SaidMeans ==
    ASSUME SaidInv, checked = 21
    PROVE  OfRules = {} <=> \A k \in DOMAIN Files : NothingFound(k)
  <1>1. ASSUME \A k \in DOMAIN Files : NothingFound(k) PROVE OfRules = {}
    <2>. SUFFICES ASSUME NEW e \in OfRules PROVE FALSE
      OBVIOUS
    <2>1. e \in valErrors /\ e.what \notin {"JsonNameConflicts", "EnumPrefixConflict"}
      BY DEF OfRules
    <2>2. PICK j \in 1 .. 21 : \E k \in DOMAIN Files : \E i \in Found(Phase2[j], k) :
             e = [what |-> Phase2[j], at |-> <<k, i>>]
      <3>1. HasCause(e)
        BY <2>1 DEF SaidInv
      <3>. QED  BY <3>1 DEF HasCause
    <2>3. PICK k \in DOMAIN Files : \E i \in Found(Phase2[j], k) : e = [what |-> Phase2[j], at |-> <<k, i>>]
      BY <2>2
    <2>4. Phase2[j] = e.what
      BY <2>3
    <2>5. j \in (2 .. 9) \cup (11 .. 21)
      BY <2>1, <2>4, Phase2Has
    <2>. QED  BY <1>1, <2>3, <2>5 DEF NothingFound
  <1>2. ASSUME OfRules = {} PROVE \A k \in DOMAIN Files : NothingFound(k)
    <2>1. \A j \in (2 .. 9) \cup (11 .. 21) :
             /\ j \in 1 .. 21
             /\ Phase2[j] \notin {"JsonNameConflicts", "EnumPrefixConflict"}
      <3>1. \A j \in (2 .. 9) \cup (11 .. 21) : j \in 1 .. 21
        OBVIOUS
      <3>. QED  BY <3>1, Phase2Has
    <2>2. \A e \in valErrors : e.what # "FeaturesEditions"
      BY <1>2 DEF OfRules
    <2>3. \A j : IsDue(Phase2[j])
      BY <2>2 DEF IsDue
    <2>4. ASSUME NEW k \in DOMAIN Files, NEW j \in (2 .. 9) \cup (11 .. 21), NEW i \in Found(Phase2[j], k)
          PROVE  FALSE
      <3>1. PICK v : v = Phase2[j]
        OBVIOUS
      <3>2. IsSaid(j, k)
        BY <2>1, <2>3 DEF SaidInv
      <3>3. [what |-> v, at |-> <<k, i>>] \in valErrors /\ v \notin {"JsonNameConflicts", "EnumPrefixConflict"}
        BY <2>1, <3>1, <3>2 DEF IsSaid
      <3>4. [what |-> v, at |-> <<k, i>>] \in OfRules
        BY <3>3 DEF OfRules
      <3>. QED  BY <1>2, <3>4
    <2>. QED  BY <2>4 DEF NothingFound
  <1>. QED  BY <1>1, <1>2

\* A file is without anything found exactly if it is what it should be.
LEMMA SoundFile ==
    ASSUME job \in UNION Jobs, NEW k \in DOMAIN Files, RequiredExtensions(Files[k]) = {}
    PROVE  NothingFound(k)
             <=> /\ FeaturesFit(Files[k])
                 /\ \A d \in Range(Files[k].nodes) :
                       /\ d.kind \in FieldKinds \cup {"extension"} => OptionsFit(k, d)
                       /\ Files[k].syntax = "proto3" => IsProto3(d)
                       /\ ~TakenForMap(Files[k], d)
  <1>. DEFINE F == Files[k]
              Options == \A d \in Range(F.nodes) : d.kind \in FieldKinds \cup {"extension"} => OptionsFit(k, d)
              IsOf3 == \A d \in Range(F.nodes) : IsProto3(d)
              NoneTaken == \A d \in Range(F.nodes) : ~TakenForMap(F, d)
  <1>1. Options <=> /\ PackedNonRepeated(F) = {} /\ LazyNonMessage(F) = {}
                    /\ JstypeNonInt64(F) = {} /\ RepeatedDefault(F) = {}
                    /\ MessageDefault(F) = {} /\ EnumDefaultValues(Files, k) = {}
                    /\ F.syntax = "proto3" => Proto3Default(F) = {}
    BY OptionsMean
  <1>2. IsOf3 <=> /\ Proto3Extend(F) = {} /\ Proto3MessageSet(F) = {}
                  /\ Proto3Group(F) = {} /\ Proto3Required(F) = {}
    BY Proto3Means
  <1>3. FeaturesFit(F) <=> FeaturesClean(F)
    BY FeaturesMean
  <1>4. Proto3(F) = {} <=> (F.syntax = "proto3" =>
                              /\ Proto3Extend(F) = {} /\ Proto3MessageSet(F) = {} /\ Proto3Group(F) = {}
                              /\ Proto3Required(F) = {} /\ Proto3Default(F) = {} /\ NonZero(F) = {})
    BY DEF Proto3
  <1>5. NothingFound(k)
          <=> /\ PackedNonRepeated(F) = {} /\ LazyNonMessage(F) = {} /\ JstypeNonInt64(F) = {}
              /\ RepeatedDefault(F) = {} /\ MessageDefault(F) = {} /\ EnumDefaultValues(Files, k) = {}
              /\ Proto3(F) = {} /\ EditionGroups(F) = {} /\ EditionOpenEnumZero(F) = {}
              /\ FileLevelLegacyRequired(F) = {} /\ RepeatedFieldEncoding(F) = {}
              /\ FieldPresenceRepeated(F) = {} /\ FieldPresenceOneof(F) = {}
              /\ MessageEncodingScalar(F) = {} /\ FieldPresenceExtension(F) = {}
              /\ RequiredExtensionEditions(F) = {} /\ Utf8ValidationNonString(F) = {}
              /\ FeaturesEditionsErrors(F) = {} /\ FeatureTargetErrors(F) = {}
    <2>. DEFINE Q(j) == Found(Phase2[j], k) = {}
    <2>1. (\A j \in (2 .. 9) \cup (11 .. 21) : Q(j))
             <=> /\ Q(2) /\ Q(3) /\ Q(4) /\ Q(5) /\ Q(6) /\ Q(7) /\ Q(8) /\ Q(9)
                 /\ Q(11) /\ Q(12) /\ Q(13) /\ Q(14) /\ Q(15) /\ Q(16) /\ Q(17) /\ Q(18) /\ Q(19)
                 /\ Q(20) /\ Q(21)
      <3>1. \A j \in (2 .. 9) \cup (11 .. 21) :
               j \in {2, 3, 4, 5, 6, 7, 8, 9, 11, 12, 13, 14, 15, 16, 17, 18, 19, 20, 21}
        OBVIOUS
      <3>2. \A j \in {2, 3, 4, 5, 6, 7, 8, 9, 11, 12, 13, 14, 15, 16, 17, 18, 19, 20, 21} :
               j \in (2 .. 9) \cup (11 .. 21)
        OBVIOUS
      <3>. HIDE DEF Q
      <3>. QED  BY <3>1, <3>2
    <2>2. /\ Q(2) <=> PackedNonRepeated(F) = {}
          /\ Q(3) <=> LazyNonMessage(F) = {}
          /\ Q(4) <=> JstypeNonInt64(F) = {}
          /\ Q(5) <=> RepeatedDefault(F) = {}
          /\ Q(6) <=> MessageDefault(F) = {}
          /\ Q(7) <=> EnumDefaultValues(Files, k) = {}
          /\ Q(8) <=> Proto3(F) = {}
          /\ Q(9) <=> EditionGroups(F) = {}
          /\ Q(11) <=> EditionOpenEnumZero(F) = {}
          /\ Q(12) <=> FileLevelLegacyRequired(F) = {}
          /\ Q(13) <=> RepeatedFieldEncoding(F) = {}
          /\ Q(14) <=> FieldPresenceRepeated(F) = {}
          /\ Q(15) <=> FieldPresenceOneof(F) = {}
          /\ Q(16) <=> MessageEncodingScalar(F) = {}
          /\ Q(17) <=> FieldPresenceExtension(F) = {}
          /\ Q(18) <=> RequiredExtensionEditions(F) = {}
          /\ Q(19) <=> Utf8ValidationNonString(F) = {}
          /\ Q(20) <=> FeaturesEditionsErrors(F) = {}
          /\ Q(21) <=> FeatureTargetErrors(F) = {}
      BY FoundIs, Phase2Has
    <2>3. NothingFound(k) <=> \A j \in (2 .. 9) \cup (11 .. 21) : Q(j)
      BY DEF NothingFound
    <2>. HIDE DEF Q
    <2>. QED  BY <2>1, <2>2, <2>3
  <1>6. (\A d \in Range(F.nodes) :
            /\ d.kind \in FieldKinds \cup {"extension"} => OptionsFit(k, d)
            /\ F.syntax = "proto3" => IsProto3(d)
            /\ ~TakenForMap(F, d))
          <=> Options /\ (F.syntax = "proto3" => IsOf3) /\ NoneTaken
    OBVIOUS
  <1>7. MessageEncodingScalar(F) = {} <=> EncodesOther(F) = {} /\ NoneTaken
    BY EncodingMeans
  <1>8. NothingFound(k) <=> FeaturesFit(F) /\ Options /\ (F.syntax = "proto3" => IsOf3) /\ NoneTaken
    <2>. HIDE DEF Options, IsOf3, NoneTaken, F
    <2>. QED  BY <1>1, <1>2, <1>3, <1>4, <1>5, <1>7 DEF FeaturesClean
  <1>. HIDE DEF Options, IsOf3, NoneTaken
  <1>. QED  BY <1>6, <1>8

\* Whatever is declared, phase 1 objects to it exactly if some declaration may not stand, and
\* the some twenty validators of phase 2 exactly if some option, default, feature or use of
\* proto3 does not fit (compileInternal, cli.go:2069-6126), or a message field that sets its
\* encoding is taken for a map: together they leave no gap, and refuse nothing else that fits.
THEOREM DescriptorsAreAlwaysSound == Spec => []DescriptorsAreSound
  <1>1. SoundInv => DescriptorsAreSound
    <2>. SUFFICES ASSUME SoundInv PROVE DescriptorsAreSound
      OBVIOUS
    <2>1. job \in UNION Jobs
      BY DEF SoundInv, NamesInv, RegistryInv
    <2>2. ruled = 4 => (ruleErrors = {} <=> \A k \in DOMAIN Files : \A d \in Range(Files[k].nodes) : MayStand(d))
      <3>. SUFFICES ASSUME ruled = 4
                    PROVE  ruleErrors = {} <=> \A k \in DOMAIN Files : \A d \in Range(Files[k].nodes) : MayStand(d)
        OBVIOUS
      <3>. DEFINE Q(j) == \A k \in DOMAIN Files : Broken(Rules[j], k) = {}
      <3>1. ruleErrors = {} <=> \A j \in 1 .. 4 : Q(j)
        BY DEF SoundInv, RulesInv, RulesSaid
      <3>2. (\A j \in 1 .. 4 : Q(j)) <=> Q(1) /\ Q(2) /\ Q(3) /\ Q(4)
        <4>1. \A j \in 1 .. 4 : j \in {1, 2, 3, 4}
          OBVIOUS
        <4>. HIDE DEF Q
        <4>. QED  BY <4>1
      <3>3. /\ Q(1) <=> \A k \in DOMAIN Files : MapKeyTypes(Files[k]) = {}
            /\ Q(2) <=> \A k \in DOMAIN Files : RequiredExtensions(Files[k]) = {}
            /\ Q(3) <=> \A k \in DOMAIN Files : ExtensionJsonName(Files[k]) = {}
            /\ Q(4) <=> \A k \in DOMAIN Files : MessageSetExtensions(Files, k) = {}
        BY RulesIs, BrokenIs
      <3>4. \A k \in DOMAIN Files :
               (\A d \in Range(Files[k].nodes) : MayStand(d))
                 <=> /\ MapKeyTypes(Files[k]) = {} /\ RequiredExtensions(Files[k]) = {}
                     /\ ExtensionJsonName(Files[k]) = {} /\ MessageSetExtensions(Files, k) = {}
        BY <2>1, StandingMeans
      <3>. HIDE DEF Q
      <3>. QED  BY <3>1, <3>2, <3>3, <3>4
    <2>3. ASSUME DescriptorsDecided
          PROVE  OfRules = {} <=>
                   \A k \in DOMAIN Files :
                      /\ FeaturesFit(Files[k])
                      /\ \A d \in Range(Files[k].nodes) :
                            /\ d.kind \in FieldKinds \cup {"extension"} => OptionsFit(k, d)
                            /\ Files[k].syntax = "proto3" => IsProto3(d)
                            /\ ~TakenForMap(Files[k], d)
      <3>1. checked = 21 /\ outcome \in {"accepted", "printed"}
        BY <2>3 DEF SoundInv, NamesInv, FoundInv, DescriptorsDecided
      <3>2. ruled = 4 /\ ruleErrors = {}
        BY <3>1 DEF SoundInv, RulesInv
      <3>3. \A k \in DOMAIN Files : \A d \in Range(Files[k].nodes) : MayStand(d)
        BY <2>2, <3>2
      <3>4. \A k \in DOMAIN Files : RequiredExtensions(Files[k]) = {}
        BY <2>1, <3>3, StandingMeans
      <3>5. \A k \in DOMAIN Files :
               NothingFound(k)
                 <=> /\ FeaturesFit(Files[k])
                     /\ \A d \in Range(Files[k].nodes) :
                           /\ d.kind \in FieldKinds \cup {"extension"} => OptionsFit(k, d)
                           /\ Files[k].syntax = "proto3" => IsProto3(d)
                           /\ ~TakenForMap(Files[k], d)
        BY <2>1, <3>4, SoundFile
      <3>6. OfRules = {} <=> \A k \in DOMAIN Files : NothingFound(k)
        BY <3>1, SaidMeans DEF SoundInv
      <3>. QED  BY <3>5, <3>6
    <2>. QED  BY <2>2, <2>3, RulesIs DEF DescriptorsAreSound
  <1>. QED  BY <1>1, SoundInvariance, PTL

-------------------------------------------------------------------------------
(* Declarations and their symbols. *)

\* A message is declared as one, other types as types.
AsOf(kind, as) == IF as = "type" /\ kind = "message" THEN "message" ELSE as

\* What a symbol declares.
Declared(file, s) == [as |-> AsOf(file.nodes[s.node].kind, s.as), full |-> Full(s)]

\* F has the full names of a node's symbols, by what each is declared as.
NamesSymbols(file, i, kind, F) ==
    /\ \A a : (\E s \in Range(Symbols(file)) : s.node = i /\ a = Declared(file, s))
                 <=> \E as \in As : Has(kind, as) /\ a = [as |-> AsOf(kind, as), full |-> F[as]]
    /\ \A as \in As : Has(kind, as) =>
          \E s : IsSymbol(file, s) /\ s.node = i /\ s.as = as /\ F[as] = Append(s.scope, s.name)

LEMMA SymbolsOfNode ==
    ASSUME NEW file, IsFile(file), IsDescribed(file), NEW i \in DOMAIN file.nodes,
           NEW kind, kind = file.nodes[i].kind
    PROVE  \E F : NamesSymbols(file, i, kind, F)
  <1>1. PICK symbols : symbols = Symbols(file) /\ Lists(file, symbols, Tags(file))
    BY ListsSymbols
  <1>2. PICK R : R = Range(symbols)
    OBVIOUS
  <1>3. \A s : s \in R <=> \E k \in DOMAIN symbols : s = symbols[k]
    BY <1>2 DEF Range
  <1>4. \A s \in R : IsSymbol(file, s) /\ (s.node = i => s.as \in As /\ Has(kind, s.as))
    <2>1. ASSUME NEW s \in R PROVE IsSymbol(file, s) /\ (s.node = i => s.as \in As /\ Has(kind, s.as))
      <3>1. IsSymbol(file, s) /\ Tag(s) \in Tags(file)
        BY <1>1, <1>3 DEF Lists
      <3>2. Tag(s)[1] = s.node /\ Tag(s)[2] = s.as
        BY DEF Tag
      <3>. QED  BY <3>1, <3>2, TagIs
    <2>. QED  BY <2>1
  <1>5. \A s, t \in R : s.node = i /\ t.node = i /\ s.as = t.as => s = t
    <2>1. ASSUME NEW s \in R, NEW t \in R, s.node = i, t.node = i, s.as = t.as PROVE s = t
      <3>1. PICK j \in DOMAIN symbols : s = symbols[j]
        BY <1>3
      <3>2. PICK k \in DOMAIN symbols : t = symbols[k]
        BY <1>3
      <3>3. Tag(s) = Tag(t)
        BY <2>1 DEF Tag
      <3>. QED  BY <1>1, <3>1, <3>2, <3>3 DEF Lists
    <2>. QED  BY <2>1
  <1>6. \A as \in As : Has(kind, as) => \E s \in R : s.node = i /\ s.as = as
    <2>1. ASSUME NEW as \in As, Has(kind, as) PROVE \E s \in R : s.node = i /\ s.as = as
      <3>1. <<i, as>> \in Tags(file)
        BY <2>1 DEF Tags
      <3>2. PICK k \in DOMAIN symbols : Tag(symbols[k]) = <<i, as>>
        BY <1>1, <3>1 DEF Lists
      <3>3. symbols[k].node = i /\ symbols[k].as = as
        BY <3>2 DEF Tag
      <3>. QED  BY <1>3, <3>3
    <2>. QED  BY <2>1
  <1>7. PICK F : F = [as \in As |-> Full(CHOOSE s \in R : s.node = i /\ s.as = as)]
    OBVIOUS
  <1>8. \A s \in R : s.node = i => F[s.as] = Full(s)
    <2>1. ASSUME NEW s \in R, s.node = i PROVE F[s.as] = Full(s)
      <3>1. PICK t : t = CHOOSE x \in R : x.node = i /\ x.as = s.as
        OBVIOUS
      <3>2. t \in R /\ t.node = i /\ t.as = s.as
        BY <2>1, <3>1
      <3>3. t = s /\ s.as \in As
        BY <1>4, <1>5, <2>1, <3>2
      <3>. QED  BY <1>7, <3>1, <3>3
    <2>. QED  BY <2>1
  <1>9. ASSUME NEW a
        PROVE  (\E s \in R : s.node = i /\ a = Declared(file, s))
                  <=> \E as \in As : Has(kind, as) /\ a = [as |-> AsOf(kind, as), full |-> F[as]]
    <2>1. \A s \in R : s.node = i => Declared(file, s) = [as |-> AsOf(kind, s.as), full |-> F[s.as]]
      BY <1>8 DEF Declared
    <2>2. ASSUME NEW s \in R, s.node = i, a = Declared(file, s)
          PROVE  \E as \in As : Has(kind, as) /\ a = [as |-> AsOf(kind, as), full |-> F[as]]
      <3>1. s.as \in As /\ Has(kind, s.as)
        BY <1>4, <2>2
      <3>. QED  BY <2>1, <2>2, <3>1
    <2>3. ASSUME NEW as \in As, Has(kind, as), a = [as |-> AsOf(kind, as), full |-> F[as]]
          PROVE  \E s \in R : s.node = i /\ a = Declared(file, s)
      <3>1. PICK s \in R : s.node = i /\ s.as = as
        BY <1>6, <2>3
      <3>. QED  BY <2>1, <2>3, <3>1
    <2>. QED  BY <2>2, <2>3
  <1>10. \A as \in As : Has(kind, as) =>
           \E s : IsSymbol(file, s) /\ s.node = i /\ s.as = as /\ F[as] = Append(s.scope, s.name)
    <2>1. ASSUME NEW as \in As, Has(kind, as)
          PROVE  \E s : IsSymbol(file, s) /\ s.node = i /\ s.as = as /\ F[as] = Append(s.scope, s.name)
      <3>1. PICK s \in R : s.node = i /\ s.as = as
        BY <1>6, <2>1
      <3>. QED  BY <1>4, <1>8, <3>1 DEF Full
    <2>. QED  BY <2>1
  <1>11. \A a : (\E s \in Range(Symbols(file)) : s.node = i /\ a = Declared(file, s))
                 <=> \E as \in As : Has(kind, as) /\ a = [as |-> AsOf(kind, as), full |-> F[as]]
    BY <1>1, <1>2, <1>9
  <1>12. NamesSymbols(file, i, kind, F)
    BY <1>10, <1>11 DEF NamesSymbols
  <1>. QED  BY <1>12

LEMMA DeclaresAre ==
    ASSUME NEW file, IsFile(file), IsDescribed(file), NEW i \in DOMAIN file.nodes
    PROVE  \A a : a \in Declares(file, i)
                    <=> \E s \in Range(Symbols(file)) : s.node = i /\ a = Declared(file, s)
  <1>1. PICK d, kind : d = file.nodes[i] /\ kind = d.kind
    OBVIOUS
  <1>2. PICK sc, scope : sc = Scopes(file) /\ scope = sc[d.in] /\ sc[i] = Append(scope, TypeName(d))
    <2>1. PICK sc : sc = Scopes(file) /\ sc[i] = Append(sc[file.nodes[i].in], TypeName(file.nodes[i]))
      BY ScopesAre
    <2>. QED  BY <1>1, <2>1
  <1>3. PICK F : /\ \A a : (\E s \in Range(Symbols(file)) : s.node = i /\ a = Declared(file, s))
                             <=> \E as \in As : Has(kind, as) /\ a = [as |-> AsOf(kind, as), full |-> F[as]]
                 /\ \A as \in As : Has(kind, as) =>
                       \E s : IsSymbol(file, s) /\ s.node = i /\ s.as = as /\ F[as] = Append(s.scope, s.name)
    <2>1. PICK F : NamesSymbols(file, i, kind, F)
      BY <1>1, SymbolsOfNode
    <2>. QED  BY <2>1 DEF NamesSymbols
  <1>4. kind \in DeclarationKinds
    BY <1>1, DescribedNode
  <1>5. ASSUME NEW as \in As, Has(kind, as)
        PROVE  /\ as = "field" => F[as] = Append(scope, FieldName(d))
               /\ as = "type" => F[as] = Append(scope, TypeName(d))
               /\ as = "key" => F[as] = Append(Append(scope, TypeName(d)), <<"key">>)
               /\ as = "element" => F[as] = Append(Append(scope, TypeName(d)), <<"value">>)
               /\ as = "value" => F[as] = Append(sc[file.nodes[d.in].in], d.name)
               /\ as \in {"extension", "enum", "service", "method"} => F[as] = Append(scope, d.name)
    <2>1. PICK s : IsSymbol(file, s) /\ s.node = i /\ s.as = as /\ F[as] = Append(s.scope, s.name)
      BY <1>3, <1>5
    <2>2. /\ as = "field" => s.name = FieldName(d)
          /\ as = "type" => s.name = TypeName(d)
          /\ as = "key" => s.name = <<"key">>
          /\ as = "element" => s.name = <<"value">>
          /\ as \in {"extension", "enum", "value", "service", "method"} => s.name = d.name
      BY <1>1, <2>1 DEF IsSymbol
    <2>3. /\ as \in {"key", "element"} => s.scope = sc[i]
          /\ as = "value" => s.scope = sc[file.nodes[d.in].in]
          /\ as \notin {"key", "element", "value"} => s.scope = scope
      BY <1>1, <1>2, <2>1 DEF IsSymbol
    <2>. QED  BY <1>2, <2>1, <2>2, <2>3
  <1>6. /\ Has(kind, "field") => F["field"] = Append(scope, FieldName(d))
        /\ Has(kind, "type") => F["type"] = Append(scope, TypeName(d))
        /\ Has(kind, "key") => F["key"] = Append(Append(scope, TypeName(d)), <<"key">>)
        /\ Has(kind, "element") => F["element"] = Append(Append(scope, TypeName(d)), <<"value">>)
        /\ Has(kind, "value") => F["value"] = Append(sc[file.nodes[d.in].in], d.name)
        /\ \A as \in {"extension", "enum", "service", "method"} : Has(kind, as) => F[as] = Append(scope, d.name)
    BY <1>5 DEF As
  <1>7. FullName(file, i) = Append(scope, d.name)
    BY <1>1, <1>2 DEF FullName
  <1>8. ASSUME Has(kind, "oneof")
        PROVE  \E o : /\ F["oneof"] = Append(scope, o.name)
                      /\ \A x : x \in Range(Oneofs(file, d.in)) /\ x.node = i <=> x = o
                      /\ kind = "oneof" => o.name = d.name
    <2>1. PICK l : l = Oneofs(file, d.in) /\ AreOneofs(l, file, d.in)
      BY OneofsAre
    <2>2. PICK s : IsSymbol(file, s) /\ s.node = i /\ s.as = "oneof" /\ F["oneof"] = Append(s.scope, s.name)
      BY <1>3, <1>8 DEF As
    <2>3. s.scope = scope
      BY <1>1, <1>2, <2>2 DEF IsSymbol
    <2>4. PICK o \in Range(l) : o.node = i /\ s.name = o.name
      BY <1>1, <2>1, <2>2 DEF IsSymbol
    <2>5. \A x : x \in Range(l) <=> \E k \in DOMAIN l : l[k] = x
      BY DEF Range
    <2>6. PICK k \in DOMAIN l : l[k] = o
      BY <2>4, <2>5
    <2>7. \A x \in Range(l) : x.node = i => x = o
      BY <2>1, <2>4, <2>5, <2>6 DEF AreOneofs
    <2>8. kind = "oneof" => o.name = d.name
      <3>1. file.nodes[l[k].node] = d /\ l[k].name = o.name
        BY <1>1, <2>4, <2>6
      <3>2. file.nodes[l[k].node].kind = "oneof" => l[k].name = file.nodes[l[k].node].name
        BY <2>1, <2>6 DEF AreOneofs
      <3>. QED  BY <1>1, <3>1, <3>2
    <2>. QED  BY <2>1, <2>2, <2>3, <2>4, <2>7, <2>8
  <1>9. SUFFICES ASSUME NEW a
                 PROVE  a \in Declares(file, i)
                          <=> \E as \in As : Has(kind, as) /\ a = [as |-> AsOf(kind, as), full |-> F[as]]
    BY <1>3
  <1>10. CASE kind = "value"
    <2>1. \A as \in As : Has(kind, as) <=> as = "value"
      BY <1>10 DEF Has, As, FieldKinds, TypeKinds
    <2>2. PICK full : full = Append(sc[file.nodes[d.in].in], d.name) /\ F["value"] = full
      BY <1>1, <1>2, <1>6, <1>7, <1>10 DEF Has, FieldKinds, TypeKinds, FieldName, TypeName
    <2>3. Declares(file, i) = {[as |-> "value", full |-> full]}
      BY <1>1, <1>2, <1>7, <1>10, <2>2, Zenon DEF Declares
    <2>4. AsOf(kind, "value") = "value" /\ "value" \in As
      BY <1>10 DEF AsOf, As
    <2>. QED  BY <2>1, <2>2, <2>3, <2>4
  <1>11. CASE kind = "field"
    <2>1. \A as \in As : Has(kind, as) <=> as = "field"
      BY <1>11 DEF Has, As, FieldKinds, TypeKinds
    <2>2. PICK full : full = FullName(file, i) /\ F["field"] = full
      BY <1>1, <1>2, <1>6, <1>7, <1>11 DEF Has, FieldKinds, TypeKinds, FieldName, TypeName
    <2>3. Declares(file, i) = {[as |-> "field", full |-> full]}
      BY <1>1, <1>2, <1>7, <1>11, <2>2, Zenon DEF Declares
    <2>4. AsOf(kind, "field") = "field" /\ "field" \in As
      BY <1>11 DEF AsOf, As
    <2>. QED  BY <2>1, <2>2, <2>3, <2>4
  <1>12. CASE kind = "message"
    <2>1. \A as \in As : Has(kind, as) <=> as = "type"
      BY <1>12 DEF Has, As, FieldKinds, TypeKinds
    <2>2. PICK full : full = FullName(file, i) /\ F["type"] = full
      BY <1>1, <1>2, <1>6, <1>7, <1>12 DEF Has, FieldKinds, TypeKinds, FieldName, TypeName
    <2>3. Declares(file, i) = {[as |-> "message", full |-> full]}
      BY <1>1, <1>2, <1>7, <1>12, <2>2, Zenon DEF Declares
    <2>4. AsOf(kind, "type") = "message" /\ "type" \in As
      BY <1>12 DEF AsOf, As
    <2>. QED  BY <2>1, <2>2, <2>3, <2>4
  <1>13. CASE kind \in {"extension", "enum", "service", "method"}
    <2>1. \A as \in As : Has(kind, as) <=> as = kind
      BY <1>13 DEF Has, As, FieldKinds, TypeKinds
    <2>2. PICK full : full = FullName(file, i) /\ F[kind] = full
      BY <1>6, <1>7, <1>13 DEF Has
    <2>3. Declares(file, i) = {[as |-> kind, full |-> full]}
      <3>1. kind # "value" /\ kind # "map" /\ kind # "group" /\ kind # "optional"
        BY <1>13
      <3>. QED  BY <1>1, <2>2, <3>1, Zenon DEF Declares
    <2>4. AsOf(kind, kind) = kind /\ kind \in As
      BY <1>13 DEF AsOf, As
    <2>. QED  BY <2>1, <2>2, <2>3, <2>4
  <1>14. CASE kind = "oneof"
    <2>1. \A as \in As : Has(kind, as) <=> as = "oneof"
      BY <1>14 DEF Has, As, FieldKinds, TypeKinds
    <2>2. PICK full : full = FullName(file, i) /\ F["oneof"] = full
      BY <1>7, <1>8, <1>14 DEF Has
    <2>3. Declares(file, i) = {[as |-> "oneof", full |-> full]}
      BY <1>1, <1>14, <2>2, Zenon DEF Declares
    <2>4. AsOf(kind, "oneof") = "oneof" /\ "oneof" \in As
      BY <1>14 DEF AsOf, As
    <2>. QED  BY <2>1, <2>2, <2>3, <2>4
  <1>15. CASE kind = "optional"
    <2>1. \A as \in As : Has(kind, as) <=> as = "field" \/ as = "oneof"
      BY <1>15 DEF Has, As, FieldKinds, TypeKinds
    <2>2. PICK full : full = FullName(file, i) /\ F["field"] = full
      BY <1>1, <1>2, <1>6, <1>7, <1>15 DEF Has, FieldKinds, FieldName
    <2>3. PICK o : /\ F["oneof"] = Append(scope, o.name)
                   /\ \A x : x \in Range(Oneofs(file, d.in)) /\ x.node = i <=> x = o
      BY <1>8, <1>15 DEF Has
    <2>4. PICK made : made = {x \in Range(Oneofs(file, d.in)) : x.node = i}
      OBVIOUS
    <2>5. Declares(file, i) = {[as |-> "field", full |-> full]}
                                \cup {[as |-> "oneof", full |-> Append(scope, x.name)] : x \in made}
      BY <1>1, <1>2, <1>15, <2>2, <2>4, Zenon DEF Declares
    <2>6. \A x : x \in made <=> x = o
      BY <2>3, <2>4
    <2>7. a \in Declares(file, i) <=> \/ a = [as |-> "field", full |-> full]
                                       \/ a = [as |-> "oneof", full |-> F["oneof"]]
      BY <2>3, <2>5, <2>6
    <2>8. /\ AsOf(kind, "field") = "field" /\ "field" \in As
          /\ AsOf(kind, "oneof") = "oneof" /\ "oneof" \in As
      BY <1>15 DEF AsOf, As
    <2>. QED  BY <2>1, <2>2, <2>7, <2>8
  <1>16. CASE kind = "group"
    <2>1. \A as \in As : Has(kind, as) <=> as = "field" \/ as = "type"
      BY <1>16 DEF Has, As, FieldKinds, TypeKinds
    <2>2. PICK x, y : /\ x = Append(scope, Lowered(d.name)) /\ F["field"] = x
                      /\ y = FullName(file, i) /\ F["type"] = y
      BY <1>1, <1>2, <1>6, <1>7, <1>16 DEF Has, FieldKinds, TypeKinds, FieldName, TypeName
    <2>3. Declares(file, i) = {[as |-> "field", full |-> x], [as |-> "type", full |-> y]}
      BY <1>1, <1>2, <1>16, <2>2, Zenon DEF Declares
    <2>4. /\ AsOf(kind, "field") = "field" /\ "field" \in As
          /\ AsOf(kind, "type") = "type" /\ "type" \in As
      BY <1>16 DEF AsOf, As
    <2>. QED  BY <2>1, <2>2, <2>3, <2>4
  <1>17. CASE kind = "map"
    <2>1. \A as \in As : Has(kind, as) <=> as \in {"field", "type", "key", "element"}
      BY <1>17 DEF Has, As, FieldKinds, TypeKinds
    <2>2. PICK x, y, u, v : /\ x = Append(scope, d.name) /\ y = Append(scope, TypeName(d))
                            /\ u = Append(y, <<"key">>) /\ v = Append(y, <<"value">>)
      OBVIOUS
    <2>3. F["field"] = x /\ F["type"] = y /\ F["key"] = u /\ F["element"] = v
      <3>1. FieldName(d) = d.name
        BY <1>1, <1>17 DEF FieldName
      <3>2. Has(kind, "field") /\ Has(kind, "type") /\ Has(kind, "key") /\ Has(kind, "element")
        BY <1>17 DEF Has, FieldKinds, TypeKinds
      <3>. QED  BY <1>6, <2>2, <3>1, <3>2
    <2>4. Declares(file, i) = {[as |-> "field", full |-> x], [as |-> "type", full |-> y],
                               [as |-> "key", full |-> u], [as |-> "element", full |-> v]}
      BY <1>1, <1>2, <1>17, <2>2, Zenon DEF Declares
    <2>5. \A as \in {"field", "type", "key", "element"} : AsOf(kind, as) = as /\ as \in As
      BY <1>17 DEF AsOf, As
    <2>6. a \in Declares(file, i)
            <=> \E as \in {"field", "type", "key", "element"} : a = [as |-> as, full |-> F[as]]
      BY <2>3, <2>4
    <2>. QED  BY <2>1, <2>5, <2>6
  <1>. QED  BY <1>4, <1>10, <1>11, <1>12, <1>13, <1>14, <1>15, <1>16, <1>17 DEF DeclarationKinds, FieldKinds

\* What is declared by what is registered.
Shown(p) ==
    [file |-> p[1], node |-> p[2].node,
     as |-> AsOf(Files[p[1]].nodes[p[2].node].kind, p[2].as), full |-> Full(p[2])]

\* Each declaration is registered, and nothing else is.
LEMMA DeclarationsAre ==
    ASSUME job \in UNION Jobs, NEW P, P = Registered(Files, Len(Files))
    PROVE  \A d : d \in Declarations <=> \E p \in P : d = Shown(p)
  <1>1. DOMAIN Files = 1 .. Len(Files) /\ AreFiles(Files, Len(Files))
    BY JobHasFiles
  <1>2. \A d : d \in Declarations <=>
           \E k \in DOMAIN Files : \E i \in DOMAIN Files[k].nodes : \E a \in Declares(Files[k], i) :
              d = [file |-> k, node |-> i, as |-> a.as, full |-> a.full]
    BY DEF Declarations
  <1>3. \A p : p \in P <=> \E k \in DOMAIN Files : \E s \in Range(Symbols(Files[k])) : p = <<k, s>>
    BY <1>1 DEF Registered
  <1>4. ASSUME NEW d \in Declarations PROVE \E p \in P : d = Shown(p)
    <2>1. PICK k \in DOMAIN Files : \E i \in DOMAIN Files[k].nodes : \E a \in Declares(Files[k], i) :
             d = [file |-> k, node |-> i, as |-> a.as, full |-> a.full]
      BY <1>2
    <2>2. PICK i \in DOMAIN Files[k].nodes : \E a \in Declares(Files[k], i) :
             d = [file |-> k, node |-> i, as |-> a.as, full |-> a.full]
      BY <2>1
    <2>3. PICK a \in Declares(Files[k], i) : d = [file |-> k, node |-> i, as |-> a.as, full |-> a.full]
      BY <2>2
    <2>4. PICK s \in Range(Symbols(Files[k])) : s.node = i /\ a = Declared(Files[k], s)
      <3>1. IsFile(Files[k]) /\ IsDescribed(Files[k])
        BY JobIsDescribed
      <3>. QED  BY <3>1, DeclaresAre
    <2>5. PICK p : p = <<k, s>>
      OBVIOUS
    <2>6. p \in P /\ p[1] = k /\ p[2] = s
      BY <1>3, <2>5
    <2>7. a.as = AsOf(Files[k].nodes[i].kind, s.as) /\ a.full = Full(s)
      BY <2>4 DEF Declared
    <2>8. d = Shown(p)
      BY <2>3, <2>4, <2>6, <2>7 DEF Shown
    <2>. QED  BY <2>6, <2>8
  <1>5. ASSUME NEW p \in P PROVE Shown(p) \in Declarations
    <2>1. PICK k, s : k = p[1] /\ s = p[2]
      OBVIOUS
    <2>2. /\ k \in DOMAIN Files /\ IsFile(Files[k]) /\ IsDescribed(Files[k])
          /\ s \in Range(Symbols(Files[k])) /\ Tag(s) \in Tags(Files[k])
      BY <1>1, <2>1, RegisteredIs
    <2>3. PICK i \in DOMAIN Files[k].nodes : i = s.node
      <3>1. Tag(s)[1] = s.node
        BY DEF Tag
      <3>. QED  BY <2>2, <3>1, TagIs
    <2>4. PICK a : a = Declared(Files[k], s)
      OBVIOUS
    <2>5. a \in Declares(Files[k], i)
      BY <2>2, <2>3, <2>4, DeclaresAre
    <2>6. a.as = AsOf(Files[k].nodes[i].kind, s.as) /\ a.full = Full(s)
      BY <2>3, <2>4 DEF Declared
    <2>7. Shown(p) = [file |-> k, node |-> i, as |-> a.as, full |-> a.full]
      BY <2>1, <2>3, <2>6 DEF Shown
    <2>. QED  BY <1>2, <2>2, <2>5, <2>7
  <1>. QED  BY <1>4, <1>5

\* And each once.
LEMMA ShownOnce ==
    ASSUME job \in UNION Jobs, NEW P, P = Registered(Files, Len(Files)), NEW p \in P, NEW q \in P,
           Shown(p) = Shown(q)
    PROVE  p = q
  <1>1. AreFiles(Files, Len(Files))
    BY JobHasFiles
  <1>2. p[1] = q[1] /\ p[2].node = q[2].node /\ Full(p[2]) = Full(q[2])
    BY DEF Shown
  <1>3. IsSeq(p[2].scope) /\ IsSeq(q[2].scope)
    BY <1>1, RegisteredIs
  <1>4. Key(p[2]) = Key(q[2])
    BY <1>2, <1>3, FullNameIsKey
  <1>5. PICK files, n : files = Files /\ n = Len(Files)
    OBVIOUS
  <1>. QED  BY <1>1, <1>2, <1>4, <1>5, RegisteredOnce

\* What the registry says of the declarations of one full name, the earliest in file first.
AreNoted(wrong, those, first) ==
    /\ Cardinality(wrong) = Cardinality(those) - 1
    /\ \A e \in wrong : e.first = first
    /\ \E d \in those :
          /\ d.file = first
          /\ \A e \in wrong :
               /\ <<e.file, e.symbol.node>> # <<d.file, d.node>>
               /\ e.note <=> /\ e.symbol.as = "value"
                             /\ (IF d.as # "value" THEN NoEnum
                                 ELSE Files[d.file].nodes[Files[d.file].nodes[d.node].in].name)
                                   # e.symbol.enum

LEMMA NameIsNoted ==
    ASSUME job \in UNION Jobs, NEW P, P = Registered(Files, Len(Files)), NEW r, r = registry, Notes(r, P),
           NEW n, NEW those, those = {d \in Declarations : d.full = n}, those # {},
           NEW wrong, wrong = ErrorsAbout(r, n),
           NEW first, first = Min({d.file : d \in those})
    PROVE  AreNoted(wrong, those, first)
  <1>1. PICK files, l : files = Files /\ l = Len(Files)
    OBVIOUS
  <1>2. AreFiles(files, l) /\ P = Registered(files, l) /\ Notes(r, P)
    BY <1>1, JobHasFiles
  <1>3. \A d : d \in Declarations <=> \E p \in P : d = Shown(p)
    BY DeclarationsAre
  <1>4. \A p : Shown(p).full = Full(p[2]) /\ Shown(p).file = p[1] /\ Shown(p).node = p[2].node
    BY DEF Shown
  <1>5. PICK p0 \in P : Full(p0[2]) = n
    <2>1. PICK d \in Declarations : d.full = n
      OBVIOUS
    <2>. QED  BY <1>3, <1>4, <2>1
  <1>6. PICK Q : Q = RegisteredAs(P, n)
    OBVIOUS
  <1>7. \A p : p \in Q <=> p \in P /\ Full(p[2]) = n
    BY <1>6 DEF RegisteredAs
  <1>8. PICK f \in Q :
           /\ \A p \in Q : f[1] <= p[1]
           /\ \A e : e \in wrong <=> \E p \in Q : p # f /\ e = ErrorOf(p, f)
           /\ IsFiniteSet(Q) /\ Cardinality(wrong) = Cardinality(Q) - 1
    <2>1. AreFiles(files, l)
      BY <1>2
    <2>2. P = Registered(files, l)
      BY <1>2
    <2>3. Notes(r, P)
      BY <1>2
    <2>4. n = Full(p0[2])
      BY <1>5
    <2>5. wrong = ErrorsAbout(r, n)
      BY <1>1
    <2>6. \E f \in Q : IsFirstOf(f, Q, wrong)
      BY <1>5, <1>6, <2>1, <2>2, <2>3, <2>4, <2>5, ErrorsOfName
    <2>. QED  BY <2>6 DEF IsFirstOf
  <1>9. \A d : d \in those <=> \E p \in Q : d = Shown(p)
    BY <1>3, <1>4, <1>7
  <1>10. Cardinality(those) = Cardinality(Q)
    <2>1. PICK g : g = [p \in Q |-> Shown(p)]
      OBVIOUS
    <2>2. g \in [Q -> those] /\ \A d \in those : \E p \in Q : g[p] = d
      BY <1>9, <2>1
    <2>3. \A p, q \in Q : g[p] = g[q] => p = q
      BY <1>7, <2>1, ShownOnce
    <2>4. g \in Bijection(Q, those)
      BY <2>2, <2>3 DEF Bijection, Injection, Surjection, IsInjective
    <2>. QED  BY <1>8, <2>4, FS_Bijection DEF ExistsBijection
  <1>11. first = f[1]
    <2>1. PICK M : M = {d.file : d \in those}
      OBVIOUS
    <2>2. \A x : x \in M <=> \E p \in Q : x = p[1]
      <3>1. \A x : x \in M <=> \E d \in those : x = d.file
        BY <2>1
      <3>. QED  BY <1>4, <1>9, <3>1
    <2>3. \A p \in Q : p[1] \in Nat
      <3>1. ASSUME NEW p \in Q PROVE p[1] \in Nat
        <4>1. p \in Registered(files, l)
          BY <1>2, <1>7
        <4>2. p[1] \in 1 .. l
          BY <1>2, <4>1, RegisteredIs
        <4>. QED  BY <1>2, <4>2 DEF AreFiles
      <3>. QED  BY <3>1
    <2>4. M \in SUBSET Nat /\ M # {}
      <3>1. \A x \in M : x \in Nat
        BY <2>2, <2>3
      <3>2. f[1] \in M
        BY <1>8, <2>2
      <3>. QED  BY <3>1, <3>2
    <2>5. Min(M) \in M /\ \A x \in M : Min(M) <= x
      BY <2>4, MinOfIndices
    <2>6. first \in M /\ first <= f[1]
      BY <1>8, <2>1, <2>2, <2>5
    <2>. QED  BY <1>8, <2>2, <2>3, <2>6
  <1>12. ASSUME NEW e \in wrong PROVE e.first = first
    BY <1>8, <1>11, <1>12 DEF ErrorOf
  <1>13. ASSUME NEW e \in wrong
         PROVE  /\ <<e.file, e.symbol.node>> # <<f[1], f[2].node>>
                /\ e.note <=> e.symbol.as = "value" /\ f[2].enum # e.symbol.enum
    <2>1. PICK p \in Q : p # f /\ e = ErrorOf(p, f)
      BY <1>8, <1>13
    <2>2. /\ e.file = p[1] /\ e.symbol = p[2]
          /\ e.note <=> p[2].enum # NoEnum /\ f[2].enum # p[2].enum
      BY <2>1 DEF ErrorOf
    <2>3. p \in P /\ f \in P /\ Full(p[2]) = Full(f[2])
      BY <1>7
    <2>4. /\ IsFile(files[p[1]]) /\ IsSymbol(files[p[1]], p[2]) /\ Tag(p[2]) \in Tags(files[p[1]])
          /\ IsSeq(p[2].scope) /\ IsSeq(f[2].scope)
      BY <1>2, <2>3, RegisteredIs
    <2>5. p[2].enum # NoEnum <=> p[2].as = "value"
      BY <2>4, EnumIsKnown
    <2>6. Key(p[2]) = Key(f[2])
      BY <2>3, <2>4, FullNameIsKey
    <2>7. ~ (p[1] = f[1] /\ p[2].node = f[2].node)
      BY <1>2, <2>1, <2>3, <2>6, RegisteredOnce
    <2>. QED  BY <2>2, <2>5, <2>7
  <1>14. PICK d : d = Shown(f)
    OBVIOUS
  <1>15. /\ d \in those /\ d.file = f[1] /\ d.node = f[2].node
         /\ f[2].enum = IF d.as # "value" THEN NoEnum
                        ELSE Files[d.file].nodes[Files[d.file].nodes[d.node].in].name
    <2>1. d \in those /\ d.file = f[1] /\ d.node = f[2].node
      BY <1>4, <1>8, <1>9, <1>14
    <2>2. d.as = AsOf(Files[f[1]].nodes[f[2].node].kind, f[2].as)
      BY <1>14 DEF Shown
    <2>3. d.as = "value" <=> f[2].as = "value"
      BY <2>2 DEF AsOf
    <2>4. f \in P
      BY <1>7
    <2>5. IsFile(files[f[1]]) /\ IsSymbol(files[f[1]], f[2]) /\ Tag(f[2]) \in Tags(files[f[1]])
      BY <1>2, <2>4, RegisteredIs
    <2>6. /\ f[2].enum # NoEnum <=> f[2].as = "value"
          /\ f[2].as = "value" => f[2].enum = files[f[1]].nodes[files[f[1]].nodes[f[2].node].in].name
      BY <2>5, EnumIsKnown
    <2>. QED  BY <1>1, <2>1, <2>3, <2>6
  <1>16. ASSUME NEW e \in wrong
         PROVE  /\ <<e.file, e.symbol.node>> # <<d.file, d.node>>
                /\ e.note <=> /\ e.symbol.as = "value"
                              /\ (IF d.as # "value" THEN NoEnum
                                  ELSE Files[d.file].nodes[Files[d.file].nodes[d.node].in].name)
                                    # e.symbol.enum
    BY <1>13, <1>15
  <1>17. Cardinality(wrong) = Cardinality(those) - 1
    BY <1>8, <1>10
  <1>. QED  BY <1>11, <1>12, <1>15, <1>16, <1>17 DEF AreNoted

\* A declaration of the name of a oneof that is made for an optional field, in its message.
LEMMA OneofStaysApart ==
    ASSUME job \in UNION Jobs, NEW d \in Declarations, NEW c \in Declarations,
           d.as = "oneof", Files[d.file].nodes[d.node].kind = "optional",
           c.file = d.file, c.full = d.full, c # d,
           Files[c.file].nodes[c.node].in = Files[d.file].nodes[d.node].in
    PROVE  c.as \notin {"field", "oneof"}
  <1>. SUFFICES ASSUME c.as \in {"field", "oneof"} PROVE FALSE
    OBVIOUS
  <1>1. PICK files, l, P : files = Files /\ l = Len(Files) /\ P = Registered(files, l)
    OBVIOUS
  <1>2. AreFiles(files, l)
    BY <1>1, JobHasFiles
  <1>3. \A x : x \in Declarations <=> \E p \in P : x = Shown(p)
    BY <1>1, DeclarationsAre
  <1>4. PICK p \in P : d = Shown(p)
    BY <1>3
  <1>5. PICK q \in P : c = Shown(q)
    BY <1>3
  <1>6. PICK k, s, t : k = p[1] /\ s = p[2] /\ t = q[2]
    OBVIOUS
  <1>7. PICK file : file = files[k]
    OBVIOUS
  <1>8. /\ d.file = k /\ d.node = s.node /\ d.as = AsOf(file.nodes[s.node].kind, s.as) /\ d.full = Full(s)
    BY <1>1, <1>4, <1>6, <1>7 DEF Shown
  <1>9. /\ c.file = q[1] /\ c.node = t.node /\ c.as = AsOf(files[q[1]].nodes[t.node].kind, t.as) /\ c.full = Full(t)
    BY <1>1, <1>5, <1>6 DEF Shown
  <1>10. q[1] = k
    BY <1>8, <1>9
  <1>11. s.as = "oneof" /\ t.as \in {"field", "oneof"}
    BY <1>8, <1>9 DEF AsOf
  <1>12. IsFile(file) /\ IsSymbol(file, s) /\ Tag(s) \in Tags(file) /\ IsSeq(s.scope)
    BY <1>1, <1>2, <1>6, <1>7, RegisteredIs
  <1>13. IsSymbol(file, t) /\ Tag(t) \in Tags(file) /\ IsSeq(t.scope)
    BY <1>1, <1>2, <1>6, <1>7, <1>10, RegisteredIs
  <1>14. Full(s) = Full(t)
    BY <1>8, <1>9
  <1>15. Key(s) = Key(t)
    BY <1>12, <1>13, <1>14, FullNameIsKey
  <1>16. s.name = t.name
    BY <1>15 DEF Key
  <1>17. file.nodes[s.node].kind = "optional" /\ file.nodes[t.node].in = file.nodes[s.node].in
    BY <1>1, <1>7, <1>8, <1>9, <1>10
  <1>18. Tag(s) = Tag(t)
    BY <1>11, <1>12, <1>13, <1>16, <1>17, OneofNameIsNew
  <1>19. s.node = t.node
    BY <1>18 DEF Tag
  <1>20. p = q
    BY <1>1, <1>2, <1>6, <1>10, <1>15, <1>19, RegisteredOnce
  <1>. QED  BY <1>4, <1>5, <1>20

\* Once all files are registered, all that is to be said of their names has been said.
LEMMA UniqueNow ==
    ASSUME RegistryInv, RulesInv PROVE SymbolsAreUnique
  <1>. SUFFICES ASSUME registered > Len(Files) PROVE SymbolsAreUnique
    BY DEF SymbolsAreUnique
  <1>1. job \in UNION Jobs /\ Notes(registry, Registered(Files, Known)) /\ Known = Len(Files)
    BY DEF RegistryInv, Known
  <1>2. PICK P : P = Registered(Files, Len(Files))
    OBVIOUS
  <1>3. Notes(registry, P)
    BY <1>1, <1>2
  <1>4. PICK full : full = {d.full : d \in Declarations}
    OBVIOUS
  <1>. DEFINE EnumOf(d) == IF d.as # "value" THEN NoEnum
                           ELSE Files[d.file].nodes[Files[d.file].nodes[d.node].in].name
  <1>5. ASSUME NEW n \in full
        PROVE  LET those == {d \in Declarations : d.full = n}
                   wrong == {e \in registry.errors : Append(e.symbol.scope, e.symbol.name) = n}
                   first == Min({d.file : d \in those})
               IN  /\ Cardinality(wrong) = Cardinality(those) - 1
                   /\ \A e \in wrong : e.first = first
                   /\ wrong # {} =>
                        \E d \in those :
                          /\ d.file = first
                          /\ \A e \in wrong :
                               /\ <<e.file, e.symbol.node>> # <<d.file, d.node>>
                               /\ e.note <=> (e.symbol.as = "value" /\ EnumOf(d) # e.symbol.enum)
    <2>1. PICK those : those = {d \in Declarations : d.full = n}
      OBVIOUS
    <2>2. PICK r, wrong : r = registry /\ wrong = ErrorsAbout(r, n)
      OBVIOUS
    <2>3. PICK first : first = Min({d.file : d \in those})
      OBVIOUS
    <2>4. those # {}
      BY <1>4, <1>5, <2>1
    <2>5. AreNoted(wrong, those, first)
      <3>1. job \in UNION Jobs
        BY <1>1
      <3>2. r = registry
        BY <2>2
      <3>3. Notes(r, P)
        BY <1>3, <3>2
      <3>4. wrong = ErrorsAbout(r, n)
        BY <2>2
      <3>. QED  BY <1>2, <2>1, <2>3, <2>4, <3>1, <3>2, <3>3, <3>4, NameIsNoted
    <2>6. wrong = {e \in registry.errors : Append(e.symbol.scope, e.symbol.name) = n}
      BY <2>2 DEF ErrorsAbout
    <2>. QED  BY <2>1, <2>3, <2>5, <2>6 DEF AreNoted
  <1>6. ASSUME NEW e \in registry.errors PROVE Append(e.symbol.scope, e.symbol.name) \in full
    <2>1. PICK first : NotesFirst(registry, P, first)
      BY <1>3 DEF Notes
    <2>2. PICK p \in P : e = ErrorOf(p, first[Key(p[2])])
      BY <1>6, <2>1 DEF NotesFirst
    <2>3. e.symbol = p[2]
      BY <2>2 DEF ErrorOf
    <2>4. Shown(p) \in Declarations
      BY <1>1, <1>2, DeclarationsAre
    <2>5. Shown(p).full = Full(p[2])
      BY DEF Shown
    <2>6. Full(p[2]) = Append(e.symbol.scope, e.symbol.name)
      BY <2>3 DEF Full
    <2>. QED  BY <1>4, <2>4, <2>5, <2>6
  <1>7. outcome = "accepted" => registry.errors = {} /\ ruleErrors = {}
    BY DEF RegistryInv, RulesInv
  <1>8. ASSUME NEW d \in Declarations, d.as = "oneof", Files[d.file].nodes[d.node].kind = "optional",
               NEW c \in Declarations, c.file = d.file, c.full = d.full, c # d,
               Files[c.file].nodes[c.node].in = Files[d.file].nodes[d.node].in
        PROVE  c.as \notin {"field", "oneof"}
    BY <1>1, <1>8, OneofStaysApart
  <1>9. \A k \in DOMAIN Files : {k} \X MapEntryConflicts(Files[k]) \subseteq mapConflicts
    BY DEF RegistryInv
  <1>. QED  BY <1>4, <1>5, <1>6, <1>7, <1>8, <1>9 DEF SymbolsAreUnique

\* Whenever the names of all files are registered, whatever the files and however many of
\* their declarations share a name: of those that do, all but the first are errors, each
\* points to the file of the first, and says so of the enum exactly if that is another one;
\* nothing else is an error, and no accepted descriptor has one (validateDuplicateNames).
THEOREM SymbolsAreAlwaysUnique == Spec => []SymbolsAreUnique
  <1>1. SoundInv => SymbolsAreUnique
    BY UniqueNow DEF SoundInv, NamesInv
  <1>. QED  BY <1>1, SoundInvariance, PTL
================================================================================
