------------------------------ MODULE ProofLemmas ------------------------------
(***************************************************************************)
(* Facts about sequences, finite sets, sums and folds that the proofs      *)
(* components share.  Induction over a finite set is done by taking a      *)
(* smallest counterexample, which the strict subset ordering provides.     *)
(***************************************************************************)
EXTENDS Naturals, Sequences, Functions, FiniteSets,
        SequenceTheorems, FiniteSetTheorems, WellFoundedInduction, TLAPS

(***************************************************************************)
(* Sequences                                                               *)
(***************************************************************************)
LEMMA AppendRange ==
    ASSUME NEW S, NEW s \in Seq(S), NEW e \in S
    PROVE  Range(Append(s, e)) = Range(s) \cup {e}
  <1>1. /\ Append(s, e) \in Seq(S)
        /\ Len(Append(s, e)) = Len(s) + 1
        /\ \A i \in 1 .. Len(s) : Append(s, e)[i] = s[i]
        /\ Append(s, e)[Len(s) + 1] = e
    BY AppendProperties
  <1>2. Range(Append(s, e)) = {Append(s, e)[i] : i \in 1 .. Len(s) + 1}
    BY <1>1, RangeEquality
  <1>3. Range(s) = {s[i] : i \in 1 .. Len(s)}
    BY RangeEquality
  <1>4. Len(s) \in Nat
    BY LenProperties
  <1>5. ASSUME NEW x PROVE x \in Range(Append(s, e)) <=> x \in Range(s) \cup {e}
    BY <1>1, <1>2, <1>3, <1>4
  <1>. QED  BY <1>5

LEMMA RangeWithin ==
    ASSUME NEW S, NEW T, NEW s \in Seq(S), \A k \in 1 .. Len(s) : s[k] \in T
    PROVE  Range(s) \subseteq T
  <1>1. Range(s) = {s[k] : k \in 1 .. Len(s)}
    BY RangeEquality
  <1>. QED  BY <1>1

\* A file appended to a list it is not in leaves the list without duplicates.
LEMMA AppendInjectiveSeq ==
    ASSUME NEW S, NEW s \in Seq(S), NEW e \in S \ Range(s), IsInjective(s)
    PROVE  IsInjective(Append(s, e))
  <1>1. /\ Append(s, e) \in Seq(S)
        /\ Len(Append(s, e)) = Len(s) + 1
        /\ \A i \in 1 .. Len(s) : Append(s, e)[i] = s[i]
        /\ Append(s, e)[Len(s) + 1] = e
    BY AppendProperties
  <1>2. DOMAIN Append(s, e) = 1 .. Len(s) + 1 /\ DOMAIN s = 1 .. Len(s) /\ Len(s) \in Nat
    BY <1>1, LenProperties
  <1>3. \A i \in 1 .. Len(s) : s[i] # e
    BY <1>2 DEF Range
  <1>. QED  BY <1>1, <1>2, <1>3 DEF IsInjective

LEMMA AllButLast ==
    ASSUME NEW S, NEW s \in Seq(S), s # <<>>
    PROVE  /\ SubSeq(s, 1, Len(s) - 1) \in Seq(S)
           /\ Len(SubSeq(s, 1, Len(s) - 1)) = Len(s) - 1
           /\ \A i \in 1 .. Len(s) - 1 : SubSeq(s, 1, Len(s) - 1)[i] = s[i]
  <1>. DEFINE n == Len(s) - 1
  <1>1. Len(s) \in Nat \ {0} /\ n \in Nat
    BY EmptySeq
  <1>2. \A i \in 1 .. n : s[i] \in S
    BY <1>1, ElementOfSeq
  <1>3. /\ SubSeq(s, 1, n) \in Seq(S)
        /\ Len(SubSeq(s, 1, n)) = IF 1 <= n THEN n - 1 + 1 ELSE 0
        /\ \A i \in 1 .. n - 1 + 1 : SubSeq(s, 1, n)[i] = s[1 + i - 1]
    <2>. HIDE DEF n
    <2>. QED  BY <1>1, <1>2, SubSeqProperties
  <1>4. Len(SubSeq(s, 1, n)) = n /\ \A i \in 1 .. n : SubSeq(s, 1, n)[i] = s[i]
    <2>. HIDE DEF n
    <2>. QED  BY <1>1, <1>3
  <1>. QED  BY <1>3, <1>4

\* What has been put in front of a sequence can be cut off again.
LEMMA ConcatTail ==
    ASSUME NEW S, NEW a \in Seq(S), NEW b \in Seq(S)
    PROVE  SubSeq(a \o b, Len(a) + 1, Len(a \o b)) = b
  <1>1. /\ a \o b \in Seq(S) /\ Len(a \o b) = Len(a) + Len(b)
        /\ \A k \in 1 .. Len(a) + Len(b) :
              (a \o b)[k] = IF k <= Len(a) THEN a[k] ELSE b[k - Len(a)]
    BY ConcatProperties
  <1>2. Len(a) \in Nat /\ Len(b) \in Nat /\ b = [k \in 1 .. Len(b) |-> b[k]]
    BY LenProperties
  <1>. DEFINE s == a \o b
              m == Len(a) + 1
              e == Len(s)
              t == SubSeq(s, m, e)
  <1>3. \A k \in 1 .. Len(b) :
           m + k - 1 \in 1 .. Len(a) + Len(b) /\ ~ (m + k - 1 <= Len(a)) /\ (m + k - 1) - Len(a) = k
    BY <1>2
  <1>4. \A k \in m .. e : s[k] \in S
    <2>1. \A k \in m .. e : k \in 1 .. Len(s)
      BY <1>1, <1>2
    <2>. HIDE DEF s, m, e
    <2>. QED  BY <1>1, <2>1, ElementOfSeq DEF s
  <1>5. m \in Int /\ e \in Int /\ (m <= e \/ e - m + 1 = 0) /\ e - m + 1 = Len(b)
    BY <1>1, <1>2
  <1>6. /\ t \in Seq(S)
        /\ Len(t) = IF m <= e THEN e - m + 1 ELSE 0
        /\ \A k \in 1 .. e - m + 1 : t[k] = s[m + k - 1]
    <2>1. /\ \A i \in m .. e : s[i] \in S
          /\ m \in Int /\ e \in Int
      BY <1>4, <1>5
    <2>. HIDE DEF s, m, e
    <2>. QED  BY <2>1, SubSeqProperties DEF t
  <1>7. Len(t) = Len(b)
    <2>. HIDE DEF t, m, e
    <2>. QED  BY <1>2, <1>5, <1>6
  <1>8. \A k \in 1 .. Len(b) : t[k] = b[k]
    <2>1. \A k \in 1 .. Len(b) : t[k] = s[m + k - 1]
      <3>. HIDE DEF t, m, e, s
      <3>. QED  BY <1>5, <1>6
    <2>2. \A k \in 1 .. Len(b) : s[m + k - 1] = b[k]
      <3>1. \A k \in 1 .. Len(a) + Len(b) : s[k] = IF k <= Len(a) THEN a[k] ELSE b[k - Len(a)]
        BY <1>1
      <3>. HIDE DEF m, s
      <3>. QED  BY <1>3, <3>1
    <2>. HIDE DEF t, m, e, s
    <2>. QED  BY <2>1, <2>2
  <1>9. t = b
    <2>. HIDE DEF t
    <2>. QED  BY <1>6, <1>7, <1>8, SeqEqual
  <1>. QED  BY <1>9

(***************************************************************************)
(* Induction over a finite set                                             *)
(***************************************************************************)

\* Among the subsets of a finite set, any nonempty family has a smallest member.
LEMMA SmallestSubset ==
    ASSUME NEW S, IsFiniteSet(S), NEW Family \in SUBSET SUBSET S, Family # {}
    PROVE  \E s \in Family : \A t \in Family : t \subseteq s => t = s
  <1>1. Family \subseteq FiniteSubsetsOf(S)
    BY FS_Subset DEF FiniteSubsetsOf
  <1>2. IsWellFoundedOn(StrictSubsetOrdering(S), FiniteSubsetsOf(S))
    BY FS_StrictSubsetOrderingWellFounded
  <1>3. \E s \in Family : \A t \in Family : ~ (<<t, s>> \in StrictSubsetOrdering(S))
    BY <1>1, <1>2, WFMin, Zenon
  <1>. QED  BY <1>3 DEF StrictSubsetOrdering

\* A set of naturals has a least element: of the intervals from 0 to one of its
\* elements, there is a smallest.
LEMMA LeastNat ==
    ASSUME NEW S \in SUBSET Nat, S # {}
    PROVE  \E m \in S : \A n \in S : m <= n
  <1>1. PICK x \in S : TRUE
    OBVIOUS
  <1>. DEFINE Family == {T \in SUBSET (0 .. x) : \E n \in S : T = 0 .. n}
  <1>. DEFINE I == 0 .. x
  <1>2. IsFiniteSet(I) /\ Family \in SUBSET SUBSET I
    BY FS_Interval
  <1>3. 0 .. x \in Family
    OBVIOUS
  <1>4. PICK T \in Family : \A U \in Family : U \subseteq T => U = T
    <2>1. Family # {}
      BY <1>3
    <2>. HIDE DEF Family, I
    <2>. QED  BY <1>2, <2>1, SmallestSubset
  <1>5. PICK m \in S : T = 0 .. m
    OBVIOUS
  <1>6. ASSUME NEW n \in S, n < m PROVE FALSE
    <2>1. 0 .. n \in Family /\ 0 .. n \subseteq T
      BY <1>5, <1>6
    <2>2. 0 .. n = 0 .. m
      BY <1>4, <1>5, <2>1
    <2>3. m \in 0 .. n
      BY <2>2
    <2>. QED  BY <1>6, <2>3
  <1>. QED  BY <1>6

\* One that is bounded has a greatest element.
LEMMA GreatestNat ==
    ASSUME NEW S \in SUBSET Nat, S # {}, NEW b \in Nat, \A n \in S : n <= b
    PROVE  \E m \in S : \A n \in S : n <= m
  <1>. DEFINE D == {b - n : n \in S}
  <1>1. D \in SUBSET Nat /\ D # {}
    <2>1. \A n \in S : b - n \in Nat
      OBVIOUS
    <2>2. PICK n \in S : TRUE
      OBVIOUS
    <2>3. b - n \in D
      OBVIOUS
    <2>. QED  BY <2>1, <2>3
  <1>2. PICK d \in D : \A e \in D : d <= e
    <2>. HIDE DEF D
    <2>. QED  BY <1>1, LeastNat
  <1>3. PICK m \in S : d = b - m
    OBVIOUS
  <1>4. ASSUME NEW n \in S PROVE n <= m
    <2>1. b - n \in D
      OBVIOUS
    <2>2. b - m <= b - n
      BY <1>2, <1>3, <2>1
    <2>3. n \in Nat /\ m \in Nat
      BY <1>4
    <2>. QED
      <3>. HIDE DEF D
      <3>. QED  BY <2>2, <2>3
  <1>. QED  BY <1>4

(***************************************************************************)
(* Sums over a finite set                                                  *)
(***************************************************************************)
SumOver(w, S) == FoldFunctionOnSet(+, 0, w, S)

Chosen(s) == CHOOSE x \in s : TRUE

\* g computes the sums of w over the subsets of S, one chosen element at a time.
Sums(w, S, g) ==
    g = [s \in SUBSET S |-> IF s = {} THEN 0 ELSE w[Chosen(s)] + g[s \ {Chosen(s)}]]

LEMMA SumOverDef ==
    ASSUME NEW w, NEW S
    PROVE  SumOver(w, S) = (CHOOSE g : Sums(w, S, g))[S]
  BY DEF SumOver, FoldFunctionOnSet, MapThenFoldSet, Sums, Chosen

LEMMA ChosenInSet ==
    ASSUME NEW s, s # {}
    PROVE  Chosen(s) \in s
  BY DEF Chosen

\* Two such functions agree wherever both are defined.
LEMMA SumsAgree ==
    ASSUME NEW w, NEW S, IsFiniteSet(S),
           NEW A \in SUBSET S, NEW B \in SUBSET S,
           NEW g, Sums(w, A, g), NEW h, Sums(w, B, h)
    PROVE  \A s \in (SUBSET A) \cap (SUBSET B) : g[s] = h[s]
  <1>. DEFINE Bad == {s \in (SUBSET A) \cap (SUBSET B) : g[s] # h[s]}
  <1>. SUFFICES ASSUME Bad # {} PROVE FALSE
    OBVIOUS
  <1>1. PICK s \in Bad : \A t \in Bad : t \subseteq s => t = s
    <2>1. Bad \in SUBSET SUBSET S
      OBVIOUS
    <2>. HIDE DEF Bad
    <2>. QED  BY <2>1, SmallestSubset
  <1>2. /\ g[s] = IF s = {} THEN 0 ELSE w[Chosen(s)] + g[s \ {Chosen(s)}]
        /\ h[s] = IF s = {} THEN 0 ELSE w[Chosen(s)] + h[s \ {Chosen(s)}]
    BY DEF Sums
  <1>3. s # {}
    BY <1>2
  <1>4. Chosen(s) \in s
    BY <1>3, ChosenInSet
  <1>5. s \ {Chosen(s)} \notin Bad
    BY <1>1, <1>4
  <1>6. g[s \ {Chosen(s)}] = h[s \ {Chosen(s)}]
    BY <1>5
  <1>. QED  BY <1>2, <1>6

LEMMA SumsExist ==
    ASSUME NEW w, NEW S, IsFiniteSet(S)
    PROVE  \A T \in SUBSET S : \E g : Sums(w, T, g)
  <1>. DEFINE Bad == {T \in SUBSET S : ~ \E g : Sums(w, T, g)}
  <1>. SUFFICES ASSUME Bad # {} PROVE FALSE
    OBVIOUS
  <1>1. PICK T \in Bad : \A U \in Bad : U \subseteq T => U = T
    <2>1. Bad \in SUBSET SUBSET S
      OBVIOUS
    <2>. HIDE DEF Bad
    <2>. QED  BY <2>1, SmallestSubset
  <1>. DEFINE G(U) == CHOOSE g : Sums(w, U, g)
              g == [s \in SUBSET T |->
                      IF s = {} THEN 0
                      ELSE w[Chosen(s)] + G(s \ {Chosen(s)})[s \ {Chosen(s)}]]
  <1>2. \A U \in SUBSET T : U # T => Sums(w, U, G(U))
    BY <1>1
  <1>3. ASSUME NEW s \in SUBSET T, s # {}
        PROVE  G(s \ {Chosen(s)})[s \ {Chosen(s)}] = g[s \ {Chosen(s)}]
    <2>. DEFINE r == s \ {Chosen(s)}
                q == r \ {Chosen(r)}
    <2>1. r \in SUBSET T /\ r # T
      BY <1>3, ChosenInSet
    <2>2. Sums(w, r, G(r))
      BY <1>2, <2>1
    <2>3. G(r)[r] = IF r = {} THEN 0 ELSE w[Chosen(r)] + G(r)[q]
      BY <2>2 DEF Sums
    <2>4. CASE r = {}
      BY <2>1, <2>3, <2>4
    <2>5. CASE r # {}
      <3>1. q \in SUBSET T /\ q # T /\ q \in SUBSET r
        BY <2>1, <2>5, ChosenInSet
      <3>2. Sums(w, q, G(q))
        BY <1>2, <3>1
      <3>3. T \in SUBSET S /\ r \in SUBSET S /\ q \in SUBSET S
        BY <2>1
      <3>. HIDE DEF G, r, q
      <3>4. G(r)[q] = G(q)[q]
        BY <2>2, <3>1, <3>2, <3>3, SumsAgree
      <3>5. g[r] = w[Chosen(r)] + G(q)[q]
        BY <2>1, <2>5 DEF q
      <3>6. G(r)[r] = g[r]
        BY <2>3, <2>5, <3>4, <3>5
      <3>. QED  BY <3>6 DEF r
    <2>. QED  BY <2>4, <2>5
  <1>4. Sums(w, T, g)
    <2>. HIDE DEF G
    <2>1. g = [s \in SUBSET T |->
                 IF s = {} THEN 0 ELSE w[Chosen(s)] + g[s \ {Chosen(s)}]]
      BY <1>3
    <2>. HIDE DEF g
    <2>. QED  BY <2>1 DEF Sums
  <1>. QED  BY <1>1, <1>4

LEMMA SumOverEquation ==
    ASSUME NEW w, NEW S, IsFiniteSet(S)
    PROVE  SumOver(w, S) = IF S = {} THEN 0
                           ELSE w[Chosen(S)] + SumOver(w, S \ {Chosen(S)})
  <1>. DEFINE R == S \ {Chosen(S)}
              g == CHOOSE f : Sums(w, S, f)
              h == CHOOSE f : Sums(w, R, f)
  <1>1. Sums(w, S, g) /\ Sums(w, R, h)
    BY SumsExist
  <1>2. SumOver(w, S) = g[S] /\ SumOver(w, R) = h[R]
    BY SumOverDef
  <1>3. g[S] = IF S = {} THEN 0 ELSE w[Chosen(S)] + g[R]
    BY <1>1 DEF Sums
  <1>4. g[R] = h[R]
    <2>1. S \in SUBSET S /\ R \in SUBSET S /\ R \in (SUBSET S) \cap (SUBSET R)
      OBVIOUS
    <2>. HIDE DEF R, g, h
    <2>. QED  BY <1>1, <2>1, SumsAgree
  <1>. HIDE DEF g, h
  <1>. QED  BY <1>2, <1>3, <1>4

LEMMA SumOverType ==
    ASSUME NEW w, NEW S, IsFiniteSet(S), \A x \in S : w[x] \in Nat
    PROVE  SumOver(w, S) \in Nat
  <1>. DEFINE Bad == {T \in SUBSET S : SumOver(w, T) \notin Nat}
  <1>. SUFFICES ASSUME Bad # {} PROVE FALSE
    OBVIOUS
  <1>1. PICK T \in Bad : \A U \in Bad : U \subseteq T => U = T
    <2>1. Bad \in SUBSET SUBSET S
      OBVIOUS
    <2>. HIDE DEF Bad
    <2>. QED  BY <2>1, SmallestSubset
  <1>2. IsFiniteSet(T)
    BY FS_Subset
  <1>3. SumOver(w, T) = IF T = {} THEN 0 ELSE w[Chosen(T)] + SumOver(w, T \ {Chosen(T)})
    BY <1>2, SumOverEquation
  <1>4. T # {} /\ Chosen(T) \in T
    BY <1>3, ChosenInSet
  <1>5. T \ {Chosen(T)} \notin Bad
    BY <1>1, <1>4
  <1>. QED  BY <1>3, <1>4, <1>5

\* Any element can be taken out of a sum first.
LEMMA SumOverRemove ==
    ASSUME NEW w, NEW S, IsFiniteSet(S), \A x \in S : w[x] \in Nat, NEW e \in S
    PROVE  SumOver(w, S) = w[e] + SumOver(w, S \ {e})
  <1>. DEFINE Bad == {T \in SUBSET S : \E x \in T : SumOver(w, T) # w[x] + SumOver(w, T \ {x})}
  <1>. SUFFICES ASSUME Bad # {} PROVE FALSE
    OBVIOUS
  <1>1. PICK T \in Bad : \A U \in Bad : U \subseteq T => U = T
    <2>1. Bad \in SUBSET SUBSET S
      OBVIOUS
    <2>. HIDE DEF Bad
    <2>. QED  BY <2>1, SmallestSubset
  <1>2. PICK x \in T : SumOver(w, T) # w[x] + SumOver(w, T \ {x})
    OBVIOUS
  <1>. DEFINE y == Chosen(T)
  <1>3. IsFiniteSet(T) /\ y \in T
    BY FS_Subset, ChosenInSet
  <1>4. SumOver(w, T) = w[y] + SumOver(w, T \ {y})
    BY <1>3, SumOverEquation
  <1>5. x # y
    BY <1>2, <1>4
  <1>. HIDE DEF y
  <1>6. SumOver(w, T \ {y}) = w[x] + SumOver(w, (T \ {y}) \ {x})
    <2>1. T \ {y} \notin Bad
      BY <1>1, <1>3
    <2>. QED  BY <1>5, <2>1
  <1>7. SumOver(w, T \ {x}) = w[y] + SumOver(w, (T \ {x}) \ {y})
    <2>1. T \ {x} \notin Bad
      BY <1>1
    <2>. QED  BY <1>3, <1>5, <2>1
  <1>8. (T \ {y}) \ {x} = (T \ {x}) \ {y}
    OBVIOUS
  <1>9. /\ w[x] \in Nat /\ w[y] \in Nat
        /\ SumOver(w, (T \ {x}) \ {y}) \in Nat
    <2>1. IsFiniteSet((T \ {x}) \ {y})
      BY <1>3, FS_Subset
    <2>. QED  BY <1>3, <2>1, SumOverType
  <1>. HIDE DEF Bad
  <1>10. SumOver(w, T \ {y}) = w[x] + SumOver(w, (T \ {x}) \ {y})
    BY <1>6, <1>8
  <1>. QED  BY <1>2, <1>4, <1>7, <1>9, <1>10

LEMMA SumOverAdd ==
    ASSUME NEW w, NEW S, IsFiniteSet(S), \A x \in S : w[x] \in Nat,
           NEW e, e \notin S, w[e] \in Nat
    PROVE  SumOver(w, S \cup {e}) = SumOver(w, S) + w[e]
  <1>1. IsFiniteSet(S \cup {e}) /\ \A x \in S \cup {e} : w[x] \in Nat
    BY FS_AddElement
  <1>2. (S \cup {e}) \ {e} = S /\ e \in S \cup {e}
    OBVIOUS
  <1>3. SumOver(w, S \cup {e}) = w[e] + SumOver(w, S)
    BY <1>1, <1>2, SumOverRemove
  <1>. QED  BY <1>3, SumOverType

\* A part of a set has no larger a sum.
LEMMA SumOverSubset ==
    ASSUME NEW w, NEW S, IsFiniteSet(S), \A x \in S : w[x] \in Nat, NEW T \in SUBSET S
    PROVE  SumOver(w, T) <= SumOver(w, S)
  <1>. DEFINE Bad == {U \in SUBSET S : T \subseteq U /\ ~ (SumOver(w, T) <= SumOver(w, U))}
  <1>. SUFFICES ASSUME Bad # {} PROVE FALSE
    OBVIOUS
  <1>1. PICK U \in Bad : \A V \in Bad : V \subseteq U => V = U
    <2>1. Bad \in SUBSET SUBSET S
      OBVIOUS
    <2>. HIDE DEF Bad
    <2>. QED  BY <2>1, SmallestSubset
  <1>2. IsFiniteSet(U) /\ IsFiniteSet(T) /\ SumOver(w, T) \in Nat
    BY FS_Subset, SumOverType
  <1>3. PICK e \in U : e \notin T
    BY <1>2
  <1>4. SumOver(w, U) = w[e] + SumOver(w, U \ {e})
    BY <1>2, SumOverRemove
  <1>5. SumOver(w, T) <= SumOver(w, U \ {e})
    <2>1. U \ {e} \notin Bad
      BY <1>1, <1>3
    <2>. QED  BY <1>3, <2>1
  <1>6. w[e] \in Nat /\ SumOver(w, U \ {e}) \in Nat
    <2>1. IsFiniteSet(U \ {e})
      BY <1>2, FS_Subset
    <2>. QED  BY <2>1, SumOverType
  <1>. QED  BY <1>2, <1>4, <1>5, <1>6

(***************************************************************************)
(* Folds over a sequence                                                   *)
(***************************************************************************)

\* FoldLeft (SequencesExt) is defined over the subsets of the domain, from the greatest
\* index down; this is its Max.
Greatest(u) == CHOOSE x \in u : \A y \in u : x >= y

LEMMA GreatestOf ==
    ASSUME NEW k \in Nat, NEW u \in SUBSET (1 .. k), k \in u
    PROVE  Greatest(u) = k
  <1>1. k \in u /\ \A y \in u : k >= y
    OBVIOUS
  <1>2. \A x \in u : (\A y \in u : x >= y) => x = k
    BY <1>1
  <1>. QED  BY <1>1, <1>2 DEF Greatest

\* A set of indices that is not empty has a greatest element.
LEMMA GreatestInside ==
    ASSUME NEW n \in Nat
    PROVE  \A u \in SUBSET (1 .. n) : u # {} => Greatest(u) \in u
  <1>. SUFFICES ASSUME NEW u \in SUBSET (1 .. n), u # {} PROVE Greatest(u) \in u
    OBVIOUS
  <1>1. PICK m \in u : \A i \in u : i <= m
    <2>1. u \in SUBSET Nat /\ \A i \in u : i <= n
      OBVIOUS
    <2>. QED  BY <2>1, GreatestNat
  <1>2. \A i \in u : m >= i
    BY <1>1
  <1>. QED  BY <1>2 DEF Greatest

\* g solves the recursion that FoldLeft chooses a solution of, for an operation that is
\* given as a function.
SolvesFold(base, n, s, op, g) ==
    \A u \in SUBSET (1 .. n) :
       g[u] = IF u = {} THEN base ELSE op[<<g[u \ {Greatest(u)}], s[Greatest(u)]>>]

\* There is a solution when the operation stays within a set of values.
LEMMA FoldExists ==
    ASSUME NEW V, NEW E, NEW base \in V, NEW n \in Nat, NEW s \in [1 .. n -> E],
           NEW op \in [V \X E -> V]
    PROVE  \E g \in [SUBSET (1 .. n) -> V] : SolvesFold(base, n, s, op, g)
  <1>. DEFINE Solves(k, g) ==
                 \A u \in SUBSET (1 .. k) :
                    g[u] = IF u = {} THEN base
                           ELSE op[<<g[u \ {Greatest(u)}], s[Greatest(u)]>>]
              Bad == {k \in 0 .. n : ~ \E g \in [SUBSET (1 .. k) -> V] : Solves(k, g)}
  <1>. SUFFICES ASSUME Bad # {} PROVE FALSE
    <2>. HIDE DEF Solves
    <2>1. n \in 0 .. n
      OBVIOUS
    <2>2. \E g \in [SUBSET (1 .. n) -> V] : Solves(n, g)
      BY <2>1
    <2>. QED  BY <2>2 DEF Solves, SolvesFold
  <1>1. PICK k \in Bad : \A j \in Bad : k <= j
    <2>1. Bad \in SUBSET Nat
      OBVIOUS
    <2>. HIDE DEF Bad
    <2>. QED  BY <2>1, LeastNat
  <1>2. k # 0
    <2>. SUFFICES ASSUME k = 0 PROVE FALSE
      OBVIOUS
    <2>. DEFINE g == [u \in SUBSET (1 .. 0) |-> base]
    <2>1. 1 .. 0 = {}
      OBVIOUS
    <2>2. g \in [SUBSET (1 .. 0) -> V] /\ Solves(0, g)
      BY <2>1
    <2>. QED  BY <2>2
  <1>3. PICK g \in [SUBSET (1 .. k - 1) -> V] : Solves(k - 1, g)
    <2>1. k - 1 \in 0 .. n /\ ~ (k <= k - 1)
      BY <1>2
    <2>2. k - 1 \notin Bad
      BY <1>1, <2>1
    <2>. QED  BY <2>1, <2>2
  <1>. DEFINE h == [u \in SUBSET (1 .. k) |-> IF k \in u THEN op[<<g[u \ {k}], s[k]>>] ELSE g[u]]
  <1>4. k \in 1 .. n
    BY <1>2
  <1>5. \A u \in SUBSET (1 .. k) : u \ {k} \in SUBSET (1 .. k - 1)
    BY <1>4
  <1>6. h \in [SUBSET (1 .. k) -> V]
    <2>1. ASSUME NEW u \in SUBSET (1 .. k) PROVE h[u] \in V
      <3>1. CASE k \in u
        <4>1. <<g[u \ {k}], s[k]>> \in V \X E
          BY <1>3, <1>4, <1>5
        <4>. QED  BY <3>1, <4>1
      <3>2. CASE k \notin u
        <4>1. u \in SUBSET (1 .. k - 1)
          BY <1>5, <3>2
        <4>. QED  BY <1>3, <3>2, <4>1
      <3>. QED  BY <3>1, <3>2
    <2>. QED  BY <2>1
  <1>7. ASSUME NEW u \in SUBSET (1 .. k)
        PROVE  h[u] = IF u = {} THEN base ELSE op[<<h[u \ {Greatest(u)}], s[Greatest(u)]>>]
    <2>1. CASE k \in u
      <3>1. Greatest(u) = k /\ u # {}
        BY <1>4, <2>1, GreatestOf
      <3>2. h[u \ {k}] = g[u \ {k}]
        BY <1>5
      <3>3. h[u] = op[<<g[u \ {k}], s[k]>>]
        BY <2>1
      <3>. HIDE DEF h
      <3>. QED  BY <3>1, <3>2, <3>3
    <2>2. CASE k \notin u
      <3>. DEFINE r == u \ {Greatest(u)}
      <3>1. u \in SUBSET (1 .. k - 1) /\ r \in SUBSET (1 .. k - 1)
        BY <1>5, <2>2
      <3>2. h[u] = g[u]
        BY <2>2
      <3>3. h[r] = g[r]
        BY <1>5, <3>1, <2>2
      <3>4. g[u] = IF u = {} THEN base ELSE op[<<g[r], s[Greatest(u)]>>]
        BY <1>3, <3>1
      <3>. HIDE DEF h, r
      <3>5. h[u] = IF u = {} THEN base ELSE op[<<h[r], s[Greatest(u)]>>]
        BY <3>2, <3>3, <3>4
      <3>. QED  BY <3>5 DEF r
    <2>. QED  BY <2>1, <2>2
  <1>8. Solves(k, h)
    <2>. HIDE DEF h
    <2>. QED  BY <1>7
  <1>. HIDE DEF h, Solves
  <1>. QED  BY <1>1, <1>6, <1>8

\* Such a solution is used on the sets of the first k indices only.
LEMMA FirstIndices ==
    ASSUME NEW n \in Nat
    PROVE  /\ 1 .. 0 = {}
           /\ \A k \in 1 .. n :
                 /\ 1 .. k \in SUBSET (1 .. n) /\ 1 .. k # {}
                 /\ Greatest(1 .. k) = k /\ (1 .. k) \ {k} = 1 .. (k - 1)
  <1>1. ASSUME NEW k \in 1 .. n
        PROVE  /\ 1 .. k \in SUBSET (1 .. n) /\ 1 .. k # {}
               /\ Greatest(1 .. k) = k /\ (1 .. k) \ {k} = 1 .. (k - 1)
    <2>1. k \in Nat /\ k \in 1 .. k /\ 1 .. k \in SUBSET (1 .. k)
      OBVIOUS
    <2>2. Greatest(1 .. k) = k
      BY <2>1, GreatestOf
    <2>3. \A i : i \in (1 .. k) \ {k} <=> i \in 1 .. (k - 1)
      OBVIOUS
    <2>4. 1 .. k \in SUBSET (1 .. n)
      OBVIOUS
    <2>. QED  BY <2>1, <2>2, <2>3, <2>4
  <1>2. \A i : ~ (i \in 1 .. 0)
    OBVIOUS
  <1>. QED  BY <1>1, <1>2

\* Induction up to n: P is the set of numbers for which something holds.
LEMMA UpTo ==
    ASSUME NEW n \in Nat, NEW P, 0 \in P, \A k \in 1 .. n : k - 1 \in P => k \in P
    PROVE  \A k \in 0 .. n : k \in P
  <1>. DEFINE Bad == {k \in 0 .. n : k \notin P}
  <1>. SUFFICES ASSUME Bad # {} PROVE FALSE
    OBVIOUS
  <1>1. PICK k \in Bad : \A j \in Bad : k <= j
    <2>1. Bad \in SUBSET Nat
      OBVIOUS
    <2>. HIDE DEF Bad
    <2>. QED  BY <2>1, LeastNat
  <1>2. k \in 1 .. n
    BY <1>1
  <1>3. k - 1 \in 0 .. n /\ k - 1 \notin Bad
    BY <1>1, <1>2
  <1>. QED  BY <1>1, <1>2, <1>3

\* g starts with base, and computes op where what it gave before is in V.
Computes(V, E, base, n, s, op, g) ==
    /\ base \in V /\ n \in Nat /\ s \in [1 .. n -> E] /\ op \in [V \X E -> V]
    /\ g[{}] = base
    /\ \A u \in SUBSET (1 .. n) :
          u # {} /\ g[u \ {Greatest(u)}] \in V
             => g[u] = op[<<g[u \ {Greatest(u)}], s[Greatest(u)]>>]

\* What it gives for the first k elements, one after the other.
RunOf(n, g) == [k \in 0 .. n |-> g[1 .. k]]

LEMMA FoldRuns ==
    ASSUME NEW V, NEW E, NEW base, NEW n, NEW s, NEW op, NEW g,
           Computes(V, E, base, n, s, op, g)
    PROVE  /\ RunOf(n, g) \in [0 .. n -> V]
           /\ RunOf(n, g)[0] = base /\ RunOf(n, g)[n] = g[1 .. n]
           /\ \A k \in 1 .. n : RunOf(n, g)[k] = op[<<RunOf(n, g)[k - 1], s[k]>>]
  <1>. DEFINE r == [k \in 0 .. n |-> g[1 .. k]]
              P == {k \in 0 .. n : r[k] \in V}
  <1>. USE DEF Computes
  <1>1. r[0] = base
    BY FirstIndices
  <1>2. ASSUME NEW k \in 1 .. n, r[k - 1] \in V
        PROVE  r[k] = op[<<r[k - 1], s[k]>>] /\ r[k] \in V
    <2>1. /\ 1 .. k \in SUBSET (1 .. n) /\ 1 .. k # {}
          /\ Greatest(1 .. k) = k /\ (1 .. k) \ {k} = 1 .. (k - 1)
      BY FirstIndices
    <2>2. r[k] = g[1 .. k] /\ r[k - 1] = g[1 .. (k - 1)]
      OBVIOUS
    <2>3. g[(1 .. k) \ {Greatest(1 .. k)}] \in V
      BY <1>2, <2>1, <2>2
    <2>4. g[1 .. k] = op[<<g[(1 .. k) \ {Greatest(1 .. k)}], s[Greatest(1 .. k)]>>]
      BY <2>1, <2>3
    <2>5. r[k] = op[<<r[k - 1], s[k]>>]
      BY <2>1, <2>2, <2>4
    <2>6. <<r[k - 1], s[k]>> \in V \X E
      BY <1>2
    <2>. HIDE DEF r
    <2>. QED  BY <2>5, <2>6
  <1>3. \A k \in 0 .. n : r[k] \in V
    <2>1. 0 \in P
      <3>. HIDE DEF r
      <3>. QED  BY <1>1
    <2>2. ASSUME NEW k \in 1 .. n, k - 1 \in P PROVE k \in P
      <3>1. r[k - 1] \in V /\ k \in 0 .. n
        BY <2>2
      <3>2. r[k] \in V
        BY <1>2, <3>1
      <3>. QED  BY <3>1, <3>2
    <2>3. \A k \in 0 .. n : k \in P
      <3>. HIDE DEF P
      <3>. QED  BY <2>1, <2>2, UpTo
    <2>. QED  BY <2>3
  <1>4. r \in [0 .. n -> V]
    <2>1. DOMAIN r = 0 .. n /\ r = [k \in 0 .. n |-> r[k]]
      OBVIOUS
    <2>. HIDE DEF r
    <2>. QED  BY <1>3, <2>1
  <1>5. r[n] = g[1 .. n] /\ \A k \in 1 .. n : r[k] = op[<<r[k - 1], s[k]>>]
    <2>1. r[n] = g[1 .. n]
      OBVIOUS
    <2>2. \A k \in 1 .. n : k - 1 \in 0 .. n
      OBVIOUS
    <2>. HIDE DEF r
    <2>. QED  BY <1>2, <1>3, <2>1, <2>2
  <1>6. RunOf(n, g) = r
    BY DEF RunOf
  <1>. HIDE DEF r
  <1>. QED  BY <1>1, <1>4, <1>5, <1>6

-------------------------------------------------------------------------------
(* A finite set in order. *)

\* L has what comes before each element of S, and s at i the one that i - 1 come before.
Ranks(S, L, s) ==
    /\ IsFiniteSet(S) /\ L \in [S -> SUBSET S]
    /\ \A x \in S : x \notin L[x]
    /\ \A x, y \in S : x \in L[y] => L[x] \subseteq L[y]
    /\ \A x, y \in S : x # y => x \in L[y] \/ y \in L[x]
    /\ \A i \in 1 .. Cardinality(S) :
          (\E x \in S : Cardinality(L[x]) = i - 1) => s[i] \in S /\ Cardinality(L[s[i]]) = i - 1

LEMMA RanksInOrder ==
    ASSUME NEW S, NEW L, NEW s, Ranks(S, L, s)
    PROVE  /\ Cardinality(S) \in Nat
           /\ \A i \in 1 .. Cardinality(S) : s[i] \in S
           /\ \A x \in S : \E i \in 1 .. Cardinality(S) : s[i] = x
           /\ \A i, j \in 1 .. Cardinality(S) : i < j => s[i] \in L[s[j]]
  <1>. DEFINE n == Cardinality(S)
              rank == [x \in S |-> Cardinality(L[x]) + 1]
  <1>1. n \in Nat
    BY FS_CardinalityType DEF Ranks
  <1>2. ASSUME NEW x \in S
        PROVE  IsFiniteSet(L[x]) /\ Cardinality(L[x]) \in Nat /\ Cardinality(L[x]) < n
    <2>1. IsFiniteSet(S) /\ L[x] \in SUBSET S /\ x \notin L[x]
      BY DEF Ranks
    <2>2. IsFiniteSet(L[x]) /\ Cardinality(L[x]) \in Nat
      BY <2>1, FS_Subset, FS_CardinalityType
    <2>3. Cardinality(L[x]) <= n /\ Cardinality(L[x]) # n
      BY <2>1, FS_Subset
    <2>. QED  BY <1>1, <2>2, <2>3
  <1>3. ASSUME NEW x \in S, NEW y \in S, x \in L[y]
        PROVE  Cardinality(L[x]) < Cardinality(L[y])
    <2>1. L[x] \in SUBSET L[y] /\ x \notin L[x]
      BY <1>3 DEF Ranks
    <2>2. IsFiniteSet(L[y]) /\ Cardinality(L[x]) \in Nat /\ Cardinality(L[y]) \in Nat
      BY <1>2
    <2>3. Cardinality(L[x]) <= Cardinality(L[y]) /\ Cardinality(L[x]) # Cardinality(L[y])
      BY <1>3, <2>1, <2>2, FS_Subset
    <2>. QED  BY <2>2, <2>3
  <1>4. ASSUME NEW x \in S, NEW y \in S, x # y
        PROVE  Cardinality(L[x]) # Cardinality(L[y])
    <2>1. x \in L[y] \/ y \in L[x]
      BY <1>4 DEF Ranks
    <2>2. Cardinality(L[x]) \in Nat /\ Cardinality(L[y]) \in Nat
      BY <1>2
    <2>. QED  BY <1>3, <2>1, <2>2
  <1>5. rank \in [S -> 1 .. n]
    <2>. HIDE DEF n
    <2>. QED  BY <1>1, <1>2
  <1>6. \A x, y \in S : rank[x] = rank[y] => x = y
    <2>. SUFFICES ASSUME NEW x \in S, NEW y \in S, x # y PROVE rank[x] # rank[y]
      OBVIOUS
    <2>. QED  BY <1>2, <1>4
  <1>7. \A i \in 1 .. n : \E x \in S : rank[x] = i
    <2>1. rank \in Injection(S, 1 .. n)
      <3>. HIDE DEF rank, n
      <3>. QED  BY <1>5, <1>6 DEF Injection, IsInjective
    <2>2. IsFiniteSet(1 .. n) /\ Cardinality(1 .. n) = n /\ IsFiniteSet(S)
      BY <1>1, FS_Interval DEF Ranks
    <2>3. rank \in Surjection(S, 1 .. n)
      <3>1. Cardinality(S) = Cardinality(1 .. n)
        BY <2>2
      <3>. HIDE DEF rank, n
      <3>. QED  BY <2>1, <2>2, <3>1, FS_Injection
    <2>. HIDE DEF rank, n
    <2>. QED  BY <2>3 DEF Surjection
  <1>8. ASSUME NEW i \in 1 .. n
        PROVE  s[i] \in S /\ Cardinality(L[s[i]]) = i - 1
    <2>1. PICK x \in S : rank[x] = i
      BY <1>7
    <2>2. Cardinality(L[x]) = i - 1
      BY <1>2, <2>1
    <2>. QED  BY <2>2 DEF Ranks
  <1>9. ASSUME NEW x \in S
        PROVE  \E i \in 1 .. n : s[i] = x
    <2>1. rank[x] \in 1 .. n /\ Cardinality(L[x]) = rank[x] - 1
      <3>. HIDE DEF n
      <3>. QED  BY <1>2, <1>5
    <2>2. PICK i \in 1 .. n : i = rank[x]
      BY <2>1
    <2>. QED  BY <1>4, <1>8, <2>1, <2>2
  <1>10. ASSUME NEW i \in 1 .. n, NEW j \in 1 .. n, i < j
         PROVE  s[i] \in L[s[j]]
    <2>1. /\ s[i] \in S /\ s[j] \in S
          /\ Cardinality(L[s[i]]) = i - 1 /\ Cardinality(L[s[j]]) = j - 1
      BY <1>8
    <2>2. s[i] # s[j] /\ ~ (Cardinality(L[s[j]]) < Cardinality(L[s[i]]))
      BY <1>10, <2>1
    <2>3. s[i] \in L[s[j]] \/ s[j] \in L[s[i]]
      BY <2>1, <2>2 DEF Ranks
    <2>. QED  BY <1>3, <2>1, <2>2, <2>3
  <1>. QED  BY <1>1, <1>8, <1>9, <1>10

================================================================================
