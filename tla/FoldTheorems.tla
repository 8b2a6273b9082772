---------------------------- MODULE FoldTheorems ----------------------------
(***************************************************************************)
(* What the folds and conversions of the community modules return that the *)
(* models use: SumFunction follows a change of one value and bounds every  *)
(* value, SetToSeq and FlattenSeq return sequences.  They are defined by   *)
(* recursion over the subsets of a finite set or over the positions of a   *)
(* sequence; the proofs use induction in its first-order form, a set that  *)
(* is closed under adding one element.  TimesIn is how often something     *)
(* occurs in a sequence, and what appending, splitting and taking the head *)
(* do to that.  AllApart says of the sequences in a sequence that they     *)
(* repeat nothing and share nothing; then what FlattenSeq makes of them    *)
(* repeats nothing.                                                        *)
(***************************************************************************)
EXTENDS SequencesExt, FiniteSetTheorems, SequenceTheorems, TLAPS

\* A set of numbers that has 0 and all successors has all numbers.
LEMMA NatInductionSet ==
    ASSUME NEW T, 0 \in T, \A n \in Nat : n \in T => n + 1 \in T
    PROVE  Nat \subseteq T
<1> DEFINE B == {n \in Nat : n \notin T}
<1>1. SUFFICES ASSUME B # {} PROVE FALSE
  OBVIOUS
<1>2. PICK n \in B : \A m \in B : <<m, n>> \notin OpToRel(<, Nat)
  BY <1>1, WFMin, NatLessThanWellFounded
<1>3. n \in Nat /\ n # 0 /\ n - 1 \in Nat /\ (n - 1) + 1 = n
  OBVIOUS
<1>4. n - 1 \in B
  BY <1>3
<1>5. <<n - 1, n>> \in OpToRel(<, Nat)
  BY <1>3 DEF OpToRel
<1>6. QED
  BY <1>2, <1>4, <1>5

\* A set of subsets of S that has a set whenever it has all that are one
\* element smaller has all subsets of S.
LEMMA SubsetInduction ==
    ASSUME NEW S, IsFiniteSet(S), NEW T,
           \A s \in SUBSET S : (\A x \in s : s \ {x} \in T) => s \in T
    PROVE  SUBSET S \subseteq T
<1> DEFINE B == {s \in SUBSET S : s \notin T}
<1>1. SUFFICES ASSUME B # {} PROVE FALSE
  OBVIOUS
<1>2. IsWellFoundedOn(StrictSubsetOrdering(S), SUBSET S)
  BY FS_StrictSubsetOrderingWellFounded, FS_FiniteSubsetsOfFinite
<1>3. PICK s \in B : \A u \in B : <<u, s>> \notin StrictSubsetOrdering(S)
  BY <1>1, <1>2, WFMin
<1>4. PICK x \in s : s \ {x} \notin T
  BY <1>3
<1>5. s \ {x} \in B /\ <<s \ {x}, s>> \in StrictSubsetOrdering(S)
  BY <1>3, <1>4 DEF StrictSubsetOrdering
<1>6. QED
  BY <1>3, <1>5

-----------------------------------------------------------------------------
(* The recursion behind SumFunctionOnSet.                                  *)

Pick(s) == CHOOSE x \in s : TRUE
Step(f, g, s) == IF s = {} THEN 0 ELSE f[Pick(s)] + g[s \ {Pick(s)}]
Solves(g, f, D) == g = [s \in D |-> Step(f, g, s)]
SumOf(f, S) == CHOOSE g : Solves(g, f, SUBSET S)

\* The community module's sum is the function SumOf describes.
LEMMA SumUnfolds == ASSUME NEW f, NEW S PROVE SumFunctionOnSet(f, S) = SumOf(f, S)[S]
  BY Zenon DEF SumFunctionOnSet, FoldFunctionOnSet, MapThenFoldSet, SumOf, Solves, Step, Pick

\* What is picked from a set is in it.
LEMMA PickIn == \A s : s # {} => Pick(s) \in s
  BY DEF Pick

\* The function that the recursion describes exists.
LEMMA SumsExist ==
    ASSUME NEW S, IsFiniteSet(S), NEW f
    PROVE  \E g : Solves(g, f, SUBSET S)
<1> DEFINE Small(n) == {s \in SUBSET S : Cardinality(s) <= n}
           T == {n \in Nat : \E g : Solves(g, f, Small(n))}
<1>1. \A s \in SUBSET S : IsFiniteSet(s) /\ Cardinality(s) \in Nat /\ Cardinality(s) <= Cardinality(S)
  BY FS_Subset, FS_CardinalityType
<1>2. \A n \in Nat : \A s \in Small(n + 1) : s # {} => s \ {Pick(s)} \in Small(n)
  BY <1>1, PickIn, FS_RemoveElement
<1>3. 0 \in T
  <2>1. Small(0) = {{}}
    BY <1>1, FS_EmptySet
  <2>2. Solves([s \in Small(0) |-> 0], f, Small(0))
    BY <2>1 DEF Step, Solves
  <2>3. QED
    BY <2>2
<1>4. ASSUME NEW n \in Nat, n \in T PROVE n + 1 \in T
  <2>1. PICK g : Solves(g, f, Small(n))
    BY <1>4, Zenon
  <2>2. DEFINE h == [s \in Small(n + 1) |-> Step(f, g, s)]
  <2>3. \A s \in Small(n) : s \in Small(n + 1) /\ h[s] = g[s]
    BY <1>1, <2>1 DEF Solves
  <2>4. \A s \in Small(n + 1) : Step(f, h, s) = Step(f, g, s)
    BY <1>2, <2>3 DEF Step
  <2>5. Solves(h, f, Small(n + 1))
    BY <2>4 DEF Solves
  <2>6. \E k : Solves(k, f, Small(n + 1))
    BY <2>5, Zenon
  <2>7. n + 1 \in Nat
    OBVIOUS
  <2>8. QED
    BY <2>6, <2>7, Zenon
<1>5. Cardinality(S) \in T
  <2>1. Nat \subseteq T
    <3> HIDE DEF T
    <3>1. QED
      BY <1>3, <1>4, NatInductionSet
  <2>2. QED
    BY <2>1, FS_CardinalityType, Zenon
<1>6. Small(Cardinality(S)) = SUBSET S
  BY <1>1
<1>7. PICK g : Solves(g, f, Small(Cardinality(S)))
  BY <1>5, Zenon
<1>8. QED
  BY <1>6, <1>7, Zenon

\* What the chosen one is.
LEMMA SumsStep ==
    ASSUME NEW S, IsFiniteSet(S), NEW f
    PROVE  \A s \in SUBSET S : SumOf(f, S)[s] = Step(f, SumOf(f, S), s)
<1>1. Solves(SumOf(f, S), f, SUBSET S)
  BY SumsExist, Zenon DEF SumOf
<1>2. QED
  BY <1>1, Zenon DEF Solves

-----------------------------------------------------------------------------
(* What follows by induction.                                              *)

\* A sum over the set of all the arguments of f is the sum over f.
LEMMA SumIs ==
    ASSUME NEW S, NEW f, DOMAIN f = S
    PROVE  SumFunction(f) = SumOf(f, S)[S]
<1>1. SumFunction(f) = SumFunctionOnSet(f, S)
  BY Zenon DEF SumFunction
<1>2. QED
  BY <1>1, SumUnfolds, Zenon

\* The sums over the subsets of the arguments are integers.
LEMMA SumsType ==
    ASSUME NEW S, IsFiniteSet(S), NEW f \in [S -> Int]
    PROVE  \A s \in SUBSET S : SumOf(f, S)[s] \in Int
<1> DEFINE T == {s \in SUBSET S : SumOf(f, S)[s] \in Int}
<1>1. ASSUME NEW s \in SUBSET S, \A x \in s : s \ {x} \in T PROVE s \in T
  <2>1. CASE s = {}
    <3>1. SumOf(f, S)[s] = 0
      BY <2>1, SumsStep, Zenon DEF Step
    <3>2. QED
      BY <3>1
  <2>2. CASE s # {}
    <3>1. Pick(s) \in s /\ s \ {Pick(s)} \in T
      BY <1>1, <2>2, PickIn, Zenon
    <3>2. SumOf(f, S)[s] = f[Pick(s)] + SumOf(f, S)[s \ {Pick(s)}]
      BY <2>2, SumsStep, Zenon DEF Step
    <3>3. QED
      BY <3>1, <3>2
  <2>3. QED
    BY <2>1, <2>2
<1> HIDE DEF T
<1>2. SUBSET S \subseteq T
  BY <1>1, SubsetInduction, Zenon
<1>3. QED
  BY <1>2 DEF T

-----------------------------------------------------------------------------
(* The facts about sums that other modules use.                            *)

\* A sum of integers is an integer.
LEMMA SumType ==
    ASSUME NEW S, IsFiniteSet(S), NEW f \in [S -> Int]
    PROVE  SumFunction(f) \in Int
<1>1. DOMAIN f = S
  OBVIOUS
<1>2. SumOf(f, S)[S] \in Int
  BY SumsType, Zenon
<1>3. QED
  BY <1>1, <1>2, SumIs, Zenon

\* A sum follows a change of one of the values.
LEMMA SumUpdate ==
    ASSUME NEW S, IsFiniteSet(S), NEW f \in [S -> Int], NEW g \in [S -> Int],
           NEW a \in S, \A x \in S \ {a} : g[x] = f[x]
    PROVE  SumFunction(g) = SumFunction(f) + g[a] - f[a]
<1> DEFINE D(s) == IF a \in s THEN g[a] - f[a] ELSE 0
           T == {s \in SUBSET S : SumOf(g, S)[s] = SumOf(f, S)[s] + D(s)}
<1>1. ASSUME NEW s \in SUBSET S, \A x \in s : s \ {x} \in T PROVE s \in T
  <2>1. CASE s = {}
    <3>1. SumOf(f, S)[s] = 0 /\ SumOf(g, S)[s] = 0
      BY <2>1, SumsStep, Zenon DEF Step
    <3>2. QED
      BY <2>1, <3>1
  <2>2. CASE s # {}
    <3> DEFINE p == Pick(s)
               r == s \ {p}
    <3>1. p \in s /\ r \in T
      BY <1>1, <2>2, PickIn, Zenon
    <3>2. SumOf(f, S)[s] = f[p] + SumOf(f, S)[r] /\ SumOf(g, S)[s] = g[p] + SumOf(g, S)[r]
      <4>1. SumOf(f, S)[s] = f[p] + SumOf(f, S)[r]
        BY <2>2, SumsStep, Zenon DEF Step
      <4>2. SumOf(g, S)[s] = g[p] + SumOf(g, S)[r]
        BY <2>2, SumsStep, Zenon DEF Step
      <4> QED  BY <4>1, <4>2, Zenon
    <3>3. SumOf(g, S)[r] = SumOf(f, S)[r] + D(r)
      BY <3>1
    <3>4. SumOf(f, S)[r] \in Int
      BY <3>1, SumsType, Zenon
    <3> HIDE DEF p
    <3>5. g[p] + D(r) = f[p] + D(s)
      BY <3>1
    <3>6. f[p] \in Int /\ g[p] \in Int /\ D(r) \in Int /\ D(s) \in Int
      BY <3>1
    <3> HIDE DEF D
    <3>7. QED
      BY <3>2, <3>3, <3>4, <3>5, <3>6
  <2>3. QED
    BY <2>1, <2>2
<1> HIDE DEF T
<1>2. SUBSET S \subseteq T
  BY <1>1, SubsetInduction, Zenon
<1>3. SumOf(g, S)[S] = SumOf(f, S)[S] + (g[a] - f[a])
  BY <1>2 DEF T
<1>4. DOMAIN f = S /\ DOMAIN g = S
  OBVIOUS
<1>5. SumFunction(f) = SumOf(f, S)[S] /\ SumFunction(g) = SumOf(g, S)[S]
  BY <1>4, SumIs, Zenon
<1>6. SumOf(f, S)[S] \in Int
  BY SumsType, Zenon
<1>7. QED
  BY <1>3, <1>5, <1>6

\* A sum of values that are not negative is at least each of them.
LEMMA SumBound ==
    ASSUME NEW S, IsFiniteSet(S), NEW f \in [S -> Nat], NEW a \in S
    PROVE  SumFunction(f) >= f[a]
<1> DEFINE T == {s \in SUBSET S : /\ SumOf(f, S)[s] >= 0
                                  /\ a \in s => SumOf(f, S)[s] >= f[a]}
<1>0. f \in [S -> Int]
  OBVIOUS
<1>1. ASSUME NEW s \in SUBSET S, \A x \in s : s \ {x} \in T PROVE s \in T
  <2>1. CASE s = {}
    <3>1. SumOf(f, S)[s] = 0
      BY <2>1, SumsStep, Zenon DEF Step
    <3>2. QED
      BY <2>1, <3>1
  <2>2. CASE s # {}
    <3> DEFINE p == Pick(s)
               r == s \ {p}
    <3>1. p \in s /\ r \in T
      BY <1>1, <2>2, PickIn, Zenon
    <3>2. SumOf(f, S)[s] = f[p] + SumOf(f, S)[r]
      BY <2>2, SumsStep, Zenon DEF Step
    <3>3. SumOf(f, S)[r] \in Int
      BY <1>0, <3>1, SumsType, Zenon
    <3> HIDE DEF p
    <3>4. f[p] \in Nat /\ SumOf(f, S)[r] >= 0 /\ (a \in r => SumOf(f, S)[r] >= f[a])
      BY <3>1
    <3>5. (a \in s => a = p \/ a \in r) /\ f[a] \in Nat
      OBVIOUS
    <3> HIDE DEF r
    <3>6. QED
      BY <3>2, <3>3, <3>4, <3>5
  <2>3. QED
    BY <2>1, <2>2
<1> HIDE DEF T
<1>2. SUBSET S \subseteq T
  BY <1>1, SubsetInduction, Zenon
<1>3. SumOf(f, S)[S] >= f[a]
  BY <1>2 DEF T
<1>4. DOMAIN f = S
  OBVIOUS
<1>5. QED
  BY <1>3, <1>4, SumIs

\* A sum of zeros and ones is at most the number of them.
LEMMA SumAtMost ==
    ASSUME NEW S, IsFiniteSet(S), NEW f \in [S -> 0 .. 1]
    PROVE  SumFunction(f) <= Cardinality(S)
<1> DEFINE T == {s \in SUBSET S : SumOf(f, S)[s] <= Cardinality(s)}
<1>0. f \in [S -> Int]
  OBVIOUS
<1>1. ASSUME NEW s \in SUBSET S, \A x \in s : s \ {x} \in T PROVE s \in T
  <2>0. IsFiniteSet(s) /\ Cardinality(s) \in Nat
    BY FS_Subset, FS_CardinalityType
  <2>1. CASE s = {}
    <3>1. SumOf(f, S)[s] = 0
      BY <2>1, SumsStep, Zenon DEF Step
    <3>2. QED
      BY <2>0, <3>1
  <2>2. CASE s # {}
    <3> DEFINE p == Pick(s)
               r == s \ {p}
    <3>1. p \in s /\ r \in T
      BY <1>1, <2>2, PickIn, Zenon
    <3>2. SumOf(f, S)[s] = f[p] + SumOf(f, S)[r]
      BY <2>2, SumsStep, Zenon DEF Step
    <3>3. SumOf(f, S)[r] \in Int
      BY <1>0, <3>1, SumsType, Zenon
    <3>4. Cardinality(r) = Cardinality(s) - 1 /\ Cardinality(r) \in Nat
      BY <2>0, <3>1, FS_RemoveElement, FS_CardinalityType
    <3> HIDE DEF p, r
    <3>5. f[p] \in 0 .. 1 /\ SumOf(f, S)[r] <= Cardinality(r)
      BY <3>1
    <3>6. QED
      BY <2>0, <3>2, <3>3, <3>4, <3>5
  <2>3. QED
    BY <2>1, <2>2
<1> HIDE DEF T
<1>2. SUBSET S \subseteq T
  BY <1>1, SubsetInduction, Zenon
<1>3. SumOf(f, S)[S] <= Cardinality(S)
  BY <1>2 DEF T
<1>4. DOMAIN f = S
  OBVIOUS
<1>5. QED
  BY <1>0, <1>3, <1>4, SumIs, Zenon

\* A sum of zeros is zero.
LEMMA SumZero ==
    ASSUME NEW S, IsFiniteSet(S), NEW f \in [S -> {0}]
    PROVE  SumFunction(f) = 0
<1> DEFINE T == {s \in SUBSET S : SumOf(f, S)[s] = 0}
<1>1. ASSUME NEW s \in SUBSET S, \A x \in s : s \ {x} \in T PROVE s \in T
  <2>1. CASE s = {}
    BY <2>1, SumsStep, Zenon DEF Step
  <2>2. CASE s # {}
    <3>1. Pick(s) \in s /\ s \ {Pick(s)} \in T
      BY <1>1, <2>2, PickIn, Zenon
    <3>2. SumOf(f, S)[s] = f[Pick(s)] + SumOf(f, S)[s \ {Pick(s)}]
      BY <2>2, SumsStep, Zenon DEF Step
    <3>3. f[Pick(s)] = 0 /\ SumOf(f, S)[s \ {Pick(s)}] = 0
      BY <3>1
    <3>4. QED
      BY <3>2, <3>3
  <2>3. QED
    BY <2>1, <2>2
<1> HIDE DEF T
<1>2. SUBSET S \subseteq T
  BY <1>1, SubsetInduction, Zenon
<1>3. SumOf(f, S)[S] = 0
  BY <1>2, Zenon DEF T
<1>4. DOMAIN f = S
  OBVIOUS
<1>5. QED
  BY <1>3, <1>4, SumIs, Zenon
\* The sums over the subsets of a set do not depend on what is outside of it.
LEMMA SumRestrict ==
    ASSUME NEW S, IsFiniteSet(S), NEW A \in SUBSET S, NEW f, NEW g, \A x \in A : g[x] = f[x]
    PROVE  SumOf(g, A)[A] = SumOf(f, S)[A]
<1>0. IsFiniteSet(A)
  BY FS_Subset
<1> DEFINE T == {s \in SUBSET A : SumOf(g, A)[s] = SumOf(f, S)[s]}
<1>1. ASSUME NEW s \in SUBSET A, \A x \in s : s \ {x} \in T PROVE s \in T
  <2>0. s \in SUBSET S
    OBVIOUS
  <2>1. SumOf(g, A)[s] = Step(g, SumOf(g, A), s) /\ SumOf(f, S)[s] = Step(f, SumOf(f, S), s)
    BY <1>0, <2>0, SumsStep, Zenon
  <2>2. s # {} => Pick(s) \in s
    BY PickIn, Zenon
  <2>3. s # {} => g[Pick(s)] = f[Pick(s)]
    BY <2>2
  <2>4. s # {} => SumOf(g, A)[s \ {Pick(s)}] = SumOf(f, S)[s \ {Pick(s)}]
    BY <1>1, <2>2
  <2>5. SumOf(g, A)[s] = SumOf(f, S)[s]
    BY <2>1, <2>3, <2>4, Zenon DEF Step
  <2> QED  BY <2>5
<1> HIDE DEF T
<1>2. SUBSET A \subseteq T
  BY <1>0, <1>1, SubsetInduction, Zenon
<1> QED  BY <1>2 DEF T

\* Any element can be taken out of a sum first.
LEMMA SumRemove ==
    ASSUME NEW S, IsFiniteSet(S), NEW f \in [S -> Int]
    PROVE  \A s \in SUBSET S : \A x \in s : SumOf(f, S)[s] = f[x] + SumOf(f, S)[s \ {x}]
<1> DEFINE F == SumOf(f, S)
           T == {s \in SUBSET S : \A x \in s : F[s] = f[x] + F[s \ {x}]}
<1>1. ASSUME NEW s \in SUBSET S, \A x \in s : s \ {x} \in T PROVE s \in T
  <2> SUFFICES ASSUME NEW x \in s PROVE F[s] = f[x] + F[s \ {x}]
    OBVIOUS
  <2>1. PICK p : p = Pick(s)
    OBVIOUS
  <2>2. p \in s
    BY <2>1, PickIn, Zenon
  <2>3. F[s] = f[p] + F[s \ {p}]
    BY <2>1, SumsStep, Zenon DEF Step
  <2>4. CASE x # p
    <3>1. F[s \ {p}] = f[x] + F[(s \ {p}) \ {x}]
      BY <1>1, <2>2, <2>4
    <3>2. F[s \ {x}] = f[p] + F[(s \ {x}) \ {p}]
      BY <1>1, <2>2, <2>4
    <3>3. (s \ {p}) \ {x} = (s \ {x}) \ {p}
      OBVIOUS
    <3>4. F[(s \ {x}) \ {p}] \in Int
      BY SumsType, Zenon
    <3>5. f[p] \in Int /\ f[x] \in Int
      BY <2>2
    <3> HIDE DEF F
    <3>6. F[s \ {p}] = f[x] + F[(s \ {x}) \ {p}]
      BY <3>1, <3>3
    <3> HIDE DEF T
    <3> QED  BY <2>3, <3>2, <3>4, <3>5, <3>6
  <2> QED  BY <2>3, <2>4
<1> HIDE DEF T
<1>2. SUBSET S \subseteq T
  BY <1>1, SubsetInduction, Zenon
<1> QED  BY <1>2 DEF T

\* A sequence is a function on an interval, and so finite.
LEMMA SequenceSum ==
    ASSUME NEW s \in Seq(Int)
    PROVE  /\ IsFiniteSet(DOMAIN s) /\ s \in [DOMAIN s -> Int]
           /\ DOMAIN s = 1 .. Len(s) /\ Len(s) \in Nat /\ SumFunction(s) \in Int
<1>1. DOMAIN s = 1 .. Len(s) /\ Len(s) \in Nat /\ s \in [1 .. Len(s) -> Int]
  OBVIOUS
<1>2. IsFiniteSet(1 .. Len(s))
  BY <1>1, FS_Interval
<1> QED  BY <1>1, <1>2, SumType

\* A sum of nothing is zero.
LEMMA SumEmpty == SumFunction(<<>>) = 0
<1>1. DOMAIN <<>> = {} /\ <<>> \in [{} -> {0}]
  OBVIOUS
<1>2. IsFiniteSet({})
  BY FS_EmptySet
<1> QED  BY <1>1, <1>2, SumZero

\* The sum of a sequence grows by what is appended.
LEMMA SumAppend ==
    ASSUME NEW s \in Seq(Int), NEW v \in Int
    PROVE  SumFunction(Append(s, v)) = SumFunction(s) + v
<1> DEFINE t == Append(s, v)
           n == Len(s) + 1
<1>1. /\ Len(s) \in Nat /\ t \in Seq(Int) /\ DOMAIN s = 1 .. Len(s) /\ DOMAIN t = 1 .. n
      /\ t[n] = v /\ \A k \in DOMAIN s : t[k] = s[k]
  BY AppendProperties
<1>2. DOMAIN s = DOMAIN t \ {n} /\ n \in DOMAIN t /\ DOMAIN s \in SUBSET DOMAIN t
  BY <1>1
<1>3. IsFiniteSet(DOMAIN t) /\ t \in [DOMAIN t -> Int]
  BY <1>1, SequenceSum
<1>4. SumFunction(t) = SumOf(t, DOMAIN t)[DOMAIN t] /\ SumFunction(s) = SumOf(s, DOMAIN s)[DOMAIN s]
  BY SumIs, Zenon
<1> HIDE DEF t, n
<1>5. SumOf(t, DOMAIN t)[DOMAIN t] = t[n] + SumOf(t, DOMAIN t)[DOMAIN s]
  <2>1. \A u \in SUBSET (DOMAIN t) : \A x \in u :
            SumOf(t, DOMAIN t)[u] = t[x] + SumOf(t, DOMAIN t)[u \ {x}]
    BY <1>3, SumRemove
  <2>2. DOMAIN t \in SUBSET (DOMAIN t)
    OBVIOUS
  <2> QED  BY <1>2, <2>1, <2>2, Zenon
<1>6. SumOf(s, DOMAIN s)[DOMAIN s] = SumOf(t, DOMAIN t)[DOMAIN s]
  <2>1. \A x \in DOMAIN s : s[x] = t[x]
    BY <1>1
  <2> DEFINE U == DOMAIN t
             A == DOMAIN s
  <2>2. IsFiniteSet(U) /\ A \in SUBSET U
    BY <1>2, <1>3
  <2>3. \A x \in A : s[x] = t[x]
    BY <2>1
  <2> HIDE DEF U, A
  <2>4. SumOf(s, A)[A] = SumOf(t, U)[A]
    BY <2>2, <2>3, SumRestrict
  <2> QED  BY <2>4 DEF U, A
<1>7. SumFunction(s) \in Int
  BY SequenceSum
<1>8. SumFunction(t) = SumFunction(s) + v
  BY <1>1, <1>4, <1>5, <1>6, <1>7
<1> QED  BY <1>8 DEF t

\* The sums of two sequences add up when they are put together.
LEMMA SumConcat ==
    ASSUME NEW s \in Seq(Int), NEW t \in Seq(Int)
    PROVE  SumFunction(s \o t) = SumFunction(s) + SumFunction(t)
<1> DEFINE T == {n \in Nat : \A u \in Seq(Int) : Len(u) = n =>
                     SumFunction(s \o u) = SumFunction(s) + SumFunction(u)}
<1>1. 0 \in T
  <2> SUFFICES ASSUME NEW u \in Seq(Int), Len(u) = 0
               PROVE  SumFunction(s \o u) = SumFunction(s) + SumFunction(u)
    OBVIOUS
  <2>1. u = <<>> /\ s \o u = s
    BY EmptySeq, ConcatEmptySeq
  <2>2. SumFunction(u) = 0
    BY <2>1, SumEmpty
  <2>3. SumFunction(s) \in Int
    BY SequenceSum
  <2> QED  BY <2>1, <2>2, <2>3
<1>2. ASSUME NEW n \in Nat, n \in T PROVE n + 1 \in T
  <2> SUFFICES ASSUME NEW u \in Seq(Int), Len(u) = n + 1
               PROVE  SumFunction(s \o u) = SumFunction(s) + SumFunction(u)
    OBVIOUS
  <2>0. u # <<>>
    BY EmptySeq
  <2>1. PICK w \in Seq(Int), v \in Int : u = Append(w, v)
    BY <2>0, SequenceEmptyOrAppend
  <2>2. Len(w) = n /\ s \o u = Append(s \o w, v) /\ s \o w \in Seq(Int)
    <3>1. Len(Append(w, v)) = Len(w) + 1 /\ s \o w \in Seq(Int)
      OBVIOUS
    <3>2. s \o Append(w, v) = Append(s \o w, v)
      OBVIOUS
    <3> QED  BY <2>1, <3>1, <3>2, LenProperties
  <2>3. SumFunction(s \o w) = SumFunction(s) + SumFunction(w)
    BY <1>2, <2>2
  <2>4. SumFunction(u) = SumFunction(w) + v /\ SumFunction(s \o u) = SumFunction(s \o w) + v
    BY <2>1, <2>2, SumAppend
  <2>5. SumFunction(s) \in Int /\ SumFunction(w) \in Int
    BY <2>1, SequenceSum
  <2> QED  BY <2>1, <2>3, <2>4, <2>5
<1> HIDE DEF T
<1>3. Nat \subseteq T
  BY <1>1, <1>2, NatInductionSet
<1> QED  BY <1>3 DEF T

\* The sum of one number is that number.
LEMMA SumOne ==
    ASSUME NEW v \in Int
    PROVE  SumFunction(<<v>>) = v
<1>1. <<v>> = Append(<<>>, v) /\ <<>> \in Seq(Int)
  OBVIOUS
<1>2. SumFunction(Append(<<>>, v)) = SumFunction(<<>>) + v
  BY <1>1, SumAppend
<1> QED  BY <1>1, <1>2, SumEmpty

\* A sum of values that are not negative is not negative.
LEMMA SumNat ==
    ASSUME NEW s \in Seq(Nat)
    PROVE  SumFunction(s) >= 0 /\ SumFunction(s) \in Nat
<1>1. s \in Seq(Int) /\ DOMAIN s = 1 .. Len(s) /\ Len(s) \in Nat
  OBVIOUS
<1>2. IsFiniteSet(DOMAIN s) /\ s \in [DOMAIN s -> Nat] /\ SumFunction(s) \in Int
  BY <1>1, SequenceSum
<1>3. CASE s = <<>>
  BY <1>3, SumEmpty
<1>4. CASE s # <<>>
  <2>1. 1 \in DOMAIN s
    BY <1>1, <1>4, EmptySeq
  <2>2. SumFunction(s) >= s[1] /\ s[1] \in Nat
    BY <1>2, <2>1, SumBound
  <2> QED  BY <1>2, <2>2
<1> QED  BY <1>3, <1>4

-----------------------------------------------------------------------------
(* Sequences.                                                              *)

\* What SetToSeq returns is a sequence of the elements of the set.
LEMMA SetToSeqIs ==
    ASSUME NEW S, IsFiniteSet(S)
    PROVE  /\ SetToSeq(S) \in Seq(S)
           /\ Len(SetToSeq(S)) = Cardinality(S)
           /\ Cardinality(S) \in Nat
  <1>1. Cardinality(S) \in Nat /\ ExistsBijection(1 .. Cardinality(S), S)
    BY FS_CardinalityType
  <1>2. PICK g \in Bijection(1 .. Cardinality(S), S) : TRUE
    BY <1>1 DEF ExistsBijection
  <1>3. g \in [1 .. Cardinality(S) -> S] /\ IsInjective(g)
    BY <1>2 DEF Bijection, Injection, IsInjective
  <1>4. SetToSeq(S) \in [1 .. Cardinality(S) -> S]
    BY <1>3 DEF SetToSeq
  <1> QED  BY <1>1, <1>4

\* FlattenSeq is defined by recursion over the positions of a sequence of
\* sequences.
Flattens(f, s, n) == f = [i \in 1 .. n |-> IF i = 1 THEN s[i] ELSE f[i - 1] \o s[i]]

\* There is a function that flattens a sequence of sequences.
LEMMA FlattenExists ==
    ASSUME NEW s, NEW n \in Nat
    PROVE  \E f : Flattens(f, s, n)
  <1> DEFINE T == {m \in Nat : \E f : Flattens(f, s, m)}
  <1>1. 0 \in T
    <2> DEFINE g == [i \in 1 .. 0 |-> IF i = 1 THEN s[i] ELSE s[i - 1] \o s[i]]
    <2>1. ASSUME NEW i \in 1 .. 0 PROVE FALSE
      OBVIOUS
    <2>2. Flattens(g, s, 0)
      BY <2>1, Zenon DEF Flattens
    <2> QED  BY <2>2
  <1>2. ASSUME NEW m \in Nat, m \in T PROVE m + 1 \in T
    <2>1. PICK f : Flattens(f, s, m)
      BY <1>2
    <2> DEFINE g == [i \in 1 .. m + 1 |->
                        IF i = 1 THEN s[i]
                        ELSE (IF i <= m THEN f[i - 1] ELSE f[m]) \o s[i]]
    <2>2. ASSUME NEW i \in 1 .. m PROVE g[i] = f[i]
      <3>1. f[i] = IF i = 1 THEN s[i] ELSE f[i - 1] \o s[i]
        BY <2>1, Zenon DEF Flattens
      <3>2. i \in 1 .. m + 1 /\ i <= m
        OBVIOUS
      <3>3. g[i] = IF i = 1 THEN s[i] ELSE (IF i <= m THEN f[i - 1] ELSE f[m]) \o s[i]
        BY <3>2, Zenon
      <3> QED  BY <3>1, <3>2, <3>3
    <2>3. ASSUME NEW i \in 1 .. m + 1
          PROVE  g[i] = IF i = 1 THEN s[i] ELSE g[i - 1] \o s[i]
      <3>1. g[i] = IF i = 1 THEN s[i] ELSE (IF i <= m THEN f[i - 1] ELSE f[m]) \o s[i]
        BY Zenon
      <3>2. i # 1 => (IF i <= m THEN f[i - 1] ELSE f[m]) = f[i - 1] /\ i - 1 \in 1 .. m
        OBVIOUS
      <3>3. i # 1 => g[i - 1] = f[i - 1]
        BY <2>2, <3>2
      <3> QED  BY <3>1, <3>2, <3>3, Zenon
    <2> DEFINE h == [i \in 1 .. m + 1 |-> IF i = 1 THEN s[i] ELSE g[i - 1] \o s[i]]
    <2>4. g = h
      <3>1. g = [i \in 1 .. m + 1 |-> g[i]]
        BY Zenon
      <3> QED  BY <2>3, <3>1, Zenon
    <2>5. Flattens(g, s, m + 1)
      BY <2>4, Zenon DEF Flattens
    <2> QED  BY <2>5
  <1> HIDE DEF T
  <1>3. Nat \subseteq T
    BY <1>1, <1>2, NatInductionSet
  <1> QED  BY <1>3 DEF T

\* Flattening a sequence of sequences over S yields a sequence over S.
LEMMA FlattenType ==
    ASSUME NEW S, NEW s \in Seq(Seq(S))
    PROVE  FlattenSeq(s) \in Seq(S)
  <1> DEFINE F == CHOOSE f : Flattens(f, s, Len(s))
  <1>0. Len(s) \in Nat
    BY LenProperties
  <1>1. Flattens(F, s, Len(s))
    <2>1. \E f : Flattens(f, s, Len(s))
      BY <1>0, FlattenExists, Zenon
    <2> QED  BY <2>1, Zenon
  <1>2. FlattenSeq(s) = IF Len(s) = 0 THEN s ELSE F[Len(s)]
    BY Zenon DEF FlattenSeq, Flattens
  <1> DEFINE T == {i \in Nat : i + 1 \in 1 .. Len(s) => F[i + 1] \in Seq(S)}
  <1>3. 0 \in T
    <2> SUFFICES ASSUME 0 + 1 \in 1 .. Len(s) PROVE F[0 + 1] \in Seq(S)
      OBVIOUS
    <2>1. 1 \in 1 .. Len(s)
      OBVIOUS
    <2>2. F[1] = IF 1 = 1 THEN s[1] ELSE F[1 - 1] \o s[1]
      BY <1>1, <2>1, Zenon DEF Flattens
    <2>3. F[1] = s[1]
      BY <2>2
    <2>4. s[1] \in Seq(S)
      BY <2>1
    <2> QED  BY <2>3, <2>4
  <1>4. ASSUME NEW i \in Nat, i \in T PROVE i + 1 \in T
    <2> SUFFICES ASSUME (i + 1) + 1 \in 1 .. Len(s) PROVE F[(i + 1) + 1] \in Seq(S)
      OBVIOUS
    <2> DEFINE j == (i + 1) + 1
    <2>1. F[j] = F[i + 1] \o s[j]
      <3>1. F[j] = IF j = 1 THEN s[j] ELSE F[j - 1] \o s[j]
        BY <1>1, Zenon DEF Flattens
      <3>2. j # 1 /\ j - 1 = i + 1
        OBVIOUS
      <3> QED  BY <3>1, <3>2, Zenon
    <2>2. F[i + 1] \in Seq(S) /\ s[j] \in Seq(S)
      BY <1>0, <1>4
    <2> HIDE DEF F
    <2>3. F[i + 1] \o s[j] \in Seq(S)
      BY <2>2
    <2> QED  BY <2>1, <2>3
  <1> HIDE DEF F, T
  <1>5. Nat \subseteq T
    BY <1>3, <1>4, NatInductionSet
  <1>6. CASE Len(s) = 0
    BY <1>2, <1>6
  <1>7. CASE Len(s) # 0
    <2>1. Len(s) - 1 \in T /\ Len(s) \in 1 .. Len(s) /\ (Len(s) - 1) + 1 = Len(s)
      BY <1>5, <1>7
    <2> QED  BY <1>2, <1>7, <2>1 DEF T
  <1> QED  BY <1>6, <1>7

\* What is in a sequence that is put together, and when it has nothing twice.
LEMMA ConcatApart ==
    ASSUME NEW S, NEW s \in Seq(S), NEW t \in Seq(S)
    PROVE  /\ ToSet(s \o t) = ToSet(s) \cup ToSet(t)
           /\ IsInjective(s) /\ IsInjective(t) /\ ToSet(s) \cap ToSet(t) = {} => IsInjective(s \o t)
  <1> DEFINE u == s \o t
             m == Len(s)
             n == Len(t)
  <1>1. /\ m \in Nat /\ n \in Nat /\ DOMAIN s = 1 .. m /\ DOMAIN t = 1 .. n
    BY LenProperties
  <1>2. /\ DOMAIN u = 1 .. (m + n)
        /\ \A i \in 1 .. (m + n) : u[i] = IF i <= m THEN s[i] ELSE t[i - m]
    BY ConcatProperties, LenProperties
  <1> HIDE DEF u, m, n
  <1>3. /\ \A i \in 1 .. m : i \in DOMAIN u /\ u[i] = s[i]
        /\ \A j \in 1 .. n : j + m \in DOMAIN u /\ u[j + m] = t[j]
        /\ \A i \in DOMAIN u : i \in 1 .. m \/ \E j \in 1 .. n : i = j + m
    <2>1. \A i \in 1 .. m : i \in DOMAIN u /\ u[i] = s[i]
      BY <1>1, <1>2
    <2>2. ASSUME NEW j \in 1 .. n PROVE j + m \in DOMAIN u /\ u[j + m] = t[j]
      <3>1. j + m \in 1 .. (m + n) /\ ~(j + m <= m) /\ (j + m) - m = j
        BY <1>1
      <3> QED  BY <1>2, <3>1
    <2>3. ASSUME NEW i \in DOMAIN u, i \notin 1 .. m PROVE \E j \in 1 .. n : i = j + m
      <3>1. i - m \in 1 .. n /\ i = (i - m) + m
        BY <1>1, <1>2, <2>3
      <3> QED  BY <3>1
    <2> QED  BY <2>1, <2>2, <2>3
  <1>4. /\ \A x \in ToSet(u) : \E i \in DOMAIN u : u[i] = x
        /\ \A i \in DOMAIN u : u[i] \in ToSet(u)
        /\ \A x \in ToSet(s) : \E i \in 1 .. m : s[i] = x
        /\ \A i \in 1 .. m : s[i] \in ToSet(s)
        /\ \A x \in ToSet(t) : \E i \in 1 .. n : t[i] = x
        /\ \A i \in 1 .. n : t[i] \in ToSet(t)
    BY <1>1 DEF ToSet
  <1>5. ToSet(u) = ToSet(s) \cup ToSet(t)
    <2>1. ToSet(u) \subseteq ToSet(s) \cup ToSet(t)
      BY <1>3, <1>4
    <2>2. ToSet(s) \subseteq ToSet(u)
      BY <1>3, <1>4
    <2>3. ToSet(t) \subseteq ToSet(u)
      BY <1>3, <1>4
    <2> QED  BY <2>1, <2>2, <2>3
  <1>6. ASSUME IsInjective(s), IsInjective(t), ToSet(s) \cap ToSet(t) = {}
        PROVE  IsInjective(u)
    <2>1. /\ \A i, j \in 1 .. m : s[i] = s[j] => i = j
          /\ \A i, j \in 1 .. n : t[i] = t[j] => i = j
      BY <1>1, <1>6 DEF IsInjective
    <2>2. \A i \in 1 .. m : \A j \in 1 .. n : s[i] # t[j]
      BY <1>4, <1>6
    <2> QED  BY <1>3, <2>1, <2>2 DEF IsInjective
  <1> QED  BY <1>5, <1>6 DEF u

\* A sequence of one thing.
LEMMA SingleApart ==
    ASSUME NEW S, NEW x \in S
    PROVE  <<x>> \in Seq(S) /\ ToSet(<<x>>) = {x} /\ IsInjective(<<x>>)
  <1>1. DOMAIN <<x>> = {1} /\ <<x>>[1] = x
    OBVIOUS
  <1> QED  BY <1>1 DEF ToSet, IsInjective

\* The empty sequence.
LEMMA EmptyApart == ASSUME NEW S PROVE <<>> \in Seq(S) /\ ToSet(<<>>) = {} /\ IsInjective(<<>>)
  BY DEF ToSet, IsInjective

\* The sequences of a sequence have nothing twice, and nothing in common.
AllApart(s) ==
    /\ \A i \in DOMAIN s : IsInjective(s[i])
    /\ \A i, j \in DOMAIN s : i # j => ToSet(s[i]) \cap ToSet(s[j]) = {}

\* What is in a flattened sequence, and when it has nothing twice.
LEMMA FlattenApart ==
    ASSUME NEW S, NEW s \in Seq(Seq(S))
    PROVE  /\ ToSet(FlattenSeq(s)) = UNION {ToSet(s[i]) : i \in DOMAIN s}
           /\ AllApart(s) => IsInjective(FlattenSeq(s))
  <1> DEFINE F == CHOOSE f : Flattens(f, s, Len(s))
             Upto(i) == UNION {ToSet(s[j]) : j \in 1 .. i}
             Good(i) == /\ F[i] \in Seq(S) /\ ToSet(F[i]) = Upto(i)
                        /\ AllApart(s) => IsInjective(F[i])
  <1>0. Len(s) \in Nat /\ DOMAIN s = 1 .. Len(s) /\ \A i \in 1 .. Len(s) : s[i] \in Seq(S)
    BY LenProperties
  <1>1. Flattens(F, s, Len(s))
    <2>1. \E f : Flattens(f, s, Len(s))
      BY <1>0, FlattenExists, Zenon
    <2> QED  BY <2>1, Zenon
  <1>2. FlattenSeq(s) = IF Len(s) = 0 THEN s ELSE F[Len(s)]
    BY Zenon DEF FlattenSeq, Flattens
  <1> DEFINE T == {i \in Nat : i + 1 \in 1 .. Len(s) => Good(i + 1)}
  <1> HIDE DEF F
  <1>3. 0 \in T
    <2> SUFFICES ASSUME 1 \in 1 .. Len(s) PROVE Good(1)
      <3> HIDE DEF Good
      <3> QED  OBVIOUS
    <2>1. 1 \in 1 .. Len(s) /\ 1 .. 1 = {1}
      OBVIOUS
    <2>2. F[1] = IF 1 = 1 THEN s[1] ELSE F[1 - 1] \o s[1]
      BY <1>1, <2>1, Zenon DEF Flattens
    <2>3. F[1] = s[1] /\ Upto(1) = ToSet(s[1])
      BY <2>1, <2>2
    <2>4. AllApart(s) => IsInjective(s[1])
      BY <1>0, <2>1 DEF AllApart
    <2> QED  BY <1>0, <2>1, <2>3, <2>4
  <1>4. ASSUME NEW i \in Nat, i \in T PROVE i + 1 \in T
    <2> SUFFICES ASSUME (i + 1) + 1 \in 1 .. Len(s) PROVE Good((i + 1) + 1)
      OBVIOUS
    <2>0. PICK j : j = (i + 1) + 1
      OBVIOUS
    <2>1. F[j] = F[i + 1] \o s[j]
      <3>1. F[j] = IF j = 1 THEN s[j] ELSE F[j - 1] \o s[j]
        BY <1>1, <2>0, Zenon DEF Flattens
      <3>2. j # 1 /\ j - 1 = i + 1
        BY <2>0
      <3> QED  BY <3>1, <3>2, Zenon
    <2>2. Good(i + 1) /\ s[j] \in Seq(S) /\ j \in 1 .. Len(s) /\ i + 1 \in Nat
      BY <1>0, <1>4, <2>0
    <2> HIDE DEF T
    <2>3. 1 .. j = (1 .. (i + 1)) \cup {j}
      BY <2>0
    <2>4. Upto(j) = Upto(i + 1) \cup ToSet(s[j])
      BY <2>3
    <2>5. /\ F[j] \in Seq(S) /\ ToSet(F[j]) = ToSet(F[i + 1]) \cup ToSet(s[j])
          /\ IsInjective(F[i + 1]) /\ IsInjective(s[j]) /\ ToSet(F[i + 1]) \cap ToSet(s[j]) = {}
             => IsInjective(F[j])
      <3>1. F[i + 1] \o s[j] \in Seq(S)
        BY <2>2, ConcatProperties
      <3> HIDE DEF Good
      <3>2. F[i + 1] \in Seq(S)
        BY <2>2 DEF Good
      <3> QED  BY <2>1, <2>2, <3>1, <3>2, ConcatApart
    <2>6. AllApart(s) => IsInjective(s[j]) /\ ToSet(F[i + 1]) \cap ToSet(s[j]) = {}
      <3> SUFFICES ASSUME AllApart(s) PROVE IsInjective(s[j]) /\ ToSet(F[i + 1]) \cap ToSet(s[j]) = {}
        OBVIOUS
      <3>1. \A k \in 1 .. (i + 1) : k \in DOMAIN s /\ k # j
        BY <1>0, <2>0, <2>2
      <3>2. \A k \in 1 .. (i + 1) : ToSet(s[k]) \cap ToSet(s[j]) = {}
        BY <1>0, <2>2, <3>1 DEF AllApart
      <3>3. Upto(i + 1) \cap ToSet(s[j]) = {}
        BY <3>2
      <3> QED  BY <1>0, <2>2, <3>3 DEF AllApart
    <2>7. Good(j)
      BY <2>2, <2>4, <2>5, <2>6
    <2> QED  BY <2>0, <2>7
  <1> HIDE DEF T
  <1>5. Nat \subseteq T
    BY <1>3, <1>4, NatInductionSet
  <1>6. CASE Len(s) = 0
    <2>1. s = <<>> /\ DOMAIN s = {}
      BY <1>0, <1>6, EmptySeq
    <2>2. UNION {ToSet(s[i]) : i \in DOMAIN s} = {}
      BY <2>1
    <2> QED  BY <1>2, <1>6, <2>1, <2>2, EmptyApart
  <1>7. CASE Len(s) # 0
    <2>1. Len(s) - 1 \in T /\ Len(s) \in 1 .. Len(s) /\ (Len(s) - 1) + 1 = Len(s)
      BY <1>0, <1>5, <1>7
    <2>2. Good(Len(s))
      BY <2>1 DEF T
    <2> QED  BY <1>0, <1>2, <1>7, <2>2
  <1> QED  BY <1>6, <1>7

-----------------------------------------------------------------------------
(* How often something occurs in a sequence.                               *)

TimesIn(s, x) == Cardinality({k \in DOMAIN s : s[k] = x})

\* It is a number, and zero when the thing is not in the sequence.
LEMMA TimesType ==
    ASSUME NEW S, NEW s \in Seq(S), NEW x
    PROVE  /\ TimesIn(s, x) \in Nat
           /\ TimesIn(s, x) = 0 <=> x \notin Range(s)
  <1> DEFINE K == {k \in DOMAIN s : s[k] = x}
  <1>1. IsFiniteSet(DOMAIN s)
    BY LenProperties, FS_Interval
  <1>2. IsFiniteSet(K)
    BY <1>1, FS_Subset
  <1>3. K = {} <=> x \notin Range(s)
    BY DEF Range
  <1>4. TimesIn(s, x) = Cardinality(K)
    BY DEF TimesIn
  <1> HIDE DEF K
  <1> QED  BY <1>2, <1>3, <1>4, FS_CardinalityType, FS_EmptySet

\* In the empty sequence nothing occurs.
LEMMA TimesEmpty == ASSUME NEW x PROVE TimesIn(<<>>, x) = 0
  <1>1. {k \in DOMAIN <<>> : <<>>[k] = x} = {}
    OBVIOUS
  <1> QED  BY <1>1, FS_EmptySet DEF TimesIn

\* In a sequence of length one only its element occurs.
LEMMA TimesOne == ASSUME NEW y, NEW x PROVE TimesIn(<<y>>, x) = IF y = x THEN 1 ELSE 0
  <1>1. {k \in DOMAIN <<y>> : <<y>>[k] = x} = IF y = x THEN {1} ELSE {}
    OBVIOUS
  <1> QED  BY <1>1, FS_EmptySet, FS_Singleton DEF TimesIn

\* Occurrences add up when sequences are put together.
LEMMA TimesConcat ==
    ASSUME NEW S, NEW s \in Seq(S), NEW t \in Seq(S), NEW x
    PROVE  TimesIn(s \o t, x) = TimesIn(s, x) + TimesIn(t, x)
  <1> DEFINE A == {k \in DOMAIN s : s[k] = x}
             B == {k \in DOMAIN t : t[k] = x}
             C == {k \in (Len(s) + 1) .. (Len(s) + Len(t)) : t[k - Len(s)] = x}
             D == {k \in DOMAIN (s \o t) : (s \o t)[k] = x}
  <1>1. /\ Len(s) \in Nat /\ DOMAIN s = 1 .. Len(s)
        /\ Len(t) \in Nat /\ DOMAIN t = 1 .. Len(t)
    BY LenProperties
  <1>2. /\ DOMAIN (s \o t) = 1 .. (Len(s) + Len(t))
        /\ \A i \in 1 .. (Len(s) + Len(t)) :
               (s \o t)[i] = IF i <= Len(s) THEN s[i] ELSE t[i - Len(s)]
    BY ConcatProperties, LenProperties
  <1>3. D = A \cup C /\ A \cap C = {}
    BY <1>1, <1>2
  <1>4. IsFiniteSet(A) /\ IsFiniteSet(B) /\ IsFiniteSet(C)
    <2>1. IsFiniteSet(1 .. Len(s)) /\ IsFiniteSet(1 .. Len(t))
          /\ IsFiniteSet((Len(s) + 1) .. (Len(s) + Len(t)))
      BY <1>1, FS_Interval
    <2>2. A \subseteq 1 .. Len(s) /\ B \subseteq 1 .. Len(t)
          /\ C \subseteq (Len(s) + 1) .. (Len(s) + Len(t))
      BY <1>1
    <2> HIDE DEF A, B, C
    <2> QED  BY <2>1, <2>2, FS_Subset
  <1>5. Cardinality(C) = Cardinality(B)
    <2> DEFINE g == [k \in B |-> k + Len(s)]
    <2>1. g \in [B -> C]
      BY <1>1
    <2>2. \A j, k \in B : g[j] = g[k] => j = k
      BY <1>1
    <2>3. \A k \in C : k - Len(s) \in B /\ g[k - Len(s)] = k
      BY <1>1
    <2> HIDE DEF A, B, C, g
    <2>4. g \in Bijection(B, C)
      BY <2>1, <2>2, <2>3 DEF Bijection, Injection, Surjection, IsInjective
    <2> QED  BY <1>4, <2>4, FS_Bijection DEF ExistsBijection
  <1>6. TimesIn(s, x) = Cardinality(A) /\ TimesIn(t, x) = Cardinality(B)
        /\ TimesIn(s \o t, x) = Cardinality(D)
    BY DEF TimesIn
  <1> HIDE DEF A, B, C, D
  <1>7. Cardinality(A \cup C) = Cardinality(A) + Cardinality(C) - Cardinality(A \cap C)
    BY <1>4, FS_Union
  <1>8. Cardinality(A \cap C) = 0 /\ Cardinality(D) = Cardinality(A \cup C)
    BY <1>3, FS_EmptySet
  <1>9. Cardinality(A) \in Nat /\ Cardinality(C) \in Nat
    BY <1>4, FS_CardinalityType
  <1> QED  BY <1>5, <1>6, <1>7, <1>8, <1>9

\* One more occurrence of what is appended.
LEMMA TimesAppend ==
    ASSUME NEW S, NEW s \in Seq(S), NEW y \in S, NEW x
    PROVE  TimesIn(Append(s, y), x) = TimesIn(s, x) + (IF y = x THEN 1 ELSE 0)
  <1>1. Append(s, y) = s \o <<y>> /\ <<y>> \in Seq(S)
    BY AppendIsConcat
  <1>2. TimesIn(s \o <<y>>, x) = TimesIn(s, x) + TimesIn(<<y>>, x)
    BY <1>1, TimesConcat, Zenon
  <1> QED  BY <1>1, <1>2, TimesOne

\* One less of the head when it is taken off.
LEMMA TimesHeadTail ==
    ASSUME NEW S, NEW s \in Seq(S), s # <<>>, NEW x
    PROVE  TimesIn(s, x) = (IF Head(s) = x THEN 1 ELSE 0) + TimesIn(Tail(s), x)
  <1>1. Len(s) \in Nat \ {0}
    BY EmptySeq
  <1>2. s = <<s[1]>> \o SubSeq(s, 2, Len(s))
    BY <1>1, SubSeqRecursiveFirst, SubSeqFull
  <1>3. Tail(s) = SubSeq(s, 2, Len(s)) /\ Tail(s) \in Seq(S) /\ s[1] = Head(s) /\ Head(s) \in S
    BY <1>1, TailIsSubSeq, HeadTailProperties
  <1>4. <<Head(s)>> \in Seq(S)
    BY <1>3
  <1>5. s = <<Head(s)>> \o Tail(s)
    BY <1>2, <1>3
  <1>6. TimesIn(<<Head(s)>> \o Tail(s), x) = TimesIn(<<Head(s)>>, x) + TimesIn(Tail(s), x)
    BY <1>3, <1>4, TimesConcat, Zenon
  <1> QED  BY <1>5, <1>6, TimesOne

\* Occurrences are divided when a sequence is cut in two.
LEMMA TimesSplit ==
    ASSUME NEW S, NEW s \in Seq(S), NEW n \in 1 .. Len(s), NEW x
    PROVE  TimesIn(SubSeq(s, 1, n), x) + TimesIn(SubSeq(s, n + 1, Len(s)), x) = TimesIn(s, x)
  <1>1. Len(s) \in Nat
    BY LenProperties
  <1>2. SubSeq(s, 1, n) \o SubSeq(s, n + 1, Len(s)) = s
    BY <1>1, ConcatAdjacentSubSeq, SubSeqFull
  <1>3. SubSeq(s, 1, n) \in Seq(S)
    BY <1>1, ElementOfSeq, SubSeqProperties
  <1>4. SubSeq(s, n + 1, Len(s)) \in Seq(S)
    BY <1>1, ElementOfSeq, SubSeqProperties
  <1> DEFINE a == SubSeq(s, 1, n)
             b == SubSeq(s, n + 1, Len(s))
  <1> HIDE DEF a, b
  <1>5. TimesIn(a \o b, x) = TimesIn(a, x) + TimesIn(b, x)
    BY <1>3, <1>4, TimesConcat, Zenon DEF a, b
  <1> QED  BY <1>2, <1>5 DEF a, b

\* In an injective sequence everything occurs at most once.
LEMMA TimesInjective ==
    ASSUME NEW S, NEW s \in Seq(S), NEW x,
           \A k, l \in DOMAIN s : s[k] = s[l] => k = l
    PROVE  TimesIn(s, x) <= 1
  <1> DEFINE K == {k \in DOMAIN s : s[k] = x}
  <1>0. TimesIn(s, x) = Cardinality(K)
    BY DEF TimesIn
  <1>1. CASE K = {}
    <2>1. Cardinality(K) = 0
      BY <1>1, FS_EmptySet, Zenon
    <2> HIDE DEF K
    <2> QED  BY <1>0, <2>1
  <1>2. CASE K # {}
    <2>1. PICK k \in K : TRUE
      BY <1>2
    <2>2. K = {k}
      BY <2>1
    <2> HIDE DEF K
    <2>3. Cardinality({k}) = 1
      BY FS_Singleton, Zenon
    <2> QED  BY <1>0, <2>2, <2>3
  <1> QED  BY <1>1, <1>2
=============================================================================
