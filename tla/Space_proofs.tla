---------------------------- MODULE Space_proofs ----------------------------
(***************************************************************************)
(* The parts of a space, for any constants: the revert, the attachments,   *)
(* the rate limiter, the text diff and the retrieval of a context, one     *)
(* after the other.  The proofs of the gates, the index and the vault are  *)
(* in modules of their own; at the end, each part keeps to its own         *)
(* variables beside the others, and all of them are well typed.            *)
(*                                                                         *)
(* First come facts about numbers, finite sets and sums that the parts     *)
(* need: the least of a set of numbers, which gives induction for sets of  *)
(* numbers and of finite sets, and what SumFunctionOnSet sums.             *)
(***************************************************************************)
EXTENDS Space, NoteGates_proofs, DerivedIndex_proofs, VaultSync_proofs,
        FiniteSetTheorems, SequenceTheorems, WellFoundedInduction, TLAPS

----------------------------------------------------------------------------
(* Numbers, finite sets, sums.                                             *)

LEMMA LeastNat ==
  ASSUME NEW T \in SUBSET Nat, T # {}
  PROVE  \E n \in T : \A m \in T : n <= m
<1> DEFINE upTo(n) == 0 .. n
           U == {upTo(n) : n \in T}
<1>1. U \subseteq FiniteSubsetsOf(Nat)
  <2> SUFFICES ASSUME NEW n \in T PROVE upTo(n) \in FiniteSubsetsOf(Nat)
    OBVIOUS
  <2>1. n \in Nat /\ upTo(n) \in SUBSET Nat
    OBVIOUS
  <2>2. IsFiniteSet(upTo(n))
    BY <2>1, FS_Interval
  <2> QED BY <2>1, <2>2 DEF FiniteSubsetsOf
<1>2. U # {}
  OBVIOUS
<1>3. PICK u \in U : \A v \in U : ~ (<<v, u>> \in StrictSubsetOrdering(Nat))
  <2> HIDE DEF U
  <2> QED BY <1>1, <1>2, FS_StrictSubsetOrderingWellFounded, WFMin
<1>4. PICK n \in T : u = upTo(n)
  OBVIOUS
<1>5. ASSUME NEW m \in T, m < n PROVE FALSE
  <2>1. upTo(m) \subseteq upTo(n) /\ n \in upTo(n) /\ n \notin upTo(m)
    BY <1>5
  <2>2. <<upTo(m), upTo(n)>> \in StrictSubsetOrdering(Nat)
    BY <2>1 DEF StrictSubsetOrdering
  <2> QED BY <1>3, <1>4, <2>2
<1> QED BY <1>5

LEMMA NatInd ==
  ASSUME NEW S \in SUBSET Nat, 0 \in S, \A n \in S : n + 1 \in S
  PROVE  S = Nat
<1> SUFFICES ASSUME Nat \ S # {} PROVE FALSE
  OBVIOUS
<1>1. PICK n \in Nat \ S : \A m \in Nat \ S : n <= m
  BY LeastNat
<1>2. n # 0 /\ n - 1 \in Nat
  BY <1>1
<1>3. n - 1 \in S
  BY <1>1, <1>2
<1>4. (n - 1) + 1 \in S
  BY <1>3
<1> QED BY <1>1, <1>4

LEMMA FinInd ==
  ASSUME NEW S, IsFiniteSet(S), NEW F \in SUBSET (SUBSET S),
         {} \in F, \A T \in F, x \in S : T \cup {x} \in F
  PROVE S \in F
<1> DEFINE G == {n \in Nat : \A T \in SUBSET S : IsFiniteSet(T) /\ Cardinality(T) = n => T \in F}
<1>1. 0 \in G
  BY FS_EmptySet
<1>2. ASSUME NEW n \in G PROVE n + 1 \in G
  <2> SUFFICES ASSUME NEW T \in SUBSET S, IsFiniteSet(T), Cardinality(T) = n + 1 PROVE T \in F
    OBVIOUS
  <2>1. T # {} BY FS_EmptySet
  <2>2. PICK x \in T : TRUE BY <2>1
  <2>3. IsFiniteSet(T \ {x}) /\ Cardinality(T \ {x}) = n
    <3>1. x \in T /\ IsFiniteSet(T)
      OBVIOUS
    <3>2. Cardinality(T \ {x}) = Cardinality(T) - 1 /\ IsFiniteSet(T \ {x})
      BY <3>1, FS_RemoveElement
    <3>3. n \in Nat OBVIOUS
    <3> HIDE DEF G
    <3> QED BY <3>2, <3>3
  <2>4. T \ {x} \in F
    BY <1>2, <2>3
  <2>5. T = (T \ {x}) \cup {x} OBVIOUS
  <2> QED BY <2>4, <2>5
<1>3. G = Nat
  <2> HIDE DEF G
  <2>1. G \in SUBSET Nat BY DEF G
  <2> QED BY <1>1, <1>2, <2>1, NatInd
<1> QED BY <1>3, FS_CardinalityType

LEMMA GreatestIsMax ==
  ASSUME NEW S \in SUBSET Nat, NEW b \in Nat, S # {}, \A x \in S : x <= b
  PROVE  Max(S) \in S /\ \A x \in S : x <= Max(S)
<1> DEFINE D == {b - x : x \in S}
<1>1. D \in SUBSET Nat /\ D # {}
  <2>1. ASSUME NEW x \in S PROVE b - x \in Nat
    <3>1. x \in Nat /\ x <= b
      OBVIOUS
    <3> QED BY <3>1
  <2> QED BY <2>1
<1>2. PICK d \in D : \A e \in D : d <= e
  <2> HIDE DEF D
  <2> QED BY <1>1, LeastNat
<1>3. PICK x \in S : d = b - x
  OBVIOUS
<1>4. ASSUME NEW y \in S PROVE x >= y
  <2>1. b - y \in D
    OBVIOUS
  <2>2. d <= b - y
    BY <1>2, <2>1
  <2>3. x \in Nat /\ y \in Nat
    OBVIOUS
  <2> QED BY <2>2, <2>3, <1>3
<1>5. Max(S) \in S /\ \A y \in S : Max(S) >= y
  BY <1>4 DEF Max
<1>6. Max(S) \in Nat
  BY <1>5
<1> QED BY <1>5, <1>6

LEMMA LesserIsMin ==
  ASSUME NEW a \in Nat, NEW b \in Nat
  PROVE  Min({a, b}) = IF a <= b THEN a ELSE b
<1>1. CASE a <= b
  BY <1>1 DEF Min
<1>2. CASE ~ a <= b
  BY <1>2 DEF Min
<1> QED BY <1>1, <1>2

\* What SumFunctionOnSet computes over the subsets of S.
SumRec(f, S, g) == g = [s \in SUBSET S |-> IF s = {} THEN 0
   ELSE f[CHOOSE x \in s : TRUE] + g[s \ {CHOOSE x \in s : TRUE}]]

\* The same, of natural numbers.
Sums(f, S, g) == g \in [SUBSET S -> Nat] /\ SumRec(f, S, g)

LEMMA SumExists ==
  ASSUME NEW D, NEW f \in [D -> Nat], NEW S \in SUBSET D, IsFiniteSet(S)
  PROVE  \E g : Sums(f, S, g)
<1> DEFINE Unfold(s, g) == IF s = {} THEN 0 ELSE f[CHOOSE x \in s : TRUE] + g[s \ {CHOOSE x \in s : TRUE}]
           Upto(n) == \E g \in [SUBSET S -> Nat] : \A s \in SUBSET S : Cardinality(s) <= n => g[s] = Unfold(s, g)
           N == {n \in Nat : Upto(n)}
<1>1. \A s \in SUBSET S : IsFiniteSet(s) /\ Cardinality(s) \in Nat
  BY FS_Subset, FS_CardinalityType
<1>2. ASSUME NEW s \in SUBSET S, s # {}
      PROVE  LET c == CHOOSE x \in s : TRUE IN
               /\ c \in s /\ f[c] \in Nat /\ s \ {c} \in SUBSET S
               /\ Cardinality(s \ {c}) = Cardinality(s) - 1
  <2> DEFINE c == CHOOSE x \in s : TRUE
  <2>1. c \in s
    BY <1>2
  <2> HIDE DEF c
  <2>2. IsFiniteSet(s) /\ Cardinality(s \ {c}) = Cardinality(s) - 1
    BY <1>1, <2>1, FS_RemoveElement
  <2>3. f[c] \in Nat /\ s \ {c} \in SUBSET S
    BY <2>1
  <2> QED BY <2>1, <2>2, <2>3 DEF c
<1>3. 0 \in N
  <2> DEFINE g == [s \in SUBSET S |-> 0]
  <2>1. ASSUME NEW s \in SUBSET S, Cardinality(s) <= 0 PROVE s = {}
    BY <1>1, <2>1, FS_EmptySet
  <2>2. g \in [SUBSET S -> Nat] /\ \A s \in SUBSET S : Cardinality(s) <= 0 => g[s] = Unfold(s, g)
    BY <2>1
  <2> QED BY <2>2
<1>4. ASSUME NEW n \in N PROVE n + 1 \in N
  <2>1. n \in Nat /\ Upto(n)
    OBVIOUS
  <2>2. PICK g \in [SUBSET S -> Nat] : \A s \in SUBSET S : Cardinality(s) <= n => g[s] = Unfold(s, g)
    BY <2>1
  <2> DEFINE h == [s \in SUBSET S |-> Unfold(s, g)]
  <2>3. ASSUME NEW s \in SUBSET S PROVE Unfold(s, g) \in Nat
    BY <1>2
  <2>4. h \in [SUBSET S -> Nat]
    BY <2>3
  <2>5. ASSUME NEW s \in SUBSET S, Cardinality(s) <= n + 1 PROVE h[s] = Unfold(s, h)
    <3>1. CASE s = {}
      BY <3>1
    <3>2. CASE s # {}
      <4> DEFINE c == CHOOSE x \in s : TRUE
      <4>1. s \ {c} \in SUBSET S /\ Cardinality(s \ {c}) <= n
        BY <1>1, <1>2, <2>1, <2>5, <3>2
      <4>2. h[s \ {c}] = g[s \ {c}]
        BY <2>2, <4>1
      <4> QED BY <4>1, <4>2
    <3> QED BY <3>1, <3>2
  <2>6. Upto(n + 1)
    BY <2>4, <2>5
  <2>7. n + 1 \in Nat
    BY <2>1
  <2> HIDE DEF Upto
  <2> QED BY <2>6, <2>7
<1>5. N = Nat
  <2>1. N \in SUBSET Nat
    OBVIOUS
  <2> HIDE DEF N
  <2> QED BY <1>3, <1>4, <2>1, NatInd
<1>6. PICK g \in [SUBSET S -> Nat] : \A s \in SUBSET S : Cardinality(s) <= Cardinality(S) => g[s] = Unfold(s, g)
  <2>1. Cardinality(S) \in N
    BY <1>1, <1>5
  <2> QED BY <2>1
<1>7. \A s \in SUBSET S : Cardinality(s) <= Cardinality(S)
  BY FS_Subset
<1>8. g = [s \in SUBSET S |-> Unfold(s, g)]
  BY <1>6, <1>7
<1> QED BY <1>8 DEF SumRec, Sums

LEMMA SumUnique ==
  ASSUME NEW f, NEW S, IsFiniteSet(S), NEW T, S \subseteq T, NEW g, SumRec(f, S, g), NEW h, SumRec(f, T, h)
  PROVE  g[S] = h[S]
<1> DEFINE N == {n \in Nat : \A s \in SUBSET S : Cardinality(s) = n => g[s] = h[s]}
<1>1. \A s \in SUBSET S : IsFiniteSet(s) /\ Cardinality(s) \in Nat
  BY FS_Subset, FS_CardinalityType
<1>2. \A s \in SUBSET S : g[s] = IF s = {} THEN 0
   ELSE f[CHOOSE x \in s : TRUE] + g[s \ {CHOOSE x \in s : TRUE}]
  BY DEF SumRec
<1>3. \A s \in SUBSET T : h[s] = IF s = {} THEN 0
   ELSE f[CHOOSE x \in s : TRUE] + h[s \ {CHOOSE x \in s : TRUE}]
  BY DEF SumRec
<1>4. 0 \in N
  BY <1>1, <1>2, <1>3, FS_EmptySet
<1>5. ASSUME NEW n \in N PROVE n + 1 \in N
  <2> SUFFICES ASSUME NEW s \in SUBSET S, Cardinality(s) = n + 1 PROVE g[s] = h[s]
    OBVIOUS
  <2> DEFINE c == CHOOSE x \in s : TRUE
  <2>1. s # {} /\ n \in Nat
    BY FS_EmptySet
  <2>2. c \in s
    BY <2>1
  <2>3. g[s] = f[c] + g[s \ {c}] /\ h[s] = f[c] + h[s \ {c}]
    BY <1>2, <1>3, <2>1
  <2> HIDE DEF c
  <2>4. Cardinality(s \ {c}) = n
    <3> HIDE DEF N
    <3>1. Cardinality(s \ {c}) = Cardinality(s) - 1
      BY <1>1, <2>2, FS_RemoveElement
    <3> QED BY <2>1, <3>1
  <2>5. g[s \ {c}] = h[s \ {c}]
    BY <2>4
  <2> QED BY <2>3, <2>5
<1>6. N = Nat
  <2>1. N \in SUBSET Nat
    OBVIOUS
  <2> HIDE DEF N
  <2> QED BY <1>4, <1>5, <2>1, NatInd
<1>7. Cardinality(S) \in N
  BY <1>1, <1>6
<1> QED BY <1>7

LEMMA SumUnfold ==
  ASSUME NEW f, NEW S, \E g : SumRec(f, S, g)
  PROVE  \E g : SumRec(f, S, g) /\ SumFunctionOnSet(f, S) = g[S]
<1> DEFINE g == CHOOSE h : SumRec(f, S, h)
<1>1. SumRec(f, S, g)
  OBVIOUS
<1>2. SumFunctionOnSet(f, S) = g[S]
  BY DEF SumFunctionOnSet, FoldFunctionOnSet, MapThenFoldSet, SumRec
<1> QED BY <1>1, <1>2

\* The order of the elements does not matter.
LEMMA SumSplits ==
  ASSUME NEW D, NEW f \in [D -> Nat], NEW S \in SUBSET D, IsFiniteSet(S),
         NEW g, Sums(f, S, g), NEW y \in S
  PROVE  g[S] = f[y] + g[S \ {y}]
<1> DEFINE N == {n \in Nat : \A s \in SUBSET S, x \in S :
                   Cardinality(s) = n /\ x \in s => g[s] = f[x] + g[s \ {x}]}
<1>1. \A s \in SUBSET S : IsFiniteSet(s) /\ Cardinality(s) \in Nat
  BY FS_Subset, FS_CardinalityType
<1>2. \A s \in SUBSET S : s # {} =>
        g[s] = f[CHOOSE x \in s : TRUE] + g[s \ {CHOOSE x \in s : TRUE}]
  BY DEF SumRec, Sums
<1>3. 0 \in N
  BY <1>1, FS_EmptySet
<1>4. ASSUME NEW n \in N PROVE n + 1 \in N
  <2> SUFFICES ASSUME NEW s \in SUBSET S, NEW x \in s, Cardinality(s) = n + 1
               PROVE  g[s] = f[x] + g[s \ {x}]
    OBVIOUS
  <2> DEFINE c == CHOOSE e \in s : TRUE
  <2>1. c \in s /\ g[s] = f[c] + g[s \ {c}] /\ n \in Nat
    BY <1>2
  <2> HIDE DEF c
  <2>2. CASE c = x
    BY <2>1, <2>2
  <2>3. CASE c # x
    <3> DEFINE r == (s \ {c}) \ {x}
    <3>1. Cardinality(s \ {c}) = n /\ Cardinality(s \ {x}) = n
      <4> HIDE DEF N
      <4>1. Cardinality(s \ {c}) = Cardinality(s) - 1 /\ Cardinality(s \ {x}) = Cardinality(s) - 1
        BY <1>1, <2>1, FS_RemoveElement
      <4> QED BY <2>1, <4>1
    <3>2. g[s \ {c}] = f[x] + g[r]
      BY <2>1, <2>3, <3>1
    <3>3. (s \ {x}) \ {c} = r /\ r \in SUBSET S
      OBVIOUS
    <3>4. g[s \ {x}] = f[c] + g[(s \ {x}) \ {c}]
      BY <2>1, <2>3, <3>1
    <3>5. f[c] \in Nat /\ f[x] \in Nat /\ g[r] \in Nat
      BY <2>1, <3>3 DEF Sums
    <3> HIDE DEF N, r
    <3>6. g[s \ {x}] = f[c] + g[r]
      BY <3>3, <3>4
    <3> QED BY <2>1, <3>2, <3>5, <3>6
  <2> QED BY <2>2, <2>3
<1>5. N = Nat
  <2>1. N \in SUBSET Nat
    OBVIOUS
  <2> HIDE DEF N
  <2> QED BY <1>3, <1>4, <2>1, NatInd
<1>6. Cardinality(S) \in N
  BY <1>1, <1>5
<1> QED BY <1>6

LEMMA SumValue ==
  ASSUME NEW D, NEW f \in [D -> Nat], NEW T \in SUBSET D, IsFiniteSet(T)
  PROVE  \E h : Sums(f, T, h) /\ SumFunctionOnSet(f, T) = h[T]
<1>1. PICK h : Sums(f, T, h)
  BY SumExists
<1>2. PICK k : SumRec(f, T, k) /\ SumFunctionOnSet(f, T) = k[T]
  BY <1>1, SumUnfold DEF Sums
<1>3. h[T] = k[T]
  BY <1>1, <1>2, SumUnique DEF Sums
<1> QED BY <1>1, <1>2, <1>3

\* A sum is a natural number.
LEMMA SumNat ==
  ASSUME NEW D, NEW f \in [D -> Nat], NEW T \in SUBSET D, IsFiniteSet(T)
  PROVE  SumFunctionOnSet(f, T) \in Nat
<1>1. PICK h : Sums(f, T, h) /\ SumFunctionOnSet(f, T) = h[T]
  BY SumValue
<1> QED BY <1>1 DEF Sums

\* It is the value of any one element and the sum of the others.
LEMMA SumTakes ==
  ASSUME NEW D, NEW f \in [D -> Nat], NEW T \in SUBSET D, IsFiniteSet(T), NEW x \in T
  PROVE  SumFunctionOnSet(f, T) = f[x] + SumFunctionOnSet(f, T \ {x})
<1>1. PICK h : Sums(f, T, h) /\ SumFunctionOnSet(f, T) = h[T]
  BY SumValue
<1>2. h[T] = f[x] + h[T \ {x}]
  BY <1>1, SumSplits
<1>3. PICK R : R = T \ {x}
  OBVIOUS
<1>4. IsFiniteSet(R) /\ R \in SUBSET D /\ R \subseteq T
  BY <1>3, FS_Subset
<1>5. PICK k : Sums(f, R, k) /\ SumFunctionOnSet(f, R) = k[R]
  BY <1>4, SumValue
<1>6. k[R] = h[R]
  BY <1>1, <1>4, <1>5, SumUnique DEF Sums
<1> QED BY <1>1, <1>2, <1>3, <1>5, <1>6

LEMMA SumAdds ==
  ASSUME NEW D, NEW f \in [D -> Nat], NEW S \in SUBSET D, IsFiniteSet(S), NEW x \in D \ S
  PROVE  SumFunctionOnSet(f, S \cup {x}) = SumFunctionOnSet(f, S) + f[x]
<1>1. /\ S \cup {x} \in SUBSET D /\ IsFiniteSet(S \cup {x}) /\ x \in S \cup {x}
      /\ (S \cup {x}) \ {x} = S
  BY FS_AddElement
<1>2. SumFunctionOnSet(f, S \cup {x}) = f[x] + SumFunctionOnSet(f, S)
  BY <1>1, SumTakes
<1>3. f[x] \in Nat /\ SumFunctionOnSet(f, S) \in Nat
  BY SumNat
<1> QED BY <1>2, <1>3

LEMMA SumOfNone ==
  ASSUME NEW D, NEW f \in [D -> Nat]
  PROVE  SumFunctionOnSet(f, {}) = 0
<1>1. PICK h : SumRec(f, {}, h)
  BY SumExists, FS_EmptySet DEF Sums
<1>2. PICK k : SumRec(f, {}, k) /\ SumFunctionOnSet(f, {}) = k[{}]
  BY <1>1, SumUnfold
<1> QED BY <1>2 DEF SumRec

\* A part sums up to no more than the whole.
LEMMA SumOfPart ==
  ASSUME NEW D, NEW f \in [D -> Nat], NEW S \in SUBSET D, IsFiniteSet(S), NEW T \in SUBSET S
  PROVE  SumFunctionOnSet(f, T) <= SumFunctionOnSet(f, S)
<1> DEFINE F == {R \in SUBSET (S \ T) : SumFunctionOnSet(f, T) <= SumFunctionOnSet(f, T \cup R)}
<1>1. IsFiniteSet(T) /\ IsFiniteSet(S \ T)
  BY FS_Subset
<1>2. {} \in F
  <2>1. T \cup {} = T /\ SumFunctionOnSet(f, T) \in Nat
    BY <1>1, SumNat
  <2> QED BY <2>1
<1>3. ASSUME NEW R \in F, NEW x \in S \ T PROVE R \cup {x} \in F
  <2>1. CASE x \in R
    <3>1. R \cup {x} = R
      BY <2>1
    <3> QED BY <3>1
  <2>2. CASE x \notin R
    <3> DEFINE U == T \cup R
    <3>1. U \in SUBSET D /\ IsFiniteSet(U) /\ x \in D \ U /\ T \cup (R \cup {x}) = U \cup {x}
      BY <2>2, FS_Subset
    <3>2. SumFunctionOnSet(f, T) <= SumFunctionOnSet(f, U)
      OBVIOUS
    <3> HIDE DEF U
    <3>3. /\ SumFunctionOnSet(f, U) \in Nat /\ SumFunctionOnSet(f, T) \in Nat
          /\ SumFunctionOnSet(f, U \cup {x}) = SumFunctionOnSet(f, U) + f[x]
      BY <1>1, <3>1, SumAdds, SumNat
    <3>4. f[x] \in Nat
      BY <3>1
    <3>5. SumFunctionOnSet(f, T) <= SumFunctionOnSet(f, U \cup {x})
      BY <3>2, <3>3, <3>4
    <3> QED BY <3>1, <3>5
  <2> QED BY <2>1, <2>2
<1>4. S \ T \in F
  <2>1. F \in SUBSET (SUBSET (S \ T))
    OBVIOUS
  <2> HIDE DEF F
  <2> QED BY <1>1, <1>2, <1>3, <2>1, FinInd
<1>5. T \cup (S \ T) = S
  OBVIOUS
<1> QED BY <1>4, <1>5

Iterated(base, f, n, g) == g[0] = base /\ \A m \in 0 .. n - 1 : g[m + 1] = f[g[m]]

LEMMA IteratedExists ==
  ASSUME NEW D, NEW base \in D, NEW f \in [D -> D], NEW n \in Nat
  PROVE  \E g \in [Nat -> D] : Iterated(base, f, n, g)
<1> DEFINE N == {m \in Nat : \E g \in [Nat -> D] : Iterated(base, f, m, g)}
<1>1. 0 \in N
  <2> DEFINE g == [m \in Nat |-> base]
  <2>1. g \in [Nat -> D] /\ Iterated(base, f, 0, g)
    BY DEF Iterated
  <2> HIDE DEF g
  <2> QED BY <2>1
<1>2. ASSUME NEW m \in N PROVE m + 1 \in N
  <2>1. m \in Nat /\ m + 1 \in Nat
    OBVIOUS
  <2>2. PICK g \in [Nat -> D] : Iterated(base, f, m, g)
    OBVIOUS
  <2> DEFINE h == [k \in Nat |-> IF k = m + 1 THEN f[g[m]] ELSE g[k]]
  <2>3. h \in [Nat -> D]
    BY <2>1
  <2>4. h[0] = base
    BY <2>1, <2>2 DEF Iterated
  <2>5. ASSUME NEW k \in 0 .. (m + 1) - 1 PROVE h[k + 1] = f[h[k]]
    <3>1. k \in Nat /\ k + 1 \in Nat /\ k <= m /\ h[k] = g[k]
      BY <2>1
    <3>2. CASE k = m
      BY <3>1, <3>2
    <3>3. CASE k # m
      <4>1. k \in 0 .. m - 1 /\ k + 1 # m + 1
        BY <2>1, <3>1, <3>3
      <4>2. g[k + 1] = f[g[k]]
        BY <2>2, <4>1 DEF Iterated
      <4>3. h[k + 1] = g[k + 1]
        BY <3>1, <4>1
      <4> QED BY <3>1, <4>2, <4>3
    <3> QED BY <3>2, <3>3
  <2>6. Iterated(base, f, m + 1, h)
    BY <2>4, <2>5 DEF Iterated
  <2> HIDE DEF h
  <2> QED BY <2>1, <2>3, <2>6
<1>3. N = Nat
  <2>1. N \in SUBSET Nat
    OBVIOUS
  <2> HIDE DEF N
  <2> QED BY <1>1, <1>2, <2>1, NatInd
<1> QED BY <1>3

LEMMA IteratedUnique ==
  ASSUME NEW base, NEW f, NEW n \in Nat, NEW g, Iterated(base, f, n, g),
         NEW k \in Nat, n <= k, NEW h, Iterated(base, f, k, h)
  PROVE  g[n] = h[n]
<1> DEFINE N == {m \in Nat : m <= n => g[m] = h[m]}
<1>1. 0 \in N
  BY DEF Iterated
<1>2. ASSUME NEW m \in N PROVE m + 1 \in N
  <2>1. m \in Nat /\ m + 1 \in Nat
    OBVIOUS
  <2>2. ASSUME m + 1 <= n PROVE g[m + 1] = h[m + 1]
    <3>1. m \in 0 .. n - 1 /\ m \in 0 .. k - 1 /\ g[m] = h[m]
      BY <2>1, <2>2
    <3> QED BY <3>1 DEF Iterated
  <2> QED BY <2>1, <2>2
<1>3. N = Nat
  <2>1. N \in SUBSET Nat
    OBVIOUS
  <2> HIDE DEF N
  <2> QED BY <1>1, <1>2, <2>1, NatInd
<1> QED BY <1>3

\* What a recursive function over the naturals is, when each value is a
\* function of the former.
Iterates(g, D, base, f) ==
  g \in [Nat -> D] /\ g[0] = base /\ \A n \in Nat : g[n + 1] = f[g[n]]

LEMMA IterationExists ==
  ASSUME NEW D, NEW base \in D, NEW f \in [D -> D]
  PROVE  \E g : Iterates(g, D, base, f)
<1> DEFINE G(n) == CHOOSE g : g \in [Nat -> D] /\ Iterated(base, f, n, g)
           F == [n \in Nat |-> G(n)[n]]
<1>1. ASSUME NEW n \in Nat PROVE G(n) \in [Nat -> D] /\ Iterated(base, f, n, G(n))
  BY IteratedExists
<1> HIDE DEF G
<1>2. F \in [Nat -> D]
  BY <1>1
<1>3. F[0] = base
  BY <1>1 DEF Iterated
<1>4. ASSUME NEW n \in Nat PROVE F[n + 1] = f[F[n]]
  <2>1. n + 1 \in Nat /\ n <= n + 1 /\ n \in 0 .. (n + 1) - 1
    OBVIOUS
  <2>2. G(n + 1)[n + 1] = f[G(n + 1)[n]]
    BY <1>1, <2>1 DEF Iterated
  <2>3. G(n)[n] = G(n + 1)[n]
    BY <1>1, <2>1, IteratedUnique
  <2> QED BY <2>1, <2>2, <2>3
<1> QED BY <1>2, <1>3, <1>4 DEF Iterates

LEMMA SumSame ==
  ASSUME NEW D, NEW f \in [D -> Nat], NEW E, NEW g \in [E -> Nat],
         NEW S \in SUBSET (D \cap E), IsFiniteSet(S), \A x \in S : f[x] = g[x]
  PROVE  SumFunctionOnSet(f, S) = SumFunctionOnSet(g, S)
<1> DEFINE F == {T \in SUBSET S : SumFunctionOnSet(f, T) = SumFunctionOnSet(g, T)}
<1>1. {} \in F
  BY SumOfNone
<1>2. ASSUME NEW T \in F, NEW x \in S PROVE T \cup {x} \in F
  <2>1. CASE x \in T
    <3>1. T \cup {x} = T
      BY <2>1
    <3> QED BY <3>1
  <2>2. CASE x \notin T
    <3>1. T \in SUBSET S /\ T \in SUBSET D /\ T \in SUBSET E /\ IsFiniteSet(T) /\ x \in D \ T /\ x \in E \ T
      BY <2>2, FS_Subset
    <3>2. SumFunctionOnSet(f, T) = SumFunctionOnSet(g, T) /\ f[x] = g[x]
      OBVIOUS
    <3>3. SumFunctionOnSet(f, T \cup {x}) = SumFunctionOnSet(f, T) + f[x]
      BY <3>1, SumAdds
    <3>4. SumFunctionOnSet(g, T \cup {x}) = SumFunctionOnSet(g, T) + g[x]
      BY <3>1, SumAdds
    <3>5. SumFunctionOnSet(f, T \cup {x}) = SumFunctionOnSet(g, T \cup {x})
      BY <3>2, <3>3, <3>4
    <3>6. T \cup {x} \in SUBSET S
      BY <3>1
    <3> QED BY <3>5, <3>6
  <2> QED BY <2>1, <2>2
<1>3. S \in F
  <2>1. F \in SUBSET (SUBSET S)
    OBVIOUS
  <2> HIDE DEF F
  <2> QED BY <1>1, <1>2, <2>1, FinInd
<1> QED BY <1>3

\* A sequence of numbers one longer.
LEMMA SumOfLonger ==
  ASSUME NEW n \in Nat, NEW f \in [1 .. n -> Nat], NEW g \in [1 .. n + 1 -> Nat],
         \A i \in 1 .. n : f[i] = g[i]
  PROVE  SumFunction(g) = SumFunction(f) + g[n + 1] /\ SumFunction(f) \in Nat
<1>1. IsFiniteSet(1 .. n) /\ 1 .. n \in SUBSET (1 .. n + 1) /\ n + 1 \in (1 .. n + 1) \ (1 .. n)
  BY FS_Interval
<1>2. SumFunctionOnSet(g, (1 .. n) \cup {n + 1}) = SumFunctionOnSet(g, 1 .. n) + g[n + 1]
  BY <1>1, SumAdds
<1>3. SumFunctionOnSet(f, 1 .. n) = SumFunctionOnSet(g, 1 .. n)
  <2>1. 1 .. n \in SUBSET ((1 .. n) \cap (1 .. n + 1))
    BY <1>1
  <2> QED BY <1>1, <2>1, SumSame
<1>4. (1 .. n) \cup {n + 1} = 1 .. n + 1
  OBVIOUS
<1>5. SumFunctionOnSet(f, 1 .. n) \in Nat
  BY <1>1, SumNat
<1>6. DOMAIN f = 1 .. n /\ DOMAIN g = 1 .. n + 1
  OBVIOUS
<1>7. SumFunction(f) = SumFunctionOnSet(f, 1 .. n) /\ SumFunction(g) = SumFunctionOnSet(g, 1 .. n + 1)
  BY <1>6 DEF SumFunction
<1> QED BY <1>2, <1>3, <1>4, <1>5, <1>7

----------------------------------------------------------------------------
(* The revert.                                                             *)

RowType == [actor : Actors \cup {"revert"}, ts : 1 .. MaxTime,
            client : (Actors \cup {Server}) \X Nat,
            near : SUBSET Nat, texts : SUBSET Nat, deletes : SUBSET Nat]

\* A row needs and deletes what is older; an edit's text is named by its row,
\* a revert writes texts of older rows.
RowSound(r) ==
  /\ rows[r].near \cup rows[r].deletes \subseteq 1 .. r - 1
  /\ rows[r].actor = "revert" => rows[r].texts \subseteq 1 .. r - 1
  /\ rows[r].actor # "revert" => rows[r].texts = {r}

RowsInv ==
  /\ rows \in Seq(RowType) /\ session \in Nat
  /\ folded \in 0 .. Len(rows) /\ coversTs \in 0 .. MaxTime
  /\ \A r \in 1 .. Len(rows) : RowSound(r)
  /\ \A r \in 1 .. folded : rows[r].ts <= coversTs

RevertInv == RowsInv /\ RevertExact

LEMMA RowFacts ==
  ASSUME RowsInv
  PROVE  /\ Len(rows) \in Nat /\ DOMAIN rows = 1 .. Len(rows)
         /\ \A r \in 1 .. Len(rows) : rows[r] \in RowType /\ rows[r].actor \in Actors \cup {"revert"}
                                      /\ rows[r].ts \in 1 .. MaxTime /\ rows[r].texts \subseteq 1 .. r
                                      /\ rows[r].near \subseteq 1 .. r - 1 /\ rows[r].deletes \subseteq 1 .. r - 1
<1>1. Len(rows) \in Nat /\ DOMAIN rows = 1 .. Len(rows) /\ \A r \in 1 .. Len(rows) : rows[r] \in RowType
  BY DEF RowsInv
<1>2. ASSUME NEW r \in 1 .. Len(rows)
      PROVE  /\ rows[r].actor \in Actors \cup {"revert"} /\ rows[r].ts \in 1 .. MaxTime
             /\ rows[r].texts \subseteq 1 .. r
             /\ rows[r].near \subseteq 1 .. r - 1 /\ rows[r].deletes \subseteq 1 .. r - 1
  <2>1. rows[r].actor \in Actors \cup {"revert"} /\ rows[r].ts \in 1 .. MaxTime
    BY <1>1 DEF RowType
  <2>2. RowSound(r)
    BY DEF RowsInv
  <2> QED BY <1>1, <2>1, <2>2 DEF RowSound
<1> QED BY <1>1, <1>2

LEMMA NeedsOlder ==
  ASSUME RowsInv, NEW r \in 1 .. Len(rows)
  PROVE  Needs(r) \subseteq 1 .. r - 1
  BY RowFacts DEF Needs

\* What is integrated has all it needs, and is all that can be.
LEMMA IntegratedClosed ==
  ASSUME NEW S
  PROVE  /\ Integrated(S) \subseteq S
         /\ \A r \in Integrated(S) : Needs(r) \subseteq Integrated(S)
         /\ \A T \in SUBSET S : (\A r \in T : Needs(r) \subseteq T) => T \subseteq Integrated(S)
  BY DEF Integrated

\* Every row waits for older ones only, so all of them are integrated.
LEMMA AllIntegrated ==
  ASSUME RowsInv
  PROVE  Integrated(1 .. Len(rows)) = 1 .. Len(rows)
<1>1. \A r \in 1 .. Len(rows) : Needs(r) \subseteq 1 .. Len(rows)
  BY NeedsOlder, RowFacts
<1> QED BY <1>1, IntegratedClosed, ZenonT(60)

LEMMA RevertTypes ==
  ASSUME RowsInv
  PROVE  RevertTypeOK
<1>1. Integrated(DOMAIN rows) = DOMAIN rows
  BY AllIntegrated, RowFacts
<1>2. \A r \in DOMAIN rows :
       /\ rows[r].actor \in Actors \cup {"revert"} /\ rows[r].ts \in 1 .. MaxTime
       /\ rows[r].near \cup rows[r].deletes \subseteq 1 .. r - 1
       /\ rows[r].texts \subseteq 1 .. r
  BY RowFacts
<1> QED BY <1>1, <1>2 DEF RevertTypeOK, RowsInv

\* A row more: the older ones are as they were.
LEMMA RowAdded ==
  ASSUME RowsInv, NEW entry \in RowType, rows' = Append(rows, entry)
  PROVE  /\ rows' \in Seq(RowType) /\ Len(rows') = Len(rows) + 1
         /\ \A r \in 1 .. Len(rows) : rows'[r] = rows[r] /\ Needs(r)' = Needs(r)
         /\ rows'[Len(rows) + 1] = entry
<1>1. rows \in Seq(RowType) /\ Len(rows) \in Nat
  BY DEF RowsInv
<1>2. /\ rows' \in Seq(RowType) /\ Len(rows') = Len(rows) + 1
      /\ \A r \in 1 .. Len(rows) : rows'[r] = rows[r]
      /\ rows'[Len(rows) + 1] = entry
  BY <1>1
<1>3. \A r \in 1 .. Len(rows) : Needs(r)' = Needs(r)
  BY <1>1, <1>2 DEF Needs
<1> QED BY <1>2, <1>3

\* A row that is sound keeps what is said of the rows.
LEMMA RevertRowKeeps ==
  ASSUME RowsInv, NEW entry \in RowType, Logged(entry), NEW last \in Nat, last = Len(rows) + 1, RowSound(last)',
         folded' = folded, coversTs' = coversTs, session' = session
  PROVE  RowsInv'
<1>1. /\ rows' \in Seq(RowType) /\ Len(rows') = Len(rows) + 1 /\ Len(rows) \in Nat
      /\ \A r \in 1 .. Len(rows) : rows'[r] = rows[r]
  BY RowAdded, RowFacts DEF Logged
<1>2. ASSUME NEW r \in 1 .. Len(rows) PROVE RowSound(r)'
  BY <1>1 DEF RowsInv, RowSound
<1>5. \A r \in 1 .. Len(rows') : RowSound(r)'
  BY <1>1, <1>2
<1>6. folded' \in 0 .. Len(rows') /\ \A r \in 1 .. folded' : rows'[r].ts <= coversTs'
  BY <1>1 DEF RowsInv
<1> QED BY <1>1, <1>5, <1>6 DEF RowsInv

LEMMA RevertInitially == ASSUME RevertAssumption, RevertInit PROVE RevertInv
<1>1. rows \in Seq(RowType) /\ Len(rows) = 0
  BY DEF RevertInit
<1>2. RowsInv
  BY <1>1 DEF RevertInit, RowsInv, RevertAssumption
<1>3. RevertExact
  BY DEF RevertInit, RevertExact, NoReport
<1> QED BY <1>2, <1>3 DEF RevertInv

LEMMA ShownFacts ==
  ASSUME RowsInv
  PROVE  ShownRows \subseteq 1 .. Len(rows)
<1>1. ASSUME NEW r \in ShownRows PROVE r \in 1 .. Len(rows)
  <2>1. PICK s \in Live : r = s[1]
    BY DEF ShownRows
  <2>2. PICK q \in Integrated(1 .. Len(rows)) : s \in {q} \X rows[q].texts
    BY <2>1 DEF Live, Shown
  <2>3. s[1] = q
    BY <2>2
  <2> QED BY <2>1, <2>2, <2>3, AllIntegrated
<1> QED BY <1>1

LEMMA EditKeeps ==
  ASSUME RevertAssumption, RevertInv, NEW a \in Actors, NEW ts \in 1 .. MaxTime,
         NEW client \in {<<Server, session>>, <<a, 0>>},
         NEW near \in Beside, NEW deletes \in {{}, ShownRows},
         EditNote(a, ts, client, near, deletes)
  PROVE  RevertInv'
<1> USE DEF RevertInv
<1>0. PICK last \in Nat : last = Len(rows) + 1
  BY RowFacts
<1> DEFINE entry == [actor |-> a, ts |-> ts, client |-> client, near |-> near,
                   texts |-> {last}, deletes |-> deletes]
<1>1. Len(rows) \in Nat /\ session \in Nat
  BY RowFacts DEF RowsInv
<1>2. near \subseteq 1 .. Len(rows) /\ deletes \subseteq 1 .. Len(rows)
  BY ShownFacts DEF Beside
<1>3. near \in SUBSET Nat /\ deletes \in SUBSET Nat
  BY <1>2
<1>4. client \in (Actors \cup {Server}) \X Nat
  BY <1>1
<1>5. entry \in RowType
  BY <1>1, <1>3, <1>4 DEF RowType
<1>6. Logged(entry)
  BY <1>0 DEF EditNote
<1>7. RowSound(last)'
  <2>1. rows'[last] = entry
    BY <1>0, <1>1, <1>5, <1>6, RowAdded DEF Logged
  <2>2. a # "revert"
    BY DEF RevertAssumption
  <2>3. last - 1 = Len(rows)
    BY <1>0, <1>1
  <2> QED BY <1>2, <2>1, <2>2, <2>3 DEF RowSound
<1>8. RowsInv'
  <2>1. folded' = folded /\ coversTs' = coversTs /\ session' = session
    BY DEF EditNote
  <2> HIDE DEF entry
  <2> QED BY <1>0, <1>5, <1>6, <1>7, <2>1, RevertRowKeeps
<1>9. RevertExact'
  BY DEF EditNote, NoReport, RevertExact
<1> QED BY <1>8, <1>9

LEMMA SameReport ==
  ASSUME rows' = rows, report' = report
  PROVE  RevertExact' = RevertExact
<1>1. \A r : Needs(r)' = Needs(r)
  BY DEF Needs
<1>2. \A S : Integrated(S)' = Integrated(S)
  BY <1>1 DEF Integrated
<1>3. \A S : Shown(S)' = Shown(S)
  BY <1>2 DEF Shown
<1>4. Texts(Live)' = Texts(Live)
  BY <1>3 DEF Live, Texts
<1>5. Dependents' = Dependents
  BY <1>1 DEF Dependents
<1>6. Rewritten' = Rewritten
  BY DEF Rewritten
<1>7. \A t : Since(t)' = Since(t)
  BY DEF Since
<1> QED BY <1>4, <1>5, <1>6, <1>7 DEF RevertExact

LEMMA SaveKeeps == ASSUME RevertAssumption, RevertInv, SaveSnapshot PROVE RevertInv'
<1> USE DEF RevertInv
<1> DEFINE times == {rows[r].ts : r \in Unfolded} \cup {coversTs}
<1>1. Len(rows) \in Nat /\ folded \in Nat /\ folded < Len(rows) /\ MaxTime \in Nat /\ coversTs \in 0 .. MaxTime
  BY RowFacts DEF RowsInv, SaveSnapshot, RevertAssumption
<1>2. \A r \in Unfolded : r \in 1 .. Len(rows)
  BY <1>1 DEF Unfolded
<1>3. \A r \in Unfolded : rows[r].ts \in 1 .. MaxTime
  BY <1>2, RowFacts
<1>4. times \in SUBSET Nat /\ times # {} /\ \A x \in times : x <= MaxTime
  BY <1>1, <1>3
<1>5. Max(times) \in times /\ \A x \in times : x <= Max(times)
  <2> HIDE DEF times
  <2> QED BY <1>1, <1>4, GreatestIsMax
<1>6. rows' = rows /\ session' = session /\ report' = report /\ folded' = Len(rows) /\ coversTs' = Max(times)
  BY DEF SaveSnapshot
<1>7. Max(times) \in 0 .. MaxTime
  BY <1>1, <1>3, <1>5
<1>8. ASSUME NEW r \in 1 .. Len(rows) PROVE rows[r].ts <= Max(times)
  <2> CASE r \in Unfolded
    BY <1>5
  <2> CASE r \notin Unfolded
    <3>1. r \in 1 .. folded
      BY <1>1 DEF Unfolded
    <3>2. rows[r].ts <= coversTs /\ rows[r].ts \in Nat
      BY <3>1, RowFacts DEF RowsInv
    <3>3. coversTs <= Max(times)
      BY <1>5
    <3> QED BY <1>1, <1>7, <3>2, <3>3
  <2> QED OBVIOUS
<1>9. RowsInv'
  <2> HIDE DEF times
  <2> QED BY <1>1, <1>6, <1>7, <1>8 DEF RowsInv, RowSound
<1>10. RevertExact'
  BY <1>6, SameReport
<1> QED BY <1>9, <1>10

LEMMA RevertLoadKeeps == ASSUME RevertInv, LoadAgain PROVE RevertInv'
<1> USE DEF RevertInv
<1>1. RowsInv'
  BY DEF LoadAgain, RowsInv, RowSound
<1>2. RevertExact'
  BY SameReport DEF LoadAgain
<1> QED BY <1>1, <1>2

LEMMA RevertIdleKeeps == ASSUME RevertInv, UNCHANGED revertVars PROVE RevertInv'
<1> USE DEF RevertInv
<1>1. RowsInv'
  BY DEF revertVars, RowsInv, RowSound
<1>2. RevertExact'
  BY SameReport DEF revertVars
<1> QED BY <1>1, <1>2

LEMMA RevertKeeps ==
  ASSUME RevertAssumption, RevertInv, NEW a \in Actors,
         NEW ts \in 1 .. MaxTime, NEW since \in 1 .. MaxTime, RevertNote(a, ts, since)
  PROVE  RevertInv'
<1> USE DEF RevertInv
<1>0. PICK n \in Nat, last \in Nat : n = Len(rows) /\ last = n + 1
  <2>1. Len(rows) \in Nat /\ Len(rows) + 1 \in Nat
    BY RowFacts
  <2> QED BY <2>1
<1> DEFINE kept == (1 .. n) \ Dropped(a, since)
           entry == [actor |-> "revert", ts |-> ts, client |-> <<Server, session>>, near |-> {},
                   texts |-> Texts(Clean(a, since)), deletes |-> ShownRows]
\* The row the revert writes: its texts are of rows before it.
<1>1. Clean(a, since) = Shown(kept)
  <2>1. (1 .. Len(rows)) \ Dropped(a, since) = kept
    BY <1>0
  <2> QED BY <2>1 DEF Clean
<1>2. ASSUME NEW t
      PROVE  t \in Texts(Clean(a, since)) <=>
               \E r \in Integrated(kept) \ UNION {rows[d].deletes : d \in kept} : t \in rows[r].texts
  <2> HIDE DEF kept
  <2>1. ASSUME t \in Texts(Clean(a, since))
        PROVE  \E r \in Integrated(kept) \ UNION {rows[d].deletes : d \in kept} : t \in rows[r].texts
    <3>1. PICK s \in Shown(kept) : t = s[2]
      BY <1>1, <2>1 DEF Texts
    <3>2. PICK r \in Integrated(kept) \ UNION {rows[d].deletes : d \in kept} : s \in {r} \X rows[r].texts
      BY <3>1 DEF Shown
    <3> QED BY <3>1, <3>2
  <2>2. ASSUME NEW r \in Integrated(kept) \ UNION {rows[d].deletes : d \in kept}, t \in rows[r].texts
        PROVE  t \in Texts(Clean(a, since))
    <3>1. <<r, t>> \in {r} \X rows[r].texts
      BY <2>2
    <3>2. <<r, t>> \in Shown(kept)
      BY <3>1 DEF Shown
    <3>3. <<r, t>>[2] = t
      OBVIOUS
    <3> QED BY <1>1, <3>2, <3>3 DEF Texts
  <2> QED BY <2>1, <2>2
<1>3. Integrated(kept) \subseteq kept /\ kept \subseteq 1 .. n
  BY IntegratedClosed
<1>4. Texts(Clean(a, since)) \subseteq 1 .. n
  <2> HIDE DEF kept
  <2>1. ASSUME NEW t \in Texts(Clean(a, since)) PROVE t \in 1 .. n
    <3>1. PICK r \in 1 .. n : t \in rows[r].texts
      BY <1>2, <1>3
    <3>2. rows[r].texts \subseteq 1 .. r
      BY <1>0, RowFacts
    <3> QED BY <3>1, <3>2
  <2> QED BY <2>1
<1>5. ShownRows \subseteq 1 .. n
  BY <1>0, ShownFacts
<1>6. entry \in RowType
  <2>1. ShownRows \in SUBSET Nat /\ Texts(Clean(a, since)) \in SUBSET Nat
    BY <1>4, <1>5
  <2>2. <<Server, session>> \in (Actors \cup {Server}) \X Nat
    BY DEF RowsInv
  <2> QED BY <2>1, <2>2 DEF RowType
<1>7. Logged(entry)
  BY DEF RevertNote
<1> HIDE DEF entry
<1>8. /\ Len(rows') = last /\ rows' \in Seq(RowType) /\ DOMAIN rows' = 1 .. last /\ rows'[last] = entry
      /\ \A r \in 1 .. n : rows'[r] = rows[r] /\ Needs(r)' = Needs(r)
  BY <1>0, <1>6, <1>7, RowAdded DEF Logged
<1>9. /\ entry.actor = "revert" /\ entry.near = {} /\ entry.texts = Texts(Clean(a, since))
      /\ entry.deletes = ShownRows
  BY DEF entry
<1>10. RowSound(last)'
  BY <1>0, <1>4, <1>5, <1>8, <1>9 DEF RowSound
<1>11. RowsInv'
  <2>1. folded' = folded /\ coversTs' = coversTs /\ session' = session
    BY DEF RevertNote
  <2> QED BY <1>0, <1>6, <1>7, <1>10, <2>1, RevertRowKeeps
\* What is shown then is what the revert wrote.
<1>12. Texts(Live') = Texts(Clean(a, since))
  <2>1. Integrated(1 .. last)' = 1 .. last
    <3>1. ASSUME NEW r \in 1 .. last PROVE Needs(r)' \subseteq 1 .. last
      <4>1. rows'[r].near \subseteq 1 .. r - 1 /\ r \in Nat
        BY <1>11, <1>8, <3>1 DEF RowsInv, RowSound
      <4> QED BY <1>0, <4>1 DEF Needs
    <3> QED BY <3>1 DEF Integrated
  <2>2. ASSUME NEW s \in Live' PROVE s[2] \in Texts(Clean(a, since))
    <3>1. PICK r \in 1 .. last : /\ s \in {r} \X rows'[r].texts
                                 /\ r \notin UNION {rows'[d].deletes : d \in 1 .. last}
      <4>1. Live' = Shown(1 .. last)'
        BY <1>8 DEF Live
      <4> QED BY <2>1, <2>2, <4>1 DEF Shown
    <3>2. r # last => FALSE
      <4> SUFFICES ASSUME r # last PROVE FALSE
        OBVIOUS
      <4>1. r \in 1 .. n
        BY <1>0
      <4>2. s \in {r} \X rows[r].texts
        BY <1>8, <3>1, <4>1
      <4>3. r \notin UNION {rows[d].deletes : d \in 1 .. n}
        <5>1. ASSUME NEW d \in 1 .. n PROVE r \notin rows[d].deletes
          <6>1. d \in 1 .. last /\ rows'[d] = rows[d]
            BY <1>0, <1>8
          <6> QED BY <3>1, <6>1
        <5> QED BY <5>1
      <4>4. r \in Integrated(1 .. n)
        BY <1>0, <4>1, AllIntegrated
      <4>5. s \in Live
        BY <1>0, <4>2, <4>3, <4>4 DEF Live, Shown
      <4>6. s[1] = r
        BY <4>2
      <4>7. r \in ShownRows
        BY <4>5, <4>6 DEF ShownRows
      <4>8. last \in 1 .. last
        BY <1>0
      <4> QED BY <1>8, <1>9, <3>1, <4>7, <4>8
    <3>3. s \in {last} \X entry.texts
      BY <1>8, <3>1, <3>2
    <3> QED BY <1>9, <3>3
  <2>3. ASSUME NEW t \in Texts(Clean(a, since)) PROVE t \in Texts(Live')
    <3>1. ASSUME NEW d \in 1 .. last PROVE last \notin rows'[d].deletes
      <4>1. rows'[d].deletes \subseteq 1 .. d - 1 /\ d \in Nat /\ d <= last
        BY <1>0, <1>11, <1>8, <3>1 DEF RowsInv, RowSound
      <4> QED BY <1>0, <4>1
    <3>2. <<last, t>> \in {last} \X rows'[last].texts
      BY <1>8, <1>9
    <3>3. last \in Integrated(1 .. last)' \ UNION {rows'[d].deletes : d \in 1 .. last}
      BY <1>0, <2>1, <3>1
    <3>4. <<last, t>> \in Live'
      BY <1>8, <3>2, <3>3 DEF Live, Shown
    <3>5. <<last, t>>[2] = t
      OBVIOUS
    <3> QED BY <3>4, <3>5 DEF Texts
  <2> QED BY <2>2, <2>3 DEF Texts
<1>13. /\ report'.pc = "reverted" /\ report'.actor = a /\ report'.since = since
       /\ report'.partial = IsPartial(since) /\ report'.dropped = Dropped(a, since)
       /\ report'.before = Texts(Live)
  BY DEF RevertNote
<1>14. \A r \in 1 .. n : rows[r].actor = "revert" => rows[r].texts \subseteq Rewritten'
  BY <1>0, <1>8 DEF Rewritten
\* Nothing of the actor's is left.
<1>15. ASSUME ~report'.partial, NEW t \in Texts(Live'), Since(t)' PROVE t \in Rewritten'
  <2>1. PICK r \in Integrated(kept) : t \in rows[r].texts
    BY <1>2, <1>12
  <2>2. r \in 1 .. n /\ r \notin Dropped(a, since)
    BY <1>3, <2>1
  <2>3. CASE rows[r].actor = "revert"
    BY <1>14, <2>1, <2>2, <2>3
  <2>4. CASE rows[r].actor # "revert"
    <3>1. t = r
      BY <1>0, <2>1, <2>2, <2>4 DEF RowsInv, RowSound
    <3>2. rows[t].actor = a /\ rows[t].ts >= since
      BY <1>8, <1>13, <1>15, <2>2, <3>1 DEF Since
    <3>3. t \notin Unfolded
      BY <2>2, <3>1, <3>2 DEF Dropped
    <3>4. t \in 1 .. folded /\ folded \in Nat
      BY <1>0, <2>2, <3>1, <3>3 DEF Unfolded, RowsInv
    <3>5. rows[t].ts <= coversTs /\ coversTs \in Nat /\ rows[t].ts \in Nat
      BY <1>0, <2>2, <3>1, <3>4, RowFacts DEF RowsInv
    <3>6. IsPartial(since)
      BY <3>2, <3>4, <3>5 DEF IsPartial
    <3> QED BY <1>13, <1>15, <3>6
  <2> QED BY <2>3, <2>4
\* Of the others nothing but what depended on it.
<1>16. ASSUME NEW t \in report'.before, rows'[t].actor # report'.actor, t \notin Rewritten',
              t \notin Texts(Live')
       PROVE  t \in Dependents'
  <2>1. PICK r \in 1 .. n : /\ t \in rows[r].texts
                            /\ r \notin UNION {rows[d].deletes : d \in 1 .. n}
    <3>1. PICK s \in Live : t = s[2]
      BY <1>13, <1>16 DEF Texts
    <3>2. PICK r \in 1 .. n : /\ s \in {r} \X rows[r].texts
                              /\ r \notin UNION {rows[d].deletes : d \in 1 .. n}
      BY <1>0, <3>1, AllIntegrated DEF Live, Shown
    <3> QED BY <3>1, <3>2
  <2>2. t = r
    BY <1>0, <1>14, <1>16, <2>1 DEF RowsInv, RowSound
  <2>3. t \in kept
    BY <1>8, <1>13, <1>16, <2>1, <2>2 DEF Dropped
  <2>4. t \notin Integrated(kept)
    <3>1. t \notin UNION {rows[d].deletes : d \in kept}
      BY <1>3, <2>1, <2>2
    <3>2. t \notin Texts(Clean(a, since))
      BY <1>12, <1>16
    <3> HIDE DEF kept
    <3> QED BY <1>2, <2>1, <2>2, <3>1, <3>2
  <2>5. ASSUME NEW T \in SUBSET (1 .. last), Dropped(a, since) \subseteq T,
               \A q \in 1 .. last : Needs(q)' \cap T # {} => q \in T, t \notin T
        PROVE  FALSE
    <3> DEFINE rest == (1 .. n) \ T
    <3>1. rest \in SUBSET kept
      BY <2>5
    <3>2. ASSUME NEW q \in rest PROVE Needs(q) \subseteq rest
      <4>1. q \in 1 .. n /\ q \in 1 .. last /\ Needs(q)' = Needs(q)
        BY <1>0, <1>8
      <4>2. Needs(q) \cap T = {}
        BY <2>5, <4>1
      <4>3. Needs(q) \subseteq 1 .. n
        BY <1>0, <4>1, NeedsOlder
      <4> QED BY <4>2, <4>3
    <3>3. rest \subseteq Integrated(kept)
      <4> HIDE DEF rest, kept
      <4> QED BY <3>1, <3>2, IntegratedClosed
    <3>4. t \in rest
      BY <2>1, <2>2, <2>5
    <3> QED BY <2>4, <3>3, <3>4
  <2>6. t \in 1 .. last
    BY <1>0, <2>1, <2>2
  <2> QED BY <1>8, <1>13, <2>5, <2>6 DEF Dependents
<1>17. RevertExact'
  BY <1>15, <1>16 DEF RevertExact
<1> QED BY <1>11, <1>17

LEMMA RevertInductive == RevertAssumption /\ RevertInv /\ [RevertNext]_revertVars => RevertInv'
<1> SUFFICES ASSUME RevertAssumption, RevertInv, [RevertNext]_revertVars
             PROVE  RevertInv'
  OBVIOUS
<1>1. CASE \E a \in Actors, ts \in 1 .. MaxTime : \E client \in {<<Server, session>>, <<a, 0>>},
                near \in Beside, deletes \in {{}, ShownRows} : EditNote(a, ts, client, near, deletes)
  BY <1>1, EditKeeps
<1>2. CASE SaveSnapshot
  BY <1>2, SaveKeeps
<1>3. CASE LoadAgain
  BY <1>3, RevertLoadKeeps
<1>4. CASE \E a \in Actors, ts, since \in 1 .. MaxTime : RevertNote(a, ts, since)
  BY <1>4, RevertKeeps
<1>5. CASE UNCHANGED revertVars
  BY <1>5, RevertIdleKeeps
<1> QED BY <1>1, <1>2, <1>3, <1>4, <1>5 DEF RevertNext

LEMMA RevertHolds == RevertSpec => []RevertInv
<1>1. RevertInit => RevertInv
  BY RevertInitially, RevertAssumption
<1>2. RevertInv /\ [RevertNext]_revertVars => RevertInv'
  BY RevertInductive, RevertAssumption
<1> QED BY <1>1, <1>2, PTL DEF RevertSpec

\* However many edits, snapshots, loads and reverts there are, and whatever
\* the clock of the log says: every row needs and deletes older rows only, and
\* the document integrates all of them (brain/src/hub.ts, revertNote).
THEOREM RevertTyped == RevertSpec => []RevertTypeOK
<1>1. RevertInv => RevertTypeOK
  BY RevertTypes DEF RevertInv
<1> QED BY <1>1, RevertHolds, PTL

\* For any log: a revert that reports no `partial` leaves nothing the actor
\* wrote since the time asked for, but what an earlier revert wrote again, and
\* takes from the others only what depends on a row it left out.
THEOREM RevertIsExact == RevertSpec => []RevertExact
<1>1. RevertInv => RevertExact
  BY DEF RevertInv
<1> QED BY <1>1, RevertHolds, PTL

----------------------------------------------------------------------------
(* The attachments.                                                        *)

PageType == [row : BOOLEAN, draft : BOOLEAN, refs : SUBSET Hashes, writing : BOOLEAN]
UploadType == [pc : {"none", "has", "budget", "put", "held"}, blob : SUBSET Hashes]
GcType == [pc : {"none", "notes", "scan"}, hashes : SUBSET Hashes,
           todo : SUBSET Pages, referenced : SUBSET Hashes]

\* A reference a scan has to respect.
Owed(n, h) == page[n].row /\ h \in page[n].refs /\ ~page[n].writing /\ <<n, h>> \notin landed

Marked ==
  gc.pc = "scan" =>
    \A n \in Pages, h \in Hashes : Owed(n, h) => n \in gc.todo \/ h \in gc.referenced

BlobsInv == BlobsTypeOK /\ Marked

LEMMA BlobsInitially == BlobsInit => BlobsInv
  BY DEF BlobsInit, BlobsInv, BlobsTypeOK, Marked, NoPage, NoUpload, NoGc

\* An upload moves on.
LEMMA UploadTyped ==
  ASSUME BlobsTypeOK, NEW u \in Uploads, NEW q \in {"none", "has", "budget", "put", "held"},
         upload' = [upload EXCEPT ![u].pc = q]
  PROVE  upload' \in [Uploads -> UploadType]
<1>1. upload \in [Uploads -> UploadType]
  BY DEF BlobsTypeOK, UploadType
<1> QED BY <1>1 DEF UploadType

LEMMA BlobsTypeStep ==
  ASSUME BlobsTypeOK, [BlobsNext]_blobVars
  PROVE  BlobsTypeOK'
<1> USE DEF BlobsTypeOK, PageType, UploadType, GcType
<1>1. ASSUME NEW u \in Uploads, NEW h \in Hashes, Upload(u, h) PROVE BlobsTypeOK'
  BY <1>1 DEF Upload
<1>2. ASSUME NEW u \in Uploads, HasBlob(u) PROVE BlobsTypeOK'
  <2>1. upload' = [upload EXCEPT ![u].pc = IF upload[u].blob \subseteq blobs THEN "put" ELSE "budget"]
    BY <1>2 DEF HasBlob
  <2>2. upload' \in [Uploads -> UploadType]
    BY <2>1, UploadTyped
  <2> QED BY <1>2, <2>2 DEF HasBlob
<1>3. ASSUME NEW u \in Uploads, CheckBudget(u) PROVE BlobsTypeOK'
  <2>1. NoUpload \in UploadType
    BY DEF NoUpload
  <2>2. upload' \in [Uploads -> UploadType]
    BY <1>3, <2>1, UploadTyped DEF CheckBudget
  <2> QED BY <1>3, <2>2 DEF CheckBudget
<1>4. ASSUME NEW u \in Uploads, PutBlob(u) PROVE BlobsTypeOK'
  <2>1. upload' \in [Uploads -> UploadType]
    BY <1>4, UploadTyped DEF PutBlob
  <2> QED BY <1>4, <2>1 DEF PutBlob
<1>5. ASSUME NEW u \in Uploads, NEW n \in Pages, NEW draft \in BOOLEAN, WritePage(u, n, draft)
      PROVE  BlobsTypeOK'
  BY <1>5 DEF WritePage, NoUpload
<1>6. ASSUME NEW n \in Pages, IndexPage(n) PROVE BlobsTypeOK'
  <2>1. [page EXCEPT ![n].writing = FALSE] \in [Pages -> PageType]
    BY ZenonT(60)
  <2>2. page' \in [Pages -> PageType]
    BY <1>6, <2>1, ZenonT(60) DEF IndexPage
  <2> QED BY <1>6, <2>2 DEF IndexPage
<1>7. ASSUME NEW n \in Pages, DropPage(n) PROVE BlobsTypeOK'
  BY <1>7 DEF DropPage, NoPage
<1>8. ASSUME NEW n \in Pages, GcScan(n) PROVE BlobsTypeOK'
  BY <1>8 DEF GcScan
<1>9. ASSUME NEW h \in Hashes, GcDelete(h) PROVE BlobsTypeOK'
  BY <1>9 DEF GcDelete
<1>10. ASSUME NEW h \in Hashes, DeleteBlob(h) PROVE BlobsTypeOK'
  BY <1>10 DEF DeleteBlob
<1>11. CASE GcList
  BY <1>11 DEF GcList, NoGc
<1>12. CASE GcNotes
  BY <1>12 DEF GcNotes, Listed
<1>13. CASE GcEnd
  BY <1>13 DEF GcEnd, NoGc
<1>14. CASE UNCHANGED blobVars
  BY <1>14 DEF blobVars
<1> QED
  BY <1>1, <1>2, <1>3, <1>4, <1>5, <1>6, <1>7, <1>8, <1>9, <1>10, <1>11, <1>12, <1>13, <1>14
  DEF BlobsNext

\* Steps that leave the notes, the marks and what landed as they are.
LEMMA MarkedFrame ==
  ASSUME Marked, UNCHANGED <<page, landed>>,
         gc'.pc = gc.pc, gc'.todo = gc.todo, gc'.referenced = gc.referenced
  PROVE  Marked'
  BY DEF Marked, Owed

LEMMA MarkedStep ==
  ASSUME BlobsInv, [BlobsNext]_blobVars
  PROVE  Marked'
<1> USE DEF BlobsInv
<1> /\ page \in [Pages -> PageType] /\ gc \in GcType
  BY DEF BlobsTypeOK, PageType, GcType
<1>1. ASSUME UNCHANGED <<page, landed, gc>> PROVE Marked'
  BY <1>1, MarkedFrame
<1>2. ASSUME NEW u \in Uploads, NEW n \in Pages, NEW draft \in BOOLEAN, WritePage(u, n, draft)
      PROVE  Marked'
  <2> SUFFICES ASSUME gc.pc = "scan", NEW m \in Pages, NEW h \in Hashes, Owed(m, h)'
               PROVE  m \in gc.todo \/ h \in gc.referenced
    BY <1>2 DEF WritePage, Marked
  <2>1. page'[n].writing
    BY <1>2 DEF WritePage, PageType
  <2>2. m # n /\ page'[m] = page[m] /\ landed' = landed
    BY <2>1, <1>2 DEF WritePage, Owed
  <2> QED BY <2>2 DEF Owed, Marked
<1>3. ASSUME NEW n \in Pages, IndexPage(n) PROVE Marked'
  <2> SUFFICES ASSUME gc.pc = "scan", NEW m \in Pages, NEW h \in Hashes, Owed(m, h)'
               PROVE  m \in gc.todo \/ h \in gc.referenced
    BY <1>3 DEF IndexPage, Marked
  <2>1. page'[n].refs = page[n].refs /\ landed' = landed \cup {<<n, g>> : g \in page[n].refs}
    BY <1>3 DEF IndexPage, PageType
  <2>2. m # n
    BY <2>1 DEF Owed
  <2>3. page'[m] = page[m] /\ <<m, h>> \notin landed
    BY <2>1, <2>2, <1>3 DEF IndexPage, Owed
  <2> QED BY <2>3 DEF Owed, Marked
<1>4. ASSUME NEW n \in Pages, DropPage(n) PROVE Marked'
  <2> SUFFICES ASSUME gc.pc = "scan", NEW m \in Pages, NEW h \in Hashes, Owed(m, h)'
               PROVE  m \in gc.todo \/ h \in gc.referenced
    BY <1>4 DEF DropPage, Marked
  <2>1. ~page'[n].row
    BY <1>4 DEF DropPage, NoPage
  <2>2. m # n /\ page'[m] = page[m] /\ landed' = landed
    BY <2>1, <1>4 DEF DropPage, Owed
  <2> QED BY <2>2 DEF Owed, Marked
<1>5. ASSUME NEW n \in Pages, GcScan(n) PROVE Marked'
  <2> SUFFICES ASSUME NEW m \in Pages, NEW h \in Hashes, Owed(m, h)
               PROVE  m \in gc'.todo \/ h \in gc'.referenced
    BY <1>5 DEF GcScan, Marked, Owed
  <2>1. gc'.todo = gc.todo \ {n} /\ gc'.referenced = gc.referenced \cup page[n].refs
    BY <1>5 DEF GcScan, GcType
  <2>2. m \in gc.todo \/ h \in gc.referenced
    BY <1>5 DEF Marked, GcScan
  <2> QED BY <2>1, <2>2 DEF Owed
<1>6. CASE GcNotes
  <2>1. gc'.todo = {n \in Pages : page[n].row} /\ page' = page
    BY <1>6 DEF GcNotes, Listed, GcType
  <2> QED BY <2>1 DEF Marked, Owed
<1>7. CASE GcList \/ GcEnd
  <2>1. gc'.pc # "scan"
    <3>1. CASE GcList
      <4>1. gc' = [NoGc EXCEPT !.pc = "notes", !.hashes = blobs]
        BY <3>1 DEF GcList
      <4> QED BY <4>1 DEF NoGc
    <3>2. CASE GcEnd
      BY <3>2 DEF GcEnd, NoGc
    <3> QED BY <1>7, <3>1, <3>2
  <2> QED BY <2>1 DEF Marked
<1>8. ASSUME NEW h \in Hashes, GcDelete(h) PROVE Marked'
  BY <1>8, MarkedFrame DEF GcDelete, GcType
<1>9. ASSUME NEW h \in Hashes, DeleteBlob(h) PROVE Marked'
  BY <1>9, <1>1 DEF DeleteBlob
<1>10. ASSUME NEW u \in Uploads,
              (\E h \in Hashes : Upload(u, h)) \/ HasBlob(u) \/ CheckBudget(u) \/ PutBlob(u)
       PROVE  Marked'
  BY <1>10, <1>1 DEF Upload, HasBlob, CheckBudget, PutBlob
<1>11. CASE UNCHANGED blobVars
  BY <1>11, <1>1 DEF blobVars
<1> QED
  BY <1>2, <1>3, <1>4, <1>5, <1>6, <1>7, <1>8, <1>9, <1>10, <1>11 DEF BlobsNext

LEMMA BlobsInductive == BlobsInv /\ [BlobsNext]_blobVars => BlobsInv'
  BY BlobsTypeStep, MarkedStep DEF BlobsInv

\* Every reachable state is well typed (putBlob and gcBlobs of hub.ts).
THEOREM BlobsTyped == BlobsSpec => []BlobsTypeOK
<1>1. BlobsInv => BlobsTypeOK
  BY DEF BlobsInv
<1> QED BY <1>1, BlobsInitially, BlobsInductive, PTL DEF BlobsSpec

\* "We over-keep, never over-delete", for any notes, hashes and requests: what
\* the collection is about to delete is referenced by no note, drafts
\* included, but by those whose write ended while it ran.
THEOREM CollectionIsSafe == BlobsSpec => []GcSafe
<1>1. BlobsInv => GcSafe
  BY DEF BlobsInv, Marked, Owed, GcSafe, Unreferenced
<1> QED BY <1>1, BlobsInitially, BlobsInductive, PTL DEF BlobsSpec

----------------------------------------------------------------------------

\* Uploads about to store their blobs, and these blobs.
Storing == {u \in Uploads : At(u, "put")}
Brought(f, P) == UNION {f[u].blob : u \in P}
Coming == Brought(upload, Storing)

Room == BlobBudget + (Cardinality(Uploads) - 1) * MaxBlobBytes

\* An upload brings one blob, or none, within the limit of a blob.
Tiny(B) == /\ B \subseteq Hashes
           /\ \A g, h \in B : g = h
           /\ \A h \in B : Size[h] <= MaxBlobBytes

BudgetInv ==
  /\ BlobsTypeOK
  /\ IsFiniteSet(blobs)
  /\ \A u \in Uploads : Tiny(upload[u].blob)
  /\ BudgetKept

LEMMA KeptMeans == BudgetKept <=> Bytes(blobs \cup Coming) <= Room
  BY DEF BudgetKept, Coming, Brought, Storing, Room

\* The bytes of stored blobs are a number, fewer for fewer blobs.
LEMMA BytesNat ==
  ASSUME NEW S \in SUBSET Hashes, IsFiniteSet(S)
  PROVE  Bytes(S) \in Nat /\ \A T \in SUBSET S : Bytes(T) \in Nat /\ Bytes(T) <= Bytes(S)
<1>1. Size \in [Hashes -> Nat]
  BY BlobsAssumption
<1>2. Bytes(S) \in Nat
  BY <1>1, SumNat DEF Bytes
<1>3. ASSUME NEW T \in SUBSET S PROVE Bytes(T) \in Nat /\ Bytes(T) <= Bytes(S)
  <2>1. T \in SUBSET Hashes /\ IsFiniteSet(T)
    BY FS_Subset
  <2>2. Bytes(T) \in Nat
    BY <1>1, <2>1, SumNat DEF Bytes
  <2>3. Bytes(T) <= Bytes(S)
    BY <1>1, SumOfPart DEF Bytes
  <2> QED BY <2>2, <2>3
<1> QED BY <1>2, <1>3

\* One more upload brings at most a blob's limit.
LEMMA BytesOfOne ==
  ASSUME NEW S \in SUBSET Hashes, IsFiniteSet(S), NEW B, Tiny(B)
  PROVE  IsFiniteSet(S \cup B) /\ Bytes(S \cup B) <= Bytes(S) + MaxBlobBytes
<1>1. Bytes(S) \in Nat /\ MaxBlobBytes \in Nat /\ Size \in [Hashes -> Nat]
  BY BytesNat, BlobsAssumption
<1>2. CASE B \subseteq S
  <2>1. S \cup B = S
    BY <1>2
  <2> QED BY <1>1, <2>1
<1>3. CASE ~ (B \subseteq S)
  <2>1. PICK h \in B \ S : TRUE
    BY <1>3
  <2>2. S \cup B = S \cup {h} /\ h \in Hashes \ S /\ Size[h] <= MaxBlobBytes
    BY <2>1 DEF Tiny
  <2>3. IsFiniteSet(S \cup {h})
    BY FS_AddElement
  <2>4. Bytes(S \cup {h}) = Bytes(S) + Size[h]
    BY <1>1, <2>2, SumAdds DEF Bytes
  <2>5. Size[h] \in Nat
    BY <1>1, <2>2
  <2> QED BY <1>1, <2>2, <2>3, <2>4, <2>5
<1> QED BY <1>2, <1>3

\* So a number of uploads bring at most that many times the limit.
LEMMA BytesOfMany ==
  ASSUME NEW S \in SUBSET Hashes, IsFiniteSet(S), NEW f, NEW P, IsFiniteSet(P),
         \A u \in P : Tiny(f[u].blob)
  PROVE  /\ IsFiniteSet(S \cup Brought(f, P)) /\ S \cup Brought(f, P) \in SUBSET Hashes
         /\ Bytes(S \cup Brought(f, P)) <= Bytes(S) + Cardinality(P) * MaxBlobBytes
<1> DEFINE all(Q) == S \cup Brought(f, Q)
           Ok(Q, n) == IsFiniteSet(all(Q)) /\ Bytes(all(Q)) <= Bytes(S) + n * MaxBlobBytes
           N == {n \in Nat : \A Q \in SUBSET P : Cardinality(Q) = n => Ok(Q, n)}
<1>0. \A Q \in SUBSET P : all(Q) \in SUBSET Hashes
  BY DEF Tiny, Brought
<1>1. \A Q \in SUBSET P : IsFiniteSet(Q) /\ Cardinality(Q) \in Nat
  BY FS_Subset, FS_CardinalityType
<1>2. MaxBlobBytes \in Nat /\ Bytes(S) \in Nat
  BY BytesNat, BlobsAssumption
<1>3. 0 \in N
  <2> SUFFICES ASSUME NEW Q \in SUBSET P, Cardinality(Q) = 0 PROVE Ok(Q, 0)
    OBVIOUS
  <2>1. Q = {}
    BY <1>1, FS_EmptySet
  <2>2. all(Q) = S
    BY <2>1 DEF Brought
  <2> HIDE DEF all
  <2> QED BY <1>2, <2>2
<1>4. ASSUME NEW n \in N PROVE n + 1 \in N
  <2> SUFFICES ASSUME NEW Q \in SUBSET P, Cardinality(Q) = n + 1 PROVE Ok(Q, n + 1)
    OBVIOUS
  <2>0. \A T \in SUBSET P : Cardinality(T) = n => Ok(T, n)
    OBVIOUS
  <2>1. n \in Nat
    OBVIOUS
  <2>2. PICK u \in Q : TRUE
    BY <1>1, <2>1, FS_EmptySet
  <2> DEFINE R == Q \ {u}
  <2>3. R \in SUBSET P /\ Cardinality(R) = n
    <3> HIDE DEF N, Ok
    <3>1. IsFiniteSet(Q) /\ u \in Q
      BY <1>1, <2>2
    <3>2. Cardinality(R) = Cardinality(Q) - 1
      BY <3>1, FS_RemoveElement
    <3> QED BY <2>1, <3>2
  <2>4. Ok(R, n)
    <3> HIDE DEF N, Ok, R
    <3> QED BY <2>0, <2>3
  <2>5. all(Q) = all(R) \cup f[u].blob /\ Tiny(f[u].blob) /\ all(R) \in SUBSET Hashes
    BY <1>0, <2>2, <2>3 DEF Brought
  <2> HIDE DEF N, all, R
  <2>6. IsFiniteSet(all(R)) /\ Bytes(all(R)) <= Bytes(S) + n * MaxBlobBytes
    BY <2>4
  <2>7. IsFiniteSet(all(Q)) /\ Bytes(all(Q)) <= Bytes(all(R)) + MaxBlobBytes
    BY <2>5, <2>6, BytesOfOne
  <2>8. Bytes(all(R)) \in Nat /\ Bytes(all(Q)) \in Nat
    BY <1>0, <2>5, <2>6, <2>7, BytesNat
  <2>9. (n + 1) * MaxBlobBytes = n * MaxBlobBytes + MaxBlobBytes /\ n * MaxBlobBytes \in Nat
    BY <1>2, <2>1
  <2> QED BY <1>2, <2>6, <2>7, <2>8, <2>9
<1>5. N = Nat
  <2>1. N \in SUBSET Nat
    OBVIOUS
  <2> HIDE DEF N
  <2> QED BY <1>3, <1>4, <2>1, NatInd
<1>6. Ok(P, Cardinality(P))
  BY <1>1, <1>5
<1> QED BY <1>0, <1>6

LEMMA RoomNat ==
  /\ Cardinality(Uploads) \in Nat /\ Cardinality(Uploads) >= 1
  /\ Room \in Nat /\ BlobBudget \in Nat /\ MaxBlobBytes \in Nat
<1>1. Cardinality(Uploads) \in Nat /\ Cardinality(Uploads) # 0
  BY BlobsAssumption, FS_CardinalityType, FS_EmptySet
<1>2. \A k, m \in Nat : k * m \in Nat
  OBVIOUS
<1>3. Cardinality(Uploads) - 1 \in Nat
  BY <1>1
<1> QED BY <1>1, <1>2, <1>3, BlobsAssumption DEF Room

\* Of all that is stored or about to be, its bytes.
LEMMA AllBytes ==
  ASSUME BudgetInv
  PROVE  /\ blobs \cup Coming \in SUBSET Hashes /\ IsFiniteSet(blobs \cup Coming)
         /\ Bytes(blobs \cup Coming) \in Nat
<1>1. blobs \in SUBSET Hashes /\ IsFiniteSet(blobs) /\ Storing \subseteq Uploads
      /\ \A u \in Storing : Tiny(upload[u].blob)
  BY DEF BudgetInv, BlobsTypeOK, Storing
<1>2. IsFiniteSet(Storing)
  BY <1>1, FS_Subset, BlobsAssumption
<1>3. blobs \cup Coming \in SUBSET Hashes /\ IsFiniteSet(blobs \cup Coming)
  BY <1>1, <1>2, BytesOfMany DEF Coming
<1> QED BY <1>3, BytesNat

LEMMA BudgetInitially == BlobsInit => BudgetInv
<1> SUFFICES ASSUME BlobsInit PROVE BudgetInv
  OBVIOUS
<1>1. BlobsTypeOK
  BY BlobsInitially DEF BlobsInv
<1>2. blobs = {} /\ \A u \in Uploads : upload[u].blob = {} /\ upload[u].pc = "none"
  BY DEF BlobsInit, NoUpload
<1>3. IsFiniteSet(blobs) /\ \A u \in Uploads : Tiny(upload[u].blob)
  BY <1>2, FS_EmptySet DEF Tiny
<1>4. blobs \cup Coming = {}
  BY <1>2 DEF Coming, Brought, Storing, At
<1>5. Bytes(blobs \cup Coming) = 0
  BY <1>4, SumOfNone, BlobsAssumption DEF Bytes
<1>6. BudgetKept
  BY <1>5, RoomNat, KeptMeans
<1> QED BY <1>1, <1>3, <1>6 DEF BudgetInv

\* Steps after which no blob is stored, or about to be, that was not before:
\* all but the check that lets a blob in.
LEMMA BudgetFrame ==
  ASSUME BudgetInv, BlobsTypeOK', blobs' \subseteq blobs \cup Coming,
         \A u \in Uploads : /\ At(u, "put")' => upload'[u].blob \subseteq blobs \cup Coming
                            /\ upload'[u].blob \subseteq upload[u].blob \/ Tiny(upload'[u].blob)
  PROVE  BudgetInv'
<1>1. IsFiniteSet(blobs')
  BY AllBytes, FS_Subset
<1>2. \A u \in Uploads : Tiny(upload'[u].blob)
  BY DEF BudgetInv, Tiny
<1>3. blobs' \cup Coming' \in SUBSET (blobs \cup Coming)
  BY DEF Coming, Brought, Storing
<1>4. Bytes(blobs' \cup Coming') \in Nat /\ Bytes(blobs' \cup Coming') <= Bytes(blobs \cup Coming)
  BY <1>3, AllBytes, BytesNat
<1>5. Bytes(blobs \cup Coming) <= Room
  BY KeptMeans DEF BudgetInv
<1>6. Bytes(blobs' \cup Coming') <= Room
  BY <1>4, <1>5, AllBytes, RoomNat
<1>7. BudgetKept'
  <2>1. BudgetKept' <=> Bytes(blobs' \cup Coming') <= Room
    BY DEF BudgetKept, Coming, Brought, Storing, Room, Bytes
  <2> QED BY <1>6, <2>1
<1> QED BY <1>1, <1>2, <1>7 DEF BudgetInv, Tiny

\* A blob let in fits beside what is stored; each of the other uploads about
\* to store brings no more than a blob's limit.
LEMMA BudgetChecked ==
  ASSUME BudgetInv, BlobsTypeOK', NEW u \in Uploads, CheckBudget(u), \A h \in upload[u].blob : Fits(h)
  PROVE  BudgetInv'
<1> DEFINE P == Storing \ {u}
           S == blobs \cup upload[u].blob
<1>1. /\ blobs' = blobs /\ ~At(u, "put")
      /\ \A v \in Uploads : upload'[v].blob = upload[v].blob
      /\ Storing' = Storing \cup {u}
  BY DEF CheckBudget, BudgetInv, BlobsTypeOK, At, Storing
<1>2. /\ P \in SUBSET Uploads /\ IsFiniteSet(P) /\ Cardinality(P) \in Nat
      /\ Cardinality(P) <= Cardinality(Uploads) - 1
  <2>1. P \subseteq Uploads \ {u} /\ IsFiniteSet(Uploads \ {u})
        /\ Cardinality(Uploads \ {u}) = Cardinality(Uploads) - 1
    BY BlobsAssumption, FS_RemoveElement DEF Storing
  <2> HIDE DEF P
  <2>2. IsFiniteSet(P) /\ Cardinality(P) <= Cardinality(Uploads \ {u})
    BY <2>1, FS_Subset
  <2> QED BY <2>1, <2>2, FS_CardinalityType
<1>3. blobs \in SUBSET Hashes /\ IsFiniteSet(blobs) /\ \A v \in Uploads : Tiny(upload[v].blob)
  BY DEF BudgetInv, BlobsTypeOK
<1>4. S \in SUBSET Hashes /\ IsFiniteSet(S)
  BY <1>3, BytesOfOne DEF Tiny
<1>5. CASE upload[u].blob \subseteq blobs
  <2>1. \A v \in Uploads : At(v, "put")' => v = u \/ v \in Storing
    BY <1>1 DEF Storing
  <2> QED BY <1>1, <1>5, <2>1, BudgetFrame DEF Coming, Brought
<1>6. CASE ~ (upload[u].blob \subseteq blobs)
  <2>1. Bytes(S) <= BlobBudget /\ Bytes(S) \in Nat
    <3>1. PICK h \in upload[u].blob \ blobs : TRUE
      BY <1>6
    <3>2. S = blobs \cup {h} /\ h \in Hashes \ blobs /\ Fits(h)
      BY <1>3, <3>1 DEF Tiny
    <3>3. Bytes(blobs \cup {h}) = Bytes(blobs) + Size[h]
      BY <1>3, <3>2, SumAdds, BlobsAssumption DEF Bytes
    <3>4. Bytes(S) \in Nat
      BY <1>4, BytesNat
    <3> QED BY <3>2, <3>3, <3>4 DEF Fits
  <2> DEFINE all == S \cup Brought(upload, P)
  <2>2. \A v \in P : Tiny(upload[v].blob)
    BY <1>2, <1>3
  <2> HIDE DEF P, S
  <2>3. all \in SUBSET Hashes /\ IsFiniteSet(all) /\ Bytes(all) <= Bytes(S) + Cardinality(P) * MaxBlobBytes
    BY <1>2, <1>4, <2>2, BytesOfMany
  <2>4. Bytes(all) \in Nat
    BY <2>3, BytesNat
  <2>5. \A k, m, c \in Nat : k <= m => k * c <= m * c
    OBVIOUS
  <2>6. Cardinality(P) * MaxBlobBytes <= (Cardinality(Uploads) - 1) * MaxBlobBytes
    <3>1. Cardinality(Uploads) - 1 \in Nat
      BY RoomNat
    <3> QED BY <1>2, <2>5, <3>1, RoomNat
  <2>7. Bytes(all) <= Room
    <3>1. /\ Cardinality(P) * MaxBlobBytes \in Nat
          /\ (Cardinality(Uploads) - 1) * MaxBlobBytes \in Nat
      BY <1>2, RoomNat
    <3> QED BY <2>1, <2>3, <2>4, <2>6, <3>1, RoomNat DEF Room
  <2>8. blobs' \cup Coming' = all
    <3>1. Coming' = UNION {upload[v].blob : v \in P \cup {u}}
      BY <1>1 DEF Coming, Brought, Storing, P
    <3> QED BY <1>1, <3>1 DEF Brought, S
  <2>9. BudgetKept' <=> Bytes(blobs' \cup Coming') <= Room
    BY DEF BudgetKept, Coming, Brought, Storing, Room, Bytes
  <2>10. BudgetKept'
    BY <2>7, <2>8, <2>9
  <2> QED BY <1>1, <1>3, <2>10 DEF BudgetInv, Tiny
<1> QED BY <1>5, <1>6

LEMMA BudgetStep ==
  ASSUME BudgetInv, [BlobsNext]_blobVars
  PROVE  BudgetInv'
<1>0. BlobsTypeOK'
  BY BlobsTypeStep DEF BudgetInv
<1>a. upload \in [Uploads -> UploadType] /\ \A u \in Uploads : Tiny(upload[u].blob)
  BY DEF BudgetInv, BlobsTypeOK, UploadType
<1>b. \A u \in Storing : upload[u].blob \subseteq Coming
  BY DEF Coming, Brought
<1>1. ASSUME blobs' \subseteq blobs, upload' = upload PROVE BudgetInv'
  BY <1>0, <1>1, <1>b, BudgetFrame DEF Storing, At
\* A step of one upload, which is not about to store a blob that was not there.
<1>c. ASSUME NEW u \in Uploads, blobs' \subseteq blobs \cup Coming,
             \A v \in Uploads \ {u} : upload'[v] = upload[v], Tiny(upload'[u].blob),
             upload'[u].pc = "put" => upload'[u].blob \subseteq blobs
      PROVE  BudgetInv'
  <2>1. ASSUME NEW v \in Uploads, At(v, "put")' PROVE upload'[v].blob \subseteq blobs \cup Coming
    <3>1. CASE v = u
      BY <1>c, <2>1, <3>1 DEF At
    <3>2. CASE v # u
      BY <1>c, <1>b, <2>1, <3>2 DEF At, Storing
    <3> QED BY <3>1, <3>2
  <2>2. \A v \in Uploads : upload'[v].blob \subseteq upload[v].blob \/ Tiny(upload'[v].blob)
    BY <1>c
  <2> QED BY <1>0, <1>c, <2>1, <2>2, BudgetFrame
<1>2. ASSUME NEW u \in Uploads, NEW h \in Hashes, Upload(u, h) PROVE BudgetInv'
  <2>1. /\ blobs' = blobs /\ \A v \in Uploads \ {u} : upload'[v] = upload[v]
        /\ upload'[u].blob = {h} /\ upload'[u].pc = "has"
    BY <1>2, <1>a DEF Upload
  <2>2. Tiny({h})
    BY <1>2, BlobsAssumption DEF Upload, Tiny
  <2> QED BY <2>1, <2>2, <1>c
<1>3. ASSUME NEW u \in Uploads, HasBlob(u) PROVE BudgetInv'
  <2>1. /\ blobs' = blobs /\ \A v \in Uploads \ {u} : upload'[v] = upload[v]
        /\ upload'[u].blob = upload[u].blob
        /\ upload'[u].pc = "put" => upload[u].blob \subseteq blobs
    BY <1>3, <1>a DEF HasBlob, UploadType
  <2> QED BY <1>a, <1>c, <2>1
<1>4. ASSUME NEW u \in Uploads, CheckBudget(u) PROVE BudgetInv'
  <2>1. CASE \A h \in upload[u].blob : Fits(h)
    BY <1>0, <1>4, <2>1, BudgetChecked
  <2>2. CASE ~ \A h \in upload[u].blob : Fits(h)
    <3>1. /\ blobs' = blobs /\ \A v \in Uploads \ {u} : upload'[v] = upload[v]
          /\ upload'[u].blob = {} /\ upload'[u].pc = "none"
      BY <1>4, <1>a, <2>2 DEF CheckBudget, NoUpload
    <3>2. Tiny({})
      BY DEF Tiny
    <3> QED BY <1>c, <3>1, <3>2
  <2> QED BY <2>1, <2>2
<1>5. ASSUME NEW u \in Uploads, PutBlob(u) PROVE BudgetInv'
  <2>1. /\ blobs' = blobs \cup upload[u].blob /\ u \in Storing
        /\ \A v \in Uploads \ {u} : upload'[v] = upload[v]
        /\ upload'[u].blob = upload[u].blob /\ upload'[u].pc = "held"
    BY <1>5, <1>a DEF PutBlob, Storing, UploadType
  <2> QED BY <1>a, <1>b, <1>c, <2>1
<1>6. ASSUME NEW u \in Uploads, NEW n \in Pages, NEW draft \in BOOLEAN, WritePage(u, n, draft)
      PROVE  BudgetInv'
  <2>1. /\ blobs' = blobs /\ \A v \in Uploads \ {u} : upload'[v] = upload[v]
        /\ upload'[u].blob = {} /\ upload'[u].pc = "none"
    BY <1>6, <1>a DEF WritePage, NoUpload
  <2>2. Tiny({})
    BY DEF Tiny
  <2> QED BY <1>c, <2>1, <2>2
<1>7. ASSUME NEW h \in Hashes, GcDelete(h) \/ DeleteBlob(h) PROVE BudgetInv'
  BY <1>7, <1>1 DEF GcDelete, DeleteBlob
<1>8. ASSUME NEW n \in Pages, IndexPage(n) \/ DropPage(n) \/ GcScan(n) PROVE BudgetInv'
  BY <1>8, <1>1 DEF IndexPage, DropPage, GcScan
<1>9. CASE GcList \/ GcNotes \/ GcEnd
  BY <1>9, <1>1 DEF GcList, GcNotes, GcEnd
<1>10. CASE UNCHANGED blobVars
  BY <1>10, <1>1 DEF blobVars
<1> QED
  BY <1>2, <1>3, <1>4, <1>5, <1>6, <1>7, <1>8, <1>9, <1>10 DEF BlobsNext

\* Uploads that pass the check together (putBlob of hub.ts awaits the store
\* between its check and its store) pass the budget by at most a blob for each
\* one beside the first, for any number of them and whatever is deleted.
THEOREM BudgetIsKept == BlobsSpec => []BudgetKept
<1>1. BudgetInv /\ [BlobsNext]_blobVars => BudgetInv'
  BY BudgetStep
<1>2. BudgetInv => BudgetKept
  BY DEF BudgetInv
<1> QED BY <1>1, <1>2, BudgetInitially, PTL DEF BlobsSpec

----------------------------------------------------------------------------
(* The rate limiter.                                                       *)

\* What the granted requests leave of the bound.
Allowance(k) ==
  LET left == Refilled(buckets[k]) IN
  IF buckets[k].held
  THEN /\ spent[k] + 2 * left + Token <= 2 * Capacity + 2 * forward
       /\ spent[k] + left <= Capacity + 2 * forward
  ELSE spent[k] <= 2 * forward

LimiterInv == LimiterTypeOK /\ \A k \in Keys : Allowance(k)

\* What a bucket holds is within its capacity.
LEMMA RefilledRange ==
  ASSUME LimiterTypeOK, NEW k \in Keys
  PROVE  Refilled(buckets[k]) \in 0 .. Capacity
  BY LimiterAssumption DEF LimiterTypeOK, Refilled, Lesser, Elapsed

\* No time has passed for an entry just written.
LEMMA RefilledNow ==
  ASSUME NEW t \in 0 .. Capacity, NEW now \in Nat, clock = now
  PROVE  Refilled([held |-> TRUE, tokens |-> t, last |-> now]) = t
  BY LimiterAssumption DEF Refilled, Lesser, Elapsed

LEMMA LimiterInitially == LimiterInit => LimiterInv
  BY LimiterAssumption DEF LimiterInit, LimiterInv, LimiterTypeOK, Allowance, Fresh

LEMMA LimiterTypeStep ==
  ASSUME LimiterTypeOK, [LimiterNext]_limiterVars
  PROVE  LimiterTypeOK'
<1>1. CASE UNCHANGED limiterVars
  BY <1>1 DEF LimiterTypeOK, limiterVars
<1>2. CASE Tick
  BY <1>2, LimiterAssumption DEF Tick, LimiterTypeOK
<1>3. ASSUME NEW k \in Keys, Allow(k)
      PROVE  LimiterTypeOK'
  <2> DEFINE left == Refilled(buckets[k])
             cost == IF left >= Token THEN Token ELSE 0
  <2>1. left \in 0 .. Capacity /\ cost \in Nat /\ left - cost \in 0 .. Capacity
    BY RefilledRange, LimiterAssumption
  <2>2. spent' \in [Keys -> Nat]
    BY <2>1, <1>3 DEF Allow, LimiterTypeOK
  <2>3. Fresh(0) \in [held : BOOLEAN, tokens : 0 .. Capacity, last : Nat]
    BY LimiterAssumption DEF Fresh
  <2>4. [held |-> TRUE, tokens |-> left - cost, last |-> clock]
          \in [held : BOOLEAN, tokens : 0 .. Capacity, last : Nat]
    BY <2>1 DEF LimiterTypeOK
  <2> HIDE DEF left, cost
  <2>5. buckets' = [buckets EXCEPT ![k] =
          IF buckets[k].held /\ left >= Capacity THEN Fresh(0)
          ELSE [held |-> TRUE, tokens |-> left - cost, last |-> clock]]
    BY <1>3 DEF Allow, left, cost
  <2>6. buckets' \in [Keys -> [held : BOOLEAN, tokens : 0 .. Capacity, last : Nat]]
    BY <2>3, <2>4, <2>5 DEF LimiterTypeOK
  <2> QED BY <1>3, <2>2, <2>6 DEF Allow, LimiterTypeOK
<1> QED BY <1>1, <1>2, <1>3 DEF LimiterNext

\* Time: the bucket gains what the clock moves forward, at most.
LEMMA TickKeeps ==
  ASSUME LimiterInv, Tick, NEW k \in Keys
  PROVE  Allowance(k)'
<1> DEFINE b == buckets[k]
<1>1. b \in [held : BOOLEAN, tokens : 0 .. Capacity, last : Nat] /\ b' = b
  BY DEF LimiterInv, LimiterTypeOK, Tick
<1>2. spent[k] \in Nat /\ spent'[k] = spent[k] /\ clock \in Nat /\ forward \in Nat
  BY DEF LimiterInv, LimiterTypeOK, Tick
<1>3. PICK j \in Jumps : /\ clock' = clock + j
                         /\ forward' = IF j > 0 THEN forward + j ELSE forward
  BY DEF Tick
<1>4. j \in Int /\ Capacity \in Nat /\ Token \in Nat
  BY LimiterAssumption
<1>5. Refilled(b)' <= Refilled(b) + (forward' - forward)
  BY <1>1, <1>2, <1>3, <1>4 DEF Refilled, Lesser, Elapsed
<1>6. Refilled(b) \in 0 .. Capacity /\ Refilled(b)' \in 0 .. Capacity
  <2>1. LimiterTypeOK'
    BY LimiterTypeStep DEF LimiterInv, LimiterNext
  <2> QED BY <2>1, <1>1, RefilledRange, <1>2, <1>3, <1>4 DEF LimiterInv, LimiterTypeOK, Refilled, Lesser, Elapsed
<1>7. forward' \in Nat /\ forward' >= forward
  BY <1>2, <1>3, <1>4
<1>8. Allowance(k)
  BY DEF LimiterInv
<1> QED BY <1>1, <1>2, <1>4, <1>5, <1>6, <1>7, <1>8 DEF Allowance

\* A request: of a key without an entry, of a bucket that is full, or other.
LEMMA AllowKeeps ==
  ASSUME LimiterInv, NEW k \in Keys, Allow(k)
  PROVE  Allowance(k)'
<1> DEFINE b == buckets[k]
           left == Refilled(b)
           cost == IF left >= Token THEN Token ELSE 0
<1>1. b \in [held : BOOLEAN, tokens : 0 .. Capacity, last : Nat]
  BY DEF LimiterInv, LimiterTypeOK
<1>2. spent[k] \in Nat /\ clock \in Nat /\ forward \in Nat /\ clock' = clock /\ forward' = forward
  BY DEF LimiterInv, LimiterTypeOK, Allow
<1>3. left \in 0 .. Capacity /\ Capacity \in Nat /\ Token \in Nat /\ Capacity >= Token
  BY RefilledRange, LimiterAssumption DEF LimiterInv
<1>4. spent'[k] = spent[k] + cost
  BY DEF Allow, LimiterInv, LimiterTypeOK
<1>5. buckets'[k] = IF b.held /\ left >= Capacity THEN Fresh(0)
                    ELSE [held |-> TRUE, tokens |-> left - cost, last |-> clock]
  BY DEF Allow, LimiterInv, LimiterTypeOK
<1>6. Allowance(k)
  BY DEF LimiterInv
<1>7. CASE b.held /\ left >= Capacity
  <2>1. ~buckets'[k].held
    BY <1>5, <1>7 DEF Fresh
  <2>2. spent[k] + 2 * left + Token <= 2 * Capacity + 2 * forward
    BY <1>6, <1>7 DEF Allowance
  <2>3. spent[k] + cost <= 2 * forward
    BY <2>2, <1>7, <1>2, <1>3
  <2> QED BY <2>1, <2>3, <1>2, <1>4 DEF Allowance
<1>8. CASE ~(b.held /\ left >= Capacity)
  <2>1. buckets'[k] = [held |-> TRUE, tokens |-> left - cost, last |-> clock]
    BY <1>5, <1>8
  <2>2. left - cost \in 0 .. Capacity /\ cost \in 0 .. Token
    BY <1>3
  <2>3. Refilled(b)' = left - cost
    BY <2>1, <2>2, <1>2, <1>3 DEF Refilled, Lesser, Elapsed
  <2>4. CASE b.held
    <3>1. /\ spent[k] + 2 * left + Token <= 2 * Capacity + 2 * forward
          /\ spent[k] + left <= Capacity + 2 * forward
      BY <1>6, <2>4 DEF Allowance
    <3> HIDE DEF left, cost
    <3> QED BY <2>1, <2>2, <2>3, <3>1, <1>2, <1>3, <1>4 DEF Allowance
  <2>5. CASE ~b.held
    <3>1. left = Capacity /\ cost = Token /\ spent[k] <= 2 * forward
      BY <2>5, <1>6, <1>3 DEF Allowance, Refilled
    <3> HIDE DEF left, cost
    <3> QED BY <2>1, <2>2, <2>3, <3>1, <1>2, <1>3, <1>4 DEF Allowance
  <2> QED BY <2>4, <2>5
<1> QED BY <1>7, <1>8

\* The other keys' buckets are not touched.
LEMMA OthersKeep ==
  ASSUME LimiterInv, NEW k \in Keys, Allow(k), NEW other \in Keys \ {k}
  PROVE  Allowance(other)'
<1>1. buckets'[other] = buckets[other] /\ spent'[other] = spent[other]
      /\ clock' = clock /\ forward' = forward
  BY DEF Allow, LimiterInv, LimiterTypeOK
<1>2. Allowance(other)
  BY DEF LimiterInv
<1> QED BY <1>1, <1>2 DEF Allowance, Refilled, Elapsed

LEMMA LimiterInductive == LimiterInv /\ [LimiterNext]_limiterVars => LimiterInv'
<1> SUFFICES ASSUME LimiterInv, [LimiterNext]_limiterVars PROVE LimiterInv'
  OBVIOUS
<1>1. LimiterTypeOK'
  BY LimiterTypeStep DEF LimiterInv
<1>2. ASSUME NEW k \in Keys PROVE Allowance(k)'
  <2>1. CASE UNCHANGED limiterVars
    BY <2>1 DEF LimiterInv, limiterVars, Allowance, Refilled, Elapsed
  <2>2. CASE Tick
    BY <2>2, TickKeeps
  <2>3. ASSUME NEW u \in Keys, Allow(u) PROVE Allowance(k)'
    BY <2>3, AllowKeeps, OthersKeep
  <2> QED BY <2>1, <2>2, <2>3 DEF LimiterNext
<1> QED BY <1>1, <1>2 DEF LimiterInv

\* Every reachable state is well typed: no bucket holds a negative number of
\* tokens, or more than its capacity, whatever the clock does.
THEOREM LimiterTyped == LimiterSpec => []LimiterTypeOK
<1>1. LimiterInit => LimiterInv
  BY LimiterInitially
<1>2. LimiterInv => LimiterTypeOK
  BY DEF LimiterInv
<1> QED BY <1>1, <1>2, LimiterInductive, PTL DEF LimiterSpec

\* For any burst, cost and steps of the clock, a key is granted no more than
\* its burst and twice what the time refills.
THEOREM RateIsBounded == LimiterSpec => []RateBounded
<1>1. LimiterInit => LimiterInv
  BY LimiterInitially
<1>2. LimiterInv => RateBounded
  <2> SUFFICES ASSUME LimiterInv, NEW k \in Keys PROVE spent[k] <= Capacity + 2 * forward
    BY DEF RateBounded
  <2>1. Refilled(buckets[k]) \in 0 .. Capacity
    BY RefilledRange DEF LimiterInv
  <2>2. Allowance(k) /\ spent[k] \in Nat /\ forward \in Nat /\ Capacity \in Nat
    BY LimiterAssumption DEF LimiterInv, LimiterTypeOK
  <2> QED BY <2>1, <2>2 DEF Allowance
<1> QED BY <1>1, <1>2, LimiterInductive, PTL DEF LimiterSpec

----------------------------------------------------------------------------
(* The text diff: the texts.                                               *)

Unit == Plain \cup High \cup Low

\* What Text has for n, by what g has for n - 1.
TextStep(n, g) == IF n = 0 THEN {<<>>} ELSE Longer(g[n - 1])
TextUpto(n, g) == \A m \in 0 .. n : g[m] = TextStep(m, g)

LEMMA TextUptoExists == ASSUME NEW n \in Nat PROVE \E g : TextUpto(n, g)
<1> DEFINE N == {m \in Nat : \E g : TextUpto(m, g)}
<1>1. 0 \in N
  <2> DEFINE g == [m \in Nat |-> {<<>>}]
  <2>1. TextUpto(0, g)
    BY DEF TextUpto, TextStep
  <2> QED BY <2>1
<1>2. ASSUME NEW m \in N PROVE m + 1 \in N
  <2>1. m \in Nat /\ m + 1 \in Nat
    OBVIOUS
  <2>2. PICK g : TextUpto(m, g)
    OBVIOUS
  <2> DEFINE h == [k \in Nat |-> TextStep(k, g)]
  <2>3. ASSUME NEW k \in 0 .. m + 1 PROVE h[k] = TextStep(k, h)
    <3>1. k \in Nat
      OBVIOUS
    <3>2. CASE k = 0
      BY <3>2 DEF TextStep
    <3>3. CASE k # 0
      <4>1. k - 1 \in 0 .. m /\ k - 1 \in Nat
        BY <2>1, <3>1, <3>3
      <4>2. h[k - 1] = g[k - 1]
        BY <2>2, <4>1 DEF TextUpto
      <4> QED BY <3>1, <4>2 DEF TextStep
    <3> QED BY <3>2, <3>3
  <2>4. TextUpto(m + 1, h)
    BY <2>3 DEF TextUpto
  <2> HIDE DEF h
  <2> QED BY <2>1, <2>4
<1>3. N = Nat
  <2>1. N \in SUBSET Nat
    OBVIOUS
  <2> HIDE DEF N
  <2> QED BY <1>1, <1>2, <2>1, NatInd
<1> QED BY <1>3

LEMMA TextUptoUnique ==
  ASSUME NEW n \in Nat, NEW g, TextUpto(n, g), NEW k \in Nat, n <= k, NEW h, TextUpto(k, h)
  PROVE  g[n] = h[n]
<1> DEFINE N == {m \in Nat : m <= n => g[m] = h[m]}
<1>1. 0 \in N
  BY DEF TextUpto, TextStep
<1>2. ASSUME NEW m \in N PROVE m + 1 \in N
  <2>1. m \in Nat /\ m + 1 \in Nat /\ m + 1 # 0 /\ (m + 1) - 1 = m
    OBVIOUS
  <2>2. ASSUME m + 1 <= n PROVE g[m + 1] = h[m + 1]
    <3>1. m + 1 \in 0 .. n /\ m + 1 \in 0 .. k /\ g[m] = h[m]
      BY <2>1, <2>2
    <3>2. g[m + 1] = TextStep(m + 1, g) /\ h[m + 1] = TextStep(m + 1, h)
      BY <3>1 DEF TextUpto
    <3> QED BY <2>1, <3>1, <3>2 DEF TextStep
  <2> QED BY <2>1, <2>2
<1>3. N = Nat
  <2>1. N \in SUBSET Nat
    OBVIOUS
  <2> HIDE DEF N
  <2> QED BY <1>1, <1>2, <2>1, NatInd
<1> QED BY <1>3

LEMMA TextUnfolds == \A n \in Nat : Text[n] = IF n = 0 THEN {<<>>} ELSE Longer(Text[n - 1])
<1> DEFINE G(n) == CHOOSE g : TextUpto(n, g)
           F == [n \in Nat |-> G(n)[n]]
<1>1. \A n \in Nat : TextUpto(n, G(n))
  BY TextUptoExists
<1>2. ASSUME NEW n \in Nat PROVE F[n] = TextStep(n, F)
  <2>1. F[n] = TextStep(n, G(n))
    BY <1>1 DEF TextUpto
  <2>2. CASE n = 0
    BY <2>1, <2>2 DEF TextStep
  <2>3. CASE n # 0
    <3>1. n - 1 \in Nat /\ n - 1 <= n
      BY <2>3
    <3>2. G(n - 1)[n - 1] = G(n)[n - 1]
      <4> HIDE DEF G
      <4> QED BY <1>1, <3>1, TextUptoUnique
    <3>3. F[n - 1] = G(n)[n - 1]
      BY <3>1, <3>2
    <3> QED BY <2>1, <3>3 DEF TextStep
  <2> QED BY <2>2, <2>3
<1>3. F = [n \in Nat |-> IF n = 0 THEN {<<>>} ELSE Longer(F[n - 1])]
  <2>1. F = [n \in Nat |-> F[n]]
    OBVIOUS
  <2> HIDE DEF F
  <2> QED BY <1>2, <2>1 DEF TextStep
<1>4. Text = [n \in Nat |-> IF n = 0 THEN {<<>>} ELSE Longer(Text[n - 1])]
  <2> HIDE DEF F
  <2> QED BY <1>3 DEF Text
<1> QED BY <1>4

Whole(s) == s \in Seq(Unit) /\ WholeCharacters(s)

LEMMA Joined ==
  ASSUME NEW U, NEW s \in Seq(U), NEW c \in Seq(U)
  PROVE  /\ s \o c \in Seq(U) /\ Len(s \o c) = Len(s) + Len(c)
         /\ \A k \in 1 .. Len(s) : (s \o c)[k] = s[k]
         /\ \A k \in 1 .. Len(c) : (s \o c)[Len(s) + k] = c[k]
  OBVIOUS

LEMMA CharacterWhole ==
  ASSUME NEW t, Whole(t), NEW c \in Character
  PROVE  Whole(t \o c)
<1>1. t \in Seq(Unit) /\ Len(t) \in Nat
  BY DEF Whole
<1>2. CASE \E p \in Plain : c = <<p>>
  <2>1. PICK p \in Plain : c = <<p>>
    BY <1>2
  <2>2. c \in Seq(Unit) /\ Len(c) = 1 /\ c[1] = p
    BY <2>1 DEF Unit
  <2>3. t \o c \in Seq(Unit) /\ Len(t \o c) = Len(t) + 1
        /\ (\A k \in 1 .. Len(t) : (t \o c)[k] = t[k]) /\ (t \o c)[Len(t) + 1] = p
    <3>1. /\ t \o c \in Seq(Unit) /\ Len(t \o c) = Len(t) + Len(c)
          /\ \A k \in 1 .. Len(t) : (t \o c)[k] = t[k]
          /\ \A k \in 1 .. Len(c) : (t \o c)[Len(t) + k] = c[k]
      <4>1. t \in Seq(Unit) /\ c \in Seq(Unit)
        BY <1>1, <2>2
      <4> QED BY <4>1, Joined
    <3>2. 1 \in 1 .. Len(c)
      BY <2>2
    <3>3. (t \o c)[Len(t) + 1] = c[1]
      BY <3>1, <3>2
    <3> QED BY <2>2, <3>1, <3>3
  <2>4. p \notin High /\ p \notin Low
    BY DiffAssumption
  <2>5. ASSUME NEW k \in 1 .. Len(t) + 1
        PROVE  /\ (t \o c)[k] \in High => k < Len(t) + 1 /\ (t \o c)[k + 1] \in Low
               /\ (t \o c)[k] \in Low => k > 1 /\ (t \o c)[k - 1] \in High
    <3>1. CASE k = Len(t) + 1
      BY <2>3, <2>4, <3>1
    <3>2. CASE k \in 1 .. Len(t)
      <4>1. /\ t[k] \in High => k < Len(t) /\ t[k + 1] \in Low
            /\ t[k] \in Low => k > 1 /\ t[k - 1] \in High
        BY <3>2 DEF Whole, WholeCharacters
      <4>2. k < Len(t) => k + 1 \in 1 .. Len(t)
        BY <1>1, <3>2
      <4>3. k > 1 => k - 1 \in 1 .. Len(t)
        BY <1>1, <3>2
      <4> QED BY <1>1, <2>3, <3>2, <4>1, <4>2, <4>3
    <3>3. k = Len(t) + 1 \/ k \in 1 .. Len(t)
      BY <1>1
    <3> QED BY <3>1, <3>2, <3>3
  <2> QED BY <2>3, <2>5 DEF Whole, WholeCharacters
<1>3. CASE \E hi \in High, lo \in Low : c = <<hi, lo>>
  <2>1. PICK hi \in High, lo \in Low : c = <<hi, lo>>
    BY <1>3
  <2>2. c \in Seq(Unit) /\ Len(c) = 2 /\ c[1] = hi /\ c[2] = lo
    BY <2>1 DEF Unit
  <2>3. t \o c \in Seq(Unit) /\ Len(t \o c) = Len(t) + 2
        /\ (\A k \in 1 .. Len(t) : (t \o c)[k] = t[k])
        /\ (t \o c)[Len(t) + 1] = hi /\ (t \o c)[Len(t) + 2] = lo
    <3>1. /\ t \o c \in Seq(Unit) /\ Len(t \o c) = Len(t) + Len(c)
          /\ \A k \in 1 .. Len(t) : (t \o c)[k] = t[k]
          /\ \A k \in 1 .. Len(c) : (t \o c)[Len(t) + k] = c[k]
      <4>1. t \in Seq(Unit) /\ c \in Seq(Unit)
        BY <1>1, <2>2
      <4> QED BY <4>1, Joined
    <3>2. 1 \in 1 .. Len(c) /\ 2 \in 1 .. Len(c)
      BY <2>2
    <3>3. (t \o c)[Len(t) + 1] = c[1]
      BY <3>1, <3>2
    <3>4. (t \o c)[Len(t) + 2] = c[2]
      BY <3>1, <3>2
    <3> QED BY <2>2, <3>1, <3>3, <3>4
  <2>4. hi \notin Low /\ lo \notin High
    BY DiffAssumption
  <2>5. ASSUME NEW k \in 1 .. Len(t) + 2
        PROVE  /\ (t \o c)[k] \in High => k < Len(t) + 2 /\ (t \o c)[k + 1] \in Low
               /\ (t \o c)[k] \in Low => k > 1 /\ (t \o c)[k - 1] \in High
    <3>1. CASE k = Len(t) + 1
      <4>1. k + 1 = Len(t) + 2 /\ k < Len(t) + 2
        BY <1>1, <3>1
      <4> QED BY <2>3, <2>4, <3>1, <4>1
    <3>2. CASE k = Len(t) + 2
      <4>1. k - 1 = Len(t) + 1 /\ k > 1
        BY <1>1, <3>2
      <4> QED BY <2>3, <2>4, <3>2, <4>1
    <3>3. CASE k \in 1 .. Len(t)
      <4>1. /\ t[k] \in High => k < Len(t) /\ t[k + 1] \in Low
            /\ t[k] \in Low => k > 1 /\ t[k - 1] \in High
        BY <3>3 DEF Whole, WholeCharacters
      <4>2. k < Len(t) => k + 1 \in 1 .. Len(t)
        BY <1>1, <3>3
      <4>3. k > 1 => k - 1 \in 1 .. Len(t)
        BY <1>1, <3>3
      <4> QED BY <1>1, <2>3, <3>3, <4>1, <4>2, <4>3
    <3>4. k = Len(t) + 1 \/ k = Len(t) + 2 \/ k \in 1 .. Len(t)
      BY <1>1
    <3> QED BY <3>1, <3>2, <3>3, <3>4
  <2> QED BY <2>3, <2>5 DEF Whole, WholeCharacters
<1> QED BY <1>2, <1>3 DEF Character

LEMMA TextsWhole == ASSUME NEW n \in Nat, NEW t \in Text[n] PROVE Whole(t)
<1> DEFINE N == {m \in Nat : \A s \in Text[m] : Whole(s)}
<1>1. 0 \in N
  <2>1. Whole(<<>>)
    BY DEF Whole, WholeCharacters
  <2> QED BY <2>1, TextUnfolds
<1>2. ASSUME NEW m \in N PROVE m + 1 \in N
  <2>1. m + 1 \in Nat /\ m + 1 # 0 /\ (m + 1) - 1 = m /\ \A s \in Text[m] : Whole(s)
    OBVIOUS
  <2>2. Text[m + 1] = Longer(Text[m])
    BY <2>1, TextUnfolds
  <2>3. \A s \in Longer(Text[m]) : Whole(s)
    <3>1. ASSUME NEW s \in Longer(Text[m]) PROVE Whole(s)
      <4>1. s \in Text[m] \/ \E u \in Text[m], c \in Character : s = u \o c
        <5>1. CASE \E p \in Text[m] \X Character : s = p[1] \o p[2]
          BY <5>1
        <5> QED BY <5>1, <3>1 DEF Longer
      <4> HIDE DEF N
      <4> QED BY <2>1, <4>1, CharacterWhole
    <3> QED BY <3>1
  <2> QED BY <2>1, <2>2, <2>3
<1>3. N = Nat
  <2>1. N \in SUBSET Nat
    OBVIOUS
  <2> HIDE DEF N
  <2> QED BY <1>1, <1>2, <2>1, NatInd
<1> QED BY <1>3

----------------------------------------------------------------------------
(* The text diff: the cut.                                                 *)

\* A piece of a whole text between cuts that split no character is whole.
LEMMA PieceWhole ==
  ASSUME NEW s, Whole(s), NEW a \in Nat, NEW b \in Nat, a <= b, b <= Len(s),
         ~Splits(s, a), ~Splits(s, b)
  PROVE  WholeCharacters(SubSeq(s, a + 1, b))
<1>0. s \in Seq(Unit) /\ Len(s) \in Nat
  BY DEF Whole
<1> DEFINE p == SubSeq(s, a + 1, b)
<1>1. Len(p) = b - a /\ \A k \in 1 .. b - a : p[k] = s[a + k]
  BY <1>0
<1> HIDE DEF p
<1>2. ASSUME NEW k \in 1 .. Len(p)
      PROVE  /\ p[k] \in High => k < Len(p) /\ p[k + 1] \in Low
             /\ p[k] \in Low => k > 1 /\ p[k - 1] \in High
  <2>1. a + k \in 1 .. Len(s) /\ p[k] = s[a + k] /\ k \in Nat /\ k <= b - a
    BY <1>0, <1>1
  <2>2. /\ s[a + k] \in High => a + k < Len(s) /\ s[a + k + 1] \in Low
        /\ s[a + k] \in Low => a + k > 1 /\ s[a + k - 1] \in High
    BY <2>1 DEF Whole, WholeCharacters
  <2>3. ASSUME p[k] \in High PROVE k < Len(p) /\ p[k + 1] \in Low
    <3>1. k # b - a
      <4> SUFFICES ASSUME k = b - a PROVE FALSE
        OBVIOUS
      <4>1. a + k = b /\ b \in 1 .. Len(s) - 1
        BY <1>0, <2>1, <2>2, <2>3
      <4>2. s[b] \in High /\ s[b + 1] \in Low
        BY <2>1, <2>2, <2>3, <4>1
      <4> QED BY <4>1, <4>2 DEF Splits
    <3>2. k < Len(p) /\ k + 1 \in 1 .. b - a
      BY <1>1, <2>1, <3>1
    <3>3. p[k + 1] = s[a + (k + 1)] /\ a + (k + 1) = a + k + 1
      BY <1>1, <2>1, <3>2
    <3> QED BY <2>1, <2>2, <2>3, <3>2, <3>3
  <2>4. ASSUME p[k] \in Low PROVE k > 1 /\ p[k - 1] \in High
    <3>1. k # 1
      <4> SUFFICES ASSUME k = 1 PROVE FALSE
        OBVIOUS
      <4>1. a \in 1 .. Len(s) - 1
        BY <1>0, <2>1, <2>2, <2>4
      <4>2. a + k - 1 = a /\ a + k = a + 1
        BY <4>1
      <4>3. s[a] \in High /\ s[a + 1] \in Low
        BY <2>1, <2>2, <2>4, <4>2
      <4> QED BY <4>1, <4>3 DEF Splits
    <3>2. k > 1 /\ k - 1 \in 1 .. b - a
      BY <1>1, <2>1, <3>1
    <3>3. p[k - 1] = s[a + (k - 1)] /\ a + (k - 1) = a + k - 1
      BY <1>1, <2>1, <3>2
    <3> QED BY <2>1, <2>2, <2>4, <3>2, <3>3
  <2> QED BY <2>3, <2>4
<1>3. WholeCharacters(p)
  BY <1>2 DEF WholeCharacters
<1> QED BY <1>3 DEF p

LEMMA SharedFacts ==
  ASSUME NEW s \in Seq(Unit), NEW t \in Seq(Unit)
  PROVE  /\ Shared(s, t) \in Nat /\ Shared(s, t) <= Len(s) /\ Shared(s, t) <= Len(t)
         /\ \A i \in 1 .. Shared(s, t) : s[i] = t[i]
         /\ SharedEnd(s, t, Shared(s, t)) \in Nat
         /\ Shared(s, t) + SharedEnd(s, t, Shared(s, t)) <= Len(s)
         /\ Shared(s, t) + SharedEnd(s, t, Shared(s, t)) <= Len(t)
         /\ \A i \in 0 .. SharedEnd(s, t, Shared(s, t)) - 1 : s[Len(s) - i] = t[Len(t) - i]
<1>1. PICK m \in Nat : m = Min({Len(s), Len(t)}) /\ m <= Len(s) /\ m <= Len(t)
  BY LesserIsMin
<1> DEFINE K == {k \in 0 .. m : \A i \in 1 .. k : s[i] = t[i]}
<1>2. Max(K) \in K
  <2>1. K \in SUBSET Nat /\ 0 \in K /\ \A x \in K : x <= m
    OBVIOUS
  <2> HIDE DEF K
  <2> QED BY <2>1, GreatestIsMax
<1>3. Shared(s, t) = Max(K)
  BY <1>1 DEF Shared
<1>4. PICK start \in 0 .. m : start = Shared(s, t) /\ \A i \in 1 .. start : s[i] = t[i]
  <2>1. Shared(s, t) \in K
    BY <1>2, <1>3
  <2> QED BY <2>1
<1> DEFINE E == {k \in 0 .. m - start : \A i \in 0 .. k - 1 : s[Len(s) - i] = t[Len(t) - i]}
<1>5. Max(E) \in E
  <2>1. E \in SUBSET Nat /\ 0 \in E /\ m - start \in Nat /\ \A x \in E : x <= m - start
    OBVIOUS
  <2> HIDE DEF E
  <2> QED BY <2>1, GreatestIsMax
<1>6. SharedEnd(s, t, start) = Max(E)
  BY <1>1 DEF SharedEnd
<1>7. PICK kept \in 0 .. m - start : kept = SharedEnd(s, t, start)
                                     /\ \A i \in 0 .. kept - 1 : s[Len(s) - i] = t[Len(t) - i]
  <2>1. SharedEnd(s, t, start) \in E
    BY <1>5, <1>6
  <2> QED BY <2>1
<1>8. Len(s) \in Nat /\ Len(t) \in Nat
  OBVIOUS
<1>9. start \in Nat /\ start <= Len(s) /\ start <= Len(t) /\ kept \in Nat
      /\ start + kept <= Len(s) /\ start + kept <= Len(t)
  BY <1>1, <1>8
<1> QED BY <1>4, <1>7, <1>9

\* Both ends of the range, in either text: outside what the texts share, and
\* between two characters.
LEMMA RangeFacts ==
  ASSUME NEW s, NEW t, Whole(s), Whole(t)
  PROVE  \E from, to \in Nat :
           /\ DiffRange(s, t) = [index |-> from, remove |-> Len(s) - to - from,
                                 insert |-> SubSeq(t, from + 1, Len(t) - to)]
           /\ from + to <= Len(s) /\ from + to <= Len(t)
           /\ \A i \in 1 .. from : s[i] = t[i]
           /\ \A i \in 0 .. to - 1 : s[Len(s) - i] = t[Len(t) - i]
           /\ ~Splits(s, from) /\ ~Splits(t, from)
           /\ ~Splits(s, Len(s) - to) /\ ~Splits(t, Len(t) - to)
<1>1. s \in Seq(Unit) /\ t \in Seq(Unit) /\ Len(s) \in Nat /\ Len(t) \in Nat
  BY DEF Whole
<1>2. PICK start \in Nat, kept \in Nat :
        /\ start = Shared(s, t) /\ kept = SharedEnd(s, t, start)
        /\ start + kept <= Len(s) /\ start + kept <= Len(t)
        /\ \A i \in 1 .. start : s[i] = t[i]
        /\ \A i \in 0 .. kept - 1 : s[Len(s) - i] = t[Len(t) - i]
  BY <1>1, SharedFacts
<1>p. \A i \in Nat : 1 <= i /\ i <= start => s[i] = t[i]
  BY <1>2
<1>e. \A i \in Nat : i < kept => s[Len(s) - i] = t[Len(t) - i]
  BY <1>2
<1>l. start + kept <= Len(s) /\ start + kept <= Len(t)
  BY <1>2
<1>3. High \cap Low = {}
  BY DiffAssumption
<1>s. \A k \in 1 .. Len(s) : /\ s[k] \in High => k < Len(s) /\ s[k + 1] \in Low
                             /\ s[k] \in Low => k > 1 /\ s[k - 1] \in High
  BY DEF Whole, WholeCharacters
<1>t. \A k \in 1 .. Len(t) : /\ t[k] \in High => k < Len(t) /\ t[k + 1] \in Low
                             /\ t[k] \in Low => k > 1 /\ t[k - 1] \in High
  BY DEF Whole, WholeCharacters
<1>4. PICK from \in Nat : from = IF Splits(s, start) THEN start - 1 ELSE start
  BY DEF Splits
<1>5. PICK to \in Nat : to = IF Splits(s, Len(s) - kept) THEN kept - 1 ELSE kept
  <2>1. CASE Splits(s, Len(s) - kept)
    <3>1. kept - 1 \in Nat
      BY <1>1, <1>2, <2>1, SMTT(30) DEF Splits
    <3> QED BY <2>1, <3>1
  <2>2. CASE ~Splits(s, Len(s) - kept)
    BY <2>2
  <2> QED BY <2>1, <2>2
<1>6. from <= start /\ to <= kept
  BY <1>2, <1>4, <1>5
<1>7. /\ from + to <= Len(s) /\ from + to <= Len(t)
      /\ \A i \in 1 .. from : s[i] = t[i]
      /\ \A i \in 0 .. to - 1 : s[Len(s) - i] = t[Len(t) - i]
  <2>1. from + to <= Len(s) /\ from + to <= Len(t)
    BY <1>1, <1>l, <1>6
  <2>2. ASSUME NEW i \in 1 .. from PROVE s[i] = t[i]
    <3>1. i \in Nat /\ 1 <= i /\ i <= start
      BY <1>6
    <3> QED BY <1>p, <3>1
  <2>3. ASSUME NEW i \in 0 .. to - 1 PROVE s[Len(s) - i] = t[Len(t) - i]
    <3>1. i \in Nat /\ i < kept
      BY <1>6
    <3> QED BY <1>e, <3>1
  <2> QED BY <2>1, <2>2, <2>3
\* The units about the cuts are the same in both texts.
<1>8. ~Splits(s, from) /\ ~Splits(t, from)
  <2>1. CASE Splits(s, start)
    <3>1. start \in 1 .. Len(s) - 1 /\ s[start] \in High /\ from = start - 1
      BY <1>4, <2>1 DEF Splits
    <3>2. t[start] = s[start]
      <4>1. 1 <= start
        BY <1>1, <3>1
      <4> QED BY <1>p, <4>1
    <3>3. from + 1 = start
      BY <3>1
    <3> QED BY <1>3, <3>1, <3>2, <3>3 DEF Splits
  <2>2. CASE ~Splits(s, start)
    <3>1. from = start
      BY <1>4, <2>2
    <3>2. ASSUME Splits(t, start) PROVE FALSE
      <4>1. start \in 1 .. Len(t) - 1 /\ t[start] \in High
        BY <3>2 DEF Splits
      <4>2. s[start] \in High /\ start \in 1 .. Len(s)
        <5>1. 1 <= start /\ start \in 1 .. Len(s)
          BY <1>1, <1>l, <4>1
        <5> QED BY <1>p, <4>1, <5>1
      <4>3. start < Len(s) /\ s[start + 1] \in Low
        BY <1>s, <4>2
      <4>4. start \in 1 .. Len(s) - 1
        BY <1>1, <4>2, <4>3
      <4> QED BY <2>2, <4>2, <4>3, <4>4 DEF Splits
    <3> QED BY <2>2, <3>1, <3>2
  <2> QED BY <2>1, <2>2
<1>9. ~Splits(s, Len(s) - to) /\ ~Splits(t, Len(t) - to)
  <2>1. CASE Splits(s, Len(s) - kept)
    <3>1. /\ Len(s) - kept \in 1 .. Len(s) - 1 /\ s[(Len(s) - kept) + 1] \in Low /\ to = kept - 1
      BY <1>5, <2>1 DEF Splits
    <3>2. kept >= 1 /\ Len(s) - to = (Len(s) - kept) + 1 /\ to < kept
      BY <1>1, <1>l, <3>1
    <3>3. s[Len(s) - to] \in Low /\ s[Len(s) - to] = t[Len(t) - to]
      BY <1>e, <3>1, <3>2
    <3> QED BY <1>3, <3>3 DEF Splits
  <2>2. CASE ~Splits(s, Len(s) - kept)
    <3>1. to = kept
      BY <1>5, <2>2
    <3>2. ASSUME Splits(t, Len(t) - kept) PROVE FALSE
      <4>1. Len(t) - kept \in 1 .. Len(t) - 1 /\ t[(Len(t) - kept) + 1] \in Low
        BY <3>2 DEF Splits
      <4>2. kept - 1 \in Nat /\ kept - 1 < kept /\ Len(t) - (kept - 1) = (Len(t) - kept) + 1
            /\ Len(s) - (kept - 1) = (Len(s) - kept) + 1
        BY <1>1, <1>l, <4>1
      <4>3. s[(Len(s) - kept) + 1] \in Low
        <5>1. s[Len(s) - (kept - 1)] = t[Len(t) - (kept - 1)]
          BY <1>e, <4>2
        <5> QED BY <4>1, <4>2, <5>1
      <4>4. (Len(s) - kept) + 1 \in 1 .. Len(s)
        BY <1>1, <1>l, <4>2
      <4>5. (Len(s) - kept) + 1 > 1 /\ s[((Len(s) - kept) + 1) - 1] \in High
        BY <1>s, <4>3, <4>4
      <4>6. ((Len(s) - kept) + 1) - 1 = Len(s) - kept /\ Len(s) - kept \in 1 .. Len(s) - 1
        BY <1>1, <1>l, <4>2, <4>4, <4>5
      <4> QED BY <2>2, <4>3, <4>5, <4>6 DEF Splits
    <3> QED BY <2>2, <3>1, <3>2
  <2> QED BY <2>1, <2>2
<1>10. DiffRange(s, t) = [index |-> from, remove |-> Len(s) - to - from,
                          insert |-> SubSeq(t, from + 1, Len(t) - to)]
  BY <1>2, <1>4, <1>5 DEF DiffRange
<1> QED BY <1>7, <1>8, <1>9, <1>10

\* The edit makes the one text the other.
LEMMA EditMakesNew ==
  ASSUME NEW s, NEW t, Whole(s), Whole(t)
  PROVE  Applied(s, DiffRange(s, t)) = t
<1>1. s \in Seq(Unit) /\ t \in Seq(Unit) /\ Len(s) \in Nat /\ Len(t) \in Nat
  BY DEF Whole
<1>2. PICK from \in Nat, to \in Nat :
           /\ DiffRange(s, t) = [index |-> from, remove |-> Len(s) - to - from,
                                 insert |-> SubSeq(t, from + 1, Len(t) - to)]
           /\ from + to <= Len(s) /\ from + to <= Len(t)
           /\ \A i \in 1 .. from : s[i] = t[i]
           /\ \A i \in 0 .. to - 1 : s[Len(s) - i] = t[Len(t) - i]
  BY RangeFacts, ZenonT(60)
<1> DEFINE a == SubSeq(s, 1, from)
           b == SubSeq(t, from + 1, Len(t) - to)
           c == SubSeq(s, Len(s) - to + 1, Len(s))
<1>3. a \in Seq(Unit) /\ Len(a) = from /\ \A k \in 1 .. from : a[k] = s[k]
  BY <1>1, <1>2
<1>4. b \in Seq(Unit) /\ Len(b) = Len(t) - to - from /\ \A k \in 1 .. Len(t) - to - from : b[k] = t[from + k]
  BY <1>1, <1>2
<1>5. c \in Seq(Unit) /\ Len(c) = to /\ \A k \in 1 .. to : c[k] = s[Len(s) - to + k]
  BY <1>1, <1>2
<1>6. Applied(s, DiffRange(s, t)) = (a \o b) \o c
  <2>1. from + (Len(s) - to - from) + 1 = Len(s) - to + 1
    BY <1>1
  <2>2. /\ DiffRange(s, t).index = from /\ DiffRange(s, t).remove = Len(s) - to - from
        /\ DiffRange(s, t).insert = b
    BY <1>2
  <2> HIDE DEF b
  <2> QED BY <2>1, <2>2 DEF Applied
<1> HIDE DEF a, b, c
<1>7. /\ a \o b \in Seq(Unit) /\ Len(a \o b) = from + (Len(t) - to - from)
      /\ \A k \in 1 .. from : (a \o b)[k] = a[k]
      /\ \A k \in 1 .. Len(t) - to - from : (a \o b)[from + k] = b[k]
  <2>1. a \in Seq(Unit) /\ b \in Seq(Unit) /\ Len(a) = from /\ Len(b) = Len(t) - to - from
    BY <1>3, <1>4
  <2>2. /\ a \o b \in Seq(Unit) /\ Len(a \o b) = Len(a) + Len(b)
        /\ \A k \in 1 .. Len(a) : (a \o b)[k] = a[k]
        /\ \A k \in 1 .. Len(b) : (a \o b)[Len(a) + k] = b[k]
    <3>1. a \in Seq(Unit) /\ b \in Seq(Unit)
      BY <2>1
    <3> QED BY <3>1, Joined
  <2> QED BY <2>1, <2>2
<1>8. PICK n \in Nat : n = Len(t) - to /\ Len(a \o b) = n /\ from <= n
  <2>1. PICK l : l = Len(t) /\ l \in Nat
    BY <1>1
  <2>2. PICK m : m = Len(a \o b)
    OBVIOUS
  <2>3. m = from + (l - to - from) /\ from + to <= l
    BY <1>2, <1>7, <2>1, <2>2, Zenon
  <2>4. l - to \in Nat /\ m = l - to /\ from <= l - to
    BY ONLY <2>1, <2>3, from \in Nat, to \in Nat
  <2> QED BY <2>1, <2>2, <2>4, Zenon
<1>9. /\ (a \o b) \o c \in Seq(Unit) /\ Len((a \o b) \o c) = n + to
      /\ \A k \in 1 .. n : ((a \o b) \o c)[k] = (a \o b)[k]
      /\ \A k \in 1 .. to : ((a \o b) \o c)[n + k] = c[k]
  <2>1. PICK u : u = a \o b
    OBVIOUS
  <2>2. u \in Seq(Unit) /\ Len(u) = n /\ c \in Seq(Unit) /\ Len(c) = to
    BY <1>5, <1>7, <1>8, <2>1
  <2>3. /\ u \o c \in Seq(Unit) /\ Len(u \o c) = Len(u) + Len(c)
        /\ \A k \in 1 .. Len(u) : (u \o c)[k] = u[k]
        /\ \A k \in 1 .. Len(c) : (u \o c)[Len(u) + k] = c[k]
    <3>1. u \in Seq(Unit) /\ c \in Seq(Unit)
      BY <2>2
    <3> QED BY <3>1, Joined
  <2> QED BY <2>1, <2>2, <2>3
<1>10. Len((a \o b) \o c) = Len(t)
  BY <1>1, <1>8, <1>9
<1>11. ASSUME NEW k \in 1 .. Len(t) PROVE ((a \o b) \o c)[k] = t[k]
  <2>1. CASE k \in 1 .. from
    <3>1. k \in 1 .. n
      BY <1>8, <2>1
    <3> QED BY <1>2, <1>3, <1>7, <1>9, <2>1, <3>1
  <2>2. CASE k \in from + 1 .. n
    <3>1. PICK j \in 1 .. n - from : k = from + j
      <4>1. k - from \in 1 .. n - from /\ k = from + (k - from)
        BY <1>8, <2>2
      <4> QED BY <4>1
    <3>2. k \in 1 .. n /\ n - from = Len(t) - to - from
      BY <1>1, <1>8, <2>2
    <3> QED BY <1>4, <1>7, <1>9, <3>1, <3>2
  <2>3. CASE k \in n + 1 .. Len(t)
    <3>1. PICK j \in 1 .. to : k = n + j
      <4>1. k - n \in 1 .. to /\ k = n + (k - n)
        BY <1>1, <1>8, <2>3
      <4> QED BY <4>1
    <3>2. ((a \o b) \o c)[k] = s[Len(s) - to + j]
      BY <1>5, <1>9, <3>1
    <3>3. to - j \in 0 .. to - 1 /\ Len(s) - (to - j) = Len(s) - to + j /\ Len(t) - (to - j) = k
      BY <1>1, <1>8, <3>1
    <3> QED BY <1>2, <3>2, <3>3
  <2> QED
    <3>1. k \in 1 .. from \/ k \in from + 1 .. n \/ k \in n + 1 .. Len(t)
      BY <1>1, <1>8
    <3> QED BY <2>1, <2>2, <2>3, <3>1
<1>12. (a \o b) \o c = t
  <2>1. PICK u : u = (a \o b) \o c
    OBVIOUS
  <2>2. u \in Seq(Unit) /\ t \in Seq(Unit) /\ Len(u) = Len(t)
    BY <1>1, <1>9, <1>10, <2>1
  <2>3. \A k \in 1 .. Len(t) : u[k] = t[k]
    BY <1>11, <2>1
  <2> QED BY <2>1, <2>2, <2>3, SeqEqual
<1> QED BY <1>6, <1>12

DiffInv ==
  /\ Whole(oldText) /\ Whole(newText)
  /\ edited \in {oldText, newText}

LEMMA DiffAlways == DiffSpec => []DiffInv
<1>1. DiffInit => DiffInv
  BY DEF DiffInit, DiffInv, Whole, WholeCharacters
<1>2. DiffInv /\ [DiffNext]_diffVars => DiffInv'
  <2> SUFFICES ASSUME DiffInv, [DiffNext]_diffVars PROVE DiffInv'
    OBVIOUS
  <2>1. CASE ApplyTextChange
    BY <2>1, EditMakesNew DEF ApplyTextChange, DiffInv, Whole, WholeCharacters
  <2>2. ASSUME NEW t \in Text[MaxLength], UserEdits(t) PROVE DiffInv'
    <3>1. Whole(t)
      BY TextsWhole, DiffAssumption
    <3> QED BY <2>2, <3>1 DEF UserEdits, DiffInv, Whole, WholeCharacters
  <2>3. CASE UNCHANGED diffVars
    BY <2>3 DEF diffVars, DiffInv, Whole, WholeCharacters
  <2> QED BY <2>1, <2>2, <2>3 DEF DiffNext
<1> QED BY <1>1, <1>2, PTL DEF DiffSpec

\* However a text is changed, the range that the diff replaces and what it
\* puts there are of whole characters, where the two texts are, and applying
\* it makes the new text of the old one (vscode/src/diff.ts, web/src/yutil.js).
THEOREM EditsAreWhole == DiffSpec => []EditsWholeCharacters
<1>1. DiffInv => EditsWholeCharacters
  <2> SUFFICES ASSUME DiffInv PROVE EditsWholeCharacters
    OBVIOUS
  <2>1. PICK from \in Nat, to \in Nat :
           /\ DiffRange(oldText, newText) =
                [index |-> from, remove |-> Len(oldText) - to - from,
                 insert |-> SubSeq(newText, from + 1, Len(newText) - to)]
           /\ from + to <= Len(oldText) /\ from + to <= Len(newText)
           /\ ~Splits(oldText, from) /\ ~Splits(newText, from)
           /\ ~Splits(oldText, Len(oldText) - to) /\ ~Splits(newText, Len(newText) - to)
    BY RangeFacts DEF DiffInv
  <2>2. Len(oldText) \in Nat /\ Len(newText) \in Nat
    BY DEF DiffInv, Whole
  <2>3. WholeCharacters(SubSeq(newText, from + 1, Len(newText) - to))
    <3>1. Len(newText) - to \in Nat /\ from <= Len(newText) - to /\ Len(newText) - to <= Len(newText)
      BY <2>1, <2>2
    <3> QED BY <2>1, <3>1, PieceWhole DEF DiffInv
  <2>4. WholeCharacters(SubSeq(oldText, from + 1, Len(oldText) - to))
    <3>1. Len(oldText) - to \in Nat /\ from <= Len(oldText) - to /\ Len(oldText) - to <= Len(oldText)
      BY <2>1, <2>2
    <3> QED BY <2>1, <3>1, PieceWhole DEF DiffInv
  <2>5. from + (Len(oldText) - to - from) = Len(oldText) - to
    BY <2>2
  <2> QED BY <2>1, <2>3, <2>4, <2>5 DEF EditsWholeCharacters, DiffInv
<1> QED BY <1>1, DiffAlways, PTL

----------------------------------------------------------------------------
(* The retrieval of a context.                                             *)

CtxType == [pc : {"index", "search", "expand", "pack", "done"}, seeds : Seq(Notes),
            scope : SUBSET Notes, hidden : SUBSET Notes, todo : SUBSET Notes,
            items : Seq([note : Notes, kept : Nat]), used : Nat, truncated : BOOLEAN]

RetTyped ==
  /\ links \in SUBSET (Notes \X Notes) /\ lexical \in Seq(Notes) /\ semantic \in Seq(Notes)
  /\ drafts \subseteq Notes /\ deleted \subseteq changed
  /\ ctx \in CtxType

PackedNotes == {ctx.items[i].note : i \in DOMAIN ctx.items}

\* Before the packing there is nothing in the context.
Empty == ctx.pc \notin {"pack", "done"} => ctx.items = <<>> /\ ctx.used = 0 /\ ~ctx.truncated

\* A hit is no draft, but by a change since.
SeedsShown ==
  ctx.pc \in {"expand", "pack"} /\ ~IncludeDraftNotes => ToSet(ctx.seeds) \cap drafts \subseteq changed

\* Every draft that is not hidden became one later.
DraftsHidden ==
  ctx.pc \in {"pack", "done"} =>
    /\ ctx.hidden \subseteq drafts /\ (IncludeDraftNotes => ctx.hidden = {})
    /\ ~IncludeDraftNotes => drafts \subseteq ctx.hidden \cup changed

\* What is packed costs what the context says, each note is packed once, and
\* the reach of the hits is accounted for.
Costs ==
  /\ ctx.used = SumFunction([i \in DOMAIN ctx.items |-> Fixed + ctx.items[i].kept])
  /\ ctx.used <= Budget \/ (ctx.pc = "done" /\ Len(ctx.items) = 1)
Once ==
  /\ IsFiniteSet(PackedNotes) /\ Cardinality(PackedNotes) = Len(ctx.items)
  /\ ctx.pc = "pack" => ctx.todo \cap PackedNotes = {}
Reach ==
  /\ PackedNotes \subseteq NearHits \ Stubs
  /\ PackedNotes \cap ctx.hidden = {}
  /\ ctx.pc = "pack" =>
       /\ ctx.todo \subseteq NearHits
       /\ NearHits \subseteq ctx.todo \cup PackedNotes \cup Stubs \cup changed \cup ctx.hidden
  /\ ctx.pc = "done" /\ ~ctx.truncated =>
       NearHits \subseteq PackedNotes \cup Stubs \cup changed \cup ctx.hidden
Packing == ctx.pc \in {"pack", "done"} => Costs /\ Once /\ Reach

RetrievalInv == RetTyped /\ Empty /\ SeedsShown /\ DraftsHidden /\ Packing

----------------------------------------------------------------------------

\* Near(h): the notes at most h links from a hit.
Near(h) == {n \in Notes : \E k \in 1 .. h + 1, p \in [1 .. Hops + 1 -> Notes] :
  /\ IsSeed(p[1]) /\ p[k] = n
  /\ \A i \in 1 .. k - 1 : p[i + 1] \in Adjacent(p[i])}

LEMMA AdjacentNotes == ASSUME links \in SUBSET (Notes \X Notes), NEW n PROVE Adjacent(n) \subseteq Notes
  BY DEF Adjacent

LayerType == [seen : SUBSET Notes, frontier : SUBSET Notes]

LEMMA LayersUnfold ==
  ASSUME links \in SUBSET (Notes \X Notes), NEW focus \in SUBSET Notes
  PROVE  \E L : /\ L[0] = [seen |-> focus, frontier |-> focus]
                /\ \A h \in Nat : h < Hops => L[h + 1] = Hop(L[h])
                /\ Layers(focus) = L[Hops].seen
<1> DEFINE base == [seen |-> focus, frontier |-> focus]
           f == [l \in LayerType |-> Hop(l)]
           Rec(L) == L = [h \in 0 .. Hops |-> IF h = 0 THEN [seen |-> focus, frontier |-> focus] ELSE Hop(L[h - 1])]
<1>0. Hops \in Nat
  BY RetrievalAssumption
<1>1. base \in LayerType
  BY DEF LayerType
<1>2. f \in [LayerType -> LayerType]
  <2>1. ASSUME NEW l \in LayerType PROVE Hop(l) \in LayerType
    BY AdjacentNotes DEF Hop, LayerType
  <2> QED BY <2>1
<1>3. PICK b, k : b = base /\ k = f
  OBVIOUS
<1>31. b \in LayerType /\ k \in [LayerType -> LayerType] /\ b = [seen |-> focus, frontier |-> focus]
       /\ \A l \in LayerType : k[l] = Hop(l)
  BY <1>1, <1>2, <1>3
<1> HIDE DEF base, f
<1>32. PICK g : g \in [Nat -> LayerType] /\ g[0] = b /\ \A n \in Nat : g[n + 1] = k[g[n]]
  <2>1. b \in LayerType /\ k \in [LayerType -> LayerType]
    BY <1>31
  <2>2. \E g : Iterates(g, LayerType, b, k)
    BY <2>1, IterationExists
  <2> QED BY <2>2 DEF Iterates
<1>4. Rec([h \in 0 .. Hops |-> g[h]])
  <2> DEFINE K == [h \in 0 .. Hops |-> g[h]]
  <2>1. ASSUME NEW h \in 0 .. Hops
        PROVE  K[h] = IF h = 0 THEN [seen |-> focus, frontier |-> focus] ELSE Hop(K[h - 1])
    <3>1. CASE h = 0
      BY <1>31, <1>32, <3>1
    <3>2. CASE h # 0
      <4>1. h - 1 \in Nat /\ h - 1 \in 0 .. Hops /\ (h - 1) + 1 = h
        BY <1>0, <3>2
      <4>2. g[h] = Hop(g[h - 1]) /\ g[h - 1] \in LayerType
        BY <1>31, <1>32, <4>1
      <4>3. K[h] = g[h] /\ K[h - 1] = g[h - 1]
        BY <4>1
      <4> HIDE DEF K
      <4> QED BY <3>2, <4>2, <4>3
    <3> QED BY <3>1, <3>2
  <2>2. K = [h \in 0 .. Hops |-> K[h]]
    OBVIOUS
  <2> HIDE DEF K
  <2>3. Rec(K)
    BY <2>1, <2>2
  <2> QED BY <2>3 DEF K
<1> HIDE DEF Rec
<1>5. PICK L : L = CHOOSE M : Rec(M)
  OBVIOUS
<1>6. Rec(L)
  BY <1>4, <1>5
<1>7. Layers(focus) = L[Hops].seen
  BY <1>5 DEF Layers, Rec
<1>8. L[0] = [seen |-> focus, frontier |-> focus] /\ \A h \in Nat : h < Hops => L[h + 1] = Hop(L[h])
  <2>1. \A h \in 0 .. Hops : L[h] = IF h = 0 THEN [seen |-> focus, frontier |-> focus] ELSE Hop(L[h - 1])
    BY <1>6 DEF Rec
  <2>2. L[0] = [seen |-> focus, frontier |-> focus]
    BY <1>0, <2>1
  <2>3. ASSUME NEW h \in Nat, h < Hops PROVE L[h + 1] = Hop(L[h])
    <3>1. h + 1 \in 0 .. Hops /\ h + 1 # 0 /\ (h + 1) - 1 = h
      BY <1>0, <2>3
    <3> QED BY <2>1, <3>1
  <2> QED BY <2>2, <2>3
<1> QED BY <1>7, <1>8

\* One link further.
LEMMA NearGrows ==
  ASSUME links \in SUBSET (Notes \X Notes), NEW h \in Nat, h < Hops
  PROVE  Near(h + 1) = Near(h) \cup UNION {Adjacent(m) : m \in Near(h)}
<1>0. Hops \in Nat
  BY RetrievalAssumption
<1>1. ASSUME NEW n \in Near(h) PROVE n \in Near(h + 1)
  <2>1. \A k \in 1 .. h + 1 : k \in 1 .. (h + 1) + 1
    OBVIOUS
  <2> QED BY <1>1, <2>1 DEF Near
<1>2. ASSUME NEW m \in Near(h), NEW n \in Adjacent(m) PROVE n \in Near(h + 1)
  <2>1. PICK k \in 1 .. h + 1, p \in [1 .. Hops + 1 -> Notes] :
          /\ IsSeed(p[1]) /\ p[k] = m
          /\ \A i \in 1 .. k - 1 : p[i + 1] \in Adjacent(p[i])
    BY DEF Near
  <2>2. n \in Notes
    BY AdjacentNotes
  <2> DEFINE q == [p EXCEPT ![k + 1] = n]
  <2>3. k + 1 \in 1 .. (h + 1) + 1 /\ k + 1 \in 1 .. Hops + 1 /\ k \in 1 .. Hops + 1 /\ 1 # k + 1 /\ k # k + 1
    BY <1>0
  <2>4. q \in [1 .. Hops + 1 -> Notes] /\ q[k + 1] = n /\ \A i \in 1 .. Hops + 1 : i # k + 1 => q[i] = p[i]
    BY <2>2, <2>3
  <2> HIDE DEF q
  <2>5. IsSeed(q[1])
    <3>1. 1 \in 1 .. Hops + 1
      BY <1>0
    <3> QED BY <2>1, <2>3, <2>4, <3>1
  <2>6. ASSUME NEW i \in 1 .. (k + 1) - 1 PROVE q[i + 1] \in Adjacent(q[i])
    <3>1. CASE i = k
      BY <2>1, <2>3, <2>4, <3>1
    <3>2. CASE i # k
      <4>1. i \in 1 .. k - 1 /\ i \in 1 .. Hops + 1 /\ i + 1 \in 1 .. Hops + 1 /\ i # k + 1 /\ i + 1 # k + 1
        BY <1>0, <3>2
      <4> QED BY <2>1, <2>4, <4>1
    <3> QED BY <3>1, <3>2
  <2> QED BY <2>2, <2>3, <2>4, <2>5, <2>6 DEF Near
<1>3. ASSUME NEW n \in Near(h + 1)
      PROVE  n \in Near(h) \cup UNION {Adjacent(m) : m \in Near(h)}
  <2>1. PICK k \in 1 .. (h + 1) + 1, p \in [1 .. Hops + 1 -> Notes] :
          /\ IsSeed(p[1]) /\ p[k] = n
          /\ \A i \in 1 .. k - 1 : p[i + 1] \in Adjacent(p[i])
    BY <1>3 DEF Near
  <2>2. n \in Notes
    BY <1>3 DEF Near
  <2>3. CASE k \in 1 .. h + 1
    BY <2>1, <2>2, <2>3 DEF Near
  <2>4. CASE k = h + 2
    <3>1. k - 1 \in 1 .. h + 1 /\ k - 1 \in 1 .. Hops + 1 /\ k - 1 \in 1 .. k - 1 /\ (k - 1) + 1 = k
      BY <1>0, <2>4
    <3>2. p[k] \in Adjacent(p[k - 1])
      BY <2>1, <3>1
    <3>3. \A i \in 1 .. (k - 1) - 1 : i \in 1 .. k - 1
      BY <3>1
    <3>4. p[k - 1] \in Near(h)
      BY <2>1, <3>1, <3>3 DEF Near
    <3> QED BY <2>1, <3>2, <3>4
  <2>5. k \in 1 .. h + 1 \/ k = h + 2
    OBVIOUS
  <2> QED BY <2>3, <2>4, <2>5
<1> QED BY <1>1, <1>2, <1>3

LEMMA LayersAreNear ==
  ASSUME RetTyped
  PROVE  Layers(ToSet(ctx.seeds)) = NearHits
<1>0. Hops \in Nat /\ links \in SUBSET (Notes \X Notes)
  BY RetrievalAssumption DEF RetTyped
<1>1. ctx.seeds \in Seq(Notes) /\ ToSet(ctx.seeds) \in SUBSET Notes
  BY DEF RetTyped, CtxType, ToSet
<1>2. PICK L : /\ L[0] = [seen |-> ToSet(ctx.seeds), frontier |-> ToSet(ctx.seeds)]
               /\ \A h \in Nat : h < Hops => L[h + 1] = Hop(L[h])
               /\ Layers(ToSet(ctx.seeds)) = L[Hops].seen
  BY <1>0, <1>1, LayersUnfold
<1> DEFINE Right(h) == /\ L[h].seen = Near(h) /\ L[h].frontier \subseteq L[h].seen
                       /\ \A m \in L[h].seen \ L[h].frontier : Adjacent(m) \subseteq L[h].seen
           N == {h \in Nat : h <= Hops => Right(h)}
<1>3. 0 \in N
  <2>1. Near(0) = ToSet(ctx.seeds)
    <3>1. ASSUME NEW n \in Near(0) PROVE n \in ToSet(ctx.seeds)
      BY <3>1 DEF Near, IsSeed
    <3>2. ASSUME NEW n \in ToSet(ctx.seeds) PROVE n \in Near(0)
      <4> DEFINE p == [i \in 1 .. Hops + 1 |-> n]
      <4>1. n \in Notes /\ p \in [1 .. Hops + 1 -> Notes] /\ p[1] = n
        BY <1>0, <1>1
      <4>2. 1 \in 1 .. 0 + 1 /\ \A i \in 1 .. 1 - 1 : FALSE
        OBVIOUS
      <4> HIDE DEF p
      <4>3. \E k \in 1 .. 0 + 1, r \in [1 .. Hops + 1 -> Notes] :
              /\ IsSeed(r[1]) /\ r[k] = n
              /\ \A i \in 1 .. k - 1 : r[i + 1] \in Adjacent(r[i])
        BY <4>1, <4>2 DEF IsSeed
      <4> QED BY <4>1, <4>3 DEF Near
    <3> QED BY <3>1, <3>2
  <2> QED BY <1>2, <2>1
<1>4. ASSUME NEW h \in N PROVE h + 1 \in N
  <2>1. h \in Nat /\ h + 1 \in Nat
    OBVIOUS
  <2> SUFFICES ASSUME h + 1 <= Hops PROVE Right(h + 1)
    BY <2>1
  <2>2. h < Hops /\ h <= Hops
    BY <1>0, <2>1
  <2>3. Right(h)
    BY <2>2
  <2> DEFINE next == (UNION {Adjacent(n) : n \in L[h].frontier}) \ L[h].seen
  <2>4. L[h + 1] = [seen |-> L[h].seen \cup next, frontier |-> next]
    BY <1>2, <2>1, <2>2 DEF Hop
  <2>5. L[h + 1].seen = L[h].seen \cup next /\ L[h + 1].frontier = next
    BY <2>4
  <2>6. L[h].seen \cup next = L[h].seen \cup UNION {Adjacent(n) : n \in L[h].seen}
    <3>1. ASSUME NEW n \in L[h].seen, NEW m \in Adjacent(n) PROVE m \in L[h].seen \cup next
      BY <2>3
    <3>2. next \subseteq UNION {Adjacent(n) : n \in L[h].seen}
      BY <2>3
    <3> HIDE DEF next
    <3> QED BY <3>1, <3>2
  <2>7. Near(h + 1) = L[h + 1].seen
    BY <1>0, <2>1, <2>2, <2>3, <2>5, <2>6, NearGrows
  <2>8. ASSUME NEW m \in L[h + 1].seen \ L[h + 1].frontier PROVE Adjacent(m) \subseteq L[h + 1].seen
    <3>1. m \in L[h].seen
      BY <2>5, <2>8
    <3> QED BY <2>5, <2>6, <3>1
  <2> QED BY <2>5, <2>7, <2>8
<1>5. N = Nat
  <2>1. N \in SUBSET Nat
    OBVIOUS
  <2> HIDE DEF N
  <2> QED BY <1>3, <1>4, <2>1, NatInd
<1>6. Layers(ToSet(ctx.seeds)) = Near(Hops)
  <2>1. Hops \in N
    BY <1>0, <1>5
  <2> QED BY <1>0, <1>2, <2>1
<1>7. Near(Hops) = NearHits
  BY DEF Near, NearHits
<1> QED BY <1>6, <1>7

----------------------------------------------------------------------------
(* The retrieval of a context: the steps.                                  *)

LEMMA SeedsAreNear ==
  ASSUME ctx.seeds \in Seq(Notes)
  PROVE  ToSet(ctx.seeds) \in SUBSET Notes /\ ToSet(ctx.seeds) \subseteq NearHits
<1>0. Hops \in Nat
  BY RetrievalAssumption
<1>1. ToSet(ctx.seeds) \in SUBSET Notes
  BY DEF ToSet
<1>2. ASSUME NEW n \in ToSet(ctx.seeds) PROVE n \in NearHits
  <2> DEFINE p == [i \in 1 .. Hops + 1 |-> n]
  <2>1. n \in Notes /\ p \in [1 .. Hops + 1 -> Notes] /\ p[1] = n
    BY <1>0, <1>1
  <2>2. 1 \in 1 .. Hops + 1 /\ \A i \in 1 .. 1 - 1 : FALSE
    BY <1>0
  <2> HIDE DEF p
  <2>3. \E k \in 1 .. Hops + 1, r \in [1 .. Hops + 1 -> Notes] :
          /\ IsSeed(r[1]) /\ r[k] = n
          /\ \A i \in 1 .. k - 1 : r[i + 1] \in Adjacent(r[i])
    BY <2>1, <2>2 DEF IsSeed
  <2> QED BY <2>1, <2>3 DEF NearHits
<1> QED BY <1>1, <1>2

LEMMA NearSame ==
  ASSUME UNCHANGED links, ctx'.seeds = ctx.seeds
  PROVE  NearHits' = NearHits
BY DEF NearHits, IsSeed, Adjacent, ToSet

\* A note is packed.
LEMMA PackAdds ==
  ASSUME RetTyped, RetTyped', Packing, ctx.pc = "pack", NEW n \in ctx.todo, NEW kept \in Nat,
         ctx'.items = Packed(n, kept), ctx'.used = ctx.used + Fixed + kept
  PROVE  /\ ctx'.used = SumFunction([i \in DOMAIN ctx'.items |-> Fixed + ctx'.items[i].kept])
         /\ PackedNotes' = PackedNotes \cup {n}
         /\ IsFiniteSet(PackedNotes') /\ Cardinality(PackedNotes') = Len(ctx'.items)
         /\ Len(ctx'.items) = Len(ctx.items) + 1
<1>0. /\ Fixed \in Nat /\ n \in Notes /\ ctx.items \in Seq([note : Notes, kept : Nat])
      /\ Len(ctx.items) \in Nat /\ ctx.used \in Nat
  BY RetrievalAssumption DEF RetTyped, CtxType
<1>1. PICK items, next : items = ctx.items /\ next = ctx'.items
  OBVIOUS
<1>2. /\ items \in Seq([note : Notes, kept : Nat]) /\ Len(items) \in Nat
      /\ next = Append(items, [note |-> n, kept |-> kept])
  BY <1>0, <1>1 DEF Packed
<1>30. PICK new \in [note : Notes, kept : Nat] : new.note = n /\ new.kept = kept /\ next = Append(items, new)
  <2> DEFINE new == [note |-> n, kept |-> kept]
  <2>1. new \in [note : Notes, kept : Nat] /\ new.note = n /\ new.kept = kept
    BY <1>0
  <2> QED BY <1>2, <2>1
<1>31. /\ DOMAIN items = 1 .. Len(items) /\ DOMAIN next = 1 .. Len(items) + 1 /\ Len(next) = Len(items) + 1
       /\ \A i \in 1 .. Len(items) : next[i] = items[i]
       /\ next[Len(items) + 1] = new
  BY <1>2, <1>30
<1>32. \A i \in 1 .. Len(items) : items[i].kept \in Nat /\ items[i].note \in Notes
  <2>1. ASSUME NEW i \in 1 .. Len(items) PROVE items[i] \in [note : Notes, kept : Nat]
    <3>1. PICK Item : Item = [note : Notes, kept : Nat]
      OBVIOUS
    <3>2. items \in Seq(Item)
      BY <1>2, <3>1
    <3>3. items[i] \in Item
      BY <3>2
    <3> QED BY <3>1, <3>3
  <2> QED BY <2>1
<1>3. /\ DOMAIN items = 1 .. Len(items) /\ DOMAIN next = 1 .. Len(items) + 1 /\ Len(next) = Len(items) + 1
      /\ \A i \in 1 .. Len(items) : next[i] = items[i] /\ items[i].kept \in Nat /\ items[i].note \in Notes
      /\ next[Len(items) + 1].note = n /\ next[Len(items) + 1].kept = kept
  BY <1>30, <1>31, <1>32
<1>4. SumFunction([i \in 1 .. Len(items) + 1 |-> Fixed + next[i].kept])
        = SumFunction([i \in 1 .. Len(items) |-> Fixed + items[i].kept]) + (Fixed + kept)
  <2> DEFINE f == [i \in 1 .. Len(items) |-> Fixed + items[i].kept]
             g == [i \in 1 .. Len(items) + 1 |-> Fixed + next[i].kept]
  <2>1. f \in [1 .. Len(items) -> Nat]
    BY <1>0, <1>3
  <2>2. g \in [1 .. Len(items) + 1 -> Nat]
    <3>1. ASSUME NEW i \in 1 .. Len(items) + 1 PROVE next[i].kept \in Nat
      <4>1. CASE i \in 1 .. Len(items)
        BY <1>3, <4>1
      <4>2. CASE i = Len(items) + 1
        BY <1>3, <4>2
      <4> QED BY <1>2, <4>1, <4>2
    <3> QED BY <1>0, <3>1
  <2>3. \A i \in 1 .. Len(items) : f[i] = g[i]
    BY <1>2, <1>3
  <2>4. g[Len(items) + 1] = Fixed + kept
    BY <1>2, <1>3
  <2> HIDE DEF f, g
  <2>5. SumFunction(g) = SumFunction(f) + g[Len(items) + 1]
    BY <1>2, <2>1, <2>2, <2>3, SumOfLonger
  <2> QED BY <2>4, <2>5 DEF f, g
<1>5. ctx.used = SumFunction([i \in 1 .. Len(items) |-> Fixed + items[i].kept])
  BY <1>1, <1>3 DEF Packing, Costs
<1>6. ctx'.used = SumFunction([i \in DOMAIN next |-> Fixed + next[i].kept])
  <2>1. PICK total \in Nat : total = ctx.used
    BY <1>0
  <2>2. ctx'.used = total + (Fixed + kept)
    BY <1>0, <2>1
  <2>3. SumFunction([i \in 1 .. Len(items) + 1 |-> Fixed + next[i].kept]) = total + (Fixed + kept)
    BY <1>4, <1>5, <2>1
  <2> QED BY <1>3, <2>2, <2>3
<1>7. PICK P : P = PackedNotes
  OBVIOUS
<1>8. P = {items[i].note : i \in 1 .. Len(items)}
  BY <1>1, <1>3, <1>7 DEF PackedNotes
<1>9. {next[i].note : i \in 1 .. Len(items) + 1} = P \cup {n}
  <2>1. 1 .. Len(items) + 1 = (1 .. Len(items)) \cup {Len(items) + 1}
    BY <1>2
  <2> QED BY <1>3, <1>8, <2>1
<1>10. IsFiniteSet(P) /\ Cardinality(P) = Len(items) /\ n \notin P
  BY <1>1, <1>7 DEF Packing, Once
<1>11. IsFiniteSet(P \cup {n}) /\ Cardinality(P \cup {n}) = Len(items) + 1
  BY <1>10, FS_AddElement
<1>12. PackedNotes' = P \cup {n}
  BY <1>1, <1>3, <1>9 DEF PackedNotes
<1> QED BY <1>1, <1>3, <1>6, <1>7, <1>11, <1>12

LEMMA RetrievalInitInv == RetrievalInit => RetrievalInv
<1> SUFFICES ASSUME RetrievalInit PROVE RetrievalInv
  OBVIOUS
<1>1. ctx \in CtxType
  BY DEF RetrievalInit, NoCtx, CtxType
<1>2. RetTyped
  BY <1>1 DEF RetrievalInit, RetTyped
<1> QED BY <1>2 DEF RetrievalInit, RetrievalInv, NoCtx, Empty, SeedsShown, DraftsHidden, Packing

LEMMA RetrievalIndexInv == ASSUME RetrievalInv, Index PROVE RetrievalInv'
<1>1. RetTyped'
  <2>1. /\ links' \in SUBSET (Notes \X Notes) /\ lexical' \in Seq(Notes) /\ semantic' \in Seq(Notes)
        /\ drafts' \subseteq Notes
    BY RetrievalAssumption DEF Index
  <2>2. ctx' \in CtxType /\ deleted' \subseteq changed'
    BY DEF Index, RetrievalInv, RetTyped, CtxType
  <2> QED BY <2>1, <2>2 DEF RetTyped
<1>2. ctx'.pc = "search" /\ ctx'.items = <<>> /\ ctx'.used = 0 /\ ~ctx'.truncated
  BY DEF Index, RetrievalInv, RetTyped, CtxType, Empty
<1> QED BY <1>1, <1>2 DEF RetrievalInv, Empty, SeedsShown, DraftsHidden, Packing

LEMMA SearchHybridInv == ASSUME RetrievalInv, SearchHybrid PROVE RetrievalInv'
<1>1. PICK hits \in Fused :
        ctx' = [ctx EXCEPT !.pc = "expand", !.seeds = SubSeq(hits, 1, Min({Seeds, Len(hits)}))]
  BY DEF SearchHybrid
<1>2. Hits \in SUBSET Notes /\ (~IncludeDraftNotes => Hits \cap drafts = {})
  BY DEF Hits, Found, RetrievalInv, RetTyped, ToSet
<1>3. hits \in Seq(Hits)
  <2>1. hits \in SeqOf(Hits, Len(lexical) + Len(semantic)) /\ Len(lexical) + Len(semantic) \in Nat
    BY DEF Fused, RetrievalInv, RetTyped
  <2>2. PICK m \in 0 .. Len(lexical) + Len(semantic) : hits \in [1 .. m -> Hits]
    BY <2>1 DEF SeqOf
  <2> QED BY <2>1, <2>2
<1>4. PICK k \in 0 .. Len(hits) : k = Min({Seeds, Len(hits)})
  <2>1. Seeds \in Nat /\ Len(hits) \in Nat
    BY <1>3, RetrievalAssumption
  <2> QED BY <2>1, LesserIsMin
<1>5. PICK seeds : seeds = SubSeq(hits, 1, k)
  OBVIOUS
<1>6. seeds \in Seq(Hits)
  <2>1. PICK T : T = Hits
    OBVIOUS
  <2>2. hits \in Seq(T) /\ Len(hits) \in Nat /\ k \in Nat /\ k <= Len(hits)
    BY <1>3, <1>4, <2>1
  <2>3. \A i \in 1 .. k : i \in 1 .. Len(hits) /\ hits[i] \in T
    BY <2>2
  <2>4. SubSeq(hits, 1, k) \in Seq(T)
    BY <2>2, <2>3, SubSeqProperties
  <2> QED BY <1>5, <2>1, <2>4
<1>7. ToSet(seeds) \subseteq Hits /\ seeds \in Seq(Notes)
  BY <1>2, <1>6 DEF ToSet
<1>8. ctx' = [ctx EXCEPT !.pc = "expand", !.seeds = seeds] /\ ctx.pc = "search"
  BY <1>1, <1>4, <1>5 DEF SearchHybrid
<1>9. RetTyped'
  BY <1>7, <1>8 DEF SearchHybrid, RetrievalInv, RetTyped, CtxType
<1>10. /\ ctx'.pc = "expand" /\ ctx'.seeds = seeds
       /\ ctx'.items = <<>> /\ ctx'.used = 0 /\ ~ctx'.truncated /\ drafts' = drafts
  BY <1>8 DEF SearchHybrid, RetrievalInv, RetTyped, CtxType, Empty
<1> QED BY <1>2, <1>7, <1>9, <1>10 DEF RetrievalInv, Empty, SeedsShown, DraftsHidden, Packing

LEMMA ResolveScopeInv == ASSUME RetrievalInv, ResolveScope PROVE RetrievalInv'
<1>1. PICK seeds, found : seeds = ToSet(ctx.seeds) /\ found = Layers(seeds) \ deleted
  OBVIOUS
<1>2. Layers(seeds) = NearHits /\ seeds \in SUBSET Notes /\ seeds \subseteq NearHits /\ NearHits \subseteq Notes
  <2>1. RetTyped /\ ctx.seeds \in Seq(Notes)
    BY DEF RetrievalInv, RetTyped, CtxType
  <2>2. NearHits \subseteq Notes
    BY DEF NearHits
  <2> QED BY <1>1, <2>1, <2>2, LayersAreNear, SeedsAreNear
<1>3. PICK hidden : hidden = IF IncludeDraftNotes THEN {} ELSE drafts \ seeds
  OBVIOUS
<1>4. /\ ctx' = [ctx EXCEPT !.pc = "pack", !.scope = found \cup seeds, !.hidden = hidden, !.todo = found \cup seeds]
      /\ ctx.pc = "expand"
  BY <1>1, <1>3 DEF ResolveScope
<1>5. UNCHANGED <<links, lexical, semantic, drafts, deleted, changed>>
  BY DEF ResolveScope
<1>6. RetTyped'
  BY <1>1, <1>2, <1>3, <1>4, <1>5, ZenonT(60) DEF RetrievalInv, RetTyped, CtxType
<1>7. /\ ctx'.pc = "pack" /\ ctx'.hidden = hidden /\ ctx'.todo = found \cup seeds /\ ctx'.seeds = ctx.seeds
      /\ ctx'.items = <<>> /\ ctx'.used = 0 /\ ~ctx'.truncated
  BY <1>4 DEF RetrievalInv, RetTyped, CtxType, Empty
<1>8. NearHits' = NearHits
  BY <1>5, <1>7, NearSame
<1>9. DraftsHidden'
  <2>1. ~IncludeDraftNotes => seeds \cap drafts \subseteq changed
    BY <1>1, <1>4 DEF RetrievalInv, SeedsShown
  <2> QED BY <1>3, <1>5, <1>7, <2>1 DEF DraftsHidden
<1>10. Costs'
  <2>1. SumFunction([i \in DOMAIN ctx'.items |-> Fixed + ctx'.items[i].kept]) = 0
    <3>1. PICK f : f = [i \in {} |-> Fixed + ctx'.items[i].kept]
      OBVIOUS
    <3>2. f \in [{} -> Nat] /\ DOMAIN f = {} /\ DOMAIN ctx'.items = {}
      BY <1>7, <3>1
    <3>3. SumFunctionOnSet(f, {}) = 0
      BY <3>2, SumOfNone
    <3>4. SumFunction(f) = 0
      BY <3>2, <3>3 DEF SumFunction, SumFunctionOnSet, FoldFunction
    <3> QED BY <3>1, <3>2, <3>4
  <2> QED BY <1>7, <2>1, RetrievalAssumption DEF Costs
<1>11. PackedNotes' = {}
  BY <1>7 DEF PackedNotes
<1>12. Once'
  BY <1>7, <1>11, FS_EmptySet DEF Once
<1>13. Reach'
  <2>1. deleted \subseteq changed
    BY DEF RetrievalInv, RetTyped
  <2>2. PICK near : near = NearHits
    OBVIOUS
  <2>3. found = near \ deleted /\ seeds \subseteq near
    BY <1>1, <1>2, <2>2
  <2>4. found \cup seeds \subseteq near /\ near \subseteq (found \cup seeds) \cup changed
    BY <2>1, <2>3
  <2>5. NearHits' = near /\ changed' = changed /\ PackedNotes' = {} /\ ctx'.pc = "pack" /\ ctx'.todo = found \cup seeds
    BY <1>5, <1>7, <1>8, <1>11, <2>2
  <2>6. /\ PackedNotes' \subseteq NearHits' \ Stubs /\ PackedNotes' \cap ctx'.hidden = {}
        /\ ctx'.todo \subseteq NearHits' /\ ctx'.pc # "done"
    BY <2>4, <2>5
  <2>7. NearHits' \subseteq ctx'.todo \cup PackedNotes' \cup Stubs \cup changed' \cup ctx'.hidden
    BY <2>4, <2>5
  <2> QED BY <2>6, <2>7 DEF Reach
<1>14. Empty' /\ SeedsShown'
  BY <1>1, <1>4, <1>5, <1>7 DEF RetrievalInv, Empty, SeedsShown
<1> QED BY <1>6, <1>9, <1>10, <1>12, <1>13, <1>14 DEF RetrievalInv, Packing

\* What the packing of a note comes to.
LEMMA PackCases ==
  ASSUME RetrievalInv, NEW n \in Notes, Pack(n)
  PROVE  /\ n \in ctx.todo /\ ctx.pc = "pack"
         /\ ctx'.seeds = ctx.seeds /\ ctx'.hidden = ctx.hidden
         /\ \/ /\ ~Packable(n)
               /\ ctx' = [ctx EXCEPT !.todo = @ \ {n}]
            \/ \E kept \in Nat :
                 /\ Packable(n) /\ ctx'.items = Packed(n, kept) /\ ctx'.used = ctx.used + Fixed + kept
                 /\ \/ /\ ctx' = [ctx EXCEPT !.todo = @ \ {n}, !.items = Packed(n, kept), !.used = @ + Fixed + kept]
                       /\ ctx'.used <= Budget
                    \/ /\ ctx' = [ctx EXCEPT !.pc = "done", !.truncated = TRUE, !.items = Packed(n, kept),
                                             !.used = @ + Fixed + kept]
                       /\ ctx'.used <= Budget \/ ctx.items = <<>>
            \/ ctx' = [ctx EXCEPT !.pc = "done", !.truncated = TRUE]
<1>1. n \in ctx.todo /\ ctx.pc = "pack"
  BY DEF Pack, Turn
<1>2. ctx \in CtxType /\ ctx.used \in Nat /\ Fixed \in Nat /\ Tokens[n] \in Nat /\ Budget \in Nat
  BY RetrievalAssumption DEF RetrievalInv, RetTyped, CtxType
<1>3. PICK room : room = IF Budget > ctx.used + Fixed THEN Budget - ctx.used - Fixed ELSE 0
  OBVIOUS
<1>4. room \in Nat /\ (room > 0 => ctx.used + Fixed + room <= Budget)
  BY <1>2, <1>3
<1>5. PICK clip \in Nat : clip = Min({room, Tokens[n]}) /\ clip <= room
  BY <1>2, <1>4, LesserIsMin
<1>6. CASE ~Packable(n)
  <2>1. ctx' = [ctx EXCEPT !.todo = @ \ {n}]
    BY <1>6 DEF Pack
  <2> QED BY <1>1, <1>2, <1>6, <2>1 DEF CtxType
<1>7. CASE Packable(n) /\ Tokens[n] + Fixed + ctx.used <= Budget
  <2>1. ctx' = [ctx EXCEPT !.todo = @ \ {n}, !.items = Packed(n, Tokens[n]), !.used = @ + Fixed + Tokens[n]]
    BY <1>7 DEF Pack
  <2>2. ctx'.items = Packed(n, Tokens[n]) /\ ctx'.used = ctx.used + Fixed + Tokens[n]
        /\ ctx'.seeds = ctx.seeds /\ ctx'.hidden = ctx.hidden
    BY <1>2, <2>1 DEF CtxType
  <2>3. ctx'.used <= Budget
    BY <1>2, <1>7, <2>2
  <2> QED BY <1>1, <1>2, <1>7, <2>1, <2>2, <2>3
<1>8. CASE Packable(n) /\ ~(Tokens[n] + Fixed + ctx.used <= Budget) /\ (room > 0 \/ ctx.items = <<>>)
  <2>1. ctx' = [ctx EXCEPT !.pc = "done", !.truncated = TRUE, !.items = Packed(n, clip),
                           !.used = @ + Fixed + clip]
    BY <1>3, <1>5, <1>8 DEF Pack
  <2>2. ctx'.items = Packed(n, clip) /\ ctx'.used = ctx.used + Fixed + clip
        /\ ctx'.seeds = ctx.seeds /\ ctx'.hidden = ctx.hidden
    BY <1>2, <2>1 DEF CtxType
  <2>3. ctx'.used <= Budget \/ ctx.items = <<>>
    <3>1. CASE room > 0
      <4>1. ctx.used + Fixed + clip <= ctx.used + Fixed + room
        BY <1>2, <1>4, <1>5
      <4> QED BY <1>2, <1>4, <2>2, <3>1, <4>1
    <3> QED BY <1>8, <3>1
  <2> QED BY <1>1, <1>8, <2>1, <2>2, <2>3
<1>9. CASE Packable(n) /\ ~(Tokens[n] + Fixed + ctx.used <= Budget) /\ ~(room > 0 \/ ctx.items = <<>>)
  <2>1. ctx' = [ctx EXCEPT !.pc = "done", !.truncated = TRUE]
    BY <1>3, <1>9 DEF Pack
  <2> QED BY <1>1, <1>2, <2>1 DEF CtxType
<1> QED BY <1>6, <1>7, <1>8, <1>9

LEMMA PackInv == ASSUME RetrievalInv, NEW n \in Notes, Pack(n) PROVE RetrievalInv'
<1>0. /\ RetTyped /\ DraftsHidden /\ Packing /\ SeedsShown /\ ctx \in CtxType
      /\ UNCHANGED <<links, lexical, semantic, drafts, deleted, changed>>
  BY DEF RetrievalInv, RetTyped, Pack
<1>1. n \in ctx.todo /\ ctx.pc = "pack" /\ ctx'.seeds = ctx.seeds /\ ctx'.hidden = ctx.hidden
  BY PackCases
<1>2. NearHits' = NearHits
  BY <1>0, <1>1, NearSame
<1>3. Costs /\ Once /\ Reach
  BY <1>0, <1>1 DEF Packing
<1>4. CASE ~Packable(n) /\ ctx' = [ctx EXCEPT !.todo = @ \ {n}]
  <2>1. RetTyped'
    BY <1>0, <1>4 DEF RetTyped, CtxType
  <2>2. ctx'.pc = "pack" /\ ctx'.items = ctx.items /\ ctx'.used = ctx.used /\ ctx'.todo = ctx.todo \ {n}
    BY <1>0, <1>1, <1>4 DEF CtxType
  <2>3. n \in Stubs \cup ctx.hidden \cup changed
    BY <1>0, <1>4 DEF Packable, RetTyped
  <2>4. PackedNotes' = PackedNotes
    BY <2>2 DEF PackedNotes
  <2>5. Costs' /\ Once'
    BY <1>1, <1>3, <2>2, <2>4 DEF Costs, Once
  <2>6. Reach'
    BY <1>0, <1>1, <1>2, <1>3, <2>2, <2>3, <2>4 DEF Reach
  <2>7. DraftsHidden' /\ SeedsShown' /\ Empty'
    BY <1>0, <1>1, <2>2 DEF DraftsHidden, SeedsShown, Empty
  <2> QED BY <2>1, <2>5, <2>6, <2>7 DEF RetrievalInv, Packing
<1>5. CASE ctx' = [ctx EXCEPT !.pc = "done", !.truncated = TRUE]
  <2>1. RetTyped'
    BY <1>0, <1>5 DEF RetTyped, CtxType
  <2>2. ctx'.pc = "done" /\ ctx'.items = ctx.items /\ ctx'.used = ctx.used /\ ctx'.truncated
    BY <1>0, <1>1, <1>5 DEF CtxType
  <2>4. PackedNotes' = PackedNotes
    BY <2>2 DEF PackedNotes
  <2>5. Costs' /\ Once'
    BY <1>1, <1>3, <2>2, <2>4 DEF Costs, Once
  <2>6. Reach'
    BY <1>0, <1>1, <1>2, <1>3, <2>2, <2>4 DEF Reach
  <2>7. DraftsHidden' /\ SeedsShown' /\ Empty'
    BY <1>0, <1>1, <2>2 DEF DraftsHidden, SeedsShown, Empty
  <2> QED BY <2>1, <2>5, <2>6, <2>7 DEF RetrievalInv, Packing
<1>6. ASSUME NEW kept \in Nat, Packable(n), ctx'.items = Packed(n, kept), ctx'.used = ctx.used + Fixed + kept,
             \/ /\ ctx' = [ctx EXCEPT !.todo = @ \ {n}, !.items = Packed(n, kept), !.used = @ + Fixed + kept]
                /\ ctx'.used <= Budget
             \/ /\ ctx' = [ctx EXCEPT !.pc = "done", !.truncated = TRUE, !.items = Packed(n, kept),
                                      !.used = @ + Fixed + kept]
                /\ ctx'.used <= Budget \/ ctx.items = <<>>
      PROVE  RetrievalInv'
  <2>1. Packed(n, kept) \in Seq([note : Notes, kept : Nat]) /\ ctx.used + Fixed + kept \in Nat
    <3>1. PICK Item, new : Item = [note : Notes, kept : Nat] /\ new = [note |-> n, kept |-> kept]
      OBVIOUS
    <3>2. ctx.items \in Seq(Item) /\ ctx.used \in Nat /\ Fixed \in Nat
      BY <1>0, <3>1, RetrievalAssumption DEF CtxType
    <3>3. new \in Item
      BY <1>6, <3>1
    <3>4. Append(ctx.items, new) \in Seq(Item)
      BY <3>2, <3>3
    <3> QED BY <1>6, <3>1, <3>2, <3>4 DEF Packed
  <2>2. RetTyped'
    <3>1. PICK items, used, Items : items = Packed(n, kept) /\ used = ctx.used + Fixed + kept
                                    /\ Items = Seq([note : Notes, kept : Nat])
      OBVIOUS
    <3>2. items \in Items /\ used \in Nat
      BY <2>1, <3>1
    <3>3. \/ ctx' = [ctx EXCEPT !.todo = @ \ {n}, !.items = items, !.used = used]
          \/ ctx' = [ctx EXCEPT !.pc = "done", !.truncated = TRUE, !.items = items, !.used = used]
      BY <1>6, <3>1
    <3> DEFINE Type == [pc : {"index", "search", "expand", "pack", "done"}, seeds : Seq(Notes),
                        scope : SUBSET Notes, hidden : SUBSET Notes, todo : SUBSET Notes,
                        items : Items, used : Nat, truncated : BOOLEAN]
    <3>5. CtxType = Type
      BY <3>1 DEF CtxType
    <3>6. ctx \in Type
      BY <1>0, <3>5
    <3> SUFFICES ctx' \in Type
      BY <1>0, <3>5 DEF RetTyped
    <3>7. CASE ctx' = [ctx EXCEPT !.todo = @ \ {n}, !.items = items, !.used = used]
      BY <3>2, <3>6, <3>7
    <3>8. CASE ctx' = [ctx EXCEPT !.pc = "done", !.truncated = TRUE, !.items = items, !.used = used]
      BY <3>2, <3>6, <3>8
    <3> QED BY <3>3, <3>7, <3>8
  <2>3. /\ ctx'.used = SumFunction([i \in DOMAIN ctx'.items |-> Fixed + ctx'.items[i].kept])
        /\ PackedNotes' = PackedNotes \cup {n}
        /\ IsFiniteSet(PackedNotes') /\ Cardinality(PackedNotes') = Len(ctx'.items)
        /\ Len(ctx'.items) = Len(ctx.items) + 1
    BY <1>0, <1>1, <1>6, <2>2, PackAdds
  <2>4. n \in NearHits /\ n \notin Stubs /\ n \notin ctx.hidden
    BY <1>1, <1>3, <1>6 DEF Reach, Packable
  <2>5. \/ ctx'.pc = "pack" /\ ctx'.todo = ctx.todo \ {n} /\ ctx'.used <= Budget
        \/ ctx'.pc = "done" /\ ctx'.truncated /\ (ctx'.used <= Budget \/ Len(ctx'.items) = 1)
    <3>1. ctx.items = <<>> => Len(ctx'.items) = 1
      BY <2>3
    <3> QED BY <1>0, <1>1, <1>6, <3>1 DEF CtxType
  <2>6. Costs'
    BY <2>3, <2>5 DEF Costs
  <2>7. Once'
    BY <1>1, <1>3, <2>3, <2>5 DEF Once
  <2>8. Reach'
    BY <1>0, <1>1, <1>2, <1>3, <2>3, <2>4, <2>5 DEF Reach
  <2>9. DraftsHidden' /\ SeedsShown' /\ Empty'
    BY <1>0, <1>1, <2>5 DEF DraftsHidden, SeedsShown, Empty
  <2> QED BY <2>2, <2>6, <2>7, <2>8, <2>9 DEF RetrievalInv, Packing
<1> QED BY <1>4, <1>5, <1>6, PackCases

LEMMA PackEndInv == ASSUME RetrievalInv, PackEnd PROVE RetrievalInv'
<1>0. /\ RetTyped /\ DraftsHidden /\ Packing /\ ctx \in CtxType
      /\ UNCHANGED <<links, lexical, semantic, drafts, deleted, changed>>
      /\ ctx.pc = "pack" /\ ctx.todo = {} /\ ctx' = [ctx EXCEPT !.pc = "done"]
  BY DEF RetrievalInv, RetTyped, PackEnd
<1>1. /\ ctx'.pc = "done" /\ ctx'.items = ctx.items /\ ctx'.used = ctx.used
      /\ ctx'.seeds = ctx.seeds /\ ctx'.hidden = ctx.hidden
  BY <1>0 DEF CtxType
<1>2. NearHits' = NearHits /\ PackedNotes' = PackedNotes
  BY <1>0, <1>1, NearSame DEF PackedNotes
<1>3. Costs /\ Once /\ Reach
  BY <1>0 DEF Packing
<1>4. RetTyped'
  BY <1>0 DEF RetTyped, CtxType
<1>5. Costs' /\ Once'
  BY <1>0, <1>1, <1>2, <1>3 DEF Costs, Once
<1>6. Reach'
  BY <1>0, <1>1, <1>2, <1>3 DEF Reach
<1>7. DraftsHidden'
  BY <1>0, <1>1 DEF DraftsHidden
<1> QED BY <1>1, <1>4, <1>5, <1>6, <1>7 DEF RetrievalInv, Empty, SeedsShown, Packing, DraftsHidden

LEMMA ChangeNoteInv == ASSUME RetrievalInv, NEW n \in Notes, ChangeNote(n) PROVE RetrievalInv'
<1>0. /\ RetTyped /\ Empty /\ SeedsShown /\ DraftsHidden /\ Packing
      /\ UNCHANGED <<links, lexical, semantic, ctx>> /\ ctx.pc \in {"expand", "pack"}
      /\ changed' = changed \cup {n}
      /\ drafts \subseteq drafts' /\ drafts' \subseteq drafts \cup {n}
      /\ deleted' \subseteq deleted \cup {n}
  BY DEF RetrievalInv, ChangeNote
<1>1. RetTyped'
  BY <1>0 DEF RetTyped
<1>2. NearHits' = NearHits /\ PackedNotes' = PackedNotes
  BY <1>0, NearSame DEF PackedNotes
<1>3. SeedsShown' /\ DraftsHidden' /\ Empty'
  BY <1>0 DEF SeedsShown, DraftsHidden, Empty
<1>4. ASSUME ctx.pc = "pack" PROVE Costs' /\ Once' /\ Reach'
  <2>1. Costs /\ Once /\ Reach
    BY <1>0, <1>4 DEF Packing
  <2>2. Costs' /\ Once'
    BY <1>0, <1>2, <2>1 DEF Costs, Once
  <2>3. Reach'
    BY <1>0, <1>2, <1>4, <2>1 DEF Reach
  <2> QED BY <2>2, <2>3
<1> QED BY <1>0, <1>1, <1>3, <1>4 DEF RetrievalInv, Packing

LEMMA RetrievalStep == RetrievalInv /\ [RetrievalNext]_retrievalVars => RetrievalInv'
<1> SUFFICES ASSUME RetrievalInv, [RetrievalNext]_retrievalVars PROVE RetrievalInv'
  OBVIOUS
<1>1. CASE UNCHANGED retrievalVars
  BY <1>1, NearSame DEF retrievalVars, RetrievalInv, RetTyped, Empty, SeedsShown, DraftsHidden, Packing,
     Costs, Once, Reach, PackedNotes
<1>2. CASE RetrievalNext
  BY <1>2, RetrievalIndexInv, SearchHybridInv, ResolveScopeInv, PackInv, PackEndInv, ChangeNoteInv DEF RetrievalNext
<1> QED BY <1>1, <1>2

LEMMA RetrievalAlways == RetrievalSpec => []RetrievalInv
BY RetrievalInitInv, RetrievalStep, PTL DEF RetrievalSpec

\* A context's hits, its notes and what it still has to read are notes, and
\* every item it holds is one with an estimate (brain/src/hub.ts, getContext).
THEOREM RetrievalTyped == RetrievalSpec => []RetrievalTypeOK
<1>1. RetrievalInv => RetrievalTypeOK
  <2> SUFFICES ASSUME RetrievalInv PROVE RetrievalTypeOK
    OBVIOUS
  <2>1. /\ ctx.pc \in {"index", "search", "expand", "pack", "done"}
        /\ ctx.seeds \in Seq(Notes) /\ ctx.todo \subseteq Notes /\ ctx.hidden \subseteq Notes
        /\ ctx.items \in Seq([note : Notes, kept : Nat])
    BY DEF RetrievalInv, RetTyped, CtxType
  <2>2. ToSet(ctx.seeds) \subseteq Notes
    BY <2>1 DEF ToSet
  <2>3. \A i \in DOMAIN ctx.items : ctx.items[i] \in [note : Notes, kept : Nat]
    <3>1. PICK Item : Item = [note : Notes, kept : Nat]
      OBVIOUS
    <3>2. ctx.items \in Seq(Item)
      BY <2>1, <3>1
    <3>3. \A i \in DOMAIN ctx.items : ctx.items[i] \in Item
      BY <3>2
    <3> QED BY <3>1, <3>3
  <2> QED BY <2>1, <2>2, <2>3 DEF RetrievalTypeOK
<1> QED BY <1>1, RetrievalAlways, PTL

\* For any graph, rankings, estimates and budget, and whatever is deleted or
\* made a draft meanwhile: the context costs what it says and stays within the
\* budget, but for a first note whose title alone is more; it holds no note
\* twice, none out of reach of a hit and no draft that was one when the graph
\* was read; and nothing in reach is missing when nothing was cut.
THEOREM ContextIsSound == RetrievalSpec => []ContextSound
<1>1. RetrievalInv => ContextSound
  <2> SUFFICES ASSUME RetrievalInv, ctx.pc \in {"pack", "done"} PROVE ContextSound
    BY DEF ContextSound
  <2>1. Costs /\ Once /\ Reach /\ DraftsHidden
    BY DEF RetrievalInv, Packing
  <2>2. PackedNotes = {ctx.items[i].note : i \in DOMAIN ctx.items}
    BY DEF PackedNotes
  <2>3. ctx.used = SumFunction([i \in DOMAIN ctx.items |-> Fixed + ctx.items[i].kept])
        /\ (ctx.used <= Budget \/ Len(ctx.items) = 1) /\ Cardinality(PackedNotes) = Len(ctx.items)
    BY <2>1 DEF Costs, Once
  <2>4. PackedNotes \subseteq NearHits \ Stubs /\ (~IncludeDraftNotes => PackedNotes \cap drafts \subseteq changed)
    BY <2>1 DEF Reach, DraftsHidden
  <2>5. ctx.pc = "done" /\ ~ctx.truncated =>
          NearHits \subseteq PackedNotes \cup Stubs \cup changed \cup IF IncludeDraftNotes THEN {} ELSE drafts
    BY <2>1 DEF Reach, DraftsHidden
  <2> QED BY <2>2, <2>3, <2>4, <2>5 DEF ContextSound
<1> QED BY <1>1, RetrievalAlways, PTL

----------------------------------------------------------------------------
(* The parts together.                                                     *)

\* A step of a space is one of each part, or leaves it as it is.
LEMMA StepOfParts ==
  ASSUME [SpaceNext]_spaceVars
  PROVE  /\ [GatesNext]_gateVars /\ [IndexNext]_indexVars /\ [RevertNext]_revertVars
         /\ [BlobsNext]_blobVars /\ [RetrievalNext]_retrievalVars /\ [DiffNext]_diffVars
         /\ [LimiterNext]_limiterVars /\ [VaultNext]_vaultVars
BY DEF SpaceNext, spaceVars

\* The composition constrains no part: every behaviour of a space is one of
\* each of its parts, so that what holds of a part holds in a space.
LEMMA PartsAreTheirOwn ==
  SpaceSpec => /\ GatesSpec /\ IndexSpec /\ RevertSpec /\ BlobsSpec
               /\ RetrievalSpec /\ DiffSpec /\ LimiterSpec /\ VaultSpec
<1>1. SpaceInit => /\ GatesInit /\ IndexInit /\ RevertInit /\ BlobsInit
                   /\ RetrievalInit /\ DiffInit /\ LimiterInit /\ VaultInit
  BY DEF SpaceInit
<1>2. [SpaceNext]_spaceVars =>
        /\ [GatesNext]_gateVars /\ [IndexNext]_indexVars /\ [RevertNext]_revertVars
        /\ [BlobsNext]_blobVars /\ [RetrievalNext]_retrievalVars /\ [DiffNext]_diffVars
        /\ [LimiterNext]_limiterVars /\ [VaultNext]_vaultVars
  BY StepOfParts
<1> QED BY <1>1, <1>2, PTL DEF SpaceSpec, GatesSpec, IndexSpec, RevertSpec, BlobsSpec,
           RetrievalSpec, DiffSpec, LimiterSpec, VaultSpec

\* Whatever part is looked at, its variables are of their types in every
\* reachable state of a space.
THEOREM SpaceTyped == SpaceSpec => []TypeOK
<1>1. SpaceInit => part \in Parts
  BY DEF SpaceInit
<1>2. part \in Parts /\ [SpaceNext]_spaceVars => (part \in Parts)'
  BY DEF SpaceNext, spaceVars
<1>3. SpaceSpec => [](part \in Parts)
  BY <1>1, <1>2, PTL DEF SpaceSpec
<1>4. /\ part \in Parts /\ GatesTypeOK /\ IndexTypeOK /\ RevertTypeOK /\ BlobsTypeOK
      /\ RetrievalTypeOK /\ DiffInv /\ LimiterTypeOK /\ VaultTypeOK
      => TypeOK
  <2> SUFFICES ASSUME part \in Parts, GatesTypeOK, IndexTypeOK, RevertTypeOK, BlobsTypeOK,
                      RetrievalTypeOK, DiffInv, LimiterTypeOK, VaultTypeOK
               PROVE  TypeOK
    OBVIOUS
  <2>1. edited \in {oldText, newText}
    BY DEF DiffInv
  <2>2. part \in {"gates", "index", "revert", "blobs", "retrieval", "diff", "limiter", "vault"}
    BY SpaceAssumption
  <2> QED BY <2>1, <2>2 DEF TypeOK
<1> QED BY <1>3, <1>4, PartsAreTheirOwn, GatesTyped, IndexTyped, RevertTyped, BlobsTyped,
           RetrievalTyped, DiffAlways, LimiterTyped, VaultTypeCorrect, PTL
=============================================================================
