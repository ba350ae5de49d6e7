------------------------------ MODULE FoldTheorems ------------------------------
(***************************************************************************)
(* What the proofs need to know of the folds of the community modules with *)
(* which the models add up and choose: that the recursion behind them does *)
(* define something for every finite set, and, for sums of integers, that  *)
(* the order of addition is free and what follows from it.                 *)
(*                                                                         *)
(* Induction is the minimum of a well-founded order here: the sets that    *)
(* would refute a lemma have no smallest one.                              *)
(***************************************************************************)
EXTENDS Integers, Sequences, SequencesExt, FiniteSetTheorems, TLAPS

(* Among subsets of a finite set there is one that contains no other.      *)
LEMMA SmallestSubset ==
    ASSUME NEW S, IsFiniteSet(S), NEW Bad \in SUBSET SUBSET S, Bad # {}
    PROVE  \E T \in Bad : \A U \in SUBSET T : U # T => U \notin Bad
<1>1. IsWellFoundedOn(StrictSubsetOrdering(S), SUBSET S)
  BY FS_FiniteSubsetsOfFinite, FS_StrictSubsetOrderingWellFounded, Zenon
<1>2. Bad \subseteq SUBSET S
  OBVIOUS
<1>3. \E T \in Bad : \A U \in Bad : ~(<<U, T>> \in StrictSubsetOrdering(S))
  BY <1>1, <1>2, WFMin, Zenon
<1>4. PICK T \in Bad : \A U \in Bad : ~(<<U, T>> \in StrictSubsetOrdering(S))
  BY <1>3
<1>5. ASSUME NEW U \in SUBSET T, U # T, U \in Bad PROVE FALSE
  <2>1. U \in SUBSET S /\ T \in SUBSET S
    OBVIOUS
  <2>2. <<U, T>> \in StrictSubsetOrdering(S)
    BY <1>5, <2>1 DEF StrictSubsetOrdering
  <2> QED
    BY <1>4, <1>5, <2>2
<1> QED
  BY <1>5

(* Induction from the smaller sets to the larger ones.                     *)
LEMMA SubsetsByInclusion ==
    ASSUME NEW S, IsFiniteSet(S), NEW G,
           \A T \in SUBSET S : (\A U \in SUBSET T : U # T => U \in G) => T \in G
    PROVE  \A T \in SUBSET S : T \in G
<1> DEFINE Bad == {T \in SUBSET S : T \notin G}
<1>1. SUFFICES ASSUME Bad # {} PROVE FALSE
  OBVIOUS
<1>2. Bad \in SUBSET SUBSET S
  OBVIOUS
<1>3. PICK T \in Bad : \A U \in SUBSET T : U # T => U \notin Bad
  <2> HIDE DEF Bad
  <2> QED
    BY <1>1, <1>2, SmallestSubset
<1> QED
  BY <1>3

(* Induction from a set without one of its elements to the set.            *)
LEMMA SubsetsByRemoval ==
    ASSUME NEW S, IsFiniteSet(S), NEW G, {} \in G,
           \A T \in SUBSET S : T # {} => \E x \in T : (T \ {x} \in G => T \in G)
    PROVE  \A T \in SUBSET S : T \in G
<1>1. ASSUME NEW T \in SUBSET S, \A U \in SUBSET T : U # T => U \in G PROVE T \in G
  <2>1. CASE T = {}
    BY <2>1
  <2>2. CASE T # {}
    <3>1. PICK x \in T : T \ {x} \in G => T \in G
      BY <2>2
    <3>2. T \ {x} \in SUBSET T /\ T \ {x} # T
      OBVIOUS
    <3> QED
      BY <1>1, <3>1, <3>2
  <2> QED
    BY <2>1, <2>2
<1> QED
  BY <1>1, SubsetsByInclusion, Zenon

-----------------------------------------------------------------------------
(* The next element for every non-empty subset.                            *)
Chooses(c, S) == \A s \in SUBSET S : s # {} => c[s] \in s

(* h[s] is what folding op over the elements of s comes to, in the order   *)
(* given by c; op[x][v] is the value for v and one more element x.         *)
Folds(h, op, base, c, S) ==
    \A s \in SUBSET S :
        h[s] = IF s = {} THEN base ELSE op[c[s]][h[s \ {c[s]}]]

(* Two that fold in the same order agree.                                  *)
LEMMA FoldsUnique ==
    ASSUME NEW S, IsFiniteSet(S), NEW op, NEW base, NEW c, Chooses(c, S),
           NEW T \in SUBSET S, NEW g, Folds(g, op, base, c, T),
           NEW U \in SUBSET S, NEW h, Folds(h, op, base, c, U)
    PROVE  \A s \in SUBSET S : s \subseteq T /\ s \subseteq U => g[s] = h[s]
<1> DEFINE G == {s \in SUBSET S : s \subseteq T /\ s \subseteq U => g[s] = h[s]}
<1>1. {} \in G
  BY DEF Folds
<1>2. ASSUME NEW s \in SUBSET S, s # {} PROVE \E x \in s : (s \ {x} \in G => s \in G)
  <2>1. c[s] \in s
    BY <1>2 DEF Chooses
  <2>2. ASSUME s \ {c[s]} \in G, s \subseteq T, s \subseteq U PROVE g[s] = h[s]
    <3>1. g[s] = op[c[s]][g[s \ {c[s]}]] /\ h[s] = op[c[s]][h[s \ {c[s]}]]
      BY <1>2, <2>2 DEF Folds
    <3> QED
      BY <2>2, <3>1
  <2> QED
    BY <2>1, <2>2
<1> HIDE DEF G
<1>3. \A s \in SUBSET S : s \in G
  BY <1>1, <1>2, SubsetsByRemoval, Zenon
<1> QED
  BY <1>3 DEF G

(* There is one for all subsets.                                           *)
LEMMA FoldsExist ==
    ASSUME NEW S, IsFiniteSet(S), NEW op, NEW base, NEW c, Chooses(c, S)
    PROVE  \E h : Folds(h, op, base, c, S)
<1> DEFINE G == {T \in SUBSET S : \E h : Folds(h, op, base, c, T)}
<1>1. ASSUME NEW T \in SUBSET S, \A U \in SUBSET T : U # T => U \in G PROVE T \in G
  <2> DEFINE of[U \in SUBSET T] == CHOOSE h : Folds(h, op, base, c, U)
             sub(U) == of[U][U]
             h == [s \in SUBSET T |->
                     IF s = {} THEN base ELSE op[c[s]][sub(s \ {c[s]})]]
  <2>1. ASSUME NEW U \in SUBSET T, U # T PROVE Folds(of[U], op, base, c, U)
    <3>1. \E g : Folds(g, op, base, c, U)
      BY <1>1, <2>1
    <3>2. of[U] = CHOOSE g : Folds(g, op, base, c, U)
      OBVIOUS
    <3> QED
      BY <3>1, <3>2, Zenon
  <2>2. ASSUME NEW s \in SUBSET T, s # T PROVE h[s] = sub(s)
    <3> HIDE DEF of
    <3>1. CASE s = {}
      BY <2>1, <2>2, <3>1 DEF Folds
    <3>2. CASE s # {}
      <4>1. c[s] \in s
        BY <3>2 DEF Chooses
      <4> DEFINE r == s \ {c[s]}
      <4>2. r \in SUBSET T /\ r # T /\ r \subseteq s /\ s \subseteq S /\ r \subseteq S
        BY <4>1
      <4>3. of[s][s] = op[c[s]][of[s][r]]
        BY <2>1, <2>2, <3>2 DEF Folds
      <4>4. Folds(of[s], op, base, c, s) /\ Folds(of[r], op, base, c, r)
        BY <2>1, <2>2, <4>2
      <4> HIDE DEF r
      <4>5. s \in SUBSET S /\ r \in SUBSET S
        BY <4>2
      <4>6. ASSUME NEW g, Folds(g, op, base, c, s), NEW k, Folds(k, op, base, c, r) PROVE g[r] = k[r]
        BY <4>2, <4>5, <4>6, FoldsUnique
      <4>7. of[s][r] = of[r][r]
        BY <4>4, <4>6
      <4> QED
        BY <3>2, <4>3, <4>7 DEF r
    <3> QED
      BY <3>1, <3>2
  <2>3. ASSUME NEW s \in SUBSET T
        PROVE  h[s] = IF s = {} THEN base ELSE op[c[s]][h[s \ {c[s]}]]
    <3>1. CASE s = {}
      BY <3>1
    <3>2. CASE s # {}
      <4>1. c[s] \in s
        BY <3>2 DEF Chooses
      <4>2. s \ {c[s]} \in SUBSET T /\ s \ {c[s]} # T
        BY <4>1
      <4>3. h[s \ {c[s]}] = sub(s \ {c[s]})
        BY <2>2, <4>2
      <4>4. h[s] = op[c[s]][sub(s \ {c[s]})]
        BY <3>2
      <4> HIDE DEF h, sub, of
      <4> QED
        BY <3>2, <4>3, <4>4
    <3> QED
      BY <3>1, <3>2
  <2>4. Folds(h, op, base, c, T)
    <3> HIDE DEF h
    <3> QED
      BY <2>3 DEF Folds
  <2> HIDE DEF h
  <2> QED
    BY <2>4
<1> HIDE DEF G
<1>2. \A T \in SUBSET S : T \in G
  BY <1>1, SubsetsByInclusion, Zenon
<1> QED
  BY <1>2 DEF G

(* Folding stays in a set that no single step leaves.                      *)
LEMMA FoldsTyped ==
    ASSUME NEW S, IsFiniteSet(S), NEW op, NEW V, NEW base \in V, NEW c, Chooses(c, S),
           NEW h, Folds(h, op, base, c, S),
           \A x \in S, v \in V : op[x][v] \in V
    PROVE  \A s \in SUBSET S : h[s] \in V
<1> DEFINE G == {s \in SUBSET S : h[s] \in V}
<1>1. {} \in G
  BY DEF Folds
<1>2. ASSUME NEW s \in SUBSET S, s # {} PROVE \E x \in s : (s \ {x} \in G => s \in G)
  <2>1. c[s] \in s
    BY <1>2 DEF Chooses
  <2>2. h[s] = op[c[s]][h[s \ {c[s]}]]
    BY <1>2 DEF Folds
  <2>3. ASSUME h[s \ {c[s]}] \in V PROVE h[s] \in V
    BY <2>1, <2>2, <2>3
  <2> QED
    BY <2>1, <2>3
<1> HIDE DEF G
<1>3. \A s \in SUBSET S : s \in G
  BY <1>1, <1>2, SubsetsByRemoval, Zenon
<1> QED
  BY <1>3 DEF G

(* h adds f up over every subset of S, in the order given by c.            *)
Adds(h, f, c, S) ==
    \A s \in SUBSET S : h[s] = IF s = {} THEN 0 ELSE f[c[s]] + h[s \ {c[s]}]

(* Two that add up in the same order agree.                                *)
LEMMA AddsUnique ==
    ASSUME NEW S, IsFiniteSet(S), NEW f, NEW c, Chooses(c, S),
           NEW T \in SUBSET S, NEW g, Adds(g, f, c, T),
           NEW U \in SUBSET S, NEW h, Adds(h, f, c, U)
    PROVE  \A s \in SUBSET S : s \subseteq T /\ s \subseteq U => g[s] = h[s]
<1> DEFINE G == {s \in SUBSET S : s \subseteq T /\ s \subseteq U => g[s] = h[s]}
<1>1. {} \in G
  BY DEF Adds
<1>2. ASSUME NEW s \in SUBSET S, s # {} PROVE \E x \in s : (s \ {x} \in G => s \in G)
  <2>1. c[s] \in s
    BY <1>2 DEF Chooses
  <2>2. ASSUME s \ {c[s]} \in G, s \subseteq T, s \subseteq U PROVE g[s] = h[s]
    <3>1. g[s] = f[c[s]] + g[s \ {c[s]}] /\ h[s] = f[c[s]] + h[s \ {c[s]}]
      BY <1>2, <2>2 DEF Adds
    <3> QED
      BY <2>2, <3>1
  <2> QED
    BY <2>1, <2>2
<1> HIDE DEF G
<1>3. \A s \in SUBSET S : s \in G
  BY <1>1, <1>2, SubsetsByRemoval, Zenon
<1> QED
  BY <1>3 DEF G

(* There is one that adds up over all subsets.                             *)
LEMMA AddsExists ==
    ASSUME NEW S, IsFiniteSet(S), NEW f, NEW c, Chooses(c, S), \A x \in S : f[x] \in Int
    PROVE  \E h : Adds(h, f, c, S)
<1> DEFINE op == [x \in S |-> [v \in Int |-> f[x] + v]]
<1>1. PICK h : Folds(h, op, 0, c, S)
  <2> HIDE DEF op
  <2> QED
    BY FoldsExist
<1>2. \A x \in S : f[x] \in Int /\ \A v \in Int : op[x][v] = f[x] + v
  OBVIOUS
<1> HIDE DEF op
<1>3. \A s \in SUBSET S : h[s] \in Int
  <2>1. \A x \in S, v \in Int : op[x][v] \in Int
    BY <1>2
  <2> QED
    BY <1>1, <2>1, FoldsTyped
<1>4. ASSUME NEW s \in SUBSET S
      PROVE  h[s] = IF s = {} THEN 0 ELSE f[c[s]] + h[s \ {c[s]}]
  <2>1. CASE s = {}
    BY <1>1, <2>1 DEF Folds
  <2>2. CASE s # {}
    <3>1. c[s] \in S /\ h[s \ {c[s]}] \in Int
      BY <1>3, <2>2 DEF Chooses
    <3>2. h[s] = op[c[s]][h[s \ {c[s]}]]
      BY <1>1, <2>2 DEF Folds
    <3> QED
      BY <1>2, <2>2, <3>1, <3>2
  <2> QED
    BY <2>1, <2>2
<1> QED
  BY <1>4 DEF Adds

(* Adding up in the given order comes to an integer, and any element may   *)
(* be taken first.                                                         *)
LEMMA AddsAnyFirst ==
    ASSUME NEW S, IsFiniteSet(S), NEW f, NEW c, Chooses(c, S), NEW h, Adds(h, f, c, S),
           \A x \in S : f[x] \in Int
    PROVE  \A T \in SUBSET S : h[T] \in Int /\ \A x \in T : h[T] = f[x] + h[T \ {x}]
<1> DEFINE Good(T) == h[T] \in Int /\ \A x \in T : h[T] = f[x] + h[T \ {x}]
           G == {T \in SUBSET S : Good(T)}
<1>1. ASSUME NEW T \in SUBSET S, \A U \in SUBSET T : U # T => U \in G PROVE T \in G
  <2>1. CASE T = {}
    <3>1. h[T] = 0
      BY <2>1 DEF Adds
    <3> QED
      BY <2>1, <3>1
  <2>2. CASE T # {}
    <3> DEFINE y == c[T]
    <3>1. y \in T
      BY <2>2 DEF Chooses
    <3>2. h[T] = f[y] + h[T \ {y}]
      BY <2>2 DEF Adds
    <3> HIDE DEF y
    <3>3. \A x \in T : T \ {x} \in G
      <4>1. \A x \in T : T \ {x} \in SUBSET T /\ T \ {x} # T
        OBVIOUS
      <4> QED
        BY <1>1, <4>1
    <3>4. \A x \in T : h[T \ {x}] \in Int
      BY <3>3
    <3>5. f[y] \in Int /\ h[T] \in Int
      <4>1. f[y] \in Int /\ h[T \ {y}] \in Int
        BY <3>1, <3>4
      <4> QED
        BY <3>2, <4>1
    <3>6. ASSUME NEW x \in T, x # y PROVE h[T] = f[x] + h[T \ {x}]
      <4> DEFINE r == (T \ {y}) \ {x}
      <4>1. x \in T \ {y} /\ y \in T \ {x} /\ (T \ {x}) \ {y} = r
        BY <3>1, <3>6
      <4>2. h[T \ {y}] = f[x] + h[r]
        BY <3>1, <3>3, <4>1
      <4>3. h[T \ {x}] = f[y] + h[r]
        BY <3>3, <4>1
      <4>4. r \in SUBSET T /\ r # T
        BY <4>1
      <4>5. h[r] \in Int /\ f[x] \in Int
        BY <1>1, <4>4
      <4> HIDE DEF r
      <4> QED
        BY <3>2, <3>5, <4>2, <4>3, <4>5
    <3> QED
      BY <3>2, <3>5, <3>6
  <2> QED
    BY <2>1, <2>2
<1> HIDE DEF G
<1>2. \A T \in SUBSET S : T \in G
  BY <1>1, SubsetsByInclusion, Zenon
<1> QED
  BY <1>2 DEF G

-----------------------------------------------------------------------------
(* What SumFunctionOnSet is, its definitions expanded.                     *)
LEMMA SumExpanded ==
    ASSUME NEW f, NEW S
    PROVE  SumFunctionOnSet(f, S) =
              (CHOOSE h : h = [s \in SUBSET S |->
                  IF s = {} THEN 0
                  ELSE LET x == CHOOSE x \in s : TRUE IN f[x] + h[s \ {x}]])[S]
  BY Zenon DEF SumFunctionOnSet, FoldFunctionOnSet, MapThenFoldSet

(* It adds up over any larger set there is.                                *)
LEMMA SumAdds ==
    ASSUME NEW S, IsFiniteSet(S), NEW f, \A x \in S : f[x] \in Int
    PROVE  \E c, h : /\ Chooses(c, S) /\ Adds(h, f, c, S)
                     /\ \A T \in SUBSET S : SumFunctionOnSet(f, T) = h[T]
<1> DEFINE c == [s \in SUBSET S |-> CHOOSE x \in s : TRUE]
           Rec(h, T) == h = [s \in SUBSET T |->
                              IF s = {} THEN 0
                              ELSE LET x == CHOOSE x \in s : TRUE IN f[x] + h[s \ {x}]]
<1>1. Chooses(c, S)
  <2>1. ASSUME NEW s \in SUBSET S, s # {} PROVE (CHOOSE x \in s : TRUE) \in s
    <3>1. \E x \in s : TRUE
      BY <2>1
    <3> QED
      BY <3>1, Zenon
  <2> QED
    BY <2>1 DEF Chooses
<1>2. ASSUME NEW T \in SUBSET S, NEW h, Rec(h, T) PROVE Adds(h, f, c, T)
  <2> SUFFICES ASSUME NEW s \in SUBSET T
               PROVE  h[s] = IF s = {} THEN 0 ELSE f[c[s]] + h[s \ {c[s]}]
    BY DEF Adds
  <2>1. h[s] = IF s = {} THEN 0
               ELSE f[CHOOSE x \in s : TRUE] + h[s \ {CHOOSE x \in s : TRUE}]
    BY <1>2
  <2>2. c[s] = CHOOSE x \in s : TRUE
    OBVIOUS
  <2> QED
    BY <2>1, <2>2
<1>3. ASSUME NEW T \in SUBSET S, NEW h, Adds(h, f, c, T)
      PROVE  \E g : Rec(g, T)
  <2> DEFINE g == [s \in SUBSET T |-> h[s]]
  <2>1. ASSUME NEW s \in SUBSET T
        PROVE  g[s] = IF s = {} THEN 0
                      ELSE f[CHOOSE x \in s : TRUE] + g[s \ {CHOOSE x \in s : TRUE}]
    <3>1. c[s] = CHOOSE x \in s : TRUE
      OBVIOUS
    <3>2. g[s] = IF s = {} THEN 0 ELSE f[c[s]] + h[s \ {c[s]}]
      BY <1>3 DEF Adds
    <3>3. s \ {c[s]} \in SUBSET T
      OBVIOUS
    <3> QED
      BY <3>1, <3>2, <3>3
  <2>2. Rec(g, T)
    BY <2>1
  <2> HIDE DEF g
  <2> QED
    BY <2>2
<1>4. ASSUME NEW T \in SUBSET S
      PROVE  \E g : Adds(g, f, c, T) /\ SumFunctionOnSet(f, T) = g[T]
  <2>1. IsFiniteSet(T) /\ Chooses(c, T)
    BY <1>1, FS_Subset DEF Chooses
  <2>2. \E h : Adds(h, f, c, T)
    <3> HIDE DEF c
    <3> QED
      BY <2>1, AddsExists
  <2>3. \E g : Rec(g, T)
    BY <1>3, <2>2
  <2> DEFINE g == CHOOSE g : Rec(g, T)
  <2>4. Rec(g, T)
    <3> HIDE DEF Rec
    <3> QED
      BY <2>3, Zenon
  <2>5. Adds(g, f, c, T)
    <3> HIDE DEF g
    <3> QED
      BY <1>2, <2>4
  <2>6. SumFunctionOnSet(f, T) = g[T]
    BY SumExpanded, Zenon
  <2> HIDE DEF g
  <2> QED
    BY <2>5, <2>6
<1> HIDE DEF c
<1>5. PICK h : Adds(h, f, c, S)
  BY <1>1, AddsExists
<1>6. ASSUME NEW T \in SUBSET S PROVE SumFunctionOnSet(f, T) = h[T]
  <2>1. PICK g : Adds(g, f, c, T) /\ SumFunctionOnSet(f, T) = g[T]
    BY <1>4
  <2>2. S \in SUBSET S
    OBVIOUS
  <2>3. \A s \in SUBSET S : s \subseteq T /\ s \subseteq S => g[s] = h[s]
    BY <1>1, <1>5, <2>1, <2>2, AddsUnique
  <2> QED
    BY <2>1, <2>3
<1> QED
  BY <1>1, <1>5, <1>6

(* The sum over no element is 0.                                           *)
LEMMA SumOfNone ==
    ASSUME NEW f
    PROVE  SumFunctionOnSet(f, {}) = 0
<1>1. IsFiniteSet({})
  BY FS_EmptySet
<1>2. PICK c, h : Adds(h, f, c, {}) /\ \A T \in SUBSET {} : SumFunctionOnSet(f, T) = h[T]
  BY <1>1, SumAdds
<1> QED
  BY <1>2 DEF Adds

(* The sum is an integer, and any element may be taken out.                *)
LEMMA SumTakeOut ==
    ASSUME NEW S, IsFiniteSet(S), NEW f, \A x \in S : f[x] \in Int
    PROVE  /\ SumFunctionOnSet(f, S) \in Int
           /\ \A x \in S : SumFunctionOnSet(f, S) = f[x] + SumFunctionOnSet(f, S \ {x})
<1>1. PICK c, h : /\ Chooses(c, S) /\ Adds(h, f, c, S)
                  /\ \A T \in SUBSET S : SumFunctionOnSet(f, T) = h[T]
  BY SumAdds
<1>2. h[S] \in Int /\ \A x \in S : h[S] = f[x] + h[S \ {x}]
  BY <1>1, AddsAnyFirst
<1>3. S \in SUBSET S /\ \A x \in S : S \ {x} \in SUBSET S
  OBVIOUS
<1> QED
  BY <1>1, <1>2, <1>3

-----------------------------------------------------------------------------
(* Linear bounds of the single values add up to a bound of the sum.        *)
LEMMA SumLinear ==
    ASSUME NEW S, IsFiniteSet(S), NEW f, NEW g, NEW a \in Int, NEW b \in Int, NEW d \in Int,
           \A x \in S : f[x] \in Int /\ g[x] \in Int,
           \A x \in S : a * f[x] <= b * g[x] + d
    PROVE  a * SumFunctionOnSet(f, S)
              <= b * SumFunctionOnSet(g, S) + d * Cardinality(S)
<1> DEFINE F(T) == SumFunctionOnSet(f, T)
           H(T) == SumFunctionOnSet(g, T)
           G == {T \in SUBSET S : a * F(T) <= b * H(T) + d * Cardinality(T)}
<1>1. {} \in G
  <2>1. F({}) = 0 /\ H({}) = 0 /\ Cardinality({}) = 0
    BY SumOfNone, FS_EmptySet
  <2>2. a * 0 <= b * 0 + d * 0
    OBVIOUS
  <2> QED
    BY <2>1, <2>2
<1>2. ASSUME NEW T \in SUBSET S, T # {} PROVE \E x \in T : (T \ {x} \in G => T \in G)
  <2>1. PICK x \in T : TRUE
    BY <1>2
  <2>2. IsFiniteSet(T) /\ IsFiniteSet(T \ {x})
    BY FS_Subset
  <2>3. F(T) \in Int /\ F(T) = f[x] + F(T \ {x}) /\ H(T) \in Int /\ H(T) = g[x] + H(T \ {x})
    BY <2>2, SumTakeOut
  <2>4. F(T \ {x}) \in Int /\ H(T \ {x}) \in Int
    BY <2>2, SumTakeOut
  <2>5. Cardinality(T) \in Nat /\ Cardinality(T \ {x}) = Cardinality(T) - 1
    BY <2>2, FS_CardinalityType, FS_RemoveElement
  <2>6. x \in S
    OBVIOUS
  <2> HIDE DEF F, H
  <2>7. ASSUME NEW u \in Int, NEW v \in Int, NEW y \in Int, NEW z \in Int, NEW n \in Int,
               a * u <= b * y + d, a * v <= b * z + d * (n - 1)
        PROVE  a * (u + v) <= b * (y + z) + d * n
    <3>1. a * (u + v) = a * u + a * v /\ b * (y + z) = b * y + b * z
      OBVIOUS
    <3>2. d * (n - 1) = d * n - d
      OBVIOUS
    <3>3. a * u \in Int /\ a * v \in Int /\ b * y \in Int /\ b * z \in Int /\ d * n \in Int
      OBVIOUS
    <3> QED
      BY <2>7, <3>1, <3>2, <3>3
  <2>8. ASSUME a * F(T \ {x}) <= b * H(T \ {x}) + d * Cardinality(T \ {x})
        PROVE  a * F(T) <= b * H(T) + d * Cardinality(T)
    <3>1. f[x] \in Int /\ g[x] \in Int /\ a * f[x] <= b * g[x] + d
      BY <2>6
    <3>2. a * (f[x] + F(T \ {x}))
            <= b * (g[x] + H(T \ {x})) + d * Cardinality(T)
      BY <2>4, <2>5, <2>7, <2>8, <3>1
    <3> QED
      BY <2>3, <3>2
  <2> QED
    BY <2>8
<1> HIDE DEF G
<1>3. \A T \in SUBSET S : T \in G
  BY <1>1, <1>2, SubsetsByRemoval, Zenon
<1>4. S \in G
  BY <1>3
<1> QED
  BY <1>4 DEF G

(* A function some times larger has a sum as many times larger.            *)
LEMMA SumScaled ==
    ASSUME NEW S, IsFiniteSet(S), NEW f, NEW g, NEW a \in Int,
           \A x \in S : f[x] \in Int /\ g[x] \in Int /\ a * f[x] <= g[x]
    PROVE  a * SumFunctionOnSet(f, S) <= SumFunctionOnSet(g, S)
<1> DEFINE b == 1
           d == 0
<1>1. b \in Int /\ d \in Int /\ \A x \in S : a * f[x] <= b * g[x] + d
  OBVIOUS
<1> HIDE DEF b, d
<1>2. a * SumFunctionOnSet(f, S) <= b * SumFunctionOnSet(g, S) + d * Cardinality(S)
  BY <1>1, SumLinear
<1>3. /\ SumFunctionOnSet(f, S) \in Int /\ SumFunctionOnSet(g, S) \in Int
      /\ Cardinality(S) \in Nat
  BY SumTakeOut, FS_CardinalityType
<1> QED
  BY <1>2, <1>3 DEF b, d

(* A function at most some times as large has a sum at most as many times  *)
(* as large.                                                               *)
LEMMA SumScaledAbove ==
    ASSUME NEW S, IsFiniteSet(S), NEW f, NEW g, NEW b \in Int,
           \A x \in S : f[x] \in Int /\ g[x] \in Int /\ f[x] <= b * g[x]
    PROVE  SumFunctionOnSet(f, S) <= b * SumFunctionOnSet(g, S)
<1> DEFINE a == 1
           d == 0
<1>1. a \in Int /\ d \in Int /\ \A x \in S : a * f[x] <= b * g[x] + d
  OBVIOUS
<1> HIDE DEF a, d
<1>2. a * SumFunctionOnSet(f, S) <= b * SumFunctionOnSet(g, S) + d * Cardinality(S)
  BY <1>1, SumLinear
<1>3. /\ SumFunctionOnSet(f, S) \in Int /\ SumFunctionOnSet(g, S) \in Int
      /\ Cardinality(S) \in Nat
  BY SumTakeOut, FS_CardinalityType
<1> QED
  BY <1>2, <1>3 DEF a, d

(* The larger function has the larger sum.                                 *)
LEMMA SumMonotone ==
    ASSUME NEW S, IsFiniteSet(S), NEW f, NEW g,
           \A x \in S : f[x] \in Int /\ g[x] \in Int /\ f[x] <= g[x]
    PROVE  SumFunctionOnSet(f, S) <= SumFunctionOnSet(g, S)
<1> DEFINE a == 1
<1>1. a \in Int /\ \A x \in S : f[x] \in Int /\ g[x] \in Int /\ a * f[x] <= g[x]
  OBVIOUS
<1> HIDE DEF a
<1>2. a * SumFunctionOnSet(f, S) <= SumFunctionOnSet(g, S)
  BY <1>1, SumScaled
<1>3. SumFunctionOnSet(f, S) \in Int
  BY SumTakeOut
<1> QED
  BY <1>2, <1>3 DEF a

(* The sum depends on nothing but the values in the set.                   *)
LEMMA SumSame ==
    ASSUME NEW S, IsFiniteSet(S), NEW f, NEW g,
           \A x \in S : f[x] \in Int /\ g[x] = f[x]
    PROVE  SumFunctionOnSet(f, S) = SumFunctionOnSet(g, S)
<1>1. /\ SumFunctionOnSet(f, S) <= SumFunctionOnSet(g, S)
      /\ SumFunctionOnSet(g, S) <= SumFunctionOnSet(f, S)
  BY SumMonotone
<1>2. SumFunctionOnSet(f, S) \in Int /\ SumFunctionOnSet(g, S) \in Int
  BY SumTakeOut
<1> QED
  BY <1>1, <1>2

(* A sum of naturals is one, and no value of them is above it.             *)
LEMMA SumOfNaturals ==
    ASSUME NEW S, IsFiniteSet(S), NEW f, \A x \in S : f[x] \in Nat
    PROVE  /\ SumFunctionOnSet(f, S) \in Nat
           /\ \A x \in S : f[x] <= SumFunctionOnSet(f, S)
<1> DEFINE G == {T \in SUBSET S : SumFunctionOnSet(f, T) \in Nat}
<1>1. ASSUME NEW T \in SUBSET S PROVE T \in G
  <2>1. {} \in G
    BY SumOfNone
  <2>2. ASSUME NEW U \in SUBSET S, U # {} PROVE \E x \in U : (U \ {x} \in G => U \in G)
    <3>1. PICK x \in U : TRUE
      BY <2>2
    <3>2. IsFiniteSet(U)
      BY FS_Subset
    <3>3. SumFunctionOnSet(f, U) = f[x] + SumFunctionOnSet(f, U \ {x})
      BY <3>2, SumTakeOut
    <3>4. f[x] \in Nat
      BY <3>1
    <3>5. U \ {x} \in G => U \in G
      BY <3>3, <3>4
    <3> QED
      BY <3>5
  <2> HIDE DEF G
  <2> QED
    BY <2>1, <2>2, SubsetsByRemoval
<1>2. ASSUME NEW x \in S PROVE f[x] <= SumFunctionOnSet(f, S)
  <2>1. SumFunctionOnSet(f, S) = f[x] + SumFunctionOnSet(f, S \ {x})
    BY SumTakeOut
  <2>2. SumFunctionOnSet(f, S \ {x}) \in Nat
    BY <1>1
  <2> QED
    BY <2>1, <2>2
<1> QED
  BY <1>1, <1>2

(* So many values, none above a bound: so many times the bound.            *)
LEMMA SumAtMost ==
    ASSUME NEW S, IsFiniteSet(S), NEW f, NEW b \in Int,
           \A x \in S : f[x] \in Int /\ f[x] <= b
    PROVE  SumFunctionOnSet(f, S) <= Cardinality(S) * b
<1> DEFINE a == 1
           z == 0
<1>1. a \in Int /\ z \in Int /\ \A x \in S : f[x] \in Int /\ a * f[x] <= z * f[x] + b
  OBVIOUS
<1> HIDE DEF a, z
<1>2. a * SumFunctionOnSet(f, S) <= z * SumFunctionOnSet(f, S) + b * Cardinality(S)
  BY <1>1, SumLinear
<1>3. SumFunctionOnSet(f, S) \in Int /\ Cardinality(S) \in Nat
  BY SumTakeOut, FS_CardinalityType
<1> QED
  BY <1>2, <1>3 DEF a, z

(* So many values, none below a bound: so many times the bound.            *)
LEMMA SumAtLeast ==
    ASSUME NEW S, IsFiniteSet(S), NEW f, NEW b \in Int,
           \A x \in S : f[x] \in Int /\ f[x] >= b
    PROVE  SumFunctionOnSet(f, S) >= Cardinality(S) * b
<1> DEFINE a == -1
           z == 0
           d == -b
<1>1. /\ a \in Int /\ z \in Int /\ d \in Int
      /\ \A x \in S : f[x] \in Int /\ a * f[x] <= z * f[x] + d
  OBVIOUS
<1> HIDE DEF a, z, d
<1>2. a * SumFunctionOnSet(f, S) <= z * SumFunctionOnSet(f, S) + d * Cardinality(S)
  BY <1>1, SumLinear
<1>3. SumFunctionOnSet(f, S) \in Int /\ Cardinality(S) \in Nat
  BY SumTakeOut, FS_CardinalityType
<1>4. d * Cardinality(S) = -(Cardinality(S) * b)
  BY <1>3 DEF d
<1>5. Cardinality(S) * b \in Int
  BY <1>3
<1> QED
  BY <1>2, <1>3, <1>4, <1>5 DEF a, z

(* Elements without value may be left out.                                 *)
LEMMA SumOfSupport ==
    ASSUME NEW S, IsFiniteSet(S), NEW f, \A x \in S : f[x] \in Int,
           NEW R \in SUBSET S, \A x \in S \ R : f[x] = 0
    PROVE  SumFunctionOnSet(f, R) = SumFunctionOnSet(f, S)
<1> DEFINE G == {T \in SUBSET (S \ R) :
                    SumFunctionOnSet(f, R \cup T) = SumFunctionOnSet(f, R)}
<1>1. {} \in G
  BY Zenon
<1>2. ASSUME NEW T \in SUBSET (S \ R), T # {}
      PROVE  \E x \in T : (T \ {x} \in G => T \in G)
  <2>1. PICK x \in T : TRUE
    BY <1>2
  <2>2. /\ R \cup T \in SUBSET S /\ x \in R \cup T
        /\ (R \cup T) \ {x} = R \cup (T \ {x})
    OBVIOUS
  <2>3. IsFiniteSet(R \cup T) /\ IsFiniteSet(R \cup (T \ {x}))
    BY <2>2, FS_Subset
  <2>4. SumFunctionOnSet(f, R \cup T) = f[x] + SumFunctionOnSet(f, R \cup (T \ {x}))
    BY <2>2, <2>3, SumTakeOut
  <2>5. SumFunctionOnSet(f, R \cup (T \ {x})) \in Int /\ f[x] = 0
    BY <2>2, <2>3, SumTakeOut
  <2>6. SumFunctionOnSet(f, R \cup T) = SumFunctionOnSet(f, R \cup (T \ {x}))
    BY <2>4, <2>5
  <2> QED
    BY <2>6
<1> HIDE DEF G
<1>3. IsFiniteSet(S \ R)
  BY FS_Subset
<1>4. \A T \in SUBSET (S \ R) : T \in G
  BY <1>1, <1>2, <1>3, SubsetsByRemoval, Zenon
<1>5. S \ R \in G
  BY <1>4
<1>6. R \cup (S \ R) = S
  OBVIOUS
<1> QED
  BY <1>5, <1>6 DEF G

(* More naturals have no smaller sum.                                      *)
LEMMA SumOfMore ==
    ASSUME NEW S, IsFiniteSet(S), NEW f, \A x \in S : f[x] \in Nat, NEW R \in SUBSET S
    PROVE  SumFunctionOnSet(f, R) <= SumFunctionOnSet(f, S)
<1> DEFINE g == [x \in S |-> IF x \in R THEN f[x] ELSE 0]
<1>1. \A x \in S : f[x] \in Int /\ g[x] \in Int /\ g[x] <= f[x]
  OBVIOUS
<1>2. (\A x \in S \ R : g[x] = 0) /\ \A x \in R : f[x] \in Int /\ g[x] = f[x]
  OBVIOUS
<1> HIDE DEF g
<1>3. SumFunctionOnSet(g, S) <= SumFunctionOnSet(f, S)
  BY <1>1, SumMonotone
<1>4. \A x \in S : g[x] \in Int
  BY <1>1
<1>5. SumFunctionOnSet(g, R) = SumFunctionOnSet(g, S)
  BY <1>2, <1>4, SumOfSupport
<1>6. SumFunctionOnSet(f, R) = SumFunctionOnSet(g, R)
  BY <1>2, FS_Subset, SumSame
<1> QED
  BY <1>3, <1>5, <1>6

(* Changing one value changes the sum by as much.                          *)
LEMMA SumChanged ==
    ASSUME NEW S, IsFiniteSet(S), NEW f, NEW g, NEW z \in S,
           \A x \in S : f[x] \in Int /\ g[x] \in Int,
           \A x \in S : x # z => g[x] = f[x]
    PROVE  SumFunctionOnSet(g, S) = SumFunctionOnSet(f, S) + g[z] - f[z]
<1>1. IsFiniteSet(S \ {z})
  BY FS_Subset
<1>2. /\ SumFunctionOnSet(f, S) = f[z] + SumFunctionOnSet(f, S \ {z})
      /\ SumFunctionOnSet(g, S) = g[z] + SumFunctionOnSet(g, S \ {z})
  BY SumTakeOut
<1>3. SumFunctionOnSet(f, S \ {z}) = SumFunctionOnSet(g, S \ {z})
  BY <1>1, SumSame
<1>4. SumFunctionOnSet(f, S \ {z}) \in Int
  BY <1>1, SumTakeOut
<1> QED
  BY <1>2, <1>3, <1>4

-----------------------------------------------------------------------------
Less == {p \in Nat \X Nat : p[1] < p[2]}

(* No natural number has infinitely many below it.                         *)
LEMMA LessWellFounded == IsWellFoundedOn(Less, Nat)
  BY NatLessThanWellFounded DEF Less, OpToRel

(* Induction over the positions of a sequence.                             *)
LEMMA PositionsInTurn ==
    ASSUME NEW n \in Nat, NEW G, 0 \in G, \A k \in 1 .. n : k - 1 \in G => k \in G
    PROVE  \A k \in 0 .. n : k \in G
<1> DEFINE Bad == {k \in 0 .. n : k \notin G}
<1> SUFFICES ASSUME NEW z \in 0 .. n, z \notin G PROVE FALSE
  OBVIOUS
<1>1. Bad # {}
  OBVIOUS
<1>2. Bad \subseteq Nat
  OBVIOUS
<1>3. PICK k \in Bad : \A j \in Bad : ~(<<j, k>> \in Less)
  <2> HIDE DEF Bad
  <2>1. \E k \in Bad : \A j \in Bad : ~(<<j, k>> \in Less)
    BY <1>1, <1>2, LessWellFounded, WFMin, Zenon
  <2> QED
    BY <2>1
<1>4. \A j \in Bad : ~(j < k)
  BY <1>2, <1>3 DEF Less
<1>5. k \in 1 .. n /\ k - 1 \in 0 .. n
  OBVIOUS
<1> QED
  BY <1>4, <1>5

(* A finite set of integers has a largest one.                             *)
LEMMA MaxOfFinite ==
    ASSUME NEW S \in SUBSET Int, IsFiniteSet(S)
    PROVE  \A T \in SUBSET S : T # {} => Max(T) \in T /\ \A y \in T : y <= Max(T)
<1> DEFINE Has(T) == T # {} => \E x \in T : \A y \in T : x >= y
           G == {T \in SUBSET S : Has(T)}
<1>1. {} \in G
  OBVIOUS
<1>2. ASSUME NEW T \in SUBSET S, T # {} PROVE \E x \in T : (T \ {x} \in G => T \in G)
  <2>1. PICK x \in T : TRUE
    BY <1>2
  <2>2. ASSUME T \ {x} \in G PROVE \E z \in T : \A y \in T : z >= y
    <3>1. CASE T \ {x} = {}
      BY <3>1
    <3>2. CASE T \ {x} # {}
      <4>1. PICK z \in T \ {x} : \A y \in T \ {x} : z >= y
        BY <2>2, <3>2
      <4>2. x \in Int /\ z \in Int /\ \A y \in T : y \in Int
        OBVIOUS
      <4>3. z >= x \/ x >= z
        BY <4>2
      <4>4. CASE z >= x
        BY <4>1, <4>4
      <4>5. CASE x >= z
        BY <4>1, <4>2, <4>5
      <4> QED
        BY <4>3, <4>4, <4>5
    <3> QED
      BY <3>1, <3>2
  <2> QED
    BY <2>1, <2>2
<1> HIDE DEF G
<1>3. \A T \in SUBSET S : T \in G
  BY <1>1, <1>2, SubsetsByRemoval, Zenon
<1>4. ASSUME NEW T \in SUBSET S, T # {} PROVE Max(T) \in T /\ \A y \in T : y <= Max(T)
  <2>1. \E x \in T : \A y \in T : x >= y
    BY <1>3, <1>4 DEF G
  <2>2. Max(T) \in T /\ \A y \in T : Max(T) >= y
    BY <2>1, Zenon DEF Max
  <2>3. \A y \in T : y \in Int
    OBVIOUS
  <2> QED
    BY <2>2, <2>3
<1> QED
  BY <1>4

(* The last of the first so many positions.                                *)
LEMMA MaxOfPrefix ==
    ASSUME NEW k \in Nat \ {0}
    PROVE  /\ Max(1 .. k) = k
           /\ (1 .. k) \ {k} = 1 .. (k - 1)
<1>1. 1 .. k \in SUBSET Int /\ 1 .. k # {} /\ k \in 1 .. k
  OBVIOUS
<1>0. IsFiniteSet(1 .. k)
  BY FS_Interval
<1>2. Max(1 .. k) \in 1 .. k /\ \A y \in 1 .. k : y <= Max(1 .. k)
  BY <1>0, <1>1, MaxOfFinite
<1> QED
  BY <1>1, <1>2

(* FoldLeft takes the positions of a sequence from the last one down: what *)
(* its steps define.                                                       *)
FoldsFromTheLast(h, op, base, n, V) ==
    \A s \in SUBSET (1 .. n) :
        /\ h[s] \in V
        /\ s = {} => h[s] = base
        /\ s # {} => /\ Max(s) \in s /\ s \ {Max(s)} \in SUBSET (1 .. n)
                     /\ h[s] = op[Max(s)][h[s \ {Max(s)}]]

LEMMA FoldFromTheLast ==
    ASSUME NEW n \in Nat, NEW V, NEW base \in V,
           NEW op \in [1 .. n -> [V -> V]]
    PROVE  \E h : FoldsFromTheLast(h, op, base, n, V)
<1> DEFINE D == 1 .. n
           c == [s \in SUBSET D |-> Max(s)]
<1>1. IsFiniteSet(D) /\ D \in SUBSET Int
  BY FS_Interval
<1> HIDE DEF D
<1>2. \A s \in SUBSET D : s # {} => Max(s) \in s
  BY <1>1, MaxOfFinite
<1>3. Chooses(c, D) /\ \A s \in SUBSET D : c[s] = Max(s)
  BY <1>2 DEF Chooses
<1> HIDE DEF c
<1>4. PICK h : Folds(h, op, base, c, D)
  BY <1>1, <1>3, FoldsExist
<1>5. \A s \in SUBSET D : h[s] \in V
  <2>1. \A x \in D, v \in V : op[x][v] \in V
    BY DEF D
  <2> QED
    BY <1>1, <1>3, <1>4, <2>1, FoldsTyped
<1>6. \A s \in SUBSET D :
        /\ s = {} => h[s] = base
        /\ s # {} => h[s] = op[Max(s)][h[s \ {Max(s)}]]
  BY <1>3, <1>4 DEF Folds
<1>7. \A s \in SUBSET D : s # {} => s \ {Max(s)} \in SUBSET D
  OBVIOUS
<1> QED
  BY <1>2, <1>5, <1>6, <1>7 DEF D, FoldsFromTheLast
=============================================================================
