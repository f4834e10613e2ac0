---------------------------- MODULE SumTheorems ----------------------------
(***************************************************************************)
(* What SumFunctionOnSet(f, S), the sum of f[x] over a finite set S, is:   *)
(* nothing for the empty set, one term more for one element more, whatever *)
(* the order in which the fold of the community module Folds chooses.      *)
(*                                                                         *)
(* There is no induction rule to cite for this: a rule that takes the      *)
(* property as an operator cannot be used.  Each lemma is proved from a    *)
(* smallest counterexample, a set of subsets of S like any other.          *)
(***************************************************************************)
EXTENDS Integers, FiniteSets, Functions, FiniteSetTheorems, WellFoundedInduction, TLAPS

-----------------------------------------------------------------------------
(* Smallest counterexamples *)

\* A set of naturals that is not empty has a least element.
LEMMA LeastNat ==
  ASSUME NEW T, T \subseteq Nat, T # {}
  PROVE  \E m \in T : \A n \in T : m <= n
<1> DEFINE R == {p \in Nat \X Nat : p[1] < p[2]}
<1>1. IsWellFoundedOn(R, Nat)
  BY NatLessThanWellFounded DEF OpToRel
<1> HIDE DEF R
<1>2. PICK m \in T : \A n \in T : ~ (<<n, m>> \in R)
  BY <1>1, WFMin
<1>3. \A n \in T : n < m => <<n, m>> \in R
  BY DEF R
<1>4. \A n \in T : ~ (n < m)
  BY <1>2, <1>3
<1>5. \A n \in T : m <= n
  BY <1>4
<1> QED BY <1>5

\* A set of subsets of a finite set that is not empty has an element none of whose
\* proper subsets is in it.
LEMMA LeastSubset ==
  ASSUME NEW S, IsFiniteSet(S), NEW B, B \subseteq SUBSET S, B # {}
  PROVE  \E s \in B : IsFiniteSet(s) /\ \A t \in SUBSET s : t \in B => t = s
<1>1. \A s \in B : IsFiniteSet(s) /\ Cardinality(s) \in Nat
  BY FS_Subset, FS_CardinalityType
<1> DEFINE T == {Cardinality(s) : s \in B}
<1>2. T \subseteq Nat /\ T # {}
  BY <1>1
<1> HIDE DEF T
<1>3. PICK m \in T : \A n \in T : m <= n
  BY <1>2, LeastNat
<1>4. PICK s \in B : m = Cardinality(s)
  BY <1>3 DEF T
<1>5. ASSUME NEW t \in SUBSET s, t \in B, t # s PROVE FALSE
  <2>1. Cardinality(t) < Cardinality(s)
    BY <1>1, <1>5, FS_Subset
  <2>2. Cardinality(t) \in T
    BY <1>5 DEF T
  <2>3. Cardinality(s) <= Cardinality(t)
    BY <1>3, <1>4, <2>2
  <2> QED BY <1>1, <1>5, <2>1, <2>3
<1> QED BY <1>1, <1>5

\* The values of a function on a finite set are finitely many.
LEMMA FiniteImage ==
  ASSUME NEW S, IsFiniteSet(S), NEW h
  PROVE  IsFiniteSet({h[x] : x \in S}) /\ Cardinality({h[x] : x \in S}) <= Cardinality(S)
<1> DEFINE T == {h[x] : x \in S}
           g == [x \in S |-> h[x]]
<1>1. g \in Surjection(S, T)
  BY DEF Surjection
<1> HIDE DEF g, T
<1> QED BY <1>1, FS_Surjection DEF T

-----------------------------------------------------------------------------
(* The recursive function of the fold *)

Chosen(s) == CHOOSE x \in s : TRUE

\* The equation of MapThenFoldSet's function, for sums of f over subsets of S.
Unfolds(it, f, S) ==
  it = [s \in SUBSET S |-> IF s = {} THEN 0 ELSE f[Chosen(s)] + it[s \ {Chosen(s)}]]

\* The sum is the value of the function that the equation defines.
LEMMA SumIsFold ==
  ASSUME NEW f, NEW S
  PROVE  SumFunctionOnSet(f, S) = (CHOOSE it : Unfolds(it, f, S))[S]
BY DEF SumFunctionOnSet, FoldFunctionOnSet, MapThenFoldSet, Unfolds, Chosen

\* The equation at a set.
LEMMA UnfoldsAt ==
  ASSUME NEW it, NEW f, NEW S, Unfolds(it, f, S), NEW s \in SUBSET S
  PROVE  it[s] = IF s = {} THEN 0 ELSE f[Chosen(s)] + it[s \ {Chosen(s)}]
<1> DEFINE E(u) == IF u = {} THEN 0 ELSE f[Chosen(u)] + it[u \ {Chosen(u)}]
<1>1. it = [u \in SUBSET S |-> E(u)]
  BY DEF Unfolds
<1> HIDE DEF E
<1>2. it[s] = E(s)
  BY <1>1
<1> QED BY <1>2 DEF E

\* Two solutions agree wherever both are defined.
LEMMA UnfoldsAgree ==
  ASSUME NEW f, NEW S, IsFiniteSet(S), NEW A, NEW B,
         NEW it, Unfolds(it, f, A), NEW jt, Unfolds(jt, f, B),
         S \subseteq A, S \subseteq B
  PROVE  it[S] = jt[S]
<1> SUFFICES ASSUME it[S] # jt[S] PROVE FALSE
  OBVIOUS
<1> DEFINE Bad == {s \in SUBSET S : it[s] # jt[s]}
<1>1. PICK s \in Bad : \A t \in SUBSET s : t \in Bad => t = s
  <2>1. Bad \subseteq SUBSET S /\ Bad # {}
    OBVIOUS
  <2> HIDE DEF Bad
  <2> QED BY <2>1, LeastSubset
<1>2. s \in SUBSET S /\ s \in SUBSET A /\ s \in SUBSET B
  OBVIOUS
<1>8. \A t \in SUBSET s : t \notin Bad => it[t] = jt[t]
  OBVIOUS
<1>9. it[s] # jt[s]
  OBVIOUS
<1> HIDE DEF Bad
<1>3. it[s] = IF s = {} THEN 0 ELSE f[Chosen(s)] + it[s \ {Chosen(s)}]
  BY <1>2, UnfoldsAt
<1>4. jt[s] = IF s = {} THEN 0 ELSE f[Chosen(s)] + jt[s \ {Chosen(s)}]
  BY <1>2, UnfoldsAt
<1>5. s # {}
  BY <1>3, <1>4, <1>9
<1>6. Chosen(s) \in s
  BY <1>5 DEF Chosen
<1>7. it[s \ {Chosen(s)}] = jt[s \ {Chosen(s)}]
  <2>1. s \ {Chosen(s)} \in SUBSET s /\ s \ {Chosen(s)} # s
    BY <1>6
  <2>2. s \ {Chosen(s)} \notin Bad
    BY <1>1, <2>1
  <2> QED BY <1>8, <2>1, <2>2
<1> QED BY <1>3, <1>4, <1>7, <1>9

\* What solves the equation for a set solves it for its subsets.
LEMMA UnfoldsBelow ==
  ASSUME NEW it, NEW f, NEW S, Unfolds(it, f, S), NEW s \in SUBSET S
  PROVE  Unfolds([t \in SUBSET s |-> it[t]], f, s)
<1> DEFINE jt == [t \in SUBSET s |-> it[t]]
           E(u) == IF u = {} THEN 0 ELSE f[Chosen(u)] + jt[u \ {Chosen(u)}]
<1>1. ASSUME NEW t \in SUBSET s PROVE jt[t] = E(t)
  <2>1. it[t] = IF t = {} THEN 0 ELSE f[Chosen(t)] + it[t \ {Chosen(t)}]
    BY UnfoldsAt
  <2>2. jt[t \ {Chosen(t)}] = it[t \ {Chosen(t)}] /\ jt[t] = it[t]
    OBVIOUS
  <2> QED BY <2>1, <2>2
<1>2. jt = [t \in SUBSET s |-> E(t)]
  <2> HIDE DEF E
  <2> QED BY <1>1
<1> QED BY <1>2 DEF Unfolds

\* The equation has a solution.
LEMMA UnfoldsExists ==
  ASSUME NEW f, NEW S, IsFiniteSet(S)
  PROVE  \E it : Unfolds(it, f, S)
<1> DEFINE Bad == {s \in SUBSET S : ~ \E it : Unfolds(it, f, s)}
<1> SUFFICES ASSUME S \in Bad PROVE FALSE
  OBVIOUS
<1>1. PICK s \in Bad : IsFiniteSet(s) /\ \A t \in SUBSET s : t \in Bad => t = s
  <2>1. Bad \subseteq SUBSET S /\ Bad # {}
    OBVIOUS
  <2> HIDE DEF Bad
  <2> QED BY <2>1, LeastSubset
<1> DEFINE G(u) == (CHOOSE it : Unfolds(it, f, u))[u]
           E(u) == IF u = {} THEN 0 ELSE f[Chosen(u)] + G(u \ {Chosen(u)})
           jt == [t \in SUBSET s |-> E(t)]
<1>2. ASSUME NEW u \in SUBSET s, u # s PROVE G(u) = E(u)
  <2>1. \E it : Unfolds(it, f, u)
    BY <1>1, <1>2
  <2> DEFINE it == CHOOSE i : Unfolds(i, f, u)
  <2>2. Unfolds(it, f, u)
    BY <2>1
  <2>3. G(u) = it[u]
    OBVIOUS
  <2> HIDE DEF it, G
  <2>4. it[u] = IF u = {} THEN 0 ELSE f[Chosen(u)] + it[u \ {Chosen(u)}]
    BY <2>2, UnfoldsAt
  <2>5. it[u \ {Chosen(u)}] = G(u \ {Chosen(u)})
    <3> DEFINE v == u \ {Chosen(u)}
               kt == CHOOSE i : Unfolds(i, f, v)
    <3>1. v \in SUBSET u
      OBVIOUS
    <3> HIDE DEF v
    <3>2. Unfolds([t \in SUBSET v |-> it[t]], f, v)
      BY <2>2, <3>1, UnfoldsBelow
    <3>7. \E i : Unfolds(i, f, v)
      BY <3>2
    <3>3. Unfolds(kt, f, v)
      BY <3>7
    <3>4. IsFiniteSet(v)
      BY <1>1, <3>1, FS_Subset
    <3>5. G(v) = kt[v]
      BY DEF G
    <3> HIDE DEF kt
    <3>6. it[v] = kt[v]
      BY <2>2, <3>1, <3>3, <3>4, UnfoldsAgree
    <3> QED BY <3>5, <3>6 DEF v
  <2> QED BY <2>3, <2>4, <2>5
<1>3. ASSUME NEW t \in SUBSET s, t # {} PROVE jt[t \ {Chosen(t)}] = G(t \ {Chosen(t)})
  <2>1. t \ {Chosen(t)} \in SUBSET s /\ t \ {Chosen(t)} # s
    BY <1>3 DEF Chosen
  <2>2. jt[t \ {Chosen(t)}] = E(t \ {Chosen(t)})
    BY <2>1
  <2> HIDE DEF E, G, jt
  <2> QED BY <1>2, <2>1, <2>2
<1> DEFINE F(t) == IF t = {} THEN 0 ELSE f[Chosen(t)] + jt[t \ {Chosen(t)}]
<1>4. ASSUME NEW t \in SUBSET s PROVE E(t) = F(t)
  <2> HIDE DEF jt, G
  <2> QED BY <1>3
<1>5. jt = [t \in SUBSET s |-> F(t)]
  <2>1. jt = [t \in SUBSET s |-> E(t)]
    OBVIOUS
  <2> HIDE DEF E, F, jt
  <2> QED BY <1>4, <2>1
<1>6. Unfolds(jt, f, s)
  <2> HIDE DEF jt
  <2> QED BY <1>5 DEF Unfolds
<1> QED BY <1>1, <1>6

-----------------------------------------------------------------------------
(* The sum *)

\* The sum over the empty set.
LEMMA SumEmpty ==
  ASSUME NEW f
  PROVE  SumFunctionOnSet(f, {}) = 0
<1> DEFINE it == CHOOSE i : Unfolds(i, f, {})
<1>1. Unfolds(it, f, {})
  BY UnfoldsExists, FS_EmptySet
<1>2. SumFunctionOnSet(f, {}) = it[{}]
  BY SumIsFold
<1> HIDE DEF it
<1>3. it[{}] = 0
  BY <1>1, UnfoldsAt
<1> QED BY <1>2, <1>3

\* The sum over a set takes the chosen element first.
LEMMA SumChosen ==
  ASSUME NEW f, NEW S, IsFiniteSet(S), S # {}
  PROVE  SumFunctionOnSet(f, S) = f[Chosen(S)] + SumFunctionOnSet(f, S \ {Chosen(S)})
<1> DEFINE R == S \ {Chosen(S)}
           it == CHOOSE i : Unfolds(i, f, S)
           jt == CHOOSE i : Unfolds(i, f, R)
<1>1. Unfolds(it, f, S)
  BY UnfoldsExists
<1>2. IsFiniteSet(R)
  BY FS_Subset
<1>3. Unfolds(jt, f, R)
  <2> HIDE DEF R
  <2> QED BY <1>2, UnfoldsExists
<1>4. SumFunctionOnSet(f, S) = it[S]
  BY SumIsFold
<1>5. SumFunctionOnSet(f, R) = jt[R]
  BY SumIsFold
<1> HIDE DEF it, jt
<1>6. it[S] = f[Chosen(S)] + it[R]
  BY <1>1, UnfoldsAt
<1>7. it[R] = jt[R]
  BY <1>1, <1>2, <1>3, UnfoldsAgree
<1> QED BY <1>4, <1>5, <1>6, <1>7

\* The sum of integers is an integer.
LEMMA SumInt ==
  ASSUME NEW S, IsFiniteSet(S), NEW f, \A x \in S : f[x] \in Int
  PROVE  SumFunctionOnSet(f, S) \in Int
<1> DEFINE Bad == {s \in SUBSET S : SumFunctionOnSet(f, s) \notin Int}
<1> SUFFICES ASSUME S \in Bad PROVE FALSE
  OBVIOUS
<1>1. PICK s \in Bad : IsFiniteSet(s) /\ \A t \in SUBSET s : t \in Bad => t = s
  <2>1. Bad \subseteq SUBSET S /\ Bad # {}
    OBVIOUS
  <2> HIDE DEF Bad
  <2> QED BY <2>1, LeastSubset
<1>2. s \in SUBSET S /\ SumFunctionOnSet(f, s) \notin Int
  OBVIOUS
<1>3. s # {}
  BY <1>2, SumEmpty
<1>4. Chosen(s) \in s
  BY <1>3 DEF Chosen
<1> DEFINE r == s \ {Chosen(s)}
<1>5. SumFunctionOnSet(f, s) = f[Chosen(s)] + SumFunctionOnSet(f, r)
  BY <1>1, <1>3, SumChosen
<1>6. SumFunctionOnSet(f, r) \in Int
  <2>1. r \in SUBSET S /\ r \in SUBSET s /\ r # s
    BY <1>2, <1>4
  <2> QED BY <1>1, <2>1
<1> QED BY <1>2, <1>4, <1>5, <1>6

\* The sum takes any element first: integers are added in any order.
LEMMA SumRemove ==
  ASSUME NEW S, IsFiniteSet(S), NEW f, \A x \in S : f[x] \in Int, NEW a \in S
  PROVE  SumFunctionOnSet(f, S) = f[a] + SumFunctionOnSet(f, S \ {a})
<1> DEFINE Bad == {s \in SUBSET S : \E x \in s :
                     SumFunctionOnSet(f, s) # f[x] + SumFunctionOnSet(f, s \ {x})}
<1> SUFFICES ASSUME Bad # {} PROVE FALSE
  OBVIOUS
<1>1. PICK s \in Bad : IsFiniteSet(s) /\ \A t \in SUBSET s : t \in Bad => t = s
  <2>1. Bad \subseteq SUBSET S
    OBVIOUS
  <2> HIDE DEF Bad
  <2> QED BY <2>1, LeastSubset
<1>2. PICK x \in s : SumFunctionOnSet(f, s) # f[x] + SumFunctionOnSet(f, s \ {x})
  OBVIOUS
<1>3. s \in SUBSET S /\ s # {}
  OBVIOUS
<1>4. ASSUME NEW t \in SUBSET s, t # s, NEW y \in t
      PROVE  SumFunctionOnSet(f, t) = f[y] + SumFunctionOnSet(f, t \ {y})
  <2>1. t \notin Bad
    BY <1>1, <1>4
  <2>2. t \in SUBSET S
    BY <1>3
  <2> QED BY <2>1, <2>2
<1> HIDE DEF Bad
<1> DEFINE c == Chosen(s)
           both == SumFunctionOnSet(f, (s \ {c}) \ {x})
<1>5. c \in s
  BY <1>3 DEF Chosen
<1>6. SumFunctionOnSet(f, s) = f[c] + SumFunctionOnSet(f, s \ {c})
  BY <1>1, <1>3, SumChosen
<1> HIDE DEF c
<1>7. c # x
  BY <1>2, <1>6
<1>8. SumFunctionOnSet(f, s \ {c}) = f[x] + both
  BY <1>4, <1>5, <1>7
<1>9. (s \ {x}) \ {c} = (s \ {c}) \ {x}
  OBVIOUS
<1>10. SumFunctionOnSet(f, s \ {x}) = f[c] + both
  BY <1>4, <1>5, <1>7, <1>9
<1>11. f[c] \in Int /\ f[x] \in Int
  BY <1>3, <1>5
<1>12. both \in Int
  <2>1. IsFiniteSet((s \ {c}) \ {x})
    BY <1>1, FS_Subset
  <2>2. \A y \in (s \ {c}) \ {x} : f[y] \in Int
    BY <1>3
  <2> QED BY <2>1, <2>2, SumInt
<1> HIDE DEF both
<1> QED BY <1>2, <1>6, <1>8, <1>10, <1>11, <1>12

\* One element more.
LEMMA SumAdd ==
  ASSUME NEW S, IsFiniteSet(S), NEW a, a \notin S,
         NEW f, \A x \in S \cup {a} : f[x] \in Int
  PROVE  SumFunctionOnSet(f, S \cup {a}) = f[a] + SumFunctionOnSet(f, S)
<1>1. IsFiniteSet(S \cup {a})
  BY FS_AddElement
<1>2. (S \cup {a}) \ {a} = S
  OBVIOUS
<1>3. SumFunctionOnSet(f, S \cup {a}) = f[a] + SumFunctionOnSet(f, (S \cup {a}) \ {a})
  BY <1>1, SumRemove
<1> QED BY <1>2, <1>3

\* The sum depends on the terms only.
LEMMA SumSame ==
  ASSUME NEW S, IsFiniteSet(S), NEW f, NEW g, \A x \in S : f[x] = g[x]
  PROVE  SumFunctionOnSet(f, S) = SumFunctionOnSet(g, S)
<1> DEFINE Bad == {s \in SUBSET S : SumFunctionOnSet(f, s) # SumFunctionOnSet(g, s)}
<1> SUFFICES ASSUME S \in Bad PROVE FALSE
  OBVIOUS
<1>1. PICK s \in Bad : IsFiniteSet(s) /\ \A t \in SUBSET s : t \in Bad => t = s
  <2>1. Bad \subseteq SUBSET S /\ Bad # {}
    OBVIOUS
  <2> HIDE DEF Bad
  <2> QED BY <2>1, LeastSubset
<1>2. s \in SUBSET S /\ SumFunctionOnSet(f, s) # SumFunctionOnSet(g, s)
  OBVIOUS
<1>3. s # {}
  BY <1>2, SumEmpty
<1>4. Chosen(s) \in s
  BY <1>3 DEF Chosen
<1> DEFINE r == s \ {Chosen(s)}
<1>5. SumFunctionOnSet(f, s) = f[Chosen(s)] + SumFunctionOnSet(f, r)
  BY <1>1, <1>3, SumChosen
<1>6. SumFunctionOnSet(g, s) = g[Chosen(s)] + SumFunctionOnSet(g, r)
  BY <1>1, <1>3, SumChosen
<1>7. SumFunctionOnSet(f, r) = SumFunctionOnSet(g, r)
  <2>1. r \in SUBSET S /\ r \in SUBSET s /\ r # s
    BY <1>2, <1>4
  <2> QED BY <1>1, <2>1
<1>8. f[Chosen(s)] = g[Chosen(s)]
  BY <1>2, <1>4
<1> QED BY <1>2, <1>5, <1>6, <1>7, <1>8

\* One term changes.
LEMMA SumChange ==
  ASSUME NEW S, IsFiniteSet(S), NEW a \in S,
         NEW f, \A x \in S : f[x] \in Int,
         NEW g, g[a] \in Int, \A x \in S \ {a} : g[x] = f[x]
  PROVE  SumFunctionOnSet(g, S) = SumFunctionOnSet(f, S) - f[a] + g[a]
<1>1. SumFunctionOnSet(f, S) = f[a] + SumFunctionOnSet(f, S \ {a})
  BY SumRemove
<1>2. \A x \in S : g[x] \in Int
  OBVIOUS
<1>3. SumFunctionOnSet(g, S) = g[a] + SumFunctionOnSet(g, S \ {a})
  BY <1>2, SumRemove
<1>4. IsFiniteSet(S \ {a})
  BY FS_Subset
<1>5. SumFunctionOnSet(g, S \ {a}) = SumFunctionOnSet(f, S \ {a})
  BY <1>4, SumSame
<1>6. SumFunctionOnSet(f, S \ {a}) \in Int
  BY <1>4, SumInt
<1> QED BY <1>1, <1>3, <1>5, <1>6

\* Greater terms have a greater sum.
LEMMA SumMonotone ==
  ASSUME NEW S, IsFiniteSet(S),
         NEW f, \A x \in S : f[x] \in Int,
         NEW g, \A x \in S : g[x] \in Int,
         \A x \in S : f[x] <= g[x]
  PROVE  SumFunctionOnSet(f, S) <= SumFunctionOnSet(g, S)
<1> DEFINE Bad == {s \in SUBSET S : ~ (SumFunctionOnSet(f, s) <= SumFunctionOnSet(g, s))}
<1> SUFFICES ASSUME S \in Bad PROVE FALSE
  OBVIOUS
<1>1. PICK s \in Bad : IsFiniteSet(s) /\ \A t \in SUBSET s : t \in Bad => t = s
  <2>1. Bad \subseteq SUBSET S /\ Bad # {}
    OBVIOUS
  <2> HIDE DEF Bad
  <2> QED BY <2>1, LeastSubset
<1>2. s \in SUBSET S /\ ~ (SumFunctionOnSet(f, s) <= SumFunctionOnSet(g, s))
  OBVIOUS
<1>3. s # {}
  BY <1>2, SumEmpty
<1>4. PICK a \in s : TRUE
  BY <1>3
<1> DEFINE r == s \ {a}
<1>5. (\A x \in s : f[x] \in Int /\ g[x] \in Int) /\ IsFiniteSet(r)
  BY <1>1, <1>2, FS_Subset
<1>6. SumFunctionOnSet(f, s) = f[a] + SumFunctionOnSet(f, r)
  BY <1>1, <1>5, SumRemove
<1>7. SumFunctionOnSet(g, s) = g[a] + SumFunctionOnSet(g, r)
  BY <1>1, <1>5, SumRemove
<1>8. SumFunctionOnSet(f, r) <= SumFunctionOnSet(g, r)
  <2>1. r \in SUBSET S /\ r \in SUBSET s /\ r # s
    BY <1>2
  <2> QED BY <1>1, <2>1
<1>9. SumFunctionOnSet(f, r) \in Int /\ SumFunctionOnSet(g, r) \in Int
  BY <1>5, SumInt
<1>10. f[a] \in Int /\ g[a] \in Int /\ f[a] <= g[a]
  BY <1>2
<1> HIDE DEF r
<1> QED BY <1>2, <1>6, <1>7, <1>8, <1>9, <1>10

\* Terms that are not negative have a sum that is not negative.
LEMMA SumNat ==
  ASSUME NEW S, IsFiniteSet(S), NEW f, \A x \in S : f[x] \in Nat
  PROVE  SumFunctionOnSet(f, S) \in Nat
<1> DEFINE Bad == {s \in SUBSET S : SumFunctionOnSet(f, s) \notin Nat}
<1> SUFFICES ASSUME S \in Bad PROVE FALSE
  OBVIOUS
<1>1. PICK s \in Bad : IsFiniteSet(s) /\ \A t \in SUBSET s : t \in Bad => t = s
  <2>1. Bad \subseteq SUBSET S /\ Bad # {}
    OBVIOUS
  <2> HIDE DEF Bad
  <2> QED BY <2>1, LeastSubset
<1>2. s \in SUBSET S /\ SumFunctionOnSet(f, s) \notin Nat
  OBVIOUS
<1>3. s # {}
  BY <1>2, SumEmpty
<1>4. Chosen(s) \in s
  BY <1>3 DEF Chosen
<1> DEFINE r == s \ {Chosen(s)}
<1>5. SumFunctionOnSet(f, s) = f[Chosen(s)] + SumFunctionOnSet(f, r)
  BY <1>1, <1>3, SumChosen
<1>6. SumFunctionOnSet(f, r) \in Nat
  <2>1. r \in SUBSET S /\ r \in SUBSET s /\ r # s
    BY <1>2, <1>4
  <2> QED BY <1>1, <2>1
<1> QED BY <1>2, <1>4, <1>5, <1>6

\* The sum over two sets that have no element in common.
LEMMA SumUnion ==
  ASSUME NEW S, IsFiniteSet(S), NEW T, IsFiniteSet(T), S \cap T = {},
         NEW f, \A x \in S \cup T : f[x] \in Int
  PROVE  SumFunctionOnSet(f, S \cup T) = SumFunctionOnSet(f, S) + SumFunctionOnSet(f, T)
<1> DEFINE Bad == {t \in SUBSET T : SumFunctionOnSet(f, S \cup t)
                                     # SumFunctionOnSet(f, S) + SumFunctionOnSet(f, t)}
<1> SUFFICES ASSUME T \in Bad PROVE FALSE
  OBVIOUS
<1>1. PICK t \in Bad : IsFiniteSet(t) /\ \A u \in SUBSET t : u \in Bad => u = t
  <2>1. Bad \subseteq SUBSET T /\ Bad # {}
    OBVIOUS
  <2> HIDE DEF Bad
  <2> QED BY <2>1, LeastSubset
<1>2. t \in SUBSET T /\ SumFunctionOnSet(f, S \cup t) # SumFunctionOnSet(f, S) + SumFunctionOnSet(f, t)
  OBVIOUS
<1>3. \A u \in SUBSET t : u # t =>
         SumFunctionOnSet(f, S \cup u) = SumFunctionOnSet(f, S) + SumFunctionOnSet(f, u)
  BY <1>1, <1>2
<1> HIDE DEF Bad
<1>4. SumFunctionOnSet(f, S) \in Int
  BY SumInt
<1>5. t # {}
  <2> SUFFICES ASSUME t = {} PROVE FALSE
    OBVIOUS
  <2>1. S \cup t = S
    OBVIOUS
  <2>2. SumFunctionOnSet(f, t) = 0
    BY SumEmpty
  <2>3. SumFunctionOnSet(f, S \cup t) = SumFunctionOnSet(f, S)
    BY <2>1
  <2> QED BY <1>2, <1>4, <2>2, <2>3
<1>6. PICK a \in t : TRUE
  BY <1>5
<1> DEFINE r == t \ {a}
<1>7. IsFiniteSet(r) /\ IsFiniteSet(S \cup r) /\ a \notin S \cup r
  BY <1>1, <1>2, FS_Subset, FS_Union
<1>8. S \cup t = (S \cup r) \cup {a} /\ t = r \cup {a}
  OBVIOUS
<1>9. \A x \in (S \cup r) \cup {a} : f[x] \in Int
  BY <1>2
<1>10. SumFunctionOnSet(f, S \cup r) = SumFunctionOnSet(f, S) + SumFunctionOnSet(f, r)
  BY <1>3
<1> HIDE DEF r
<1>11. SumFunctionOnSet(f, S \cup t) = f[a] + SumFunctionOnSet(f, S \cup r)
  BY <1>7, <1>8, <1>9, SumAdd
<1>12. SumFunctionOnSet(f, t) = f[a] + SumFunctionOnSet(f, r)
  BY <1>7, <1>8, <1>9, SumAdd
<1>13. SumFunctionOnSet(f, r) \in Int /\ f[a] \in Int
  BY <1>7, <1>9, SumInt
<1> QED BY <1>2, <1>4, <1>10, <1>11, <1>12, <1>13

\* More terms that are not negative.
LEMMA SumSubset ==
  ASSUME NEW T, IsFiniteSet(T), NEW S \in SUBSET T,
         NEW f, \A x \in S : f[x] \in Int, \A x \in T \ S : f[x] \in Nat
  PROVE  SumFunctionOnSet(f, S) <= SumFunctionOnSet(f, T)
<1>1. IsFiniteSet(S) /\ IsFiniteSet(T \ S)
  BY FS_Subset
<1>2. S \cup (T \ S) = T /\ S \cap (T \ S) = {}
  OBVIOUS
<1>3. \A x \in S \cup (T \ S) : f[x] \in Int
  OBVIOUS
<1>4. SumFunctionOnSet(f, T) = SumFunctionOnSet(f, S) + SumFunctionOnSet(f, T \ S)
  BY <1>1, <1>2, <1>3, SumUnion
<1>5. SumFunctionOnSet(f, T \ S) \in Nat
  BY <1>1, SumNat
<1>6. SumFunctionOnSet(f, S) \in Int
  BY <1>1, SumInt
<1> QED BY <1>4, <1>5, <1>6

\* The terms of a set may be taken at the images of another under an injection.
LEMMA SumImage ==
  ASSUME NEW S, IsFiniteSet(S), NEW h, \A x, y \in S : h[x] = h[y] => x = y,
         NEW f, NEW g, \A x \in S : g[x] \in Int /\ f[h[x]] = g[x]
  PROVE  SumFunctionOnSet(g, S) = SumFunctionOnSet(f, {h[x] : x \in S})
<1> DEFINE Image(s) == {h[x] : x \in s}
           Bad == {s \in SUBSET S : SumFunctionOnSet(g, s) # SumFunctionOnSet(f, Image(s))}
<1> SUFFICES ASSUME S \in Bad PROVE FALSE
  OBVIOUS
<1>1. PICK s \in Bad : IsFiniteSet(s) /\ \A u \in SUBSET s : u \in Bad => u = s
  <2>1. Bad \subseteq SUBSET S /\ Bad # {}
    OBVIOUS
  <2> HIDE DEF Bad
  <2> QED BY <2>1, LeastSubset
<1>2. s \in SUBSET S /\ SumFunctionOnSet(g, s) # SumFunctionOnSet(f, Image(s))
  OBVIOUS
<1>3. \A u \in SUBSET s : u # s => SumFunctionOnSet(g, u) = SumFunctionOnSet(f, Image(u))
  BY <1>1, <1>2
<1> HIDE DEF Bad
<1>4. s # {}
  <2> SUFFICES ASSUME s = {} PROVE FALSE
    OBVIOUS
  <2>1. SumFunctionOnSet(g, s) = 0
    BY SumEmpty
  <2>2. Image(s) = {}
    OBVIOUS
  <2>3. SumFunctionOnSet(f, Image(s)) = 0
    BY <2>2, SumEmpty
  <2> QED BY <1>2, <2>1, <2>3
<1>5. PICK a \in s : TRUE
  BY <1>4
<1> DEFINE r == s \ {a}
<1>6. IsFiniteSet(r) /\ a \notin r /\ s = r \cup {a}
  BY <1>1, FS_Subset
<1>7. Image(s) = Image(r) \cup {h[a]} /\ h[a] \notin Image(r)
  BY <1>2
<1>8. IsFiniteSet(Image(r))
  <2> HIDE DEF r
  <2> QED BY <1>6, FiniteImage
<1>9. SumFunctionOnSet(g, r) = SumFunctionOnSet(f, Image(r))
  BY <1>3
<1>10. \A x \in r \cup {a} : g[x] \in Int
  BY <1>2
<1>11. \A y \in Image(r) \cup {h[a]} : f[y] \in Int
  BY <1>2
<1>12. f[h[a]] = g[a]
  BY <1>2
<1>13. SumFunctionOnSet(g, r) \in Int
  BY <1>6, <1>10, SumInt
<1> HIDE DEF Image, r
<1>14. SumFunctionOnSet(g, s) = g[a] + SumFunctionOnSet(g, r)
  BY <1>6, <1>10, SumAdd
<1>15. SumFunctionOnSet(f, Image(s)) = f[h[a]] + SumFunctionOnSet(f, Image(r))
  BY <1>7, <1>8, <1>11, SumAdd
<1> QED BY <1>2, <1>9, <1>12, <1>14, <1>15

\* Terms that are zero may be left out.
LEMMA SumFilter ==
  ASSUME NEW T, IsFiniteSet(T), NEW S \in SUBSET T,
         NEW f, \A x \in S : f[x] \in Int,
         NEW g, \A x \in S : g[x] = f[x], \A x \in T \ S : g[x] = 0
  PROVE  SumFunctionOnSet(g, T) = SumFunctionOnSet(f, S)
<1>1. IsFiniteSet(S) /\ IsFiniteSet(T \ S)
  BY FS_Subset
<1>2. S \cup (T \ S) = T /\ S \cap (T \ S) = {}
  OBVIOUS
<1>3. \A x \in S \cup (T \ S) : g[x] \in Int
  OBVIOUS
<1>4. SumFunctionOnSet(g, T) = SumFunctionOnSet(g, S) + SumFunctionOnSet(g, T \ S)
  BY <1>1, <1>2, <1>3, SumUnion
<1>5. SumFunctionOnSet(g, S) = SumFunctionOnSet(f, S)
  BY <1>1, SumSame
<1>6. SumFunctionOnSet(f, S) \in Int
  BY <1>1, SumInt
<1>7. SumFunctionOnSet(g, T \ S) = 0
  <2> DEFINE R == T \ S
             Bad == {r \in SUBSET R : SumFunctionOnSet(g, r) # 0}
  <2> SUFFICES ASSUME R \in Bad PROVE FALSE
    OBVIOUS
  <2>1. PICK r \in Bad : IsFiniteSet(r) /\ \A u \in SUBSET r : u \in Bad => u = r
    <3>1. Bad \subseteq SUBSET R /\ Bad # {} /\ IsFiniteSet(R)
      BY <1>1
    <3> HIDE DEF Bad, R
    <3> QED BY <3>1, LeastSubset
  <2>2. r \in SUBSET R /\ SumFunctionOnSet(g, r) # 0
    OBVIOUS
  <2>3. r # {}
    BY <2>2, SumEmpty
  <2>4. Chosen(r) \in r
    BY <2>3 DEF Chosen
  <2>5. SumFunctionOnSet(g, r) = g[Chosen(r)] + SumFunctionOnSet(g, r \ {Chosen(r)})
    BY <2>1, <2>3, SumChosen
  <2>6. SumFunctionOnSet(g, r \ {Chosen(r)}) = 0
    <3>1. r \ {Chosen(r)} \in SUBSET R /\ r \ {Chosen(r)} \in SUBSET r /\ r \ {Chosen(r)} # r
      BY <2>2, <2>4
    <3> QED BY <2>1, <3>1
  <2>7. g[Chosen(r)] = 0
    BY <2>2, <2>4
  <2> QED BY <2>2, <2>5, <2>6, <2>7
<1> QED BY <1>4, <1>5, <1>6, <1>7

\* A set has as many elements as terms of one.
LEMMA CountIsSum ==
  ASSUME NEW T, IsFiniteSet(T), NEW S \in SUBSET T,
         NEW g, \A x \in T : g[x] = IF x \in S THEN 1 ELSE 0
  PROVE  SumFunctionOnSet(g, T) = Cardinality(S)
<1> DEFINE f == [x \in S |-> 1]
           Bad == {s \in SUBSET S : SumFunctionOnSet(f, s) # Cardinality(s)}
<1>1. SumFunctionOnSet(g, T) = SumFunctionOnSet(f, S)
  BY SumFilter
<1>2. IsFiniteSet(S)
  BY FS_Subset
<1> SUFFICES ASSUME S \in Bad PROVE FALSE
  BY <1>1
<1>3. PICK s \in Bad : IsFiniteSet(s) /\ \A u \in SUBSET s : u \in Bad => u = s
  <2>1. Bad \subseteq SUBSET S /\ Bad # {}
    OBVIOUS
  <2> HIDE DEF Bad
  <2> QED BY <1>2, <2>1, LeastSubset
<1>4. s \in SUBSET S /\ SumFunctionOnSet(f, s) # Cardinality(s)
  OBVIOUS
<1>5. s # {}
  BY <1>4, SumEmpty, FS_EmptySet
<1>6. PICK a \in s : TRUE
  BY <1>5
<1> DEFINE r == s \ {a}
<1>7. SumFunctionOnSet(f, r) = Cardinality(r)
  <2>1. r \in SUBSET S /\ r \in SUBSET s /\ r # s
    BY <1>4
  <2> QED BY <1>3, <2>1
<1>8. IsFiniteSet(r) /\ Cardinality(s) = Cardinality(r) + 1 /\ Cardinality(r) \in Nat
  <2>1. IsFiniteSet(r) /\ Cardinality(r) = Cardinality(s) - 1
    BY <1>3, <1>6, FS_RemoveElement
  <2>2. Cardinality(r) \in Nat /\ Cardinality(s) \in Nat
    BY <1>3, <2>1, FS_CardinalityType
  <2> HIDE DEF r
  <2> QED BY <2>1, <2>2
<1>9. \A x \in s : f[x] \in Int
  BY <1>4
<1>10. SumFunctionOnSet(f, s) = f[a] + SumFunctionOnSet(f, r)
  <2> HIDE DEF f
  <2> QED BY <1>3, <1>9, SumRemove
<1>11. f[a] = 1
  BY <1>4
<1> QED BY <1>4, <1>7, <1>8, <1>10, <1>11

\* The sum of sums.
LEMMA SumPlus ==
  ASSUME NEW S, IsFiniteSet(S),
         NEW f, \A x \in S : f[x] \in Int,
         NEW g, \A x \in S : g[x] \in Int,
         NEW h, \A x \in S : h[x] = f[x] + g[x]
  PROVE  SumFunctionOnSet(h, S) = SumFunctionOnSet(f, S) + SumFunctionOnSet(g, S)
<1> DEFINE Bad == {s \in SUBSET S : SumFunctionOnSet(h, s)
                                     # SumFunctionOnSet(f, s) + SumFunctionOnSet(g, s)}
<1> SUFFICES ASSUME S \in Bad PROVE FALSE
  OBVIOUS
<1>1. PICK s \in Bad : IsFiniteSet(s) /\ \A t \in SUBSET s : t \in Bad => t = s
  <2>1. Bad \subseteq SUBSET S /\ Bad # {}
    OBVIOUS
  <2> HIDE DEF Bad
  <2> QED BY <2>1, LeastSubset
<1>2. s \in SUBSET S /\ SumFunctionOnSet(h, s) # SumFunctionOnSet(f, s) + SumFunctionOnSet(g, s)
  OBVIOUS
<1>3. s # {}
  <2> SUFFICES ASSUME s = {} PROVE FALSE
    OBVIOUS
  <2>1. SumFunctionOnSet(h, s) = 0 /\ SumFunctionOnSet(f, s) = 0 /\ SumFunctionOnSet(g, s) = 0
    BY SumEmpty
  <2> QED BY <1>2, <2>1
<1>4. Chosen(s) \in s
  BY <1>3 DEF Chosen
<1> DEFINE r == s \ {Chosen(s)}
<1>5. SumFunctionOnSet(h, r) = SumFunctionOnSet(f, r) + SumFunctionOnSet(g, r)
  <2>1. r \in SUBSET S /\ r \in SUBSET s /\ r # s
    BY <1>2, <1>4
  <2> QED BY <1>1, <2>1
<1>6. IsFiniteSet(r)
  BY <1>1, FS_Subset
<1>7. SumFunctionOnSet(f, r) \in Int /\ SumFunctionOnSet(g, r) \in Int
  BY <1>2, <1>6, SumInt
<1>8. SumFunctionOnSet(f, s) = f[Chosen(s)] + SumFunctionOnSet(f, r)
  BY <1>1, <1>3, SumChosen
<1>9. SumFunctionOnSet(g, s) = g[Chosen(s)] + SumFunctionOnSet(g, r)
  BY <1>1, <1>3, SumChosen
<1>10. SumFunctionOnSet(h, s) = h[Chosen(s)] + SumFunctionOnSet(h, r)
  BY <1>1, <1>3, SumChosen
<1>11. h[Chosen(s)] = f[Chosen(s)] + g[Chosen(s)] /\ f[Chosen(s)] \in Int /\ g[Chosen(s)] \in Int
  BY <1>2, <1>4
<1> QED BY <1>2, <1>5, <1>7, <1>8, <1>9, <1>10, <1>11
=============================================================================
