----------------------------- MODULE SumTheorems -----------------------------
(***************************************************************************)
(* Sums over finite sets, as MapThenSumSet of the community modules makes  *)
(* them: a fold that takes the elements in the order of CHOOSE.  What a    *)
(* fold computes needs an induction; here it is a smallest counterexample  *)
(* among the finite subsets of a set, which is well-founded (WFMin).       *)
(***************************************************************************)
EXTENDS Naturals, FiniteSets, FiniteSetsExt, FiniteSetTheorems, TLAPS

Chosen(s) == CHOOSE x \in s : TRUE

\* What the fold says of each set s, g being the fold.
SumBody(f, g, s) ==
  IF s = {} THEN 0 ELSE f[Chosen(s)] + g[s \ {Chosen(s)}]
Sums(f, g, S) == g = [s \in SUBSET S |-> SumBody(f, g, s)]

\* The sum of a function over a part of its domain.
SumOf(f, S) == MapThenSumSet(LAMBDA x : f[x], S)

LEMMA SumIsFold ==
  ASSUME NEW f, NEW S
  PROVE  SumOf(f, S) = (CHOOSE g : Sums(f, g, S))[S]
BY Zenon DEF SumOf, MapThenSumSet, MapThenFoldSet, Sums, SumBody, Chosen

LEMMA ChosenIsIn == \A s : s # {} => Chosen(s) \in s
BY DEF Chosen

\* A set of finite sets that is not empty has a smallest one.
LEMMA SmallestIsThere ==
  ASSUME NEW S, IsFiniteSet(S), NEW B, B \subseteq SUBSET S, B # {}
  PROVE  \E T \in B : \A U \in B : ~(U \subseteq T /\ U # T)
<1>1. IsWellFoundedOn(StrictSubsetOrdering(S), FiniteSubsetsOf(S))
  BY FS_StrictSubsetOrderingWellFounded
<1>2. B \subseteq FiniteSubsetsOf(S)
  BY FS_Subset DEF FiniteSubsetsOf
<1>3. PICK T \in B : \A U \in B : <<U, T>> \notin StrictSubsetOrdering(S)
  BY <1>1, <1>2, WFMin
<1>4. ASSUME NEW U \in B, U \subseteq T, U # T
      PROVE  FALSE
  <2>1. <<U, T>> \in StrictSubsetOrdering(S)
    BY <1>4 DEF StrictSubsetOrdering
  <2> QED BY <1>3, <2>1
<1> QED BY <1>4

\* Two folds agree where both are defined.
LEMMA SumsAgree ==
  ASSUME NEW f, NEW g, NEW h, NEW A, NEW B, Sums(f, g, A), Sums(f, h, B),
         NEW U, U \subseteq A, U \subseteq B, IsFiniteSet(U)
  PROVE  g[U] = h[U]
<1> DEFINE Bad == {s \in SUBSET U : g[s] # h[s]}
<1> SUFFICES ASSUME Bad # {} PROVE FALSE
  OBVIOUS
<1>1. PICK T \in Bad : \A V \in Bad : ~(V \subseteq T /\ V # T)
  <2>1. Bad \subseteq SUBSET U
    OBVIOUS
  <2> HIDE DEF Bad
  <2> QED BY <2>1, SmallestIsThere
<1>2. T \subseteq U /\ g[T] # h[T]
  OBVIOUS
<1>3. g[T] = SumBody(f, g, T) /\ h[T] = SumBody(f, h, T)
  BY <1>2 DEF Sums
<1>4. T # {}
  BY <1>2, <1>3 DEF SumBody
<1>5. Chosen(T) \in T
  BY <1>4, ChosenIsIn
<1>6. g[T \ {Chosen(T)}] = h[T \ {Chosen(T)}]
  BY <1>1, <1>2, <1>5
<1> QED BY <1>2, <1>3, <1>4, <1>6 DEF SumBody

\* A fold exists: of the sets without one, the smallest has one.
LEMMA SumsExist ==
  ASSUME NEW S, IsFiniteSet(S), NEW f \in [S -> Nat]
  PROVE  \E g \in [SUBSET S -> Nat] : Sums(f, g, S)
<1> DEFINE Has(T) == \E g \in [SUBSET T -> Nat] : Sums(f, g, T)
           Bad == {T \in SUBSET S : ~Has(T)}
<1> SUFFICES ASSUME Bad # {} PROVE FALSE
  OBVIOUS
<1>1. PICK T \in Bad : \A V \in Bad : ~(V \subseteq T /\ V # T)
  <2>1. Bad \subseteq SUBSET S
    OBVIOUS
  <2> HIDE DEF Bad
  <2> QED BY <2>1, SmallestIsThere
<1>2. T \subseteq S /\ ~Has(T) /\ \A V : V \subseteq T /\ V # T => Has(V)
  BY <1>1
<1>3. \A V : V \subseteq T => IsFiniteSet(V)
  BY <1>2, FS_Subset
<1> DEFINE G(V) == CHOOSE g \in [SUBSET V -> Nat] : Sums(f, g, V)
           Value(V) == G(V)[V]
           g == [s \in SUBSET T |->
                   IF s # T THEN Value(s)
                   ELSE IF T = {} THEN 0
                   ELSE f[Chosen(T)] + Value(T \ {Chosen(T)})]
<1>4. \A V : V \subseteq T /\ V # T => G(V) \in [SUBSET V -> Nat] /\ Sums(f, G(V), V)
  BY <1>2
<1>5. \A V : V \subseteq T /\ V # T => Value(V) \in Nat
  BY <1>4
<1>6. T # {} => /\ Chosen(T) \in T /\ f[Chosen(T)] \in Nat
                /\ T \ {Chosen(T)} \subseteq T /\ T \ {Chosen(T)} # T
  BY <1>2, ChosenIsIn
<1>7. g \in [SUBSET T -> Nat]
  <2>1. ASSUME NEW s \in SUBSET T
        PROVE  g[s] \in Nat
    <3>1. CASE s # T
      BY <1>5, <3>1
    <3>2. CASE s = T
      <4>1. T # {} => Value(T \ {Chosen(T)}) \in Nat
        BY <1>5, <1>6
      <4> HIDE DEF Value
      <4> QED BY <1>6, <3>2, <4>1
    <3> QED BY <3>1, <3>2
  <2> QED BY <2>1
<1>8. ASSUME NEW s \in SUBSET T
      PROVE  g[s] = SumBody(f, g, s)
  <2>1. CASE s = T
    BY <1>6, <2>1 DEF SumBody
  <2>2. CASE s # T
    <3>1. g[s] = Value(s) /\ Sums(f, G(s), s)
      BY <1>4, <2>2
    <3>2. Value(s) = SumBody(f, G(s), s)
      BY <3>1 DEF Sums
    <3>3. CASE s = {}
      BY <3>1, <3>2, <3>3 DEF SumBody
    <3>4. CASE s # {}
      <4>1. PICK c, r : c = Chosen(s) /\ r = s \ {c}
        OBVIOUS
      <4>2. c \in s /\ r \subseteq s /\ r \subseteq T /\ r # T /\ IsFiniteSet(r)
        BY <1>3, <3>4, <4>1, ChosenIsIn
      <4>3. Sums(f, G(r), r)
        BY <1>4, <4>2
      <4>4. G(s)[r] = G(r)[r]
        BY <3>1, <4>2, <4>3, SumsAgree
      <4>5. g[r] = Value(r)
        BY <4>2
      <4> HIDE DEF g, G
      <4> QED BY <3>1, <3>2, <3>4, <4>1, <4>4, <4>5 DEF SumBody
    <3> QED BY <3>3, <3>4
  <2> QED BY <2>1, <2>2
<1>9. Sums(f, g, T)
  BY <1>8, Zenon DEF Sums
<1> QED BY <1>2, <1>7, <1>9

\* So every fold of f is the sum.
LEMMA SumIs ==
  ASSUME NEW S, IsFiniteSet(S), NEW f \in [S -> Nat]
  PROVE  /\ SumOf(f, S) \in Nat
         /\ \A g : Sums(f, g, S) => g[S] = SumOf(f, S)
<1>1. PICK h \in [SUBSET S -> Nat] : Sums(f, h, S)
  BY SumsExist
<1>2. PICK g : g = CHOOSE x : Sums(f, x, S)
  OBVIOUS
<1>3. Sums(f, g, S) /\ SumOf(f, S) = g[S]
  BY <1>1, <1>2, SumIsFold, Zenon
<1>4. g[S] = h[S]
  BY <1>1, <1>3, SumsAgree
<1>5. \A x : Sums(f, x, S) => x[S] = h[S]
  BY <1>1, SumsAgree
<1> QED BY <1>1, <1>3, <1>4, <1>5

\* The sum over a smaller set is what the same fold says of it.
LEMMA SumOverPart ==
  ASSUME NEW D, IsFiniteSet(D), NEW f \in [D -> Nat]
  PROVE  \E g \in [SUBSET D -> Nat] :
           /\ Sums(f, g, D)
           /\ \A S \in SUBSET D : g[S] = SumOf(f, S)
<1>1. PICK g \in [SUBSET D -> Nat] : Sums(f, g, D)
  BY SumsExist
<1>2. ASSUME NEW S \in SUBSET D
      PROVE  g[S] = SumOf(f, S)
  <2>1. IsFiniteSet(S)
    BY FS_Subset
  <2>2. PICK e : e = [x \in S |-> f[x]]
    OBVIOUS
  <2>3. e \in [S -> Nat]
    BY <2>2
  <2>4. PICK h \in [SUBSET S -> Nat] : Sums(e, h, S)
    BY <2>1, <2>3, SumsExist
  <2>5. Sums(f, h, S)
    <3>1. \A s \in SUBSET S : SumBody(f, h, s) = SumBody(e, h, s)
      BY <2>2, ChosenIsIn DEF SumBody
    <3> QED BY <2>4, <3>1 DEF Sums
  <2>6. PICK k : k = CHOOSE x : Sums(f, x, S)
    OBVIOUS
  <2>7. Sums(f, k, S) /\ SumOf(f, S) = k[S]
    BY <2>5, <2>6, SumIsFold, Zenon
  <2>8. k[S] = g[S]
    BY <1>1, <2>1, <2>7, SumsAgree
  <2> QED BY <2>7, <2>8
<1> QED BY <1>1, <1>2

LEMMA SumStep ==
  ASSUME NEW D, IsFiniteSet(D), NEW f \in [D -> Nat]
  PROVE  \A S \in SUBSET D :
           /\ SumOf(f, S) \in Nat
           /\ S = {} => SumOf(f, S) = 0
           /\ S # {} => SumOf(f, S) = f[Chosen(S)] + SumOf(f, S \ {Chosen(S)})
<1>1. PICK g \in [SUBSET D -> Nat] : /\ Sums(f, g, D)
                                     /\ \A S \in SUBSET D : g[S] = SumOf(f, S)
  BY SumOverPart
<1>2. ASSUME NEW S \in SUBSET D
      PROVE  /\ SumOf(f, S) \in Nat
             /\ S = {} => SumOf(f, S) = 0
             /\ S # {} => SumOf(f, S) = f[Chosen(S)] + SumOf(f, S \ {Chosen(S)})
  <2>1. SumOf(f, S) = SumBody(f, g, S) /\ SumOf(f, S) \in Nat
    BY <1>1 DEF Sums
  <2>2. PICK r : r = S \ {Chosen(S)}
    OBVIOUS
  <2>3. g[r] = SumOf(f, r)
    BY <1>1, <2>2
  <2> QED BY <2>1, <2>2, <2>3 DEF SumBody
<1> QED BY <1>2

\* Any element may be taken first.
LEMMA SumAny ==
  ASSUME NEW D, IsFiniteSet(D), NEW f \in [D -> Nat], NEW S \in SUBSET D, NEW x \in S
  PROVE  SumOf(f, S) = f[x] + SumOf(f, S \ {x})
<1> DEFINE Splits(T) == \A y \in T : SumOf(f, T) = f[y] + SumOf(f, T \ {y})
           Bad == {T \in SUBSET D : ~Splits(T)}
<1> SUFFICES ASSUME Bad # {} PROVE FALSE
  <2>1. Bad = {} => Splits(S)
    OBVIOUS
  <2> QED BY <2>1
<1>1. PICK T \in Bad : \A V \in Bad : ~(V \subseteq T /\ V # T)
  <2>1. Bad \subseteq SUBSET D
    OBVIOUS
  <2> HIDE DEF Bad
  <2> QED BY <2>1, SmallestIsThere
<1>2. T \subseteq D /\ \A V : V \subseteq T /\ V # T => Splits(V)
  BY <1>1
<1>3. PICK y \in T : SumOf(f, T) # f[y] + SumOf(f, T \ {y})
  BY <1>1
<1>4. PICK c : c = Chosen(T)
  OBVIOUS
<1>5. c \in T
  BY <1>3, <1>4, ChosenIsIn
<1>6. SumOf(f, T) = f[c] + SumOf(f, T \ {c})
  BY <1>2, <1>4, <1>5, SumStep
<1>7. c # y
  BY <1>3, <1>6
<1>8. SumOf(f, T \ {c}) = f[y] + SumOf(f, (T \ {c}) \ {y})
  <2>1. Splits(T \ {c})
    BY <1>2, <1>5
  <2> QED BY <1>3, <1>7, <2>1
<1>9. SumOf(f, T \ {y}) = f[c] + SumOf(f, (T \ {y}) \ {c})
  <2>1. Splits(T \ {y})
    BY <1>2, <1>3
  <2> QED BY <1>5, <1>7, <2>1
<1>10. (T \ {c}) \ {y} = (T \ {y}) \ {c}
  OBVIOUS
<1>11. f[c] \in Nat /\ f[y] \in Nat /\ SumOf(f, (T \ {c}) \ {y}) \in Nat
  <2>1. (T \ {c}) \ {y} \in SUBSET D
    BY <1>2
  <2>2. SumOf(f, (T \ {c}) \ {y}) \in Nat
    BY <2>1, SumStep
  <2> QED BY <1>2, <1>3, <1>5, <2>2
<1>12. PICK a, b, n \in Nat : a = f[c] /\ b = f[y] /\ n = SumOf(f, (T \ {c}) \ {y})
  BY <1>11
<1>13. SumOf(f, T) = a + (b + n) /\ SumOf(f, T \ {y}) = a + n
  BY <1>6, <1>8, <1>9, <1>10, <1>12, Zenon
<1> QED BY <1>3, <1>12, <1>13

\* The sum depends on the values over the set only.
LEMMA SumOfEqual ==
  ASSUME NEW D, IsFiniteSet(D), NEW f \in [D -> Nat], NEW e \in [D -> Nat],
         NEW S \in SUBSET D, \A x \in S : f[x] = e[x]
  PROVE  SumOf(f, S) = SumOf(e, S)
<1> DEFINE Bad == {T \in SUBSET S : SumOf(f, T) # SumOf(e, T)}
<1> SUFFICES ASSUME Bad # {} PROVE FALSE
  OBVIOUS
<1>0. IsFiniteSet(S)
  BY FS_Subset
<1>1. PICK T \in Bad : \A V \in Bad : ~(V \subseteq T /\ V # T)
  <2>1. Bad \subseteq SUBSET S
    OBVIOUS
  <2> HIDE DEF Bad
  <2> QED BY <1>0, <2>1, SmallestIsThere
<1>2. T \in SUBSET D /\ T \subseteq S /\ SumOf(f, T) # SumOf(e, T)
  OBVIOUS
<1>3. PICK c, r : c = Chosen(T) /\ r = T \ {c}
  OBVIOUS
<1>4. T # {}
  BY <1>2, SumStep
<1>5. /\ SumOf(f, T) = f[c] + SumOf(f, r)
      /\ SumOf(e, T) = e[c] + SumOf(e, r)
  BY <1>2, <1>3, <1>4, SumStep
<1>6. c \in T
  BY <1>3, <1>4, ChosenIsIn
<1>7. SumOf(f, r) = SumOf(e, r)
  <2>1. r \subseteq T /\ r # T /\ r \in SUBSET S
    BY <1>2, <1>3, <1>6
  <2> QED BY <1>1, <2>1
<1> QED BY <1>2, <1>5, <1>6, <1>7

\* One value changes.
LEMMA SumChanges ==
  ASSUME NEW D, IsFiniteSet(D), NEW f \in [D -> Nat], NEW e \in [D -> Nat],
         NEW S \in SUBSET D, NEW x \in S, \A y \in S \ {x} : e[y] = f[y]
  PROVE  SumOf(e, S) + f[x] = SumOf(f, S) + e[x]
<1>1. SumOf(f, S) = f[x] + SumOf(f, S \ {x}) /\ SumOf(e, S) = e[x] + SumOf(e, S \ {x})
  BY SumAny
<1>2. SumOf(f, S \ {x}) = SumOf(e, S \ {x})
  BY SumOfEqual
<1>3. PICK a, b, n \in Nat : a = f[x] /\ b = e[x] /\ n = SumOf(f, S \ {x})
  BY SumStep
<1>4. SumOf(f, S) = a + n /\ SumOf(e, S) = b + n
  BY <1>1, <1>2, <1>3, Zenon
<1> QED BY <1>3, <1>4

\* Every value is a part of the sum, and a sum of nothing is zero.
LEMMA SumBounds ==
  ASSUME NEW D, IsFiniteSet(D), NEW f \in [D -> Nat], NEW S \in SUBSET D
  PROVE  /\ SumOf(f, S) \in Nat
         /\ \A x \in S : f[x] <= SumOf(f, S)
         /\ SumOf(f, S) > 0 <=> \E x \in S : f[x] > 0
<1>1. \A x \in S : f[x] <= SumOf(f, S)
  <2> TAKE x \in S
  <2>1. SumOf(f, S) = f[x] + SumOf(f, S \ {x})
    BY SumAny
  <2>2. PICK a, n \in Nat : a = f[x] /\ n = SumOf(f, S \ {x})
    BY SumStep
  <2> QED BY <2>1, <2>2
<1>2. SumOf(f, S) \in Nat
  BY SumStep
<1>3. (\A x \in S : f[x] = 0) => SumOf(f, S) = 0
  <2> SUFFICES ASSUME \A x \in S : f[x] = 0 PROVE SumOf(f, S) = 0
    OBVIOUS
  <2> DEFINE Bad == {T \in SUBSET S : SumOf(f, T) # 0}
  <2> SUFFICES ASSUME Bad # {} PROVE FALSE
    OBVIOUS
  <2>0. IsFiniteSet(S)
    BY FS_Subset
  <2>1. PICK T \in Bad : \A V \in Bad : ~(V \subseteq T /\ V # T)
    <3>1. Bad \subseteq SUBSET S
      OBVIOUS
    <3> HIDE DEF Bad
    <3> QED BY <2>0, <3>1, SmallestIsThere
  <2>2. T \in SUBSET D /\ T \subseteq S /\ SumOf(f, T) # 0
    OBVIOUS
  <2>3. PICK c, r : c = Chosen(T) /\ r = T \ {c}
    OBVIOUS
  <2>4. T # {} /\ c \in T /\ SumOf(f, T) = f[c] + SumOf(f, r)
    BY <2>2, <2>3, ChosenIsIn, SumStep
  <2>5. SumOf(f, r) = 0
    <3>1. r \subseteq T /\ r # T /\ r \in SUBSET S
      BY <2>2, <2>3, <2>4
    <3> QED BY <2>1, <3>1
  <2> QED BY <2>2, <2>4, <2>5
<1> QED
  <2>1. PICK n \in Nat : n = SumOf(f, S)
    BY <1>2
  <2>2. \A x \in S : f[x] \in Nat
    OBVIOUS
  <2> QED BY <1>1, <1>3, <2>1, <2>2

\* Every value grows by a set of its own: the sum grows by all of them.
LEMMA SumGains ==
  ASSUME NEW D, IsFiniteSet(D), NEW f \in [D -> Nat], NEW e \in [D -> Nat],
         NEW W, IsFiniteSet(W), NEW p \in [D -> SUBSET W],
         \A x, y \in D : x # y => p[x] \cap p[y] = {},
         \A x \in D : e[x] = f[x] + Cardinality(p[x]),
         NEW S \in SUBSET D
  PROVE  SumOf(e, S) = SumOf(f, S) + Cardinality(UNION {p[x] : x \in S})
<1> DEFINE Joined(T) == UNION {p[x] : x \in T}
           Gains(T) == SumOf(e, T) = SumOf(f, T) + Cardinality(Joined(T))
           Bad == {T \in SUBSET S : ~Gains(T)}
<1> SUFFICES ASSUME Bad # {} PROVE FALSE
  OBVIOUS
<1>0. IsFiniteSet(S)
  BY FS_Subset
<1>1. PICK T \in Bad : \A V \in Bad : ~(V \subseteq T /\ V # T)
  <2>1. Bad \subseteq SUBSET S
    OBVIOUS
  <2> HIDE DEF Bad
  <2> QED BY <1>0, <2>1, SmallestIsThere
<1>2. T \in SUBSET D /\ T \subseteq S /\ ~Gains(T)
  OBVIOUS
<1>3. PICK c, r : c = Chosen(T) /\ r = T \ {c}
  OBVIOUS
<1>4. T # {}
  <2> SUFFICES ASSUME T = {} PROVE FALSE
    OBVIOUS
  <2>1. SumOf(f, T) = 0 /\ SumOf(e, T) = 0
    BY <1>2, SumStep
  <2>2. Joined(T) = {}
    OBVIOUS
  <2>3. Cardinality(Joined(T)) = 0
    BY <2>2, FS_EmptySet
  <2> QED BY <1>2, <2>1, <2>3
<1>5. c \in T /\ c \in D
  BY <1>2, <1>3, <1>4, ChosenIsIn
<1>6. /\ SumOf(f, T) = f[c] + SumOf(f, r)
      /\ SumOf(e, T) = e[c] + SumOf(e, r)
  BY <1>2, <1>3, <1>4, SumStep
<1>7. Gains(r)
  <2>1. r \subseteq T /\ r # T /\ r \in SUBSET S
    BY <1>2, <1>3, <1>5
  <2>2. r \notin Bad
    <3> HIDE DEF Bad
    <3> QED BY <1>1, <2>1
  <2> QED BY <2>1, <2>2
<1>8. Joined(T) = p[c] \cup Joined(r) /\ p[c] \cap Joined(r) = {}
  <2>1. Joined(T) = p[c] \cup Joined(r)
    BY <1>3, <1>5
  <2>2. \A x \in r : x \in D /\ x # c
    BY <1>2, <1>3
  <2> QED BY <1>5, <2>1, <2>2
<1>9. Joined(r) \in SUBSET W /\ p[c] \in SUBSET W
  <2>1. r \subseteq D
    BY <1>2, <1>3
  <2> QED BY <1>5, <2>1
<1>10. IsFiniteSet(Joined(r)) /\ IsFiniteSet(p[c])
  BY <1>9, FS_Subset
<1>11. PICK a, b \in Nat : a = Cardinality(p[c]) /\ b = Cardinality(Joined(r))
  BY <1>10, FS_CardinalityType
<1>12. Cardinality(Joined(T)) = a + b
  <2>1. PICK A, B : A = p[c] /\ B = Joined(r)
    OBVIOUS
  <2>2. Cardinality(A \cup B) = Cardinality(A) + Cardinality(B) - Cardinality(A \cap B)
    BY <1>10, <2>1, FS_Union
  <2>3. Cardinality(A \cap B) = 0
    BY <1>8, <2>1, FS_EmptySet
  <2>4. Cardinality(A \cup B) = a + b - 0
    BY <1>11, <2>1, <2>2, <2>3, Zenon
  <2>5. Cardinality(A \cup B) = a + b
    BY <2>4
  <2> QED BY <1>8, <2>1, <2>5, Zenon
<1>13. PICK m, n, l \in Nat : m = f[c] /\ n = SumOf(f, r) /\ l = SumOf(e, r)
  <2>1. r \in SUBSET D
    BY <1>2, <1>3
  <2>2. f[c] \in Nat /\ SumOf(f, r) \in Nat /\ SumOf(e, r) \in Nat
    BY <1>5, <2>1, SumStep
  <2> QED BY <2>2
<1>14. /\ SumOf(f, T) = m + n /\ SumOf(e, T) = (m + a) + l /\ l = n + b
  <2>1. e[c] = m + a
    BY <1>5, <1>11, <1>13
  <2>2. l = n + b
    BY <1>7, <1>11, <1>13
  <2> QED BY <1>6, <1>13, <2>1, <2>2
<1>15. SumOf(e, T) = SumOf(f, T) + Cardinality(Joined(T))
  BY <1>12, <1>13, <1>11, <1>14
<1> QED BY <1>2, <1>15

=============================================================================
