-------------------------------- MODULE Sums --------------------------------
(***************************************************************************)
(* Sums over finite sets, SumFunctionOnSet of the module Functions: what a *)
(* ledger, a trade table or a settlement adds up to.  The provers cannot   *)
(* instantiate an induction theorem that takes a predicate, so induction   *)
(* over a finite set is stated for a set of subsets (SubsetInduction).     *)
(***************************************************************************)
EXTENDS Integers, FiniteSetTheorems, Functions, TLAPS

-----------------------------------------------------------------------------
(* Induction over the subsets of a finite set *)

\* Among subsets of a finite set there is one with none of the others inside it.
LEMMA LeastSubset ==
    ASSUME NEW S, IsFiniteSet(S), NEW Bad \in SUBSET SUBSET S, Bad # {}
    PROVE  \E T \in Bad : \A U \in Bad : U \subseteq T => U = T
<1>1. IsWellFoundedOn(StrictSubsetOrdering(S), SUBSET S)
  BY FS_StrictSubsetOrderingWellFounded, FS_FiniteSubsetsOfFinite
<1>2. PICK T \in Bad : \A U \in Bad : ~(<<U, T>> \in StrictSubsetOrdering(S))
  BY <1>1, WFMin
<1> QED
  BY <1>2 DEF StrictSubsetOrdering

\* A set of subsets that has the empty set, and with a set one of one element more,
\* has them all.
LEMMA SubsetInduction ==
    ASSUME NEW S, IsFiniteSet(S), NEW Good, {} \in Good,
           \A T \in SUBSET S : \A x \in S \ T : T \in Good => T \cup {x} \in Good
    PROVE  S \in Good
<1> DEFINE Bad == {T \in SUBSET S : T \notin Good}
<1>1. SUFFICES ASSUME Bad # {}
               PROVE  FALSE
  OBVIOUS
<1>2. PICK T \in Bad : \A U \in Bad : U \subseteq T => U = T
  <2>1. Bad \in SUBSET SUBSET S
    OBVIOUS
  <2> HIDE DEF Bad
  <2> QED
    BY <1>1, <2>1, LeastSubset
<1>3. T # {}
  BY <1>2
<1>4. PICK x : x \in T
  BY <1>3
<1>5. T \ {x} \in SUBSET S /\ T \ {x} \notin Bad
  BY <1>2, <1>4
<1>6. (T \ {x}) \cup {x} = T /\ x \in S \ (T \ {x})
  BY <1>2, <1>4
<1> QED
  BY <1>2, <1>5, <1>6

\* The same where each set is in it if all the smaller ones are.
LEMMA StrongInduction ==
    ASSUME NEW S, IsFiniteSet(S), NEW Good,
           \A T \in SUBSET S : (\A U \in SUBSET T : U # T => U \in Good) => T \in Good
    PROVE  S \in Good
<1> DEFINE Bad == {T \in SUBSET S : T \notin Good}
<1>1. SUFFICES ASSUME Bad # {}
               PROVE  FALSE
  OBVIOUS
<1>2. PICK T \in Bad : \A U \in Bad : U \subseteq T => U = T
  <2>1. Bad \in SUBSET SUBSET S
    OBVIOUS
  <2> HIDE DEF Bad
  <2> QED
    BY <1>1, <2>1, LeastSubset
<1>3. \A U \in SUBSET T : U # T => U \in Good
  BY <1>2
<1> QED
  BY <1>2, <1>3

-----------------------------------------------------------------------------
(* The function that a sum is read from *)

Pick(s) == CHOOSE x \in s : TRUE

\* g is the table of the sums of f over the subsets of S.
Unfolds(g, f, S) ==
    g = [s \in SUBSET S |-> IF s = {} THEN 0 ELSE f[Pick(s)] + g[s \ {Pick(s)}]]

LEMMA PickIn == ASSUME NEW s, s # {} PROVE Pick(s) \in s
BY DEF Pick

LEMMA SumUnfolds ==
    ASSUME NEW f, NEW S
    PROVE  SumFunctionOnSet(f, S) = (CHOOSE g : Unfolds(g, f, S))[S]
BY DEF SumFunctionOnSet, FoldFunctionOnSet, MapThenFoldSet, Unfolds, Pick

\* Two tables agree where both are defined.
LEMMA UnfoldsAgree ==
    ASSUME NEW f, NEW S, NEW T, IsFiniteSet(S), NEW g, NEW h, Unfolds(g, f, S), Unfolds(h, f, T),
           NEW u, u \subseteq S, u \subseteq T
    PROVE  g[u] = h[u]
<1> DEFINE Bad == {s \in SUBSET u : g[s] # h[s]}
<1>1. SUFFICES ASSUME Bad # {}
               PROVE  FALSE
  OBVIOUS
<1>2. IsFiniteSet(u)
  BY FS_Subset
<1>3. PICK s \in Bad : \A t \in Bad : t \subseteq s => t = s
  <2>1. Bad \in SUBSET SUBSET u
    OBVIOUS
  <2> HIDE DEF Bad
  <2> QED
    BY <1>1, <1>2, <2>1, LeastSubset
<1>4. s \in SUBSET S /\ s \in SUBSET T
  BY <1>3
<1>5. /\ g[s] = IF s = {} THEN 0 ELSE f[Pick(s)] + g[s \ {Pick(s)}]
      /\ h[s] = IF s = {} THEN 0 ELSE f[Pick(s)] + h[s \ {Pick(s)}]
  BY <1>4 DEF Unfolds
<1>6. CASE s = {}
  BY <1>3, <1>5, <1>6
<1>7. CASE s # {}
  <2>1. s \ {Pick(s)} \in SUBSET u /\ s \ {Pick(s)} \subseteq s /\ s \ {Pick(s)} # s
    BY <1>3, <1>7, PickIn
  <2>2. g[s \ {Pick(s)}] = h[s \ {Pick(s)}]
    BY <1>3, <2>1
  <2> QED
    BY <1>3, <1>5, <1>7, <2>2
<1> QED
  BY <1>6, <1>7

LEMMA UnfoldsExists ==
    ASSUME NEW f, NEW S, IsFiniteSet(S)
    PROVE  \E g : Unfolds(g, f, S)
<1> DEFINE Bad == {T \in SUBSET S : ~ \E g : Unfolds(g, f, T)}
<1>1. SUFFICES ASSUME Bad # {}
               PROVE  FALSE
  OBVIOUS
<1>2. PICK T \in Bad : \A U \in Bad : U \subseteq T => U = T
  <2>1. Bad \in SUBSET SUBSET S
    OBVIOUS
  <2> HIDE DEF Bad
  <2> QED
    BY <1>1, <2>1, LeastSubset
<1>3. IsFiniteSet(T)
  BY <1>2, FS_Subset
<1> DEFINE v(U) == SumFunctionOnSet(f, U)
           g == [s \in SUBSET T |-> IF s = {} THEN 0 ELSE f[Pick(s)] + v(s \ {Pick(s)})]
\* Below T there are tables, and what they say of a set is its sum.
<1>4. ASSUME NEW U, U \subseteq T, U # T
      PROVE  v(U) = IF U = {} THEN 0 ELSE f[Pick(U)] + v(U \ {Pick(U)})
  <2>1. \A V : V \subseteq U => V \subseteq T /\ V # T /\ V \in SUBSET S /\ V \notin Bad
    BY <1>2, <1>4
  <2>2. \A V : V \subseteq U => \E h : Unfolds(h, f, V)
    BY <2>1
  <2> DEFINE k(V) == CHOOSE h : Unfolds(h, f, V)
  <2>3. \A V : V \subseteq U => Unfolds(k(V), f, V)
    BY <2>2
  <2>4. \A V : v(V) = k(V)[V]
    BY SumUnfolds
  <2> HIDE DEF k, v
  <2>5. k(U)[U] = IF U = {} THEN 0 ELSE f[Pick(U)] + k(U)[U \ {Pick(U)}]
    BY <2>3 DEF Unfolds
  <2>6. CASE U = {}
    BY <2>4, <2>5, <2>6
  <2>7. CASE U # {}
    <3> DEFINE V == U \ {Pick(U)}
    <3>1. V \subseteq U /\ Unfolds(k(V), f, V) /\ Unfolds(k(U), f, U)
      BY <2>3
    <3>2. IsFiniteSet(U)
      BY <1>3, <1>4, FS_Subset
    <3>3. k(U)[V] = k(V)[V]
      BY <3>1, <3>2, UnfoldsAgree
    <3> QED
      BY <2>4, <2>5, <2>7, <3>3
  <2> QED
    BY <2>6, <2>7
<1> HIDE DEF v
<1>5. ASSUME NEW s \in SUBSET T, s # {}
      PROVE  g[s \ {Pick(s)}] = v(s \ {Pick(s)})
  <2> DEFINE U == s \ {Pick(s)}
  <2>1. U \subseteq T /\ U # T
    BY <1>5, PickIn
  <2>2. g[U] = IF U = {} THEN 0 ELSE f[Pick(U)] + v(U \ {Pick(U)})
    BY <2>1
  <2> QED
    BY <1>4, <2>1, <2>2
<1>6. g = [s \in SUBSET T |-> IF s = {} THEN 0 ELSE f[Pick(s)] + g[s \ {Pick(s)}]]
  BY <1>5
<1>7. Unfolds(g, f, T)
  BY <1>6 DEF Unfolds
<1> QED
  BY <1>2, <1>7

-----------------------------------------------------------------------------
(* Sums *)

LEMMA SumEmpty == ASSUME NEW f PROVE SumFunctionOnSet(f, {}) = 0
<1> DEFINE g == CHOOSE t : Unfolds(t, f, {})
<1>1. Unfolds(g, f, {})
  BY UnfoldsExists, FS_EmptySet
<1>2. SumFunctionOnSet(f, {}) = g[{}]
  BY SumUnfolds
<1> HIDE DEF g
<1> QED
  BY <1>1, <1>2 DEF Unfolds

LEMMA SumPick ==
    ASSUME NEW f, NEW S, IsFiniteSet(S), S # {}
    PROVE  SumFunctionOnSet(f, S) = f[Pick(S)] + SumFunctionOnSet(f, S \ {Pick(S)})
<1> DEFINE T == S \ {Pick(S)}
           g == CHOOSE t : Unfolds(t, f, S)
           h == CHOOSE t : Unfolds(t, f, T)
<1>1. IsFiniteSet(T) /\ T \subseteq S
  BY FS_Subset
<1>2. Unfolds(g, f, S) /\ Unfolds(h, f, T)
  BY <1>1, UnfoldsExists
<1>3. SumFunctionOnSet(f, S) = g[S] /\ SumFunctionOnSet(f, T) = h[T]
  BY SumUnfolds
<1> HIDE DEF g, h
<1>4. g[S] = f[Pick(S)] + g[T]
  BY <1>2 DEF Unfolds
<1>5. g[T] = h[T]
  BY <1>1, <1>2, UnfoldsAgree
<1> QED
  BY <1>3, <1>4, <1>5

LEMMA SumInt ==
    ASSUME NEW S, IsFiniteSet(S), NEW f, \A x \in S : f[x] \in Int
    PROVE  SumFunctionOnSet(f, S) \in Int
<1> DEFINE Good == {T \in SUBSET S : SumFunctionOnSet(f, T) \in Int}
<1>1. ASSUME NEW T \in SUBSET S, \A U \in SUBSET T : U # T => U \in Good
      PROVE  T \in Good
  <2>1. CASE T = {}
    BY <2>1, SumEmpty
  <2>2. CASE T # {}
    <3>1. IsFiniteSet(T) /\ Pick(T) \in T
      BY <2>2, FS_Subset, PickIn
    <3>2. T \ {Pick(T)} \in SUBSET T /\ T \ {Pick(T)} # T
      BY <3>1
    <3>3. T \ {Pick(T)} \in Good
      BY <1>1, <3>2
    <3>4. SumFunctionOnSet(f, T) = f[Pick(T)] + SumFunctionOnSet(f, T \ {Pick(T)})
      BY <2>2, <3>1, SumPick
    <3> QED
      BY <3>1, <3>3, <3>4
  <2> QED
    BY <2>1, <2>2
<1> HIDE DEF Good
<1>2. S \in Good
  BY <1>1, StrongInduction
<1> QED
  BY <1>2 DEF Good

\* Any element may be taken out first.
LEMMA SumRemove ==
    ASSUME NEW S, IsFiniteSet(S), NEW f, \A x \in S : f[x] \in Int, NEW x \in S
    PROVE  SumFunctionOnSet(f, S) = f[x] + SumFunctionOnSet(f, S \ {x})
<1> DEFINE Good == {T \in SUBSET S :
                \A y \in T : SumFunctionOnSet(f, T) = f[y] + SumFunctionOnSet(f, T \ {y})}
<1>1. ASSUME NEW T \in SUBSET S, \A U \in SUBSET T : U # T => U \in Good
      PROVE  T \in Good
  <2> SUFFICES ASSUME NEW y \in T
               PROVE  SumFunctionOnSet(f, T) = f[y] + SumFunctionOnSet(f, T \ {y})
    OBVIOUS
  <2> DEFINE p == Pick(T)
             W == (T \ {y}) \ {p}
  <2>1. IsFiniteSet(T) /\ T # {} /\ p \in T
    BY FS_Subset, PickIn
  <2>2. SumFunctionOnSet(f, T) = f[p] + SumFunctionOnSet(f, T \ {p})
    BY <2>1, SumPick
  <2>3. CASE p = y
    BY <2>2, <2>3
  <2>4. CASE p # y
    <3> HIDE DEF p
    <3>1. /\ T \ {p} \in SUBSET T /\ T \ {p} # T /\ y \in T \ {p} /\ (T \ {p}) \ {y} = W
          /\ T \ {y} \in SUBSET T /\ T \ {y} # T /\ p \in T \ {y}
      BY <2>1, <2>4
    <3>2. T \ {p} \in Good /\ T \ {y} \in Good
      BY <1>1, <3>1
    <3>3. SumFunctionOnSet(f, T \ {p}) = f[y] + SumFunctionOnSet(f, (T \ {p}) \ {y})
      BY <3>1, <3>2
    <3>4. SumFunctionOnSet(f, T \ {y}) = f[p] + SumFunctionOnSet(f, W)
      BY <3>1, <3>2
    <3>5. IsFiniteSet(W) /\ \A z \in W : f[z] \in Int
      BY <2>1, FS_Subset
    <3>6. f[p] \in Int /\ f[y] \in Int /\ SumFunctionOnSet(f, W) \in Int
      BY <2>1, <3>5, SumInt
    <3>7. SumFunctionOnSet(f, T \ {p}) = f[y] + SumFunctionOnSet(f, W)
      BY <3>1, <3>3
    <3> HIDE DEF W
    <3>8. f[p] + (f[y] + SumFunctionOnSet(f, W)) = f[y] + (f[p] + SumFunctionOnSet(f, W))
      BY <3>6
    <3> QED
      BY <2>2, <3>4, <3>7, <3>8
  <2> QED
    BY <2>3, <2>4
<1> HIDE DEF Good
<1>2. S \in Good
  BY <1>1, StrongInduction
<1> QED
  BY <1>2 DEF Good

LEMMA SumAdd ==
    ASSUME NEW S, IsFiniteSet(S), NEW f, \A y \in S : f[y] \in Int, NEW x, x \notin S, f[x] \in Int
    PROVE  SumFunctionOnSet(f, S \cup {x}) = f[x] + SumFunctionOnSet(f, S)
<1> DEFINE T == S \cup {x}
<1>1. IsFiniteSet(T) /\ (\A y \in T : f[y] \in Int) /\ x \in T /\ T \ {x} = S
  BY FS_AddElement
<1> HIDE DEF T
<1>2. SumFunctionOnSet(f, T) = f[x] + SumFunctionOnSet(f, T \ {x})
  BY <1>1, SumRemove
<1> QED
  BY <1>1, <1>2 DEF T

\* A set of one element.
LEMMA SumOne == ASSUME NEW f, NEW x, f[x] \in Int PROVE SumFunctionOnSet(f, {x}) = f[x]
<1>1. SumFunctionOnSet(f, {} \cup {x}) = f[x] + SumFunctionOnSet(f, {})
  BY SumAdd, FS_EmptySet
<1>2. {} \cup {x} = {x}
  OBVIOUS
<1> QED
  BY <1>1, <1>2, SumEmpty

\* A sum depends on the values at the elements alone.
LEMMA SumAgree ==
    ASSUME NEW S, IsFiniteSet(S), NEW f, NEW g, \A x \in S : f[x] \in Int /\ g[x] = f[x]
    PROVE  SumFunctionOnSet(g, S) = SumFunctionOnSet(f, S)
<1> DEFINE Good == {T \in SUBSET S : SumFunctionOnSet(g, T) = SumFunctionOnSet(f, T)}
<1>1. {} \in Good
  BY SumEmpty
<1>2. ASSUME NEW T \in SUBSET S, NEW x \in S \ T, T \in Good
      PROVE  T \cup {x} \in Good
  <2>1. IsFiniteSet(T) /\ (\A y \in T : f[y] \in Int /\ g[y] \in Int) /\ f[x] \in Int /\ g[x] \in Int
    BY FS_Subset
  <2>2. /\ SumFunctionOnSet(f, T \cup {x}) = f[x] + SumFunctionOnSet(f, T)
        /\ SumFunctionOnSet(g, T \cup {x}) = g[x] + SumFunctionOnSet(g, T)
    BY <2>1, SumAdd
  <2> QED
    BY <1>2, <2>2
<1> HIDE DEF Good
<1>3. S \in Good
  BY <1>1, <1>2, SubsetInduction
<1> QED
  BY <1>3 DEF Good

\* One element changes by d, where an element that was not there counts as 0.
LEMMA SumStep ==
    ASSUME NEW S, IsFiniteSet(S), NEW x, NEW d \in Int, NEW f, NEW g,
           \A y \in S \cup {x} : f[y] \in Int /\ (y # x => g[y] = f[y]),
           x \notin S => f[x] = 0, g[x] = f[x] + d
    PROVE  SumFunctionOnSet(g, S \cup {x}) = SumFunctionOnSet(f, S) + d
<1> DEFINE R == S \ {x}
<1>1. /\ IsFiniteSet(R) /\ x \notin R /\ S \cup {x} = R \cup {x}
      /\ \A y \in R : f[y] \in Int /\ g[y] \in Int /\ g[y] = f[y]
      /\ f[x] \in Int /\ g[x] \in Int
  BY FS_Subset
<1>2. SumFunctionOnSet(f, S) = f[x] + SumFunctionOnSet(f, R)
  <2>1. CASE x \in S
    BY <2>1, SumRemove
  <2>2. CASE x \notin S
    <3>1. R = S /\ f[x] = 0
      BY <2>2
    <3>2. SumFunctionOnSet(f, S) \in Int
      BY SumInt
    <3>3. SumFunctionOnSet(f, R) = SumFunctionOnSet(f, S)
      BY <3>1
    <3> HIDE DEF R
    <3> QED
      BY <3>1, <3>2, <3>3
  <2> QED
    BY <2>1, <2>2
<1> HIDE DEF R
<1>3. SumFunctionOnSet(g, R \cup {x}) = g[x] + SumFunctionOnSet(g, R)
  BY <1>1, SumAdd
<1>4. SumFunctionOnSet(f, R) \in Int
  BY <1>1, SumInt
<1>5. SumFunctionOnSet(g, R) = SumFunctionOnSet(f, R)
  BY <1>1, SumAgree
<1>6. SumFunctionOnSet(g, S \cup {x}) = SumFunctionOnSet(g, R \cup {x})
  BY <1>1
<1> QED
  BY <1>1, <1>2, <1>3, <1>4, <1>5, <1>6

\* Sums of sums.
LEMMA SumPlus ==
    ASSUME NEW S, IsFiniteSet(S), NEW f, NEW g, NEW h,
           \A x \in S : f[x] \in Int /\ g[x] \in Int /\ h[x] = f[x] + g[x]
    PROVE  SumFunctionOnSet(h, S) = SumFunctionOnSet(f, S) + SumFunctionOnSet(g, S)
<1> DEFINE Good == {T \in SUBSET S :
                SumFunctionOnSet(h, T) = SumFunctionOnSet(f, T) + SumFunctionOnSet(g, T)}
<1>1. {} \in Good
  BY SumEmpty
<1>2. ASSUME NEW T \in SUBSET S, NEW x \in S \ T, T \in Good
      PROVE  T \cup {x} \in Good
  <2>1. /\ IsFiniteSet(T)
        /\ \A y \in T : f[y] \in Int /\ g[y] \in Int /\ h[y] \in Int
        /\ f[x] \in Int /\ g[x] \in Int /\ h[x] \in Int /\ h[x] = f[x] + g[x]
    BY FS_Subset
  <2>2. /\ SumFunctionOnSet(f, T \cup {x}) = f[x] + SumFunctionOnSet(f, T)
        /\ SumFunctionOnSet(g, T \cup {x}) = g[x] + SumFunctionOnSet(g, T)
        /\ SumFunctionOnSet(h, T \cup {x}) = h[x] + SumFunctionOnSet(h, T)
    BY <2>1, SumAdd
  <2>3. SumFunctionOnSet(f, T) \in Int /\ SumFunctionOnSet(g, T) \in Int
    BY <2>1, SumInt
  <2>4. SumFunctionOnSet(h, T) = SumFunctionOnSet(f, T) + SumFunctionOnSet(g, T)
    BY <1>2
  <2>5. SumFunctionOnSet(h, T \cup {x}) = SumFunctionOnSet(f, T \cup {x}) + SumFunctionOnSet(g, T \cup {x})
    BY <2>1, <2>2, <2>3, <2>4
  <2> QED
    BY <2>5
<1> HIDE DEF Good
<1>3. S \in Good
  BY <1>1, <1>2, SubsetInduction
<1> QED
  BY <1>3 DEF Good

LEMMA SumZero ==
    ASSUME NEW S, IsFiniteSet(S), NEW f, \A x \in S : f[x] = 0
    PROVE  SumFunctionOnSet(f, S) = 0
<1> DEFINE Good == {T \in SUBSET S : SumFunctionOnSet(f, T) = 0}
<1>1. {} \in Good
  BY SumEmpty
<1>2. ASSUME NEW T \in SUBSET S, NEW x \in S \ T, T \in Good
      PROVE  T \cup {x} \in Good
  <2>1. IsFiniteSet(T) /\ (\A y \in T : f[y] \in Int) /\ f[x] \in Int /\ f[x] = 0
    BY FS_Subset
  <2>2. SumFunctionOnSet(f, T \cup {x}) = f[x] + SumFunctionOnSet(f, T)
    BY <2>1, SumAdd
  <2> QED
    BY <1>2, <2>1, <2>2
<1> HIDE DEF Good
<1>3. S \in Good
  BY <1>1, <1>2, SubsetInduction
<1> QED
  BY <1>3 DEF Good

\* One element that counts, among others that do not.
LEMMA SumAt ==
    ASSUME NEW S, IsFiniteSet(S), NEW f, NEW x \in S, f[x] \in Int,
           \A y \in S \ {x} : f[y] = 0
    PROVE  SumFunctionOnSet(f, S) = f[x]
<1>1. SumFunctionOnSet(f, S) = f[x] + SumFunctionOnSet(f, S \ {x})
  BY SumRemove
<1>2. IsFiniteSet(S \ {x})
  BY FS_RemoveElement
<1>3. SumFunctionOnSet(f, S \ {x}) = 0
  BY <1>2, SumZero
<1> QED
  BY <1>1, <1>3

LEMMA SumDisjoint ==
    ASSUME NEW S, IsFiniteSet(S), NEW R, IsFiniteSet(R), S \cap R = {},
           NEW f, \A x \in S \cup R : f[x] \in Int
    PROVE  SumFunctionOnSet(f, S \cup R) = SumFunctionOnSet(f, S) + SumFunctionOnSet(f, R)
<1> DEFINE Good == {T \in SUBSET R :
                SumFunctionOnSet(f, S \cup T) = SumFunctionOnSet(f, S) + SumFunctionOnSet(f, T)}
<1>1. {} \in Good
  <2>1. S \cup {} = S /\ SumFunctionOnSet(f, S) \in Int
    BY SumInt
  <2> QED
    BY <2>1, SumEmpty
<1>2. ASSUME NEW T \in SUBSET R, NEW x \in R \ T, T \in Good
      PROVE  T \cup {x} \in Good
  <2> DEFINE U == S \cup T
  <2>1. IsFiniteSet(T) /\ (\A y \in T : f[y] \in Int) /\ f[x] \in Int
    BY FS_Subset
  <2>2. IsFiniteSet(U) /\ (\A y \in U : f[y] \in Int) /\ x \notin U /\ S \cup (T \cup {x}) = U \cup {x}
    BY <2>1, FS_Union
  <2>3. SumFunctionOnSet(f, T \cup {x}) = f[x] + SumFunctionOnSet(f, T)
    BY <2>1, SumAdd
  <2>4. SumFunctionOnSet(f, U) = SumFunctionOnSet(f, S) + SumFunctionOnSet(f, T)
    BY <1>2
  <2> HIDE DEF U
  <2>5. SumFunctionOnSet(f, U \cup {x}) = f[x] + SumFunctionOnSet(f, U)
    BY <2>1, <2>2, SumAdd
  <2>6. SumFunctionOnSet(f, S) \in Int /\ SumFunctionOnSet(f, T) \in Int
    BY <2>1, SumInt
  <2>7. SumFunctionOnSet(f, S \cup (T \cup {x})) = SumFunctionOnSet(f, S) + SumFunctionOnSet(f, T \cup {x})
    <3>1. SumFunctionOnSet(f, S \cup (T \cup {x})) = SumFunctionOnSet(f, U \cup {x})
      BY <2>2
    <3> QED
      BY <2>1, <2>3, <2>4, <2>5, <2>6, <3>1
  <2> QED
    BY <2>7
<1> HIDE DEF Good
<1>3. R \in Good
  BY <1>1, <1>2, SubsetInduction
<1> QED
  BY <1>3 DEF Good

\* name gives each element of R its own element of N, and all of N, of the same value.
Renames(name, f, g, R, N) ==
    /\ \A r \in R : name[r] \in N /\ g[r] \in Int /\ f[name[r]] = g[r]
    /\ \A r, s \in R : name[r] = name[s] => r = s
    /\ \A n \in N : \E r \in R : n = name[r]

\* A sum is the same over other names of its elements.
LEMMA SumRename ==
    ASSUME NEW R, IsFiniteSet(R), NEW N, NEW name, NEW f, NEW g, Renames(name, f, g, R, N)
    PROVE  IsFiniteSet(N) /\ SumFunctionOnSet(f, N) = SumFunctionOnSet(g, R)
<1> USE DEF Renames
<1> DEFINE im(T) == {name[r] : r \in T}
           Good == {T \in SUBSET R :
                IsFiniteSet(im(T)) /\ SumFunctionOnSet(f, im(T)) = SumFunctionOnSet(g, T)}
<1>1. {} \in Good
  <2>1. im({}) = {}
    OBVIOUS
  <2> HIDE DEF im
  <2> QED
    BY <2>1, SumEmpty, FS_EmptySet
<1>2. ASSUME NEW T \in SUBSET R, NEW x \in R \ T, T \in Good
      PROVE  T \cup {x} \in Good
  <2>1. IsFiniteSet(T) /\ (\A y \in T : g[y] \in Int) /\ g[x] \in Int /\ f[name[x]] = g[x]
    BY FS_Subset
  <2>2. im(T \cup {x}) = im(T) \cup {name[x]} /\ name[x] \notin im(T)
    OBVIOUS
  <2>3. \A y \in im(T) : f[y] \in Int
    OBVIOUS
  <2>4. IsFiniteSet(im(T)) /\ SumFunctionOnSet(f, im(T)) = SumFunctionOnSet(g, T)
    BY <1>2
  <2> HIDE DEF im
  <2>5. SumFunctionOnSet(f, im(T) \cup {name[x]}) = f[name[x]] + SumFunctionOnSet(f, im(T))
    BY <2>1, <2>2, <2>3, <2>4, SumAdd
  <2>6. SumFunctionOnSet(g, T \cup {x}) = g[x] + SumFunctionOnSet(g, T)
    BY <2>1, SumAdd
  <2>7. IsFiniteSet(im(T) \cup {name[x]})
    BY <2>4, FS_AddElement
  <2>8. T \cup {x} \in SUBSET R
    BY <1>2
  <2> QED
    BY <2>1, <2>2, <2>4, <2>5, <2>6, <2>7, <2>8
<1>3. N = im(R)
  OBVIOUS
<1> HIDE DEF Good, im
<1>4. R \in Good
  BY <1>1, <1>2, SubsetInduction
<1> QED
  BY <1>3, <1>4 DEF Good

\* Sums of naturals are naturals.
LEMMA SumNat ==
    ASSUME NEW S, IsFiniteSet(S), NEW f, \A x \in S : f[x] \in Nat
    PROVE  SumFunctionOnSet(f, S) \in Nat
<1> DEFINE Good == {T \in SUBSET S : SumFunctionOnSet(f, T) \in Nat}
<1>1. {} \in Good
  BY SumEmpty
<1>2. ASSUME NEW T \in SUBSET S, NEW x \in S \ T, T \in Good
      PROVE  T \cup {x} \in Good
  <2>1. IsFiniteSet(T) /\ f[x] \in Nat /\ f[x] \in Int /\ \A y \in T : f[y] \in Int
    BY FS_Subset
  <2>2. SumFunctionOnSet(f, T \cup {x}) = f[x] + SumFunctionOnSet(f, T)
    BY <2>1, SumAdd
  <2> QED
    BY <1>2, <2>1, <2>2
<1> HIDE DEF Good
<1>3. S \in Good
  BY <1>1, <1>2, SubsetInduction
<1> QED
  BY <1>3 DEF Good

\* A sum taken key by key is the whole sum.
LEMMA SumByKey ==
    ASSUME NEW A, IsFiniteSet(A), NEW S, IsFiniteSet(S), NEW f, NEW key,
           \A i \in S : f[i] \in Int /\ key[i] \in A
    PROVE  SumFunctionOnSet([a \in A |-> SumFunctionOnSet(f, {i \in S : key[i] = a})], A)
               = SumFunctionOnSet(f, S)
<1> DEFINE Part(T, a) == {i \in T : key[i] = a}
           Parts(T) == [a \in A |-> SumFunctionOnSet(f, Part(T, a))]
           Good == {T \in SUBSET S : SumFunctionOnSet(Parts(T), A) = SumFunctionOnSet(f, T)}
<1>1. {} \in Good
  <2>1. \A a \in A : Parts({})[a] = 0
    <3>1. \A a : Part({}, a) = {}
      OBVIOUS
    <3> QED
      BY <3>1, SumEmpty
  <2> HIDE DEF Parts
  <2>2. SumFunctionOnSet(Parts({}), A) = 0
    BY <2>1, SumZero
  <2> QED
    BY <2>2, SumEmpty
<1>2. ASSUME NEW T \in SUBSET S, NEW x \in S \ T, T \in Good
      PROVE  T \cup {x} \in Good
  <2> DEFINE U == T \cup {x}
             g == Parts(T)
             h == Parts(U)
             k == key[x]
             v == f[x]
  <2>1. IsFiniteSet(T) /\ IsFiniteSet(U) /\ k \in A /\ f[x] \in Int
    BY FS_Subset
  <2>2. \A a \in A : IsFiniteSet(Part(T, a)) /\ \A i \in Part(T, a) : f[i] \in Int
    BY <2>1, FS_Subset
  <2>3. \A a : x \notin Part(T, a)
    BY <1>2
  <2>4. \A a \in A : Part(U, a) = IF a = k THEN Part(T, a) \cup {x} ELSE Part(T, a)
    OBVIOUS
  <2> HIDE DEF Part
  <2>5. \A a \in A : g[a] \in Int
    BY <2>2, SumInt
  <2>6. \A a \in A : a # k => h[a] = g[a]
    BY <2>4
  <2>7. h[k] = g[k] + f[x]
    <3>1. SumFunctionOnSet(f, Part(T, k) \cup {x}) = f[x] + SumFunctionOnSet(f, Part(T, k))
      BY <2>1, <2>2, <2>3, SumAdd
    <3>2. h[k] = SumFunctionOnSet(f, Part(T, k) \cup {x}) /\ g[k] = SumFunctionOnSet(f, Part(T, k))
      BY <2>1, <2>4
    <3> QED
      BY <2>1, <2>5, <3>1, <3>2
  <2>8. SumFunctionOnSet(f, U) = f[x] + SumFunctionOnSet(f, T) /\ SumFunctionOnSet(f, T) \in Int
    BY <1>2, <2>1, SumAdd, SumInt
  <2>9. A \cup {k} = A
    BY <2>1
  <2> HIDE DEF g, h, k, v, U, Parts
  <2>10. SumFunctionOnSet(h, A \cup {k}) = SumFunctionOnSet(g, A) + v
    <3>1. /\ v \in Int /\ h[k] = g[k] + v /\ k \in A
          /\ \A y \in A \cup {k} : g[y] \in Int /\ (y # k => h[y] = g[y])
      BY <2>1, <2>5, <2>6, <2>7, <2>9 DEF v
    <3> QED
      BY <3>1, SumStep
  <2>11. SumFunctionOnSet(g, A) = SumFunctionOnSet(f, T)
    BY <1>2 DEF g
  <2>12. SumFunctionOnSet(h, A) = SumFunctionOnSet(f, U)
    <3>1. SumFunctionOnSet(h, A) = SumFunctionOnSet(g, A) + v
      BY <2>9, <2>10
    <3>2. v \in Int /\ SumFunctionOnSet(f, T) \in Int /\ SumFunctionOnSet(f, U) = v + SumFunctionOnSet(f, T)
      BY <2>1, <2>8 DEF v
    <3> QED
      BY <2>11, <3>1, <3>2
  <2>13. U \in SUBSET S
    BY DEF U
  <2> QED
    BY <2>12, <2>13 DEF h, U
<1> HIDE DEF Good
<1>3. S \in Good
  BY <1>1, <1>2, SubsetInduction
<1> QED
  BY <1>3 DEF Good

=============================================================================
