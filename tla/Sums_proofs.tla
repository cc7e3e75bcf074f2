------------------------------ MODULE Sums_proofs ------------------------------
(***************************************************************************)
(* The sums of the models, SumFunctionOnSet of the community modules, for  *)
(* functions to the naturals.  It is a fold that takes the elements of a   *)
(* set in an order nobody knows; here it is shown to have the value of the *)
(* sum, whatever the order, and to compare and change as sums do.          *)
(***************************************************************************)
EXTENDS Functions, FiniteSetTheorems, WellFoundedInduction, TLAPS

Pick(s) == CHOOSE x \in s : TRUE

(* One unfolding of the fold, over the sets in D.                          *)
Unfolded(f, D, g) == [s \in D |-> IF s = {} THEN 0 ELSE f[Pick(s)] + g[s \ {Pick(s)}]]

(* Some set is picked from, and picking makes it smaller.                  *)
LEMMA PickSmaller ==
  ASSUME NEW s, IsFiniteSet(s), s # {}
  PROVE  /\ Pick(s) \in s /\ IsFiniteSet(s \ {Pick(s)})
         /\ Cardinality(s \ {Pick(s)}) = Cardinality(s) - 1
         /\ Cardinality(s) \in Nat \ {0}
<1>1. Pick(s) \in s
  BY DEF Pick
<1> QED
  BY <1>1, FS_RemoveElement, FS_CardinalityType, FS_EmptySet

(* A set of naturals with an element has a least one.                      *)
LEMMA Least ==
  ASSUME NEW T \in SUBSET Nat, T # {}
  PROVE  \E n \in T : \A m \in T : n <= m
<1> DEFINE R == OpToRel(<, Nat)
<1>1. \A m, n \in Nat : m < n => <<m, n>> \in R
  BY DEF OpToRel
<1>2. IsWellFoundedOn(R, Nat)
  BY NatLessThanWellFounded, Zenon
<1> HIDE DEF R
<1>3. PICK n \in T : \A m \in T : ~ (<<m, n>> \in R)
  BY <1>2, WFMin
<1>4. \A m \in T : ~ (m < n)
  BY <1>1, <1>3
<1> QED
  BY <1>4

(* Induction over the subsets of a finite set, for a set G of good ones.   *)
LEMMA SubsetInduction ==
  ASSUME NEW S, IsFiniteSet(S), NEW G,
         \A s \in SUBSET S : (\A t \in SUBSET s : t # s => t \in G) => s \in G
  PROVE  S \in G
<1> DEFINE Bad == {n \in Nat : \E s \in SUBSET S : s \notin G /\ Cardinality(s) = n}
<1>1. SUFFICES ASSUME S \notin G PROVE FALSE
  OBVIOUS
<1>2. Cardinality(S) \in Bad
  BY <1>1, FS_CardinalityType
<1>3. PICK n \in Bad : \A m \in Bad : n <= m
  <2> HIDE DEF Bad
  <2>1. Bad \subseteq Nat
    BY DEF Bad
  <2> QED
    BY <1>2, <2>1, Least
<1>4. PICK s \in SUBSET S : s \notin G /\ Cardinality(s) = n
  OBVIOUS
<1>5. IsFiniteSet(s) /\ n \in Nat
  BY <1>4, FS_Subset
<1>6. PICK t \in SUBSET s : t # s /\ t \notin G
  BY <1>4
<1>7. Cardinality(t) \in Nat /\ Cardinality(t) < n
  BY <1>4, <1>5, <1>6, FS_Subset, FS_CardinalityType
<1>8. Cardinality(t) \in Bad
  BY <1>6, <1>7
<1> QED
  BY <1>3, <1>5, <1>7, <1>8

(* Induction over the naturals, for a set G of good ones.                  *)
LEMMA NatSetInduction ==
  ASSUME NEW G, 0 \in G, \A n \in Nat : n \in G => n + 1 \in G
  PROVE  Nat \subseteq G
<1>1. SUFFICES ASSUME Nat \ G # {} PROVE FALSE
  OBVIOUS
<1>2. PICK n \in Nat \ G : \A m \in Nat \ G : n <= m
  BY <1>1, Least
<1>3. n - 1 \in Nat /\ n - 1 \in G
  BY <1>2
<1> QED
  BY <1>2, <1>3

-----------------------------------------------------------------------------
(* What the fold is.                                                       *)

(* A fold that unfolds exists: over the sets with at most n elements, by   *)
(* induction on n.                                                         *)
LEMMA FoldExists ==
  ASSUME NEW f, NEW S, IsFiniteSet(S)
  PROVE  \E g : g = Unfolded(f, SUBSET S, g)
<1> DEFINE Small(n) == {s \in SUBSET S : Cardinality(s) <= n}
           Bad == {n \in Nat : ~ \E g : g = Unfolded(f, Small(n), g)}
<1>1. SUFFICES Bad = {}
  <2>1. Cardinality(S) \in Nat
    BY FS_CardinalityType
  <2>2. Small(Cardinality(S)) = SUBSET S
    BY FS_Subset
  <2> QED
    BY <2>1, <2>2
<1>2. SUFFICES ASSUME NEW n \in Bad, \A m \in Bad : n <= m PROVE FALSE
  <2> HIDE DEF Bad
  <2>1. Bad \subseteq Nat
    BY DEF Bad
  <2> QED
    BY <1>2, <2>1, Least
<1>3. \A s \in SUBSET S : IsFiniteSet(s) /\ Cardinality(s) \in Nat
  BY FS_Subset, FS_CardinalityType
<1>4. CASE n = 0
  <2>1. \A s \in Small(n) : s = {}
    BY <1>3, <1>4, FS_EmptySet
  <2>2. [s \in Small(n) |-> 0] = Unfolded(f, Small(n), [s \in Small(n) |-> 0])
    BY <2>1 DEF Unfolded
  <2> QED
    BY <2>2
<1>5. CASE n # 0
  <2>1. n - 1 \in Nat /\ n - 1 \notin Bad
    <3>1. n \in Nat
      OBVIOUS
    <3> HIDE DEF Bad
    <3> QED
      BY <1>2, <1>5, <3>1
  <2>2. PICK g : g = Unfolded(f, Small(n - 1), g)
    BY <2>1
  <2>3. PICK h : h = Unfolded(f, Small(n), g)
    OBVIOUS
  <2>4. ASSUME NEW s \in Small(n - 1) PROVE h[s] = g[s]
    <3>1. s \in Small(n)
      BY <1>3
    <3> QED
      BY <2>2, <2>3, <3>1 DEF Unfolded
  <2>5. ASSUME NEW s \in Small(n), s # {} PROVE s \ {Pick(s)} \in Small(n - 1)
    BY <1>3, <2>5, PickSmaller
  <2>6. \A s \in Small(n) : s # {} => h[s \ {Pick(s)}] = g[s \ {Pick(s)}]
    BY <2>4, <2>5
  <2>7. h = Unfolded(f, Small(n), h)
    BY <2>3, <2>6 DEF Unfolded
  <2> QED
    BY <2>7
<1> QED
  BY <1>4, <1>5

(* The sum of the community modules is such a fold.                        *)
LEMMA SumIsFold ==
  ASSUME NEW f, NEW S, IsFiniteSet(S)
  PROVE  \E g : g = Unfolded(f, SUBSET S, g) /\ SumFunctionOnSet(f, S) = g[S]
<1>1. \E g : g = [s \in SUBSET S |->
        IF s = {} THEN 0 ELSE f[CHOOSE x \in s : TRUE] + g[s \ {CHOOSE x \in s : TRUE}]]
  <2>1. \E g : g = Unfolded(f, SUBSET S, g)
    BY FoldExists
  <2> QED
    BY <2>1 DEF Unfolded, Pick
<1>2. PICK g : /\ g = [s \in SUBSET S |-> IF s = {} THEN 0
                         ELSE f[CHOOSE x \in s : TRUE] + g[s \ {CHOOSE x \in s : TRUE}]]
               /\ SumFunctionOnSet(f, S) = g[S]
  BY <1>1 DEF SumFunctionOnSet, FoldFunctionOnSet, MapThenFoldSet
<1> QED
  BY <1>2 DEF Unfolded, Pick

(* ... so it takes one element out and sums the rest.                      *)
LEMMA SumPick ==
  ASSUME NEW f, NEW S, IsFiniteSet(S)
  PROVE  SumFunctionOnSet(f, S) = IF S = {} THEN 0
           ELSE f[Pick(S)] + SumFunctionOnSet(f, S \ {Pick(S)})
<1>1. PICK g : g = Unfolded(f, SUBSET S, g) /\ SumFunctionOnSet(f, S) = g[S]
  BY SumIsFold
<1>2. \A s \in SUBSET S : g[s] = IF s = {} THEN 0 ELSE f[Pick(s)] + g[s \ {Pick(s)}]
  BY <1>1 DEF Unfolded
<1>3. CASE S = {}
  BY <1>1, <1>2, <1>3
<1>4. CASE S # {}
  <2> DEFINE R == S \ {Pick(S)}
  <2>1. IsFiniteSet(R)
    BY <1>4, PickSmaller
  <2>2. PICK h : h = Unfolded(f, SUBSET R, h) /\ SumFunctionOnSet(f, R) = h[R]
    BY <2>1, SumIsFold
  <2>3. \A s \in SUBSET R : h[s] = IF s = {} THEN 0 ELSE f[Pick(s)] + h[s \ {Pick(s)}]
    BY <2>2 DEF Unfolded
  <2> DEFINE Same == {s \in SUBSET R : g[s] = h[s]}
  <2>4. ASSUME NEW s \in SUBSET R, \A t \in SUBSET s : t # s => t \in Same PROVE s \in Same
    <3>1. CASE s = {}
      BY <1>2, <2>3, <3>1
    <3>2. CASE s # {}
      <4>1. Pick(s) \in s
        BY <3>2 DEF Pick
      <4>2. s \ {Pick(s)} \in Same
        BY <2>4, <4>1
      <4> QED
        BY <1>2, <2>3, <3>2, <4>2
    <3> QED
      BY <3>1, <3>2
  <2>5. R \in Same
    <3> HIDE DEF Same, R
    <3> QED
      BY <2>1, <2>4, SubsetInduction
  <2> QED
    BY <1>1, <1>2, <1>4, <2>2, <2>5
<1> QED
  BY <1>3, <1>4

-----------------------------------------------------------------------------
(* What the fold computes.                                                 *)

(* A sum of naturals is one.                                               *)
LEMMA SumType ==
  ASSUME NEW f, NEW S, IsFiniteSet(S), \A x \in S : f[x] \in Nat
  PROVE  SumFunctionOnSet(f, S) \in Nat
<1> DEFINE G == {s \in SUBSET S : SumFunctionOnSet(f, s) \in Nat}
<1>1. ASSUME NEW s \in SUBSET S, \A t \in SUBSET s : t # s => t \in G PROVE s \in G
  <2>1. IsFiniteSet(s)
    BY FS_Subset
  <2>2. CASE s = {}
    <3>1. SumFunctionOnSet(f, s) = 0
      BY <2>1, <2>2, SumPick
    <3> QED
      BY <3>1
  <2>3. CASE s # {}
    <3>1. Pick(s) \in s
      BY <2>3 DEF Pick
    <3>2. SumFunctionOnSet(f, s \ {Pick(s)}) \in Nat
      BY <1>1, <3>1
    <3>3. SumFunctionOnSet(f, s) = f[Pick(s)] + SumFunctionOnSet(f, s \ {Pick(s)})
      BY <2>1, <2>3, SumPick
    <3> QED
      BY <3>1, <3>2, <3>3
  <2> QED
    BY <2>2, <2>3
<1>2. S \in G
  <2> HIDE DEF G
  <2> QED
    BY <1>1, SubsetInduction
<1> QED
  BY <1>2

(* Whatever element is taken out first, the sum is the same.               *)
LEMMA SumTakeOut ==
  ASSUME NEW f, NEW S, IsFiniteSet(S), \A x \in S : f[x] \in Nat, NEW y \in S
  PROVE  SumFunctionOnSet(f, S) = f[y] + SumFunctionOnSet(f, S \ {y})
<1> DEFINE Sum(s) == SumFunctionOnSet(f, s)
           G == {s \in SUBSET S : \A z \in s : Sum(s) = f[z] + Sum(s \ {z})}
<1>0. \A s \in SUBSET S : Sum(s) \in Nat
  <2> TAKE s \in SUBSET S
  <2>1. IsFiniteSet(s) /\ \A x \in s : f[x] \in Nat
    BY FS_Subset
  <2> QED
    BY <2>1, SumType
<1>1. ASSUME NEW s \in SUBSET S, \A t \in SUBSET s : t # s => t \in G PROVE s \in G
  <2>1. SUFFICES ASSUME NEW z \in s PROVE Sum(s) = f[z] + Sum(s \ {z})
    OBVIOUS
  <2>2. IsFiniteSet(s)
    BY FS_Subset
  <2>3. PICK c \in s : Sum(s) = f[c] + Sum(s \ {c})
    <3>1. Pick(s) \in s
      BY <2>1 DEF Pick
    <3>2. Sum(s) = f[Pick(s)] + Sum(s \ {Pick(s)})
      BY <2>1, <2>2, SumPick
    <3> QED
      BY <3>1, <3>2
  <2>4. CASE c = z
    BY <2>3, <2>4
  <2>5. CASE c # z
    <3>1. s \ {c} \in G /\ s \ {z} \in G
      BY <1>1
    <3>2. z \in s \ {c} /\ c \in s \ {z} /\ (s \ {c}) \ {z} = (s \ {z}) \ {c}
      BY <2>5
    <3>3. /\ Sum(s \ {c}) = f[z] + Sum((s \ {c}) \ {z})
          /\ Sum(s \ {z}) = f[c] + Sum((s \ {c}) \ {z})
      <4> HIDE DEF Sum
      <4> QED
        BY <3>1, <3>2
    <3>4. f[c] \in Nat /\ f[z] \in Nat /\ Sum((s \ {c}) \ {z}) \in Nat
      BY <1>0
    <3> HIDE DEF Sum
    <3> QED
      BY <2>3, <3>3, <3>4
  <2> QED
    BY <2>4, <2>5
<1>2. S \in G
  <2> HIDE DEF G
  <2> QED
    BY <1>1, SubsetInduction
<1> QED
  BY <1>2

(* Two functions that are the same on a set have the same sum.             *)
LEMMA SumSame ==
  ASSUME NEW f, NEW g, NEW S, IsFiniteSet(S), \A x \in S : f[x] = g[x]
  PROVE  SumFunctionOnSet(f, S) = SumFunctionOnSet(g, S)
<1> DEFINE G == {s \in SUBSET S : SumFunctionOnSet(f, s) = SumFunctionOnSet(g, s)}
<1>1. ASSUME NEW s \in SUBSET S, \A t \in SUBSET s : t # s => t \in G PROVE s \in G
  <2>1. IsFiniteSet(s)
    BY FS_Subset
  <2>2. CASE s = {}
    BY <2>1, <2>2, SumPick
  <2>3. CASE s # {}
    <3>1. Pick(s) \in s /\ f[Pick(s)] = g[Pick(s)]
      BY <2>3 DEF Pick
    <3>2. SumFunctionOnSet(f, s \ {Pick(s)}) = SumFunctionOnSet(g, s \ {Pick(s)})
      BY <1>1, <3>1
    <3>3. /\ SumFunctionOnSet(f, s) = f[Pick(s)] + SumFunctionOnSet(f, s \ {Pick(s)})
          /\ SumFunctionOnSet(g, s) = g[Pick(s)] + SumFunctionOnSet(g, s \ {Pick(s)})
      BY <2>1, <2>3, SumPick
    <3> QED
      BY <3>1, <3>2, <3>3
  <2> QED
    BY <2>2, <2>3
<1>2. S \in G
  <2> HIDE DEF G
  <2> QED
    BY <1>1, SubsetInduction
<1> QED
  BY <1>2

(* An empty sum is zero.                                                   *)
LEMMA SumEmpty == ASSUME NEW f PROVE SumFunctionOnSet(f, {}) = 0
  BY FS_EmptySet, SumPick

(* A new element adds its value.                                           *)
LEMMA SumAddOn ==
  ASSUME NEW f, NEW S, IsFiniteSet(S), NEW y, y \notin S, \A x \in S \cup {y} : f[x] \in Nat
  PROVE  SumFunctionOnSet(f, S \cup {y}) = f[y] + SumFunctionOnSet(f, S)
<1>1. IsFiniteSet(S \cup {y})
  BY FS_AddElement
<1>2. SumFunctionOnSet(f, S \cup {y}) = f[y] + SumFunctionOnSet(f, (S \cup {y}) \ {y})
  BY <1>1, SumTakeOut
<1>3. (S \cup {y}) \ {y} = S
  OBVIOUS
<1> QED
  BY <1>2, <1>3

(* A change of one element changes the sum by as much.                     *)
LEMMA SumChange ==
  ASSUME NEW f, NEW g, NEW S, IsFiniteSet(S), NEW y \in S,
         \A x \in S : f[x] \in Nat /\ g[x] \in Nat,
         \A x \in S : x # y => f[x] = g[x]
  PROVE  SumFunctionOnSet(g, S) + f[y] = SumFunctionOnSet(f, S) + g[y]
<1>1. IsFiniteSet(S \ {y})
  BY FS_RemoveElement
<1>2. SumFunctionOnSet(f, S \ {y}) = SumFunctionOnSet(g, S \ {y})
  BY <1>1, SumSame
<1>3. SumFunctionOnSet(f, S \ {y}) \in Nat
  BY <1>1, SumType
<1>4. SumFunctionOnSet(f, S) = f[y] + SumFunctionOnSet(f, S \ {y})
  BY SumTakeOut
<1>5. SumFunctionOnSet(g, S) = g[y] + SumFunctionOnSet(g, S \ {y})
  BY SumTakeOut
<1> QED
  BY <1>2, <1>3, <1>4, <1>5

(* Elements that are zero need not be summed.                              *)
LEMMA SumSupport ==
  ASSUME NEW f, NEW S, IsFiniteSet(S), \A x \in S : f[x] \in Nat,
         NEW T \in SUBSET S, \A x \in S \ T : f[x] = 0
  PROVE  SumFunctionOnSet(f, S) = SumFunctionOnSet(f, T)
<1> DEFINE G == {s \in SUBSET S : SumFunctionOnSet(f, s) = SumFunctionOnSet(f, s \cap T)}
<1>1. ASSUME NEW s \in SUBSET S, \A t \in SUBSET s : t # s => t \in G PROVE s \in G
  <2>1. IsFiniteSet(s) /\ IsFiniteSet(s \cap T) /\ s \cap T \in SUBSET S
    BY FS_Subset
  <2>2. CASE s \subseteq T
    <3>1. s \cap T = s
      BY <2>2
    <3> QED
      BY <3>1
  <2>3. CASE ~ (s \subseteq T)
    <3>1. PICK y \in s : y \notin T
      BY <2>3
    <3>2. SumFunctionOnSet(f, s) = f[y] + SumFunctionOnSet(f, s \ {y})
      BY <2>1, SumTakeOut
    <3>3. s \ {y} \in G /\ (s \ {y}) \cap T = s \cap T
      BY <1>1, <3>1
    <3>4. SumFunctionOnSet(f, s \cap T) \in Nat
      BY <2>1, SumType
    <3>5. SumFunctionOnSet(f, s \ {y}) = SumFunctionOnSet(f, s \cap T)
      BY <3>3
    <3> QED
      BY <3>1, <3>2, <3>4, <3>5
  <2> QED
    BY <2>2, <2>3
<1>2. S \in G
  <2> HIDE DEF G
  <2> QED
    BY <1>1, SubsetInduction
<1>3. S \cap T = T
  OBVIOUS
<1> QED
  BY <1>2, <1>3

(* More elements make no smaller sum.                                      *)
LEMMA SumSubset ==
  ASSUME NEW f, NEW S, IsFiniteSet(S), \A x \in S : f[x] \in Nat, NEW T \in SUBSET S
  PROVE  SumFunctionOnSet(f, T) <= SumFunctionOnSet(f, S)
<1> DEFINE G == {s \in SUBSET S : \A t \in SUBSET s : SumFunctionOnSet(f, t) <= SumFunctionOnSet(f, s)}
<1>1. ASSUME NEW s \in SUBSET S, \A t \in SUBSET s : t # s => t \in G PROVE s \in G
  <2>1. SUFFICES ASSUME NEW t \in SUBSET s
                 PROVE  SumFunctionOnSet(f, t) <= SumFunctionOnSet(f, s)
    OBVIOUS
  <2>2. IsFiniteSet(s) /\ IsFiniteSet(t)
    BY FS_Subset
  <2>3. SumFunctionOnSet(f, s) \in Nat /\ SumFunctionOnSet(f, t) \in Nat
    BY <2>2, SumType
  <2>4. CASE t = s
    BY <2>3, <2>4
  <2>5. CASE t # s
    <3>1. PICK y \in s : y \notin t
      BY <2>5
    <3>2. SumFunctionOnSet(f, s) = f[y] + SumFunctionOnSet(f, s \ {y})
      BY <2>2, SumTakeOut
    <3>3. s \ {y} \in G /\ t \in SUBSET (s \ {y})
      BY <1>1, <3>1
    <3>4. SumFunctionOnSet(f, t) <= SumFunctionOnSet(f, s \ {y})
      BY <3>3
    <3>5. SumFunctionOnSet(f, s \ {y}) \in Nat /\ f[y] \in Nat
      <4>1. IsFiniteSet(s \ {y})
        BY <2>2, FS_RemoveElement
      <4> QED
        BY <4>1, SumType
    <3> QED
      BY <2>3, <3>2, <3>4, <3>5
  <2> QED
    BY <2>4, <2>5
<1>2. S \in G
  <2> HIDE DEF G
  <2> QED
    BY <1>1, SubsetInduction
<1> QED
  BY <1>2

(* A function that is nowhere more than c times another one has no more    *)
(* than c times its sum.                                                   *)
LEMMA SumScaled ==
  ASSUME NEW f, NEW g, NEW S, IsFiniteSet(S), NEW c \in Nat,
         \A x \in S : f[x] \in Nat /\ g[x] \in Nat /\ f[x] <= c * g[x]
  PROVE  SumFunctionOnSet(f, S) <= c * SumFunctionOnSet(g, S)
<1> DEFINE G == {s \in SUBSET S : SumFunctionOnSet(f, s) <= c * SumFunctionOnSet(g, s)}
<1>1. ASSUME NEW s \in SUBSET S, \A t \in SUBSET s : t # s => t \in G PROVE s \in G
  <2>1. IsFiniteSet(s)
    BY FS_Subset
  <2>2. CASE s = {}
    <3>1. SumFunctionOnSet(f, s) = 0 /\ SumFunctionOnSet(g, s) = 0
      BY <2>2, SumEmpty
    <3> QED
      BY <3>1
  <2>3. CASE s # {}
    <3>1. PICK y \in s : TRUE
      BY <2>3
    <3>2. /\ SumFunctionOnSet(f, s) = f[y] + SumFunctionOnSet(f, s \ {y})
          /\ SumFunctionOnSet(g, s) = g[y] + SumFunctionOnSet(g, s \ {y})
      BY <2>1, SumTakeOut
    <3>3. SumFunctionOnSet(f, s \ {y}) <= c * SumFunctionOnSet(g, s \ {y})
      <4>1. s \ {y} \in G
        BY <1>1
      <4> QED
        BY <4>1
    <3>4. SumFunctionOnSet(f, s \ {y}) \in Nat /\ SumFunctionOnSet(g, s \ {y}) \in Nat
      <4>1. IsFiniteSet(s \ {y})
        BY <2>1, FS_RemoveElement
      <4> QED
        BY <4>1, SumType
    <3>5. f[y] \in Nat /\ g[y] \in Nat /\ f[y] <= c * g[y]
      OBVIOUS
    <3>6. ASSUME NEW a \in Nat, NEW b \in Nat, NEW d \in Nat, NEW e \in Nat, a <= c * b, d <= c * e
          PROVE  a + d <= c * (b + e)
      BY <3>6
    <3>7. SumFunctionOnSet(f, s) <= c * SumFunctionOnSet(g, s)
      BY <3>2, <3>3, <3>4, <3>5, <3>6
    <3> QED
      BY <3>7
  <2> QED
    BY <2>2, <2>3
<1>2. S \in G
  <2> HIDE DEF G
  <2> QED
    BY <1>1, SubsetInduction
<1> QED
  BY <1>2

(* A function that is nowhere less than c times another one has no less    *)
(* than c times its sum.                                                   *)
LEMMA SumScaledBelow ==
  ASSUME NEW f, NEW g, NEW S, IsFiniteSet(S), NEW c \in Nat,
         \A x \in S : f[x] \in Nat /\ g[x] \in Nat /\ c * g[x] <= f[x]
  PROVE  c * SumFunctionOnSet(g, S) <= SumFunctionOnSet(f, S)
<1> DEFINE G == {s \in SUBSET S : c * SumFunctionOnSet(g, s) <= SumFunctionOnSet(f, s)}
<1>1. ASSUME NEW s \in SUBSET S, \A t \in SUBSET s : t # s => t \in G PROVE s \in G
  <2>1. IsFiniteSet(s)
    BY FS_Subset
  <2>2. CASE s = {}
    <3>1. SumFunctionOnSet(f, s) = 0 /\ SumFunctionOnSet(g, s) = 0
      BY <2>2, SumEmpty
    <3> QED
      BY <3>1
  <2>3. CASE s # {}
    <3>1. PICK y \in s : TRUE
      BY <2>3
    <3>2. /\ SumFunctionOnSet(f, s) = f[y] + SumFunctionOnSet(f, s \ {y})
          /\ SumFunctionOnSet(g, s) = g[y] + SumFunctionOnSet(g, s \ {y})
      BY <2>1, SumTakeOut
    <3>3. c * SumFunctionOnSet(g, s \ {y}) <= SumFunctionOnSet(f, s \ {y})
      <4>1. s \ {y} \in G
        BY <1>1
      <4> QED
        BY <4>1
    <3>4. SumFunctionOnSet(f, s \ {y}) \in Nat /\ SumFunctionOnSet(g, s \ {y}) \in Nat
      <4>1. IsFiniteSet(s \ {y})
        BY <2>1, FS_RemoveElement
      <4> QED
        BY <4>1, SumType
    <3>5. f[y] \in Nat /\ g[y] \in Nat /\ c * g[y] <= f[y]
      OBVIOUS
    <3>6. ASSUME NEW a \in Nat, NEW b \in Nat, NEW d \in Nat, NEW e \in Nat, c * b <= a, c * e <= d
          PROVE  c * (b + e) <= a + d
      BY <3>6
    <3>7. c * SumFunctionOnSet(g, s) <= SumFunctionOnSet(f, s)
      BY <3>2, <3>3, <3>4, <3>5, <3>6
    <3> QED
      BY <3>7
  <2> QED
    BY <2>2, <2>3
<1>2. S \in G
  <2> HIDE DEF G
  <2> QED
    BY <1>1, SubsetInduction
<1> QED
  BY <1>2
=============================================================================
