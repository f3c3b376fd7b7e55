-------------------------------- MODULE Sums --------------------------------
(***************************************************************************)
(* SumFunctionOnSet of the community modules, for every function of        *)
(* integers and every finite set: what it is of the empty set and of a     *)
(* union, what one more element adds to it, that it depends on the values  *)
(* only, how it is bounded by them, and Cauchy's inequality.               *)
(*                                                                         *)
(* The library defines it by recursion over the subsets of the set, with a *)
(* CHOOSE for the next element.  Induction is by the least number at which *)
(* a statement about sets of so many elements fails.                       *)
(***************************************************************************)
EXTENDS Integers, FiniteSets, FiniteSetsExt, FiniteSetTheorems, WellFoundedInduction, TLAPS

(* A nonempty set of numbers has a least element.                           *)
LEMMA LeastNumber == ASSUME NEW T \in SUBSET Nat, T # {} PROVE \E n \in T : \A m \in T : n <= m
<1> DEFINE R == { p \in Nat \X Nat : p[1] < p[2] }
<1>1. IsWellFoundedOn(R, Nat)
  BY NatLessThanWellFounded DEF OpToRel
<1>2. \A m, n \in Nat : <<m, n>> \in R <=> m < n
  OBVIOUS
<1> HIDE DEF R
<1>3. PICK n \in T : \A m \in T : ~(<<m, n>> \in R)
  BY <1>1, WFMin
<1>4. \A m \in T : m \in Nat /\ n \in Nat /\ ~(m < n)
  BY <1>2, <1>3
<1> QED
  BY <1>4

Pick(s) == CHOOSE x \in s : TRUE

\* The recursion of the library: g sums f over the subsets of S of up to n elements.
SumsUpTo(f, S, g, n) ==
    \A s \in SUBSET S : Cardinality(s) <= n =>
        g[s] = IF s = {} THEN 0 ELSE f[Pick(s)] + g[s \ {Pick(s)}]

SumsAll(f, S, g) ==
    g = [s \in SUBSET S |-> IF s = {} THEN 0 ELSE f[Pick(s)] + g[s \ {Pick(s)}]]

LEMMA SumIs ==
    ASSUME NEW f, NEW S
    PROVE  SumFunctionOnSet(f, S) = (CHOOSE g : SumsAll(f, S, g))[S]
BY DEF SumFunctionOnSet, FoldFunctionOnSet, MapThenFoldSet, SumsAll, Pick

LEMMA SmallerSet ==
    ASSUME NEW s, IsFiniteSet(s), s # {}
    PROVE  /\ Pick(s) \in s
           /\ IsFiniteSet(s \ {Pick(s)}) /\ Cardinality(s \ {Pick(s)}) \in Nat
           /\ Cardinality(s) \in Nat /\ Cardinality(s \ {Pick(s)}) + 1 = Cardinality(s)
<1>1. Pick(s) \in s
  BY DEF Pick
<1>2. IsFiniteSet(s \ {Pick(s)}) /\ Cardinality(s) \in Nat /\ Cardinality(s \ {Pick(s)}) \in Nat
  BY FS_Subset, FS_CardinalityType
<1>3. Cardinality(s \ {Pick(s)}) = Cardinality(s) - 1
  BY <1>1, FS_RemoveElement
<1> QED
  BY <1>1, <1>2, <1>3

(* The recursion has a solution: from one for sets of up to n elements, one *)
(* for those of up to n + 1.                                                *)
LEMMA SumsFurther ==
    ASSUME NEW f, NEW S, IsFiniteSet(S), NEW n \in Nat, NEW g, SumsUpTo(f, S, g, n)
    PROVE  \E h : h = [s \in SUBSET S |-> h[s]] /\ SumsUpTo(f, S, h, n + 1)
<1> DEFINE h == [s \in SUBSET S |-> IF s = {} THEN 0 ELSE f[Pick(s)] + g[s \ {Pick(s)}]]
<1>1. \A s \in SUBSET S : h[s] = IF s = {} THEN 0 ELSE f[Pick(s)] + g[s \ {Pick(s)}]
  OBVIOUS
<1>2. h = [s \in SUBSET S |-> h[s]]
  OBVIOUS
<1> HIDE DEF h
<1>3. ASSUME NEW s \in SUBSET S, Cardinality(s) <= n + 1
      PROVE  h[s] = IF s = {} THEN 0 ELSE f[Pick(s)] + h[s \ {Pick(s)}]
  <2>1. CASE s = {}
    BY <1>1, <2>1
  <2>2. CASE s # {}
    <3> DEFINE r == s \ {Pick(s)}
    <3>1. IsFiniteSet(s)
      BY FS_Subset
    <3>2. r \in SUBSET S /\ Cardinality(r) <= n
      BY <1>3, <2>2, <3>1, SmallerSet
    <3>3. g[r] = h[r]
      BY <1>1, <3>2 DEF SumsUpTo
    <3> QED
      BY <1>1, <2>2, <3>3
  <2> QED
    BY <2>1, <2>2
<1> QED
  BY <1>2, <1>3 DEF SumsUpTo

LEMMA SumsExist == ASSUME NEW f, NEW S, IsFiniteSet(S) PROVE \E g : SumsAll(f, S, g)
<1> DEFINE Sums(g, n) == g = [s \in SUBSET S |-> g[s]] /\ SumsUpTo(f, S, g, n)
           T == { n \in Nat : ~\E g : Sums(g, n) }
<1>1. T = {}
  <2> SUFFICES ASSUME T # {} PROVE FALSE
    OBVIOUS
  <2>1. PICK n \in T : \A m \in T : n <= m
    BY LeastNumber
  <2>2. n \in Nat /\ ~\E g : Sums(g, n)
    BY <2>1
  <2>3. CASE n = 0
    <3> DEFINE h == [s \in SUBSET S |-> 0]
    <3>1. h = [s \in SUBSET S |-> h[s]]
      OBVIOUS
    <3>2. ASSUME NEW s \in SUBSET S, Cardinality(s) <= 0 PROVE s = {} /\ h[s] = 0
      BY <3>2, FS_Subset, FS_CardinalityType, FS_EmptySet
    <3>3. SumsUpTo(f, S, h, 0)
      BY <3>2 DEF SumsUpTo
    <3> QED
      BY <2>2, <2>3, <3>1, <3>3
  <2>4. CASE n # 0
    <3>1. n - 1 \in Nat /\ ~(n - 1 \in T)
      <4>1. n - 1 \in Nat /\ ~(n <= n - 1)
        BY <2>2, <2>4
      <4> HIDE DEF T
      <4> QED
        BY <2>1, <4>1
    <3>2. PICK g : Sums(g, n - 1)
      BY <3>1
    <3>3. \E h : Sums(h, n - 1 + 1)
      BY <3>1, <3>2, SumsFurther
    <3>4. n - 1 + 1 = n
      BY <2>2
    <3> QED
      BY <2>2, <3>3, <3>4
  <2> QED
    BY <2>3, <2>4
<1>2. Cardinality(S) \in Nat
  BY FS_CardinalityType
<1>3. PICK g : Sums(g, Cardinality(S))
  BY <1>1, <1>2
<1>4. \A s \in SUBSET S : Cardinality(s) <= Cardinality(S)
  BY FS_Subset
<1>5. \A s \in SUBSET S : g[s] = IF s = {} THEN 0 ELSE f[Pick(s)] + g[s \ {Pick(s)}]
  BY <1>3, <1>4 DEF SumsUpTo
<1>6. g = [s \in SUBSET S |-> IF s = {} THEN 0 ELSE f[Pick(s)] + g[s \ {Pick(s)}]]
  BY <1>3, <1>5
<1> QED
  BY <1>6 DEF SumsAll

(* And only one, whatever set it is over.                                   *)
LEMMA SumsAgree ==
    ASSUME NEW e, NEW f, NEW S, NEW T, NEW g, NEW h, SumsAll(e, S, g), SumsAll(f, T, h),
           NEW s \in SUBSET (S \cap T), IsFiniteSet(s), \A x \in s : e[x] = f[x]
    PROVE  g[s] = h[s]
<1> DEFINE Bad == { n \in Nat : \E r \in SUBSET s : Cardinality(r) = n /\ g[r] # h[r] }
<1>1. /\ \A r \in SUBSET S : g[r] = IF r = {} THEN 0 ELSE e[Pick(r)] + g[r \ {Pick(r)}]
      /\ \A r \in SUBSET T : h[r] = IF r = {} THEN 0 ELSE f[Pick(r)] + h[r \ {Pick(r)}]
  BY Zenon DEF SumsAll
<1>2. ASSUME Bad # {} PROVE FALSE
  <2>1. PICK n \in Bad : \A m \in Bad : n <= m
    BY <1>2, LeastNumber
  <2>2. PICK r \in SUBSET s : Cardinality(r) = n /\ g[r] # h[r]
    BY <2>1
  <2>3. IsFiniteSet(r) /\ r # {} /\ r \in SUBSET S /\ r \in SUBSET T
    BY <1>1, <2>2, FS_Subset
  <2> DEFINE q == r \ {Pick(r)}
  <2>4. q \in SUBSET s /\ Cardinality(q) \in Nat /\ ~(n <= Cardinality(q)) /\ Pick(r) \in s
    <3>1. Pick(r) \in r /\ Cardinality(q) \in Nat /\ Cardinality(r) \in Nat /\ Cardinality(q) + 1 = Cardinality(r)
      BY <2>3, SmallerSet
    <3> QED
      BY <2>2, <3>1
  <2>5. g[q] = h[q]
    BY <2>1, <2>4
  <2> QED
    BY <1>1, <2>2, <2>3, <2>4, <2>5
<1>3. Cardinality(s) \in Nat
  BY FS_CardinalityType
<1> QED
  BY <1>2, <1>3

LEMMA SumUnfolds ==
    ASSUME NEW f, NEW S, IsFiniteSet(S)
    PROVE  SumFunctionOnSet(f, S) =
               IF S = {} THEN 0 ELSE f[Pick(S)] + SumFunctionOnSet(f, S \ {Pick(S)})
<1> DEFINE R == S \ {Pick(S)}
           g == CHOOSE h : SumsAll(f, S, h)
           h == CHOOSE k : SumsAll(f, R, k)
<1>1. SumsAll(f, S, g) /\ SumsAll(f, R, h) /\ IsFiniteSet(R)
  BY SumsExist, FS_Subset
<1>2. SumFunctionOnSet(f, S) = g[S] /\ SumFunctionOnSet(f, R) = h[R]
  BY SumIs
<1> HIDE DEF g, h
<1>3. g[R] = h[R]
  BY <1>1, SumsAgree
<1>4. g[S] = IF S = {} THEN 0 ELSE f[Pick(S)] + g[R]
  BY <1>1, Zenon DEF SumsAll
<1> QED
  BY <1>2, <1>3, <1>4

(* The sum depends on the values over the set only.                         *)
THEOREM SumOfSame ==
    ASSUME NEW f, NEW g, NEW S, IsFiniteSet(S), \A x \in S : f[x] = g[x]
    PROVE  SumFunctionOnSet(f, S) = SumFunctionOnSet(g, S)
<1>1. PICK h : SumsAll(f, S, h) /\ SumFunctionOnSet(f, S) = h[S]
  BY SumsExist, SumIs
<1>2. PICK k : SumsAll(g, S, k) /\ SumFunctionOnSet(g, S) = k[S]
  BY SumsExist, SumIs
<1> QED
  BY <1>1, <1>2, SumsAgree

(* The sum over no elements.                                                *)
THEOREM SumOfNone == ASSUME NEW f PROVE SumFunctionOnSet(f, {}) = 0
BY SumUnfolds, FS_EmptySet

(* Of integers, an integer.                                                 *)
THEOREM SumIsInt ==
    ASSUME NEW f, NEW S, IsFiniteSet(S), \A x \in S : f[x] \in Int
    PROVE  SumFunctionOnSet(f, S) \in Int
<1> DEFINE Bad == { n \in Nat : \E r \in SUBSET S : Cardinality(r) = n /\ ~(SumFunctionOnSet(f, r) \in Int) }
<1>1. ASSUME Bad # {} PROVE FALSE
  <2>1. PICK n \in Bad : \A m \in Bad : n <= m
    BY <1>1, LeastNumber
  <2>2. PICK r \in SUBSET S : Cardinality(r) = n /\ ~(SumFunctionOnSet(f, r) \in Int)
    BY <2>1
  <2>3. IsFiniteSet(r)
    BY <2>2, FS_Subset
  <2>4. r # {}
    BY <2>2, SumOfNone
  <2> DEFINE q == r \ {Pick(r)}
  <2>5. q \in SUBSET S /\ Cardinality(q) \in Nat /\ ~(n <= Cardinality(q)) /\ Pick(r) \in S
    <3>1. Pick(r) \in r /\ Cardinality(q) \in Nat /\ Cardinality(r) \in Nat /\ Cardinality(q) + 1 = Cardinality(r)
      BY <2>3, <2>4, SmallerSet
    <3> QED
      BY <2>2, <3>1
  <2>6. SumFunctionOnSet(f, q) \in Int
    BY <2>1, <2>5
  <2>7. SumFunctionOnSet(f, r) = f[Pick(r)] + SumFunctionOnSet(f, q)
    BY <2>3, <2>4, SumUnfolds
  <2> QED
    BY <2>2, <2>5, <2>6, <2>7
<1>2. Cardinality(S) \in Nat
  BY FS_CardinalityType
<1> QED
  BY <1>1, <1>2

(* Any element may be taken first.                                          *)
LEMMA SumWithout ==
    ASSUME NEW f, NEW S, IsFiniteSet(S), \A x \in S : f[x] \in Int, NEW y \in S
    PROVE  SumFunctionOnSet(f, S) = f[y] + SumFunctionOnSet(f, S \ {y})
<1> DEFINE Bad == { n \in Nat : \E r \in SUBSET S : /\ Cardinality(r) = n
               /\ \E z \in r : SumFunctionOnSet(f, r) # f[z] + SumFunctionOnSet(f, r \ {z}) }
<1>1. ASSUME Bad # {} PROVE FALSE
  <2>1. PICK n \in Bad : \A m \in Bad : n <= m
    BY <1>1, LeastNumber
  <2>2. PICK r \in SUBSET S : /\ Cardinality(r) = n
               /\ \E z \in r : SumFunctionOnSet(f, r) # f[z] + SumFunctionOnSet(f, r \ {z})
    BY <2>1
  <2>3. PICK z \in r : SumFunctionOnSet(f, r) # f[z] + SumFunctionOnSet(f, r \ {z})
    BY <2>2
  <2> DEFINE x == Pick(r)
  <2>4. IsFiniteSet(r) /\ r # {} /\ r \subseteq S
    BY <2>2, <2>3, FS_Subset
  <2>5. /\ x \in r /\ Cardinality(r) \in Nat
        /\ \A w \in r : /\ r \ {w} \in SUBSET S /\ IsFiniteSet(r \ {w})
                        /\ Cardinality(r \ {w}) \in Nat /\ ~(n <= Cardinality(r \ {w}))
    <3>1. x \in r
      BY <2>4, SmallerSet
    <3>2. ASSUME NEW w \in r
          PROVE  /\ r \ {w} \in SUBSET S /\ IsFiniteSet(r \ {w})
                 /\ Cardinality(r \ {w}) \in Nat /\ ~(n <= Cardinality(r \ {w}))
      <4>1. IsFiniteSet(r \ {w}) /\ Cardinality(r) \in Nat /\ Cardinality(r \ {w}) \in Nat
        BY <2>4, FS_Subset, FS_CardinalityType
      <4>2. Cardinality(r \ {w}) = Cardinality(r) - 1
        BY <2>4, FS_RemoveElement
      <4> QED
        BY <2>2, <2>4, <4>1, <4>2
    <3>3. Cardinality(r) \in Nat
      BY <2>4, FS_CardinalityType
    <3> QED
      BY <3>1, <3>2, <3>3
  <2>6. SumFunctionOnSet(f, r) = f[x] + SumFunctionOnSet(f, r \ {x})
    BY <2>4, SumUnfolds
  <2>7. x # z
    BY <2>3, <2>6
  <2>8. ASSUME NEW w \in r, NEW v \in r \ {w}
        PROVE  SumFunctionOnSet(f, r \ {w}) = f[v] + SumFunctionOnSet(f, (r \ {w}) \ {v})
    <3> DEFINE q == r \ {w}
    <3>1. q \in SUBSET S /\ Cardinality(q) \in Nat /\ ~(n <= Cardinality(q)) /\ v \in q
      BY <2>5
    <3> HIDE DEF q
    <3>2. ~(Cardinality(q) \in Bad)
      BY <2>1, <3>1
    <3>3. SumFunctionOnSet(f, q) = f[v] + SumFunctionOnSet(f, q \ {v})
      BY <3>1, <3>2
    <3> QED
      BY <3>3 DEF q
  <2>9. /\ SumFunctionOnSet(f, r \ {x}) = f[z] + SumFunctionOnSet(f, (r \ {x}) \ {z})
        /\ SumFunctionOnSet(f, r \ {z}) = f[x] + SumFunctionOnSet(f, (r \ {z}) \ {x})
    BY <2>5, <2>7, <2>8
  <2>10. (r \ {x}) \ {z} = (r \ {z}) \ {x}
    OBVIOUS
  <2>11. /\ f[x] \in Int /\ f[z] \in Int /\ SumFunctionOnSet(f, (r \ {z}) \ {x}) \in Int
    <3>1. IsFiniteSet((r \ {z}) \ {x}) /\ \A w \in (r \ {z}) \ {x} : f[w] \in Int
      BY <2>4, FS_Subset
    <3> QED
      BY <2>4, <2>5, <3>1, SumIsInt
  <2> DEFINE rest == SumFunctionOnSet(f, (r \ {z}) \ {x})
             withX == SumFunctionOnSet(f, r \ {z})
             withZ == SumFunctionOnSet(f, r \ {x})
             both == SumFunctionOnSet(f, r)
  <2>12. both # f[z] + withX
    BY <2>3
  <2>13. both = f[x] + withZ /\ withZ = f[z] + rest /\ withX = f[x] + rest
    BY <2>6, <2>9, <2>10
  <2>14. f[x] \in Int /\ f[z] \in Int /\ rest \in Int
    BY <2>11
  <2> HIDE DEF rest, withX, withZ, both
  <2> QED
    BY <2>12, <2>13, <2>14
<1>2. Cardinality(S) \in Nat
  BY FS_CardinalityType
<1> QED
  BY <1>1, <1>2

(* One more element adds its value.                                         *)
THEOREM SumWithOneMore ==
    ASSUME NEW f, NEW S, IsFiniteSet(S), NEW y, y \notin S, \A x \in S \cup {y} : f[x] \in Int
    PROVE  SumFunctionOnSet(f, S \cup {y}) = SumFunctionOnSet(f, S) + f[y]
<1>1. IsFiniteSet(S \cup {y}) /\ (S \cup {y}) \ {y} = S
  BY FS_AddElement
<1>2. SumFunctionOnSet(f, S \cup {y}) = f[y] + SumFunctionOnSet(f, S)
  BY <1>1, SumWithout
<1>3. SumFunctionOnSet(f, S) \in Int
  BY SumIsInt
<1> QED
  BY <1>2, <1>3

(* One value changes.                                                       *)
THEOREM SumWithOneChanged ==
    ASSUME NEW f, NEW g, NEW S, IsFiniteSet(S), NEW y \in S,
           \A x \in S : f[x] \in Int /\ g[x] \in Int, \A x \in S \ {y} : f[x] = g[x]
    PROVE  SumFunctionOnSet(g, S) = SumFunctionOnSet(f, S) + (g[y] - f[y])
<1> DEFINE R == S \ {y}
<1>1. IsFiniteSet(R)
  BY FS_Subset
<1>2. SumFunctionOnSet(f, R) = SumFunctionOnSet(g, R) /\ SumFunctionOnSet(f, R) \in Int
  BY <1>1, SumOfSame, SumIsInt
<1>3. /\ SumFunctionOnSet(f, S) = f[y] + SumFunctionOnSet(f, R)
      /\ SumFunctionOnSet(g, S) = g[y] + SumFunctionOnSet(g, R)
  BY SumWithout
<1> QED
  BY <1>2, <1>3

(* Of fewer elements, none of them negative, no greater sum.                *)
THEOREM SumIsMonotone ==
    ASSUME NEW f, NEW S, IsFiniteSet(S), \A x \in S : f[x] \in Nat, NEW R \in SUBSET S
    PROVE  0 <= SumFunctionOnSet(f, R) /\ SumFunctionOnSet(f, R) <= SumFunctionOnSet(f, S)
<1> DEFINE Low(q) == /\ 0 <= SumFunctionOnSet(f, q)
                     /\ \A p \in SUBSET q : SumFunctionOnSet(f, p) <= SumFunctionOnSet(f, q)
           Bad == { n \in Nat : \E q \in SUBSET S : Cardinality(q) = n /\ ~Low(q) }
<1>0. ASSUME NEW q \in SUBSET S
      PROVE  /\ IsFiniteSet(q) /\ Cardinality(q) \in Nat /\ SumFunctionOnSet(f, q) \in Int
             /\ \A x \in q : f[x] \in Int
  BY FS_Subset, FS_CardinalityType, SumIsInt
<1>1. ASSUME Bad # {} PROVE FALSE
  <2>1. PICK n \in Bad : \A m \in Bad : n <= m
    BY <1>1, LeastNumber
  <2>2. PICK q \in SUBSET S : Cardinality(q) = n /\ ~Low(q)
    BY <2>1
  <2>3. CASE q = {}
    <3>1. SumFunctionOnSet(f, q) = 0 /\ \A p \in SUBSET q : p = q
      BY <2>3, SumOfNone
    <3> QED
      BY <2>2, <3>1
  <2>4. ASSUME NEW y \in q
        PROVE  /\ Low(q \ {y}) /\ SumFunctionOnSet(f, q) = f[y] + SumFunctionOnSet(f, q \ {y})
               /\ f[y] \in Nat /\ SumFunctionOnSet(f, q \ {y}) \in Int
    <3> DEFINE r == q \ {y}
    <3>1. r \in SUBSET S
      OBVIOUS
    <3>2. Cardinality(r) \in Nat /\ Cardinality(q) \in Nat /\ Cardinality(r) = Cardinality(q) - 1
      BY <1>0, <3>1, FS_RemoveElement
    <3>3. ~(n <= Cardinality(r))
      BY <2>2, <3>2
    <3> HIDE DEF r, Low
    <3>4. ~(Cardinality(r) \in Bad)
      BY <2>1, <3>3
    <3>5. Low(r)
      BY <3>1, <3>2, <3>4
    <3>6. SumFunctionOnSet(f, q) = f[y] + SumFunctionOnSet(f, r)
      BY <1>0, SumWithout DEF r
    <3> QED
      BY <1>0, <3>1, <3>5, <3>6 DEF r
  <2>5. CASE q # {}
    <3>1. PICK y \in q : TRUE
      BY <2>5
    <3>2. 0 <= SumFunctionOnSet(f, q)
      <4>1. /\ 0 <= SumFunctionOnSet(f, q \ {y}) /\ SumFunctionOnSet(f, q \ {y}) \in Int
            /\ f[y] \in Nat /\ SumFunctionOnSet(f, q) = f[y] + SumFunctionOnSet(f, q \ {y})
        BY <2>4, <3>1
      <4> QED
        BY <4>1
    <3>3. ASSUME NEW p \in SUBSET q, p # q PROVE SumFunctionOnSet(f, p) <= SumFunctionOnSet(f, q)
      <4>1. PICK z \in q : p \in SUBSET (q \ {z})
        BY <3>3
      <4>2. p \in SUBSET S
        BY <3>3
      <4>3. SumFunctionOnSet(f, p) \in Int
        BY <1>0, <4>2
      <4>4. /\ SumFunctionOnSet(f, p) <= SumFunctionOnSet(f, q \ {z})
            /\ SumFunctionOnSet(f, q \ {z}) \in Int /\ f[z] \in Nat
            /\ SumFunctionOnSet(f, q) = f[z] + SumFunctionOnSet(f, q \ {z})
        BY <2>4, <4>1
      <4> QED
        BY <4>3, <4>4
    <3>4. SumFunctionOnSet(f, q) <= SumFunctionOnSet(f, q)
      BY <1>0
    <3> QED
      BY <2>2, <3>2, <3>3, <3>4
  <2> QED
    BY <2>3, <2>5
<1>2. \A q \in SUBSET S : Cardinality(q) \in Nat
  BY <1>0
<1>3. Low(S)
  BY <1>1, <1>2
<1>4. Low(R)
  BY <1>1, <1>2
<1> QED
  BY <1>3, <1>4

-----------------------------------------------------------------------------
(***************************************************************************)
(* Induction over the subsets of a finite set, of a set of them in place   *)
(* of a predicate.                                                         *)
(***************************************************************************)

LEMMA SubsetInduction ==
    ASSUME NEW S, IsFiniteSet(S), NEW T \in SUBSET SUBSET S, {} \in T,
           \A R \in T : \A x \in S \ R : R \cup {x} \in T
    PROVE  S \in T
<1> DEFINE Bad == { n \in Nat : \E R \in SUBSET S : Cardinality(R) = n /\ R \notin T }
<1>1. \A R \in SUBSET S : IsFiniteSet(R) /\ Cardinality(R) \in Nat
  BY FS_Subset, FS_CardinalityType
<1>2. ASSUME Bad # {} PROVE FALSE
  <2>1. PICK n \in Bad : \A m \in Bad : n <= m
    <3>1. Bad \in SUBSET Nat
      OBVIOUS
    <3> HIDE DEF Bad
    <3> QED
      BY <1>2, <3>1, LeastNumber
  <2>2. PICK R \in SUBSET S : Cardinality(R) = n /\ R \notin T
    BY <2>1
  <2>3. PICK x \in R : TRUE
    BY <2>2
  <2> DEFINE Q == R \ {x}
  <2>4. Q \in SUBSET S /\ R = Q \cup {x} /\ x \in S \ Q
    OBVIOUS
  <2>5. Cardinality(Q) = n - 1 /\ Cardinality(Q) \in Nat /\ n \in Nat
    BY <1>1, <2>2, <2>4, FS_RemoveElement
  <2> HIDE DEF Q
  <2>6. Q \notin T
    BY <2>2, <2>4
  <2>7. Cardinality(Q) \in Bad
    BY <2>4, <2>5, <2>6
  <2> HIDE DEF Bad
  <2> QED
    BY <2>1, <2>5, <2>7
<1> QED
  BY <1>1, <1>2

(* The sum over two sets that have nothing in common.                       *)
THEOREM SumOfUnion ==
    ASSUME NEW f, NEW R, IsFiniteSet(R), NEW Q, IsFiniteSet(Q), R \cap Q = {},
           \A x \in R \cup Q : f[x] \in Int
    PROVE  SumFunctionOnSet(f, R \cup Q) = SumFunctionOnSet(f, R) + SumFunctionOnSet(f, Q)
<1> DEFINE T == { P \in SUBSET Q :
                    SumFunctionOnSet(f, R \cup P) = SumFunctionOnSet(f, R) + SumFunctionOnSet(f, P) }
<1>1. SumFunctionOnSet(f, R) \in Int
  BY SumIsInt
<1>2. {} \in T
  <2>1. R \cup {} = R
    OBVIOUS
  <2> QED
    BY <1>1, <2>1, SumOfNone
<1>3. ASSUME NEW P \in T, NEW x \in Q \ P PROVE P \cup {x} \in T
  <2>1. IsFiniteSet(P) /\ IsFiniteSet(R \cup P) /\ x \notin R \cup P
    BY FS_Subset, FS_Union
  <2>2. SumFunctionOnSet(f, P \cup {x}) = SumFunctionOnSet(f, P) + f[x]
    BY <2>1, SumWithOneMore
  <2>3. SumFunctionOnSet(f, (R \cup P) \cup {x}) = SumFunctionOnSet(f, R \cup P) + f[x]
    BY <2>1, SumWithOneMore
  <2>4. SumFunctionOnSet(f, R \cup P) = SumFunctionOnSet(f, R) + SumFunctionOnSet(f, P)
    OBVIOUS
  <2>5. SumFunctionOnSet(f, P) \in Int /\ f[x] \in Int
    BY <2>1, SumIsInt
  <2>6. R \cup (P \cup {x}) = (R \cup P) \cup {x}
    OBVIOUS
  <2>7. SumFunctionOnSet(f, R \cup (P \cup {x})) = SumFunctionOnSet(f, R) + SumFunctionOnSet(f, P \cup {x})
    <3> DEFINE sR == SumFunctionOnSet(f, R)
               sP == SumFunctionOnSet(f, P)
               sRP == SumFunctionOnSet(f, R \cup P)
    <3>1. sR \in Int /\ sP \in Int /\ f[x] \in Int /\ sRP = sR + sP
      BY <1>1, <2>4, <2>5
    <3>2. SumFunctionOnSet(f, R \cup (P \cup {x})) = sRP + f[x]
      BY <2>3, <2>6
    <3>3. SumFunctionOnSet(f, P \cup {x}) = sP + f[x]
      BY <2>2
    <3> HIDE DEF sR, sP, sRP
    <3>4. sRP + f[x] = sR + (sP + f[x])
      BY <3>1
    <3> QED
      BY <3>2, <3>3, <3>4 DEF sR
  <2> QED
    BY <2>7
<1>4. T \in SUBSET SUBSET Q
  OBVIOUS
<1>5. Q \in T
  <2> HIDE DEF T
  <2> QED
    BY <1>2, <1>3, <1>4, SubsetInduction
<1> QED
  BY <1>5

(* Values that are none of them below c.                                    *)
THEOREM SumIsAtLeast ==
    ASSUME NEW f, NEW S, IsFiniteSet(S), NEW c \in Int, \A x \in S : f[x] \in Int /\ c <= f[x]
    PROVE  Cardinality(S) * c <= SumFunctionOnSet(f, S)
<1> DEFINE T == { R \in SUBSET S : Cardinality(R) * c <= SumFunctionOnSet(f, R) }
<1>1. {} \in T
  BY FS_EmptySet, SumOfNone
<1>2. ASSUME NEW R \in T, NEW x \in S \ R PROVE R \cup {x} \in T
  <2>1. IsFiniteSet(R) /\ Cardinality(R) \in Nat /\ Cardinality(R \cup {x}) = Cardinality(R) + 1
    BY FS_Subset, FS_CardinalityType, FS_AddElement
  <2>2. /\ SumFunctionOnSet(f, R \cup {x}) = SumFunctionOnSet(f, R) + f[x]
        /\ SumFunctionOnSet(f, R) \in Int
    BY <2>1, SumWithOneMore, SumIsInt
  <2>3. (Cardinality(R) + 1) * c = Cardinality(R) * c + c
    BY <2>1
  <2>4. Cardinality(R \cup {x}) * c <= SumFunctionOnSet(f, R \cup {x})
    BY <2>1, <2>2, <2>3
  <2> QED
    BY <2>4
<1>3. T \in SUBSET SUBSET S
  OBVIOUS
<1>4. S \in T
  <2> HIDE DEF T
  <2> QED
    BY <1>1, <1>2, <1>3, SubsetInduction
<1> QED
  BY <1>4

(* Values that are 0 add nothing.                                           *)
THEOREM SumOfZeros ==
    ASSUME NEW f, NEW S, IsFiniteSet(S), \A x \in S : f[x] = 0
    PROVE  SumFunctionOnSet(f, S) = 0
<1> DEFINE T == { R \in SUBSET S : SumFunctionOnSet(f, R) = 0 }
<1>1. {} \in T
  BY SumOfNone
<1>2. ASSUME NEW R \in T, NEW x \in S \ R PROVE R \cup {x} \in T
  <2>1. IsFiniteSet(R) /\ \A y \in R \cup {x} : f[y] \in Int /\ f[y] = 0
    BY FS_Subset
  <2>2. SumFunctionOnSet(f, R \cup {x}) = SumFunctionOnSet(f, R) + f[x]
    BY <2>1, SumWithOneMore
  <2> QED
    BY <2>1, <2>2
<1>3. T \in SUBSET SUBSET S
  OBVIOUS
<1>4. S \in T
  <2> HIDE DEF T
  <2> QED
    BY <1>1, <1>2, <1>3, SubsetInduction
<1> QED
  BY <1>4

-----------------------------------------------------------------------------
(* Squares: g has those of f.                                               *)

SquaresOf(f, g, S) == \A x \in S : f[x] \in Int /\ g[x] = f[x] * f[x]

(* The squares of the distances from c have no negative sum.                *)
LEMMA SumOfDistances ==
    ASSUME NEW S, IsFiniteSet(S), NEW f, NEW g, SquaresOf(f, g, S), NEW c \in Int
    PROVE  0 <= SumFunctionOnSet(g, S) - 2 * (c * SumFunctionOnSet(f, S)) + Cardinality(S) * (c * c)
<1> DEFINE F(R) == SumFunctionOnSet(f, R)
           G(R) == SumFunctionOnSet(g, R)
           T == { R \in SUBSET S : 0 <= G(R) - 2 * (c * F(R)) + Cardinality(R) * (c * c) }
<1>0. ASSUME NEW x \in S PROVE f[x] \in Int /\ g[x] \in Int /\ g[x] = f[x] * f[x]
  BY DEF SquaresOf
<1>1. {} \in T
  BY FS_EmptySet, SumOfNone
<1>2. ASSUME NEW R \in T, NEW x \in S \ R PROVE R \cup {x} \in T
  <2>1. IsFiniteSet(R) /\ Cardinality(R) \in Nat /\ Cardinality(R \cup {x}) = Cardinality(R) + 1
    BY FS_Subset, FS_CardinalityType, FS_AddElement
  <2>2. F(R \cup {x}) = F(R) + f[x] /\ F(R) \in Int /\ G(R \cup {x}) = G(R) + g[x] /\ G(R) \in Int
    BY <1>0, <2>1, SumWithOneMore, SumIsInt
  <2>3. f[x] \in Int /\ g[x] \in Int /\ g[x] = f[x] * f[x]
    BY <1>0
  <2>4. 0 <= G(R) - 2 * (c * F(R)) + Cardinality(R) * (c * c)
    OBVIOUS
  <2>5. \A a, b, n, v \in Int :
            (b + v * v) - 2 * (c * (a + v)) + (n + 1) * (c * c)
                = (b - 2 * (c * a) + n * (c * c)) + (v - c) * (v - c)
    OBVIOUS
  <2>6. \A v \in Int : 0 <= v * v
    OBVIOUS
  <2>7. 0 <= (f[x] - c) * (f[x] - c) /\ (f[x] - c) * (f[x] - c) \in Int
    BY <2>3, <2>6
  <2> HIDE DEF F, G
  <2>8. (G(R) + g[x]) - 2 * (c * (F(R) + f[x])) + (Cardinality(R) + 1) * (c * c)
          = (G(R) - 2 * (c * F(R)) + Cardinality(R) * (c * c)) + (f[x] - c) * (f[x] - c)
    BY <2>1, <2>2, <2>3, <2>5
  <2>9. G(R) - 2 * (c * F(R)) + Cardinality(R) * (c * c) \in Int
    BY <2>1, <2>2
  <2>10. 0 <= G(R \cup {x}) - 2 * (c * F(R \cup {x})) + Cardinality(R \cup {x}) * (c * c)
    BY <2>1, <2>2, <2>4, <2>7, <2>8, <2>9
  <2> QED
    BY <2>10
<1>3. T \in SUBSET SUBSET S
  OBVIOUS
<1>4. S \in T
  <2> HIDE DEF T
  <2> QED
    BY <1>1, <1>2, <1>3, SubsetInduction
<1> QED
  BY <1>4

(* Cauchy's inequality.                                                     *)
THEOREM SquareOfSum ==
    ASSUME NEW S, IsFiniteSet(S), NEW f, NEW g, SquaresOf(f, g, S)
    PROVE  SumFunctionOnSet(f, S) * SumFunctionOnSet(f, S) <= Cardinality(S) * SumFunctionOnSet(g, S)
<1> DEFINE F(R) == SumFunctionOnSet(f, R)
           G(R) == SumFunctionOnSet(g, R)
           T == { R \in SUBSET S : F(R) * F(R) <= Cardinality(R) * G(R) }
<1>0. ASSUME NEW x \in S PROVE f[x] \in Int /\ g[x] \in Int /\ g[x] = f[x] * f[x]
  BY DEF SquaresOf
<1>1. {} \in T
  BY FS_EmptySet, SumOfNone
<1>2. ASSUME NEW R \in T, NEW x \in S \ R PROVE R \cup {x} \in T
  <2>1. IsFiniteSet(R) /\ Cardinality(R) \in Nat /\ Cardinality(R \cup {x}) = Cardinality(R) + 1
    BY FS_Subset, FS_CardinalityType, FS_AddElement
  <2>2. F(R \cup {x}) = F(R) + f[x] /\ F(R) \in Int /\ G(R \cup {x}) = G(R) + g[x] /\ G(R) \in Int
    BY <1>0, <2>1, SumWithOneMore, SumIsInt
  <2>3. f[x] \in Int /\ g[x] \in Int /\ g[x] = f[x] * f[x]
    BY <1>0
  <2>4. F(R) * F(R) <= Cardinality(R) * G(R)
    OBVIOUS
  <2>5. 0 <= G(R) - 2 * (f[x] * F(R)) + Cardinality(R) * (f[x] * f[x])
    <3>1. SquaresOf(f, g, R)
      BY DEF SquaresOf
    <3> QED
      BY <2>1, <2>3, <3>1, SumOfDistances
  <2>6. \A a, b, n, v \in Int :
            (n + 1) * (b + v * v) - (a + v) * (a + v) = (n * b - a * a) + (b - 2 * (v * a) + n * (v * v))
    OBVIOUS
  <2> HIDE DEF F, G
  <2>7. (Cardinality(R) + 1) * (G(R) + g[x]) - (F(R) + f[x]) * (F(R) + f[x])
          = (Cardinality(R) * G(R) - F(R) * F(R))
              + (G(R) - 2 * (f[x] * F(R)) + Cardinality(R) * (f[x] * f[x]))
    <3> DEFINE a == F(R)
               b == G(R)
               n == Cardinality(R)
               v == f[x]
    <3>1. a \in Int /\ b \in Int /\ n \in Int /\ v \in Int /\ g[x] = v * v
      BY <2>1, <2>2, <2>3
    <3> HIDE DEF a, b, n, v
    <3>2. (n + 1) * (b + g[x]) - (a + v) * (a + v) = (n * b - a * a) + (b - 2 * (v * a) + n * (v * v))
      BY <2>6, <3>1
    <3> QED
      BY <3>2 DEF a, b, n, v
  <2>8. /\ Cardinality(R) * G(R) \in Int /\ F(R) * F(R) \in Int
        /\ (Cardinality(R) + 1) * (G(R) + g[x]) \in Int /\ (F(R) + f[x]) * (F(R) + f[x]) \in Int
        /\ G(R) - 2 * (f[x] * F(R)) + Cardinality(R) * (f[x] * f[x]) \in Int
    BY <2>1, <2>2, <2>3
  <2>9. (F(R) + f[x]) * (F(R) + f[x]) <= (Cardinality(R) + 1) * (G(R) + g[x])
    BY <2>4, <2>5, <2>7, <2>8
  <2>10. F(R \cup {x}) * F(R \cup {x}) <= Cardinality(R \cup {x}) * G(R \cup {x})
    BY <2>1, <2>2, <2>9
  <2> QED
    BY <2>10
<1>3. T \in SUBSET SUBSET S
  OBVIOUS
<1>4. S \in T
  <2> HIDE DEF T
  <2> QED
    BY <1>1, <1>2, <1>3, SubsetInduction
<1> QED
  BY <1>4

=============================================================================
