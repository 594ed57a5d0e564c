---------------------------------- MODULE Sums ----------------------------------
(* SumFunctionOnSet of the community modules, for proofs: the sum of the values  *)
(* of a function on a finite set does not depend on the order it is taken in.    *)
EXTENDS Integers, Functions, FiniteSetTheorems, WellFoundedInduction, TLAPS

(* The recursion of SumFunctionOnSet: iter[s] is the sum of f on s, for every s  *)
(* in the set dom of sets.                                                       *)
Pick(s) == CHOOSE x \in s : TRUE
Adds(f, iter, dom) ==
    iter = [s \in dom |-> IF s = {} THEN 0 ELSE f[Pick(s)] + iter[s \ {Pick(s)}]]

LEMMA SumUnfolded ==
  ASSUME NEW f, NEW S
  PROVE  SumFunctionOnSet(f, S) = (CHOOSE iter : Adds(f, iter, SUBSET S))[S]
BY DEF SumFunctionOnSet, FoldFunctionOnSet, MapThenFoldSet, Adds, Pick

(* Every set of numbers that is not empty has a least one.                       *)
LEMMA LeastNumber ==
  ASSUME NEW T, T \subseteq Nat, T # {}
  PROVE  \E n \in T : \A m \in T : n <= m
<1> DEFINE R == {p \in Nat \X Nat : p[1] < p[2]}
<1>1. IsWellFoundedOn(R, Nat)
  BY NatLessThanWellFounded, Zenon DEF OpToRel
<1>2. \A x, y \in Nat : <<x, y>> \in R <=> x < y
  OBVIOUS
<1> HIDE DEF R
<1>3. PICK x \in T : \A y \in T : ~ (<<y, x>> \in R)
  BY <1>1, WFMin
<1>4. ASSUME NEW y \in T PROVE x <= y
  <2>1. x \in Nat /\ y \in Nat
    OBVIOUS
  <2>2. ~ (y < x)
    BY <1>2, <1>3, <2>1, Zenon
  <2> QED BY <2>1, <2>2
<1> QED BY <1>4

(* A set of numbers that has 0, and the successor of all it has, has them all.   *)
LEMMA AllNumbers ==
  ASSUME NEW X, 0 \in X, \A n \in Nat : n \in X => n + 1 \in X
  PROVE  Nat \subseteq X
<1> SUFFICES ASSUME NEW m \in Nat, m \notin X PROVE FALSE
  OBVIOUS
<1>1. PICK n \in {k \in Nat : k \notin X} : \A k \in {k \in Nat : k \notin X} : n <= k
  BY LeastNumber
<1>2. n # 0 /\ n - 1 \in Nat /\ ~(n <= n - 1)
  BY <1>1
<1>3. n - 1 \in X
  BY <1>1, <1>2
<1> QED BY <1>1, <1>2, <1>3

(* Of the sets in a family of finite ones, one has the fewest elements.          *)
LEMMA SmallestSet ==
  ASSUME NEW F, F # {}, \A s \in F : IsFiniteSet(s)
  PROVE  \E s \in F : \A t \in F : Cardinality(s) <= Cardinality(t)
<1> DEFINE T == {Cardinality(s) : s \in F}
<1>1. T \subseteq Nat /\ T # {}
  BY FS_CardinalityType
<1>2. PICK n \in T : \A m \in T : n <= m
  BY <1>1, LeastNumber
<1> QED BY <1>2

(* Taking one element out of a finite set.                                       *)
LEMMA OneLess ==
  ASSUME NEW S, IsFiniteSet(S), NEW x \in S
  PROVE  /\ IsFiniteSet(S \ {x}) /\ Cardinality(S) \in Nat /\ Cardinality(S \ {x}) \in Nat
         /\ Cardinality(S \ {x}) = Cardinality(S) - 1
BY FS_RemoveElement, FS_CardinalityType

LEMMA Picked == ASSUME NEW s, s # {} PROVE Pick(s) \in s
BY DEF Pick

Ints(f, S) == \A x \in S : f[x] \in Int
Agree(f, g, S) == \A x \in S : f[x] = g[x]
AnyFirst(f, iter, s) == \A x \in s : iter[s] = f[x] + iter[s \ {x}]
IterOf(f, iter, S) == IsFiniteSet(S) /\ Adds(f, iter, SUBSET S)

(* The values of such an iter are sums: numbers, and the same whichever element  *)
(* is taken out first.                                                           *)
LEMMA SumsAreNumbers ==
  ASSUME NEW S, NEW f, NEW iter, IterOf(f, iter, S), Ints(f, S)
  PROVE  \A s \in SUBSET S : iter[s] \in Int
<1> USE DEF IterOf, Ints
<1> DEFINE F == {s \in SUBSET S : iter[s] \notin Int}
<1> SUFFICES ASSUME F # {} PROVE FALSE
  OBVIOUS
<1>1. \A s \in SUBSET S : IsFiniteSet(s)
  BY FS_Subset
<1>2. PICK s \in F : \A t \in F : Cardinality(s) <= Cardinality(t)
  BY <1>1, SmallestSet
<1>3. CASE s = {}
  BY <1>2, <1>3 DEF Adds
<1>4. CASE s # {}
  <2>1. Pick(s) \in s
    BY <1>4, Picked
  <2>2. iter[s] = f[Pick(s)] + iter[s \ {Pick(s)}]
    BY <1>4 DEF Adds
  <2>3. ~(Cardinality(s) <= Cardinality(s \ {Pick(s)}))
    BY <1>1, <2>1, OneLess
  <2>4. iter[s \ {Pick(s)}] \in Int
    BY <1>2, <2>3
  <2> QED BY <2>1, <2>2, <2>4
<1> QED BY <1>3, <1>4

LEMMA TakenOut ==
  ASSUME NEW S, NEW f, NEW iter, IterOf(f, iter, S), Ints(f, S)
  PROVE  \A s \in SUBSET S : AnyFirst(f, iter, s)
<1>0. \A s \in SUBSET S : iter[s] \in Int
  BY SumsAreNumbers
<1> USE DEF IterOf, Ints
<1> USE DEF AnyFirst
<1> DEFINE F == {s \in SUBSET S : ~AnyFirst(f, iter, s)}
<1> SUFFICES ASSUME F # {} PROVE FALSE
  OBVIOUS
<1>1. \A s \in SUBSET S : IsFiniteSet(s)
  BY FS_Subset
<1>2. PICK s \in F : \A t \in F : Cardinality(s) <= Cardinality(t)
  BY <1>1, SmallestSet
<1>3. PICK x \in s : iter[s] # f[x] + iter[s \ {x}]
  BY <1>2
<1>4. Pick(s) \in s
  BY <1>3, Picked
<1>5. iter[s] = f[Pick(s)] + iter[s \ {Pick(s)}]
  BY <1>3 DEF Adds
<1>6. Pick(s) # x
  BY <1>3, <1>5
<1>7. \A y \in s : AnyFirst(f, iter, s \ {y})
  <2> SUFFICES ASSUME NEW y \in s PROVE AnyFirst(f, iter, s \ {y})
    OBVIOUS
  <2>1. ~(Cardinality(s) <= Cardinality(s \ {y}))
    BY <1>1, OneLess
  <2>2. s \ {y} \notin F /\ s \ {y} \in SUBSET S
    BY <1>2, <2>1
  <2> QED BY <2>2
<1>8. iter[s \ {Pick(s)}] = f[x] + iter[(s \ {Pick(s)}) \ {x}]
  BY <1>4, <1>6, <1>7
<1>9. iter[s \ {x}] = f[Pick(s)] + iter[(s \ {x}) \ {Pick(s)}]
  BY <1>4, <1>6, <1>7
<1>10. (s \ {x}) \ {Pick(s)} = (s \ {Pick(s)}) \ {x}
  OBVIOUS
<1>11. iter[(s \ {Pick(s)}) \ {x}] \in Int /\ f[x] \in Int /\ f[Pick(s)] \in Int
  BY <1>0, <1>4
<1>12. iter[s] = f[Pick(s)] + (f[x] + iter[(s \ {Pick(s)}) \ {x}])
  BY <1>5, <1>8
<1>13. iter[s \ {x}] = f[Pick(s)] + iter[(s \ {Pick(s)}) \ {x}]
  BY <1>9, <1>10
<1>14. iter[s] = f[x] + iter[s \ {x}]
  BY <1>11, <1>12, <1>13
<1> QED BY <1>3, <1>14

(* Two of them, over different families, are the same where the functions are.   *)
LEMMA SameSums ==
  ASSUME NEW S, NEW T, T \in SUBSET S, NEW f, NEW g, Agree(f, g, T),
         NEW iter, IterOf(f, iter, S), NEW jter, IterOf(g, jter, T)
  PROVE  iter[T] = jter[T]
<1> USE DEF IterOf, Agree
<1> DEFINE F == {s \in SUBSET T : iter[s] # jter[s]}
<1> SUFFICES ASSUME F # {} PROVE FALSE
  OBVIOUS
<1>1. \A s \in SUBSET T : IsFiniteSet(s) /\ s \in SUBSET S
  BY FS_Subset
<1>2. PICK s \in F : \A t \in F : Cardinality(s) <= Cardinality(t)
  BY <1>1, SmallestSet
<1>3. CASE s = {}
  <2>1. iter[{}] = 0 /\ jter[{}] = 0
    BY DEF Adds
  <2> QED BY <1>2, <1>3, <2>1
<1>4. CASE s # {}
  <2>1. Pick(s) \in s
    BY <1>4, Picked
  <2>2. iter[s] = f[Pick(s)] + iter[s \ {Pick(s)}]
    BY <1>1, <1>2, <1>4 DEF Adds
  <2>3. jter[s] = g[Pick(s)] + jter[s \ {Pick(s)}]
    BY <1>4 DEF Adds
  <2>4. ~(Cardinality(s) <= Cardinality(s \ {Pick(s)}))
    <3>1. s \in SUBSET T /\ IsFiniteSet(s)
      BY <1>1
    <3>2. Cardinality(s) \in Nat /\ Cardinality(s \ {Pick(s)}) = Cardinality(s) - 1
      BY <2>1, <3>1, OneLess
    <3> QED BY <3>2
  <2>5. iter[s \ {Pick(s)}] = jter[s \ {Pick(s)}]
    BY <1>2, <2>4
  <2> QED BY <1>2, <2>1, <2>2, <2>3, <2>5
<1> QED BY <1>3, <1>4

(* There is one: it is built for the sets of 0, 1, 2, ... elements in turn.      *)
UpTo(S, n) == {s \in SUBSET S : Cardinality(s) <= n}

LEMMA SumsExistUpTo ==
  ASSUME NEW S, IsFiniteSet(S), NEW f, NEW n \in Nat
  PROVE  \E iter : Adds(f, iter, UpTo(S, n))
<1> DEFINE X == {k \in Nat : \E iter : Adds(f, iter, UpTo(S, k))}
<1>1. \A s \in SUBSET S : IsFiniteSet(s) /\ Cardinality(s) \in Nat
  BY FS_Subset, FS_CardinalityType
<1>2. 0 \in X
  <2>1. UpTo(S, 0) = {{}}
    BY <1>1, FS_EmptySet DEF UpTo
  <2> DEFINE zero == [s \in {{}} |-> 0]
  <2>2. zero = [s \in {{}} |-> IF s = {} THEN 0 ELSE f[Pick(s)] + zero[s \ {Pick(s)}]]
    OBVIOUS
  <2>3. Adds(f, zero, UpTo(S, 0))
    BY <2>1, <2>2 DEF Adds
  <2> QED BY <2>3
<1>3. ASSUME NEW k \in Nat, k \in X PROVE k + 1 \in X
  <2>1. PICK iter : Adds(f, iter, UpTo(S, k))
    BY <1>3
  <2> DEFINE next == [s \in UpTo(S, k + 1) |->
                        IF s = {} THEN 0 ELSE f[Pick(s)] + iter[s \ {Pick(s)}]]
  <2>2. UpTo(S, k) \subseteq UpTo(S, k + 1)
    BY <1>1 DEF UpTo
  <2>3. \A s \in UpTo(S, k + 1) : s # {} => s \ {Pick(s)} \in UpTo(S, k)
    <3> SUFFICES ASSUME NEW s \in UpTo(S, k + 1), s # {} PROVE s \ {Pick(s)} \in UpTo(S, k)
      OBVIOUS
    <3>1. s \in SUBSET S /\ Cardinality(s) <= k + 1 /\ Pick(s) \in s /\ IsFiniteSet(s)
      BY <1>1, Picked DEF UpTo
    <3>2. Cardinality(s \ {Pick(s)}) = Cardinality(s) - 1 /\ Cardinality(s) \in Nat
      BY <3>1, OneLess
    <3> QED BY <3>1, <3>2 DEF UpTo
  <2>4. \A s \in UpTo(S, k) : next[s] = iter[s]
    BY <2>1, <2>2 DEF Adds
  <2>5. \A s \in UpTo(S, k + 1) :
          next[s] = IF s = {} THEN 0 ELSE f[Pick(s)] + next[s \ {Pick(s)}]
    BY <2>3, <2>4
  <2>6. next = [s \in UpTo(S, k + 1) |-> next[s]]
    OBVIOUS
  <2> HIDE DEF next
  <2>7. next = [s \in UpTo(S, k + 1) |-> IF s = {} THEN 0 ELSE f[Pick(s)] + next[s \ {Pick(s)}]]
    BY <2>5, <2>6
  <2>8. Adds(f, next, UpTo(S, k + 1))
    BY <2>7 DEF Adds
  <2> QED BY <2>8
<1> HIDE DEF X
<1>4. Nat \subseteq X
  BY <1>2, <1>3, AllNumbers
<1> QED BY <1>4 DEF X

(* SumFunctionOnSet is such a sum.                                               *)
LEMMA SumIsIter ==
  ASSUME NEW S, IsFiniteSet(S), NEW f
  PROVE  \E iter : IterOf(f, iter, S) /\ SumFunctionOnSet(f, S) = iter[S]
<1>1. Cardinality(S) \in Nat /\ UpTo(S, Cardinality(S)) = SUBSET S
  BY FS_CardinalityType, FS_Subset DEF UpTo
<1>2. \E iter : Adds(f, iter, SUBSET S)
  <2>1. \E iter : Adds(f, iter, UpTo(S, Cardinality(S)))
    BY <1>1, SumsExistUpTo
  <2> QED BY <1>1, <2>1
<1> DEFINE sum == CHOOSE iter : Adds(f, iter, SUBSET S)
<1>3. Adds(f, sum, SUBSET S)
  BY <1>2
<1>4. SumFunctionOnSet(f, S) = sum[S]
  BY SumUnfolded
<1> QED BY <1>3, <1>4 DEF IterOf
--------------------------------------------------------------------------------
(* What the proofs of the other modules need of it.                              *)

LEMMA SumOfNone == ASSUME NEW f PROVE SumFunctionOnSet(f, {}) = 0
<1>1. PICK iter : IterOf(f, iter, {}) /\ SumFunctionOnSet(f, {}) = iter[{}]
  BY SumIsIter, FS_EmptySet
<1> QED BY <1>1 DEF IterOf, Adds

LEMMA SumIsInt ==
  ASSUME NEW S, IsFiniteSet(S), NEW f, \A x \in S : f[x] \in Int
  PROVE  SumFunctionOnSet(f, S) \in Int
<1>1. PICK iter : IterOf(f, iter, S) /\ SumFunctionOnSet(f, S) = iter[S]
  BY SumIsIter
<1>2. Ints(f, S)
  BY DEF Ints
<1>3. \A s \in SUBSET S : iter[s] \in Int
  BY <1>1, <1>2, SumsAreNumbers
<1> QED BY <1>1, <1>3

(* Functions that agree on the set have the same sum.                            *)
LEMMA SumOfSame ==
  ASSUME NEW S, IsFiniteSet(S), NEW f, NEW g, \A x \in S : f[x] = g[x]
  PROVE  SumFunctionOnSet(f, S) = SumFunctionOnSet(g, S)
<1>1. PICK iter : IterOf(f, iter, S) /\ SumFunctionOnSet(f, S) = iter[S]
  BY SumIsIter
<1>2. PICK jter : IterOf(g, jter, S) /\ SumFunctionOnSet(g, S) = jter[S]
  BY SumIsIter
<1>3. Agree(f, g, S) /\ S \in SUBSET S
  BY DEF Agree
<1>4. iter[S] = jter[S]
  BY <1>1, <1>2, <1>3, SameSums
<1> QED BY <1>1, <1>2, <1>4

LEMMA SumWithout ==
  ASSUME NEW S, IsFiniteSet(S), NEW f, \A x \in S : f[x] \in Int, NEW y \in S
  PROVE  SumFunctionOnSet(f, S) = f[y] + SumFunctionOnSet(f, S \ {y})
<1>1. PICK iter : IterOf(f, iter, S) /\ SumFunctionOnSet(f, S) = iter[S]
  BY SumIsIter
<1> DEFINE T == S \ {y}
<1>2. IsFiniteSet(T) /\ T \in SUBSET S
  BY OneLess
<1>3. PICK jter : IterOf(f, jter, T) /\ SumFunctionOnSet(f, T) = jter[T]
  BY <1>2, SumIsIter
<1>4. Agree(f, f, T) /\ Ints(f, S)
  BY DEF Agree, Ints
<1>5. S \in SUBSET S /\ T = S \ {y}
  OBVIOUS
<1> HIDE DEF T
<1>6. iter[T] = jter[T]
  BY <1>1, <1>2, <1>3, <1>4, SameSums
<1>7. \A s \in SUBSET S : AnyFirst(f, iter, s)
  BY <1>1, <1>4, TakenOut
<1>8. iter[S] = f[y] + iter[T]
  BY <1>5, <1>7 DEF AnyFirst
<1> QED BY <1>1, <1>3, <1>5, <1>6, <1>8

LEMMA SumWith ==
  ASSUME NEW S, IsFiniteSet(S), NEW f, \A x \in S : f[x] \in Int,
         NEW y, y \notin S, f[y] \in Int
  PROVE  SumFunctionOnSet(f, S \cup {y}) = f[y] + SumFunctionOnSet(f, S)
<1>1. IsFiniteSet(S \cup {y}) /\ (S \cup {y}) \ {y} = S
  BY FS_AddElement
<1> DEFINE T == S \cup {y}
<1>2. \A x \in T : f[x] \in Int
  OBVIOUS
<1>3. IsFiniteSet(T) /\ y \in T /\ T \ {y} = S
  BY <1>1
<1> HIDE DEF T
<1>4. SumFunctionOnSet(f, T) = f[y] + SumFunctionOnSet(f, T \ {y})
  BY <1>2, <1>3, SumWithout
<1> QED BY <1>3, <1>4 DEF T

(* One value changed.                                                            *)
LEMMA SumOfChanged ==
  ASSUME NEW S, IsFiniteSet(S), NEW f, \A x \in S : f[x] \in Int,
         NEW g, NEW y \in S, g[y] \in Int, \A x \in S \ {y} : g[x] = f[x]
  PROVE  SumFunctionOnSet(g, S) = SumFunctionOnSet(f, S) - f[y] + g[y]
<1>1. \A x \in S : g[x] \in Int
  OBVIOUS
<1>2. IsFiniteSet(S \ {y})
  BY OneLess
<1>3. SumFunctionOnSet(g, S \ {y}) = SumFunctionOnSet(f, S \ {y})
  BY <1>2, SumOfSame
<1>4. SumFunctionOnSet(f, S) = f[y] + SumFunctionOnSet(f, S \ {y})
  BY SumWithout
<1>5. SumFunctionOnSet(g, S) = g[y] + SumFunctionOnSet(g, S \ {y})
  BY <1>1, SumWithout
<1>6. SumFunctionOnSet(f, S \ {y}) \in Int
  BY <1>2, SumIsInt
<1> QED BY <1>3, <1>4, <1>5, <1>6

(* The same of a sum over one element more or less.                              *)
LEMMA SumGrown ==
  ASSUME NEW S, IsFiniteSet(S), NEW f, Ints(f, S),
         NEW y, y \notin S, NEW g, g[y] \in Int, Agree(f, g, S)
  PROVE  SumFunctionOnSet(g, S \cup {y}) = SumFunctionOnSet(f, S) + g[y]
<1>1. \A x \in S : f[x] \in Int /\ g[x] \in Int /\ g[x] = f[x]
  BY DEF Ints, Agree
<1>2. SumFunctionOnSet(g, S \cup {y}) = g[y] + SumFunctionOnSet(g, S)
  BY <1>1, SumWith
<1>3. SumFunctionOnSet(g, S) = SumFunctionOnSet(f, S)
  BY <1>1, SumOfSame
<1>4. SumFunctionOnSet(f, S) \in Int
  BY <1>1, SumIsInt
<1> QED BY <1>2, <1>3, <1>4

LEMMA SumShrunk ==
  ASSUME NEW S, IsFiniteSet(S), NEW f, Ints(f, S),
         NEW y \in S, NEW g, Agree(f, g, S \ {y})
  PROVE  SumFunctionOnSet(g, S \ {y}) = SumFunctionOnSet(f, S) - f[y]
<1> USE DEF Ints, Agree
<1>1. IsFiniteSet(S \ {y})
  BY OneLess
<1>2. SumFunctionOnSet(g, S \ {y}) = SumFunctionOnSet(f, S \ {y})
  BY <1>1, SumOfSame
<1>3. SumFunctionOnSet(f, S) = f[y] + SumFunctionOnSet(f, S \ {y})
  BY SumWithout
<1>4. SumFunctionOnSet(f, S \ {y}) \in Int
  BY <1>1, SumIsInt
<1> QED BY <1>2, <1>3, <1>4
================================================================================
