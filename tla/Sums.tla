-------------------------------- MODULE Sums --------------------------------
(***************************************************************************)
(* What the sum of a function over a finite set, SumFunctionOnSet of the   *)
(* community modules, is: the facts about totals that the proofs of other  *)
(* modules cite.  The library defines it by a recursion that takes the     *)
(* elements in the order CHOOSE gives them; SumRemove says that the order  *)
(* does not matter, and the rest follows from it by induction.             *)
(***************************************************************************)
EXTENDS Integers, Functions, FiniteSetTheorems, WellFoundedInduction, TLAPS

(* Induction over the natural numbers and over the subsets of a finite set, *)
(* with the property as a set.                                              *)
LEMMA NatSetInduction ==
  ASSUME NEW Good, 0 \in Good, \A n \in Nat : n \in Good => n + 1 \in Good
  PROVE  \A n \in Nat : n \in Good
<1> DEFINE Bad == {n \in Nat : n \notin Good}
           R == OpToRel(<, Nat)
<1> SUFFICES ASSUME Bad # {} PROVE FALSE
  OBVIOUS
<1>1. PICK n \in Bad : \A m \in Bad : ~(<<m, n>> \in R)
  <2>1. Bad \subseteq Nat /\ IsWellFoundedOn(R, Nat)
    BY NatLessThanWellFounded
  <2> HIDE DEF Bad, R
  <2> QED
    BY <2>1, WFMin
<1>2. n # 0 /\ n - 1 \in Nat
  OBVIOUS
<1>3. n - 1 \in Bad
  BY <1>2
<1>4. <<n - 1, n>> \in R
  BY <1>2 DEF OpToRel
<1> QED
  BY <1>1, <1>3, <1>4

LEMMA FiniteInduction ==
  ASSUME NEW S, IsFiniteSet(S), NEW Good, {} \in Good,
         \A T \in SUBSET S : \A x \in S \ T : T \in Good => T \cup {x} \in Good
  PROVE  S \in Good
<1> DEFINE Size == {n \in Nat : \A T \in SUBSET S : Cardinality(T) = n => T \in Good}
<1>1. 0 \in Size
  BY FS_EmptySet, FS_Subset
<1>2. ASSUME NEW n \in Nat, n \in Size PROVE n + 1 \in Size
  <2> SUFFICES ASSUME NEW T \in SUBSET S, Cardinality(T) = n + 1 PROVE T \in Good
    BY <1>2
  <2>1. IsFiniteSet(T) /\ T # {}
    BY FS_Subset, FS_EmptySet
  <2>2. PICK x \in T : TRUE
    BY <2>1
  <2>3. Cardinality(T \ {x}) = n
    <3>1. Cardinality(T \ {x}) = Cardinality(T) - 1
      BY <2>1, <2>2, FS_RemoveElement
    <3> QED
      BY <3>1
  <2>4. T \ {x} \in Good
    BY <1>2, <2>3
  <2>5. T = (T \ {x}) \cup {x} /\ x \in S \ (T \ {x}) /\ T \ {x} \in SUBSET S
    OBVIOUS
  <2> QED
    BY <2>4, <2>5
<1>3. \A n \in Nat : n \in Size
  <2> HIDE DEF Size
  <2> QED
    BY <1>1, <1>2, NatSetInduction
<1> QED
  BY <1>3, FS_CardinalityType

-----------------------------------------------------------------------------
(* The library's recursion has a solution, and only one.                   *)

Fold(f, g, s) == IF s = {} THEN 0 ELSE LET x == CHOOSE y \in s : TRUE IN f[x] + g[s \ {x}]

Solves(f, g, S) == \A s \in SUBSET S : g[s] = Fold(f, g, s)

LEMMA FoldExists ==
  ASSUME NEW S, IsFiniteSet(S), NEW f
  PROVE  \E g : g = [s \in SUBSET S |-> Fold(f, g, s)]
<1> DEFINE Upto(g, n) == \A s \in SUBSET S : Cardinality(s) <= n => g[s] = Fold(f, g, s)
           Good == {n \in Nat : \E g : Upto(g, n)}
<1>1. 0 \in Good
  <2> DEFINE g == [s \in SUBSET S |-> 0]
  <2>1. \A s \in SUBSET S : Cardinality(s) <= 0 => s = {}
    BY FS_EmptySet, FS_Subset, FS_CardinalityType
  <2>2. Upto(g, 0)
    BY <2>1 DEF Fold
  <2> HIDE DEF Upto, g
  <2> QED
    BY <2>2
<1>2. ASSUME NEW n \in Nat, n \in Good PROVE n + 1 \in Good
  <2>1. PICK g : Upto(g, n)
    BY <1>2
  <2> DEFINE h == [s \in SUBSET S |-> Fold(f, g, s)]
  <2>2. ASSUME NEW s \in SUBSET S, Cardinality(s) <= n + 1 PROVE h[s] = Fold(f, h, s)
    <3>1. CASE s = {}
      BY <3>1 DEF Fold
    <3>2. CASE s # {}
      <4> DEFINE x == CHOOSE y \in s : TRUE
      <4>1. x \in s
        BY <3>2
      <4>2. Cardinality(s \ {x}) <= n /\ s \ {x} \in SUBSET S
        BY <4>1, <2>2, FS_Subset, FS_RemoveElement, FS_CardinalityType
      <4>3. g[s \ {x}] = h[s \ {x}]
        BY <4>2, <2>1
      <4>4. h[s] = f[x] + g[s \ {x}] /\ Fold(f, h, s) = f[x] + h[s \ {x}]
        BY <3>2 DEF Fold
      <4> HIDE DEF x, h
      <4> QED
        BY <4>3, <4>4
    <3> QED
      BY <3>1, <3>2
  <2>3. Upto(h, n + 1)
    BY <2>2
  <2> HIDE DEF Upto, h
  <2> QED
    BY <2>3
<1>3. Cardinality(S) \in Good
  <2> HIDE DEF Good
  <2> QED
    BY <1>1, <1>2, NatSetInduction, FS_CardinalityType
<1>4. PICK g : Upto(g, Cardinality(S))
  BY <1>3
<1>5. \A s \in SUBSET S : g[s] = Fold(f, g, s)
  BY <1>4, FS_Subset
<1> DEFINE h == [s \in SUBSET S |-> g[s]]
<1>6. ASSUME NEW s \in SUBSET S PROVE Fold(f, g, s) = Fold(f, h, s)
  BY <1>6 DEF Fold
<1>7. h = [s \in SUBSET S |-> Fold(f, h, s)]
  BY <1>5, <1>6
<1> HIDE DEF h
<1> QED
  BY <1>7

LEMMA FoldUnique ==
  ASSUME NEW S, IsFiniteSet(S), NEW f, NEW g, NEW h, Solves(f, g, S), Solves(f, h, S)
  PROVE  g[S] = h[S]
<1> DEFINE Good == {n \in Nat : \A s \in SUBSET S : Cardinality(s) = n => g[s] = h[s]}
<1>1. 0 \in Good
  BY FS_EmptySet, FS_Subset DEF Fold, Solves
<1>2. ASSUME NEW n \in Nat, n \in Good PROVE n + 1 \in Good
  <2> SUFFICES ASSUME NEW s \in SUBSET S, Cardinality(s) = n + 1 PROVE g[s] = h[s]
    BY <1>2
  <2> DEFINE x == CHOOSE y \in s : TRUE
  <2>1. IsFiniteSet(s) /\ s # {}
    BY FS_Subset, FS_EmptySet
  <2>2. x \in s
    BY <2>1
  <2>3. Cardinality(s \ {x}) = n /\ s \ {x} \in SUBSET S
    <3>1. Cardinality(s \ {x}) = Cardinality(s) - 1
      BY <2>1, <2>2, FS_RemoveElement
    <3> QED
      BY <3>1
  <2>4. g[s \ {x}] = h[s \ {x}]
    BY <2>3, <1>2
  <2>5. g[s] = f[x] + g[s \ {x}] /\ h[s] = f[x] + h[s \ {x}]
    BY <2>1 DEF Fold, Solves
  <2> QED
    BY <2>4, <2>5
<1>3. Cardinality(S) \in Good
  <2> HIDE DEF Good
  <2> QED
    BY <1>1, <1>2, NatSetInduction, FS_CardinalityType
<1> QED
  BY <1>3

(* So the sum over a set is that over all but one of its elements, plus    *)
(* the value at that one: at first for the element CHOOSE takes.           *)
LEMMA SumSolves ==
  ASSUME NEW S, IsFiniteSet(S), NEW f
  PROVE  \E g : g = [s \in SUBSET S |-> Fold(f, g, s)] /\ SumFunctionOnSet(f, S) = g[S]
<1> DEFINE iter[s \in SUBSET S] ==
             IF s = {} THEN 0 ELSE LET x == CHOOSE y \in s : TRUE IN f[x] + iter[s \ {x}]
           it == CHOOSE g : g = [s \in SUBSET S |-> Fold(f, g, s)]
<1>1. iter = it
  BY DEF Fold
<1>2. it = [s \in SUBSET S |-> Fold(f, it, s)]
  BY FoldExists
<1>3. SumFunctionOnSet(f, S) = iter[S]
  BY DEF SumFunctionOnSet, FoldFunctionOnSet, MapThenFoldSet
<1> HIDE DEF iter, it
<1> QED
  BY <1>1, <1>2, <1>3

LEMMA SumEmpty ==
  ASSUME NEW f
  PROVE  SumFunctionOnSet(f, {}) = 0
<1>1. PICK g : /\ g = [s \in SUBSET {} |-> Fold(f, g, s)]
               /\ SumFunctionOnSet(f, {}) = g[{}]
  BY SumSolves, FS_EmptySet
<1>2. g[{}] = Fold(f, g, {})
  BY <1>1
<1> QED
  BY <1>1, <1>2 DEF Fold

LEMMA SumChosen ==
  ASSUME NEW S, IsFiniteSet(S), S # {}, NEW f
  PROVE  LET x == CHOOSE y \in S : TRUE IN
         SumFunctionOnSet(f, S) = f[x] + SumFunctionOnSet(f, S \ {x})
<1> DEFINE x == CHOOSE y \in S : TRUE
           T == S \ {x}
<1>1. PICK g : g = [s \in SUBSET S |-> Fold(f, g, s)] /\ SumFunctionOnSet(f, S) = g[S]
  BY SumSolves
<1>2. IsFiniteSet(T)
  BY FS_RemoveElement
<1>3. PICK h : h = [s \in SUBSET T |-> Fold(f, h, s)] /\ SumFunctionOnSet(f, T) = h[T]
  <2> HIDE DEF T
  <2> QED
    BY <1>2, SumSolves
<1>4. Solves(f, g, T)
  BY <1>1 DEF Solves
<1>5. Solves(f, h, T)
  <2> HIDE DEF T
  <2> QED
    BY <1>3 DEF Solves
<1>6. g[T] = h[T]
  <2> HIDE DEF T
  <2> QED
    BY <1>2, <1>4, <1>5, FoldUnique
<1>7. g[S] = f[x] + g[T]
  <2>1. g[S] = Fold(f, g, S)
    BY <1>1
  <2> QED
    BY <2>1 DEF Fold
<1> HIDE DEF x, T
<1>8. SumFunctionOnSet(f, S) = f[x] + SumFunctionOnSet(f, T)
  BY <1>1, <1>3, <1>6, <1>7
<1> QED
  BY <1>8 DEF x, T

(* A sum of integers is an integer, of naturals a natural.                 *)
LEMMA SumType ==
  ASSUME NEW S, IsFiniteSet(S), NEW f, \A x \in S : f[x] \in Int
  PROVE  SumFunctionOnSet(f, S) \in Int
<1> DEFINE Good == {n \in Nat : \A T \in SUBSET S : Cardinality(T) = n => SumFunctionOnSet(f, T) \in Int}
<1>1. 0 \in Good
  BY FS_EmptySet, FS_Subset, SumEmpty
<1>2. ASSUME NEW n \in Nat, n \in Good PROVE n + 1 \in Good
  <2> SUFFICES ASSUME NEW T \in SUBSET S, Cardinality(T) = n + 1
               PROVE  SumFunctionOnSet(f, T) \in Int
    BY <1>2
  <2>1. IsFiniteSet(T) /\ T # {}
    BY FS_Subset, FS_EmptySet
  <2> DEFINE x == CHOOSE y \in T : TRUE
  <2>2. x \in T
    BY <2>1
  <2>3. Cardinality(T \ {x}) = n
    <3>1. Cardinality(T \ {x}) = Cardinality(T) - 1
      BY <2>1, <2>2, FS_RemoveElement
    <3> QED
      BY <3>1
  <2>4. SumFunctionOnSet(f, T) = f[x] + SumFunctionOnSet(f, T \ {x})
    BY <2>1, SumChosen
  <2>5. SumFunctionOnSet(f, T \ {x}) \in Int
    BY <2>3, <1>2
  <2> HIDE DEF x
  <2> QED
    BY <2>2, <2>4, <2>5
<1>3. Cardinality(S) \in Good
  <2> HIDE DEF Good
  <2> QED
    BY <1>1, <1>2, NatSetInduction, FS_CardinalityType
<1> QED
  BY <1>3

(* Any element may be taken out first.                                     *)
LEMMA SumRemove ==
  ASSUME NEW S, IsFiniteSet(S), NEW f, \A x \in S : f[x] \in Int, NEW e \in S
  PROVE  SumFunctionOnSet(f, S) = f[e] + SumFunctionOnSet(f, S \ {e})
<1> DEFINE Takes(T) == \A x \in T : SumFunctionOnSet(f, T) = f[x] + SumFunctionOnSet(f, T \ {x})
           Good == {n \in Nat : \A T \in SUBSET S : Cardinality(T) = n => Takes(T)}
<1>1. 0 \in Good
  BY FS_EmptySet, FS_Subset
<1>2. ASSUME NEW n \in Nat, n \in Good PROVE n + 1 \in Good
  <2> SUFFICES ASSUME NEW T \in SUBSET S, Cardinality(T) = n + 1, NEW x \in T
               PROVE  SumFunctionOnSet(f, T) = f[x] + SumFunctionOnSet(f, T \ {x})
    BY <1>2
  <2>1. IsFiniteSet(T) /\ T # {}
    BY FS_Subset, FS_EmptySet
  <2> DEFINE c == CHOOSE y \in T : TRUE
  <2>2. c \in T
    BY <2>1
  <2>3. SumFunctionOnSet(f, T) = f[c] + SumFunctionOnSet(f, T \ {c})
    BY <2>1, SumChosen
  <2> HIDE DEF c
  <2>4. \A y \in T : Cardinality(T \ {y}) = n
    <3> SUFFICES ASSUME NEW y \in T PROVE Cardinality(T \ {y}) = n
      OBVIOUS
    <3>1. Cardinality(T \ {y}) = Cardinality(T) - 1
      BY <2>1, FS_RemoveElement
    <3> QED
      BY <3>1
  <2>5. CASE x = c
    BY <2>3, <2>5
  <2>6. CASE x # c
    <3>1. Takes(T \ {c}) /\ Takes(T \ {x})
      BY <2>4, <2>2, <1>2
    <3>2. /\ SumFunctionOnSet(f, T \ {c}) = f[x] + SumFunctionOnSet(f, (T \ {c}) \ {x})
          /\ SumFunctionOnSet(f, T \ {x}) = f[c] + SumFunctionOnSet(f, (T \ {x}) \ {c})
      BY <3>1, <2>2, <2>6
    <3>3. (T \ {c}) \ {x} = (T \ {x}) \ {c}
      OBVIOUS
    <3>4. SumFunctionOnSet(f, (T \ {x}) \ {c}) \in Int /\ f[x] \in Int /\ f[c] \in Int
      <4>1. (T \ {x}) \ {c} \subseteq S /\ IsFiniteSet((T \ {x}) \ {c})
        BY FS_Subset
      <4> QED
        BY <4>1, <2>2, SumType
    <3> DEFINE rest == SumFunctionOnSet(f, (T \ {x}) \ {c})
               u == SumFunctionOnSet(f, T \ {c})
               v == SumFunctionOnSet(f, T \ {x})
    <3>5. u = f[x] + rest /\ v = f[c] + rest /\ SumFunctionOnSet(f, T) = f[c] + u /\ rest \in Int
      BY <3>2, <3>3, <3>4, <2>3
    <3> HIDE DEF rest, u, v
    <3>6. SumFunctionOnSet(f, T) = f[x] + v
      BY <3>4, <3>5
    <3> QED
      BY <3>6 DEF v
  <2> QED
    BY <2>5, <2>6
<1>3. Cardinality(S) \in Good
  <2> HIDE DEF Good
  <2> QED
    BY <1>1, <1>2, NatSetInduction, FS_CardinalityType
<1> QED
  BY <1>3

LEMMA SumAdd ==
  ASSUME NEW S, IsFiniteSet(S), NEW e, e \notin S, NEW f, \A x \in S \cup {e} : f[x] \in Int
  PROVE  SumFunctionOnSet(f, S \cup {e}) = f[e] + SumFunctionOnSet(f, S)
<1>1. IsFiniteSet(S \cup {e}) /\ e \in S \cup {e} /\ (S \cup {e}) \ {e} = S
  BY FS_AddElement
<1> QED
  BY <1>1, SumRemove

-----------------------------------------------------------------------------
(* Sums of functions that are related value by value.                      *)
LEMMA SumSame ==
  ASSUME NEW S, IsFiniteSet(S), NEW f, NEW g, \A x \in S : f[x] \in Int /\ g[x] = f[x]
  PROVE  SumFunctionOnSet(g, S) = SumFunctionOnSet(f, S)
<1> DEFINE Good == {T \in SUBSET S : SumFunctionOnSet(g, T) = SumFunctionOnSet(f, T)}
<1>1. {} \in Good
  BY SumEmpty
<1>2. ASSUME NEW T \in SUBSET S, NEW x \in S \ T, T \in Good PROVE T \cup {x} \in Good
  <2>1. IsFiniteSet(T)
    BY FS_Subset
  <2>2. SumFunctionOnSet(f, T \cup {x}) = f[x] + SumFunctionOnSet(f, T)
    BY <2>1, SumAdd
  <2>3. SumFunctionOnSet(g, T \cup {x}) = g[x] + SumFunctionOnSet(g, T)
    BY <2>1, SumAdd
  <2> QED
    BY <1>2, <2>2, <2>3
<1> HIDE DEF Good
<1>3. S \in Good
  BY <1>1, <1>2, FiniteInduction
<1> QED
  BY <1>3 DEF Good

LEMMA SumMono ==
  ASSUME NEW S, IsFiniteSet(S), NEW f, NEW g,
         \A x \in S : f[x] \in Int /\ g[x] \in Int /\ f[x] <= g[x]
  PROVE  SumFunctionOnSet(f, S) <= SumFunctionOnSet(g, S)
<1> DEFINE Good == {T \in SUBSET S : SumFunctionOnSet(f, T) <= SumFunctionOnSet(g, T)}
<1>1. {} \in Good
  BY SumEmpty
<1>2. ASSUME NEW T \in SUBSET S, NEW x \in S \ T, T \in Good PROVE T \cup {x} \in Good
  <2> DEFINE u == SumFunctionOnSet(f, T)
             v == SumFunctionOnSet(g, T)
  <2>1. IsFiniteSet(T)
    BY FS_Subset
  <2>2. SumFunctionOnSet(f, T \cup {x}) = f[x] + u /\ u \in Int
    BY <2>1, SumAdd, SumType
  <2>3. SumFunctionOnSet(g, T \cup {x}) = g[x] + v /\ v \in Int
    BY <2>1, SumAdd, SumType
  <2>4. u <= v /\ f[x] \in Int /\ g[x] \in Int /\ f[x] <= g[x]
    BY <1>2
  <2> HIDE DEF u, v
  <2>5. f[x] + u <= g[x] + v
    BY <2>2, <2>3, <2>4
  <2> QED
    BY <2>2, <2>3, <2>5
<1> HIDE DEF Good
<1>3. S \in Good
  BY <1>1, <1>2, FiniteInduction
<1> QED
  BY <1>3 DEF Good

LEMMA SumPlus ==
  ASSUME NEW S, IsFiniteSet(S), NEW f, NEW g, NEW h,
         \A x \in S : f[x] \in Int /\ g[x] \in Int /\ h[x] = f[x] + g[x]
  PROVE  SumFunctionOnSet(h, S) = SumFunctionOnSet(f, S) + SumFunctionOnSet(g, S)
<1> DEFINE Good == {T \in SUBSET S : SumFunctionOnSet(h, T)
                                       = SumFunctionOnSet(f, T) + SumFunctionOnSet(g, T)}
<1>1. {} \in Good
  BY SumEmpty
<1>2. ASSUME NEW T \in SUBSET S, NEW x \in S \ T, T \in Good PROVE T \cup {x} \in Good
  <2> DEFINE u == SumFunctionOnSet(f, T)
             v == SumFunctionOnSet(g, T)
             w == SumFunctionOnSet(h, T)
  <2>1. IsFiniteSet(T)
    BY FS_Subset
  <2>2. SumFunctionOnSet(f, T \cup {x}) = f[x] + u /\ u \in Int
    BY <2>1, SumAdd, SumType
  <2>3. SumFunctionOnSet(g, T \cup {x}) = g[x] + v /\ v \in Int
    BY <2>1, SumAdd, SumType
  <2>4. SumFunctionOnSet(h, T \cup {x}) = h[x] + w /\ w \in Int
    <3>1. \A y \in S : h[y] \in Int
      OBVIOUS
    <3> QED
      BY <2>1, <3>1, SumAdd, SumType
  <2>5. w = u + v /\ f[x] \in Int /\ g[x] \in Int /\ h[x] = f[x] + g[x]
    BY <1>2
  <2> HIDE DEF u, v, w
  <2>6. h[x] + w = (f[x] + u) + (g[x] + v)
    BY <2>2, <2>3, <2>5
  <2> QED
    BY <2>2, <2>3, <2>4, <2>6
<1> HIDE DEF Good
<1>3. S \in Good
  BY <1>1, <1>2, FiniteInduction
<1> QED
  BY <1>3 DEF Good

LEMMA SumTimes ==
  ASSUME NEW S, IsFiniteSet(S), NEW f, NEW h, NEW c \in Int,
         \A x \in S : f[x] \in Int /\ h[x] = c * f[x]
  PROVE  SumFunctionOnSet(h, S) = c * SumFunctionOnSet(f, S)
<1> DEFINE Good == {T \in SUBSET S : SumFunctionOnSet(h, T) = c * SumFunctionOnSet(f, T)}
<1>1. {} \in Good
  BY SumEmpty
<1>2. ASSUME NEW T \in SUBSET S, NEW x \in S \ T, T \in Good PROVE T \cup {x} \in Good
  <2> DEFINE u == SumFunctionOnSet(f, T)
             w == SumFunctionOnSet(h, T)
  <2>1. IsFiniteSet(T)
    BY FS_Subset
  <2>2. SumFunctionOnSet(f, T \cup {x}) = f[x] + u /\ u \in Int
    BY <2>1, SumAdd, SumType
  <2>3. SumFunctionOnSet(h, T \cup {x}) = h[x] + w
    <3>1. \A y \in S : h[y] \in Int
      OBVIOUS
    <3> QED
      BY <2>1, <3>1, SumAdd, SumType
  <2>4. w = c * u /\ f[x] \in Int /\ h[x] = c * f[x]
    BY <1>2
  <2> HIDE DEF u, w
  <2>5. h[x] + w = c * (f[x] + u)
    BY <2>2, <2>4
  <2> QED
    BY <2>2, <2>3, <2>5
<1> HIDE DEF Good
<1>3. S \in Good
  BY <1>1, <1>2, FiniteInduction
<1> QED
  BY <1>3 DEF Good

LEMMA SumZero ==
  ASSUME NEW S, IsFiniteSet(S), NEW f, \A x \in S : f[x] = 0
  PROVE  SumFunctionOnSet(f, S) = 0
<1> DEFINE Good == {T \in SUBSET S : SumFunctionOnSet(f, T) = 0}
<1>1. {} \in Good
  BY SumEmpty
<1>2. ASSUME NEW T \in SUBSET S, NEW x \in S \ T, T \in Good PROVE T \cup {x} \in Good
  <2>1. IsFiniteSet(T)
    BY FS_Subset
  <2>2. \A y \in S : f[y] \in Int
    OBVIOUS
  <2>3. SumFunctionOnSet(f, T \cup {x}) = f[x] + SumFunctionOnSet(f, T)
    BY <2>1, <2>2, SumAdd
  <2> QED
    BY <1>2, <2>3
<1> HIDE DEF Good
<1>3. S \in Good
  BY <1>1, <1>2, FiniteInduction
<1> QED
  BY <1>3 DEF Good

LEMMA SumNat ==
  ASSUME NEW S, IsFiniteSet(S), NEW f, \A x \in S : f[x] \in Nat
  PROVE  SumFunctionOnSet(f, S) \in Nat
<1> DEFINE z == [x \in S |-> 0]
<1>1. SumFunctionOnSet(z, S) = 0
  BY SumZero
<1>2. \A x \in S : z[x] \in Int /\ f[x] \in Int /\ z[x] <= f[x]
  OBVIOUS
<1> HIDE DEF z
<1>3. SumFunctionOnSet(z, S) <= SumFunctionOnSet(f, S) /\ SumFunctionOnSet(f, S) \in Int
  BY <1>2, SumMono, SumType
<1> QED
  BY <1>1, <1>3

(* A sum with one value that is not zero; a value is at most the sum; the  *)
(* sum over a part is at most the sum over the whole.                      *)
LEMMA SumOnly ==
  ASSUME NEW S, IsFiniteSet(S), NEW e \in S, NEW f, f[e] \in Int, \A x \in S \ {e} : f[x] = 0
  PROVE  SumFunctionOnSet(f, S) = f[e]
<1>1. SumFunctionOnSet(f, S) = f[e] + SumFunctionOnSet(f, S \ {e})
  BY SumRemove
<1>2. SumFunctionOnSet(f, S \ {e}) = 0
  BY FS_RemoveElement, SumZero
<1> QED
  BY <1>1, <1>2

LEMMA SumSingleton ==
  ASSUME NEW e, NEW f, f[e] \in Int
  PROVE  SumFunctionOnSet(f, {e}) = f[e]
BY FS_Singleton, SumOnly

LEMMA SumBounds ==
  ASSUME NEW S, IsFiniteSet(S), NEW f, \A x \in S : f[x] \in Nat, NEW e \in S
  PROVE  f[e] <= SumFunctionOnSet(f, S)
<1>1. SumFunctionOnSet(f, S) = f[e] + SumFunctionOnSet(f, S \ {e})
  BY SumRemove
<1>2. SumFunctionOnSet(f, S \ {e}) \in Nat
  BY FS_RemoveElement, SumNat
<1> QED
  BY <1>1, <1>2

LEMMA SumPart ==
  ASSUME NEW S, IsFiniteSet(S), NEW f, \A x \in S : f[x] \in Nat, NEW T \in SUBSET S
  PROVE  SumFunctionOnSet(f, T) <= SumFunctionOnSet(f, S)
<1> DEFINE Good == {U \in SUBSET (S \ T) : SumFunctionOnSet(f, T) <= SumFunctionOnSet(f, T \cup U)}
<1>1. IsFiniteSet(T) /\ IsFiniteSet(S \ T) /\ SumFunctionOnSet(f, T) \in Int
  BY FS_Subset, SumType
<1>2. {} \in Good
  <2>1. T \cup {} = T
    OBVIOUS
  <2> QED
    BY <1>1, <2>1
<1>3. ASSUME NEW U \in SUBSET (S \ T), NEW x \in (S \ T) \ U, U \in Good PROVE U \cup {x} \in Good
  <2>1. IsFiniteSet(T \cup U) /\ x \notin T \cup U /\ T \cup (U \cup {x}) = (T \cup U) \cup {x}
    BY FS_Subset
  <2>2. SumFunctionOnSet(f, (T \cup U) \cup {x}) = f[x] + SumFunctionOnSet(f, T \cup U)
    <3>1. \A y \in (T \cup U) \cup {x} : f[y] \in Int
      OBVIOUS
    <3> QED
      BY <2>1, <3>1, SumAdd
  <2>3. SumFunctionOnSet(f, T \cup U) \in Int /\ f[x] \in Nat
    BY <2>1, SumType
  <2>4. SumFunctionOnSet(f, T) <= SumFunctionOnSet(f, T \cup U)
    BY <1>3
  <2> QED
    BY <1>1, <2>1, <2>2, <2>3, <2>4
<1> HIDE DEF Good
<1>4. S \ T \in Good
  BY <1>1, <1>2, <1>3, FiniteInduction
<1>5. T \cup (S \ T) = S
  OBVIOUS
<1> QED
  BY <1>4, <1>5 DEF Good

(* Where a function is zero it adds nothing.                               *)
LEMMA SumSupport ==
  ASSUME NEW S, IsFiniteSet(S), NEW T \in SUBSET S, NEW f, NEW g,
         \A x \in T : f[x] \in Int /\ g[x] = f[x], \A x \in S \ T : g[x] = 0
  PROVE  SumFunctionOnSet(g, S) = SumFunctionOnSet(f, T)
<1> DEFINE Good == {U \in SUBSET (S \ T) : SumFunctionOnSet(g, T \cup U) = SumFunctionOnSet(f, T)}
<1>1. IsFiniteSet(T) /\ IsFiniteSet(S \ T)
  BY FS_Subset
<1>2. {} \in Good
  <2>1. T \cup {} = T
    OBVIOUS
  <2>2. SumFunctionOnSet(g, T) = SumFunctionOnSet(f, T)
    BY <1>1, SumSame
  <2> QED
    BY <2>1, <2>2
<1>3. ASSUME NEW U \in SUBSET (S \ T), NEW x \in (S \ T) \ U, U \in Good PROVE U \cup {x} \in Good
  <2>1. IsFiniteSet(T \cup U) /\ x \notin T \cup U /\ T \cup (U \cup {x}) = (T \cup U) \cup {x}
    BY FS_Subset
  <2>2. SumFunctionOnSet(g, (T \cup U) \cup {x}) = g[x] + SumFunctionOnSet(g, T \cup U)
    <3>1. \A y \in (T \cup U) \cup {x} : g[y] \in Int
      OBVIOUS
    <3> QED
      BY <2>1, <3>1, SumAdd
  <2>3. SumFunctionOnSet(g, T \cup U) = SumFunctionOnSet(f, T) /\ SumFunctionOnSet(f, T) \in Int /\ g[x] = 0
    BY <1>1, <1>3, SumType
  <2> QED
    BY <2>1, <2>2, <2>3
<1>4. S \ T \in Good
  <2> HIDE DEF Good
  <2> QED
    BY <1>1, <1>2, <1>3, FiniteInduction
<1>5. T \cup (S \ T) = S
  OBVIOUS
<1> QED
  BY <1>4, <1>5

(* The sum of a table a, by rows or by columns; b is a by columns.         *)
Transposed(a, b, S, T) == \A x \in S : \A y \in T : a[x][y] \in Int /\ b[y][x] = a[x][y]

LEMMA SumSwap ==
  ASSUME NEW S, IsFiniteSet(S), NEW T, IsFiniteSet(T), NEW a, NEW b, Transposed(a, b, S, T),
         NEW rows, \A x \in S : rows[x] = SumFunctionOnSet(a[x], T),
         NEW columns, \A y \in T : columns[y] = SumFunctionOnSet(b[y], S)
  PROVE  SumFunctionOnSet(rows, S) = SumFunctionOnSet(columns, T)
<1> USE DEF Transposed
<1> DEFINE col(U) == [y \in T |-> SumFunctionOnSet(b[y], U)]
           Good == {U \in SUBSET S : SumFunctionOnSet(rows, U) = SumFunctionOnSet(col(U), T)}
<1>0. ASSUME NEW U \in SUBSET S PROVE /\ IsFiniteSet(U)
                                      /\ \A x \in U : rows[x] \in Int
                                      /\ \A y \in T : col(U)[y] = SumFunctionOnSet(b[y], U)
                                                      /\ col(U)[y] \in Int
  <2>1. IsFiniteSet(U)
    BY FS_Subset
  <2>2. ASSUME NEW x \in S PROVE rows[x] \in Int
    BY SumType
  <2>3. ASSUME NEW y \in T PROVE SumFunctionOnSet(b[y], U) \in Int
    <3>1. \A x \in U : b[y][x] \in Int
      OBVIOUS
    <3> QED
      BY <2>1, <3>1, SumType
  <2> QED
    BY <2>1, <2>2, <2>3
<1> HIDE DEF col
<1>1. {} \in Good
  <2>1. \A y \in T : col({})[y] = 0
    BY <1>0, SumEmpty
  <2>2. SumFunctionOnSet(col({}), T) = 0
    BY <2>1, SumZero
  <2> QED
    BY <2>2, SumEmpty
<1>2. ASSUME NEW U \in SUBSET S, NEW x \in S \ U, U \in Good PROVE U \cup {x} \in Good
  <2> DEFINE W == U \cup {x}
  <2>1. W \in SUBSET S /\ x \in W
    OBVIOUS
  <2>2. IsFiniteSet(U) /\ (\A y \in W : rows[y] \in Int)
    BY <2>1, <1>0
  <2>3. SumFunctionOnSet(rows, W) = rows[x] + SumFunctionOnSet(rows, U)
    BY <2>2, SumAdd
  <2>4. ASSUME NEW y \in T PROVE col(W)[y] = a[x][y] + col(U)[y] /\ col(U)[y] \in Int /\ a[x][y] \in Int
    <3>1. \A z \in W : b[y][z] \in Int
      BY <2>1
    <3>2. SumFunctionOnSet(b[y], W) = b[y][x] + SumFunctionOnSet(b[y], U)
      BY <2>2, <3>1, SumAdd
    <3>3. col(W)[y] = SumFunctionOnSet(b[y], W) /\ col(U)[y] = SumFunctionOnSet(b[y], U) /\ col(U)[y] \in Int
      BY <1>0, <2>1
    <3> QED
      BY <3>2, <3>3
  <2>5. SumFunctionOnSet(col(W), T) = SumFunctionOnSet(a[x], T) + SumFunctionOnSet(col(U), T)
    <3> HIDE DEF W
    <3> QED
      BY <2>4, SumPlus
  <2>6. SumFunctionOnSet(rows, U) = SumFunctionOnSet(col(U), T) /\ rows[x] = SumFunctionOnSet(a[x], T)
    BY <1>2
  <2>7. SumFunctionOnSet(rows, W) = SumFunctionOnSet(col(W), T)
    BY <2>3, <2>5, <2>6
  <2> QED
    BY <2>1, <2>7
<1>3. S \in Good
  <2> HIDE DEF Good
  <2> QED
    BY <1>1, <1>2, FiniteInduction
<1>4. \A y \in T : col(S)[y] = columns[y] /\ columns[y] \in Int
  BY <1>0
<1>5. SumFunctionOnSet(col(S), T) = SumFunctionOnSet(columns, T)
  BY <1>4, SumSame
<1> QED
  BY <1>3, <1>5

(* A sum grouped: each element of S belongs to one group of T.             *)
Members(S, group, y) == {x \in S : group[x] = y}

LEMMA SumGrouped ==
  ASSUME NEW S, IsFiniteSet(S), NEW T, IsFiniteSet(T), NEW group \in [S -> T],
         NEW f, \A x \in S : f[x] \in Int,
         NEW parts, \A y \in T : parts[y] = SumFunctionOnSet(f, Members(S, group, y))
  PROVE  SumFunctionOnSet(f, S) = SumFunctionOnSet(parts, T)
<1> DEFINE Of(U, y) == Members(U, group, y)
           col(U) == [y \in T |-> SumFunctionOnSet(f, Of(U, y))]
           Good == {U \in SUBSET S : SumFunctionOnSet(f, U) = SumFunctionOnSet(col(U), T)}
<1>0. ASSUME NEW U \in SUBSET S, NEW y \in T
      PROVE  col(U)[y] = SumFunctionOnSet(f, Of(U, y)) /\ col(U)[y] \in Int /\ IsFiniteSet(Of(U, y))
  <2>1. IsFiniteSet(Of(U, y)) /\ \A x \in Of(U, y) : f[x] \in Int
    BY FS_Subset DEF Members
  <2> HIDE DEF Of
  <2> QED
    BY <2>1, SumType
<1> HIDE DEF col
<1>1. {} \in Good
  <2>1. \A y \in T : Of({}, y) = {}
    BY DEF Members
  <2>2. ASSUME NEW y \in T PROVE col({})[y] = 0
    <3>1. col({})[y] = SumFunctionOnSet(f, Of({}, y))
      BY <1>0
    <3>2. Of({}, y) = {}
      BY <2>1
    <3> HIDE DEF Of
    <3> QED
      BY <3>1, <3>2, SumEmpty
  <2>3. SumFunctionOnSet(col({}), T) = 0
    BY <2>2, SumZero
  <2> QED
    BY <2>3, SumEmpty
<1>2. ASSUME NEW U \in SUBSET S, NEW x \in S \ U, U \in Good PROVE U \cup {x} \in Good
  <2> DEFINE W == U \cup {x}
             one == [y \in T |-> IF y = group[x] THEN f[x] ELSE 0]
  <2>1. W \in SUBSET S /\ x \in W /\ IsFiniteSet(U) /\ \A y \in W : f[y] \in Int
    BY FS_Subset
  <2>2. SumFunctionOnSet(f, W) = f[x] + SumFunctionOnSet(f, U)
    BY <2>1, SumAdd
  <2>3. ASSUME NEW y \in T PROVE one[y] \in Int /\ col(U)[y] \in Int /\ col(W)[y] = one[y] + col(U)[y]
    <3>1. CASE y = group[x]
      <4>1. Of(W, y) = Of(U, y) \cup {x} /\ x \notin Of(U, y) /\ \A z \in Of(U, y) \cup {x} : f[z] \in Int
        BY <3>1 DEF Members
      <4>2. SumFunctionOnSet(f, Of(W, y)) = f[x] + SumFunctionOnSet(f, Of(U, y))
        <5> DEFINE G == Of(U, y)
        <5>1. IsFiniteSet(G)
          BY <1>0
        <5>2. x \notin G /\ \A z \in G \cup {x} : f[z] \in Int
          BY <4>1
        <5>3. SumFunctionOnSet(f, G \cup {x}) = f[x] + SumFunctionOnSet(f, G)
          <6> HIDE DEF G
          <6> QED
            BY <5>1, <5>2, SumAdd
        <5> QED
          BY <4>1, <5>3
      <4> QED
        BY <3>1, <4>2, <1>0, <2>1
    <3>2. CASE y # group[x]
      <4>1. Of(W, y) = Of(U, y)
        BY <3>2 DEF Members
      <4>2. SumFunctionOnSet(f, Of(W, y)) = SumFunctionOnSet(f, Of(U, y))
        <5> HIDE DEF Of, W
        <5> QED
          BY <4>1
      <4>3. /\ col(W)[y] = SumFunctionOnSet(f, Of(W, y))
            /\ col(U)[y] = SumFunctionOnSet(f, Of(U, y)) /\ col(U)[y] \in Int
        BY <1>0, <2>1
      <4>4. one[y] = 0
        BY <3>2
      <4> HIDE DEF Of, W, one
      <4> QED
        BY <4>2, <4>3, <4>4
    <3> QED
      BY <3>1, <3>2
  <2>4. SumFunctionOnSet(one, T) = f[x]
    <3>1. group[x] \in T /\ one[group[x]] = f[x] /\ f[x] \in Int /\ \A y \in T \ {group[x]} : one[y] = 0
      OBVIOUS
    <3> HIDE DEF one
    <3> QED
      BY <3>1, SumOnly
  <2>5. SumFunctionOnSet(col(W), T) = SumFunctionOnSet(one, T) + SumFunctionOnSet(col(U), T)
    <3> HIDE DEF W, one
    <3> QED
      BY <2>3, SumPlus
  <2>6. SumFunctionOnSet(f, U) = SumFunctionOnSet(col(U), T)
    BY <1>2
  <2>7. SumFunctionOnSet(f, W) = SumFunctionOnSet(col(W), T)
    BY <2>2, <2>4, <2>5, <2>6
  <2> QED
    BY <2>1, <2>7
<1>3. S \in Good
  <2> HIDE DEF Good
  <2> QED
    BY <1>1, <1>2, FiniteInduction
<1>4. \A y \in T : col(S)[y] = parts[y] /\ parts[y] \in Int
  BY <1>0
<1>5. SumFunctionOnSet(col(S), T) = SumFunctionOnSet(parts, T)
  BY <1>4, SumSame
<1> QED
  BY <1>3, <1>5

=============================================================================
