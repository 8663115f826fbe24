------------------------------ MODULE SetSums ------------------------------
(***************************************************************************)
(* Facts about SumFunctionOnSet, the sum of a function over a finite set.  *)
(* Induction is used in the form of membership in a set: the set of what   *)
(* the claim holds of has 0, or {}, and is closed under one step.          *)
(***************************************************************************)
EXTENDS Integers, FiniteSets, Functions, FiniteSetTheorems, WellFoundedInduction, TLAPS

-----------------------------------------------------------------------------
(* Induction *)

(* A set of numbers that is not empty has a least one. *)
LEMMA LeastNumber ==
  ASSUME NEW T \in SUBSET Nat, T # {}
  PROVE  \E m \in T : \A n \in T : m <= n
<1>1. PICK m \in T : \A n \in T : <<n, m>> \notin OpToRel(<, Nat)
  BY WFMin, NatLessThanWellFounded
<1>2. \A n \in T : ~(n < m)
  BY <1>1 DEF OpToRel
<1> QED
  BY <1>2

(* A set that has 0, and the successor of each of its numbers, has all.    *)
LEMMA AllNumbers ==
  ASSUME NEW S, 0 \in S, \A n \in Nat : n \in S => n + 1 \in S
  PROVE  \A n \in Nat : n \in S
<1> SUFFICES ASSUME Nat \ S # {} PROVE FALSE
  OBVIOUS
<1>1. PICK m \in Nat \ S : \A n \in Nat \ S : m <= n
  BY LeastNumber
<1>2. m # 0 /\ m - 1 \in Nat /\ m - 1 \in S
  BY <1>1
<1> QED
  BY <1>1, <1>2

(* What holds of the empty set, and of a set when it holds of those with   *)
(* one element less, holds of every finite set.                            *)
LEMMA AllSubsets ==
  ASSUME NEW S, IsFiniteSet(S), NEW P, {} \in P,
         \A T \in SUBSET S : T # {} /\ (\A x \in T : T \ {x} \in P) => T \in P
  PROVE  \A T \in SUBSET S : T \in P
<1> DEFINE N == {n \in Nat : \A T \in SUBSET S : Cardinality(T) = n => T \in P}
<1>0. \A T \in SUBSET S : IsFiniteSet(T) /\ Cardinality(T) \in Nat
  BY FS_Subset, FS_CardinalityType
<1>1. 0 \in N
  BY <1>0, FS_EmptySet
<1>2. ASSUME NEW n \in Nat, n \in N PROVE n + 1 \in N
  <2> SUFFICES ASSUME NEW T \in SUBSET S, Cardinality(T) = n + 1 PROVE T \in P
    OBVIOUS
  <2>1. T # {}
    <3>1. Cardinality({}) = 0 /\ n + 1 # 0
      BY FS_EmptySet
    <3> QED
      BY <3>1
  <2>2. ASSUME NEW x \in T PROVE T \ {x} \in P
    <3>1. T \ {x} \in SUBSET S /\ Cardinality(T \ {x}) = n
      BY <1>0, FS_RemoveElement
    <3> QED
      BY <1>2, <3>1
  <2> QED
    BY <2>1, <2>2
<1>3. \A n \in Nat : n \in N
  <2> HIDE DEF N
  <2> QED
    BY <1>1, <1>2, AllNumbers
<1> QED
  BY <1>0, <1>3

(* A function has finitely many values on a finite set. *)
LEMMA ValuesAreFinite ==
  ASSUME NEW S, IsFiniteSet(S), NEW f
  PROVE  IsFiniteSet({f[x] : x \in S})
<1> DEFINE T == {f[x] : x \in S}
           g == [x \in S |-> f[x]]
<1>1. g \in Surjection(S, T)
  BY DEF Surjection
<1> HIDE DEF g, T
<1> QED
  BY <1>1, FS_Surjection DEF T

-----------------------------------------------------------------------------
(* The recursion behind a sum *)

Any(s) == CHOOSE x \in s : TRUE

(* g adds f up over every set of D. *)
AddsUp(f, D, g) ==
  g = [s \in D |-> IF s = {} THEN 0 ELSE f[Any(s)] + g[s \ {Any(s)}]]

LEMMA AnyIsOne == \A s : s # {} => Any(s) \in s
BY DEF Any

(* Such a g exists, built up by the size of the sets. *)
LEMMA SumExists ==
  ASSUME NEW S, IsFiniteSet(S), NEW f
  PROVE  \E g : AddsUp(f, SUBSET S, g)
<1> DEFINE D(n) == {s \in SUBSET S : Cardinality(s) <= n}
           N == {n \in Nat : \E g : AddsUp(f, D(n), g)}
<1>0. \A T \in SUBSET S : IsFiniteSet(T) /\ Cardinality(T) \in Nat
  BY FS_Subset, FS_CardinalityType
<1>1. 0 \in N
  <2> DEFINE g == [s \in D(0) |-> 0]
  <2>1. \A s \in D(0) : s = {}
    BY <1>0, FS_EmptySet
  <2>2. g = [s \in D(0) |-> IF s = {} THEN 0 ELSE f[Any(s)] + g[s \ {Any(s)}]]
    BY <2>1
  <2> QED
    BY <2>2 DEF AddsUp
<1>2. ASSUME NEW n \in Nat, n \in N PROVE n + 1 \in N
  <2>1. PICK g : AddsUp(f, D(n), g)
    BY <1>2
  <2> DEFINE h == [s \in D(n + 1) |-> IF s = {} THEN 0 ELSE f[Any(s)] + g[s \ {Any(s)}]]
  <2>2. ASSUME NEW s \in D(n + 1), s # {}
        PROVE  s \ {Any(s)} \in D(n) /\ s \ {Any(s)} \in D(n + 1)
    <3>1. s \ {Any(s)} \in SUBSET S /\ Cardinality(s \ {Any(s)}) = Cardinality(s) - 1
      BY <1>0, <2>2, AnyIsOne, FS_RemoveElement
    <3> QED
      BY <1>0, <3>1
  <2>3. \A s \in D(n) : h[s] = g[s]
    <3>1. \A s \in D(n) : s \in D(n + 1)
      BY <1>0
    <3>2. \A s \in D(n) : g[s] = IF s = {} THEN 0 ELSE f[Any(s)] + g[s \ {Any(s)}]
      BY <2>1 DEF AddsUp
    <3> QED
      BY <3>1, <3>2
  <2>4. \A s \in D(n + 1) : h[s] = IF s = {} THEN 0 ELSE f[Any(s)] + h[s \ {Any(s)}]
    BY <2>2, <2>3
  <2>5. AddsUp(f, D(n + 1), h)
    BY <2>4 DEF AddsUp
  <2>6. \E e : AddsUp(f, D(n + 1), e)
    <3> HIDE DEF h, D
    <3> QED
      BY <2>5
  <2>7. n + 1 \in Nat
    OBVIOUS
  <2> HIDE DEF h, D
  <2> QED
    BY <2>6, <2>7
<1>3. \A n \in Nat : n \in N
  <2> HIDE DEF N
  <2> QED
    BY <1>1, <1>2, AllNumbers
<1>4. D(Cardinality(S)) = SUBSET S
  BY <1>0, FS_Subset
<1> QED
  BY <1>0, <1>3, <1>4

(* It is the only one, on smaller sets and for functions that agree there. *)
LEMMA SumUnique ==
  ASSUME NEW S, IsFiniteSet(S), NEW T \in SUBSET S, NEW f, NEW g, NEW e, NEW h,
         AddsUp(f, SUBSET S, g), AddsUp(e, SUBSET T, h), \A x \in T : f[x] = e[x]
  PROVE  \A s \in SUBSET T : g[s] = h[s]
<1> DEFINE P == {s \in SUBSET T : g[s] = h[s]}
<1>1. {} \in P
  BY DEF AddsUp
<1>2. ASSUME NEW s \in SUBSET T, s # {}, \A x \in s : s \ {x} \in P PROVE s \in P
  <2>1. Any(s) \in s /\ s \ {Any(s)} \in P
    BY <1>2, AnyIsOne
  <2>2. g[s] = f[Any(s)] + g[s \ {Any(s)}] /\ h[s] = e[Any(s)] + h[s \ {Any(s)}]
    BY <1>2 DEF AddsUp
  <2> QED
    BY <2>1, <2>2
<1>3. IsFiniteSet(T)
  BY FS_Subset
<1> HIDE DEF P
<1>4. \A s \in SUBSET T : s \in P
  BY <1>1, <1>2, <1>3, AllSubsets
<1> QED
  BY <1>4 DEF P

(* The sum is what it computes. *)
LEMMA SumIsAdded ==
  ASSUME NEW S, IsFiniteSet(S), NEW f
  PROVE  \E g : AddsUp(f, SUBSET S, g) /\ SumFunctionOnSet(f, S) = g[S]
<1> DEFINE it == CHOOSE g : AddsUp(f, SUBSET S, g)
<1>1. AddsUp(f, SUBSET S, it)
  BY SumExists, Zenon
<1>2. SumFunctionOnSet(f, S) = it[S]
  BY Zenon DEF SumFunctionOnSet, FoldFunctionOnSet, MapThenFoldSet, AddsUp, Any
<1> QED
  BY <1>1, <1>2

LEMMA SumOfSubset ==
  ASSUME NEW S, IsFiniteSet(S), NEW f, NEW g, AddsUp(f, SUBSET S, g), NEW T \in SUBSET S
  PROVE  SumFunctionOnSet(f, T) = g[T]
<1>1. IsFiniteSet(T)
  BY FS_Subset
<1>2. PICK h : AddsUp(f, SUBSET T, h) /\ SumFunctionOnSet(f, T) = h[T]
  BY <1>1, SumIsAdded
<1> QED
  BY <1>2, SumUnique

-----------------------------------------------------------------------------
(* What a sum is *)

LEMMA SumOfNothing == ASSUME NEW f PROVE SumFunctionOnSet(f, {}) = 0
<1>1. PICK g : AddsUp(f, SUBSET {}, g) /\ SumFunctionOnSet(f, {}) = g[{}]
  BY FS_EmptySet, SumIsAdded
<1> QED
  BY <1>1 DEF AddsUp

LEMMA SumOfAny ==
  ASSUME NEW S, IsFiniteSet(S), S # {}, NEW f
  PROVE  SumFunctionOnSet(f, S) = f[Any(S)] + SumFunctionOnSet(f, S \ {Any(S)})
<1>1. PICK g : AddsUp(f, SUBSET S, g) /\ SumFunctionOnSet(f, S) = g[S]
  BY SumIsAdded
<1>2. g[S] = f[Any(S)] + g[S \ {Any(S)}]
  BY <1>1 DEF AddsUp
<1>3. SumFunctionOnSet(f, S \ {Any(S)}) = g[S \ {Any(S)}]
  BY <1>1, SumOfSubset
<1> QED
  BY <1>1, <1>2, <1>3

(* Functions that agree on a set have the same sum over it. *)
LEMMA SumOfSame ==
  ASSUME NEW S, IsFiniteSet(S), NEW f, NEW e, \A x \in S : f[x] = e[x]
  PROVE  SumFunctionOnSet(f, S) = SumFunctionOnSet(e, S)
<1>1. PICK g : AddsUp(f, SUBSET S, g) /\ SumFunctionOnSet(f, S) = g[S]
  BY SumIsAdded
<1>2. PICK h : AddsUp(e, SUBSET S, h) /\ SumFunctionOnSet(e, S) = h[S]
  BY SumIsAdded
<1> QED
  BY <1>1, <1>2, SumUnique

(* Integers add up to an integer, numbers to a number. *)
LEMMA SumIsInt ==
  ASSUME NEW S, IsFiniteSet(S), NEW f, \A x \in S : f[x] \in Int
  PROVE  SumFunctionOnSet(f, S) \in Int
<1> DEFINE P == {s \in SUBSET S : SumFunctionOnSet(f, s) \in Int}
<1>1. {} \in P
  BY SumOfNothing
<1>2. ASSUME NEW s \in SUBSET S, s # {}, \A x \in s : s \ {x} \in P PROVE s \in P
  <2>1. IsFiniteSet(s) /\ Any(s) \in s /\ SumFunctionOnSet(f, s \ {Any(s)}) \in Int
    BY <1>2, AnyIsOne, FS_Subset
  <2>2. SumFunctionOnSet(f, s) = f[Any(s)] + SumFunctionOnSet(f, s \ {Any(s)}) /\ f[Any(s)] \in Int
    BY <1>2, <2>1, SumOfAny
  <2> QED
    BY <2>1, <2>2
<1> HIDE DEF P
<1>3. \A s \in SUBSET S : s \in P
  BY <1>1, <1>2, AllSubsets
<1> QED
  BY <1>3 DEF P

LEMMA SumIsNat ==
  ASSUME NEW S, IsFiniteSet(S), NEW f, \A x \in S : f[x] \in Nat
  PROVE  SumFunctionOnSet(f, S) \in Nat
<1> DEFINE P == {s \in SUBSET S : SumFunctionOnSet(f, s) \in Nat}
<1>1. {} \in P
  BY SumOfNothing
<1>2. ASSUME NEW s \in SUBSET S, s # {}, \A x \in s : s \ {x} \in P PROVE s \in P
  <2>1. IsFiniteSet(s) /\ Any(s) \in s /\ SumFunctionOnSet(f, s \ {Any(s)}) \in Nat
    BY <1>2, AnyIsOne, FS_Subset
  <2> QED
    BY <1>2, <2>1, SumOfAny
<1> HIDE DEF P
<1>3. \A s \in SUBSET S : s \in P
  BY <1>1, <1>2, AllSubsets
<1> QED
  BY <1>3 DEF P

(* Any element may be taken out first. *)
LEMMA SumOfOne ==
  ASSUME NEW S, IsFiniteSet(S), NEW f, \A x \in S : f[x] \in Int, NEW y \in S
  PROVE  SumFunctionOnSet(f, S) = f[y] + SumFunctionOnSet(f, S \ {y})
<1> DEFINE P == {s \in SUBSET S : \A x \in s : SumFunctionOnSet(f, s) = f[x] + SumFunctionOnSet(f, s \ {x})}
<1>1. {} \in P
  OBVIOUS
<1>2. ASSUME NEW s \in SUBSET S, s # {}, \A x \in s : s \ {x} \in P PROVE s \in P
  <2> SUFFICES ASSUME NEW x \in s, x # Any(s)
               PROVE  SumFunctionOnSet(f, s) = f[x] + SumFunctionOnSet(f, s \ {x})
    <3>1. IsFiniteSet(s)
      BY FS_Subset
    <3>2. SumFunctionOnSet(f, s) = f[Any(s)] + SumFunctionOnSet(f, s \ {Any(s)})
      BY <1>2, <3>1, SumOfAny
    <3> QED
      BY <3>2
  <2> DEFINE c == Any(s)
             rest == (s \ {c}) \ {x}
  <2>1. c \in s /\ s \ {c} \in P /\ s \ {x} \in P
    BY <1>2, AnyIsOne
  <2>2. IsFiniteSet(s) /\ IsFiniteSet(rest)
    BY FS_Subset
  <2>3. SumFunctionOnSet(f, s) = f[c] + SumFunctionOnSet(f, s \ {c})
    BY <1>2, <2>2, SumOfAny
  <2>4. SumFunctionOnSet(f, s \ {c}) = f[x] + SumFunctionOnSet(f, rest)
    BY <2>1
  <2>5. SumFunctionOnSet(f, s \ {x}) = f[c] + SumFunctionOnSet(f, rest)
    <3>1. c \in s \ {x} /\ (s \ {x}) \ {c} = rest
      BY <2>1
    <3> HIDE DEF c, rest
    <3> QED
      BY <2>1, <3>1
  <2>6. SumFunctionOnSet(f, rest) \in Int /\ f[c] \in Int /\ f[x] \in Int
    BY <2>1, <2>2, SumIsInt
  <2> QED
    BY <2>3, <2>4, <2>5, <2>6
<1> HIDE DEF P
<1>3. \A s \in SUBSET S : s \in P
  BY <1>1, <1>2, AllSubsets
<1> QED
  BY <1>3 DEF P

(* One more element adds its value. *)
LEMMA SumOfOneMore ==
  ASSUME NEW S, IsFiniteSet(S), NEW y, y \notin S, NEW f, \A x \in S \cup {y} : f[x] \in Int
  PROVE  SumFunctionOnSet(f, S \cup {y}) = SumFunctionOnSet(f, S) + f[y]
<1>1. IsFiniteSet(S \cup {y}) /\ (S \cup {y}) \ {y} = S
  BY FS_AddElement
<1>2. SumFunctionOnSet(f, S \cup {y}) = f[y] + SumFunctionOnSet(f, S)
  BY <1>1, SumOfOne
<1>3. SumFunctionOnSet(f, S) \in Int /\ f[y] \in Int
  BY SumIsInt
<1> QED
  BY <1>2, <1>3

LEMMA SumOfSingle ==
  ASSUME NEW f, NEW y, f[y] \in Int
  PROVE  SumFunctionOnSet(f, {y}) = f[y]
<1>1. IsFiniteSet({y}) /\ {y} \ {y} = {}
  BY FS_Singleton
<1>2. SumFunctionOnSet(f, {y}) = f[y] + SumFunctionOnSet(f, {y} \ {y})
  BY <1>1, SumOfOne
<1> QED
  BY <1>1, <1>2, SumOfNothing

(* A value that changes changes the sum by the difference. *)
LEMMA SumOfChanged ==
  ASSUME NEW S, IsFiniteSet(S), NEW y \in S, NEW f, NEW e,
         \A x \in S : f[x] \in Int /\ e[x] \in Int, \A x \in S \ {y} : e[x] = f[x]
  PROVE  SumFunctionOnSet(e, S) = SumFunctionOnSet(f, S) + e[y] - f[y]
<1>1. IsFiniteSet(S \ {y})
  BY FS_Subset
<1>2. SumFunctionOnSet(e, S \ {y}) = SumFunctionOnSet(f, S \ {y}) /\ SumFunctionOnSet(f, S \ {y}) \in Int
  BY <1>1, SumOfSame, SumIsInt
<1>3. SumFunctionOnSet(e, S) = e[y] + SumFunctionOnSet(e, S \ {y}) /\ SumFunctionOnSet(f, S) = f[y] + SumFunctionOnSet(f, S \ {y})
  BY SumOfOne
<1> QED
  BY <1>2, <1>3
(* e on T differs from f on S in y alone, which was worth nothing before   *)
(* and may be new.                                                         *)
Raised(f, S, e, T, y) ==
  /\ IsFiniteSet(S) /\ IsFiniteSet(T) /\ y \in T /\ S \ {y} = T \ {y}
  /\ \A x \in T : f[x] \in Int /\ e[x] \in Int
  /\ \A x \in T \ {y} : e[x] = f[x]
  /\ f[y] = 0

LEMMA SumOfRaised ==
  \A f, S, e, T, y :
    Raised(f, S, e, T, y) => SumFunctionOnSet(e, T) = SumFunctionOnSet(f, S) + e[y]
<1> SUFFICES ASSUME NEW f, NEW S, NEW e, NEW T, NEW y, Raised(f, S, e, T, y)
             PROVE  SumFunctionOnSet(e, T) = SumFunctionOnSet(f, S) + e[y]
  OBVIOUS
<1> USE DEF Raised
<1> DEFINE rest == T \ {y}
<1>1. IsFiniteSet(rest)
  BY FS_Subset
<1>2. SumFunctionOnSet(e, T) = e[y] + SumFunctionOnSet(e, rest)
  BY SumOfOne
<1>3. SumFunctionOnSet(e, rest) = SumFunctionOnSet(f, rest) /\ SumFunctionOnSet(f, rest) \in Int
  BY <1>1, SumOfSame, SumIsInt
<1>4. SumFunctionOnSet(f, S) = SumFunctionOnSet(f, rest)
  <2>1. CASE y \in S
    <3>1. \A x \in S : f[x] \in Int
      BY <2>1
    <3>2. SumFunctionOnSet(f, S) = f[y] + SumFunctionOnSet(f, S \ {y})
      BY <2>1, <3>1, SumOfOne
    <3>3. S \ {y} = rest
      OBVIOUS
    <3>4. SumFunctionOnSet(f, S) = 0 + SumFunctionOnSet(f, rest)
      BY <3>2, <3>3
    <3>5. SumFunctionOnSet(f, rest) \in Int
      BY <1>3
    <3> HIDE DEF rest
    <3> QED
      BY <3>4, <3>5
  <2>2. CASE y \notin S
    <3>1. S \ {y} = S
      BY <2>2
    <3> QED
      BY <3>1, <1>3
  <2> QED
    BY <2>1, <2>2
<1> HIDE DEF rest
<1> QED
  BY <1>2, <1>3, <1>4

(* Two sets without a common element add up. *)
LEMMA SumOfUnion ==
  ASSUME NEW S, IsFiniteSet(S), NEW T, IsFiniteSet(T), S \cap T = {}, NEW f,
         \A x \in S \cup T : f[x] \in Int
  PROVE  SumFunctionOnSet(f, S \cup T) = SumFunctionOnSet(f, S) + SumFunctionOnSet(f, T)
<1> DEFINE P == {t \in SUBSET T : SumFunctionOnSet(f, S \cup t) =
                                  SumFunctionOnSet(f, S) + SumFunctionOnSet(f, t)}
<1>0. SumFunctionOnSet(f, S) \in Int
  BY SumIsInt
<1>1. {} \in P
  <2>1. S \cup {} = S
    OBVIOUS
  <2>2. SumFunctionOnSet(f, S \cup {}) = SumFunctionOnSet(f, S) + SumFunctionOnSet(f, {})
    BY <2>1, <1>0, SumOfNothing
  <2> QED
    BY <2>2
<1>2. ASSUME NEW t \in SUBSET T, t # {}, \A x \in t : t \ {x} \in P PROVE t \in P
  <2> DEFINE c == Any(t)
             rest == t \ {c}
  <2>1. c \in t /\ rest \in P
    BY <1>2, AnyIsOne
  <2>2. IsFiniteSet(t) /\ IsFiniteSet(rest) /\ IsFiniteSet(S \cup t)
    BY FS_Subset, FS_Union
  <2>3. (S \cup t) \ {c} = S \cup rest /\ c \in S \cup t /\ f[c] \in Int
    BY <2>1
  <2>4. SumFunctionOnSet(f, rest) \in Int
    BY <2>2, SumIsInt
  <2>5. SumFunctionOnSet(f, t) = f[c] + SumFunctionOnSet(f, rest)
    BY <2>1, <2>2, SumOfOne
  <2>6. SumFunctionOnSet(f, S \cup t) = f[c] + SumFunctionOnSet(f, (S \cup t) \ {c})
    BY <2>2, <2>3, SumOfOne
  <2>7. SumFunctionOnSet(f, S \cup rest) = SumFunctionOnSet(f, S) + SumFunctionOnSet(f, rest)
    BY <2>1
  <2> HIDE DEF rest, c
  <2>8. SumFunctionOnSet(f, S \cup t) = SumFunctionOnSet(f, S) + SumFunctionOnSet(f, t)
    <3>1. SumFunctionOnSet(f, S \cup t) =
            f[c] + (SumFunctionOnSet(f, S) + SumFunctionOnSet(f, rest))
      BY <2>3, <2>6, <2>7
    <3>2. f[c] \in Int
      BY <2>3
    <3> QED
      BY <1>0, <2>4, <2>5, <3>1, <3>2
  <2> QED
    BY <2>8
<1> HIDE DEF P
<1>3. \A s \in SUBSET T : s \in P
  BY <1>1, <1>2, AllSubsets
<1> QED
  BY <1>3 DEF P

LEMMA SumOfNegated ==
  ASSUME NEW S, IsFiniteSet(S), NEW f, NEW e,
         \A x \in S : e[x] \in Int /\ f[x] = -e[x]
  PROVE  SumFunctionOnSet(f, S) = -SumFunctionOnSet(e, S)
<1> DEFINE P == {s \in SUBSET S : SumFunctionOnSet(f, s) = -SumFunctionOnSet(e, s)}
<1>1. {} \in P
  BY SumOfNothing
<1>2. ASSUME NEW s \in SUBSET S, s # {}, \A x \in s : s \ {x} \in P PROVE s \in P
  <2> DEFINE c == Any(s)
             rest == s \ {c}
  <2>1. c \in s /\ rest \in P
    BY <1>2, AnyIsOne
  <2>2. IsFiniteSet(s) /\ IsFiniteSet(rest)
    BY FS_Subset
  <2>3. /\ SumFunctionOnSet(f, s) = f[c] + SumFunctionOnSet(f, rest)
        /\ SumFunctionOnSet(e, s) = e[c] + SumFunctionOnSet(e, rest)
    <3>1. \A x \in s : f[x] \in Int /\ e[x] \in Int
      OBVIOUS
    <3> QED
      BY <2>1, <2>2, <3>1, SumOfOne
  <2>4. SumFunctionOnSet(e, rest) \in Int
    BY <2>2, SumIsInt
  <2>5. SumFunctionOnSet(f, rest) = -SumFunctionOnSet(e, rest)
    BY <2>1
  <2>6. e[c] \in Int /\ f[c] = -e[c]
    BY <2>1
  <2> HIDE DEF rest, c
  <2>7. SumFunctionOnSet(f, s) = -SumFunctionOnSet(e, s)
    BY <2>3, <2>4, <2>5, <2>6
  <2> QED
    BY <2>7
<1> HIDE DEF P
<1>3. \A s \in SUBSET S : s \in P
  BY <1>1, <1>2, AllSubsets
<1> QED
  BY <1>3 DEF P

(* h has for each key of Y the sum of f over the elements of M with it.    *)
SumsByKey(h, Y, f, M, key) ==
  /\ IsFiniteSet(M) /\ IsFiniteSet(Y) /\ \A m \in M : f[m] \in Int
  /\ \A y \in Y : h[y] = SumFunctionOnSet(f, {m \in M : key[m] = y})

(* A sum is the sum of the sums over the elements with each key. *)
LEMMA SumOfFibers ==
  \A h, Y, f, M, key :
    SumsByKey(h, Y, f, M, key) =>
      SumFunctionOnSet(h, Y) = SumFunctionOnSet(f, {m \in M : key[m] \in Y})
<1> SUFFICES ASSUME NEW h, NEW Y, NEW f, NEW M, NEW key, SumsByKey(h, Y, f, M, key)
             PROVE  SumFunctionOnSet(h, Y) = SumFunctionOnSet(f, {m \in M : key[m] \in Y})
  OBVIOUS
<1> USE DEF SumsByKey
<1> DEFINE Of(s) == {m \in M : key[m] \in s}
           P == {s \in SUBSET Y : SumFunctionOnSet(h, s) = SumFunctionOnSet(f, Of(s))}
<1>0. \A s : IsFiniteSet(Of(s)) /\ IsFiniteSet({m \in M : key[m] = s})
  BY FS_Subset
<1>a. \A y \in Y : h[y] \in Int
  <2> SUFFICES ASSUME NEW y \in Y PROVE SumFunctionOnSet(f, {m \in M : key[m] = y}) \in Int
    OBVIOUS
  <2>1. IsFiniteSet({m \in M : key[m] = y}) /\ \A m \in {m \in M : key[m] = y} : f[m] \in Int
    BY <1>0
  <2> QED
    BY <2>1, SumIsInt
<1>1. {} \in P
  <2>1. Of({}) = {}
    OBVIOUS
  <2>2. SumFunctionOnSet(h, {}) = SumFunctionOnSet(f, Of({}))
    BY <2>1, SumOfNothing
  <2> QED
    BY <2>2
<1>2. ASSUME NEW s \in SUBSET Y, s # {}, \A x \in s : s \ {x} \in P PROVE s \in P
  <2> DEFINE c == Any(s)
             rest == s \ {c}
             one == {m \in M : key[m] = c}
  <2>1. c \in s /\ c \in Y /\ rest \in P
    BY <1>2, AnyIsOne
  <2>2. IsFiniteSet(s)
    BY FS_Subset
  <2>3. Of(s) = Of(rest) \cup one /\ Of(rest) \cap one = {}
    BY <2>1
  <2>4. /\ \A m \in Of(rest) \cup one : f[m] \in Int
        /\ IsFiniteSet(Of(rest)) /\ IsFiniteSet(one)
    BY <1>0
  <2>5. SumFunctionOnSet(h, s) = h[c] + SumFunctionOnSet(h, rest)
    BY <1>a, <2>1, <2>2, SumOfOne
  <2>6. SumFunctionOnSet(h, rest) = SumFunctionOnSet(f, Of(rest)) /\ h[c] = SumFunctionOnSet(f, one)
    BY <2>1
  <2> HIDE DEF Of, rest, one
  <2>7. SumFunctionOnSet(f, Of(s)) = SumFunctionOnSet(f, Of(rest)) + SumFunctionOnSet(f, one)
    BY <2>3, <2>4, SumOfUnion
  <2>8. SumFunctionOnSet(f, Of(rest)) \in Int /\ SumFunctionOnSet(f, one) \in Int
    BY <2>4, SumIsInt
  <2>9. SumFunctionOnSet(h, s) = SumFunctionOnSet(f, Of(s))
    BY <2>5, <2>6, <2>7, <2>8
  <2> QED
    BY <2>9
<1>3. \A s \in SUBSET Y : s \in P
  <2> HIDE DEF P
  <2> QED
    BY <1>1, <1>2, AllSubsets
<1>4. Y \in P /\ Of(Y) = {m \in M : key[m] \in Y}
  BY <1>3
<1> QED
  BY <1>4

(* What is no more for each element is no more in sum. *)
LEMMA SumOfLess ==
  ASSUME NEW S, IsFiniteSet(S), NEW f, NEW e,
         \A x \in S : f[x] \in Int /\ e[x] \in Int /\ f[x] <= e[x]
  PROVE  SumFunctionOnSet(f, S) <= SumFunctionOnSet(e, S)
<1> DEFINE P == {s \in SUBSET S : SumFunctionOnSet(f, s) <= SumFunctionOnSet(e, s)}
<1>1. {} \in P
  BY SumOfNothing
<1>2. ASSUME NEW s \in SUBSET S, s # {}, \A x \in s : s \ {x} \in P PROVE s \in P
  <2> DEFINE c == Any(s)
             rest == s \ {c}
  <2>1. c \in s /\ rest \in P
    BY <1>2, AnyIsOne
  <2>2. IsFiniteSet(s) /\ IsFiniteSet(rest)
    BY FS_Subset
  <2>3. /\ SumFunctionOnSet(f, s) = f[c] + SumFunctionOnSet(f, rest)
        /\ SumFunctionOnSet(e, s) = e[c] + SumFunctionOnSet(e, rest)
    BY <2>1, <2>2, SumOfOne
  <2>4. SumFunctionOnSet(f, rest) \in Int /\ SumFunctionOnSet(e, rest) \in Int
    BY <2>2, SumIsInt
  <2>5. SumFunctionOnSet(f, rest) <= SumFunctionOnSet(e, rest)
    BY <2>1
  <2>6. f[c] \in Int /\ e[c] \in Int /\ f[c] <= e[c]
    BY <2>1
  <2> HIDE DEF rest, c
  <2>7. SumFunctionOnSet(f, s) <= SumFunctionOnSet(e, s)
    BY <2>3, <2>4, <2>5, <2>6
  <2> QED
    BY <2>7
<1> HIDE DEF P
<1>3. \A s \in SUBSET S : s \in P
  BY <1>1, <1>2, AllSubsets
<1> QED
  BY <1>3 DEF P

-----------------------------------------------------------------------------
(* Recursion over the subsets of a finite set *)

(* One element is taken out of each set, pick[s]; the value of the set is  *)
(* step of it and of the value of the rest.                                *)
CanStep(S, pick, V, base, step) ==
  /\ IsFiniteSet(S)
  /\ \A s \in SUBSET S : s # {} => pick[s] \in s
  /\ base \in V
  /\ \A x \in S, w \in V : step[<<x, w>>] \in V

Computes(g, S, pick, base, step) ==
  \A s \in SUBSET S :
    g[s] = IF s = {} THEN base ELSE step[<<pick[s], g[s \ {pick[s]}]>>]

LEMMA RecursionExists ==
  \A S, pick, V, base, step :
    CanStep(S, pick, V, base, step) =>
      \E g \in [SUBSET S -> V] : Computes(g, S, pick, base, step)
<1> SUFFICES ASSUME NEW S, NEW pick, NEW V, NEW base, NEW step, CanStep(S, pick, V, base, step)
             PROVE  \E g \in [SUBSET S -> V] : Computes(g, S, pick, base, step)
  OBVIOUS
<1> USE DEF CanStep
<1> DEFINE D(n) == {s \in SUBSET S : Cardinality(s) <= n}
           Rec(d, g) == \A s \in d :
             g[s] = IF s = {} THEN base ELSE step[<<pick[s], g[s \ {pick[s]}]>>]
           N == {n \in Nat : \E g \in [D(n) -> V] : Rec(D(n), g)}
<1>0. \A T \in SUBSET S : IsFiniteSet(T) /\ Cardinality(T) \in Nat
  BY FS_Subset, FS_CardinalityType
<1>1. 0 \in N
  <2> DEFINE g == [s \in D(0) |-> base]
  <2>1. \A s \in D(0) : s = {}
    BY <1>0, FS_EmptySet
  <2>2. g \in [D(0) -> V] /\ Rec(D(0), g)
    BY <2>1
  <2> HIDE DEF g, D, Rec
  <2>3. \E x \in [D(0) -> V] : Rec(D(0), x)
    BY <2>2
  <2> QED
    BY <2>3
<1>2. ASSUME NEW n \in Nat, n \in N PROVE n + 1 \in N
  <2>1. PICK g \in [D(n) -> V] : Rec(D(n), g)
    BY <1>2
  <2> DEFINE h == [s \in D(n + 1) |->
                    IF s = {} THEN base ELSE step[<<pick[s], g[s \ {pick[s]}]>>]]
  <2>2. ASSUME NEW s \in D(n + 1), s # {}
        PROVE  /\ pick[s] \in S
               /\ s \ {pick[s]} \in D(n) /\ s \ {pick[s]} \in D(n + 1)
    <3>1. s \ {pick[s]} \in SUBSET S /\ Cardinality(s \ {pick[s]}) = Cardinality(s) - 1
      BY <1>0, <2>2, FS_RemoveElement
    <3> QED
      BY <1>0, <2>2, <3>1
  <2>3. \A s \in D(n) : h[s] = g[s]
    <3>1. \A s \in D(n) : s \in D(n + 1)
      BY <1>0
    <3>2. \A s \in D(n) : g[s] = IF s = {} THEN base ELSE step[<<pick[s], g[s \ {pick[s]}]>>]
      BY <2>1
    <3> QED
      BY <3>1, <3>2
  <2>4. Rec(D(n + 1), h)
    BY <2>2, <2>3
  <2>5. h \in [D(n + 1) -> V]
    <3> SUFFICES ASSUME NEW s \in D(n + 1), s # {}
                 PROVE  step[<<pick[s], g[s \ {pick[s]}]>>] \in V
      OBVIOUS
    <3>1. pick[s] \in S /\ g[s \ {pick[s]}] \in V
      BY <2>1, <2>2
    <3> QED
      BY <3>1
  <2>6. n + 1 \in Nat
    OBVIOUS
  <2> HIDE DEF h, D, Rec
  <2>7. \E x \in [D(n + 1) -> V] : Rec(D(n + 1), x)
    BY <2>4, <2>5
  <2> QED
    BY <2>6, <2>7
<1>3. \A n \in Nat : n \in N
  <2> HIDE DEF N
  <2> QED
    BY <1>1, <1>2, AllNumbers
<1>4. D(Cardinality(S)) = SUBSET S
  BY <1>0, FS_Subset
<1>5. \E g \in [D(Cardinality(S)) -> V] : Rec(D(Cardinality(S)), g)
  BY <1>0, <1>3
<1>6. \E g \in [SUBSET S -> V] : Rec(SUBSET S, g)
  <2> HIDE DEF D, Rec
  <2> QED
    BY <1>4, <1>5
<1> QED
  BY <1>6 DEF Computes
=============================================================================
