------------------------------ MODULE FiniteSums ------------------------------
(***************************************************************************)
(* Sums over finite sets, and the ends of finite sets of numbers.          *)
(***************************************************************************)
EXTENDS Integers, FiniteSets, Functions, FiniteSetTheorems, WellFoundedInduction, TLAPS

\* A set of numbers has a least one.
LEMMA LeastNatural ==
  ASSUME NEW T \in SUBSET Nat, T # {}
  PROVE  \E x \in T : \A y \in T : x <= y
<1>1. PICK x \in T : \A y \in T : ~ (<<y, x>> \in OpToRel(<, Nat))
  BY NatLessThanWellFounded, WFMin, Zenon
<1>2. \A y \in T : x <= y
  <2> SUFFICES ASSUME NEW y \in T, y < x PROVE FALSE
    OBVIOUS
  <2>1. <<y, x>> \in Nat \X Nat
    OBVIOUS
  <2>2. <<y, x>> \in OpToRel(<, Nat)
    BY <2>1 DEF OpToRel
  <2> QED
    BY <1>1, <2>2
<1> QED
  BY <1>2

\* Of any subsets of a finite set, one is such that no set with an element less
\* is among them.
LEMMA LeastSubset ==
  ASSUME NEW S, IsFiniteSet(S), NEW C \in SUBSET (SUBSET S), C # {}
  PROVE  \E T \in C : \A x \in T : T \ {x} \notin C
<1> DEFINE N == {Cardinality(T) : T \in C}
<1>1. \A T \in SUBSET S : IsFiniteSet(T) /\ Cardinality(T) \in Nat
  BY FS_Subset, FS_CardinalityType
<1>2. N \in SUBSET Nat /\ N # {}
  BY <1>1
<1>3. PICK n \in N : \A m \in N : n <= m
  BY <1>2, LeastNatural
<1>4. PICK T \in C : n = Cardinality(T)
  BY <1>3
<1>5. ASSUME NEW x \in T, T \ {x} \in C PROVE FALSE
  <2>1. Cardinality(T \ {x}) = n - 1 /\ n \in Nat
    BY <1>1, <1>4, FS_RemoveElement
  <2>2. n <= n - 1
    BY <1>3, <1>5, <2>1
  <2> QED
    BY <2>1, <2>2
<1> QED
  BY <1>4, <1>5

\* A finite set of integers has a greatest element and a least one.
LEMMA FiniteHasEnds ==
  ASSUME NEW S \in SUBSET Int, IsFiniteSet(S), S # {}
  PROVE  /\ \E x \in S : \A y \in S : y <= x
         /\ \E x \in S : \A y \in S : x <= y
<1> DEFINE C == {T \in SUBSET S : T # {} /\ ~ \E x \in T : \A y \in T : y <= x}
           D == {T \in SUBSET S : T # {} /\ ~ \E x \in T : \A y \in T : x <= y}
<1>1. C = {}
  <2> SUFFICES ASSUME C # {} PROVE FALSE
    OBVIOUS
  <2>1. PICK T \in C : \A x \in T : T \ {x} \notin C
    BY LeastSubset
  <2>2. PICK z \in T : TRUE
    OBVIOUS
  <2>3. T \ {z} # {}
    <3>1. T # {z}
      BY <2>1
    <3> QED
      BY <2>2, <3>1
  <2>4. PICK x \in T \ {z} : \A y \in T \ {z} : y <= x
    BY <2>1, <2>3
  <2>5. x \in Int /\ z \in Int
    BY <2>2, <2>4
  <2>6. \A y \in T : y = z \/ y <= x
    BY <2>4
  <2>7. CASE z <= x
    BY <2>1, <2>4, <2>6, <2>7
  <2>8. CASE x < z
    <3>1. \A y \in T : y \in Int
      OBVIOUS
    <3>2. \A y \in T : y <= z
      BY <2>5, <2>6, <2>8, <3>1
    <3> QED
      BY <2>1, <2>2, <3>2
  <2> QED
    BY <2>5, <2>7, <2>8
<1>2. D = {}
  <2> SUFFICES ASSUME D # {} PROVE FALSE
    OBVIOUS
  <2>1. PICK T \in D : \A x \in T : T \ {x} \notin D
    BY LeastSubset
  <2>2. PICK z \in T : TRUE
    OBVIOUS
  <2>3. T \ {z} # {}
    <3>1. T # {z}
      BY <2>1
    <3> QED
      BY <2>2, <3>1
  <2>4. PICK x \in T \ {z} : \A y \in T \ {z} : x <= y
    BY <2>1, <2>3
  <2>5. x \in Int /\ z \in Int
    BY <2>2, <2>4
  <2>6. \A y \in T : y = z \/ x <= y
    BY <2>4
  <2>7. CASE x <= z
    BY <2>1, <2>4, <2>6, <2>7
  <2>8. CASE z < x
    <3>1. \A y \in T : y \in Int
      OBVIOUS
    <3>2. \A y \in T : z <= y
      BY <2>5, <2>6, <2>8, <3>1
    <3> QED
      BY <2>1, <2>2, <3>2
  <2> QED
    BY <2>5, <2>7, <2>8
<1> QED
  BY <1>1, <1>2

\* What a function takes a finite set to is finite.
LEMMA ImageIsFinite ==
  ASSUME NEW f, NEW S, IsFiniteSet(S), S \subseteq DOMAIN f
  PROVE  IsFiniteSet({f[x] : x \in S})
<1> DEFINE T == {f[x] : x \in S}
           g == [x \in S |-> f[x]]
<1>1. g \in Surjection(S, T)
  BY DEF Surjection
<1> QED
  BY <1>1, FS_Surjection

-----------------------------------------------------------------------------
(* SumFunctionOnSet is a fold that takes any element first.  It is defined   *)
(* by a recursive function, which is shown to exist.                         *)

Taken(s) == CHOOSE x \in s : TRUE
Folded(f, g, s) == IF s = {} THEN 0 ELSE f[Taken(s)] + g[s \ {Taken(s)}]
Sums(f, S) == CHOOSE g : g = [s \in SUBSET S |-> Folded(f, g, s)]

\* The sum is the value of the recursive function at the whole set.
LEMMA SumIsSums ==
  ASSUME NEW f, NEW S
  PROVE  SumFunctionOnSet(f, S) = Sums(f, S)[S]
BY DEF SumFunctionOnSet, FoldFunctionOnSet, MapThenFoldSet, Sums, Folded, Taken

\* There is such a function.
LEMMA SumsExist ==
  ASSUME NEW f, NEW S, IsFiniteSet(S)
  PROVE  \A s \in SUBSET S : Sums(f, S)[s] = Folded(f, Sums(f, S), s)
<1> DEFINE Small(n) == {s \in SUBSET S : Cardinality(s) <= n}
           Bad == {n \in Nat : ~ \E g : g = [s \in Small(n) |-> Folded(f, g, s)]}
<1>1. \A s \in SUBSET S : IsFiniteSet(s) /\ Cardinality(s) \in Nat
  BY FS_Subset, FS_CardinalityType
<1>2. Bad = {}
  <2> SUFFICES ASSUME Bad # {} PROVE FALSE
    OBVIOUS
  <2>1. PICK m \in Bad : \A n \in Bad : m <= n
    BY LeastNatural
  <2>2. m # 0
    <3>1. \A s \in Small(0) : s = {}
      BY <1>1, FS_EmptySet
    <3> DEFINE g == [s \in Small(0) |-> 0]
    <3>2. g = [s \in Small(0) |-> Folded(f, g, s)]
      BY <3>1 DEF Folded
    <3>3. \E h : h = [s \in Small(0) |-> Folded(f, h, s)]
      BY <3>2, Zenon
    <3> HIDE DEF g, Small
    <3> QED
      BY <2>1, <3>3
  <2>3. m - 1 \in Nat /\ m - 1 \notin Bad
    <3>1. m \in Nat /\ ~ (m <= m - 1)
      BY <2>1
    <3>2. m - 1 \in Nat
      BY <2>2, <3>1
    <3> QED
      BY <2>1, <3>1, <3>2
  <2>4. PICK g : g = [s \in Small(m - 1) |-> Folded(f, g, s)]
    BY <2>3
  <2> DEFINE h == [s \in Small(m) |-> Folded(f, g, s)]
  <2>5. \A s \in Small(m) : s # {} => s \ {Taken(s)} \in Small(m - 1) /\ s \ {Taken(s)} \in Small(m)
    <3> SUFFICES ASSUME NEW s \in Small(m), s # {}
                 PROVE  s \ {Taken(s)} \in Small(m - 1) /\ s \ {Taken(s)} \in Small(m)
      OBVIOUS
    <3>1. Taken(s) \in s
      BY DEF Taken
    <3>2. Cardinality(s \ {Taken(s)}) = Cardinality(s) - 1 /\ Cardinality(s) \in Nat /\ Cardinality(s) <= m
      BY <1>1, <3>1, FS_RemoveElement
    <3> QED
      BY <2>3, <3>2
  <2>6. \A s \in Small(m) : Folded(f, h, s) = Folded(f, g, s)
    <3> SUFFICES ASSUME NEW s \in Small(m), s # {} PROVE Folded(f, h, s) = Folded(f, g, s)
      BY DEF Folded
    <3> DEFINE t == s \ {Taken(s)}
    <3>1. h[t] = Folded(f, g, t) /\ g[t] = Folded(f, g, t)
      <4>1. t \in Small(m - 1) /\ t \in Small(m)
        BY <2>5
      <4> HIDE DEF t, Small
      <4> QED
        BY <2>4, <4>1
    <3> QED
      BY <3>1 DEF Folded
  <2>7. h = [s \in Small(m) |-> Folded(f, h, s)]
    BY <2>6
  <2> QED
    BY <2>1, <2>7
<1>3. Cardinality(S) \in Nat /\ Small(Cardinality(S)) = SUBSET S
  BY <1>1, FS_Subset
<1>4. PICK g : g = [s \in Small(Cardinality(S)) |-> Folded(f, g, s)]
  BY <1>2, <1>3
<1>5. g = [s \in SUBSET S |-> Folded(f, g, s)]
  BY <1>3, <1>4
<1>6. PICK h : h = Sums(f, S) /\ h = [s \in SUBSET S |-> Folded(f, h, s)]
  BY <1>5 DEF Sums
<1>7. \A s \in SUBSET S : h[s] = Folded(f, h, s)
  BY <1>6
<1> QED
  BY <1>6, <1>7

\* The sum over a set does not depend on the set it is looked at in.
LEMMA SumsAgree ==
  ASSUME NEW f, NEW S, IsFiniteSet(S), NEW T \in SUBSET S, NEW t \in SUBSET T
  PROVE  Sums(f, S)[t] = Sums(f, T)[t]
<1> DEFINE C == {u \in SUBSET T : Sums(f, S)[u] # Sums(f, T)[u]}
<1>1. IsFiniteSet(T)
  BY FS_Subset
<1>2. /\ \A u \in SUBSET S : Sums(f, S)[u] = Folded(f, Sums(f, S), u)
      /\ \A u \in SUBSET T : Sums(f, T)[u] = Folded(f, Sums(f, T), u)
  BY <1>1, SumsExist
<1>3. C = {}
  <2> SUFFICES ASSUME C # {} PROVE FALSE
    OBVIOUS
  <2>1. PICK u \in C : \A x \in u : u \ {x} \notin C
    BY <1>1, LeastSubset
  <2>2. u \in SUBSET T /\ u \in SUBSET S
    OBVIOUS
  <2>3. CASE u = {}
    BY <1>2, <2>1, <2>2, <2>3 DEF Folded
  <2>4. CASE u # {}
    <3>1. Taken(u) \in u /\ u \ {Taken(u)} \in SUBSET T
      BY <2>2, <2>4 DEF Taken
    <3>2. Sums(f, S)[u \ {Taken(u)}] = Sums(f, T)[u \ {Taken(u)}]
      BY <2>1, <3>1
    <3> QED
      BY <1>2, <2>1, <2>2, <3>2 DEF Folded
  <2> QED
    BY <2>3, <2>4
<1> QED
  BY <1>3

\* Nothing sums up to zero.
LEMMA SumEmpty ==
  ASSUME NEW f
  PROVE  SumFunctionOnSet(f, {}) = 0
<1>1. Sums(f, {})[{}] = Folded(f, Sums(f, {}), {})
  BY SumsExist, FS_EmptySet
<1> QED
  BY <1>1, SumIsSums DEF Folded

\* A sum is one of its terms and the sum of the rest.
LEMMA SumStep ==
  ASSUME NEW f, NEW S, IsFiniteSet(S), S # {}
  PROVE  SumFunctionOnSet(f, S) = f[Taken(S)] + SumFunctionOnSet(f, S \ {Taken(S)})
<1>1. S \in SUBSET S /\ S \ {Taken(S)} \in SUBSET S /\ S \ {Taken(S)} \in SUBSET (S \ {Taken(S)})
  OBVIOUS
<1>2. Sums(f, S)[S] = Folded(f, Sums(f, S), S)
  BY <1>1, SumsExist
<1>3. Sums(f, S)[S \ {Taken(S)}] = Sums(f, S \ {Taken(S)})[S \ {Taken(S)}]
  BY <1>1, SumsAgree
<1> QED
  BY <1>2, <1>3, SumIsSums DEF Folded

\* A sum of integers is an integer.
LEMMA SumInt ==
  ASSUME NEW f, NEW S, IsFiniteSet(S), \A x \in S : f[x] \in Int
  PROVE  SumFunctionOnSet(f, S) \in Int
<1> DEFINE C == {T \in SUBSET S : SumFunctionOnSet(f, T) \notin Int}
<1>1. C = {}
  <2> SUFFICES ASSUME C # {} PROVE FALSE
    OBVIOUS
  <2>1. PICK T \in C : \A x \in T : T \ {x} \notin C
    BY LeastSubset
  <2>2. T # {} /\ IsFiniteSet(T) /\ T \in SUBSET S
    <3>1. SumFunctionOnSet(f, {}) \in Int
      BY SumEmpty
    <3>2. T \in SUBSET S /\ T # {}
      BY <2>1, <3>1
    <3> QED
      BY <3>2, FS_Subset
  <2>3. Taken(T) \in T /\ T \ {Taken(T)} \in SUBSET S
    BY <2>2 DEF Taken
  <2>4. SumFunctionOnSet(f, T \ {Taken(T)}) \in Int /\ f[Taken(T)] \in Int
    BY <2>1, <2>2, <2>3
  <2>5. SumFunctionOnSet(f, T) = f[Taken(T)] + SumFunctionOnSet(f, T \ {Taken(T)})
    BY <2>2, SumStep
  <2> QED
    BY <2>1, <2>4, <2>5
<1> QED
  BY <1>1

\* Any element may come first.
LEMMA SumRemove ==
  ASSUME NEW f, NEW S, IsFiniteSet(S), \A x \in S : f[x] \in Int, NEW z \in S
  PROVE  SumFunctionOnSet(f, S) = f[z] + SumFunctionOnSet(f, S \ {z})
<1> DEFINE Sum(T) == SumFunctionOnSet(f, T)
           C == {T \in SUBSET S : \E x \in T : Sum(T) # f[x] + Sum(T \ {x})}
<1>1. \A T \in SUBSET S : IsFiniteSet(T) /\ Sum(T) \in Int
  BY FS_Subset, SumInt
<1>2. \A T \in SUBSET S : T # {} => Sum(T) = f[Taken(T)] + Sum(T \ {Taken(T)})
  BY <1>1, SumStep
<1> HIDE DEF Sum
<1>3. C = {}
  <2> SUFFICES ASSUME C # {} PROVE FALSE
    OBVIOUS
  <2>1. PICK T \in C : \A x \in T : T \ {x} \notin C
    BY LeastSubset
  <2>2. PICK x \in T : Sum(T) # f[x] + Sum(T \ {x})
    BY <2>1
  <2> DEFINE c == Taken(T)
  <2>3. c \in T /\ Sum(T) = f[c] + Sum(T \ {c})
    BY <1>2, <2>2 DEF Taken
  <2> HIDE DEF c
  <2>4. x # c
    BY <2>2, <2>3
  <2>5. Sum(T \ {c}) = f[x] + Sum((T \ {c}) \ {x})
    <3>1. T \ {c} \in SUBSET S /\ x \in T \ {c}
      BY <2>2, <2>4
    <3> QED
      BY <2>1, <2>3, <3>1
  <2>6. Sum(T \ {x}) = f[c] + Sum((T \ {x}) \ {c})
    <3>1. T \ {x} \in SUBSET S /\ c \in T \ {x}
      BY <2>3, <2>4
    <3> QED
      BY <2>1, <2>2, <3>1
  <2>7. (T \ {c}) \ {x} = (T \ {x}) \ {c}
    OBVIOUS
  <2>8. f[x] \in Int /\ f[c] \in Int /\ Sum((T \ {x}) \ {c}) \in Int
    <3>1. (T \ {x}) \ {c} \in SUBSET S /\ x \in S /\ c \in S
      BY <2>2, <2>3
    <3> QED
      BY <1>1, <3>1
  <2>9. f[c] + (f[x] + Sum((T \ {x}) \ {c})) = f[x] + (f[c] + Sum((T \ {x}) \ {c}))
    BY <2>8
  <2> QED
    BY <2>2, <2>3, <2>5, <2>6, <2>7, <2>9, Zenon
<1>4. S \in SUBSET S /\ S \notin C
  BY <1>3
<1> QED
  BY <1>4 DEF Sum

\* A term that is new is added to the sum.
LEMMA SumAdd ==
  ASSUME NEW f, NEW S, IsFiniteSet(S), NEW z, z \notin S, \A x \in S \cup {z} : f[x] \in Int
  PROVE  SumFunctionOnSet(f, S \cup {z}) = SumFunctionOnSet(f, S) + f[z]
<1>1. IsFiniteSet(S \cup {z}) /\ z \in S \cup {z} /\ (S \cup {z}) \ {z} = S
  BY FS_AddElement
<1>2. SumFunctionOnSet(f, S \cup {z}) = f[z] + SumFunctionOnSet(f, S)
  BY <1>1, SumRemove
<1>3. f[z] \in Int /\ SumFunctionOnSet(f, S) \in Int
  BY SumInt
<1> QED
  BY <1>2, <1>3

\* Sums are added term by term, and equal terms have equal sums.
LEMMA SumOfSums ==
  ASSUME NEW f, NEW g, NEW h, NEW S, IsFiniteSet(S),
         \A x \in S : f[x] \in Int /\ g[x] \in Int /\ h[x] = f[x] + g[x]
  PROVE  SumFunctionOnSet(h, S) = SumFunctionOnSet(f, S) + SumFunctionOnSet(g, S)
<1> DEFINE F(T) == SumFunctionOnSet(f, T)
           G(T) == SumFunctionOnSet(g, T)
           H(T) == SumFunctionOnSet(h, T)
           C == {T \in SUBSET S : H(T) # F(T) + G(T)}
<1>1. \A T \in SUBSET S : F(T) \in Int /\ G(T) \in Int
  BY FS_Subset, SumInt
<1>2. \A T \in SUBSET S, x \in S : x \in T =>
         /\ F(T) = f[x] + F(T \ {x}) /\ G(T) = g[x] + G(T \ {x}) /\ H(T) = h[x] + H(T \ {x})
  <2> SUFFICES ASSUME NEW T \in SUBSET S, NEW x \in T
               PROVE  /\ F(T) = f[x] + F(T \ {x}) /\ G(T) = g[x] + G(T \ {x})
                      /\ H(T) = h[x] + H(T \ {x})
    OBVIOUS
  <2>1. IsFiniteSet(T) /\ \A y \in T : f[y] \in Int /\ g[y] \in Int /\ h[y] \in Int
    BY FS_Subset
  <2> QED
    BY <2>1, SumRemove
<1>3. F({}) = 0 /\ G({}) = 0 /\ H({}) = 0
  BY SumEmpty
<1> HIDE DEF F, G, H
<1>4. C = {}
  <2> SUFFICES ASSUME C # {} PROVE FALSE
    OBVIOUS
  <2>1. PICK T \in C : \A x \in T : T \ {x} \notin C
    BY LeastSubset
  <2>2. PICK x \in T : TRUE
    <3>1. {} \notin C
      BY <1>3
    <3> QED
      BY <2>1, <3>1
  <2>3. T \ {x} \in SUBSET S /\ x \in S /\ T \in SUBSET S
    BY <2>2
  <2>4. H(T \ {x}) = F(T \ {x}) + G(T \ {x})
    BY <2>1, <2>2, <2>3
  <2>5. f[x] \in Int /\ g[x] \in Int /\ h[x] = f[x] + g[x]
    BY <2>3
  <2>6. F(T \ {x}) \in Int /\ G(T \ {x}) \in Int
    BY <1>1, <2>3
  <2>7. F(T) = f[x] + F(T \ {x}) /\ G(T) = g[x] + G(T \ {x}) /\ H(T) = h[x] + H(T \ {x})
    BY <1>2, <2>2, <2>3
  <2> QED
    BY <2>1, <2>4, <2>5, <2>6, <2>7
<1>5. S \in SUBSET S /\ S \notin C
  BY <1>4
<1> QED
  BY <1>5 DEF F, G, H

\* Zeros sum up to zero.
LEMMA SumZero ==
  ASSUME NEW f, NEW S, IsFiniteSet(S), \A x \in S : f[x] = 0
  PROVE  SumFunctionOnSet(f, S) = 0
<1>1. SumFunctionOnSet(f, S) = SumFunctionOnSet(f, S) + SumFunctionOnSet(f, S)
  BY SumOfSums
<1>2. SumFunctionOnSet(f, S) \in Int
  BY SumInt
<1>3. \A n \in Int : n = n + n => n = 0
  OBVIOUS
<1> QED
  BY <1>1, <1>2, <1>3, Zenon

\* Functions that agree on a set have the same sum over it.
LEMMA SumSame ==
  ASSUME NEW f, NEW g, NEW S, IsFiniteSet(S), \A x \in S : f[x] \in Int /\ g[x] = f[x]
  PROVE  SumFunctionOnSet(g, S) = SumFunctionOnSet(f, S)
<1> DEFINE z == [x \in S |-> 0]
<1>1. SumFunctionOnSet(g, S) = SumFunctionOnSet(f, S) + SumFunctionOnSet(z, S)
  BY SumOfSums
<1>2. SumFunctionOnSet(z, S) = 0
  BY SumZero
<1>3. SumFunctionOnSet(f, S) \in Int
  BY SumInt
<1> QED
  BY <1>1, <1>2, <1>3

\* Two sets without a common element have the sum of their sums.
LEMMA SumUnion ==
  ASSUME NEW f, NEW S, NEW T, IsFiniteSet(S), IsFiniteSet(T), S \cap T = {},
         \A x \in S \cup T : f[x] \in Int
  PROVE  SumFunctionOnSet(f, S \cup T) = SumFunctionOnSet(f, S) + SumFunctionOnSet(f, T)
<1> DEFINE C == {U \in SUBSET T : SumFunctionOnSet(f, S \cup U)
                                    # SumFunctionOnSet(f, S) + SumFunctionOnSet(f, U)}
<1>1. SumFunctionOnSet(f, S) \in Int
  BY SumInt
<1>2. C = {}
  <2> SUFFICES ASSUME C # {} PROVE FALSE
    OBVIOUS
  <2>1. PICK U \in C : \A x \in U : U \ {x} \notin C
    BY LeastSubset
  <2>2. U # {}
    <3>1. S \cup {} = S
      OBVIOUS
    <3> QED
      BY <1>1, <2>1, <3>1, SumEmpty
  <2>3. PICK x \in U : TRUE
    BY <2>2
  <2> DEFINE V == U \ {x}
  <2>4. /\ IsFiniteSet(V) /\ IsFiniteSet(S \cup V) /\ x \notin S \cup V /\ V \in SUBSET T
        /\ U = V \cup {x} /\ S \cup U = (S \cup V) \cup {x}
    <3>1. V \in SUBSET T /\ x \notin S \cup V /\ U = V \cup {x} /\ S \cup U = (S \cup V) \cup {x}
      BY <2>3
    <3>2. IsFiniteSet(V)
      BY <3>1, FS_Subset
    <3> QED
      BY <3>1, <3>2, FS_Union
  <2>5. V \notin C
    BY <2>1, <2>3
  <2> HIDE DEF V
  <2>6. SumFunctionOnSet(f, S \cup V) = SumFunctionOnSet(f, S) + SumFunctionOnSet(f, V)
    BY <2>4, <2>5
  <2>7. \A y \in S \cup V \cup {x} : f[y] \in Int
    BY <2>3, <2>4
  <2>8. SumFunctionOnSet(f, U) = SumFunctionOnSet(f, V) + f[x]
    <3>1. x \notin V /\ \A y \in V \cup {x} : f[y] \in Int
      BY <2>4, <2>7
    <3> QED
      BY <2>4, <3>1, SumAdd
  <2>9. SumFunctionOnSet(f, S \cup U) = SumFunctionOnSet(f, S \cup V) + f[x]
    BY <2>4, <2>7, SumAdd
  <2>10. SumFunctionOnSet(f, V) \in Int /\ f[x] \in Int
    BY <2>4, <2>7, SumInt
  <2> QED
    BY <1>1, <2>1, <2>6, <2>8, <2>9, <2>10
<1>3. T \in SUBSET T /\ T \notin C
  BY <1>2
<1> QED
  BY <1>3
=============================================================================
