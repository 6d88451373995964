--------------------------- MODULE ReportsProofs ----------------------------
(***************************************************************************)
(* Proofs about Reports, for any vehicles, any calendar and any requests   *)
(* whose amounts the schemas accept.  The sums of a report are sums over   *)
(* sets, which the library's induction cannot reach: an induction over a   *)
(* set of numbers (Counting) or of sets (Growing) replaces it, and gives   *)
(* what SumFunction and FoldSet return (Unfolding), step by step.          *)
(***************************************************************************)
EXTENDS Reports, FiniteSetTheorems, TLAPS

-----------------------------------------------------------------------------
(* Induction, and what a sum over a finite set is *)

(* A set of naturals has a least element. *)
LEMMA LeastNatural ==
  ASSUME NEW T, T \subseteq Nat, T # {}
  PROVE  \E x \in T : \A y \in T : x <= y
<1>1. PICK x \in T : \A y \in T : ~(<<y, x>> \in OpToRel(<, Nat))
  BY NatLessThanWellFounded, WFMin
<1>2. ASSUME NEW y \in T  PROVE x <= y
  <2>1. <<y, x>> \notin OpToRel(<, Nat)
    BY <1>1
  <2>2. ~(y < x)
    BY <2>1 DEF OpToRel
  <2> QED BY <2>2
<1> QED BY <1>2

(* A set that holds 0 and the successor of each of its numbers holds them all. *)
LEMMA Counting ==
  ASSUME NEW D, 0 \in D, \A n \in Nat : n \in D => n + 1 \in D
  PROVE  \A n \in Nat : n \in D
<1> SUFFICES ASSUME NEW m \in Nat, m \notin D  PROVE FALSE
  OBVIOUS
<1>1. PICK n \in Nat \ D : \A y \in Nat \ D : n <= y
  BY LeastNatural
<1>2. n - 1 \in Nat /\ n - 1 \in D
  BY <1>1
<1> QED BY <1>1, <1>2

(* A family of sets that holds the empty one, and every part of S with one     *)
(* element more than a part it holds, holds S.                                 *)
LEMMA Growing ==
  ASSUME NEW S, IsFiniteSet(S), NEW D, {} \in D,
         \A T \in SUBSET S : \A x \in S \ T : T \in D => T \cup {x} \in D
  PROVE  S \in D
<1> SUFFICES ASSUME S \notin D  PROVE FALSE
  OBVIOUS
<1> DEFINE Missing == {T \in SUBSET S : T \notin D}
           Sizes == {Cardinality(T) : T \in Missing}
<1>1. \A T \in Missing : IsFiniteSet(T) /\ Cardinality(T) \in Nat
  BY FS_Subset, FS_CardinalityType
<1>2. PICK n \in Sizes : \A y \in Sizes : n <= y
  <2>1. S \in Missing
    OBVIOUS
  <2>2. Sizes \subseteq Nat /\ Sizes # {}
    BY <2>1, <1>1
  <2> HIDE DEF Sizes
  <2> QED BY <2>2, LeastNatural
<1>3. PICK T \in Missing : n = Cardinality(T)
  BY <1>2
<1>4. PICK x \in T : TRUE
  BY <1>3
<1>5. IsFiniteSet(T \ {x}) /\ Cardinality(T \ {x}) = n - 1
  BY <1>1, <1>3, <1>4, FS_RemoveElement
<1>6. T \ {x} \in D
  <2> SUFFICES ASSUME T \ {x} \notin D  PROVE FALSE
    OBVIOUS
  <2>1. T \ {x} \in Missing
    BY <1>3
  <2>2. n <= n - 1
    BY <2>1, <1>2, <1>5
  <2> QED BY <2>2, <1>1, <1>3
<1>7. (T \ {x}) \cup {x} \in D
  BY <1>3, <1>4, <1>6
<1> QED BY <1>3, <1>4, <1>7

(* The element a fold takes out of a set. *)
Taken(s) == CHOOSE x \in s : TRUE

(* g computes a fold of op from base over the parts of S. *)
Folding(op, base, g, S) ==
  \A s \in SUBSET S : g[s] = IF s = {} THEN base ELSE op[<<Taken(s), g[s \ {Taken(s)}]>>]

(* Every recursion over the parts of a finite set is met by some function.     *)
LEMMA FoldExists ==
  ASSUME NEW S, IsFiniteSet(S), NEW U, NEW base \in U, NEW op \in [S \X U -> U]
  PROVE  \E g \in [SUBSET S -> U] : Folding(op, base, g, S)
<1> DEFINE Body(g, s) == IF s = {} THEN base ELSE op[<<Taken(s), g[s \ {Taken(s)}]>>]
           Met(n) == \E g \in [SUBSET S -> U] : \A s \in SUBSET S : Cardinality(s) <= n => g[s] = Body(g, s)
           D == {n \in Nat : Met(n)}
<1>1. \A s \in SUBSET S : /\ IsFiniteSet(s) /\ Cardinality(s) \in Nat
                          /\ s # {} => Taken(s) \in s /\ Cardinality(s \ {Taken(s)}) = Cardinality(s) - 1
                          /\ s = {} <=> Cardinality(s) = 0
  BY FS_Subset, FS_CardinalityType, FS_RemoveElement, FS_EmptySet DEF Taken
<1>2. \A g \in [SUBSET S -> U], s \in SUBSET S : Body(g, s) \in U
  BY <1>1
<1>3. 0 \in D
  <2> DEFINE g == [s \in SUBSET S |-> base]
  <2>1. g \in [SUBSET S -> U]
    OBVIOUS
  <2>2. ASSUME NEW s \in SUBSET S, Cardinality(s) <= 0  PROVE g[s] = Body(g, s)
    <3>1. Cardinality(s) = 0
      <4>1. Cardinality(s) \in Nat
        BY <1>1
      <4> QED BY <4>1, <2>2
    <3>2. s = {}
      BY <1>1, <3>1
    <3> QED BY <3>2
  <2> HIDE DEF g
  <2>3. Met(0)
    BY <2>1, <2>2
  <2> QED BY <2>3
<1>4. ASSUME NEW n \in Nat, n \in D  PROVE n + 1 \in D
  <2>1. PICK g \in [SUBSET S -> U] : \A s \in SUBSET S : Cardinality(s) <= n => g[s] = Body(g, s)
    BY <1>4
  <2> DEFINE h == [s \in SUBSET S |-> IF Cardinality(s) = n + 1 THEN Body(g, s) ELSE g[s]]
  <2>2. h \in [SUBSET S -> U]
    BY <1>2
  <2>3. ASSUME NEW s \in SUBSET S, Cardinality(s) <= n + 1  PROVE h[s] = Body(h, s)
    <3> HIDE DEF h
    <3>1. s = {} \/ (s \ {Taken(s)} \in SUBSET S /\ Cardinality(s \ {Taken(s)}) < n + 1)
      BY <1>1, <2>3
    <3>2. s = {} \/ h[s \ {Taken(s)}] = g[s \ {Taken(s)}]
      BY <3>1, <1>1 DEF h
    <3>3. Body(h, s) = Body(g, s)
      BY <3>2
    <3>4. h[s] = Body(g, s)
      <4>1. CASE Cardinality(s) = n + 1
        BY <4>1 DEF h
      <4>2. CASE Cardinality(s) # n + 1
        <5>1. Cardinality(s) \in Nat
          BY <1>1
        <5>2. Cardinality(s) <= n
          BY <5>1, <4>2, <2>3
        <5> QED BY <5>2, <4>2, <2>1 DEF h
      <4> QED BY <4>1, <4>2
    <3> QED BY <3>3, <3>4
  <2> HIDE DEF h
  <2>4. Met(n + 1)
    BY <2>2, <2>3
  <2> HIDE DEF Met
  <2> QED BY <2>4
<1>5. \A n \in Nat : n \in D
  <2> HIDE DEF D
  <2> QED BY <1>3, <1>4, Counting
<1>6. Cardinality(S) \in Nat /\ \A s \in SUBSET S : Cardinality(s) <= Cardinality(S)
  BY FS_Subset, FS_CardinalityType
<1>7. PICK g \in [SUBSET S -> U] : \A s \in SUBSET S : Cardinality(s) <= Cardinality(S) => g[s] = Body(g, s)
  BY <1>5, <1>6
<1>8. \A s \in SUBSET S : g[s] = Body(g, s)
  BY <1>6, <1>7
<1> QED BY <1>8 DEF Folding

(* A family of parts of S that holds a part whenever it holds what is left of   *)
(* it once the element that a fold takes is gone holds every part.             *)
LEMMA Unfolding ==
  ASSUME NEW S, IsFiniteSet(S), NEW D,
         \A s \in SUBSET S : s = {} \/ s \ {Taken(s)} \in D => s \in D
  PROVE  \A s \in SUBSET S : s \in D
<1> SUFFICES ASSUME NEW R \in SUBSET S, R \notin D  PROVE FALSE
  OBVIOUS
<1> DEFINE Missing == {T \in SUBSET S : T \notin D}
           Sizes == {Cardinality(T) : T \in Missing}
<1>1. \A T \in Missing : IsFiniteSet(T) /\ Cardinality(T) \in Nat
  BY FS_Subset, FS_CardinalityType
<1>2. PICK n \in Sizes : \A y \in Sizes : n <= y
  <2>1. Sizes \subseteq Nat /\ Sizes # {}
    BY <1>1
  <2> HIDE DEF Sizes
  <2> QED BY <2>1, LeastNatural
<1>3. PICK T \in Missing : n = Cardinality(T)
  BY <1>2
<1>4. T # {} /\ T \ {Taken(T)} \notin D
  BY <1>3
<1>5. Taken(T) \in T
  BY <1>4 DEF Taken
<1>6. Cardinality(T \ {Taken(T)}) = n - 1
  BY <1>1, <1>3, <1>5, FS_RemoveElement
<1>7. T \ {Taken(T)} \in Missing
  BY <1>3, <1>4
<1>8. n <= n - 1
  BY <1>7, <1>2, <1>6
<1> QED BY <1>8, <1>1, <1>3

(* g is the recursion by which the terms of f are summed over parts of S. *)
Summing(f, g, S) == \A s \in SUBSET S : g[s] = IF s = {} THEN 0 ELSE f[Taken(s)] + g[s \ {Taken(s)}]

(* A sum takes one term after the other, as its definition says. *)
LEMMA SumUnfolds ==
  ASSUME NEW f, NEW S, IsFiniteSet(S), \A x \in S : f[x] \in Int
  PROVE  \E g : /\ Summing(f, g, S)
                /\ \A s \in SUBSET S : g[s] \in Int
                /\ SumFunctionOnSet(f, S) = g[S]
<1> DEFINE op == [p \in S \X Int |-> f[p[1]] + p[2]]
           IsSum(g) == g = [s \in SUBSET S |-> IF s = {} THEN 0 ELSE f[Taken(s)] + g[s \ {Taken(s)}]]
<1>1. op \in [S \X Int -> Int] /\ 0 \in Int
  OBVIOUS
<1>2. \A s \in SUBSET S : s # {} => Taken(s) \in S
  BY DEF Taken
<1>3. \E g : IsSum(g)
  <2>1. PICK g \in [SUBSET S -> Int] : Folding(op, 0, g, S)
    <3> HIDE DEF op
    <3> QED BY <1>1, FoldExists
  <2>2. ASSUME NEW s \in SUBSET S
        PROVE  g[s] = IF s = {} THEN 0 ELSE f[Taken(s)] + g[s \ {Taken(s)}]
    BY <1>2, <2>1 DEF Folding
  <2>3. g = [s \in SUBSET S |-> g[s]]
    BY <2>1
  <2>4. IsSum(g)
    BY <2>2, <2>3
  <2> QED BY <2>4
<1> DEFINE iter == CHOOSE g : IsSum(g)
<1>4. IsSum(iter)
  <2> HIDE DEF IsSum
  <2> QED BY <1>3
<1>5. SumFunctionOnSet(f, S) = iter[S]
  BY DEF SumFunctionOnSet, FoldFunctionOnSet, MapThenFoldSet, Taken
<1> HIDE DEF iter
<1>6. Summing(f, iter, S)
  <2> SUFFICES ASSUME NEW s \in SUBSET S
               PROVE  iter[s] = IF s = {} THEN 0 ELSE f[Taken(s)] + iter[s \ {Taken(s)}]
    BY DEF Summing
  <2> QED BY <1>4
<1>7. \A s \in SUBSET S : iter[s] \in Int
  <2> DEFINE D == {T \in SUBSET S : iter[T] \in Int}
  <2>1. ASSUME NEW s \in SUBSET S, s = {} \/ s \ {Taken(s)} \in D  PROVE s \in D
    <3>1. CASE s = {}
      <4>1. iter[s] = 0
        BY <3>1, <1>6 DEF Summing
      <4> QED BY <4>1
    <3>2. CASE s # {}
      <4>1. iter[s] = f[Taken(s)] + iter[s \ {Taken(s)}]
        BY <3>2, <1>6 DEF Summing
      <4>2. f[Taken(s)] \in Int /\ iter[s \ {Taken(s)}] \in Int
        BY <3>2, <2>1, <1>2
      <4> QED BY <4>1, <4>2
    <3> QED BY <3>1, <3>2
  <2>2. \A s \in SUBSET S : s \in D
    <3> HIDE DEF D
    <3> QED BY <2>1, Unfolding
  <2> QED BY <2>2
<1> QED BY <1>5, <1>6, <1>7

(* Two functions that meet the same recursion agree. *)
LEMMA FoldUnique ==
  ASSUME NEW f, NEW S, IsFiniteSet(S), NEW g, NEW h, NEW R \in SUBSET S, Summing(f, g, S), Summing(f, h, R)
  PROVE  g[R] = h[R]
<1> DEFINE D == {s \in SUBSET R : g[s] = h[s]}
<1>1. IsFiniteSet(R)
  BY FS_Subset
<1>2. ASSUME NEW s \in SUBSET R, s = {} \/ s \ {Taken(s)} \in D  PROVE s \in D
  <2>1. g[s] = IF s = {} THEN 0 ELSE f[Taken(s)] + g[s \ {Taken(s)}]
    BY DEF Summing
  <2>2. h[s] = IF s = {} THEN 0 ELSE f[Taken(s)] + h[s \ {Taken(s)}]
    BY DEF Summing
  <2> QED BY <2>1, <2>2, <1>2
<1>3. \A s \in SUBSET R : s \in D
  <2> HIDE DEF D
  <2> QED BY <1>1, <1>2, Unfolding
<1>4. R \in D
  BY <1>3
<1> QED BY <1>4

(* The sum of nothing is 0, any sum is an integer, and the sum over a set that *)
(* is not empty is the taken term and the sum of the others.                   *)
LEMMA SumTaken ==
  ASSUME NEW f, NEW S, IsFiniteSet(S), \A x \in S : f[x] \in Int
  PROVE  /\ SumFunctionOnSet(f, {}) = 0
         /\ \A T \in SUBSET S :
              /\ SumFunctionOnSet(f, T) \in Int
              /\ T # {} => SumFunctionOnSet(f, T) = f[Taken(T)] + SumFunctionOnSet(f, T \ {Taken(T)})
<1>1. PICK g : Summing(f, g, S) /\ \A s \in SUBSET S : g[s] \in Int
  BY SumUnfolds
<1>2. ASSUME NEW T \in SUBSET S  PROVE SumFunctionOnSet(f, T) = g[T]
  <2>1. IsFiniteSet(T) /\ \A x \in T : f[x] \in Int
    BY FS_Subset
  <2>2. PICK h : Summing(f, h, T) /\ SumFunctionOnSet(f, T) = h[T]
    BY <2>1, SumUnfolds
  <2>3. g[T] = h[T]
    BY <1>1, <2>2, FoldUnique
  <2> QED BY <2>2, <2>3
<1>3. SumFunctionOnSet(f, {}) = 0
  <2>1. g[{}] = 0
    BY <1>1 DEF Summing
  <2>2. {} \in SUBSET S
    OBVIOUS
  <2> QED BY <2>1, <2>2, <1>2
<1>4. ASSUME NEW T \in SUBSET S  PROVE SumFunctionOnSet(f, T) \in Int
  BY <1>1, <1>2
<1>5. ASSUME NEW T \in SUBSET S, T # {}
      PROVE  SumFunctionOnSet(f, T) = f[Taken(T)] + SumFunctionOnSet(f, T \ {Taken(T)})
  <2>1. g[T] = f[Taken(T)] + g[T \ {Taken(T)}]
    BY <1>1, <1>5 DEF Summing
  <2>2. T \ {Taken(T)} \in SUBSET S
    OBVIOUS
  <2> QED BY <2>1, <2>2, <1>2
<1> QED BY <1>3, <1>4, <1>5

(* Any term may be taken first. *)
LEMMA SumStep ==
  ASSUME NEW f, NEW S, IsFiniteSet(S), \A x \in S : f[x] \in Int, NEW y \in S
  PROVE  SumFunctionOnSet(f, S) = f[y] + SumFunctionOnSet(f, S \ {y})
<1> DEFINE Sum(T) == SumFunctionOnSet(f, T)
           D == {n \in Nat : \A T \in SUBSET S : Cardinality(T) = n => \A x \in T : Sum(T) = f[x] + Sum(T \ {x})}
<1>1. \A T \in SUBSET S : /\ Sum(T) \in Int
                          /\ T # {} => Sum(T) = f[Taken(T)] + Sum(T \ {Taken(T)})
  BY SumTaken
<1>2. \A T \in SUBSET S : /\ Cardinality(T) \in Nat /\ T # {} => Taken(T) \in T
                          /\ \A x \in T : Cardinality(T \ {x}) = Cardinality(T) - 1
  BY FS_Subset, FS_CardinalityType, FS_RemoveElement DEF Taken
<1>3. \A T \in SUBSET S : Cardinality(T) = 0 => T = {}
  BY FS_Subset, FS_EmptySet
<1> HIDE DEF Sum
<1>4. 0 \in D
  BY <1>3
<1>5. ASSUME NEW n \in Nat, n \in D  PROVE n + 1 \in D
  <2> SUFFICES ASSUME NEW T \in SUBSET S, Cardinality(T) = n + 1, NEW x \in T
               PROVE  Sum(T) = f[x] + Sum(T \ {x})
    OBVIOUS
  <2> DEFINE c == Taken(T)
  <2>1. c \in T /\ Sum(T) = f[c] + Sum(T \ {c})
    BY <1>1, <1>2
  <2> HIDE DEF c
  <2>2. CASE x = c
    BY <2>1, <2>2
  <2>3. CASE x # c
    <3>1. Cardinality(T \ {c}) = n /\ Cardinality(T \ {x}) = n
      BY <1>2, <2>1
    <3>2. Sum(T \ {c}) = f[x] + Sum((T \ {c}) \ {x})
      BY <3>1, <1>5, <2>1, <2>3
    <3>3. Sum(T \ {x}) = f[c] + Sum((T \ {x}) \ {c})
      BY <3>1, <1>5, <2>1, <2>3
    <3>4. (T \ {c}) \ {x} = (T \ {x}) \ {c}
      OBVIOUS
    <3>5. Sum((T \ {x}) \ {c}) \in Int /\ f[x] \in Int /\ f[c] \in Int
      BY <1>1, <2>1
    <3> DEFINE rest == Sum((T \ {x}) \ {c})
    <3>6. Sum(T) = f[c] + (f[x] + rest) /\ Sum(T \ {x}) = f[c] + rest /\ rest \in Int
      BY <3>2, <3>3, <3>4, <3>5, <2>1
    <3> HIDE DEF rest
    <3> QED BY <3>6, <3>5
  <2> QED BY <2>2, <2>3
<1>6. \A n \in Nat : n \in D
  <2> HIDE DEF D
  <2> QED BY <1>4, <1>5, Counting
<1>7. Cardinality(S) \in D
  BY <1>6, FS_CardinalityType
<1>8. Sum(S) = f[y] + Sum(S \ {y})
  BY <1>7
<1> QED BY <1>8 DEF Sum

(* A sum of integers is an integer, and the sum of nothing is 0. *)
LEMMA SumType ==
  ASSUME NEW f, NEW S, IsFiniteSet(S), \A x \in S : f[x] \in Int
  PROVE  SumFunctionOnSet(f, S) \in Int /\ SumFunctionOnSet(f, {}) = 0
BY SumTaken

(* One term more. *)
LEMMA SumAdd ==
  ASSUME NEW f, NEW S, IsFiniteSet(S), NEW y, y \notin S, \A x \in S \cup {y} : f[x] \in Int
  PROVE  SumFunctionOnSet(f, S \cup {y}) = SumFunctionOnSet(f, S) + f[y]
<1>1. IsFiniteSet(S \cup {y}) /\ (S \cup {y}) \ {y} = S
  BY FS_AddElement
<1>2. SumFunctionOnSet(f, S \cup {y}) = f[y] + SumFunctionOnSet(f, (S \cup {y}) \ {y})
  BY <1>1, SumStep
<1>3. SumFunctionOnSet(f, S) \in Int /\ f[y] \in Int
  BY SumType
<1>4. SumFunctionOnSet(f, S \cup {y}) = f[y] + SumFunctionOnSet(f, S)
  BY <1>1, <1>2
<1> QED BY <1>3, <1>4

(* Only the terms count. *)
LEMMA SumSame ==
  ASSUME NEW f, NEW h, NEW S, IsFiniteSet(S), \A x \in S : f[x] \in Int /\ h[x] = f[x]
  PROVE  SumFunctionOnSet(h, S) = SumFunctionOnSet(f, S)
<1> DEFINE D == {T \in SUBSET S : SumFunctionOnSet(h, T) = SumFunctionOnSet(f, T)}
<1>1. {} \in D
  BY SumType
<1>2. ASSUME NEW T \in SUBSET S, NEW x \in S \ T, T \in D  PROVE T \cup {x} \in D
  <2>1. IsFiniteSet(T) /\ \A y \in T \cup {x} : f[y] \in Int /\ h[y] \in Int
    BY FS_Subset
  <2>2. SumFunctionOnSet(h, T \cup {x}) = SumFunctionOnSet(h, T) + h[x]
    BY <2>1, SumAdd
  <2>3. SumFunctionOnSet(f, T \cup {x}) = SumFunctionOnSet(f, T) + f[x]
    BY <2>1, SumAdd
  <2> QED BY <2>2, <2>3, <1>2
<1>3. S \in D
  <2> HIDE DEF D
  <2> QED BY <1>1, <1>2, Growing
<1> QED BY <1>3

(* The sum of sums. *)
LEMMA SumLinear ==
  ASSUME NEW f, NEW g, NEW h, NEW S, IsFiniteSet(S),
         \A x \in S : f[x] \in Int /\ g[x] \in Int /\ h[x] = f[x] + g[x]
  PROVE  SumFunctionOnSet(h, S) = SumFunctionOnSet(f, S) + SumFunctionOnSet(g, S)
<1> DEFINE D == {T \in SUBSET S : SumFunctionOnSet(h, T) = SumFunctionOnSet(f, T) + SumFunctionOnSet(g, T)}
<1>0. \A x \in S : h[x] \in Int
  OBVIOUS
<1>1. {} \in D
  <2>1. SumFunctionOnSet(f, {}) = 0 /\ SumFunctionOnSet(g, {}) = 0 /\ SumFunctionOnSet(h, {}) = 0
    BY <1>0, SumType
  <2> QED BY <2>1
<1>2. ASSUME NEW T \in SUBSET S, NEW x \in S \ T, T \in D  PROVE T \cup {x} \in D
  <2>1. IsFiniteSet(T) /\ \A y \in T \cup {x} : f[y] \in Int /\ g[y] \in Int /\ h[y] \in Int
    BY <1>0, FS_Subset
  <2>2. SumFunctionOnSet(h, T \cup {x}) = SumFunctionOnSet(h, T) + h[x]
    BY <2>1, SumAdd
  <2>3. SumFunctionOnSet(f, T \cup {x}) = SumFunctionOnSet(f, T) + f[x]
    BY <2>1, SumAdd
  <2>4. SumFunctionOnSet(g, T \cup {x}) = SumFunctionOnSet(g, T) + g[x]
    BY <2>1, SumAdd
  <2>5. SumFunctionOnSet(f, T) \in Int /\ SumFunctionOnSet(g, T) \in Int
    BY <2>1, SumType
  <2>6. SumFunctionOnSet(h, T) = SumFunctionOnSet(f, T) + SumFunctionOnSet(g, T) /\ h[x] = f[x] + g[x]
    BY <1>2
  <2>7. SumFunctionOnSet(h, T \cup {x}) = SumFunctionOnSet(f, T \cup {x}) + SumFunctionOnSet(g, T \cup {x})
    BY <2>1, <2>2, <2>3, <2>4, <2>5, <2>6
  <2> QED BY <2>7
<1>3. S \in D
  <2> HIDE DEF D
  <2> QED BY <1>1, <1>2, Growing
<1> QED BY <1>3

(* The sum over two sets without a common element. *)
LEMMA SumApart ==
  ASSUME NEW f, NEW A, NEW B, IsFiniteSet(A), IsFiniteSet(B), A \cap B = {}, \A x \in A \cup B : f[x] \in Int
  PROVE  SumFunctionOnSet(f, A \cup B) = SumFunctionOnSet(f, A) + SumFunctionOnSet(f, B)
<1> DEFINE D == {T \in SUBSET B : SumFunctionOnSet(f, A \cup T) = SumFunctionOnSet(f, A) + SumFunctionOnSet(f, T)}
<1>1. {} \in D
  <2>1. A \cup {} = A
    OBVIOUS
  <2>2. SumFunctionOnSet(f, A) \in Int /\ SumFunctionOnSet(f, {}) = 0
    BY SumType
  <2>3. SumFunctionOnSet(f, A) = SumFunctionOnSet(f, A) + SumFunctionOnSet(f, {})
    BY <2>2
  <2> QED BY <2>1, <2>3
<1>2. ASSUME NEW T \in SUBSET B, NEW x \in B \ T, T \in D  PROVE T \cup {x} \in D
  <2>1. /\ IsFiniteSet(T) /\ IsFiniteSet(A \cup T) /\ x \notin A \cup T /\ (A \cup T) \cup {x} = A \cup (T \cup {x})
        /\ \A y \in (A \cup T) \cup {x} : f[y] \in Int
    BY FS_Subset, FS_Union
  <2>2. SumFunctionOnSet(f, (A \cup T) \cup {x}) = SumFunctionOnSet(f, A \cup T) + f[x]
    BY <2>1, SumAdd
  <2>3. SumFunctionOnSet(f, T \cup {x}) = SumFunctionOnSet(f, T) + f[x]
    BY <2>1, SumAdd
  <2>4. SumFunctionOnSet(f, T) \in Int /\ SumFunctionOnSet(f, A) \in Int /\ f[x] \in Int
    BY <2>1, SumType
  <2>5. SumFunctionOnSet(f, A \cup T) = SumFunctionOnSet(f, A) + SumFunctionOnSet(f, T)
    BY <1>2
  <2>6. SumFunctionOnSet(f, (A \cup T) \cup {x}) = SumFunctionOnSet(f, A) + SumFunctionOnSet(f, T \cup {x})
    BY <2>2, <2>3, <2>4, <2>5
  <2> QED BY <2>6, <2>1
<1>3. B \in D
  <2> HIDE DEF D
  <2> QED BY <1>1, <1>2, Growing
<1> QED BY <1>3

(* A sum of naturals is one. *)
LEMMA SumNatural ==
  ASSUME NEW f, NEW S, IsFiniteSet(S), \A x \in S : f[x] \in Nat
  PROVE  SumFunctionOnSet(f, S) \in Nat
<1> DEFINE D == {T \in SUBSET S : SumFunctionOnSet(f, T) \in Nat}
<1>1. {} \in D
  BY SumType
<1>2. ASSUME NEW T \in SUBSET S, NEW x \in S \ T, T \in D  PROVE T \cup {x} \in D
  <2>1. IsFiniteSet(T) /\ \A y \in T \cup {x} : f[y] \in Int
    BY FS_Subset
  <2>2. SumFunctionOnSet(f, T \cup {x}) = SumFunctionOnSet(f, T) + f[x]
    BY <2>1, SumAdd
  <2>3. SumFunctionOnSet(f, T) \in Nat /\ f[x] \in Nat
    BY <1>2
  <2>4. SumFunctionOnSet(f, T \cup {x}) \in Nat
    BY <2>2, <2>3
  <2> QED BY <2>4
<1>3. S \in D
  <2> HIDE DEF D
  <2> QED BY <1>1, <1>2, Growing
<1> QED BY <1>3

(* A sum over more rows is no smaller. *)
LEMMA SumMonotone ==
  ASSUME NEW f, NEW S, NEW T \in SUBSET S, IsFiniteSet(S), \A x \in S : f[x] \in Nat
  PROVE  SumFunctionOnSet(f, T) <= SumFunctionOnSet(f, S)
<1>1. IsFiniteSet(T) /\ IsFiniteSet(S \ T) /\ T \cup (S \ T) = S /\ T \cap (S \ T) = {}
  BY FS_Subset
<1>2. \A x \in T \cup (S \ T) : f[x] \in Int
  OBVIOUS
<1>3. SumFunctionOnSet(f, T \cup (S \ T)) = SumFunctionOnSet(f, T) + SumFunctionOnSet(f, S \ T)
  BY <1>1, <1>2, SumApart
<1>4. SumFunctionOnSet(f, T) \in Nat /\ SumFunctionOnSet(f, S \ T) \in Nat
  BY <1>1, SumNatural
<1>5. SumFunctionOnSet(f, S) = SumFunctionOnSet(f, T) + SumFunctionOnSet(f, S \ T)
  BY <1>1, <1>3
<1> QED BY <1>4, <1>5

(* Rows may be added up by a key of theirs, and then the sums of the keys. *)
LEMMA SumByKey ==
  ASSUME NEW R, IsFiniteSet(R), NEW V, IsFiniteSet(V), NEW k \in [R -> V], NEW f, \A r \in R : f[r] \in Int
  PROVE  SumFunctionOnSet(f, R)
           = SumFunctionOnSet([v \in V |-> SumFunctionOnSet(f, {r \in R : k[r] = v})], V)
<1> DEFINE Of(v) == {r \in R : k[r] = v}
           Among(W) == {r \in R : k[r] \in W}
           g == [v \in V |-> SumFunctionOnSet(f, Of(v))]
           D == {W \in SUBSET V : SumFunctionOnSet(f, Among(W)) = SumFunctionOnSet(g, W)}
<1>1. \A v \in V : IsFiniteSet(Of(v)) /\ g[v] = SumFunctionOnSet(f, Of(v)) /\ g[v] \in Int
  <2> SUFFICES ASSUME NEW v \in V  PROVE IsFiniteSet(Of(v)) /\ SumFunctionOnSet(f, Of(v)) \in Int
    OBVIOUS
  <2>1. IsFiniteSet(Of(v)) /\ \A r \in Of(v) : f[r] \in Int
    BY FS_Subset
  <2> HIDE DEF Of
  <2> QED BY <2>1, SumType
<1> HIDE DEF g
<1>2. {} \in D
  <2>1. Among({}) = {}
    OBVIOUS
  <2>2. SumFunctionOnSet(f, {}) = 0 /\ SumFunctionOnSet(g, {}) = 0
    BY <1>1, SumType
  <2> QED BY <2>1, <2>2
<1>3. ASSUME NEW W \in SUBSET V, NEW v \in V \ W, W \in D  PROVE W \cup {v} \in D
  <2>1. /\ Among(W \cup {v}) = Among(W) \cup Of(v) /\ Among(W) \cap Of(v) = {}
        /\ IsFiniteSet(Among(W)) /\ IsFiniteSet(Of(v)) /\ \A r \in Among(W) \cup Of(v) : f[r] \in Int
    BY FS_Subset
  <2>2. IsFiniteSet(W) /\ \A w \in W \cup {v} : g[w] \in Int
    BY <1>1, FS_Subset
  <2>3. SumFunctionOnSet(g, W \cup {v}) = SumFunctionOnSet(g, W) + g[v]
    BY <2>2, SumAdd
  <2>4. SumFunctionOnSet(f, Among(W)) = SumFunctionOnSet(g, W)
    BY <1>3
  <2> HIDE DEF Among, Of
  <2>5. SumFunctionOnSet(f, Among(W) \cup Of(v)) = SumFunctionOnSet(f, Among(W)) + SumFunctionOnSet(f, Of(v))
    BY <2>1, SumApart
  <2>6. g[v] = SumFunctionOnSet(f, Of(v))
    BY <1>1
  <2> QED BY <2>1, <2>3, <2>4, <2>5, <2>6
<1>4. V \in D
  <2> HIDE DEF D
  <2> QED BY <1>2, <1>3, Growing
<1>5. Among(V) = R
  OBVIOUS
<1> QED BY <1>4, <1>5 DEF g

(* k names the elements of V by those of T, each by one. *)
Naming(k, T, V) ==
  k \in [T -> V] /\ (\A v \in V : \E t \in T : k[t] = v) /\ (\A t, u \in T : k[t] = k[u] => t = u)

(* A sum does not depend on how its terms are named. *)
LEMMA SumReindexed ==
  ASSUME NEW T, IsFiniteSet(T), NEW V, IsFiniteSet(V), NEW k, Naming(k, T, V),
         NEW f, NEW h, \A t \in T : h[t] = f[k[t]] /\ h[t] \in Int
  PROVE  SumFunctionOnSet(h, T) = SumFunctionOnSet(f, V)
<1> DEFINE Of(v) == {t \in T : k[t] = v}
           g == [v \in V |-> SumFunctionOnSet(h, Of(v))]
<1>1. SumFunctionOnSet(h, T) = SumFunctionOnSet(g, V)
  BY SumByKey DEF Naming
<1>2. ASSUME NEW v \in V  PROVE g[v] = f[v] /\ f[v] \in Int
  <2>1. PICK t \in T : k[t] = v
    BY DEF Naming
  <2>2. Of(v) = {} \cup {t}
    BY <2>1 DEF Naming
  <2>3. SumFunctionOnSet(h, {} \cup {t}) = SumFunctionOnSet(h, {}) + h[t]
    <3>1. IsFiniteSet({}) /\ t \notin {} /\ \A x \in {} \cup {t} : h[x] \in Int
      BY FS_EmptySet
    <3> QED BY <3>1, SumAdd
  <2>4. SumFunctionOnSet(h, {}) = 0 /\ h[t] \in Int
    BY SumType
  <2>5. SumFunctionOnSet(h, {} \cup {t}) = h[t]
    BY <2>3, <2>4
  <2>6. SumFunctionOnSet(h, Of(v)) = h[t]
    <3> HIDE DEF Of
    <3> QED BY <2>2, <2>5
  <2> QED BY <2>1, <2>6
<1> HIDE DEF g
<1>3. SumFunctionOnSet(g, V) = SumFunctionOnSet(f, V)
  BY <1>2, SumSame
<1> QED BY <1>1, <1>3

-----------------------------------------------------------------------------
(* Amounts *)

(* A rounded quotient is a natural, at most half a unit from the exact one. *)
LEMMA QuantizedRounds ==
  ASSUME NEW n \in Nat, NEW d \in Nat \ {0}
  PROVE  /\ Quantized(n, d) \in Nat
         /\ 2 * n - d <= d * (2 * Quantized(n, d))
         /\ d * (2 * Quantized(n, d)) <= 2 * n + d
<1> DEFINE q == n \div d
           r == n % d
<1>1. q \in Nat /\ r \in 0 .. d - 1 /\ n = d * q + r
  OBVIOUS
<1> HIDE DEF q, r
<1> DEFINE m == d * q
<1>2. m \in Nat /\ d * (2 * q) = 2 * m /\ d * (2 * (q + 1)) = 2 * m + 2 * d
  BY <1>1
<1>3. n = m + r
  BY <1>1
<1> HIDE DEF m
<1>4. CASE 2 * r > d \/ (2 * r = d /\ q % 2 = 1)
  <2>1. Quantized(n, d) = q + 1
    BY <1>4 DEF Quantized, q, r
  <2>2. 2 * n - d <= 2 * m + 2 * d /\ 2 * m + 2 * d <= 2 * n + d
    BY <1>1, <1>2, <1>3, <1>4
  <2> QED BY <2>1, <2>2, <1>1, <1>2
<1>5. CASE ~(2 * r > d \/ (2 * r = d /\ q % 2 = 1))
  <2>1. Quantized(n, d) = q
    BY <1>5 DEF Quantized, q, r
  <2>2. 2 * n - d <= 2 * m /\ 2 * m <= 2 * n + d
    BY <1>1, <1>2, <1>3, <1>5
  <2> QED BY <2>1, <2>2, <1>1, <1>2
<1> QED BY <1>4, <1>5

(* Three parts of a whole, each rounded by itself to hundredths of a percent. *)
LEMMA SharesOfAWhole ==
  ASSUME NEW a \in Nat, NEW b \in Nat, NEW c \in Nat, NEW total \in Nat \ {0}, total = a + b + c
  PROVE  Quantized(a * 10000, total) + Quantized(b * 10000, total) + Quantized(c * 10000, total) \in 9999 .. 10001
<1> DEFINE x == Quantized(a * 10000, total)
           y == Quantized(b * 10000, total)
           z == Quantized(c * 10000, total)
<1>1. /\ x \in Nat /\ 20000 * a - total <= total * (2 * x) /\ total * (2 * x) <= 20000 * a + total
  <2>1. a * 10000 \in Nat /\ 2 * (a * 10000) = 20000 * a
    OBVIOUS
  <2> QED BY <2>1, QuantizedRounds
<1>2. /\ y \in Nat /\ 20000 * b - total <= total * (2 * y) /\ total * (2 * y) <= 20000 * b + total
  <2>1. b * 10000 \in Nat /\ 2 * (b * 10000) = 20000 * b
    OBVIOUS
  <2> QED BY <2>1, QuantizedRounds
<1>3. /\ z \in Nat /\ 20000 * c - total <= total * (2 * z) /\ total * (2 * z) <= 20000 * c + total
  <2>1. c * 10000 \in Nat /\ 2 * (c * 10000) = 20000 * c
    OBVIOUS
  <2> QED BY <2>1, QuantizedRounds
<1> HIDE DEF x, y, z
<1> DEFINE s == x + y + z
<1>4. s \in Nat /\ total * (2 * s) = total * (2 * x) + total * (2 * y) + total * (2 * z)
  BY <1>1, <1>2, <1>3
<1>5. 19997 * total <= total * (2 * s) /\ total * (2 * s) <= 20003 * total
  <2> DEFINE xx == total * (2 * x)
             yy == total * (2 * y)
             zz == total * (2 * z)
  <2>1. xx \in Int /\ yy \in Int /\ zz \in Int
    BY <1>1, <1>2, <1>3
  <2> HIDE DEF xx, yy, zz
  <2>2. 19997 * total <= xx + yy + zz /\ xx + yy + zz <= 20003 * total
    BY <2>1, <1>1, <1>2, <1>3 DEF xx, yy, zz
  <2> QED BY <2>2, <1>4 DEF xx, yy, zz
<1> HIDE DEF s
<1>6. ~(2 * s > 20003)
  <2> SUFFICES ASSUME 2 * s >= 20004  PROVE FALSE
    BY <1>4
  <2>1. total * (2 * s) >= total * 20004
    BY <1>4
  <2> QED BY <2>1, <1>4, <1>5
<1>7. ~(2 * s < 19997)
  <2> SUFFICES ASSUME 2 * s <= 19996  PROVE FALSE
    BY <1>4
  <2>1. total * (2 * s) <= total * 19996
    BY <1>4
  <2> QED BY <2>1, <1>4, <1>5
<1>8. s \in 9999 .. 10001
  BY <1>4, <1>6, <1>7
<1> QED BY <1>8 DEF s, x, y, z

(* The reserve of a closing, under rules of which none is for every 0 km. *)
LEMMA ReserveIsNatural ==
  ASSUME NEW v, NEW distance \in Nat, IsFiniteSet(rules),
         \A r \in rules : r.cost \in Nat /\ r.interval \in Nat \ {0}
  PROVE  ReserveOf(v, distance) \in Nat
<1> DEFINE of == {r \in rules : r.vehicle = v}
           U == Nat \X (Nat \ {0})
           op == [p \in of \X U |-> <<p[2][1] * p[1].interval + p[1].cost * p[2][2], p[2][2] * p[1].interval>>]
           IsRate(g) == g = [s \in SUBSET of |-> IF s = {} THEN <<0, 1>>
                             ELSE <<g[s \ {Taken(s)}][1] * Taken(s).interval + Taken(s).cost * g[s \ {Taken(s)}][2],
                                    g[s \ {Taken(s)}][2] * Taken(s).interval>>]
           iter == CHOOSE g : IsRate(g)
<1>1. IsFiniteSet(of) /\ \A r \in of : r.cost \in Nat /\ r.interval \in Nat \ {0}
  BY FS_Subset
<1>2. ASSUME NEW r \in of, NEW u \in U
      PROVE  <<u[1] * r.interval + r.cost * u[2], u[2] * r.interval>> \in U
  <2>1. u[1] \in Nat /\ u[2] \in Nat \ {0} /\ r.cost \in Nat /\ r.interval \in Nat \ {0}
    BY <1>1
  <2>2. u[1] * r.interval \in Nat /\ r.cost * u[2] \in Nat /\ u[2] * r.interval \in Nat \ {0}
    BY <2>1
  <2> QED BY <2>2
<1> HIDE DEF of, U
<1>3. op \in [of \X U -> U]
  BY <1>2
<1>4. <<0, 1>> \in U
  BY DEF U
<1>5. \A s \in SUBSET of : s # {} => Taken(s) \in of
  BY DEF Taken
<1>6. \E g : IsRate(g)
  <2>1. PICK g \in [SUBSET of -> U] : Folding(op, <<0, 1>>, g, of)
    <3> HIDE DEF op
    <3> QED BY <1>1, <1>3, <1>4, FoldExists
  <2>2. ASSUME NEW s \in SUBSET of
        PROVE  g[s] = IF s = {} THEN <<0, 1>>
                      ELSE <<g[s \ {Taken(s)}][1] * Taken(s).interval + Taken(s).cost * g[s \ {Taken(s)}][2],
                             g[s \ {Taken(s)}][2] * Taken(s).interval>>
    <3>1. g[s] = IF s = {} THEN <<0, 1>> ELSE op[<<Taken(s), g[s \ {Taken(s)}]>>]
      BY <2>1 DEF Folding
    <3>2. s = {} \/ <<Taken(s), g[s \ {Taken(s)}]>> \in of \X U
      BY <1>5, <2>1
    <3> QED BY <3>1, <3>2
  <2>3. g = [s \in SUBSET of |-> g[s]]
    BY <2>1
  <2>4. IsRate(g)
    BY <2>2, <2>3
  <2> QED BY <2>4
<1>7. IsRate(iter)
  <2> HIDE DEF IsRate
  <2> QED BY <1>6
<1>8. ReserveOf(v, distance) = Quantized(distance * iter[of][1], iter[of][2])
  BY DEF ReserveOf, FoldSet, MapThenFoldSet, Taken, of
<1> HIDE DEF iter
<1>9. iter[of] \in U
  <2> DEFINE D == {s \in SUBSET of : iter[s] \in U}
  <2>1. ASSUME NEW s \in SUBSET of, s = {} \/ s \ {Taken(s)} \in D  PROVE s \in D
    <3>1. iter[s] = IF s = {} THEN <<0, 1>>
                    ELSE <<iter[s \ {Taken(s)}][1] * Taken(s).interval + Taken(s).cost * iter[s \ {Taken(s)}][2],
                           iter[s \ {Taken(s)}][2] * Taken(s).interval>>
      BY <1>7
    <3>2. CASE s = {}
      <4>1. iter[s] = <<0, 1>>
        BY <3>1, <3>2
      <4> QED BY <4>1, <1>4
    <3>3. CASE s # {}
      <4>1. iter[s \ {Taken(s)}] \in U /\ Taken(s) \in of
        BY <3>3, <2>1, <1>5
      <4>2. iter[s] \in U
        BY <3>1, <3>3, <4>1, <1>2
      <4> QED BY <4>2
    <3> QED BY <3>2, <3>3
  <2>2. \A s \in SUBSET of : s \in D
    <3> HIDE DEF D
    <3> QED BY <1>1, <2>1, Unfolding
  <2>3. of \in D
    BY <2>2
  <2> QED BY <2>3
<1>10. iter[of][1] \in Nat /\ iter[of][2] \in Nat \ {0}
  BY <1>9 DEF U
<1>11. distance * iter[of][1] \in Nat
  BY <1>10
<1> QED BY <1>8, <1>10, <1>11, QuantizedRounds

-----------------------------------------------------------------------------
(* The calendar *)

(* A set of naturals with a bound has a greatest element, and Max finds it. *)
LEMMA MaxOfBounded ==
  ASSUME NEW b \in Nat, NEW S, S \subseteq 0 .. b, S # {}
  PROVE  Max(S) \in S /\ \A y \in S : y <= Max(S)
<1> DEFINE T == {b - x : x \in S}
<1>1. PICK m \in T : \A y \in T : m <= y
  <2>1. \A x \in S : b - x \in Nat
    OBVIOUS
  <2>2. T \subseteq Nat /\ T # {}
    BY <2>1
  <2> HIDE DEF T
  <2> QED BY <2>2, LeastNatural
<1>2. PICK x \in S : m = b - x
  OBVIOUS
<1>3. ASSUME NEW y \in S  PROVE x >= y
  <2>1. m <= b - y
    BY <1>1
  <2> QED BY <2>1, <1>2
<1> QED BY <1>3 DEF Max

(* The month of a day begins at the last start and ends before the next one. *)
LEMMA MonthBounds ==
  ASSUME NEW d \in Days
  PROVE  LET w == MonthOf(d) IN
         /\ w.from \in Days /\ w.from <= d /\ w.to \in Days /\ d <= w.to
         /\ \A s \in MonthStarts : s > d => w.to < s
<1> DEFINE begun == {s \in MonthStarts : s <= d}
           ends == {s - 1 : s \in {s \in MonthStarts : s > d}} \cup {MaxDay}
<1>1. (\A s \in MonthStarts : s \in Nat) /\ 1 \in MonthStarts /\ MaxDay \in Nat /\ d \in Nat /\ 1 <= d /\ d <= MaxDay
  BY CalendarAssumption DEF Days
<1>2. begun \subseteq 0 .. d /\ 1 \in begun
  <2>1. \A s \in begun : s \in 0 .. d
    BY <1>1
  <2> QED BY <2>1, <1>1
<1>3. Max(begun) \in begun /\ \A y \in begun : y <= Max(begun)
  <2> HIDE DEF begun
  <2> QED BY <1>1, <1>2, MaxOfBounded
<1>4. ends \subseteq Nat /\ ends # {}
  BY <1>1
<1>5. Min(ends) \in ends /\ \A y \in ends : Min(ends) <= y
  <2> HIDE DEF ends
  <2> QED BY <1>4, LeastNatural DEF Min
<1>6. MonthOf(d).from = Max(begun) /\ MonthOf(d).to = Min(ends)
  BY DEF MonthOf, Window
<1>7. Max(begun) \in 1 .. d
  BY <1>1, <1>2, <1>3
<1>8. \A y \in ends : d <= y
  BY <1>1
<1>9. Min(ends) <= MaxDay /\ d <= Min(ends) /\ Min(ends) \in Nat
  BY <1>4, <1>5, <1>8
<1>10. \A s \in MonthStarts : s > d => Min(ends) < s
  <2> SUFFICES ASSUME NEW s \in MonthStarts, s > d  PROVE Min(ends) < s
    OBVIOUS
  <2>1. s - 1 \in ends
    OBVIOUS
  <2>2. Min(ends) <= s - 1
    BY <2>1, <1>5
  <2> HIDE DEF ends
  <2> QED BY <2>2, <1>1, <1>9
<1> HIDE DEF begun, ends
<1> QED BY <1>1, <1>6, <1>7, <1>9, <1>10 DEF Days

(* The last day of a month is in that month. *)
LEMMA MonthOfItsEnd ==
  ASSUME NEW d \in Days
  PROVE  MonthOf(MonthOf(d).to) = MonthOf(d)
<1> DEFINE e == MonthOf(d).to
<1>1. e \in Days /\ d <= e /\ \A s \in MonthStarts : s > d => e < s
  BY MonthBounds
<1> HIDE DEF e
<1>2. (\A s \in MonthStarts : s \in Nat) /\ d \in Nat /\ e \in Nat
  BY <1>1, CalendarAssumption DEF Days
<1>3. \A s \in MonthStarts : (s <= e <=> s <= d) /\ (s > e <=> s > d)
  <2> SUFFICES ASSUME NEW s \in MonthStarts  PROVE (s <= e <=> s <= d) /\ (s > e <=> s > d)
    OBVIOUS
  <2>1. s \in Nat /\ (s > d => e < s)
    BY <1>1, <1>2
  <2> QED BY <2>1, <1>1, <1>2
<1>4. /\ {s \in MonthStarts : s <= e} = {s \in MonthStarts : s <= d}
      /\ {s \in MonthStarts : s > e} = {s \in MonthStarts : s > d}
  BY <1>3
<1>5. MonthOf(e) = MonthOf(d)
  BY <1>4 DEF MonthOf
<1> QED BY <1>5 DEF e

(* The week of a day begins at the last Monday. *)
LEMMA WeekBounds ==
  ASSUME NEW d \in Days
  PROVE  PeriodTo(d, "week").from \in Nat /\ PeriodTo(d, "week").from <= d
<1> DEFINE begun == {s \in Mondays : s <= d}
<1>1. (\A s \in Mondays : s \in Nat) /\ 1 \in Mondays /\ d \in Nat /\ 1 <= d
  BY CalendarAssumption DEF Days
<1>2. begun \subseteq 0 .. d /\ 1 \in begun
  <2>1. \A s \in begun : s \in 0 .. d
    BY <1>1
  <2> QED BY <2>1, <1>1
<1>3. Max(begun) \in begun
  <2> HIDE DEF begun
  <2> QED BY <1>1, <1>2, MaxOfBounded
<1>4. PeriodTo(d, "week").from = Max(begun)
  BY DEF PeriodTo
<1> QED BY <1>1, <1>3, <1>4

(* Every period ends at the day it is read for, and begins no later. *)
LEMMA PeriodBounds ==
  ASSUME NEW d \in Days, NEW n \in 1 .. 3
  PROVE  /\ Periods(d)[n].from \in Nat /\ Periods(d)[n].to = d /\ Periods(d)[n].from <= d
         /\ n = 1 => Periods(d)[n].from = d
         /\ n = 3 => Periods(d)[n].from = MonthOf(d).from
         /\ Periods(d)[n].name = <<"day", "week", "month">>[n]
<1>1. d \in Nat
  BY CalendarAssumption DEF Days
<1>2. CASE n = 1
  BY <1>1, <1>2 DEF Periods, PeriodTo
<1>3. CASE n = 2
  <2>1. Periods(d)[n] = PeriodTo(d, "week") /\ Periods(d)[n].to = d /\ Periods(d)[n].name = "week"
    BY <1>3 DEF Periods, PeriodTo
  <2> QED BY <2>1, <1>3, WeekBounds
<1>4. CASE n = 3
  <2>1. Periods(d)[n] = PeriodTo(d, "month") /\ Periods(d)[n].to = d /\ Periods(d)[n].name = "month"
    BY <1>4 DEF Periods, PeriodTo
  <2>2. PeriodTo(d, "month").from = MonthOf(d).from
    BY DEF PeriodTo
  <2>3. MonthOf(d).from \in Nat /\ MonthOf(d).from <= d
    BY MonthBounds, CalendarAssumption DEF Days
  <2> QED BY <2>1, <2>2, <2>3, <1>4
<1> QED BY <1>2, <1>3, <1>4

-----------------------------------------------------------------------------
(* The sums of a statement over any ledgers *)

RowsIn(C, S, w) == {r \in C : r.vehicle \in S /\ In(r, w)}
Column(x, rows) == SumFunction([r \in rows |-> r[x]])

SumsOf(C, S, w) ==
  [distance |-> Column("distance", RowsIn(C, S, w)), revenue |-> Column("revenue", RowsIn(C, S, w)),
   fuel |-> Column("fuel", RowsIn(C, S, w)), reserve |-> Column("reserve", RowsIn(C, S, w)),
   net |-> Column("net", RowsIn(C, S, w))]
SpentOf(E, S, w) == Column("amount", RowsIn(E, S, w))

(* A sum of a column is the sum of a function over the rows. *)
LEMMA ColumnIsSum ==
  ASSUME NEW x, NEW rows, NEW T \in SUBSET rows, IsFiniteSet(rows), \A r \in rows : r[x] \in Int
  PROVE  Column(x, T) = SumFunctionOnSet([r \in rows |-> r[x]], T)
<1> DEFINE f == [r \in T |-> r[x]]
           h == [r \in rows |-> r[x]]
<1>1. IsFiniteSet(T) /\ \A r \in T : h[r] \in Int /\ f[r] = h[r]
  BY FS_Subset
<1>2. DOMAIN f = T
  OBVIOUS
<1>3. Column(x, T) = SumFunctionOnSet(f, T)
  BY <1>2 DEF Column, SumFunction
<1> HIDE DEF f, h
<1>4. SumFunctionOnSet(f, T) = SumFunctionOnSet(h, T)
  BY <1>1, SumSame
<1> QED BY <1>3, <1>4 DEF h

(* Columns without negative amounts add up to naturals, and more rows to no less. *)
LEMMA ColumnNatural ==
  ASSUME NEW x, NEW rows, NEW T \in SUBSET rows, IsFiniteSet(rows), \A r \in rows : r[x] \in Nat
  PROVE  Column(x, T) \in Nat /\ Column(x, rows) \in Nat /\ Column(x, T) <= Column(x, rows)
<1> DEFINE h == [r \in rows |-> r[x]]
<1>1. \A r \in rows : h[r] \in Nat /\ r[x] \in Int
  OBVIOUS
<1>2. Column(x, T) = SumFunctionOnSet(h, T) /\ Column(x, rows) = SumFunctionOnSet(h, rows)
  BY <1>1, ColumnIsSum
<1>3. IsFiniteSet(T)
  BY FS_Subset
<1> HIDE DEF h
<1>4. SumFunctionOnSet(h, T) \in Nat /\ SumFunctionOnSet(h, rows) \in Nat
  BY <1>1, <1>3, SumNatural
<1>5. SumFunctionOnSet(h, T) <= SumFunctionOnSet(h, rows)
  BY <1>1, SumMonotone
<1> QED BY <1>2, <1>4, <1>5

(* A column may be added up vehicle by vehicle. *)
LEMMA ColumnByVehicle ==
  ASSUME NEW x, NEW rows, IsFiniteSet(rows), \A r \in rows : r[x] \in Int /\ r.vehicle \in Vehicles
  PROVE  Column(x, rows)
           = SumFunctionOnSet([v \in Vehicles |-> Column(x, {r \in rows : r.vehicle = v})], Vehicles)
<1> DEFINE h == [r \in rows |-> r[x]]
           k == [r \in rows |-> r.vehicle]
           Of(v) == {r \in rows : k[r] = v}
<1>1. IsFiniteSet(Vehicles) /\ k \in [rows -> Vehicles] /\ \A r \in rows : h[r] \in Int
  BY VehiclesAssumption
<1>2. SumFunctionOnSet(h, rows) = SumFunctionOnSet([v \in Vehicles |-> SumFunctionOnSet(h, Of(v))], Vehicles)
  <2> HIDE DEF h, k
  <2> QED BY <1>1, SumByKey
<1>3. Column(x, rows) = SumFunctionOnSet(h, rows)
  BY ColumnIsSum
<1>4. ASSUME NEW v \in Vehicles  PROVE Column(x, {r \in rows : r.vehicle = v}) = SumFunctionOnSet(h, Of(v))
  <2>1. {r \in rows : r.vehicle = v} = Of(v) /\ Of(v) \in SUBSET rows
    OBVIOUS
  <2>2. Column(x, Of(v)) = SumFunctionOnSet(h, Of(v))
    <3> HIDE DEF Of
    <3> QED BY <2>1, ColumnIsSum
  <2> QED BY <2>1, <2>2
<1>5. [v \in Vehicles |-> Column(x, {r \in rows : r.vehicle = v})]
        = [v \in Vehicles |-> SumFunctionOnSet(h, Of(v))]
  BY <1>4
<1> QED BY <1>2, <1>3, <1>5

(* The stored profits add up to what is left of the revenue. *)
LEMMA ColumnNet ==
  ASSUME NEW rows, IsFiniteSet(rows),
         \A r \in rows : /\ r.revenue \in Nat /\ r.fuel \in Nat /\ r.reserve \in Nat
                         /\ r.net = NetProfit(r.revenue, r.fuel, r.reserve)
  PROVE  Column("net", rows) = Column("revenue", rows) - Column("fuel", rows) - Column("reserve", rows)
<1> DEFINE revenue == [r \in rows |-> r.revenue]
           fuel == [r \in rows |-> r.fuel]
           reserve == [r \in rows |-> r.reserve]
           costs == [r \in rows |-> r.fuel + r.reserve]
           net == [r \in rows |-> r.net]
<1>1. \A r \in rows : /\ revenue[r] \in Int /\ fuel[r] \in Int /\ reserve[r] \in Int /\ costs[r] \in Int
                      /\ net[r] \in Int /\ costs[r] = fuel[r] + reserve[r] /\ revenue[r] = net[r] + costs[r]
  BY DEF NetProfit
<1>2. /\ Column("net", rows) = SumFunctionOnSet(net, rows)
      /\ Column("revenue", rows) = SumFunctionOnSet(revenue, rows)
      /\ Column("fuel", rows) = SumFunctionOnSet(fuel, rows)
      /\ Column("reserve", rows) = SumFunctionOnSet(reserve, rows)
  BY DEF Column, SumFunction
<1> HIDE DEF revenue, fuel, reserve, costs, net
<1>3. SumFunctionOnSet(costs, rows) = SumFunctionOnSet(fuel, rows) + SumFunctionOnSet(reserve, rows)
  BY <1>1, SumLinear
<1>4. SumFunctionOnSet(revenue, rows) = SumFunctionOnSet(net, rows) + SumFunctionOnSet(costs, rows)
  BY <1>1, SumLinear
<1>5. /\ SumFunctionOnSet(net, rows) \in Int /\ SumFunctionOnSet(fuel, rows) \in Int
      /\ SumFunctionOnSet(reserve, rows) \in Int
  BY <1>1, SumType
<1> QED BY <1>2, <1>3, <1>4, <1>5

-----------------------------------------------------------------------------
(* The books: what is committed, and how far each report has come. *)

ClosingsFit(C) ==
  IsFiniteSet(C) /\
  \A c \in C : /\ c.vehicle \in Vehicles /\ c.day \in Days
               /\ c.distance \in Nat /\ c.revenue \in Nat /\ c.fuel \in Nat /\ c.reserve \in Nat
               /\ c.net = NetProfit(c.revenue, c.fuel, c.reserve)
ExpensesFit(E) ==
  IsFiniteSet(E) /\ \A e \in E : e.vehicle \in Vehicles \cup {NoVehicle} /\ e.day \in Days /\ e.amount \in Nat
RulesFit(R) ==
  IsFiniteSet(R) /\ \A r \in R : r.vehicle \in Vehicles /\ r.cost \in Nat /\ r.interval \in Nat \ {0}

Values == Nat \cup [distance : Nat, revenue : Nat, fuel : Nat, reserve : Nat, net : Int]

ReportFits(t) ==
  /\ pc[t] \in {"reading", "answered"} =>
       /\ input[t].kind \in Reports /\ reference[t] \in Days
       /\ input[t].kind = "profitability" => input[t].vehicle \in Vehicles
  /\ pc[t] = "reading" => Len(answer[t]) < Statements(input[t].kind)
  /\ pc[t] = "answered" => Len(answer[t]) = Statements(input[t].kind)
  /\ pc[t] \notin {"reading", "answered"} => answer[t] = <<>>

(* The inductive invariant about the books.  A row is of a request that has    *)
(* been written, so that each write adds one.                                  *)
BookInv ==
  /\ input \in Scenarios /\ today \in Days
  /\ ClosingsFit(closings) /\ ExpensesFit(expenses) /\ RulesFit(rules)
  /\ \A row \in closings \cup expenses : row.id \in Requests /\ pc[row.id] = "written"
  /\ odometer \in [Vehicles -> Nat]
  /\ pc \in [Requests -> {"idle", "reading", "answered", "refused", "written"}]
  /\ reference \in [Requests -> Days \cup {0}]
  /\ answer \in [Requests -> Seq(Values)]
  /\ read = [t \in Requests |-> read[t]]
  /\ \A t \in Requests : ReportFits(t)

(* A statement over any ledgers. *)
StatementOf(i, d, k, C, E) ==
  LET p == Periods(d)[(k + 1) \div 2]
  IN CASE i.kind = "monthly"       -> SumsOf(C, Vehicles, MonthOf(d))
       [] i.kind = "profitability" -> IF k = 1 THEN SumsOf(C, {i.vehicle}, Window(i.from, i.to))
                                               ELSE SpentOf(E, {i.vehicle}, Window(i.from, i.to))
       [] i.kind = "sampling"      -> IF k % 2 = 1 THEN SumsOf(C, Vehicles, p)
                                               ELSE SpentOf(E, Vehicles \cup {NoVehicle}, p)

(* The k-th answer of a sampling: the sums of closings, or that of expenses. *)
Proper(k, a)    == IF k % 2 = 1 THEN a.fuel \in Nat /\ a.reserve \in Nat ELSE a \in Nat
AtMost(k, a, b) == IF k % 2 = 1 THEN a.fuel <= b.fuel /\ a.reserve <= b.reserve ELSE a <= b
Wider(d, j, k)  == Periods(d)[(k + 1) \div 2].from <= Periods(d)[(j + 1) \div 2].from

(* The inductive invariant of a sampling: no answer shows more than the same   *)
(* statement would now, nor more than a later answer for a wider period.       *)
NestInv ==
  \A t \in Requests : input[t].kind = "sampling" => \A k \in 1 .. Len(answer[t]) :
    /\ Proper(k, answer[t][k])
    /\ AtMost(k, answer[t][k], StatementOf(input[t], reference[t], k, closings, expenses))
    /\ \A j \in 1 .. k : j % 2 = k % 2 /\ Wider(reference[t], j, k) => AtMost(k, answer[t][j], answer[t][k])

Rows == Cardinality(closings) + Cardinality(expenses)

(* The ledgers that there were when there were n rows, for each n up to now:    *)
(* an answer that saw no other number of rows was computed from those.         *)
IsHistory(C, E) ==
  /\ C = [n \in Nat |-> C[n]] /\ E = [n \in Nat |-> E[n]]
  /\ \A n \in Nat : ClosingsFit(C[n]) /\ ExpensesFit(E[n])
  /\ C[Rows] = closings /\ E[Rows] = expenses
  /\ \A t \in Requests : answer[t] # <<>> =>
       \/ read[t] = {} /\ Len(answer[t]) > 1
       \/ \E n \in 0 .. Rows :
            /\ read[t] = {n}
            /\ \A k \in 1 .. Len(answer[t]) : answer[t][k] = StatementOf(input[t], reference[t], k, C[n], E[n])
HistoryInv == \E C, E : IsHistory(C, E)

(* What a SELECT over operational_records returns. *)
LEMMA SumsTyped ==
  ASSUME NEW C, ClosingsFit(C), NEW S, NEW w
  PROVE  SumsOf(C, S, w) \in [distance : Nat, revenue : Nat, fuel : Nat, reserve : Nat, net : Int]
<1> DEFINE rows == RowsIn(C, S, w)
<1>1. IsFiniteSet(rows) /\ rows \subseteq C
  BY FS_Subset DEF RowsIn, ClosingsFit
<1>2. \A r \in rows : /\ r.distance \in Nat /\ r.revenue \in Nat /\ r.fuel \in Nat /\ r.reserve \in Nat
                      /\ r.net \in Int
  BY <1>1 DEF ClosingsFit, NetProfit
<1> HIDE DEF rows
<1>3. rows \in SUBSET rows
  OBVIOUS
<1>4. Column("distance", rows) \in Nat
  BY <1>1, <1>2, <1>3, ColumnNatural
<1>5. Column("revenue", rows) \in Nat
  BY <1>1, <1>2, <1>3, ColumnNatural
<1>6. Column("fuel", rows) \in Nat
  BY <1>1, <1>2, <1>3, ColumnNatural
<1>7. Column("reserve", rows) \in Nat
  BY <1>1, <1>2, <1>3, ColumnNatural
<1>8. Column("net", rows) \in Int
  <2>1. Column("net", rows) = SumFunctionOnSet([r \in rows |-> r["net"]], rows)
    BY <1>1, <1>2, <1>3, ColumnIsSum
  <2>2. \A r \in rows : [x \in rows |-> x["net"]][r] \in Int
    BY <1>2
  <2> QED BY <1>1, <2>1, <2>2, SumType
<1> QED BY <1>4, <1>5, <1>6, <1>7, <1>8 DEF SumsOf, rows

(* What a SELECT over expenses returns. *)
LEMMA SpentTyped ==
  ASSUME NEW E, ExpensesFit(E), NEW S, NEW w
  PROVE  SpentOf(E, S, w) \in Nat
<1> DEFINE rows == RowsIn(E, S, w)
<1>1. IsFiniteSet(rows) /\ rows \subseteq E
  BY FS_Subset DEF RowsIn, ExpensesFit
<1>2. \A r \in rows : r.amount \in Nat
  BY <1>1 DEF ExpensesFit
<1> HIDE DEF rows
<1>3. Column("amount", rows) \in Nat
  BY <1>1, <1>2, ColumnNatural
<1> QED BY <1>3 DEF SpentOf, rows

(* More closings and a wider period never show less. *)
LEMMA SumsGrow ==
  ASSUME NEW C, NEW B, B \subseteq C, ClosingsFit(C), NEW S, NEW u, NEW w,
         u.from \in Int, u.to \in Int, w.from \in Int, w.to \in Int, w.from <= u.from, u.to <= w.to
  PROVE  SumsOf(B, S, u).fuel <= SumsOf(C, S, w).fuel /\ SumsOf(B, S, u).reserve <= SumsOf(C, S, w).reserve
<1> DEFINE rows == RowsIn(C, S, w)
           some == RowsIn(B, S, u)
<1>1. IsFiniteSet(rows) /\ rows \subseteq C
  BY FS_Subset DEF RowsIn, ClosingsFit
<1>2. \A r \in rows : r.fuel \in Nat /\ r.reserve \in Nat
  BY <1>1 DEF ClosingsFit
<1>3. some \in SUBSET rows
  <2> SUFFICES ASSUME NEW r \in B, u.from <= r.day, r.day <= u.to  PROVE w.from <= r.day /\ r.day <= w.to
    BY DEF RowsIn, In
  <2>1. r.day \in Int
    BY CalendarAssumption DEF ClosingsFit, Days
  <2> QED BY <2>1
<1> HIDE DEF rows, some
<1>4. Column("fuel", some) <= Column("fuel", rows)
  BY <1>1, <1>2, <1>3, ColumnNatural
<1>5. Column("reserve", some) <= Column("reserve", rows)
  BY <1>1, <1>2, <1>3, ColumnNatural
<1> QED BY <1>4, <1>5 DEF SumsOf, rows, some

(* More expenses and a wider period never show less. *)
LEMMA SpentGrows ==
  ASSUME NEW E, NEW B, B \subseteq E, ExpensesFit(E), NEW S, NEW u, NEW w,
         u.from \in Int, u.to \in Int, w.from \in Int, w.to \in Int, w.from <= u.from, u.to <= w.to
  PROVE  SpentOf(B, S, u) <= SpentOf(E, S, w)
<1> DEFINE rows == RowsIn(E, S, w)
           some == RowsIn(B, S, u)
<1>1. IsFiniteSet(rows) /\ rows \subseteq E
  BY FS_Subset DEF RowsIn, ExpensesFit
<1>2. \A r \in rows : r.amount \in Nat
  BY <1>1 DEF ExpensesFit
<1>3. some \in SUBSET rows
  <2> SUFFICES ASSUME NEW r \in B, u.from <= r.day, r.day <= u.to  PROVE w.from <= r.day /\ r.day <= w.to
    BY DEF RowsIn, In
  <2>1. r.day \in Int
    BY CalendarAssumption DEF ExpensesFit, Days
  <2> QED BY <2>1
<1> HIDE DEF rows, some
<1>4. Column("amount", some) <= Column("amount", rows)
  BY <1>1, <1>2, <1>3, ColumnNatural
<1> QED BY <1>4 DEF SpentOf, rows, some

(* The statements of the model are those over what is committed. *)
LEMMA StatementIs ==
  ASSUME NEW t, NEW k
  PROVE  Statement(t, k) = StatementOf(input[t], reference[t], k, closings, expenses)
<1>1. ASSUME NEW S, NEW w
      PROVE  Operations(S, w) = SumsOf(closings, S, w) /\ Spent(S, w) = SpentOf(expenses, S, w)
  BY DEF Operations, Spent, SumsOf, SpentOf, Column, RowsIn
<1> QED BY <1>1 DEF Statement, StatementOf

(* Every statement that a report makes has a value. *)
LEMMA StatementTyped ==
  ASSUME NEW i, i.kind \in Reports, NEW d \in Days, NEW k \in 1 .. Statements(i.kind),
         NEW C, ClosingsFit(C), NEW E, ExpensesFit(E)
  PROVE  /\ k \in 1 .. 6
         /\ StatementOf(i, d, k, C, E) \in Values
         /\ i.kind = "sampling" => Proper(k, StatementOf(i, d, k, C, E))
<1> USE SumsTyped, SpentTyped
<1>1. CASE i.kind = "monthly"
  <2>1. Statements(i.kind) = 1 /\ StatementOf(i, d, k, C, E) = SumsOf(C, Vehicles, MonthOf(d))
    BY <1>1 DEF Statements, StatementOf
  <2> QED BY <1>1, <2>1 DEF Values
<1>2. CASE i.kind = "profitability"
  <2>1. Statements(i.kind) = 2
    BY <1>2 DEF Statements
  <2>2. CASE k = 1
    <3>1. StatementOf(i, d, k, C, E) = SumsOf(C, {i.vehicle}, Window(i.from, i.to))
      BY <1>2, <2>2 DEF StatementOf
    <3> QED BY <1>2, <2>1, <3>1 DEF Values
  <2>3. CASE k # 1
    <3>1. StatementOf(i, d, k, C, E) = SpentOf(E, {i.vehicle}, Window(i.from, i.to))
      BY <1>2, <2>3 DEF StatementOf
    <3> QED BY <1>2, <2>1, <3>1 DEF Values
  <2> QED BY <2>2, <2>3
<1>3. CASE i.kind = "sampling"
  <2>1. Statements(i.kind) = 6
    BY <1>3 DEF Statements
  <2> DEFINE p == Periods(d)[(k + 1) \div 2]
  <2>2. CASE k % 2 = 1
    <3>1. StatementOf(i, d, k, C, E) = SumsOf(C, Vehicles, p)
      BY <1>3, <2>2 DEF StatementOf
    <3>2. SumsOf(C, Vehicles, p) \in [distance : Nat, revenue : Nat, fuel : Nat, reserve : Nat, net : Int]
      OBVIOUS
    <3> HIDE DEF p
    <3> QED BY <2>1, <2>2, <3>1, <3>2 DEF Values, Proper
  <2>3. CASE k % 2 # 1
    <3>1. StatementOf(i, d, k, C, E) = SpentOf(E, Vehicles \cup {NoVehicle}, p)
      BY <1>3, <2>3 DEF StatementOf
    <3>2. SpentOf(E, Vehicles \cup {NoVehicle}, p) \in Nat
      OBVIOUS
    <3> HIDE DEF p
    <3> QED BY <2>1, <2>3, <3>1, <3>2 DEF Values, Proper
  <2> QED BY <2>2, <2>3
<1> QED BY <1>1, <1>2, <1>3 DEF Reports

(* The statements of a sampling grow with the ledgers and with the period.     *)
LEMMA SamplingGrows ==
  ASSUME NEW i, i.kind = "sampling", NEW d \in Days, NEW j \in 1 .. 6, NEW k \in 1 .. 6, j % 2 = k % 2,
         Wider(d, j, k), NEW B, NEW C, B \subseteq C, ClosingsFit(C), NEW A, NEW E, A \subseteq E, ExpensesFit(E)
  PROVE  AtMost(k, StatementOf(i, d, j, B, A), StatementOf(i, d, k, C, E))
<1> DEFINE p == Periods(d)[(j + 1) \div 2]
           q == Periods(d)[(k + 1) \div 2]
<1>1. (j + 1) \div 2 \in 1 .. 3 /\ (k + 1) \div 2 \in 1 .. 3
  OBVIOUS
<1>2. p.from \in Int /\ p.to = d /\ q.from \in Int /\ q.to = d /\ d \in Int
  BY <1>1, PeriodBounds, CalendarAssumption DEF Days
<1>3. q.from <= p.from
  BY DEF Wider
<1>4. CASE k % 2 = 1
  <2>1. StatementOf(i, d, j, B, A) = SumsOf(B, Vehicles, p) /\ StatementOf(i, d, k, C, E) = SumsOf(C, Vehicles, q)
    BY <1>4 DEF StatementOf
  <2> HIDE DEF p, q
  <2>2. /\ SumsOf(B, Vehicles, p).fuel <= SumsOf(C, Vehicles, q).fuel
        /\ SumsOf(B, Vehicles, p).reserve <= SumsOf(C, Vehicles, q).reserve
    BY <1>2, <1>3, SumsGrow
  <2> QED BY <1>4, <2>1, <2>2 DEF AtMost
<1>5. CASE k % 2 # 1
  <2>1. /\ StatementOf(i, d, j, B, A) = SpentOf(A, Vehicles \cup {NoVehicle}, p)
        /\ StatementOf(i, d, k, C, E) = SpentOf(E, Vehicles \cup {NoVehicle}, q)
    BY <1>5 DEF StatementOf
  <2> HIDE DEF p, q
  <2>2. SpentOf(A, Vehicles \cup {NoVehicle}, p) <= SpentOf(E, Vehicles \cup {NoVehicle}, q)
    BY <1>2, <1>3, SpentGrows
  <2> QED BY <1>5, <2>1, <2>2 DEF AtMost
<1> QED BY <1>4, <1>5

(* What a request asks for is what the schemas accept. *)
LEMMA InputIsValid ==
  ASSUME BookInv, NEW t \in Requests
  PROVE  Valid(input[t]) /\ IsFiniteSet(Requests)
BY ScenariosAssumption DEF BookInv, Requests

(* The end of a request that is no report. *)
LEMMA FinishKeeps ==
  ASSUME BookInv, NEW t \in Requests, pc[t] = "idle", NEW code \in {"refused", "written"}, Finish(t, code),
         UNCHANGED <<input, reference, answer, read>>
  PROVE  /\ pc' \in [Requests -> {"idle", "reading", "answered", "refused", "written"}]
         /\ reference' \in [Requests -> Days \cup {0}] /\ answer' \in [Requests -> Seq(Values)]
         /\ read' = [x \in Requests' |-> read'[x]]
         /\ Requests' = Requests /\ pc'[t] = code
         /\ \A x \in Requests : pc[x] = "written" => pc'[x] = "written"
         /\ \A x \in Requests' : ReportFits(x)'
<1>1. Requests' = Requests
  BY DEF Requests
<1>2. \A x \in Requests : pc'[x] = IF x = t THEN code ELSE pc[x]
  BY DEF Finish, BookInv
<1>3. pc' \in [Requests -> {"idle", "reading", "answered", "refused", "written"}]
  BY DEF Finish, BookInv
<1>4. ASSUME NEW x \in Requests'  PROVE ReportFits(x)'
  <2>1. ReportFits(x)
    BY <1>1, <1>4 DEF BookInv
  <2>2. CASE x = t
    BY <2>1, <2>2, <1>2 DEF ReportFits
  <2>3. CASE x # t
    BY <2>1, <2>3, <1>1, <1>2 DEF ReportFits
  <2> QED BY <2>2, <2>3
<1>5. read' = [x \in Requests' |-> read'[x]]
  BY <1>1 DEF BookInv
<1> QED BY <1>1, <1>2, <1>3, <1>4, <1>5 DEF BookInv

(* A refusal writes nothing. *)
LEMMA RefuseBooks ==
  ASSUME BookInv, NEW t \in Requests, Refuse(t)
  PROVE  BookInv'
<1>1. /\ pc[t] = "idle" /\ Finish(t, "refused")
      /\ UNCHANGED <<closings, expenses, rules, odometer, today, input, reference, answer, read>>
  BY DEF Refuse
<1>2. /\ pc' \in [Requests -> {"idle", "reading", "answered", "refused", "written"}]
      /\ reference' \in [Requests -> Days \cup {0}] /\ answer' \in [Requests -> Seq(Values)]
      /\ read' = [x \in Requests' |-> read'[x]]
      /\ Requests' = Requests
      /\ \A x \in Requests : pc[x] = "written" => pc'[x] = "written"
      /\ \A x \in Requests' : ReportFits(x)'
  BY <1>1, FinishKeeps
<1> QED BY <1>1, <1>2 DEF BookInv

(* The amounts of a closing that is not refused are never negative. *)
LEMMA ClosingAmounts ==
  ASSUME BookInv, NEW t \in Requests, input[t].kind = "closing", ~Refused(t)
  PROVE  LET i == input[t]
             distance == i.km - odometer[i.vehicle]
         IN  /\ i.vehicle \in Vehicles /\ i.day \in Days /\ i.km \in Nat /\ i.revenue \in Nat
             /\ distance \in Nat
             /\ FuelCost(i.vehicle, distance, i.fuel) \in Nat
             /\ ReserveOf(i.vehicle, distance) \in Nat
<1> DEFINE i == input[t]
           v == i.vehicle
           distance == i.km - odometer[v]
<1>1. i.day \in Days /\ i.km \in Nat /\ i.revenue \in Nat /\ i.fuel \in Nat
  BY InputIsValid DEF Valid
<1>2. v \in Vehicles /\ ~(i.km < odometer[v]) /\ ~(i.fuel = 0 /\ i.km > odometer[v] /\ Consumption[v] = 0)
  BY DEF Refused
<1>3. odometer[v] \in Nat /\ Consumption[v] \in Nat /\ Price \in Nat
  BY <1>2, VehiclesAssumption DEF BookInv
<1>4. distance \in Nat /\ (distance # 0 <=> i.km > odometer[v])
  BY <1>1, <1>2, <1>3
<1>5. FuelCost(v, distance, i.fuel) \in Nat
  <2> HIDE DEF distance
  <2>1. CASE i.fuel > 0
    BY <2>1, <1>1 DEF FuelCost
  <2>2. CASE ~(i.fuel > 0) /\ distance = 0
    BY <2>2 DEF FuelCost
  <2>3. CASE ~(i.fuel > 0) /\ distance # 0
    <3>1. Consumption[v] \in Nat \ {0}
      BY <2>3, <1>1, <1>2, <1>3, <1>4
    <3>2. distance * Price \in Nat
      BY <1>3, <1>4
    <3>3. Quantized(distance * Price, Consumption[v]) \in Nat
      BY <3>1, <3>2, QuantizedRounds
    <3> QED BY <3>3, <2>3 DEF FuelCost
  <2> QED BY <2>1, <2>2, <2>3
<1>6. ReserveOf(v, distance) \in Nat
  <2>1. IsFiniteSet(rules) /\ \A r \in rules : r.cost \in Nat /\ r.interval \in Nat \ {0}
    BY DEF BookInv, RulesFit
  <2> HIDE DEF distance
  <2> QED BY <2>1, <1>4, ReserveIsNatural
<1> QED BY <1>1, <1>2, <1>4, <1>5, <1>6

(* One row more. *)
LEMMA ClosingAdded ==
  ASSUME NEW C, ClosingsFit(C), NEW c, c.vehicle \in Vehicles, c.day \in Days,
         c.distance \in Nat, c.revenue \in Nat, c.fuel \in Nat, c.reserve \in Nat,
         c.net = NetProfit(c.revenue, c.fuel, c.reserve)
  PROVE  ClosingsFit(C \cup {c})
BY FS_AddElement DEF ClosingsFit

(* A closing adds one row, whose profit is what is left of its revenue. *)
LEMMA CloseBooks ==
  ASSUME BookInv, NEW t \in Requests, Close(t)
  PROVE  BookInv'
<1> DEFINE i == input[t]
           distance == i.km - odometer[i.vehicle]
           fuel == FuelCost(i.vehicle, distance, i.fuel)
           reserve == ReserveOf(i.vehicle, distance)
           c == [id |-> t, vehicle |-> i.vehicle, day |-> i.day, distance |-> distance, revenue |-> i.revenue,
                 fuel |-> fuel, reserve |-> reserve, net |-> NetProfit(i.revenue, fuel, reserve)]
<1>1. /\ pc[t] = "idle" /\ i.kind = "closing" /\ ~Refused(t) /\ Finish(t, "written")
      /\ closings' = closings \cup {c} /\ odometer' = [odometer EXCEPT ![i.vehicle] = i.km]
      /\ UNCHANGED <<expenses, rules, today, input, reference, answer, read>>
  BY DEF Close
<1>2. /\ i.vehicle \in Vehicles /\ i.day \in Days /\ i.km \in Nat /\ i.revenue \in Nat
      /\ distance \in Nat /\ fuel \in Nat /\ reserve \in Nat
  BY <1>1, ClosingAmounts
<1>3. /\ pc' \in [Requests -> {"idle", "reading", "answered", "refused", "written"}]
      /\ reference' \in [Requests -> Days \cup {0}] /\ answer' \in [Requests -> Seq(Values)]
      /\ read' = [x \in Requests' |-> read'[x]]
      /\ Requests' = Requests /\ pc'[t] = "written"
      /\ \A x \in Requests : pc[x] = "written" => pc'[x] = "written"
      /\ \A x \in Requests' : ReportFits(x)'
  BY <1>1, FinishKeeps
<1> HIDE DEF distance, fuel, reserve
<1>4. /\ c.vehicle \in Vehicles /\ c.day \in Days /\ c.distance \in Nat /\ c.revenue \in Nat
      /\ c.fuel \in Nat /\ c.reserve \in Nat /\ c.net = NetProfit(c.revenue, c.fuel, c.reserve) /\ c.id = t
  BY <1>2
<1> HIDE DEF c
<1>5. ClosingsFit(closings')
  BY <1>1, <1>4, ClosingAdded DEF BookInv
<1>6. odometer' \in [Vehicles -> Nat]
  BY <1>1, <1>2 DEF BookInv
<1>7. \A row \in closings' \cup expenses' : row.id \in Requests' /\ pc'[row.id] = "written"
  BY <1>1, <1>3, <1>4 DEF BookInv
<1> QED BY <1>1, <1>3, <1>5, <1>6, <1>7 DEF BookInv

(* An expense adds one row. *)
LEMMA SpendBooks ==
  ASSUME BookInv, NEW t \in Requests, Spend(t)
  PROVE  BookInv'
<1> DEFINE e == [id |-> t, vehicle |-> input[t].vehicle, day |-> input[t].day, amount |-> input[t].amount]
<1>1. /\ pc[t] = "idle" /\ input[t].kind = "expense" /\ ~Refused(t) /\ Finish(t, "written")
      /\ expenses' = expenses \cup {e}
      /\ UNCHANGED <<closings, rules, odometer, today, input, reference, answer, read>>
  BY DEF Spend
<1>2. e.vehicle \in Vehicles \cup {NoVehicle} /\ e.day \in Days /\ e.amount \in Nat /\ e.id = t
  BY <1>1, InputIsValid DEF Valid, Refused
<1>3. /\ pc' \in [Requests -> {"idle", "reading", "answered", "refused", "written"}]
      /\ reference' \in [Requests -> Days \cup {0}] /\ answer' \in [Requests -> Seq(Values)]
      /\ read' = [x \in Requests' |-> read'[x]]
      /\ Requests' = Requests /\ pc'[t] = "written"
      /\ \A x \in Requests : pc[x] = "written" => pc'[x] = "written"
      /\ \A x \in Requests' : ReportFits(x)'
  BY <1>1, FinishKeeps
<1> HIDE DEF e
<1>4. ExpensesFit(expenses')
  BY <1>1, <1>2, FS_AddElement DEF BookInv, ExpensesFit
<1>5. \A row \in closings' \cup expenses' : row.id \in Requests' /\ pc'[row.id] = "written"
  BY <1>1, <1>2, <1>3 DEF BookInv
<1> QED BY <1>1, <1>3, <1>4, <1>5 DEF BookInv

(* A rule is for some kilometres. *)
LEMMA AddRuleBooks ==
  ASSUME BookInv, NEW t \in Requests, AddRule(t)
  PROVE  BookInv'
<1> DEFINE r == [id |-> t, vehicle |-> input[t].vehicle, cost |-> input[t].cost, interval |-> input[t].interval]
<1>1. /\ pc[t] = "idle" /\ input[t].kind = "rule" /\ ~Refused(t) /\ Finish(t, "written")
      /\ rules' = rules \cup {r}
      /\ UNCHANGED <<closings, expenses, odometer, today, input, reference, answer, read>>
  BY DEF AddRule
<1>2. r.vehicle \in Vehicles /\ r.cost \in Nat /\ r.interval \in Nat \ {0}
  BY <1>1, InputIsValid DEF Valid, Refused
<1>3. /\ pc' \in [Requests -> {"idle", "reading", "answered", "refused", "written"}]
      /\ reference' \in [Requests -> Days \cup {0}] /\ answer' \in [Requests -> Seq(Values)]
      /\ read' = [x \in Requests' |-> read'[x]]
      /\ Requests' = Requests
      /\ \A x \in Requests : pc[x] = "written" => pc'[x] = "written"
      /\ \A x \in Requests' : ReportFits(x)'
  BY <1>1, FinishKeeps
<1> HIDE DEF r
<1>4. RulesFit(rules')
  BY <1>1, <1>2, FS_AddElement DEF BookInv, RulesFit
<1> QED BY <1>1, <1>3, <1>4 DEF BookInv

(* A report begins with a day of the calendar and without answers. *)
LEMMA AskBooks ==
  ASSUME BookInv, NEW t \in Requests, Ask(t)
  PROVE  BookInv'
<1> DEFINE asked == IF input[t].kind = "profitability" THEN input[t].to ELSE input[t].reference
           day == IF asked = 0 THEN today ELSE asked
<1>1. /\ pc[t] = "idle" /\ input[t].kind \in Reports /\ ~Refused(t) /\ Finish(t, "reading")
      /\ reference' = [reference EXCEPT ![t] = day]
      /\ UNCHANGED <<closings, expenses, rules, odometer, today, input, answer, read>>
  BY DEF Ask
<1>2. day \in Days
  <2>1. asked \in Days \cup {0}
    BY <1>1, InputIsValid DEF Valid, Reports
  <2> HIDE DEF asked
  <2> QED BY <2>1 DEF BookInv
<1> HIDE DEF day
<1>3. /\ Requests' = Requests /\ pc' \in [Requests -> {"idle", "reading", "answered", "refused", "written"}]
      /\ \A x \in Requests : pc'[x] = IF x = t THEN "reading" ELSE pc[x]
      /\ \A x \in Requests : reference'[x] = IF x = t THEN day ELSE reference[x]
      /\ reference' \in [Requests -> Days \cup {0}]
  BY <1>1, <1>2 DEF Requests, BookInv, Finish
<1>4. ASSUME NEW x \in Requests'  PROVE ReportFits(x)'
  <2>1. ReportFits(x)
    BY <1>3, <1>4 DEF BookInv
  <2>2. CASE x = t
    <3>1. answer'[x] = <<>> /\ Len(answer'[x]) = 0
      BY <2>1, <2>2, <1>1 DEF ReportFits
    <3>2. input[t].kind = "profitability" => input[t].vehicle \in Vehicles
      BY <1>1 DEF Refused
    <3>3. Statements(input[t].kind) \in Nat /\ Statements(input[t].kind) > 0
      BY <1>1 DEF Statements, Reports
    <3> QED BY <3>1, <3>2, <3>3, <2>2, <1>1, <1>2, <1>3 DEF ReportFits
  <2>3. CASE x # t
    BY <2>1, <2>3, <1>1, <1>3 DEF ReportFits
  <2> QED BY <2>2, <2>3
<1>5. \A row \in closings' \cup expenses' : row.id \in Requests' /\ pc'[row.id] = "written"
  BY <1>1, <1>3 DEF BookInv
<1> QED BY <1>1, <1>3, <1>4, <1>5 DEF BookInv

(* What a statement does to a report: one answer more. *)
LEMMA SelectAnswers ==
  ASSUME BookInv, NEW t \in Requests, Select(t)
  PROVE  LET k == Len(answer[t]) + 1
             a == StatementOf(input[t], reference[t], k, closings, expenses)
         IN  /\ pc[t] = "reading" /\ input[t].kind \in Reports /\ reference[t] \in Days
             /\ k \in 1 .. Statements(input[t].kind) /\ k \in 1 .. 6 /\ a \in Values
             /\ input[t].kind = "sampling" => Proper(k, a)
             /\ answer' = [answer EXCEPT ![t] = Append(answer[t], a)]
             /\ answer'[t] \in Seq(Values) /\ Len(answer'[t]) = k /\ answer'[t][k] = a
             /\ \A j \in 1 .. Len(answer[t]) : answer'[t][j] = answer[t][j]
             /\ \A x \in Requests : x # t => answer'[x] = answer[x]
             /\ UNCHANGED <<closings, expenses, rules, odometer, today, input, reference>>
<1> DEFINE k == Len(answer[t]) + 1
           a == StatementOf(input[t], reference[t], k, closings, expenses)
<1>1. /\ pc[t] = "reading" /\ answer' = [answer EXCEPT ![t] = Append(answer[t], a)]
      /\ UNCHANGED <<closings, expenses, rules, odometer, today, input, reference>>
  BY StatementIs DEF Select
<1>2. answer[t] \in Seq(Values) /\ answer \in [Requests -> Seq(Values)]
  BY DEF BookInv
<1>3. input[t].kind \in Reports /\ reference[t] \in Days /\ Len(answer[t]) < Statements(input[t].kind)
  BY <1>1 DEF BookInv, ReportFits
<1>4. Statements(input[t].kind) \in Nat
  BY <1>3 DEF Statements, Reports
<1>5. k \in 1 .. Statements(input[t].kind)
  BY <1>2, <1>3, <1>4
<1>6. ClosingsFit(closings) /\ ExpensesFit(expenses)
  BY DEF BookInv
<1>7. k \in 1 .. 6 /\ a \in Values /\ (input[t].kind = "sampling" => Proper(k, a))
  <2> HIDE DEF k
  <2> QED BY <1>3, <1>5, <1>6, StatementTyped
<1> HIDE DEF a
<1>8. answer'[t] = Append(answer[t], a) /\ \A x \in Requests : x # t => answer'[x] = answer[x]
  BY <1>1, <1>2
<1>9. /\ answer'[t] \in Seq(Values) /\ Len(answer'[t]) = k /\ answer'[t][k] = a
      /\ \A j \in 1 .. Len(answer[t]) : answer'[t][j] = answer[t][j]
  BY <1>2, <1>7, <1>8
<1> QED BY <1>1, <1>3, <1>5, <1>7, <1>8, <1>9 DEF a

(* A statement writes nothing. *)
LEMMA SelectBooks ==
  ASSUME BookInv, NEW t \in Requests, Select(t)
  PROVE  BookInv'
<1> DEFINE k == Len(answer[t]) + 1
           a == StatementOf(input[t], reference[t], k, closings, expenses)
           code == IF k = Statements(input[t].kind) THEN "answered" ELSE "reading"
<1>1. /\ pc[t] = "reading" /\ input[t].kind \in Reports /\ reference[t] \in Days
      /\ k \in 1 .. Statements(input[t].kind)
      /\ answer' = [answer EXCEPT ![t] = Append(answer[t], a)]
      /\ answer'[t] \in Seq(Values) /\ Len(answer'[t]) = k
      /\ \A x \in Requests : x # t => answer'[x] = answer[x]
      /\ UNCHANGED <<closings, expenses, rules, odometer, today, input, reference>>
  BY SelectAnswers
<1>2. Finish(t, code) /\ \E n : read' = [read EXCEPT ![t] = n]
  BY DEF Select
<1> HIDE DEF a
<1>3. /\ Requests' = Requests /\ pc' \in [Requests -> {"idle", "reading", "answered", "refused", "written"}]
      /\ \A x \in Requests : pc'[x] = IF x = t THEN code ELSE pc[x]
  BY <1>1, <1>2 DEF Requests, BookInv, Finish
<1>4. answer' \in [Requests -> Seq(Values)] /\ read' = [x \in Requests' |-> read'[x]]
  <2>1. answer' \in [Requests -> Seq(Values)]
    BY <1>1 DEF BookInv
  <2>2. read' = [x \in Requests' |-> read'[x]]
    BY <1>2, <1>3 DEF BookInv
  <2> QED BY <2>1, <2>2
<1>5. ASSUME NEW x \in Requests'  PROVE ReportFits(x)'
  <2>1. ReportFits(x)
    BY <1>3, <1>5 DEF BookInv
  <2>2. CASE x = t
    <3>1. Statements(input[t].kind) \in Nat
      BY <1>1 DEF Statements, Reports
    <3> QED BY <3>1, <2>1, <2>2, <1>1, <1>3 DEF ReportFits
  <2>3. CASE x # t
    BY <2>1, <2>3, <1>1, <1>3 DEF ReportFits
  <2> QED BY <2>2, <2>3
<1>6. \A row \in closings' \cup expenses' : row.id \in Requests' /\ pc'[row.id] = "written"
  BY <1>1, <1>3 DEF BookInv
<1> QED BY <1>1, <1>3, <1>4, <1>5, <1>6 DEF BookInv

(* The books stay in order. *)
LEMMA BookStep ==
  ASSUME BookInv, [Next]_vars
  PROVE  BookInv'
<1>1. CASE UNCHANGED vars
  BY <1>1 DEF vars, BookInv, ReportFits, Requests
<1>2. CASE Midnight
  BY <1>2, CalendarAssumption DEF Midnight, BookInv, ReportFits, Requests, Days
<1>3. CASE Over
  BY <1>1, <1>3 DEF Over
<1>4. ASSUME NEW t \in Requests, Refuse(t) \/ Close(t) \/ Spend(t) \/ AddRule(t) \/ Ask(t) \/ Select(t)
      PROVE  BookInv'
  BY <1>4, RefuseBooks, CloseBooks, SpendBooks, AddRuleBooks, AskBooks, SelectBooks
<1> QED BY <1>1, <1>2, <1>3, <1>4 DEF Next

(* They are in order at the start. *)
LEMMA BookInit == Init => BookInv
<1> SUFFICES ASSUME Init  PROVE BookInv
  OBVIOUS
<1>1. IsFiniteSet({}) /\ <<>> \in Seq(Values) /\ 1 \in Days
  BY FS_EmptySet, CalendarAssumption DEF Days
<1>2. ClosingsFit(closings) /\ ExpensesFit(expenses) /\ RulesFit(rules)
  BY <1>1 DEF Init, ClosingsFit, ExpensesFit, RulesFit
<1>3. \A t \in Requests : ReportFits(t)
  BY DEF Init, ReportFits
<1> QED BY <1>1, <1>2, <1>3 DEF Init, BookInv

-----------------------------------------------------------------------------
(* Samplings *)

(* To show no more is transitive. *)
LEMMA AtMostTransitive ==
  ASSUME NEW k, NEW a, NEW b, NEW c, Proper(k, a), Proper(k, b), Proper(k, c), AtMost(k, a, b), AtMost(k, b, c)
  PROVE  AtMost(k, a, c)
<1>1. CASE k % 2 = 1
  BY <1>1 DEF Proper, AtMost
<1>2. CASE k % 2 # 1
  BY <1>2 DEF Proper, AtMost
<1> QED BY <1>1, <1>2

(* A report that has an answer has a day, and at most as many as statements. *)
LEMMA AnsweredSome ==
  ASSUME BookInv, NEW t \in Requests, NEW k \in 1 .. Len(answer[t])
  PROVE  /\ pc[t] \in {"reading", "answered"} /\ answer[t] # <<>>
         /\ input[t].kind \in Reports /\ reference[t] \in Days
         /\ k \in 1 .. Statements(input[t].kind)
<1>1. ReportFits(t) /\ answer[t] \in Seq(Values) /\ Len(answer[t]) \in Nat /\ Len(answer[t]) > 0
  BY DEF BookInv
<1>2. answer[t] # <<>>
  BY <1>1
<1>3. pc[t] \in {"reading", "answered"} /\ input[t].kind \in Reports /\ reference[t] \in Days
  BY <1>1, <1>2 DEF ReportFits, BookInv
<1>4. Statements(input[t].kind) \in Nat
  BY <1>3 DEF Statements, Reports
<1>5. Len(answer[t]) <= Statements(input[t].kind)
  BY <1>1, <1>3, <1>4 DEF ReportFits
<1> QED BY <1>1, <1>2, <1>3, <1>4, <1>5

(* A step that answers nothing leaves the answers below what there is now. *)
LEMMA NestFrame ==
  ASSUME BookInv, NestInv, answer' = answer, input' = input,
         closings \subseteq closings', expenses \subseteq expenses', ClosingsFit(closings'), ExpensesFit(expenses'),
         \A t \in Requests : pc[t] # "idle" => reference'[t] = reference[t]
  PROVE  NestInv'
<1> SUFFICES ASSUME NEW t \in Requests, input[t].kind = "sampling", NEW k \in 1 .. Len(answer[t])
             PROVE  /\ Proper(k, answer[t][k])
                    /\ AtMost(k, answer[t][k], StatementOf(input[t], reference'[t], k, closings', expenses'))
                    /\ \A j \in 1 .. k : j % 2 = k % 2 /\ Wider(reference'[t], j, k)
                                           => AtMost(k, answer[t][j], answer[t][k])
  BY DEF NestInv, Requests
<1> DEFINE now == StatementOf(input[t], reference[t], k, closings, expenses)
           then == StatementOf(input[t], reference[t], k, closings', expenses')
<1>1. reference'[t] = reference[t] /\ reference[t] \in Days /\ k \in 1 .. 6 /\ k \in 1 .. Statements(input[t].kind)
      /\ input[t].kind \in Reports
  BY AnsweredSome DEF Statements
<1>2. /\ Proper(k, answer[t][k]) /\ AtMost(k, answer[t][k], now)
      /\ \A j \in 1 .. k : j % 2 = k % 2 /\ Wider(reference[t], j, k) => AtMost(k, answer[t][j], answer[t][k])
  BY DEF NestInv
<1>3. Proper(k, now) /\ Proper(k, then)
  BY <1>1, StatementTyped DEF BookInv
<1>4. AtMost(k, now, then)
  <2>1. Wider(reference[t], k, k)
    <3>1. (k + 1) \div 2 \in 1 .. 3
      BY <1>1
    <3>2. Periods(reference[t])[(k + 1) \div 2].from \in Nat
      BY <1>1, <3>1, PeriodBounds
    <3> QED BY <3>2 DEF Wider
  <2> QED BY <1>1, <2>1, SamplingGrows
<1> HIDE DEF now, then
<1>5. AtMost(k, answer[t][k], then)
  BY <1>2, <1>3, <1>4, AtMostTransitive
<1> QED BY <1>1, <1>2, <1>5 DEF then

(* A new answer is no less than an earlier one for a period that it contains. *)
LEMMA NestSelect ==
  ASSUME BookInv, NestInv, NEW t \in Requests, Select(t)
  PROVE  NestInv'
<1> DEFINE n == Len(answer[t]) + 1
           a == StatementOf(input[t], reference[t], n, closings, expenses)
<1>1. /\ input[t].kind \in Reports /\ reference[t] \in Days /\ n \in 1 .. 6
      /\ input[t].kind = "sampling" => Proper(n, a)
      /\ Len(answer'[t]) = n /\ answer'[t][n] = a
      /\ \A j \in 1 .. Len(answer[t]) : answer'[t][j] = answer[t][j]
      /\ \A x \in Requests : x # t => answer'[x] = answer[x]
      /\ UNCHANGED <<closings, expenses, rules, odometer, today, input, reference>>
  BY SelectAnswers
<1> HIDE DEF a
<1> SUFFICES ASSUME NEW x \in Requests, input[x].kind = "sampling", NEW k \in 1 .. Len(answer'[x])
             PROVE  /\ Proper(k, answer'[x][k])
                    /\ AtMost(k, answer'[x][k], StatementOf(input[x], reference[x], k, closings, expenses))
                    /\ \A j \in 1 .. k : j % 2 = k % 2 /\ Wider(reference[x], j, k)
                                           => AtMost(k, answer'[x][j], answer'[x][k])
  BY <1>1 DEF NestInv, Requests
<1>2. CASE x # t
  <2>1. answer'[x] = answer[x]
    BY <1>1, <1>2
  <2> QED BY <2>1 DEF NestInv
<1>3. CASE x = t /\ k # n
  <2>1. k \in 1 .. Len(answer[t]) /\ Len(answer[t]) \in Nat
    BY <1>1, <1>3 DEF BookInv
  <2>2. answer'[t][k] = answer[t][k] /\ \A j \in 1 .. k : answer'[t][j] = answer[t][j]
    BY <1>1, <2>1
  <2> QED BY <2>1, <2>2, <1>3 DEF NestInv
<1>4. CASE x = t /\ k = n
  <2>1. Proper(n, a) /\ answer'[x][k] = a
    BY <1>1, <1>4
  <2>2. AtMost(n, a, a)
    <3>1. CASE n % 2 = 1
      BY <2>1, <3>1 DEF Proper, AtMost
    <3>2. CASE n % 2 # 1
      BY <2>1, <3>2 DEF Proper, AtMost
    <3> QED BY <3>1, <3>2
  <2>3. ASSUME NEW j \in 1 .. k, j % 2 = k % 2, Wider(reference[x], j, k)
        PROVE  AtMost(k, answer'[x][j], answer'[x][k])
    <3>1. CASE j = n
      BY <3>1, <2>1, <2>2, <1>4
    <3>2. CASE j # n
      <4> DEFINE old == StatementOf(input[t], reference[t], j, closings, expenses)
      <4>1. j \in 1 .. Len(answer[t]) /\ j \in 1 .. 6 /\ answer'[t][j] = answer[t][j]
        BY <3>2, <1>1, <1>4 DEF BookInv
      <4>2. Proper(j, answer[t][j]) /\ AtMost(j, answer[t][j], old)
        BY <4>1, <1>4 DEF NestInv
      <4>3. Proper(j, old)
        <5>1. j \in 1 .. Statements(input[t].kind)
          BY <4>1, AnsweredSome
        <5> QED BY <5>1, <1>1, <1>4, StatementTyped DEF BookInv
      <4>4. Proper(n, answer[t][j]) /\ AtMost(n, answer[t][j], old) /\ Proper(n, old)
        <5>1. j % 2 = n % 2
          BY <2>3, <1>4
        <5> HIDE DEF old
        <5> QED BY <5>1, <4>2, <4>3 DEF Proper, AtMost
      <4>5. AtMost(n, old, a)
        <5>1. j % 2 = n % 2 /\ Wider(reference[t], j, n)
          BY <2>3, <1>4
        <5> QED BY <5>1, <4>1, <1>1, <1>4, SamplingGrows DEF BookInv, a
      <4>6. AtMost(n, answer[t][j], a)
        <5> HIDE DEF old
        <5> QED BY <4>4, <4>5, <2>1, AtMostTransitive
      <4> QED BY <4>1, <4>6, <2>1, <1>4
    <3> QED BY <3>1, <3>2
  <2>4. AtMost(k, answer'[x][k], StatementOf(input[x], reference[x], k, closings, expenses))
    BY <2>1, <2>2, <1>4 DEF a
  <2> QED BY <2>1, <2>3, <2>4, <1>4
<1> QED BY <1>2, <1>3, <1>4

(* No step makes an answer show more than it should. *)
LEMMA NestStep ==
  ASSUME BookInv, NestInv, [Next]_vars
  PROVE  NestInv'
<1>0. BookInv'
  BY BookStep
<1>1. ClosingsFit(closings') /\ ExpensesFit(expenses')
  BY <1>0 DEF BookInv
<1>2. CASE UNCHANGED vars
  BY <1>1, <1>2, NestFrame DEF vars
<1>3. CASE Midnight
  BY <1>1, <1>3, NestFrame DEF Midnight
<1>4. CASE Over
  BY <1>2, <1>4 DEF Over
<1>5. ASSUME NEW t \in Requests, Refuse(t) \/ Close(t) \/ Spend(t) \/ AddRule(t) \/ Ask(t) PROVE NestInv'
  <2>1. /\ answer' = answer /\ input' = input
        /\ closings \subseteq closings' /\ expenses \subseteq expenses'
    BY <1>5 DEF Refuse, Close, Spend, AddRule, Ask
  <2>2. \A x \in Requests : pc[x] # "idle" => reference'[x] = reference[x]
    BY <1>5 DEF Refuse, Close, Spend, AddRule, Ask, BookInv
  <2> QED BY <2>1, <2>2, <1>1, NestFrame
<1> QED BY <1>2, <1>3, <1>4, <1>5, NestSelect DEF Next

(* Nothing is answered at the start. *)
LEMMA NestInit == Init => NestInv
BY DEF Init, NestInv

(* What the handler makes of the answers of a sampling, period by period. *)
Share(part, total) == IF total = 0 THEN 0 ELSE Quantized(part * 10000, total)

LEMMA PeriodIs ==
  ASSUME BookInv, NestInv, NEW t \in Answered("sampling"), NEW n \in 1 .. 3
  PROVE  LET p     == Period(t, <<"day", "week", "month">>[n])
             costs == answer[t][2 * n - 1]
             other == answer[t][2 * n]
         IN  /\ t \in Requests /\ input[t].kind = "sampling" /\ Len(answer[t]) = 6 /\ reference[t] \in Days
             /\ costs.fuel \in Nat /\ costs.reserve \in Nat /\ other \in Nat
             /\ p.from = Periods(reference[t])[n].from /\ p.fuel = costs.fuel /\ p.reserve = costs.reserve
             /\ p.other = other /\ p.total = costs.fuel + costs.reserve + other
             /\ p.shares = <<Share(p.fuel, p.total), Share(p.reserve, p.total), Share(p.other, p.total)>>
<1> DEFINE name == <<"day", "week", "month">>[n]
           d == reference[t]
           costs == answer[t][2 * n - 1]
           other == answer[t][2 * n]
           k == CHOOSE k \in 1 .. 3 : Periods(d)[k].name = name
<1>1. t \in Requests /\ input[t].kind = "sampling" /\ pc[t] = "answered"
  BY DEF Answered
<1>2. Len(answer[t]) = 6 /\ d \in Days
  BY <1>1 DEF BookInv, ReportFits, Statements
<1>3. \A j \in 1 .. 3 : Periods(d)[j].name = <<"day", "week", "month">>[j]
  BY <1>2, PeriodBounds
<1>4. \A j \in 1 .. 3 : <<"day", "week", "month">>[j] = <<"day", "week", "month">>[n] => j = n
  OBVIOUS
<1>5. k = n
  <2>1. k \in 1 .. 3 /\ Periods(d)[k].name = name
    BY <1>3
  <2> HIDE DEF k
  <2> QED BY <2>1, <1>3, <1>4
<1>6. 2 * n - 1 \in 1 .. 6 /\ 2 * n \in 1 .. 6 /\ (2 * n - 1) % 2 = 1 /\ (2 * n) % 2 # 1
  OBVIOUS
<1>7. costs.fuel \in Nat /\ costs.reserve \in Nat
  <2>1. Proper(2 * n - 1, costs)
    BY <1>1, <1>2, <1>6 DEF NestInv
  <2> QED BY <2>1, <1>6 DEF Proper
<1>8. other \in Nat
  <2>1. Proper(2 * n, other)
    BY <1>1, <1>2, <1>6 DEF NestInv
  <2> QED BY <2>1, <1>6 DEF Proper
<1> DEFINE Made(j) ==
             LET sums == answer[t][2 * j - 1]
                 rest == answer[t][2 * j]
                 total == sums.fuel + sums.reserve + rest
             IN [from |-> Periods(d)[j].from, fuel |-> sums.fuel, reserve |-> sums.reserve,
                 other |-> rest, total |-> total,
                 shares |-> <<Share(sums.fuel, total), Share(sums.reserve, total), Share(rest, total)>>]
<1>9. Period(t, name) = Made(k)
  BY DEF Period, Share
<1>10. Period(t, name) = Made(n)
  <2> HIDE DEF k, Made
  <2> QED BY <1>5, <1>9
<1> HIDE DEF name, costs, other, k, d
<1> QED BY <1>1, <1>2, <1>7, <1>8, <1>10 DEF name, costs, other, d

(* The names of the periods. *)
LEMMA NameOf ==
  ASSUME NEW name \in Names
  PROVE  \E n \in 1 .. 3 : name = <<"day", "week", "month">>[n]
<1>1. CASE name = "day"
  <2>1. name = <<"day", "week", "month">>[1]
    BY <1>1
  <2> QED BY <2>1
<1>2. CASE name = "week"
  <2>1. name = <<"day", "week", "month">>[2]
    BY <1>2
  <2> QED BY <2>1
<1>3. CASE name = "month"
  <2>1. name = <<"day", "week", "month">>[3]
    BY <1>3
  <2> QED BY <2>1
<1> QED BY <1>1, <1>2, <1>3 DEF Names

(* Answers that are natural make shares that add up. *)
LEMMA NestGivesShares ==
  ASSUME BookInv, NestInv
  PROVE  SharesAddUp
<1> SUFFICES ASSUME NEW t \in Answered("sampling"), NEW name \in Names
             PROVE  LET p == Period(t, name)
                        sum == p.shares[1] + p.shares[2] + p.shares[3]
                    IN  IF p.total = 0 THEN sum = 0 ELSE sum \in 9999 .. 10001
  BY DEF SharesAddUp
<1> DEFINE p == Period(t, name)
<1>1. PICK n \in 1 .. 3 : name = <<"day", "week", "month">>[n]
  BY NameOf
<1>2. /\ p.fuel \in Nat /\ p.reserve \in Nat /\ p.other \in Nat /\ p.total = p.fuel + p.reserve + p.other
      /\ p.shares = <<Share(p.fuel, p.total), Share(p.reserve, p.total), Share(p.other, p.total)>>
  BY <1>1, PeriodIs
<1> HIDE DEF p
<1>3. /\ p.shares[1] = Share(p.fuel, p.total) /\ p.shares[2] = Share(p.reserve, p.total)
      /\ p.shares[3] = Share(p.other, p.total)
  BY <1>2
<1>4. CASE p.total = 0
  <2>1. p.shares[1] = 0 /\ p.shares[2] = 0 /\ p.shares[3] = 0
    BY <1>3, <1>4 DEF Share
  <2> QED BY <2>1, <1>4 DEF p
<1>5. CASE p.total # 0
  <2>1. p.total \in Nat \ {0}
    BY <1>2, <1>5
  <2>2. /\ p.shares[1] = Quantized(p.fuel * 10000, p.total) /\ p.shares[2] = Quantized(p.reserve * 10000, p.total)
        /\ p.shares[3] = Quantized(p.other * 10000, p.total)
    BY <1>3, <1>5 DEF Share
  <2>3. Quantized(p.fuel * 10000, p.total) + Quantized(p.reserve * 10000, p.total)
          + Quantized(p.other * 10000, p.total) \in 9999 .. 10001
    <3> DEFINE a == p.fuel
               b == p.reserve
               c == p.other
               total == p.total
    <3>1. a \in Nat /\ b \in Nat /\ c \in Nat /\ total \in Nat \ {0} /\ total = a + b + c
      BY <1>2, <2>1
    <3> HIDE DEF a, b, c, total
    <3>2. Quantized(a * 10000, total) + Quantized(b * 10000, total) + Quantized(c * 10000, total) \in 9999 .. 10001
      BY <3>1, SharesOfAWhole
    <3> QED BY <3>2 DEF a, b, c, total
  <2>4. p.shares[1] + p.shares[2] + p.shares[3] \in 9999 .. 10001
    BY <2>2, <2>3
  <2> QED BY <2>4, <1>5 DEF p
<1> QED BY <1>4, <1>5

(* A period is at most one that contains it and is read later. *)
LEMMA PeriodsNest ==
  ASSUME BookInv, NestInv, NEW t \in Answered("sampling"), NEW m \in 1 .. 3, NEW n \in 1 .. 3, m <= n,
         Periods(reference[t])[n].from <= Periods(reference[t])[m].from
  PROVE  LET p == Period(t, <<"day", "week", "month">>[m])
             q == Period(t, <<"day", "week", "month">>[n])
         IN  p.fuel <= q.fuel /\ p.reserve <= q.reserve /\ p.other <= q.other /\ p.total <= q.total
<1> DEFINE p == Period(t, <<"day", "week", "month">>[m])
           q == Period(t, <<"day", "week", "month">>[n])
           a(j) == answer[t][j]
<1>1. /\ t \in Requests /\ input[t].kind = "sampling" /\ Len(answer[t]) = 6
      /\ p.fuel = a(2 * m - 1).fuel /\ p.reserve = a(2 * m - 1).reserve /\ p.other = a(2 * m)
      /\ p.fuel \in Nat /\ p.reserve \in Nat /\ p.other \in Nat
      /\ p.total = p.fuel + p.reserve + p.other
  BY PeriodIs
<1>2. /\ q.fuel = a(2 * n - 1).fuel /\ q.reserve = a(2 * n - 1).reserve /\ q.other = a(2 * n)
      /\ q.fuel \in Nat /\ q.reserve \in Nat /\ q.other \in Nat
      /\ q.total = q.fuel + q.reserve + q.other
  BY PeriodIs
<1> HIDE DEF p, q
<1>3. ((2 * m - 1) + 1) \div 2 = m /\ ((2 * n - 1) + 1) \div 2 = n /\ (2 * m + 1) \div 2 = m /\ (2 * n + 1) \div 2 = n
  OBVIOUS
<1>4. AtMost(2 * n - 1, a(2 * m - 1), a(2 * n - 1))
  <2>1. 2 * n - 1 \in 1 .. 6 /\ 2 * m - 1 \in 1 .. (2 * n - 1) /\ (2 * m - 1) % 2 = 1 /\ (2 * n - 1) % 2 = 1
    OBVIOUS
  <2>2. Wider(reference[t], 2 * m - 1, 2 * n - 1)
    BY <1>3 DEF Wider
  <2> QED BY <1>1, <2>1, <2>2 DEF NestInv
<1>5. AtMost(2 * n, a(2 * m), a(2 * n))
  <2>1. 2 * n \in 1 .. 6 /\ 2 * m \in 1 .. 2 * n /\ (2 * m) % 2 = 0 /\ (2 * n) % 2 = 0
    OBVIOUS
  <2>2. Wider(reference[t], 2 * m, 2 * n)
    BY <1>3 DEF Wider
  <2> QED BY <1>1, <2>1, <2>2 DEF NestInv
<1>6. (2 * n - 1) % 2 = 1 /\ (2 * n) % 2 # 1
  OBVIOUS
<1>7. p.fuel <= q.fuel /\ p.reserve <= q.reserve
  BY <1>1, <1>2, <1>4, <1>6 DEF AtMost
<1>8. p.other <= q.other
  BY <1>1, <1>2, <1>5, <1>6 DEF AtMost
<1>9. p.total <= q.total
  BY <1>1, <1>2, <1>7, <1>8
<1> QED BY <1>7, <1>8, <1>9 DEF p, q

(* The day lies in the week and in the month. *)
LEMMA NestGivesNesting ==
  ASSUME BookInv, NestInv
  PROVE  SamplingNests
<1> SUFFICES ASSUME NEW t \in Answered("sampling")
             PROVE  LET day   == Period(t, "day")
                        week  == Period(t, "week")
                        month == Period(t, "month")
                        Below(p, q) == /\ p.fuel <= q.fuel /\ p.reserve <= q.reserve
                                       /\ p.other <= q.other /\ p.total <= q.total
                    IN /\ Below(day, week) /\ Below(day, month)
                       /\ month.from <= week.from => Below(week, month)
  BY DEF SamplingNests
<1> DEFINE d == reference[t]
           N(n) == <<"day", "week", "month">>[n]
           P(n) == Period(t, N(n))
           Below(p, q) == p.fuel <= q.fuel /\ p.reserve <= q.reserve /\ p.other <= q.other /\ p.total <= q.total
<1>1. N(1) = "day" /\ N(2) = "week" /\ N(3) = "month"
  OBVIOUS
<1>2. d \in Days /\ \A n \in 1 .. 3 : P(n).from = Periods(d)[n].from
  BY PeriodIs
<1>3. \A n \in 1 .. 3 : /\ Periods(d)[n].from \in Nat /\ Periods(d)[n].from <= d
                        /\ n = 1 => Periods(d)[n].from = d
  BY <1>2, PeriodBounds
<1>4. \A m, n \in 1 .. 3 : m <= n /\ Periods(d)[n].from <= Periods(d)[m].from => Below(P(m), P(n))
  BY PeriodsNest
<1> HIDE DEF N, P, Below, d
<1>5. Below(P(1), P(2)) /\ Below(P(1), P(3))
  BY <1>3, <1>4
<1>6. P(3).from <= P(2).from => Below(P(2), P(3))
  BY <1>2, <1>4
<1> QED BY <1>1, <1>5, <1>6 DEF P, Below

-----------------------------------------------------------------------------
(* Reports that saw the same rows *)

(* There are a natural number of rows. *)
LEMMA RowsNatural ==
  ASSUME BookInv
  PROVE  Rows \in Nat /\ Cardinality(closings) \in Nat /\ Cardinality(expenses) \in Nat
BY FS_CardinalityType DEF BookInv, ClosingsFit, ExpensesFit, Rows

(* A step that answers nothing and keeps the rows keeps the history. *)
LEMMA HistoryFrame ==
  ASSUME BookInv, NEW C, NEW E, IsHistory(C, E), UNCHANGED <<answer, read, input, closings, expenses>>,
         \A t \in Requests : pc[t] # "idle" => reference'[t] = reference[t]
  PROVE  IsHistory(C, E)'
<1>1. Rows' = Rows /\ Requests' = Requests
  BY DEF Rows, Requests
<1>2. ASSUME NEW t \in Requests, answer[t] # <<>>  PROVE reference'[t] = reference[t]
  BY <1>2 DEF BookInv, ReportFits
<1> QED BY <1>1, <1>2 DEF IsHistory

(* A step that commits a row gives the history one entry more. *)
LEMMA HistoryWrite ==
  ASSUME BookInv, BookInv', NEW C, NEW E, IsHistory(C, E), Rows' = Rows + 1,
         UNCHANGED <<answer, read, input, reference>>
  PROVE  HistoryInv'
<1> DEFINE n == Rows + 1
<1>1. Rows \in Nat /\ n \in Nat /\ Requests' = Requests
  BY RowsNatural DEF Requests
<1>3. PICK D, F : /\ D = [m \in Nat |-> IF m = n THEN closings' ELSE C[m]]
                  /\ F = [m \in Nat |-> IF m = n THEN expenses' ELSE E[m]]
  OBVIOUS
<1>4. /\ D = [m \in Nat |-> D[m]] /\ F = [m \in Nat |-> F[m]]
      /\ \A m \in Nat : D[m] = (IF m = n THEN closings' ELSE C[m]) /\ F[m] = IF m = n THEN expenses' ELSE E[m]
  BY <1>3
<1>5. \A m \in Nat : ClosingsFit(D[m]) /\ ExpensesFit(F[m])
  BY <1>4 DEF IsHistory, BookInv
<1>6. D[Rows'] = closings' /\ F[Rows'] = expenses'
  BY <1>1, <1>4
<1>7. ASSUME NEW t \in Requests', answer'[t] # <<>>
      PROVE  \/ read'[t] = {} /\ Len(answer'[t]) > 1
             \/ \E m \in 0 .. Rows' :
                  /\ read'[t] = {m}
                  /\ \A k \in 1 .. Len(answer'[t]) :
                       answer'[t][k] = StatementOf(input'[t], reference'[t], k, D[m], F[m])
  <2>1. \/ read[t] = {} /\ Len(answer[t]) > 1
        \/ \E m \in 0 .. Rows :
             /\ read[t] = {m}
             /\ \A k \in 1 .. Len(answer[t]) : answer[t][k] = StatementOf(input[t], reference[t], k, C[m], E[m])
    BY <1>1, <1>7 DEF IsHistory
  <2>2. CASE read[t] = {} /\ Len(answer[t]) > 1
    BY <2>2
  <2>3. ASSUME NEW m \in 0 .. Rows, read[t] = {m},
               \A k \in 1 .. Len(answer[t]) : answer[t][k] = StatementOf(input[t], reference[t], k, C[m], E[m])
        PROVE  /\ m \in 0 .. Rows' /\ read'[t] = {m}
               /\ \A k \in 1 .. Len(answer'[t]) :
                    answer'[t][k] = StatementOf(input'[t], reference'[t], k, D[m], F[m])
    <3>1. m \in 0 .. Rows' /\ m \in Nat /\ m # n
      BY <1>1
    <3>2. D[m] = C[m] /\ F[m] = E[m]
      BY <1>4, <3>1
    <3> QED BY <2>3, <3>1, <3>2
  <2> QED BY <2>1, <2>2, <2>3
<1>8. IsHistory(D, F)'
  <2> HIDE DEF n
  <2> QED BY <1>4, <1>5, <1>6, <1>7 DEF IsHistory
<1> QED BY <1>8 DEF HistoryInv

(* A statement sees the last entry of the history.                             *)
LEMMA HistorySelect ==
  ASSUME BookInv, NEW C, NEW E, IsHistory(C, E), NEW t \in Requests, Select(t)
  PROVE  IsHistory(C, E)'
<1> DEFINE k == Len(answer[t]) + 1
           a == StatementOf(input[t], reference[t], k, closings, expenses)
<1>1. /\ k \in 1 .. 6 /\ Len(answer'[t]) = k /\ answer'[t][k] = a
      /\ \A j \in 1 .. Len(answer[t]) : answer'[t][j] = answer[t][j]
      /\ \A x \in Requests : x # t => answer'[x] = answer[x]
      /\ UNCHANGED <<closings, expenses, rules, odometer, today, input, reference>>
  BY SelectAnswers
<1>2. read' = [read EXCEPT ![t] = IF k = 1 \/ read[t] = {Rows} THEN {Rows} ELSE {}]
  BY DEF Select, Rows
<1>3. /\ Requests' = Requests /\ Rows' = Rows /\ Rows \in Nat
      /\ \A x \in Requests : read'[x] = IF x = t THEN (IF k = 1 \/ read[t] = {Rows} THEN {Rows} ELSE {})
                                                  ELSE read[x]
  BY <1>1, <1>2, RowsNatural DEF Requests, Rows, BookInv
<1>4. C[Rows] = closings /\ E[Rows] = expenses /\ Len(answer[t]) \in Nat
  BY DEF IsHistory, BookInv
<1> HIDE DEF a
<1>5. ASSUME NEW x \in Requests', answer'[x] # <<>>
      PROVE  \/ read'[x] = {} /\ Len(answer'[x]) > 1
             \/ \E n \in 0 .. Rows' :
                  /\ read'[x] = {n}
                  /\ \A j \in 1 .. Len(answer'[x]) :
                       answer'[x][j] = StatementOf(input'[x], reference'[x], j, C[n], E[n])
  <2>1. CASE x # t
    <3>1. answer'[x] = answer[x] /\ read'[x] = read[x] /\ x \in Requests
      BY <2>1, <1>1, <1>3
    <3> QED BY <3>1, <1>1, <1>3, <1>5 DEF IsHistory
  <2>2. CASE x = t /\ k # 1 /\ read[t] # {Rows}
    <3>1. read'[x] = {} /\ Len(answer'[x]) > 1
      BY <2>2, <1>1, <1>3
    <3> QED BY <3>1
  <2>3. CASE x = t /\ (k = 1 \/ read[t] = {Rows})
    <3>1. read'[x] = {Rows} /\ Rows \in 0 .. Rows'
      BY <2>3, <1>3
    <3>2. ASSUME NEW j \in 1 .. Len(answer'[x])
          PROVE  answer'[x][j] = StatementOf(input'[x], reference'[x], j, C[Rows], E[Rows])
      <4>1. CASE j = k
        BY <4>1, <2>3, <1>1, <1>4 DEF a
      <4>2. CASE j # k
        <5>1. j \in 1 .. Len(answer[t]) /\ k # 1
          BY <4>2, <2>3, <1>1, <1>4
        <5>2. read[t] = {Rows} /\ answer[t] # <<>>
          BY <5>1, <2>3, <1>4
        <5>3. PICK n \in 0 .. Rows :
                /\ read[t] = {n}
                /\ \A i \in 1 .. Len(answer[t]) :
                     answer[t][i] = StatementOf(input[t], reference[t], i, C[n], E[n])
          BY <5>2 DEF IsHistory
        <5>4. n = Rows
          BY <5>2, <5>3
        <5>5. answer[t][j] = StatementOf(input[t], reference[t], j, C[Rows], E[Rows])
          BY <5>1, <5>3, <5>4
        <5> QED BY <5>1, <5>5, <2>3, <1>1
      <4> QED BY <4>1, <4>2
    <3> QED BY <3>1, <3>2
  <2> QED BY <2>1, <2>2, <2>3
<1>6. /\ C = [n \in Nat |-> C[n]] /\ E = [n \in Nat |-> E[n]]
      /\ \A n \in Nat : ClosingsFit(C[n]) /\ ExpensesFit(E[n])
  BY DEF IsHistory
<1> QED BY <1>1, <1>3, <1>4, <1>5, <1>6 DEF IsHistory

(* Every write makes one row more. *)
LEMMA WritesCount ==
  ASSUME BookInv, NEW t \in Requests, Close(t) \/ Spend(t)
  PROVE  Rows' = Rows + 1
<1>1. /\ IsFiniteSet(closings) /\ IsFiniteSet(expenses) /\ pc[t] = "idle"
      /\ \A row \in closings \cup expenses : row.id # t
  BY DEF BookInv, ClosingsFit, ExpensesFit, Close, Spend
<1>2. CASE Close(t)
  <2>1. PICK c : c.id = t /\ closings' = closings \cup {c} /\ expenses' = expenses
    BY <1>2 DEF Close
  <2>2. Cardinality(closings') = Cardinality(closings) + 1
    BY <1>1, <2>1, FS_AddElement
  <2> QED BY <2>1, <2>2, RowsNatural DEF Rows
<1>3. CASE Spend(t)
  <2>1. PICK e : e.id = t /\ expenses' = expenses \cup {e} /\ closings' = closings
    BY <1>3 DEF Spend
  <2>2. Cardinality(expenses') = Cardinality(expenses) + 1
    BY <1>1, <2>1, FS_AddElement
  <2> QED BY <2>1, <2>2, RowsNatural DEF Rows
<1> QED BY <1>2, <1>3

(* The history goes on. *)
LEMMA HistoryStep ==
  ASSUME BookInv, HistoryInv, [Next]_vars
  PROVE  HistoryInv'
<1>0. BookInv'
  BY BookStep
<1>1. PICK C, E : IsHistory(C, E)
  BY DEF HistoryInv
<1>2. CASE UNCHANGED vars
  <2>1. IsHistory(C, E)'
    BY <1>1, <1>2, HistoryFrame DEF vars
  <2> QED BY <2>1 DEF HistoryInv
<1>3. CASE Midnight
  <2>1. IsHistory(C, E)'
    BY <1>1, <1>3, HistoryFrame DEF Midnight
  <2> QED BY <2>1 DEF HistoryInv
<1>4. CASE Over
  BY <1>2, <1>4 DEF Over
<1>5. ASSUME NEW t \in Requests, Refuse(t) \/ AddRule(t) \/ Ask(t)  PROVE HistoryInv'
  <2>1. UNCHANGED <<answer, read, input, closings, expenses>>
    BY <1>5 DEF Refuse, AddRule, Ask
  <2>2. \A x \in Requests : pc[x] # "idle" => reference'[x] = reference[x]
    BY <1>5 DEF Refuse, AddRule, Ask, BookInv
  <2>3. IsHistory(C, E)'
    BY <1>1, <2>1, <2>2, HistoryFrame
  <2> QED BY <2>3 DEF HistoryInv
<1>6. ASSUME NEW t \in Requests, Close(t) \/ Spend(t)  PROVE HistoryInv'
  <2>1. UNCHANGED <<answer, read, input, reference>>
    BY <1>6 DEF Close, Spend
  <2> QED BY <1>0, <1>1, <1>6, <2>1, WritesCount, HistoryWrite
<1>7. ASSUME NEW t \in Requests, Select(t)  PROVE HistoryInv'
  BY <1>1, <1>7, HistorySelect DEF HistoryInv
<1> QED BY <1>2, <1>3, <1>4, <1>5, <1>6, <1>7 DEF Next

(* It begins without rows. *)
LEMMA HistoryInit == Init => HistoryInv
<1> SUFFICES ASSUME Init  PROVE HistoryInv
  OBVIOUS
<1> DEFINE C == [n \in Nat |-> {}]
<1>1. ClosingsFit({}) /\ ExpensesFit({}) /\ Cardinality({}) = 0
  BY FS_EmptySet DEF ClosingsFit, ExpensesFit
<1>2. Rows = 0 /\ closings = {} /\ expenses = {}
  BY <1>1 DEF Init, Rows
<1>3. \A t \in Requests : answer[t] = <<>>
  BY DEF Init
<1>4. \A n \in Nat : C[n] = {}
  OBVIOUS
<1>5. C = [n \in Nat |-> C[n]]
  OBVIOUS
<1> HIDE DEF C
<1>6. IsHistory(C, C)
  BY <1>1, <1>2, <1>3, <1>4, <1>5 DEF IsHistory
<1> QED BY <1>6 DEF HistoryInv

(* A column of the whole is the sum of what each vehicle's report shows of it. *)
LEMMA ColumnOfReports ==
  ASSUME NEW of, IsFiniteSet(of), NEW k, Naming(k, of, Vehicles),
         NEW x, NEW rows, IsFiniteSet(rows), \A r \in rows : r[x] \in Int /\ r.vehicle \in Vehicles
  PROVE  SumFunction([t \in of |-> Column(x, {r \in rows : r.vehicle = k[t]})]) = Column(x, rows)
<1> DEFINE f == [v \in Vehicles |-> Column(x, {r \in rows : r.vehicle = v})]
           h == [t \in of |-> Column(x, {r \in rows : r.vehicle = k[t]})]
<1>1. IsFiniteSet(Vehicles)
  BY VehiclesAssumption
<1>2. SumFunction(h) = SumFunctionOnSet(h, of)
  BY DEF SumFunction
<1>3. ASSUME NEW v \in Vehicles  PROVE f[v] \in Int
  <2> DEFINE S == {r \in rows : r.vehicle = v}
             g == [r \in rows |-> r[x]]
  <2>1. IsFiniteSet(S) /\ S \in SUBSET rows /\ \A r \in S : g[r] \in Int
    BY FS_Subset
  <2>2. f[v] = Column(x, S)
    OBVIOUS
  <2> HIDE DEF f, S
  <2>3. Column(x, S) = SumFunctionOnSet(g, S)
    BY <2>1, ColumnIsSum
  <2> HIDE DEF g
  <2> QED BY <2>1, <2>2, <2>3, SumType
<1>4. \A t \in of : h[t] = f[k[t]] /\ h[t] \in Int
  BY <1>3 DEF Naming
<1>5. Column(x, rows) = SumFunctionOnSet(f, Vehicles)
  BY ColumnByVehicle
<1> HIDE DEF f, h
<1>6. SumFunctionOnSet(h, of) = SumFunctionOnSet(f, Vehicles)
  BY <1>1, <1>4, SumReindexed
<1> QED BY <1>2, <1>5, <1>6 DEF h

(* What a report that saw n rows answered, once it has answered everything. *)
LEMMA AnsweredFrom ==
  ASSUME BookInv, NEW C, NEW E, IsHistory(C, E), NEW t \in Requests, pc[t] = "answered", NEW n, read[t] = {n}
  PROVE  /\ n \in Nat /\ input[t].kind \in Reports /\ reference[t] \in Days
         /\ \A k \in 1 .. Statements(input[t].kind) :
              answer[t][k] = StatementOf(input[t], reference[t], k, C[n], E[n])
<1>1. /\ input[t].kind \in Reports /\ reference[t] \in Days /\ Len(answer[t]) = Statements(input[t].kind)
      /\ answer[t] \in Seq(Values)
  BY DEF BookInv, ReportFits
<1>2. Statements(input[t].kind) \in Nat /\ Statements(input[t].kind) > 0
  BY <1>1 DEF Statements, Reports
<1>3. answer[t] # <<>>
  BY <1>1, <1>2
<1>4. PICK m \in 0 .. Rows :
        /\ read[t] = {m}
        /\ \A k \in 1 .. Len(answer[t]) : answer[t][k] = StatementOf(input[t], reference[t], k, C[m], E[m])
  BY <1>3 DEF IsHistory
<1>5. m = n /\ m \in Nat
  BY <1>4, RowsNatural
<1> QED BY <1>1, <1>4, <1>5

(* A summary of the month that saw n rows. *)
LEMMA MonthlyAnswer ==
  ASSUME BookInv, NEW C, NEW E, IsHistory(C, E), NEW m \in Answered("monthly")
  PROVE  /\ m \in Requests /\ reference[m] \in Days
         /\ \E n \in Nat : read[m] = {n} /\ answer[m][1] = SumsOf(C[n], Vehicles, MonthOf(reference[m]))
<1>1. m \in Requests /\ input[m].kind = "monthly" /\ pc[m] = "answered"
  BY DEF Answered
<1>2. Len(answer[m]) = 1 /\ answer[m] \in Seq(Values)
  BY <1>1 DEF BookInv, ReportFits, Statements
<1>3. answer[m] # <<>> /\ ~(Len(answer[m]) > 1)
  <2>1. Len(answer[m]) # 0 /\ ~(Len(answer[m]) > 1) /\ Len(<<>>) = 0
    BY <1>2
  <2>2. answer[m] # <<>>
    BY <2>1, Zenon
  <2> QED BY <2>1, <2>2
<1>4. PICK n \in 0 .. Rows : read[m] = {n}
  <2>1. answer[m] # <<>> => (read[m] = {} /\ Len(answer[m]) > 1) \/ (\E n \in 0 .. Rows : read[m] = {n})
    BY <1>1 DEF IsHistory
  <2> QED BY <2>1, <1>3
<1>5. /\ n \in Nat /\ reference[m] \in Days
      /\ \A k \in 1 .. Statements("monthly") :
           answer[m][k] = StatementOf(input[m], reference[m], k, C[n], E[n])
  BY <1>1, <1>4, AnsweredFrom
<1>6. Statements("monthly") = 1
  BY DEF Statements
<1>7. answer[m][1] = StatementOf(input[m], reference[m], 1, C[n], E[n])
  BY <1>5, <1>6
<1>8. StatementOf(input[m], reference[m], 1, C[n], E[n]) = SumsOf(C[n], Vehicles, MonthOf(reference[m]))
  BY <1>1 DEF StatementOf
<1> QED BY <1>1, <1>4, <1>5, <1>7, <1>8

(* A profitability shows the sums of some rows. *)
Shows(t, rows) ==
  LET p == Profitability(t) IN
  /\ p.revenue = Column("revenue", rows) /\ p.fuel = Column("fuel", rows)
  /\ p.reserve = Column("reserve", rows) /\ p.net + p.other = Column("net", rows)

(* The profitability of a vehicle that saw n rows. *)
LEMMA ProfitabilityAnswer ==
  ASSUME BookInv, NEW C, NEW E, IsHistory(C, E), NEW t \in Answered("profitability"), NEW n, read[t] = {n},
         NEW w, Window(input[t].from, input[t].to) = w
  PROVE  t \in Requests /\ input[t].vehicle \in Vehicles /\ Shows(t, RowsIn(C[n], {input[t].vehicle}, w))
<1> DEFINE v == input[t].vehicle
           rows == RowsIn(C[n], {v}, w)
           p == Profitability(t)
<1>1. t \in Requests /\ input[t].kind = "profitability" /\ pc[t] = "answered"
  BY DEF Answered
<1>2. v \in Vehicles
  BY <1>1 DEF BookInv, ReportFits
<1>3. /\ n \in Nat
      /\ \A k \in 1 .. Statements("profitability") :
           answer[t][k] = StatementOf(input[t], reference[t], k, C[n], E[n])
  BY <1>1, AnsweredFrom
<1>4. Statements("profitability") = 2
  BY DEF Statements
<1>5. /\ answer[t][1] = StatementOf(input[t], reference[t], 1, C[n], E[n])
      /\ answer[t][2] = StatementOf(input[t], reference[t], 2, C[n], E[n])
  BY <1>3, <1>4
<1>6. answer[t][1] = SumsOf(C[n], {v}, w)
  BY <1>1, <1>5 DEF StatementOf
<1>7. answer[t][2] = SpentOf(E[n], {v}, w)
  BY <1>1, <1>5 DEF StatementOf
<1>8. ClosingsFit(C[n]) /\ ExpensesFit(E[n])
  BY <1>3 DEF IsHistory
<1>9. /\ IsFiniteSet(rows)
      /\ \A r \in rows : /\ r.revenue \in Nat /\ r.fuel \in Nat /\ r.reserve \in Nat
                         /\ r.net = NetProfit(r.revenue, r.fuel, r.reserve)
  <2>1. rows \subseteq C[n]
    BY DEF RowsIn
  <2> QED BY <2>1, <1>8, FS_Subset DEF ClosingsFit
<1>10. /\ answer[t][1].revenue = Column("revenue", rows) /\ answer[t][1].fuel = Column("fuel", rows)
       /\ answer[t][1].reserve = Column("reserve", rows)
  BY <1>6 DEF SumsOf
<1>11. answer[t][2] \in Nat
  BY <1>7, <1>8, SpentTyped
<1> HIDE DEF rows
<1>12. Column("net", rows) = Column("revenue", rows) - Column("fuel", rows) - Column("reserve", rows)
  BY <1>9, ColumnNet
<1>13. Column("revenue", rows) \in Nat /\ Column("fuel", rows) \in Nat /\ Column("reserve", rows) \in Nat
  <2>1. Column("revenue", rows) \in Nat
    BY <1>9, ColumnNatural
  <2>2. Column("fuel", rows) \in Nat
    BY <1>9, ColumnNatural
  <2>3. Column("reserve", rows) \in Nat
    BY <1>9, ColumnNatural
  <2> QED BY <2>1, <2>2, <2>3
<1>14. /\ p.revenue = answer[t][1].revenue /\ p.fuel = answer[t][1].fuel /\ p.reserve = answer[t][1].reserve
       /\ p.other = answer[t][2]
       /\ p.net = answer[t][1].revenue - (answer[t][1].fuel + answer[t][2] + answer[t][1].reserve)
  BY DEF Profitability
<1> HIDE DEF p
<1>15. p.net + p.other = Column("net", rows)
  BY <1>10, <1>11, <1>12, <1>13, <1>14
<1> QED BY <1>1, <1>2, <1>3, <1>10, <1>14, <1>15 DEF rows, p, Shows

(* The reports of all vehicles over a month add up to its summary. *)
LEMMA ProfitabilitiesAgree ==
  ASSUME BookInv, HistoryInv, NEW m \in Answered("monthly"), NEW of,
         of = {t \in Answered("profitability") :
                 Window(input[t].from, input[t].to) = MonthOf(reference[m]) /\ read[t] = read[m]},
         {input[t].vehicle : t \in of} = Vehicles, Cardinality(of) = Cardinality(Vehicles)
  PROVE  /\ answer[m][1].revenue = SumFunction([t \in of |-> Profitability(t).revenue])
         /\ answer[m][1].fuel = SumFunction([t \in of |-> Profitability(t).fuel])
         /\ answer[m][1].reserve = SumFunction([t \in of |-> Profitability(t).reserve])
         /\ answer[m][1].net = SumFunction([t \in of |-> Profitability(t).net + Profitability(t).other])
<1>1. PICK C, E : IsHistory(C, E)
  BY DEF HistoryInv
<1> DEFINE month == MonthOf(reference[m])
<1>2. PICK n \in Nat : read[m] = {n} /\ answer[m][1] = SumsOf(C[n], Vehicles, month)
  BY <1>1, MonthlyAnswer
<1> DEFINE rows == RowsIn(C[n], Vehicles, month)
           k == [t \in of |-> input[t].vehicle]
           Of(v) == {r \in rows : r.vehicle = v}
<1>3. ASSUME NEW t \in of
      PROVE  /\ t \in Requests /\ input[t].vehicle \in Vehicles
             /\ Profitability(t).revenue = Column("revenue", Of(k[t]))
             /\ Profitability(t).fuel = Column("fuel", Of(k[t]))
             /\ Profitability(t).reserve = Column("reserve", Of(k[t]))
             /\ Profitability(t).net + Profitability(t).other = Column("net", Of(k[t]))
  <2>1. t \in Answered("profitability") /\ Window(input[t].from, input[t].to) = month /\ read[t] = {n}
    BY <1>2
  <2>2. /\ t \in Requests /\ input[t].vehicle \in Vehicles
        /\ Shows(t, RowsIn(C[n], {input[t].vehicle}, month))
    <3> HIDE DEF month
    <3> QED BY <1>1, <2>1, ProfitabilityAnswer
  <2>3. RowsIn(C[n], {input[t].vehicle}, month) = Of(k[t])
    BY <2>2 DEF RowsIn
  <2> HIDE DEF Of, month, k
  <2> QED BY <2>2, <2>3 DEF Shows
<1>4. IsFiniteSet(of)
  <2>1. of \subseteq Requests
    BY <1>3
  <2> QED BY <2>1, FS_Subset, ScenariosAssumption DEF BookInv, Requests
<1>5. k \in [of -> Vehicles] /\ \A v \in Vehicles : \E t \in of : k[t] = v
  BY <1>3
<1>6. \A t, u \in of : k[t] = k[u] => t = u
  <2>1. k \in Surjection(of, Vehicles)
    BY <1>5 DEF Surjection
  <2>2. IsFiniteSet(Vehicles)
    BY VehiclesAssumption
  <2> HIDE DEF k
  <2>3. k \in Injection(of, Vehicles)
    BY <1>4, <2>1, <2>2, FS_SurjSameCardinalityImpliesInj
  <2> QED BY <2>3 DEF Injection, IsInjective
<1>0. Naming(k, of, Vehicles)
  BY <1>5, <1>6 DEF Naming
<1>7. IsFiniteSet(rows) /\ \A r \in rows : /\ r.vehicle \in Vehicles /\ r.revenue \in Int /\ r.fuel \in Int
                                           /\ r.reserve \in Int /\ r.net \in Int
  <2>1. ClosingsFit(C[n]) /\ rows \subseteq C[n]
    BY <1>1 DEF IsHistory, RowsIn
  <2> QED BY <2>1, FS_Subset DEF ClosingsFit, NetProfit
<1>8. /\ answer[m][1].revenue = Column("revenue", rows) /\ answer[m][1].fuel = Column("fuel", rows)
      /\ answer[m][1].reserve = Column("reserve", rows) /\ answer[m][1].net = Column("net", rows)
  BY <1>2 DEF SumsOf
<1> HIDE DEF rows, k, month
<1>9. SumFunction([t \in of |-> Profitability(t).revenue]) = Column("revenue", rows)
  <2>1. [t \in of |-> Profitability(t).revenue] = [t \in of |-> Column("revenue", Of(k[t]))]
    BY <1>3
  <2> QED BY <1>0, <1>4, <1>7, <2>1, ColumnOfReports
<1>10. SumFunction([t \in of |-> Profitability(t).fuel]) = Column("fuel", rows)
  <2>1. [t \in of |-> Profitability(t).fuel] = [t \in of |-> Column("fuel", Of(k[t]))]
    BY <1>3
  <2> QED BY <1>0, <1>4, <1>7, <2>1, ColumnOfReports
<1>11. SumFunction([t \in of |-> Profitability(t).reserve]) = Column("reserve", rows)
  <2>1. [t \in of |-> Profitability(t).reserve] = [t \in of |-> Column("reserve", Of(k[t]))]
    BY <1>3
  <2> QED BY <1>0, <1>4, <1>7, <2>1, ColumnOfReports
<1>12. SumFunction([t \in of |-> Profitability(t).net + Profitability(t).other]) = Column("net", rows)
  <2>1. [t \in of |-> Profitability(t).net + Profitability(t).other] = [t \in of |-> Column("net", Of(k[t]))]
    BY <1>3
  <2> QED BY <1>0, <1>4, <1>7, <2>1, ColumnOfReports
<1> QED BY <1>8, <1>9, <1>10, <1>11, <1>12

(* The sampling of the last day of a month shows the costs of its summary. *)
LEMMA SamplingAgrees ==
  ASSUME BookInv, NestInv, HistoryInv, NEW m \in Answered("monthly"), NEW t \in Answered("sampling"),
         reference[t] = MonthOf(reference[m]).to, read[t] = read[m]
  PROVE  /\ Period(t, "month").fuel = answer[m][1].fuel
         /\ Period(t, "month").reserve = answer[m][1].reserve
<1>1. PICK C, E : IsHistory(C, E)
  BY DEF HistoryInv
<1> DEFINE month == MonthOf(reference[m])
           p == Periods(reference[t])[3]
<1>2. PICK n \in Nat : read[m] = {n} /\ answer[m][1] = SumsOf(C[n], Vehicles, month)
  BY <1>1, MonthlyAnswer
<1>3. reference[m] \in Days
  BY <1>1, MonthlyAnswer
<1>4. t \in Requests /\ input[t].kind = "sampling" /\ pc[t] = "answered" /\ read[t] = {n}
  BY <1>2 DEF Answered
<1>5. /\ reference[t] \in Days
      /\ \A k \in 1 .. Statements("sampling") : answer[t][k] = StatementOf(input[t], reference[t], k, C[n], E[n])
  BY <1>1, <1>4, AnsweredFrom
<1>6. answer[t][5] = StatementOf(input[t], reference[t], 5, C[n], E[n])
  <2>1. Statements("sampling") = 6
    BY DEF Statements
  <2> QED BY <1>5, <2>1
<1>7. answer[t][5] = SumsOf(C[n], Vehicles, p)
  <2>1. (5 + 1) \div 2 = 3 /\ 5 % 2 = 1
    OBVIOUS
  <2>2. StatementOf(input[t], reference[t], 5, C[n], E[n]) = SumsOf(C[n], Vehicles, Periods(reference[t])[(5 + 1) \div 2])
    BY <1>4, <2>1 DEF StatementOf
  <2> QED BY <1>6, <2>1, <2>2
<1>8. p.from = month.from /\ p.to = month.to
  <2>1. p.from = MonthOf(reference[t]).from /\ p.to = reference[t]
    BY <1>5, PeriodBounds
  <2>2. MonthOf(reference[t]) = month
    BY <1>3, MonthOfItsEnd
  <2> QED BY <2>1, <2>2
<1>9. RowsIn(C[n], Vehicles, p) = RowsIn(C[n], Vehicles, month)
  BY <1>8 DEF RowsIn, In
<1>10. SumsOf(C[n], Vehicles, p) = SumsOf(C[n], Vehicles, month)
  BY <1>9 DEF SumsOf
<1>11. Period(t, "month").fuel = answer[t][5].fuel /\ Period(t, "month").reserve = answer[t][5].reserve
  <2>1. LET q == Period(t, <<"day", "week", "month">>[3])
            costs == answer[t][2 * 3 - 1]
        IN  q.fuel = costs.fuel /\ q.reserve = costs.reserve
    BY PeriodIs
  <2>2. <<"day", "week", "month">>[3] = "month" /\ 2 * 3 - 1 = 5
    OBVIOUS
  <2> QED BY <2>1, <2>2
<1> QED BY <1>2, <1>7, <1>10, <1>11

(* Reports that saw the same rows agree. *)
LEMMA HistoryGivesAgreement ==
  ASSUME BookInv, NestInv, HistoryInv
  PROVE  ReportsAgree
<1> SUFFICES ASSUME NEW m \in Answered("monthly")
             PROVE  LET month == MonthOf(reference[m])
                        Same(t) == read[t] = read[m]
                        of == {t \in Answered("profitability") :
                                 Window(input[t].from, input[t].to) = month /\ Same(t)}
                    IN /\ {input[t].vehicle : t \in of} = Vehicles /\ Cardinality(of) = Cardinality(Vehicles) =>
                            /\ answer[m][1].revenue = SumFunction([t \in of |-> Profitability(t).revenue])
                            /\ answer[m][1].fuel = SumFunction([t \in of |-> Profitability(t).fuel])
                            /\ answer[m][1].reserve = SumFunction([t \in of |-> Profitability(t).reserve])
                            /\ answer[m][1].net
                                 = SumFunction([t \in of |-> Profitability(t).net + Profitability(t).other])
                       /\ \A t \in Answered("sampling") : reference[t] = month.to /\ Same(t) =>
                            /\ Period(t, "month").fuel = answer[m][1].fuel
                            /\ Period(t, "month").reserve = answer[m][1].reserve
  BY DEF ReportsAgree
<1> DEFINE of == {t \in Answered("profitability") :
                    Window(input[t].from, input[t].to) = MonthOf(reference[m]) /\ read[t] = read[m]}
<1>1. ASSUME {input[t].vehicle : t \in of} = Vehicles, Cardinality(of) = Cardinality(Vehicles)
      PROVE  /\ answer[m][1].revenue = SumFunction([t \in of |-> Profitability(t).revenue])
             /\ answer[m][1].fuel = SumFunction([t \in of |-> Profitability(t).fuel])
             /\ answer[m][1].reserve = SumFunction([t \in of |-> Profitability(t).reserve])
             /\ answer[m][1].net = SumFunction([t \in of |-> Profitability(t).net + Profitability(t).other])
  BY <1>1, ProfitabilitiesAgree
<1>2. ASSUME NEW t \in Answered("sampling"), reference[t] = MonthOf(reference[m]).to, read[t] = read[m]
      PROVE  /\ Period(t, "month").fuel = answer[m][1].fuel
             /\ Period(t, "month").reserve = answer[m][1].reserve
  BY <1>2, SamplingAgrees
<1> QED BY <1>1, <1>2

-----------------------------------------------------------------------------
(* The theorems *)

(* In every reachable state the books are in order, no answer of a sampling    *)
(* shows more than it should, and every answer is one of the history.          *)
THEOREM BooksInOrder == Spec => [](BookInv /\ NestInv /\ HistoryInv)
<1>1. Init => BookInv /\ NestInv /\ HistoryInv
  BY BookInit, NestInit, HistoryInit
<1>2. BookInv /\ NestInv /\ HistoryInv /\ [Next]_vars => (BookInv /\ NestInv /\ HistoryInv)'
  BY BookStep, NestStep, HistoryStep
<1> QED BY <1>1, <1>2, PTL DEF Spec

(* The types. *)
THEOREM TypeCorrect == Spec => []TypeOK
<1>1. BookInv => TypeOK
  <2> SUFFICES ASSUME BookInv  PROVE TypeOK
    OBVIOUS
  <2>1. \A c \in closings : c.vehicle \in Vehicles /\ c.distance \in Nat /\ c.net \in Int
    <3> SUFFICES ASSUME NEW c \in closings
                 PROVE  c.vehicle \in Vehicles /\ c.distance \in Nat /\ c.net \in Int
      OBVIOUS
    <3>1. /\ c.vehicle \in Vehicles /\ c.distance \in Nat
          /\ c.revenue \in Nat /\ c.fuel \in Nat /\ c.reserve \in Nat
          /\ c.net = NetProfit(c.revenue, c.fuel, c.reserve)
      BY DEF BookInv, ClosingsFit
    <3> QED BY <3>1 DEF NetProfit
  <2>2. reference \in [Requests -> 0 .. MaxDay] /\ today \in 1 .. MaxDay
    BY CalendarAssumption DEF BookInv, Days
  <2>3. \A t \in Requests : answer[t] # <<>> => pc[t] \in {"reading", "answered"}
    BY DEF BookInv, ReportFits
  <2> QED BY <2>1, <2>2, <2>3 DEF BookInv, ExpensesFit, RulesFit, TypeOK
<1> QED BY <1>1, BooksInOrder, PTL

(* Whatever is committed between the statements of a sampling, the day never   *)
(* shows more than the week or the month.                                      *)
THEOREM SamplingsNest == Spec => []SamplingNests
<1>1. BookInv /\ NestInv => SamplingNests
  BY NestGivesNesting
<1> QED BY <1>1, BooksInOrder, PTL

(* The three rounded shares of a period make up 100 percent but for the last   *)
(* digit, whatever the costs.                                                  *)
THEOREM SharesMakeAWhole == Spec => []SharesAddUp
<1>1. BookInv /\ NestInv => SharesAddUp
  BY NestGivesShares
<1> QED BY <1>1, BooksInOrder, PTL

(* Reports of a month that saw the same rows agree to the cent.                *)
THEOREM ReportsAgreeToTheCent == Spec => []ReportsAgree
<1>1. BookInv /\ NestInv /\ HistoryInv => ReportsAgree
  BY HistoryGivesAgreement
<1> QED BY <1>1, BooksInOrder, PTL
=============================================================================
