----------------------------- MODULE SumLemmas ------------------------------
(***************************************************************************)
(* Sums over finite sets, as SumFunctionOnSet of Functions defines them:   *)
(* a sum does not depend on the order of its terms, grows with them, and   *)
(* can be taken in parts.  Proofs about windows of attempts, occurrences   *)
(* of alerts and totals of cost records rest on these.                     *)
(*                                                                         *)
(* Every induction is over a set of counterexamples, of which a least one  *)
(* is refuted.                                                             *)
(***************************************************************************)
EXTENDS Naturals, FiniteSets, Functions, FiniteSetTheorems, WellFoundedInduction, TLAPS

(* A set of sets that is not empty has a set without a smaller one in it.  *)
LEMMA LeastSet ==
    ASSUME NEW T, IsFiniteSet(T), NEW Q \in SUBSET (SUBSET T), Q # {}
    PROVE  \E s \in Q : \A u \in Q : u \subseteq s => u = s
<1>1. IsWellFoundedOn(StrictSubsetOrdering(T), SUBSET T)
  BY FS_StrictSubsetOrderingWellFounded, FS_FiniteSubsetsOfFinite
<1>2. PICK s \in Q : \A u \in Q : ~(<<u, s>> \in StrictSubsetOrdering(T))
  BY <1>1, WFMin
<1>3. ASSUME NEW u \in Q, u \subseteq s PROVE u = s
  BY <1>2, <1>3 DEF StrictSubsetOrdering
<1>4. QED
  BY <1>3

(* The least natural number of a set                                       *)
LEMMA LeastNumber ==
    ASSUME NEW Q \in SUBSET Nat, Q # {}
    PROVE  \E n \in Q : \A m \in Q : n <= m
<1>1. PICK n \in Q : \A m \in Q : ~(<<m, n>> \in OpToRel(<, Nat))
  BY WFMin, NatLessThanWellFounded
<1>2. \A m \in Q : ~(m < n)
  BY <1>1, Zenon DEF OpToRel
<1>3. \A m \in Q : n <= m
  BY <1>2
<1>4. QED
  BY <1>3

-----------------------------------------------------------------------------
(* The fold a sum is defined by, as a recursive function on the subsets    *)

Chosen(s) == CHOOSE x \in s : TRUE

SumOfPart(g, f, s) == IF s = {} THEN 0 ELSE f[Chosen(s)] + g[s \ {Chosen(s)}]

IsSum(g, f, T) == g = [s \in SUBSET T |-> SumOfPart(g, f, s)]

SumOn(f, T) == SumFunctionOnSet(f, T)

(* A function that is right on the subsets of up to n elements             *)
RightUpTo(g, n, f, T) ==
    /\ g = [s \in SUBSET T |-> g[s]]
    /\ \A s \in SUBSET T : Cardinality(s) <= n => g[s] = SumOfPart(g, f, s)

LEMMA OneMore ==
    ASSUME NEW f, NEW T, IsFiniteSet(T), NEW n \in Nat, NEW g, RightUpTo(g, n, f, T)
    PROVE  RightUpTo([s \in SUBSET T |-> SumOfPart(g, f, s)], n + 1, f, T)
<1> DEFINE h == [s \in SUBSET T |-> SumOfPart(g, f, s)]
<1>1. \A s \in SUBSET T : h[s] = SumOfPart(g, f, s)
  OBVIOUS
<1>2. \A s \in SUBSET T : Cardinality(s) <= n => h[s] = g[s]
  BY <1>1 DEF RightUpTo
<1> HIDE DEF h
<1>3. ASSUME NEW s \in SUBSET T, Cardinality(s) <= n + 1
      PROVE  h[s] = SumOfPart(h, f, s)
  <2>1. CASE s = {}
    BY <1>1, <2>1 DEF SumOfPart
  <2>2. CASE s # {}
    <3> DEFINE rest == s \ {Chosen(s)}
    <3>1. Chosen(s) \in s
      BY <2>2 DEF Chosen
    <3>2. IsFiniteSet(s) /\ Cardinality(s) \in Nat
      BY FS_Subset, FS_CardinalityType
    <3>3. Cardinality(rest) = Cardinality(s) - 1
      BY <3>1, <3>2, FS_RemoveElement
    <3>4. rest \in SUBSET T /\ Cardinality(rest) <= n
      BY <1>3, <3>2, <3>3
    <3>5. h[rest] = g[rest]
      BY <1>2, <3>4
    <3>6. QED
      BY <1>1, <2>2, <3>5 DEF SumOfPart
  <2>3. QED
    BY <2>1, <2>2
<1>4. h = [s \in SUBSET T |-> h[s]]
  BY DEF h
<1>5. QED
  BY <1>3, <1>4 DEF RightUpTo, h

LEMMA SumExists ==
    ASSUME NEW f, NEW T, IsFiniteSet(T)
    PROVE  \E g : IsSum(g, f, T)
<1> DEFINE Q == {n \in Nat : ~(\E g : RightUpTo(g, n, f, T))}
<1>1. Q = {}
  <2> SUFFICES ASSUME Q # {} PROVE FALSE
    OBVIOUS
  <2>1. PICK n \in Q : \A m \in Q : n <= m
    BY LeastNumber
  <2>2. n \in Nat /\ ~(\E g : RightUpTo(g, n, f, T))
    BY <2>1
  <2>3. n # 0
    <3> SUFFICES ASSUME n = 0 PROVE FALSE
      OBVIOUS
    <3> DEFINE g == [s \in SUBSET T |-> 0]
    <3>1. ASSUME NEW s \in SUBSET T, Cardinality(s) <= 0 PROVE g[s] = SumOfPart(g, f, s)
      <4>1. IsFiniteSet(s) /\ Cardinality(s) \in Nat
        BY FS_Subset, FS_CardinalityType
      <4>2. s = {}
        BY <3>1, <4>1, FS_EmptySet
      <4>3. QED
        BY <4>2 DEF SumOfPart
    <3>2. RightUpTo(g, 0, f, T)
      BY <3>1 DEF RightUpTo
    <3>3. QED
      BY <2>2, <3>2
  <2>4. n - 1 \in Nat /\ ~(n <= n - 1)
    BY <2>2, <2>3
  <2>5. PICK g : RightUpTo(g, n - 1, f, T)
    BY <2>1, <2>4
  <2>6. RightUpTo([s \in SUBSET T |-> SumOfPart(g, f, s)], (n - 1) + 1, f, T)
    BY <2>4, <2>5, OneMore
  <2>7. (n - 1) + 1 = n
    BY <2>2
  <2>8. QED
    BY <2>2, <2>6, <2>7
<1>2. Cardinality(T) \in Nat
  BY FS_CardinalityType
<1>3. PICK g : RightUpTo(g, Cardinality(T), f, T)
  BY <1>1, <1>2
<1>4. ASSUME NEW s \in SUBSET T PROVE g[s] = SumOfPart(g, f, s)
  BY <1>3, <1>4, FS_Subset DEF RightUpTo
<1>5. g = [s \in SUBSET T |-> SumOfPart(g, f, s)]
  BY <1>3, <1>4, Zenon DEF RightUpTo
<1>6. QED
  BY <1>5 DEF IsSum

LEMMA SumIsFold ==
    ASSUME NEW f, NEW T
    PROVE  SumOn(f, T) = (CHOOSE g : IsSum(g, f, T))[T]
  BY Zenon DEF SumOn, SumFunctionOnSet, FoldFunctionOnSet, MapThenFoldSet, IsSum, SumOfPart, Chosen

(* Two folds agree where both are defined.                                 *)
LEMMA FoldsAgree ==
    ASSUME NEW f, NEW T, IsFiniteSet(T), NEW g, IsSum(g, f, T),
           NEW U \in SUBSET T, NEW h, IsSum(h, f, U)
    PROVE  \A s \in SUBSET U : h[s] = g[s]
<1> DEFINE Q == {s \in SUBSET U : h[s] # g[s]}
<1> SUFFICES ASSUME Q # {} PROVE FALSE
  OBVIOUS
<1>1. IsFiniteSet(U)
  BY FS_Subset
<1>q. Q \in SUBSET (SUBSET U) /\ Q # {}
  OBVIOUS
<1>d. \A s \in SUBSET U : s \notin Q => h[s] = g[s]
  OBVIOUS
<1>e. \A s \in Q : h[s] # g[s]
  OBVIOUS
<1> HIDE DEF Q
<1>2. PICK s \in Q : \A u \in Q : u \subseteq s => u = s
  BY <1>1, <1>q, LeastSet
<1>3. s \in SUBSET U /\ s \in SUBSET T /\ h[s] # g[s]
  BY <1>q, <1>e, <1>2
<1>4. g[s] = SumOfPart(g, f, s) /\ h[s] = SumOfPart(h, f, s)
  BY <1>3 DEF IsSum
<1>5. s # {}
  BY <1>3, <1>4 DEF SumOfPart
<1>6. Chosen(s) \in s
  BY <1>5 DEF Chosen
<1>7. h[s \ {Chosen(s)}] = g[s \ {Chosen(s)}]
  BY <1>d, <1>2, <1>3, <1>6
<1>8. QED
  BY <1>3, <1>4, <1>5, <1>7 DEF SumOfPart

(* The equations of a sum: of nothing, and of some element and the rest    *)
LEMMA SumOfChosen ==
    ASSUME NEW f, NEW T, IsFiniteSet(T)
    PROVE  SumOn(f, T) = IF T = {} THEN 0 ELSE f[Chosen(T)] + SumOn(f, T \ {Chosen(T)})
<1> DEFINE g == CHOOSE x : IsSum(x, f, T)
           U == T \ {Chosen(T)}
           h == CHOOSE x : IsSum(x, f, U)
<1>1. IsSum(g, f, T)
  BY SumExists, Zenon
<1>2. IsFiniteSet(U) /\ U \in SUBSET T
  BY FS_Subset
<1>3. IsSum(h, f, U)
  BY <1>2, SumExists, Zenon
<1>4. SumOn(f, T) = g[T] /\ SumOn(f, U) = h[U]
  BY SumIsFold
<1> HIDE DEF g, h, U
<1>5. h[U] = g[U]
  BY <1>1, <1>2, <1>3, FoldsAgree
<1>6. g[T] = SumOfPart(g, f, T)
  BY <1>1 DEF IsSum
<1>7. QED
  BY <1>4, <1>5, <1>6 DEF SumOfPart, U

LEMMA EmptySum == \A f : SumOn(f, {}) = 0
<1>1. IsFiniteSet({})
  BY FS_EmptySet
<1>2. QED
  BY <1>1, SumOfChosen

LEMMA SumIsNat ==
    ASSUME NEW T, IsFiniteSet(T), NEW f, \A x \in T : f[x] \in Nat
    PROVE  SumOn(f, T) \in Nat
<1> DEFINE Q == {s \in SUBSET T : SumOn(f, s) \notin Nat}
<1> SUFFICES ASSUME Q # {} PROVE FALSE
  OBVIOUS
<1>1. Q \in SUBSET (SUBSET T) /\ (\A s \in SUBSET T : s \notin Q => SumOn(f, s) \in Nat)
      /\ (\A s \in Q : SumOn(f, s) \notin Nat)
  OBVIOUS
<1> HIDE DEF Q
<1>2. PICK s \in Q : \A u \in Q : u \subseteq s => u = s
  BY <1>1, LeastSet
<1>3. s \in SUBSET T /\ SumOn(f, s) \notin Nat /\ IsFiniteSet(s)
  BY <1>1, <1>2, FS_Subset
<1>4. SumOn(f, s) = IF s = {} THEN 0 ELSE f[Chosen(s)] + SumOn(f, s \ {Chosen(s)})
  BY <1>3, SumOfChosen
<1>5. s # {} /\ Chosen(s) \in s
  BY <1>3, <1>4 DEF Chosen
<1>6. SumOn(f, s \ {Chosen(s)}) \in Nat
  BY <1>1, <1>2, <1>3, <1>5
<1>7. f[Chosen(s)] \in Nat
  BY <1>3, <1>5
<1>8. QED
  BY <1>3, <1>4, <1>5, <1>6, <1>7

(* A sum does not depend on the order: any element may be taken first.     *)
LEMMA SumPick ==
    ASSUME NEW T, IsFiniteSet(T), NEW f, \A x \in T : f[x] \in Nat, NEW a \in T
    PROVE  SumOn(f, T) = f[a] + SumOn(f, T \ {a})
<1> DEFINE Bad(s) == \E x \in s : SumOn(f, s) # f[x] + SumOn(f, s \ {x})
           Q == {s \in SUBSET T : Bad(s)}
<1> SUFFICES ASSUME Q # {} PROVE FALSE
  OBVIOUS
<1>1. /\ Q \in SUBSET (SUBSET T)
      /\ \A s \in SUBSET T : s \notin Q => \A x \in s : SumOn(f, s) = f[x] + SumOn(f, s \ {x})
      /\ \A s \in Q : \E x \in s : SumOn(f, s) # f[x] + SumOn(f, s \ {x})
  OBVIOUS
<1> HIDE DEF Q
<1>2. PICK s \in Q : \A u \in Q : u \subseteq s => u = s
  BY <1>1, LeastSet
<1>3. s \in SUBSET T /\ IsFiniteSet(s)
  BY <1>1, <1>2, FS_Subset
<1>4. PICK x \in s : SumOn(f, s) # f[x] + SumOn(f, s \ {x})
  BY <1>1, <1>2
<1> DEFINE c == Chosen(s)
<1>5. c \in s /\ SumOn(f, s) = f[c] + SumOn(f, s \ {c})
  <2>1. s # {} /\ c \in s
    BY <1>4 DEF Chosen
  <2>2. QED
    BY <1>3, <2>1, SumOfChosen
<1> HIDE DEF c
<1>6. c # x
  BY <1>4, <1>5
<1>7. SumOn(f, s \ {c}) = f[x] + SumOn(f, (s \ {c}) \ {x})
  BY <1>1, <1>2, <1>3, <1>4, <1>5, <1>6
<1>8. SumOn(f, s \ {x}) = f[c] + SumOn(f, (s \ {x}) \ {c})
  BY <1>1, <1>2, <1>3, <1>4, <1>5, <1>6
<1>9. (s \ {c}) \ {x} = (s \ {x}) \ {c}
  OBVIOUS
<1>10. SumOn(f, (s \ {x}) \ {c}) \in Nat
  <2>1. (s \ {x}) \ {c} \in SUBSET T
    BY <1>3
  <2>2. IsFiniteSet((s \ {x}) \ {c})
    BY <2>1, FS_Subset
  <2>3. \A y \in (s \ {x}) \ {c} : f[y] \in Nat
    BY <2>1
  <2>4. QED
    BY <2>2, <2>3, SumIsNat
<1>11. f[c] \in Nat /\ f[x] \in Nat
  BY <1>3, <1>4, <1>5
<1>12. QED
  BY <1>4, <1>5, <1>7, <1>8, <1>9, <1>10, <1>11

LEMMA SumWith ==
    ASSUME NEW T, IsFiniteSet(T), NEW f, NEW a, a \notin T, \A x \in T \cup {a} : f[x] \in Nat
    PROVE  SumOn(f, T \cup {a}) = f[a] + SumOn(f, T)
<1>1. IsFiniteSet(T \cup {a}) /\ (T \cup {a}) \ {a} = T
  BY FS_AddElement
<1>2. SumOn(f, T \cup {a}) = f[a] + SumOn(f, (T \cup {a}) \ {a})
  BY <1>1, SumPick
<1>3. QED
  BY <1>1, <1>2

(* Sums of what is the same, and of what is no more                        *)
LEMMA SumSame ==
    ASSUME NEW T, IsFiniteSet(T), NEW f, NEW g, \A x \in T : f[x] = g[x]
    PROVE  SumOn(f, T) = SumOn(g, T)
<1> DEFINE Q == {s \in SUBSET T : SumOn(f, s) # SumOn(g, s)}
<1> SUFFICES ASSUME Q # {} PROVE FALSE
  OBVIOUS
<1>1. Q \in SUBSET (SUBSET T) /\ (\A s \in SUBSET T : s \notin Q => SumOn(f, s) = SumOn(g, s))
      /\ (\A s \in Q : SumOn(f, s) # SumOn(g, s))
  OBVIOUS
<1> HIDE DEF Q
<1>2. PICK s \in Q : \A u \in Q : u \subseteq s => u = s
  BY <1>1, LeastSet
<1>3. s \in SUBSET T /\ IsFiniteSet(s)
  BY <1>1, <1>2, FS_Subset
<1>4. /\ SumOn(f, s) = IF s = {} THEN 0 ELSE f[Chosen(s)] + SumOn(f, s \ {Chosen(s)})
      /\ SumOn(g, s) = IF s = {} THEN 0 ELSE g[Chosen(s)] + SumOn(g, s \ {Chosen(s)})
  BY <1>3, SumOfChosen
<1>5. s # {}
  BY <1>1, <1>2, <1>4
<1>6. Chosen(s) \in s
  BY <1>5 DEF Chosen
<1>7. SumOn(f, s \ {Chosen(s)}) = SumOn(g, s \ {Chosen(s)})
  BY <1>1, <1>2, <1>3, <1>6
<1>8. f[Chosen(s)] = g[Chosen(s)]
  BY <1>3, <1>6
<1>9. QED
  BY <1>1, <1>2, <1>4, <1>5, <1>7, <1>8

LEMMA SumNoMore ==
    ASSUME NEW T, IsFiniteSet(T), NEW f, NEW g,
           \A x \in T : f[x] \in Nat /\ g[x] \in Nat /\ f[x] <= g[x]
    PROVE  SumOn(f, T) <= SumOn(g, T)
<1> DEFINE Q == {s \in SUBSET T : ~(SumOn(f, s) <= SumOn(g, s))}
<1> SUFFICES ASSUME Q # {} PROVE FALSE
  OBVIOUS
<1>1. Q \in SUBSET (SUBSET T) /\ (\A s \in SUBSET T : s \notin Q => SumOn(f, s) <= SumOn(g, s))
      /\ (\A s \in Q : ~(SumOn(f, s) <= SumOn(g, s)))
  OBVIOUS
<1> HIDE DEF Q
<1>2. PICK s \in Q : \A u \in Q : u \subseteq s => u = s
  BY <1>1, LeastSet
<1>3. s \in SUBSET T /\ IsFiniteSet(s)
  BY <1>1, <1>2, FS_Subset
<1>4. /\ SumOn(f, s) = IF s = {} THEN 0 ELSE f[Chosen(s)] + SumOn(f, s \ {Chosen(s)})
      /\ SumOn(g, s) = IF s = {} THEN 0 ELSE g[Chosen(s)] + SumOn(g, s \ {Chosen(s)})
  BY <1>3, SumOfChosen
<1>5. s # {}
  BY <1>1, <1>2, <1>4
<1>6. Chosen(s) \in s
  BY <1>5 DEF Chosen
<1> DEFINE r == s \ {Chosen(s)}
<1>7. SumOn(f, r) <= SumOn(g, r)
  BY <1>1, <1>2, <1>3, <1>6
<1>8. IsFiniteSet(r) /\ r \in SUBSET T
  BY <1>3, FS_Subset
<1>9. SumOn(f, r) \in Nat /\ SumOn(g, r) \in Nat
  BY <1>8, SumIsNat
<1>10. /\ f[Chosen(s)] \in Nat /\ g[Chosen(s)] \in Nat
       /\ f[Chosen(s)] <= g[Chosen(s)]
  BY <1>3, <1>6
<1>11. SumOn(f, s) <= SumOn(g, s)
  BY <1>4, <1>5, <1>7, <1>9, <1>10
<1>12. QED
  BY <1>1, <1>2, <1>11

(* The sum over two sets that share nothing                                *)
LEMMA SumOfUnion ==
    ASSUME NEW T, IsFiniteSet(T), NEW U, IsFiniteSet(U), T \cap U = {},
           NEW f, \A x \in T \cup U : f[x] \in Nat
    PROVE  SumOn(f, T \cup U) = SumOn(f, T) + SumOn(f, U)
<1> DEFINE Q == {s \in SUBSET T : SumOn(f, s \cup U) # SumOn(f, s) + SumOn(f, U)}
<1> SUFFICES ASSUME Q # {} PROVE FALSE
  OBVIOUS
<1>1. Q \in SUBSET (SUBSET T)
      /\ (\A s \in SUBSET T : s \notin Q => SumOn(f, s \cup U) = SumOn(f, s) + SumOn(f, U))
      /\ (\A s \in Q : SumOn(f, s \cup U) # SumOn(f, s) + SumOn(f, U))
  OBVIOUS
<1> HIDE DEF Q
<1>2. PICK s \in Q : \A u \in Q : u \subseteq s => u = s
  BY <1>1, LeastSet
<1>3. s \in SUBSET T /\ IsFiniteSet(s)
  BY <1>1, <1>2, FS_Subset
<1>4. SumOn(f, U) \in Nat
  BY SumIsNat
<1>5. s # {}
  <2> SUFFICES ASSUME s = {} PROVE FALSE
    OBVIOUS
  <2>1. s \cup U = U /\ SumOn(f, s) = 0
    BY EmptySum
  <2>2. QED
    BY <1>1, <1>2, <1>4, <2>1
<1>6. PICK a \in s : TRUE
  BY <1>5
<1> DEFINE r == s \ {a}
<1>7. /\ r \in SUBSET T /\ IsFiniteSet(r) /\ r \cup {a} = s /\ a \notin r
      /\ IsFiniteSet(r \cup U) /\ a \notin r \cup U /\ (r \cup U) \cup {a} = s \cup U
  BY <1>3, <1>6, FS_Subset, FS_Union
<1>8. SumOn(f, r \cup U) = SumOn(f, r) + SumOn(f, U)
  BY <1>1, <1>2, <1>6, <1>7
<1> HIDE DEF r
<1>9. SumOn(f, s) = f[a] + SumOn(f, r)
  BY <1>3, <1>7, SumWith
<1>10. SumOn(f, s \cup U) = f[a] + SumOn(f, r \cup U)
  BY <1>3, <1>7, SumWith
<1>11. SumOn(f, r) \in Nat /\ f[a] \in Nat
  BY <1>3, <1>6, <1>7, SumIsNat
<1>12. QED
  BY <1>1, <1>2, <1>4, <1>8, <1>9, <1>10, <1>11

LEMMA SumOfSubset ==
    ASSUME NEW T, IsFiniteSet(T), NEW U \in SUBSET T, NEW f, \A x \in T : f[x] \in Nat
    PROVE  SumOn(f, U) <= SumOn(f, T)
<1>1. IsFiniteSet(U) /\ IsFiniteSet(T \ U) /\ U \cup (T \ U) = T /\ U \cap (T \ U) = {}
  BY FS_Subset
<1>2. SumOn(f, T) = SumOn(f, U) + SumOn(f, T \ U)
  BY <1>1, SumOfUnion
<1>3. SumOn(f, U) \in Nat /\ SumOn(f, T \ U) \in Nat
  BY <1>1, SumIsNat
<1>4. QED
  BY <1>2, <1>3

(* A sum of which one term changes                                         *)
LEMMA SumChange ==
    ASSUME NEW T, IsFiniteSet(T), NEW a \in T, NEW f, NEW g,
           \A x \in T : f[x] \in Nat /\ g[x] \in Nat,
           \A x \in T \ {a} : f[x] = g[x]
    PROVE  SumOn(g, T) + f[a] = SumOn(f, T) + g[a]
<1>1. SumOn(f, T) = f[a] + SumOn(f, T \ {a}) /\ SumOn(g, T) = g[a] + SumOn(g, T \ {a})
  BY SumPick
<1>2. IsFiniteSet(T \ {a})
  BY FS_Subset
<1>3. SumOn(f, T \ {a}) = SumOn(g, T \ {a})
  BY <1>2, SumSame
<1>4. SumOn(f, T \ {a}) \in Nat
  BY <1>2, SumIsNat
<1>5. QED
  BY <1>1, <1>3, <1>4

(* No term exceeds the sum.                                                *)
LEMMA TermOfSum ==
    ASSUME NEW T, IsFiniteSet(T), NEW f, \A x \in T : f[x] \in Nat, NEW a \in T
    PROVE  f[a] <= SumOn(f, T)
<1>1. SumOn(f, T) = f[a] + SumOn(f, T \ {a})
  BY SumPick
<1>2. IsFiniteSet(T \ {a})
  BY FS_Subset
<1>3. SumOn(f, T \ {a}) \in Nat
  BY <1>2, SumIsNat
<1>4. QED
  BY <1>1, <1>3

(* A sum of zeros, and a sum of ones                                       *)
LEMMA SumOfZeros ==
    ASSUME NEW T, IsFiniteSet(T), NEW f, \A x \in T : f[x] = 0
    PROVE  SumOn(f, T) = 0
<1> DEFINE Q == {s \in SUBSET T : SumOn(f, s) # 0}
<1> SUFFICES ASSUME Q # {} PROVE FALSE
  OBVIOUS
<1>1. Q \in SUBSET (SUBSET T) /\ (\A s \in SUBSET T : s \notin Q => SumOn(f, s) = 0)
      /\ (\A s \in Q : SumOn(f, s) # 0)
  OBVIOUS
<1> HIDE DEF Q
<1>2. PICK s \in Q : \A u \in Q : u \subseteq s => u = s
  BY <1>1, LeastSet
<1>3. s \in SUBSET T /\ SumOn(f, s) # 0 /\ IsFiniteSet(s)
  BY <1>1, <1>2, FS_Subset
<1>4. SumOn(f, s) = IF s = {} THEN 0 ELSE f[Chosen(s)] + SumOn(f, s \ {Chosen(s)})
  BY <1>3, SumOfChosen
<1>5. s # {} /\ Chosen(s) \in s
  BY <1>3, <1>4 DEF Chosen
<1>6. SumOn(f, s \ {Chosen(s)}) = 0
  BY <1>1, <1>2, <1>3, <1>5
<1>7. f[Chosen(s)] = 0
  BY <1>3, <1>5
<1>8. QED
  BY <1>3, <1>4, <1>5, <1>6, <1>7


(* The values of a function on a finite set are finitely many.             *)
LEMMA FiniteImage ==
    ASSUME NEW T, IsFiniteSet(T), NEW f
    PROVE  IsFiniteSet({f[x] : x \in T})
<1> DEFINE Q == {s \in SUBSET T : ~IsFiniteSet({f[x] : x \in s})}
<1> SUFFICES ASSUME Q # {} PROVE FALSE
  OBVIOUS
<1>1. Q \in SUBSET (SUBSET T) /\ (\A s \in SUBSET T : s \notin Q => IsFiniteSet({f[x] : x \in s}))
      /\ (\A s \in Q : ~IsFiniteSet({f[x] : x \in s}))
  OBVIOUS
<1> HIDE DEF Q
<1>2. PICK s \in Q : \A u \in Q : u \subseteq s => u = s
  BY <1>1, LeastSet
<1>3. s \in SUBSET T /\ ~IsFiniteSet({f[x] : x \in s})
  BY <1>1, <1>2
<1>4. s # {}
  <2>1. s = {} => {f[x] : x \in s} = {}
    OBVIOUS
  <2>2. QED
    BY <1>3, <2>1, FS_EmptySet
<1>5. PICK a \in s : TRUE
  BY <1>4
<1> DEFINE r == s \ {a}
<1>6. r \in SUBSET T /\ r \notin Q
  BY <1>2, <1>3, <1>5
<1>7. IsFiniteSet({f[x] : x \in r})
  BY <1>1, <1>6
<1>8. {f[x] : x \in s} = {f[x] : x \in r} \cup {f[a]}
  BY <1>5
<1>9. IsFiniteSet({f[x] : x \in r} \cup {f[a]})
  BY <1>7, FS_AddElement
<1>10. QED
  BY <1>3, <1>8, <1>9

(* The sum by groups: the terms with one label are summed first.           *)
Labels(label, T) == {label[x] : x \in T}
Labelled(label, T, g) == {x \in T : label[x] = g}
GroupSums(f, label, T) == [g \in Labels(label, T) |-> SumOn(f, Labelled(label, T, g))]

LEMMA SumOfGroups ==
    ASSUME NEW T, IsFiniteSet(T), NEW f, \A x \in T : f[x] \in Nat, NEW label
    PROVE  SumOn(GroupSums(f, label, T), Labels(label, T)) = SumOn(f, T)
<1> DEFINE Right(s) == SumOn(GroupSums(f, label, s), Labels(label, s)) = SumOn(f, s)
           Q == {s \in SUBSET T : ~Right(s)}
<1> SUFFICES ASSUME Q # {} PROVE FALSE
  OBVIOUS
<1>1. Q \in SUBSET (SUBSET T) /\ (\A s \in SUBSET T : s \notin Q => Right(s)) /\ (\A s \in Q : ~Right(s))
  OBVIOUS
<1> HIDE DEF Q
<1>2. PICK s \in Q : \A u \in Q : u \subseteq s => u = s
  BY <1>1, LeastSet
<1>3. s \in SUBSET T /\ ~Right(s) /\ IsFiniteSet(s)
  BY <1>1, <1>2, FS_Subset
<1>4. s # {}
  <2> SUFFICES ASSUME s = {} PROVE FALSE
    OBVIOUS
  <2>1. Labels(label, s) = {}
    BY DEF Labels
  <2>2. QED
    BY <1>3, <2>1, EmptySum
<1>5. PICK a \in s : TRUE
  BY <1>4
<1> DEFINE g == label[a]
           first == Labelled(label, s, g)
           r == s \ first
<1>6. r \in SUBSET T /\ r \notin Q /\ IsFiniteSet(r) /\ IsFiniteSet(first)
  BY <1>2, <1>3, <1>5, FS_Subset DEF Labelled
<1>7. Right(r)
  BY <1>1, <1>6
<1>8. SumOn(f, s) = SumOn(f, first) + SumOn(f, r)
  <2>1. first \cap r = {} /\ first \cup r = s /\ \A x \in first \cup r : f[x] \in Nat
    BY <1>3 DEF Labelled
  <2> HIDE DEF first, r
  <2>2. QED
    BY <1>6, <2>1, SumOfUnion
<1>9. Labels(label, r) = Labels(label, s) \ {g} /\ g \in Labels(label, s) /\ IsFiniteSet(Labels(label, s))
  <2>1. IsFiniteSet(Labels(label, s))
    BY <1>3, FiniteImage DEF Labels
  <2>2. QED
    BY <1>5, <2>1 DEF Labels, Labelled
<1>10. \A h \in Labels(label, r) : GroupSums(f, label, r)[h] = GroupSums(f, label, s)[h]
  <2> SUFFICES ASSUME NEW h \in Labels(label, r) PROVE GroupSums(f, label, r)[h] = GroupSums(f, label, s)[h]
    OBVIOUS
  <2>1. Labelled(label, r, h) = Labelled(label, s, h)
    BY <1>9 DEF Labelled
  <2>2. QED
    BY <1>9, <2>1 DEF GroupSums
<1>11. \A h \in Labels(label, s) : GroupSums(f, label, s)[h] \in Nat
  <2> SUFFICES ASSUME NEW h \in Labels(label, s) PROVE SumOn(f, Labelled(label, s, h)) \in Nat
    BY DEF GroupSums
  <2>1. IsFiniteSet(Labelled(label, s, h)) /\ \A x \in Labelled(label, s, h) : f[x] \in Nat
    BY <1>3, FS_Subset DEF Labelled
  <2>2. QED
    BY <2>1, SumIsNat
<1>12. SumOn(GroupSums(f, label, s), Labels(label, s))
         = GroupSums(f, label, s)[g] + SumOn(GroupSums(f, label, s), Labels(label, s) \ {g})
  BY <1>9, <1>11, SumPick
<1>13. GroupSums(f, label, s)[g] = SumOn(f, first)
  BY <1>9 DEF GroupSums
<1>14. SumOn(GroupSums(f, label, s), Labels(label, r)) = SumOn(GroupSums(f, label, r), Labels(label, r))
  <2>1. IsFiniteSet(Labels(label, r))
    BY <1>9, FS_Subset
  <2>2. QED
    BY <1>10, <2>1, SumSame
<1>15. QED
  BY <1>3, <1>7, <1>8, <1>9, <1>12, <1>13, <1>14

(* The sum over what a function makes of a set, no two of its values equal *)
LEMMA SumOverImage ==
    ASSUME NEW L, IsFiniteSet(L), NEW row, \A g, h \in L : row[g] = row[h] => g = h,
           NEW p, NEW v, \A g \in L : p[g] \in Nat /\ v[row[g]] = p[g]
    PROVE  SumOn(v, {row[g] : g \in L}) = SumOn(p, L)
<1> DEFINE Right(s) == SumOn(v, {row[g] : g \in s}) = SumOn(p, s)
           Q == {s \in SUBSET L : ~Right(s)}
<1> SUFFICES ASSUME Q # {} PROVE FALSE
  OBVIOUS
<1>1. Q \in SUBSET (SUBSET L) /\ (\A s \in SUBSET L : s \notin Q => Right(s)) /\ (\A s \in Q : ~Right(s))
  OBVIOUS
<1> HIDE DEF Q
<1>2. PICK s \in Q : \A u \in Q : u \subseteq s => u = s
  BY <1>1, LeastSet
<1>3. s \in SUBSET L /\ ~Right(s) /\ IsFiniteSet(s)
  BY <1>1, <1>2, FS_Subset
<1>4. s # {}
  <2> SUFFICES ASSUME s = {} PROVE FALSE
    OBVIOUS
  <2>1. {row[g] : g \in s} = {}
    OBVIOUS
  <2>2. QED
    BY <1>3, <2>1, EmptySum
<1>5. PICK a \in s : TRUE
  BY <1>4
<1> DEFINE r == s \ {a}
<1>6. r \in SUBSET L /\ r \notin Q /\ IsFiniteSet(r) /\ a \notin r /\ s = r \cup {a}
  BY <1>2, <1>3, <1>5, FS_Subset
<1>7. Right(r)
  BY <1>1, <1>6
<1>8. /\ {row[g] : g \in s} = {row[g] : g \in r} \cup {row[a]}
      /\ row[a] \notin {row[g] : g \in r}
      /\ \A x \in {row[g] : g \in s} : v[x] \in Nat
  BY <1>3, <1>5
<1>9. IsFiniteSet({row[g] : g \in r})
  BY <1>6, FiniteImage
<1> DEFINE image == {row[g] : g \in r}
<1>10. SumOn(v, image \cup {row[a]}) = v[row[a]] + SumOn(v, image)
  <2>1. IsFiniteSet(image) /\ row[a] \notin image /\ \A x \in image \cup {row[a]} : v[x] \in Nat
    BY <1>8, <1>9
  <2> HIDE DEF image
  <2>2. QED
    BY <2>1, SumWith
<1>11. SumOn(p, s) = p[a] + SumOn(p, r)
  <2>1. \A x \in r \cup {a} : p[x] \in Nat
    BY <1>3, <1>6
  <2> HIDE DEF r
  <2>2. QED
    BY <1>6, <2>1, SumWith
<1>12. v[row[a]] = p[a]
  BY <1>3, <1>5
<1>13. QED
  BY <1>3, <1>7, <1>8, <1>10, <1>11, <1>12

LEMMA SumOfOnes ==
    ASSUME NEW T, IsFiniteSet(T), NEW f, \A x \in T : f[x] = 1
    PROVE  SumOn(f, T) = Cardinality(T)
<1> DEFINE Q == {s \in SUBSET T : SumOn(f, s) # Cardinality(s)}
<1> SUFFICES ASSUME Q # {} PROVE FALSE
  OBVIOUS
<1>1. Q \in SUBSET (SUBSET T) /\ (\A s \in SUBSET T : s \notin Q => SumOn(f, s) = Cardinality(s))
      /\ (\A s \in Q : SumOn(f, s) # Cardinality(s))
  OBVIOUS
<1> HIDE DEF Q
<1>2. PICK s \in Q : \A u \in Q : u \subseteq s => u = s
  BY <1>1, LeastSet
<1>3. s \in SUBSET T /\ SumOn(f, s) # Cardinality(s) /\ IsFiniteSet(s)
  BY <1>1, <1>2, FS_Subset
<1>4. s # {}
  BY <1>3, EmptySum, FS_EmptySet
<1>5. PICK a \in s : TRUE
  BY <1>4
<1> DEFINE r == s \ {a}
<1>6. r \in SUBSET T /\ r \notin Q
  BY <1>2, <1>3, <1>5
<1>7. SumOn(f, r) = Cardinality(r)
  BY <1>1, <1>6
<1>8. SumOn(f, s) = f[a] + SumOn(f, r)
  BY <1>3, <1>5, SumPick
<1>9. Cardinality(r) = Cardinality(s) - 1 /\ Cardinality(s) \in Nat
  BY <1>3, <1>5, FS_RemoveElement, FS_CardinalityType
<1>10. f[a] = 1
  BY <1>3, <1>5
<1>11. QED
  BY <1>3, <1>7, <1>8, <1>9, <1>10

=============================================================================
