--------------------------- MODULE Clients_proofs ---------------------------
(***************************************************************************)
(* The monitoring agent and the JavaScript SDK deliver at least once, for  *)
(* any number of events and any sizes of their queues: each implements     *)
(* AtLeastOnceDelivery.                                                    *)
(*                                                                         *)
(* What carries the argument is where copies may be.  In the agent an item *)
(* fetched from SQLite is in SQLite until it is settled, and so is an item *)
(* of memory whose failed attempt has been stored.  In the SDK the log     *)
(* follows the Map late: what it holds beyond the rows is settled, and the *)
(* lines still to be written say what happened to their events.            *)
(***************************************************************************)
EXTENDS JsSdk, AgentPipeline, SequenceTheorems, FiniteSetTheorems, WellFoundedInduction, TLAPS

(* The least of two numbers and of a set of positions                      *)
LEMMA MinOfTwo == \A a, b \in Nat : Min({a, b}) = IF a <= b THEN a ELSE b
<1> SUFFICES ASSUME NEW a \in Nat, NEW b \in Nat PROVE Min({a, b}) = IF a <= b THEN a ELSE b
  OBVIOUS
<1> DEFINE m == IF a <= b THEN a ELSE b
<1>1. m \in {a, b} /\ \A y \in {a, b} : m <= y
  OBVIOUS
<1>2. \A x \in {a, b} : (\A y \in {a, b} : x <= y) => x = m
  OBVIOUS
<1> HIDE DEF m
<1>3. Min({a, b}) = m
  BY <1>1, <1>2 DEF Min
<1>4. QED
  BY <1>3 DEF m

(* A nonempty set of positions has a first one.                            *)
LEMMA MinOfPositions ==
    ASSUME NEW P \in SUBSET Nat, P # {}
    PROVE  Min(P) \in P
<1>1. PICK x \in P : \A y \in P : ~(<<y, x>> \in OpToRel(<, Nat))
  BY WFMin, NatLessThanWellFounded
<1>2. \A y \in P : ~(y < x)
  BY <1>1, Zenon DEF OpToRel
<1>3. \A y \in P : x <= y
  BY <1>2
<1>4. QED
  BY <1>3 DEF Min

(* Sequences and the elements they hold                                    *)
LEMMA SetOfAppend ==
    ASSUME NEW S, NEW s \in Seq(S), NEW x \in S
    PROVE  /\ Append(s, x) \in Seq(S)
           /\ ToSet(Append(s, x)) = ToSet(s) \cup {x}
           /\ IsInjective(s) /\ x \notin ToSet(s) => IsInjective(Append(s, x))
<1> DEFINE t == Append(s, x)
<1>1. /\ t \in Seq(S) /\ DOMAIN t = 1..Len(s) + 1 /\ DOMAIN s = 1..Len(s) /\ Len(s) \in Nat
      /\ \A i \in 1..Len(s) : t[i] = s[i]
      /\ t[Len(s) + 1] = x
  OBVIOUS
<1> HIDE DEF t
<1>2. ToSet(t) = ToSet(s) \cup {x}
  <2>1. \A i \in DOMAIN t : t[i] \in ToSet(s) \cup {x}
    BY <1>1 DEF ToSet
  <2>2. \A i \in DOMAIN s : s[i] \in ToSet(t)
    BY <1>1 DEF ToSet
  <2>3. x \in ToSet(t)
    BY <1>1 DEF ToSet
  <2>4. QED
    BY <2>1, <2>2, <2>3 DEF ToSet
<1>3. ASSUME IsInjective(s), x \notin ToSet(s) PROVE IsInjective(t)
  BY <1>1, <1>3 DEF IsInjective, ToSet
<1>4. QED
  BY <1>1, <1>2, <1>3 DEF t

LEMMA SetOfTail ==
    ASSUME NEW S, NEW s \in Seq(S), s # <<>>
    PROVE  /\ Head(s) \in S /\ Tail(s) \in Seq(S)
           /\ ToSet(s) = {Head(s)} \cup ToSet(Tail(s))
<1> DEFINE t == Tail(s)
<1>1. /\ t \in Seq(S) /\ Len(s) \in Nat \ {0} /\ DOMAIN s = 1..Len(s) /\ DOMAIN t = 1..Len(s) - 1
      /\ \A i \in 1..Len(s) - 1 : t[i] = s[i + 1]
      /\ Head(s) = s[1] /\ Head(s) \in S
  OBVIOUS
<1> HIDE DEF t
<1>2. \A i \in DOMAIN s : s[i] \in {Head(s)} \cup ToSet(t)
  <2>1. ASSUME NEW i \in DOMAIN s, i # 1 PROVE s[i] = t[i - 1] /\ i - 1 \in DOMAIN t
    BY <1>1, <2>1
  <2>2. QED
    BY <1>1, <2>1 DEF ToSet
<1>3. ASSUME NEW i \in DOMAIN t PROVE t[i] \in ToSet(s)
  <2>1. i + 1 \in DOMAIN s /\ t[i] = s[i + 1]
    BY <1>1
  <2>2. QED
    BY <2>1 DEF ToSet
<1>4. Head(s) \in ToSet(s)
  <2>1. 1 \in DOMAIN s
    BY <1>1
  <2>2. QED
    BY <1>1, <2>1 DEF ToSet
<1>5. ToSet(s) = {Head(s)} \cup ToSet(t)
  <2>1. ToSet(s) \subseteq {Head(s)} \cup ToSet(t)
    BY <1>2 DEF ToSet
  <2>2. ToSet(t) \subseteq ToSet(s)
    BY <1>3 DEF ToSet
  <2>3. QED
    BY <1>4, <2>1, <2>2
<1>6. QED
  BY <1>1, <1>5 DEF t

(* A sequence cut in two                                                   *)
LEMMA SetOfCut ==
    ASSUME NEW S, NEW s \in Seq(S), NEW m \in 0..Len(s)
    PROVE  LET a == SubSeq(s, 1, m)
               b == SubSeq(s, m + 1, Len(s))
           IN  /\ a \in Seq(S) /\ Len(a) = m /\ \A i \in 1..m : a[i] = s[i]
               /\ b \in Seq(S) /\ Len(b) = Len(s) - m /\ \A i \in 1..Len(s) - m : b[i] = s[m + i]
               /\ ToSet(s) = ToSet(a) \cup ToSet(b)
               /\ IsInjective(s) => /\ IsInjective(a) /\ IsInjective(b)
                                    /\ ToSet(a) \cap ToSet(b) = {}
<1> DEFINE a == SubSeq(s, 1, m)
           b == SubSeq(s, m + 1, Len(s))
<1>1. Len(s) \in Nat /\ DOMAIN s = 1..Len(s) /\ m \in 0..Len(s)
  OBVIOUS
<1>2. a \in Seq(S) /\ Len(a) = m /\ DOMAIN a = 1..m /\ \A i \in 1..m : a[i] = s[i]
  BY <1>1, SubSeqProperties
<1>3. /\ b \in Seq(S) /\ Len(b) = Len(s) - m /\ DOMAIN b = 1..Len(s) - m
      /\ \A i \in 1..Len(s) - m : b[i] = s[m + i]
  <2>1. m + 1 \in Int /\ Len(s) \in Int /\ \A i \in (m + 1)..Len(s) : s[i] \in S
    BY <1>1
  <2>2. /\ SubSeq(s, m + 1, Len(s)) \in Seq(S)
        /\ Len(SubSeq(s, m + 1, Len(s))) = IF m + 1 <= Len(s) THEN Len(s) - (m + 1) + 1 ELSE 0
        /\ \A i \in 1..Len(s) - (m + 1) + 1 : SubSeq(s, m + 1, Len(s))[i] = s[(m + 1) + i - 1]
    BY <2>1, SubSeqProperties
  <2>3. ASSUME NEW l \in Nat, m \in 0..l
        PROVE  /\ (IF m + 1 <= l THEN l - (m + 1) + 1 ELSE 0) = l - m /\ l - (m + 1) + 1 = l - m
               /\ \A i \in 1..l - m : (m + 1) + i - 1 = m + i
    BY <2>3
  <2>4. /\ (IF m + 1 <= Len(s) THEN Len(s) - (m + 1) + 1 ELSE 0) = Len(s) - m
        /\ Len(s) - (m + 1) + 1 = Len(s) - m
        /\ \A i \in 1..Len(s) - m : (m + 1) + i - 1 = m + i
    BY <1>1, <2>3, Zenon
  <2>5. ASSUME NEW i \in 1..Len(s) - m PROVE SubSeq(s, m + 1, Len(s))[i] = s[m + i]
    BY <2>2, <2>4, Zenon
  <2>6. /\ b \in Seq(S) /\ Len(b) = Len(s) - m
        /\ \A i \in 1..Len(s) - m : b[i] = s[m + i]
    BY <1>2, <2>2, <2>4, <2>5, Zenon
  <2>7. QED
    BY <2>6
<1> HIDE DEF a, b
<1>4. ASSUME NEW i \in DOMAIN s PROVE s[i] \in ToSet(a) \cup ToSet(b)
  <2>1. CASE i <= m
    BY <1>1, <1>2, <2>1 DEF ToSet
  <2>2. CASE i > m
    <3>1. i - m \in DOMAIN b /\ b[i - m] = s[i]
      BY <1>1, <1>3, <2>2
    <3>2. QED
      BY <3>1 DEF ToSet
  <2>3. QED
    BY <1>1, <2>1, <2>2
<1>5. \A i \in DOMAIN a : i \in DOMAIN s /\ i <= m /\ a[i] = s[i]
  BY <1>1, <1>2
<1>6. \A i \in DOMAIN b : m + i \in DOMAIN s /\ m + i > m /\ b[i] = s[m + i]
  BY <1>1, <1>3
<1>7. ToSet(s) = ToSet(a) \cup ToSet(b)
  <2>1. ToSet(a) \subseteq ToSet(s) /\ ToSet(b) \subseteq ToSet(s)
    BY <1>5, <1>6 DEF ToSet
  <2>2. ToSet(s) \subseteq ToSet(a) \cup ToSet(b)
    BY <1>4 DEF ToSet
  <2>3. QED
    BY <2>1, <2>2
<1>8. ASSUME IsInjective(s)
      PROVE  IsInjective(a) /\ IsInjective(b) /\ ToSet(a) \cap ToSet(b) = {}
  <2>1. IsInjective(a)
    BY <1>5, <1>8 DEF IsInjective
  <2>2. IsInjective(b)
    <3>1. ASSUME NEW i \in DOMAIN b, NEW j \in DOMAIN b, b[i] = b[j] PROVE i = j
      <4>1. m + i = m + j
        BY <1>6, <1>8, <3>1 DEF IsInjective
      <4>2. QED
        BY <1>1, <1>3, <4>1
    <3>2. QED
      BY <3>1 DEF IsInjective
  <2>3. ASSUME NEW i \in DOMAIN a, NEW j \in DOMAIN b, a[i] = b[j] PROVE FALSE
    <3>1. i = m + j
      BY <1>5, <1>6, <1>8, <2>3 DEF IsInjective
    <3>2. QED
      BY <1>1, <1>2, <1>5, <1>6, <3>1
  <2>4. QED
    BY <2>1, <2>2, <2>3 DEF ToSet
<1>9. QED
  BY <1>2, <1>3, <1>7, <1>8 DEF a, b

(* Removing the only occurrence of an element removes the element.         *)
LEMMA SetOfRemoveAt ==
    ASSUME NEW S, NEW s \in Seq(S), IsInjective(s), NEW k \in DOMAIN s
    PROVE  /\ RemoveAt(s, k) \in Seq(S)
           /\ ToSet(RemoveAt(s, k)) = ToSet(s) \ {s[k]}
           /\ IsInjective(RemoveAt(s, k))
<1> DEFINE t == RemoveAt(s, k)
           n == Len(s)
           a == SubSeq(s, 1, k - 1)
           b == SubSeq(s, k + 1, n)
<1>1. n \in Nat /\ DOMAIN s = 1..n /\ k \in 1..n
  OBVIOUS
<1>2. /\ a \in Seq(S) /\ Len(a) = k - 1 /\ \A i \in 1..k - 1 : a[i] = s[i]
      /\ b \in Seq(S) /\ Len(b) = n - k /\ \A i \in 1..n - k : b[i] = s[k + i]
  <2>1. k - 1 \in 0..n /\ k \in 0..n
    BY <1>1
  <2>2. QED
    BY <2>1, SetOfCut
<1>3. t = a \o b
  BY DEF RemoveAt
<1> HIDE DEF t, a, b, n
<1>4. /\ t \in Seq(S) /\ Len(t) = n - 1
      /\ \A i \in 1..n - 1 : t[i] = IF i <= k - 1 THEN a[i] ELSE b[i - (k - 1)]
  <2>1. Len(a) + Len(b) = n - 1
    BY <1>1, <1>2
  <2>2. /\ a \o b \in Seq(S) /\ Len(a \o b) = Len(a) + Len(b)
        /\ \A i \in 1..Len(a) + Len(b) : (a \o b)[i] = IF i <= Len(a) THEN a[i] ELSE b[i - Len(a)]
    BY <1>2, ConcatProperties
  <2>3. QED
    BY <1>2, <1>3, <2>1, <2>2
<1>5. DOMAIN t = 1..n - 1
  BY <1>4
<1>6. ASSUME NEW i \in 1..n - 1 PROVE t[i] = IF i < k THEN s[i] ELSE s[i + 1]
  <2>1. CASE i < k
    <3>1. i \in 1..k - 1 /\ i <= k - 1
      BY <1>1, <2>1
    <3>2. QED
      BY <1>2, <1>4, <2>1, <3>1
  <2>2. CASE ~(i < k)
    <3>1. i - (k - 1) \in 1..n - k /\ k + (i - (k - 1)) = i + 1 /\ ~(i <= k - 1)
      BY <1>1, <2>2
    <3>2. t[i] = b[i - (k - 1)] /\ b[i - (k - 1)] = s[k + (i - (k - 1))]
      BY <1>2, <1>4, <3>1
    <3>3. QED
      BY <2>2, <3>1, <3>2
  <2>3. QED
    BY <2>1, <2>2
<1> DEFINE from(i) == IF i < k THEN i ELSE i + 1
<1>7. \A i \in 1..n - 1 : from(i) \in 1..n /\ from(i) # k /\ t[i] = s[from(i)]
  BY <1>1, <1>6
<1>8. \A i, j \in 1..n - 1 : from(i) = from(j) => i = j
  BY <1>1
<1>9. ASSUME NEW i \in 1..n, i # k PROVE \E j \in 1..n - 1 : from(j) = i
  <2>1. CASE i < k
    BY <1>1, <2>1
  <2>2. CASE i > k
    <3>1. i - 1 \in 1..n - 1 /\ from(i - 1) = i
      BY <1>1, <2>2
    <3>2. QED
      BY <3>1
  <2>3. QED
    BY <1>1, <1>9, <2>1, <2>2
<1> HIDE DEF from
<1>10. \A i \in DOMAIN t : t[i] \in ToSet(s) \ {s[k]}
  BY <1>1, <1>5, <1>7 DEF ToSet, IsInjective
<1>11. \A i \in DOMAIN s : i # k => s[i] \in ToSet(t)
  BY <1>1, <1>5, <1>7, <1>9 DEF ToSet
<1>12. IsInjective(t)
  BY <1>1, <1>5, <1>7, <1>8 DEF IsInjective
<1>13. ToSet(t) = ToSet(s) \ {s[k]}
  BY <1>10, <1>11 DEF ToSet
<1>14. QED
  BY <1>4, <1>12, <1>13 DEF t

LEMMA SetOfFirstOnes ==
    ASSUME NEW S, NEW s \in Seq(S), NEW n \in Nat
    PROVE  /\ FirstOnes(s, n) \in Seq(S) /\ AfterFirst(s, n) \in Seq(S)
           /\ Len(FirstOnes(s, n)) = (IF n <= Len(s) THEN n ELSE Len(s))
           /\ Len(FirstOnes(s, n)) + Len(AfterFirst(s, n)) = Len(s)
           /\ \A i \in DOMAIN FirstOnes(s, n) : FirstOnes(s, n)[i] = s[i]
           /\ ToSet(s) = ToSet(FirstOnes(s, n)) \cup ToSet(AfterFirst(s, n))
           /\ IsInjective(s) => /\ IsInjective(FirstOnes(s, n)) /\ IsInjective(AfterFirst(s, n))
                                /\ ToSet(FirstOnes(s, n)) \cap ToSet(AfterFirst(s, n)) = {}
<1> DEFINE m == IF n <= Len(s) THEN n ELSE Len(s)
<1>1. Len(s) \in Nat /\ m \in 0..Len(s) /\ Min({n, Len(s)}) = m
  BY MinOfTwo
<1> HIDE DEF m
<1>2. FirstOnes(s, n) = SubSeq(s, 1, m) /\ AfterFirst(s, n) = SubSeq(s, m + 1, Len(s))
  BY <1>1 DEF FirstOnes, AfterFirst
<1> DEFINE a == SubSeq(s, 1, m)
           b == SubSeq(s, m + 1, Len(s))
<1>3. /\ a \in Seq(S) /\ Len(a) = m /\ \A i \in 1..m : a[i] = s[i]
      /\ b \in Seq(S) /\ Len(b) = Len(s) - m
      /\ ToSet(s) = ToSet(a) \cup ToSet(b)
      /\ IsInjective(s) => /\ IsInjective(a) /\ IsInjective(b)
                           /\ ToSet(a) \cap ToSet(b) = {}
  BY <1>1, SetOfCut
<1> HIDE DEF a, b
<1>4. DOMAIN a = 1..m /\ Len(a) + Len(b) = Len(s)
  BY <1>1, <1>3
<1>5. FirstOnes(s, n) = a /\ AfterFirst(s, n) = b
  BY <1>2 DEF a, b
<1>6. QED
  BY <1>3, <1>4, <1>5 DEF m

LEMMA SetOfConcat ==
    ASSUME NEW S, NEW s \in Seq(S), NEW t \in Seq(S)
    PROVE  /\ s \o t \in Seq(S)
           /\ ToSet(s \o t) = ToSet(s) \cup ToSet(t)
           /\ IsInjective(s) /\ IsInjective(t) /\ ToSet(s) \cap ToSet(t) = {} => IsInjective(s \o t)
<1> DEFINE u == s \o t
<1>1. /\ Len(s) \in Nat /\ Len(t) \in Nat /\ DOMAIN s = 1..Len(s) /\ DOMAIN t = 1..Len(t)
      /\ u \in Seq(S) /\ Len(u) = Len(s) + Len(t)
      /\ \A i \in 1..Len(s) + Len(t) : u[i] = IF i <= Len(s) THEN s[i] ELSE t[i - Len(s)]
  BY ConcatProperties
<1> HIDE DEF u
<1>2. DOMAIN u = 1..Len(s) + Len(t)
  BY <1>1
<1>3. \A i \in DOMAIN s : i \in DOMAIN u /\ u[i] = s[i]
  BY <1>1, <1>2
<1>4. \A i \in DOMAIN t : Len(s) + i \in DOMAIN u /\ u[Len(s) + i] = t[i]
  <2>1. ASSUME NEW i \in DOMAIN t PROVE Len(s) + i \in DOMAIN u /\ u[Len(s) + i] = t[i]
    <3>1. Len(s) + i \in 1..Len(s) + Len(t) /\ ~(Len(s) + i <= Len(s)) /\ (Len(s) + i) - Len(s) = i
      BY <1>1
    <3>2. QED
      BY <1>1, <1>2, <3>1
  <2>2. QED
    BY <2>1
<1>5. \A i \in DOMAIN u :
         \/ i \in DOMAIN s /\ u[i] = s[i]
         \/ i - Len(s) \in DOMAIN t /\ u[i] = t[i - Len(s)]
  <2>1. ASSUME NEW i \in DOMAIN u, ~(i <= Len(s)) PROVE i - Len(s) \in DOMAIN t /\ u[i] = t[i - Len(s)]
    BY <1>1, <1>2, <2>1
  <2>2. ASSUME NEW i \in DOMAIN u, i <= Len(s) PROVE i \in DOMAIN s /\ u[i] = s[i]
    BY <1>1, <1>2, <2>2
  <2>3. QED
    BY <2>1, <2>2
<1>6. ToSet(u) = ToSet(s) \cup ToSet(t)
  <2>1. ToSet(u) \subseteq ToSet(s) \cup ToSet(t)
    BY <1>5 DEF ToSet
  <2>2. ToSet(s) \subseteq ToSet(u) /\ ToSet(t) \subseteq ToSet(u)
    BY <1>3, <1>4 DEF ToSet
  <2>3. QED
    BY <2>1, <2>2
<1>7. ASSUME IsInjective(s), IsInjective(t), ToSet(s) \cap ToSet(t) = {} PROVE IsInjective(u)
  <2>1. \A i \in DOMAIN s, j \in DOMAIN t : s[i] # t[j]
    BY <1>7 DEF ToSet
  <2>2. ASSUME NEW i \in DOMAIN u, NEW j \in DOMAIN u, u[i] = u[j] PROVE i = j
    <3>1. CASE i \in DOMAIN s /\ u[i] = s[i] /\ j \in DOMAIN s /\ u[j] = s[j]
      BY <1>7, <2>2, <3>1 DEF IsInjective
    <3>2. CASE /\ i - Len(s) \in DOMAIN t /\ u[i] = t[i - Len(s)]
               /\ j - Len(s) \in DOMAIN t /\ u[j] = t[j - Len(s)]
      <4>1. i - Len(s) = j - Len(s)
        BY <1>7, <2>2, <3>2 DEF IsInjective
      <4>2. QED
        BY <1>1, <1>2, <4>1
    <3>3. QED
      BY <1>5, <2>1, <2>2, <3>1, <3>2
  <2>3. QED
    BY <2>2 DEF IsInjective
<1>8. QED
  BY <1>1, <1>6, <1>7 DEF u

LEMMA SetOfWithout ==
    ASSUME NEW S, NEW s \in Seq(S), IsInjective(s), NEW e
    PROVE  /\ Without(s, e) \in Seq(S) /\ IsInjective(Without(s, e))
           /\ ToSet(Without(s, e)) = ToSet(s) \ {e}
<1>1. CASE e \in ToSet(s)
  <2> DEFINE k == CHOOSE i \in DOMAIN s : s[i] = e
  <2>1. k \in DOMAIN s /\ s[k] = e
    BY <1>1 DEF ToSet
  <2>2. Without(s, e) = RemoveAt(s, k)
    BY <1>1 DEF Without
  <2> HIDE DEF k
  <2>3. QED
    BY <2>1, <2>2, SetOfRemoveAt
<1>2. CASE e \notin ToSet(s)
  BY <1>2 DEF Without
<1>3. QED
  BY <1>1, <1>2

LEMMA InjectiveTail ==
    ASSUME NEW S, NEW s \in Seq(S), IsInjective(s), s # <<>>
    PROVE  /\ Head(s) \in ToSet(s) /\ Head(s) \notin ToSet(Tail(s))
           /\ Tail(s) \in Seq(S) /\ IsInjective(Tail(s))
           /\ ToSet(s) = {Head(s)} \cup ToSet(Tail(s))
<1>1. Tail(s) \in Seq(S) /\ ToSet(s) = {Head(s)} \cup ToSet(Tail(s))
  BY SetOfTail
<1>2. /\ Len(s) \in Nat \ {0} /\ DOMAIN s = 1..Len(s) /\ DOMAIN Tail(s) = 1..Len(s) - 1
      /\ \A i \in 1..Len(s) - 1 : Tail(s)[i] = s[i + 1]
      /\ Head(s) = s[1]
  OBVIOUS
<1>3. \A i \in DOMAIN Tail(s) : i + 1 \in DOMAIN s /\ i + 1 # 1 /\ Tail(s)[i] = s[i + 1]
  BY <1>2
<1>4. Head(s) \notin ToSet(Tail(s))
  BY <1>2, <1>3 DEF ToSet, IsInjective
<1>5. ASSUME NEW i \in DOMAIN Tail(s), NEW j \in DOMAIN Tail(s), Tail(s)[i] = Tail(s)[j] PROVE i = j
  <2>1. i + 1 = j + 1
    BY <1>3, <1>5 DEF IsInjective
  <2>2. QED
    BY <1>2, <2>1
<1>6. QED
  BY <1>1, <1>4, <1>5 DEF IsInjective

(* The batch a drain of the agent takes, and what it leaves in the queue   *)
LEMMA SetOfFirstItems ==
    ASSUME NEW S, NEW s \in Seq(S), NEW n \in Nat
    PROVE  LET got  == FirstItems(s, n)
               rest == SubSeq(s, Len(got) + 1, Len(s))
           IN  /\ got \in Seq(S) /\ rest \in Seq(S)
               /\ ToSet(s) = ToSet(got) \cup ToSet(rest)
<1> DEFINE m == IF Len(s) < n THEN Len(s) ELSE n
<1>1. m \in 0..Len(s) /\ FirstItems(s, n) = SubSeq(s, 1, m)
  BY DEF FirstItems
<1> HIDE DEF m
<1>2. QED
  BY <1>1, SetOfCut
-----------------------------------------------------------------------------
(* The agent.  Its invariant, sequences and tasks first:                   *)
AgentTypes ==
    /\ accepted \subseteq RequestIds
    /\ fresh \in Seq(RequestIds) /\ inMemory \in Seq(RequestIds)
    /\ rows \in Seq(RequestIds) /\ IsInjective(rows)
    /\ batch \in Seq(Item) /\ current \in Seq(Item) /\ phase \in {"memory", "due"}
    /\ orphans \subseteq [op : {"save", "mark", "remove"}, id : RequestIds]

Attempting == {"posting", "removing", "saving", "marking"}

TasksInOrder ==
    /\ collector = "storing" => fresh # <<>>
    /\ sender \in {"idle", "fetching"} => batch = <<>>
    /\ IF sender \in Attempting THEN \E x \in Item : current = <<x>> ELSE current = <<>>
    /\ post # "none" => sender = "posting"

(* Where the copies of an event are: it was accepted; an item got out of *)
(* SQLite is still there unless it is settled, and an item of memory is a  *)
(* first attempt, which is stored before it is marked as failed.           *)
SettledIds == delivered \cup refusedByApi

CopiesAreKept ==
    /\ AgentVolatile \cup ToSet(rows) \subseteq accepted
    /\ phase = "memory" => \A x \in ToSet(batch) \cup ToSet(current) : x.first
    /\ phase = "due" => Ids(batch) \cup Ids(current) \subseteq accepted \cap (ToSet(rows) \cup SettledIds)
    /\ sender = "marking" => Ids(current) \subseteq ToSet(rows) \cup SettledIds

(* A row is only deleted, also by a call left running, for an answer.      *)
DeletionsAreAnswers ==
    /\ post = "taken" => Ids(current) \subseteq delivered
    /\ sender = "removing" => Ids(current) \subseteq SettledIds
    /\ \A o \in orphans : o.op = "remove" => o.id \in SettledIds

AgentInv == AgentTypes /\ TasksInOrder /\ CopiesAreKept /\ DeletionsAreAnswers

(* AgentVolatile by holder                                                 *)
InHand == IF phase = "memory" THEN Ids(batch) \cup Ids(current) ELSE {}
InThread == IF collector = "storing" THEN {Head(fresh)} ELSE {}
Orphaned == {o.id : o \in {p \in orphans : p.op = "save"}}

LEMMA VolatileIs == AgentVolatile = ToSet(inMemory) \cup InHand \cup InThread \cup Orphaned
BY DEF AgentVolatile, InHand, InThread, Orphaned

LEMMA IdsOfItems ==
    /\ ToSet(<<>>) = {} /\ Ids(<<>>) = {}
    /\ \A x : ToSet(<<x>>) = {x} /\ Ids(<<x>>) = {x.id} /\ <<x>>[1] = x
    /\ \A items \in Seq(Item) :
          /\ Ids(items) = {x.id : x \in ToSet(items)} /\ Ids(items) \subseteq RequestIds
          /\ items # <<>> => Ids(items) = {Head(items).id} \cup Ids(Tail(items))
<1>1. ToSet(<<>>) = {} /\ Ids(<<>>) = {}
  BY DEF ToSet, Ids
<1>2. ASSUME NEW x PROVE ToSet(<<x>>) = {x} /\ Ids(<<x>>) = {x.id} /\ <<x>>[1] = x
  BY DEF ToSet, Ids
<1>3. ASSUME NEW items \in Seq(Item)
      PROVE  /\ Ids(items) = {x.id : x \in ToSet(items)} /\ Ids(items) \subseteq RequestIds
             /\ items # <<>> => Ids(items) = {Head(items).id} \cup Ids(Tail(items))
  <2>1. \A seq \in Seq(Item) : Ids(seq) = {x.id : x \in ToSet(seq)}
    BY DEF Ids, ToSet
  <2>2. \A i \in DOMAIN items : items[i] \in Item
    OBVIOUS
  <2>3. Ids(items) \subseteq RequestIds
    BY <2>2 DEF Ids, Item
  <2>4. ASSUME items # <<>> PROVE Ids(items) = {Head(items).id} \cup Ids(Tail(items))
    <3>1. Tail(items) \in Seq(Item) /\ ToSet(items) = {Head(items)} \cup ToSet(Tail(items))
      BY <2>4, SetOfTail
    <3>2. QED
      BY <2>1, <3>1
  <2>5. QED
    BY <2>1, <2>3, <2>4
<1>4. QED
  BY <1>1, <1>2, <1>3

LEMMA InsertedRow ==
    ASSUME AgentTypes, NEW e \in RequestIds, Insert(e)
    PROVE  rows' \in Seq(RequestIds) /\ IsInjective(rows') /\ ToSet(rows') = ToSet(rows) \cup {e}
<1>1. CASE e \in ToSet(rows)
  BY <1>1 DEF Insert, agentStoreVars, AgentTypes
<1>2. CASE e \notin ToSet(rows)
  <2>1. rows' = Append(rows, e) /\ rows \in Seq(RequestIds) /\ IsInjective(rows)
    BY <1>2 DEF Insert, AgentTypes
  <2>2. QED
    BY <1>2, <2>1, SetOfAppend
<1>3. QED
  BY <1>1, <1>2

LEMMA DeletedRow ==
    ASSUME AgentTypes, NEW e, Delete(e)
    PROVE  rows' \in Seq(RequestIds) /\ IsInjective(rows') /\ ToSet(rows') = ToSet(rows) \ {e}
<1>1. CASE \E i \in DOMAIN rows : rows[i] = e /\ rows' = RemoveAt(rows, i)
  BY <1>1, SetOfRemoveAt DEF AgentTypes
<1>2. CASE e \notin ToSet(rows) /\ UNCHANGED rows
  BY <1>2 DEF AgentTypes
<1>3. QED
  BY <1>1, <1>2 DEF Delete

LEMMA InitAgentInv == PipelineInit => AgentInv
<1> SUFFICES ASSUME PipelineInit PROVE AgentInv
  OBVIOUS
<1>1. AgentTypes
  BY DEF PipelineInit, AgentTypes, IsInjective
<1>2. TasksInOrder /\ DeletionsAreAnswers
  BY DEF PipelineInit, TasksInOrder, Attempting, DeletionsAreAnswers
<1>3. AgentVolatile = {} /\ ToSet(rows) = {} /\ Ids(batch) = {} /\ Ids(current) = {}
      /\ ToSet(batch) = {} /\ ToSet(current) = {}
  BY IdsOfItems, VolatileIs DEF PipelineInit, InHand, InThread, Orphaned
<1>4. QED
  BY <1>1, <1>2, <1>3 DEF PipelineInit, AgentInv, CopiesAreKept
-----------------------------------------------------------------------------
(* The collection task                                                     *)
LEMMA CollectionKeepsAgentInv ==
    ASSUME AgentInv, Collection
    PROVE  AgentInv'
<1> USE DEF AgentInv
<1>1. /\ UNCHANGED <<rows, batch, current, phase, post, sender, orphans, delivered, refusedByApi>>
         \/ OverflowStored
      /\ UNCHANGED <<batch, current, phase, post, sender, orphans, delivered, refusedByApi>>
  BY DEF Collection, Collect, PutInMemory, PutOverflows, OverflowStored, OverflowRaises, NextFresh,
         agentStoreVars, sendVars, agentFateVars, inVars
<1>2. /\ fresh' \in Seq(RequestIds) /\ inMemory' \in Seq(RequestIds)
      /\ rows' \in Seq(RequestIds) /\ IsInjective(rows')
      /\ collector' = "storing" => fresh' # <<>>
      /\ accepted \subseteq accepted' /\ accepted' \subseteq RequestIds
      /\ ToSet(inMemory') \cup InThread' \cup ToSet(rows') \subseteq accepted'
      /\ ToSet(rows) \subseteq ToSet(rows')
  <2>1. ToSet(inMemory) \cup InThread \cup ToSet(rows) \subseteq accepted
    BY VolatileIs DEF CopiesAreKept
  <2>2. CASE Collect
    BY <2>1, <2>2 DEF Collect, AgentTypes, agentStoreVars, InThread
  <2>3. CASE PutInMemory
    <3>1. /\ fresh # <<>> /\ accepted' = accepted \cup {Head(fresh)} /\ UNCHANGED <<rows, collector>>
          /\ collector = "poll"
          /\ inMemory' = Append(inMemory, Head(fresh)) /\ fresh' = Tail(fresh)
      BY <2>3 DEF PutInMemory, NextFresh, agentStoreVars
    <3>2. Head(fresh) \in RequestIds /\ Tail(fresh) \in Seq(RequestIds)
      BY <3>1, SetOfTail DEF AgentTypes
    <3>3. inMemory' \in Seq(RequestIds) /\ ToSet(inMemory') = ToSet(inMemory) \cup {Head(fresh)}
      BY <3>1, <3>2, SetOfAppend DEF AgentTypes
    <3>4. QED
      BY <2>1, <3>1, <3>2, <3>3 DEF AgentTypes, InThread
  <2>4. CASE PutOverflows
    <3>1. /\ fresh # <<>> /\ accepted' = accepted \cup {Head(fresh)} /\ UNCHANGED <<rows, inMemory, fresh>>
          /\ collector' = "storing"
      BY <2>4 DEF PutOverflows, NextFresh, agentStoreVars
    <3>2. Head(fresh) \in RequestIds
      BY <3>1, SetOfTail DEF AgentTypes
    <3>3. QED
      BY <2>1, <3>1, <3>2 DEF AgentTypes, InThread
  <2>5. CASE OverflowStored
    <3>1. /\ collector = "storing" /\ Insert(Head(fresh)) /\ fresh' = Tail(fresh) /\ collector' = "poll"
          /\ UNCHANGED <<inMemory, accepted>>
      BY <2>5 DEF OverflowStored
    <3>2. Head(fresh) \in RequestIds /\ Tail(fresh) \in Seq(RequestIds)
      BY <3>1, SetOfTail DEF AgentTypes, TasksInOrder
    <3>3. rows' \in Seq(RequestIds) /\ IsInjective(rows') /\ ToSet(rows') = ToSet(rows) \cup {Head(fresh)}
      BY <3>1, <3>2, InsertedRow
    <3>4. QED
      BY <2>1, <3>1, <3>2, <3>3 DEF AgentTypes, InThread
  <2>6. CASE OverflowRaises
    BY <2>1, <2>6 DEF OverflowRaises, agentStoreVars, AgentTypes, InThread
  <2>7. QED
    BY <2>2, <2>3, <2>4, <2>5, <2>6 DEF Collection
<1>3. AgentTypes' /\ TasksInOrder' /\ DeletionsAreAnswers'
  BY <1>1, <1>2 DEF AgentTypes, TasksInOrder, DeletionsAreAnswers, SettledIds
<1>4. CopiesAreKept'
  <2>1. InHand \cup Orphaned \subseteq accepted
    BY VolatileIs DEF CopiesAreKept
  <2>2. InHand' = InHand /\ Orphaned' = Orphaned
    BY <1>1 DEF InHand, Orphaned
  <2>3. AgentVolatile' = ToSet(inMemory') \cup InHand' \cup InThread' \cup Orphaned'
    BY VolatileIs DEF AgentVolatile, InHand, InThread, Orphaned
  <2>4. (AgentVolatile \cup ToSet(rows))' \subseteq accepted'
    BY <1>2, <2>1, <2>2, <2>3
  <2>5. QED
    BY <1>1, <1>2, <2>4 DEF CopiesAreKept, SettledIds
<1>5. QED
  BY <1>3, <1>4
-----------------------------------------------------------------------------
(* The delivery task: taking items                                         *)
LEMMA TakingKeepsAgentInv ==
    ASSUME AgentInv, BeginRunOnce \/ Post \/ MemoryDrained \/ FetchDue \/ EndRunOnce
    PROVE  AgentInv' /\ AgentVolatile' = AgentVolatile
<1> USE DEF AgentInv
<1>1. /\ UNCHANGED <<fresh, collector, polled, accepted, rows, dueRows, tried, orphans>>
      /\ UNCHANGED <<delivered, refusedByApi, agentLost>>
      /\ InThread' = InThread /\ Orphaned' = Orphaned
      /\ sender \in {"idle", "next", "fetching"} /\ current = <<>> /\ post = "none"
  BY DEF BeginRunOnce, Post, MemoryDrained, FetchDue, EndRunOnce, inVars, agentStoreVars,
         agentFateVars, Sending, TasksInOrder, Attempting, InThread, Orphaned
<1>2. AgentVolatile = ToSet(inMemory) \cup InHand \cup InThread \cup Orphaned
  BY VolatileIs
<1>3. AgentVolatile' = ToSet(inMemory') \cup InHand' \cup InThread' \cup Orphaned'
  BY VolatileIs DEF AgentVolatile, InHand, InThread, Orphaned
<1>4. CASE BeginRunOnce
  <2> DEFINE got == FirstItems(inMemory, AgentBatchSize)
  <2>1. /\ batch' = [i \in DOMAIN got |-> [id |-> got[i], first |-> TRUE]]
        /\ inMemory' = SubSeq(inMemory, Len(got) + 1, Len(inMemory))
        /\ phase' = "memory" /\ sender' = "next" /\ current' = current /\ post' = post
        /\ batch = <<>>
    BY <1>4 DEF BeginRunOnce, TasksInOrder, Sending
  <2>2. /\ got \in Seq(RequestIds) /\ inMemory' \in Seq(RequestIds)
        /\ ToSet(inMemory) = ToSet(got) \cup ToSet(inMemory')
    BY <2>1, SetOfFirstItems, AgentSizesAssumption DEF AgentTypes
  <2> HIDE DEF got
  <2>3. DOMAIN got = 1..Len(got) /\ Len(got) \in Nat /\ \A i \in DOMAIN got : got[i] \in RequestIds
    BY <2>2
  <2>4. batch' \in Seq(Item) /\ DOMAIN batch' = DOMAIN got
        /\ \A i \in DOMAIN batch' : batch'[i] = [id |-> got[i], first |-> TRUE]
    BY <2>1, <2>3 DEF Item
  <2>5. Ids(batch') = ToSet(got) /\ \A x \in ToSet(batch') : x.first
    BY <2>4 DEF Ids, ToSet
  <2>6. Ids(batch) = {} /\ Ids(current) = {} /\ Ids(current') = {} /\ ToSet(current') = {}
    BY <1>1, <2>1, IdsOfItems
  <2>7. AgentVolatile' = AgentVolatile
    BY <1>1, <1>2, <1>3, <2>1, <2>2, <2>5, <2>6, SMTT(30) DEF InHand
  <2>8. AgentTypes' /\ TasksInOrder' /\ DeletionsAreAnswers'
    BY <1>1, <2>1, <2>2, <2>4 DEF AgentTypes, TasksInOrder, DeletionsAreAnswers, Attempting, SettledIds
  <2>9. CopiesAreKept'
    BY <1>1, <2>1, <2>5, <2>6, <2>7 DEF CopiesAreKept
  <2>10. QED
    BY <2>7, <2>8, <2>9
<1>5. CASE Post
  <2>1. /\ batch # <<>> /\ current' = <<Head(batch)>> /\ batch' = Tail(batch)
        /\ phase' = phase /\ sender' = "posting" /\ post' = "sent" /\ inMemory' = inMemory
    BY <1>5 DEF Post
  <2>2. /\ Head(batch) \in Item /\ batch' \in Seq(Item)
        /\ ToSet(batch) = {Head(batch)} \cup ToSet(batch')
    BY <2>1, SetOfTail DEF AgentTypes
  <2>3. /\ current' \in Seq(Item)
        /\ ToSet(current') = {Head(batch)} /\ Ids(current') = {Head(batch).id}
        /\ Ids(batch) = {Head(batch).id} \cup Ids(batch')
        /\ Ids(current) = {}
    BY <1>1, <2>1, <2>2, IdsOfItems DEF AgentTypes
  <2>4. AgentVolatile' = AgentVolatile
    BY <1>1, <1>2, <1>3, <2>1, <2>3 DEF InHand
  <2>5. AgentTypes' /\ TasksInOrder' /\ DeletionsAreAnswers'
    BY <1>1, <2>1, <2>2, <2>3 DEF AgentTypes, TasksInOrder, DeletionsAreAnswers, Attempting, SettledIds
  <2>6. CopiesAreKept'
    BY <1>1, <2>1, <2>2, <2>3, <2>4 DEF CopiesAreKept, SettledIds
  <2>7. QED
    BY <2>4, <2>5, <2>6
<1>6. CASE MemoryDrained \/ EndRunOnce
  <2>1. /\ UNCHANGED <<inMemory, batch, current, phase, post>>
        /\ batch = <<>> /\ sender' \in {"fetching", "idle"}
    BY <1>6 DEF MemoryDrained, EndRunOnce
  <2>2. AgentVolatile' = AgentVolatile
    BY <1>1, <1>2, <1>3, <2>1 DEF InHand
  <2>3. AgentTypes' /\ TasksInOrder' /\ DeletionsAreAnswers'
    BY <1>1, <2>1 DEF AgentTypes, TasksInOrder, DeletionsAreAnswers, Attempting, SettledIds
  <2>4. CopiesAreKept'
    BY <1>1, <2>1, <2>2 DEF CopiesAreKept, SettledIds
  <2>5. QED
    BY <2>2, <2>3, <2>4
<1>7. CASE FetchDue
  <2>1. PICK found \in EarliestDue :
            batch' = [i \in DOMAIN found |->
                         [id |-> rows[found[i]], first |-> rows[found[i]] \notin tried]]
    BY <1>7 DEF FetchDue
  <2>2. /\ phase' = "due" /\ sender' = "next" /\ UNCHANGED <<inMemory, current, post>>
        /\ sender = "fetching" /\ batch = <<>>
    BY <1>7 DEF FetchDue, Sending, TasksInOrder
  <2>3. PICK size \in Nat : found \in [1..size -> DueAt]
    <3>1. Cardinality(DueAt) \in Nat
      <4>1. IsFiniteSet(DueAt)
        BY FS_Interval, FS_Subset DEF DueAt, AgentTypes
      <4>2. QED
        BY <4>1, FS_CardinalityType
    <3>2. QED
      BY <3>1, AgentSizesAssumption DEF EarliestDue
  <2>4. \A i \in 1..size : rows[found[i]] \in ToSet(rows) /\ rows[found[i]] \in RequestIds
    <3>1. \A i \in 1..size : found[i] \in DOMAIN rows
      BY <2>3 DEF DueAt
    <3>2. rows \in Seq(RequestIds)
      BY DEF AgentTypes
    <3>3. QED
      BY <3>1, <3>2 DEF ToSet
  <2>5. /\ batch' \in Seq(Item) /\ DOMAIN batch' = 1..size
        /\ \A i \in 1..size : batch'[i].id = rows[found[i]]
    BY <2>1, <2>3, <2>4 DEF Item
  <2>6. Ids(batch') \subseteq ToSet(rows)
    BY <2>4, <2>5 DEF Ids
  <2>7. Ids(batch) = {} /\ Ids(current) = {} /\ Ids(current') = {}
    BY <1>1, <2>2, IdsOfItems
  <2>8. AgentVolatile' = AgentVolatile
    BY <1>1, <1>2, <1>3, <2>2, <2>7 DEF InHand
  <2>9. AgentTypes' /\ TasksInOrder' /\ DeletionsAreAnswers'
    BY <1>1, <2>2, <2>5 DEF AgentTypes, TasksInOrder, DeletionsAreAnswers, Attempting, SettledIds
  <2>10. CopiesAreKept'
    BY <1>1, <2>2, <2>6, <2>7, <2>8 DEF CopiesAreKept, SettledIds
  <2>11. QED
    BY <2>8, <2>9, <2>10
<1>8. QED
  BY <1>4, <1>5, <1>6, <1>7
-----------------------------------------------------------------------------
(* The item under way                                                      *)
LEMMA ItemUnderWay ==
    ASSUME AgentInv, sender \in Attempting
    PROVE  \E x \in Item :
              /\ current = <<x>> /\ current[1] = x /\ x.id \in accepted /\ x.id \in RequestIds
              /\ Ids(current) = {x.id} /\ ToSet(current) = {x}
              /\ phase = "memory" => x.first /\ x.id \in AgentVolatile
              /\ phase = "due" => x.id \in ToSet(rows) \cup SettledIds
<1>1. PICK x \in Item : current = <<x>>
  BY DEF AgentInv, TasksInOrder
<1>2. current[1] = x /\ Ids(current) = {x.id} /\ ToSet(current) = {x}
  BY <1>1, IdsOfItems
<1>3. phase = "memory" => x.id \in AgentVolatile
  BY <1>2, VolatileIs DEF InHand
<1>4. QED
  BY <1>1, <1>2, <1>3 DEF AgentInv, CopiesAreKept, AgentTypes, Item

(* The API and its answers                                                 *)
AnswerStep == ApiTakes \/ AnswerDelivered \/ AnswerInvalid \/ AnswerRetry

LEMMA AnswersKeepAgentInv ==
    ASSUME AgentInv, AnswerStep
    PROVE  AgentInv' /\ AgentVolatile' = AgentVolatile
<1> USE DEF AgentInv
<1>1. sender = "posting"
  BY DEF AnswerStep, ApiTakes, AnswerDelivered, AnswerInvalid, AnswerRetry, Answered, Sending,
         TasksInOrder
<1>2. PICK x \in Item :
         /\ current = <<x>> /\ current[1] = x /\ x.id \in accepted /\ x.id \in RequestIds
         /\ Ids(current) = {x.id} /\ ToSet(current) = {x}
         /\ phase = "memory" => x.first /\ x.id \in AgentVolatile
         /\ phase = "due" => x.id \in ToSet(rows) \cup SettledIds
  BY <1>1, ItemUnderWay DEF Attempting
<1>3. /\ UNCHANGED <<fresh, collector, polled, accepted, rows, dueRows, tried, orphans>>
      /\ UNCHANGED <<inMemory, batch, current, phase, agentLost, life>>
      /\ delivered \subseteq delivered' /\ refusedByApi \subseteq refusedByApi'
  BY DEF AnswerStep, ApiTakes, AnswerDelivered, AnswerInvalid, AnswerRetry, Answered, inVars,
         agentStoreVars
<1>4. AgentVolatile' = AgentVolatile
  BY <1>3 DEF AgentVolatile
<1>5. SettledIds \subseteq SettledIds'
  BY <1>3 DEF SettledIds
<1>6. AgentTypes' /\ Ids(current') = Ids(current) /\ Ids(batch') = Ids(batch)
  BY <1>3 DEF AgentTypes
<1>7. CASE ApiTakes
  <2>1. post' = "taken" /\ delivered' = delivered \cup {x.id} /\ sender' = sender
    BY <1>2, <1>7 DEF ApiTakes
  <2>2. QED
    BY <1>1, <1>2, <1>3, <1>4, <1>5, <1>6, <2>1
    DEF TasksInOrder, CopiesAreKept, DeletionsAreAnswers, Attempting
<1>8. CASE AnswerDelivered \/ AnswerInvalid
  <2>1. post' = "none" /\ sender' = "removing"
    BY <1>8 DEF AnswerDelivered, AnswerInvalid, Answered
  <2>2. x.id \in SettledIds'
    BY <1>2, <1>3, <1>8
    DEF AnswerDelivered, AnswerInvalid, Answered, DeletionsAreAnswers, SettledIds
  <2>3. QED
    BY <1>1, <1>2, <1>3, <1>4, <1>5, <1>6, <2>1, <2>2
    DEF TasksInOrder, CopiesAreKept, DeletionsAreAnswers, Attempting
<1>9. CASE AnswerRetry
  <2>1. post' = "none" /\ sender' = IF x.first THEN "saving" ELSE "marking"
    BY <1>2, <1>9 DEF AnswerRetry, Answered
  <2>2. ~x.first => x.id \in ToSet(rows) \cup SettledIds
    BY <1>2 DEF AgentTypes
  <2>3. QED
    BY <1>1, <1>2, <1>3, <1>4, <1>5, <1>6, <2>1, <2>2
    DEF TasksInOrder, CopiesAreKept, DeletionsAreAnswers, Attempting
<1>10. QED
  BY <1>4, <1>7, <1>8, <1>9 DEF AnswerStep

(* SQLite calls of the delivery task                                       *)
LEMMA StoreCallsKeepAgentInv ==
    ASSUME AgentInv, Removed \/ Saved \/ Marked
    PROVE  AgentInv'
<1> USE DEF AgentInv
<1>1. sender \in {"removing", "saving", "marking"}
  BY DEF Removed, Saved, Marked, StoreCall, Sending
<1>2. PICK x \in Item :
         /\ current = <<x>> /\ current[1] = x /\ x.id \in accepted /\ x.id \in RequestIds
         /\ Ids(current) = {x.id} /\ ToSet(current) = {x}
         /\ phase = "memory" => x.first /\ x.id \in AgentVolatile
         /\ phase = "due" => x.id \in ToSet(rows) \cup SettledIds
  BY <1>1, ItemUnderWay DEF Attempting
<1>3. /\ UNCHANGED <<fresh, collector, polled, inMemory, accepted, batch, phase, post, orphans>>
      /\ UNCHANGED <<delivered, refusedByApi>>
      /\ sender' \in {"next", "marking"}
      /\ current' = IF sender' = "next" THEN <<>> ELSE current
  BY DEF Removed, Saved, Marked, StoreCall, inVars, agentFateVars
<1>4. post = "none" /\ SettledIds' = SettledIds
  BY <1>1, <1>3 DEF TasksInOrder, SettledIds
<1>5. /\ rows' \in Seq(RequestIds) /\ IsInjective(rows') /\ ToSet(rows') \subseteq accepted
      /\ ToSet(rows) \subseteq ToSet(rows') \cup SettledIds
      /\ sender' = "marking" => x.id \in ToSet(rows')
  <2>1. CASE Removed
    <3>1. /\ Delete(x.id) /\ sender' = "next" /\ sender = "removing"
      BY <1>2, <2>1 DEF Removed, StoreCall, Sending
    <3>2. x.id \in SettledIds
      BY <1>2, <3>1 DEF DeletionsAreAnswers
    <3>3. QED
      BY <3>1, <3>2, DeletedRow DEF CopiesAreKept
  <2>2. CASE Saved
    <3>1. Insert(x.id)
      BY <1>2, <2>2 DEF Saved
    <3>2. QED
      BY <1>2, <3>1, InsertedRow DEF CopiesAreKept
  <2>3. CASE Marked
    BY <2>3 DEF Marked, BackOff, StoreCall, AgentTypes, CopiesAreKept
  <2>4. QED
    BY <2>1, <2>2, <2>3
<1>6. current' \in Seq(Item) /\ Ids(current') \subseteq Ids(current) /\ ToSet(current') \subseteq ToSet(current)
  BY <1>3, IdsOfItems DEF AgentTypes
<1>7. Ids(batch') = Ids(batch) /\ ToSet(batch') = ToSet(batch)
  BY <1>3
<1>8. AgentVolatile' \subseteq AgentVolatile
  BY <1>3, <1>6, <1>7 DEF AgentVolatile
<1>9. AgentTypes' /\ TasksInOrder' /\ DeletionsAreAnswers'
  BY <1>2, <1>3, <1>4, <1>5, <1>6 DEF AgentTypes, TasksInOrder, DeletionsAreAnswers, Attempting, SettledIds
<1>10. CopiesAreKept'
  BY <1>2, <1>3, <1>4, <1>5, <1>6, <1>7, <1>8 DEF CopiesAreKept
<1>11. QED
  BY <1>9, <1>10

(* A raised SQLite call drops the batch; the rest leaves the copies alone. *)
LEMMA StoreRaisesKeepsAgentInv ==
    ASSUME AgentInv, StoreRaises \/ (\E e \in RequestIds : DueAgain(e))
    PROVE  AgentInv' /\ AgentVolatile' \subseteq AgentVolatile
<1> USE DEF AgentInv
<1>1. /\ UNCHANGED <<fresh, collector, polled, inMemory, accepted, rows, phase, post, orphans>>
      /\ UNCHANGED <<delivered, refusedByApi>>
  BY DEF StoreRaises, DueAgain, inVars, agentStoreVars, sendVars, agentFateVars
<1>2. CASE StoreRaises
  <2>1. batch' = <<>> /\ current' = <<>> /\ sender' = "idle" /\ post = "none"
    BY <1>2 DEF StoreRaises, TasksInOrder
  <2>2. Ids(batch') = {} /\ Ids(current') = {} /\ ToSet(batch') = {} /\ ToSet(current') = {}
    BY <2>1, IdsOfItems
  <2>3. AgentVolatile' \subseteq AgentVolatile
    BY <1>1, <2>2 DEF AgentVolatile
  <2>4. AgentTypes' /\ TasksInOrder' /\ DeletionsAreAnswers'
    BY <1>1, <2>1 DEF AgentTypes, TasksInOrder, DeletionsAreAnswers, Attempting, SettledIds
  <2>5. CopiesAreKept'
    BY <1>1, <2>1, <2>2, <2>3 DEF CopiesAreKept, SettledIds
  <2>6. QED
    BY <2>3, <2>4, <2>5
<1>3. CASE \E e \in RequestIds : DueAgain(e)
  <2>1. UNCHANGED <<batch, current, sender>>
    BY <1>3 DEF DueAgain, sendVars
  <2>2. AgentVolatile' = AgentVolatile
    BY <1>1, <2>1 DEF AgentVolatile
  <2>3. QED
    BY <1>1, <2>1, <2>2
    DEF AgentTypes, TasksInOrder, DeletionsAreAnswers, CopiesAreKept, SettledIds
<1>4. QED
  BY <1>2, <1>3
-----------------------------------------------------------------------------
(* Cancelled tasks leave their SQLite call running, which holds the event  *)
(* and, when it deletes, deletes an answered one.                          *)
LEMMA CallsUnderWayAre ==
    ASSUME AgentInv
    PROVE  /\ CallsUnderWay \subseteq [op : {"save", "mark", "remove"}, id : RequestIds]
           /\ \A o \in CallsUnderWay : o.op = "remove" => o.id \in SettledIds
           /\ \A o \in CallsUnderWay : o.op = "save" =>
                 \/ o.id \in AgentVolatile
                 \/ sender = "saving" /\ phase = "due" /\ o.id = current[1].id /\ o.id \in accepted
<1> USE DEF AgentInv
<1>1. CASE sender \in Attempting
  <2>1. PICK x \in Item :
           /\ current = <<x>> /\ current[1] = x /\ x.id \in accepted /\ x.id \in RequestIds
           /\ Ids(current) = {x.id} /\ ToSet(current) = {x}
           /\ phase = "memory" => x.first /\ x.id \in AgentVolatile
           /\ phase = "due" => x.id \in ToSet(rows) \cup SettledIds
    BY <1>1, ItemUnderWay
  <2>2. collector = "storing" => Head(fresh) \in RequestIds /\ Head(fresh) \in AgentVolatile
    BY SetOfTail, VolatileIs DEF TasksInOrder, AgentTypes, InThread
  <2>3. \A o \in CallsUnderWay :
           \/ collector = "storing" /\ o = [op |-> "save", id |-> Head(fresh)]
           \/ sender = "removing" /\ o = [op |-> "remove", id |-> x.id]
           \/ sender = "saving" /\ o = [op |-> "save", id |-> x.id]
           \/ sender = "marking" /\ o = [op |-> "mark", id |-> x.id]
    BY <2>1 DEF CallsUnderWay
  <2>4. sender = "removing" => x.id \in SettledIds
    BY <2>1 DEF DeletionsAreAnswers
  <2>5. phase \in {"memory", "due"}
    BY DEF AgentTypes
  <2>6. QED
    BY <2>1, <2>2, <2>3, <2>4, <2>5
<1>2. CASE sender \notin Attempting
  <2>1. collector = "storing" => Head(fresh) \in RequestIds /\ Head(fresh) \in AgentVolatile
    BY SetOfTail, VolatileIs DEF TasksInOrder, AgentTypes, InThread
  <2>2. \A o \in CallsUnderWay : collector = "storing" /\ o = [op |-> "save", id |-> Head(fresh)]
    BY <1>2 DEF CallsUnderWay, Attempting
  <2>3. QED
    BY <2>1, <2>2
<1>3. QED
  BY <1>1, <1>2

(* What stays in memory when both tasks are cancelled                      *)
LEMMA ShutdownKeepsAgentInv ==
    ASSUME AgentInv, Shutdown
    PROVE  /\ AgentInv'
           /\ \/ AgentVolatile' \subseteq AgentVolatile
              \/ /\ sender = "saving" /\ current[1].id \in accepted /\ current[1].id \in RequestIds
                 /\ AgentVolatile' \subseteq AgentVolatile \cup {current[1].id}
                 /\ current[1].id \in AgentVolatile'
<1> USE DEF AgentInv
<1>1. /\ UNCHANGED <<polled, inMemory, accepted, rows, phase, delivered, refusedByApi>>
      /\ orphans' = orphans \cup CallsUnderWay
      /\ collector' = "stopped" /\ fresh' = <<>> /\ batch' = <<>> /\ current' = <<>>
      /\ post' = "none" /\ sender' = "idle"
  BY DEF Shutdown, agentStoreVars
<1>2. Ids(batch') = {} /\ Ids(current') = {} /\ ToSet(batch') = {} /\ ToSet(current') = {}
  BY <1>1, IdsOfItems
<1>3. AgentVolatile' = ToSet(inMemory) \cup {o.id : o \in {p \in orphans' : p.op = "save"}}
  BY <1>1, <1>2 DEF AgentVolatile
<1>4. ToSet(inMemory) \cup {o.id : o \in {p \in orphans : p.op = "save"}} \subseteq AgentVolatile
  BY VolatileIs DEF Orphaned
<1>5. \A e \in AgentVolatile' \ AgentVolatile :
         sender = "saving" /\ phase = "due" /\ e = current[1].id /\ e \in accepted
  BY <1>1, <1>3, <1>4, CallsUnderWayAre
<1>6. AgentVolatile' \subseteq accepted /\ ToSet(rows') \subseteq accepted'
  BY <1>1, <1>5 DEF CopiesAreKept
<1>7. AgentTypes' /\ TasksInOrder' /\ DeletionsAreAnswers'
  BY <1>1, CallsUnderWayAre
  DEF AgentTypes, TasksInOrder, DeletionsAreAnswers, Attempting, SettledIds
<1>8. CopiesAreKept'
  BY <1>1, <1>2, <1>6 DEF CopiesAreKept
<1>9. accepted \subseteq RequestIds
  BY DEF AgentTypes
<1>10. QED
  BY <1>5, <1>7, <1>8, <1>9

LEMMA OrphanKeepsAgentInv ==
    ASSUME AgentInv, NEW o \in orphans, orphans' = orphans \ {o},
           CASE o.op = "remove" -> Delete(o.id)
             [] o.op = "save"   -> Insert(o.id)
             [] o.op = "mark"   -> BackOff(o.id),
           UNCHANGED <<inVars, inMemory, accepted, sendVars, life, agentFateVars>>
    PROVE  /\ AgentInv'
           /\ AgentVolatile' \subseteq AgentVolatile /\ AgentVolatile \subseteq AgentVolatile' \cup {o.id}
           /\ o.op # "save" => AgentVolatile' = AgentVolatile
           /\ CASE o.op = "remove" -> ToSet(rows') = ToSet(rows) \ {o.id} /\ o.id \in SettledIds
                [] o.op = "save"   -> ToSet(rows') = ToSet(rows) \cup {o.id} /\ o.id \in AgentVolatile
                [] OTHER           -> rows' = rows
<1> USE DEF AgentInv
<1>1. /\ UNCHANGED <<polled, fresh, collector, inMemory, accepted, batch, current, phase, post, sender>>
      /\ UNCHANGED <<life, delivered, refusedByApi, agentLost>>
  BY DEF inVars, sendVars, agentFateVars
<1>2. o.op \in {"save", "mark", "remove"} /\ o.id \in RequestIds
  BY DEF AgentTypes
<1>3. /\ Orphaned' \subseteq Orphaned /\ Orphaned \subseteq Orphaned' \cup {o.id}
      /\ o.op # "save" => Orphaned' = Orphaned
      /\ o.op = "save" => o.id \in Orphaned
  BY DEF Orphaned
<1>4. InHand' = InHand /\ InThread' = InThread
  BY <1>1 DEF InHand, InThread
<1>5. /\ AgentVolatile = ToSet(inMemory) \cup InHand \cup InThread \cup Orphaned
      /\ AgentVolatile' = ToSet(inMemory) \cup InHand' \cup InThread' \cup Orphaned'
  BY <1>1, VolatileIs DEF AgentVolatile, InHand, InThread, Orphaned
<1>6. o.op = "save" => o.id \in AgentVolatile
  BY <1>3, <1>5
<1>7. /\ rows' \in Seq(RequestIds) /\ IsInjective(rows')
      /\ CASE o.op = "remove" -> ToSet(rows') = ToSet(rows) \ {o.id} /\ o.id \in SettledIds
           [] o.op = "save"   -> ToSet(rows') = ToSet(rows) \cup {o.id}
           [] OTHER           -> rows' = rows
  <2>1. CASE o.op = "remove"
    BY <1>2, <2>1, DeletedRow DEF DeletionsAreAnswers
  <2>2. CASE o.op = "save"
    BY <1>2, <2>2, InsertedRow
  <2>3. CASE o.op = "mark"
    BY <2>3 DEF BackOff, AgentTypes
  <2>4. QED
    BY <1>2, <2>1, <2>2, <2>3
<1>8. /\ ToSet(rows') \subseteq ToSet(rows) \cup AgentVolatile
      /\ ToSet(rows) \subseteq ToSet(rows') \cup SettledIds /\ SettledIds' = SettledIds
  BY <1>1, <1>2, <1>6, <1>7 DEF SettledIds
<1>9. AgentTypes' /\ TasksInOrder' /\ DeletionsAreAnswers'
  BY <1>1, <1>7, <1>8 DEF AgentTypes, TasksInOrder, DeletionsAreAnswers
<1>10. CopiesAreKept'
  BY <1>1, <1>3, <1>4, <1>5, <1>8 DEF CopiesAreKept
<1>11. QED
  BY <1>2, <1>3, <1>4, <1>5, <1>6, <1>7, <1>9, <1>10

LEMMA RestartKeepsAgentInv ==
    ASSUME AgentInv, AgentRestarts
    PROVE  AgentInv' /\ AgentVolatile' = {}
<1>1. /\ UNCHANGED <<polled, accepted, rows, delivered, refusedByApi>>
      /\ fresh' = <<>> /\ inMemory' = <<>> /\ orphans' = {} /\ batch' = <<>> /\ current' = <<>>
      /\ post' = "none" /\ collector' = "poll" /\ sender' = "idle" /\ phase' = "memory"
  BY DEF AgentRestarts, agentStoreVars
<1>2. Ids(batch') = {} /\ Ids(current') = {} /\ ToSet(batch') = {} /\ ToSet(current') = {}
      /\ ToSet(inMemory') = {}
  BY <1>1, IdsOfItems
<1>3. AgentVolatile' = {}
  BY <1>1, <1>2 DEF AgentVolatile
<1>4. AgentTypes' /\ TasksInOrder' /\ DeletionsAreAnswers'
  BY <1>1 DEF AgentInv, AgentTypes, TasksInOrder, DeletionsAreAnswers, Attempting
<1>5. CopiesAreKept'
  BY <1>1, <1>2, <1>3 DEF AgentInv, CopiesAreKept
<1>6. QED
  BY <1>3, <1>4, <1>5 DEF AgentInv
-----------------------------------------------------------------------------
LEMMA AgentInvStep == AgentInv /\ [PipelineNext]_pipelineVars => AgentInv'
<1> SUFFICES ASSUME AgentInv, [PipelineNext]_pipelineVars PROVE AgentInv'
  OBVIOUS
<1>1. CASE Collection
  BY <1>1, CollectionKeepsAgentInv
<1>2. CASE BeginRunOnce \/ Post \/ MemoryDrained \/ FetchDue \/ EndRunOnce
  BY <1>2, TakingKeepsAgentInv
<1>3. CASE AnswerStep
  BY <1>3, AnswersKeepAgentInv
<1>4. CASE Removed \/ Saved \/ Marked
  BY <1>4, StoreCallsKeepAgentInv
<1>5. CASE StoreRaises \/ (\E e \in RequestIds : DueAgain(e))
  BY <1>5, StoreRaisesKeepsAgentInv
<1>6. CASE Shutdown
  BY <1>6, ShutdownKeepsAgentInv
<1>7. CASE OrphanRuns
  BY <1>7, OrphanKeepsAgentInv DEF OrphanRuns
<1>8. CASE AgentRestarts
  BY <1>8, RestartKeepsAgentInv
<1>9. CASE UNCHANGED pipelineVars
  <2>1. /\ UNCHANGED <<polled, fresh, collector, inMemory, accepted, rows, batch, current, phase, post>>
        /\ UNCHANGED <<sender, orphans, delivered, refusedByApi>>
    BY <1>9 DEF pipelineVars, inVars, agentStoreVars, sendVars, agentFateVars
  <2>2. AgentVolatile' = AgentVolatile
    BY <2>1 DEF AgentVolatile
  <2>3. QED
    BY <2>1, <2>2
    DEF AgentInv, AgentTypes, TasksInOrder, CopiesAreKept, DeletionsAreAnswers, SettledIds
<1>10. QED
  BY <1>1, <1>2, <1>3, <1>4, <1>5, <1>6, <1>7, <1>8, <1>9 DEF PipelineNext, Sender, AnswerStep

LEMMA AgentInvAlways == PipelineSpec => []AgentInv
<1>1. QED
  BY InitAgentInv, AgentInvStep, PTL DEF PipelineSpec

(* SQLite holds one row per event, through overflow, first failures, calls *)
(* that outlive their task and re-polled copies (sqlite_store.py).         *)
THEOREM AgentKeepsOneRow == PipelineSpec => []OneRowPerEvent
<1>1. AgentInv => OneRowPerEvent
  BY DEF AgentInv, AgentTypes, OneRowPerEvent
<1>2. QED
  BY <1>1, AgentInvAlways, PTL
-----------------------------------------------------------------------------
(* Every step of the agent is a step of AtLeastOnceDelivery or a stutter.  *)
LEMMA CollectionIsAccept ==
    ASSUME AgentInv, Collection
    PROVE  [AgentDelivery!Next]_AgentDelivery!vars
<1> USE DEF AgentInv
<1>1. /\ UNCHANGED <<batch, current, phase, post, sender, orphans, delivered, refusedByApi>>
      /\ InHand' = InHand /\ Orphaned' = Orphaned
  BY DEF Collection, Collect, PutInMemory, PutOverflows, OverflowStored, OverflowRaises, NextFresh,
         agentStoreVars, sendVars, agentFateVars, inVars, InHand, Orphaned
<1>2. /\ AgentVolatile = ToSet(inMemory) \cup InHand \cup InThread \cup Orphaned
      /\ AgentVolatile' = ToSet(inMemory') \cup InHand' \cup InThread' \cup Orphaned'
  BY VolatileIs DEF AgentVolatile, InHand, InThread, Orphaned
<1>3. CASE Collect
  <2>1. UNCHANGED <<accepted, inMemory, rows, agentLost>> /\ InThread' = InThread
    BY <1>3 DEF Collect, agentStoreVars, agentFateVars, InThread
  <2>2. QED
    BY <1>1, <1>2, <2>1 DEF AgentDelivery!vars
<1>4. CASE PutInMemory \/ PutOverflows
  <2>1. /\ fresh # <<>> /\ accepted' = accepted \cup {Head(fresh)} /\ UNCHANGED <<rows, agentLost>>
        /\ collector = "poll"
    BY <1>4 DEF PutInMemory, PutOverflows, NextFresh, agentStoreVars, agentFateVars
  <2>2. Head(fresh) \in RequestIds /\ InThread = {}
    BY <2>1, SetOfTail DEF AgentTypes, InThread
  <2>3. ToSet(inMemory') \cup InThread' = ToSet(inMemory) \cup {Head(fresh)}
    <3>1. CASE PutInMemory
      BY <2>1, <2>2, <3>1, SetOfAppend DEF PutInMemory, AgentTypes, InThread
    <3>2. CASE PutOverflows
      BY <3>2 DEF PutOverflows, InThread
    <3>3. QED
      BY <1>4, <3>1, <3>2
  <2>4. AgentVolatile' = AgentVolatile \cup {Head(fresh)}
    BY <1>1, <1>2, <2>2, <2>3
  <2>5. AgentDelivery!Accept(Head(fresh), {})
    BY <1>1, <2>1, <2>4 DEF AgentDelivery!Accept
  <2>6. QED
    BY <2>2, <2>5 DEF AgentDelivery!Next
<1>5. CASE OverflowStored
  <2>1. /\ collector = "storing" /\ Insert(Head(fresh)) /\ fresh # <<>> /\ collector' = "poll"
        /\ UNCHANGED <<inMemory, accepted, agentLost>>
    BY <1>5 DEF OverflowStored, TasksInOrder, agentFateVars
  <2>2. Head(fresh) \in RequestIds
    BY <2>1, SetOfTail DEF AgentTypes
  <2>3. ToSet(rows') = ToSet(rows) \cup {Head(fresh)}
    BY <2>1, <2>2, InsertedRow
  <2>4. InThread = {Head(fresh)} /\ InThread' = {}
    BY <2>1 DEF InThread
  <2>5. /\ Head(fresh) \in AgentVolatile
        /\ AgentVolatile' \in {AgentVolatile, AgentVolatile \ {Head(fresh)}}
    BY <1>1, <1>2, <2>1, <2>4
  <2>6. AgentDelivery!Persist(Head(fresh))
    BY <1>1, <2>1, <2>3, <2>5 DEF AgentDelivery!Persist
  <2>7. QED
    BY <2>2, <2>6 DEF AgentDelivery!Next
<1>6. CASE OverflowRaises
  <2>1. /\ UNCHANGED <<accepted, inMemory, rows>> /\ InThread' = {}
        /\ agentLost' = agentLost \cup (AgentVolatile \ AgentVolatile')
    BY <1>6 DEF OverflowRaises, agentStoreVars, InThread, NoteLoss
  <2>2. AgentVolatile' \subseteq AgentVolatile
    BY <1>1, <1>2, <2>1
  <2>3. AgentDelivery!Lose(AgentVolatile \ AgentVolatile')
    BY <1>1, <2>1, <2>2 DEF AgentDelivery!Lose
  <2>4. QED
    BY <2>3 DEF AgentDelivery!Next
<1>7. QED
  BY <1>3, <1>4, <1>5, <1>6 DEF Collection

LEMMA AnswerIsReceive ==
    ASSUME AgentInv, AnswerStep
    PROVE  [AgentDelivery!Next]_AgentDelivery!vars
<1>1. /\ sender = "posting" /\ UNCHANGED <<accepted, rows, agentLost>>
      /\ AgentVolatile' = AgentVolatile
  BY AnswersKeepAgentInv
  DEF AnswerStep, ApiTakes, AnswerDelivered, AnswerInvalid, AnswerRetry, Answered, Sending,
      AgentInv, TasksInOrder, agentStoreVars
<1>2. PICK x \in Item : /\ current[1] = x /\ x.id \in RequestIds
                        /\ x.id \in AgentVolatile \cup ToSet(rows) \cup SettledIds
  BY <1>1, ItemUnderWay DEF Attempting, AgentInv, AgentTypes
<1>3. CASE ApiTakes
  <2>1. AgentDelivery!Receive(x.id)
    BY <1>1, <1>2, <1>3
    DEF ApiTakes, AgentDelivery!Receive, AgentDelivery!Held, AgentDelivery!Settled, SettledIds
  <2>2. QED
    BY <1>2, <2>1 DEF AgentDelivery!Next
<1>4. CASE AnswerInvalid
  <2>1. AgentDelivery!Reject(x.id)
    BY <1>1, <1>2, <1>4
    DEF AnswerInvalid, Answered, AgentDelivery!Reject, AgentDelivery!Retire, AgentDelivery!Held,
        AgentDelivery!Settled, SettledIds
  <2>2. QED
    BY <1>2, <2>1 DEF AgentDelivery!Next
<1>5. CASE AnswerDelivered \/ AnswerRetry
  BY <1>1, <1>5 DEF AnswerDelivered, AnswerRetry, Answered, AgentDelivery!vars
<1>6. QED
  BY <1>3, <1>4, <1>5 DEF AnswerStep

(* A copy that goes away once its event is settled is confirmed or         *)
(* rejected.                                                               *)
LEMMA SettledCopyGoes ==
    ASSUME NEW e \in SettledIds, e \in RequestIds,
           UNCHANGED <<accepted, delivered, refusedByApi, agentLost>>,
           AgentVolatile' \in {AgentVolatile, AgentVolatile \ {e}},
           ToSet(rows') \in {ToSet(rows), ToSet(rows) \ {e}}
    PROVE  [AgentDelivery!Next]_AgentDelivery!vars
<1>1. CASE e \in refusedByApi
  <2>1. AgentDelivery!Reject(e)
    BY <1>1 DEF AgentDelivery!Reject, AgentDelivery!Retire, AgentDelivery!Settled
  <2>2. QED
    BY <2>1 DEF AgentDelivery!Next
<1>2. CASE e \in delivered /\ e \in AgentVolatile \cup ToSet(rows)
  <2>1. AgentDelivery!Confirm(e)
    BY <1>2 DEF AgentDelivery!Confirm, AgentDelivery!Retire, AgentDelivery!Held
  <2>2. QED
    BY <2>1 DEF AgentDelivery!Next
<1>3. CASE e \notin AgentVolatile \cup ToSet(rows)
  <2>1. AgentVolatile' = AgentVolatile /\ ToSet(rows') = ToSet(rows)
    BY <1>3
  <2>2. QED
    BY <2>1 DEF AgentDelivery!vars
<1>4. QED
  BY <1>1, <1>2, <1>3 DEF SettledIds

LEMMA StoredCopyGoes ==
    ASSUME NEW e \in RequestIds, e \in AgentVolatile \cup SettledIds,
           UNCHANGED <<accepted, delivered, refusedByApi, agentLost>>,
           AgentVolatile' \in {AgentVolatile, AgentVolatile \ {e}},
           ToSet(rows') = ToSet(rows) \cup {e}
    PROVE  AgentDelivery!Next
<1>1. AgentDelivery!Persist(e)
  BY DEF AgentDelivery!Persist, AgentDelivery!Settled, SettledIds
<1>2. QED
  BY <1>1 DEF AgentDelivery!Next

LEMMA StoreCallIsRetire ==
    ASSUME AgentInv, Removed \/ Saved \/ Marked
    PROVE  [AgentDelivery!Next]_AgentDelivery!vars
<1> USE DEF AgentInv
<1>1. sender \in {"removing", "saving", "marking"}
  BY DEF Removed, Saved, Marked, StoreCall, Sending
<1>2. PICK x \in Item :
         /\ current[1] = x /\ x.id \in accepted /\ x.id \in RequestIds
         /\ Ids(current) = {x.id}
         /\ phase = "memory" => x.id \in AgentVolatile
         /\ phase = "due" => x.id \in ToSet(rows) \cup SettledIds
  BY <1>1, ItemUnderWay DEF Attempting
<1>3. /\ UNCHANGED <<fresh, collector, inMemory, accepted, batch, phase, orphans>>
      /\ UNCHANGED <<delivered, refusedByApi, agentLost>>
      /\ current' = IF sender' = "next" THEN <<>> ELSE current
  BY DEF Removed, Saved, Marked, StoreCall, inVars, agentFateVars
<1>4. Ids(current') = IF sender' = "next" THEN {} ELSE {x.id}
  BY <1>2, <1>3, IdsOfItems
<1>5. AgentVolatile' \in {AgentVolatile, AgentVolatile \ {x.id}}
  <2>1. InThread' = InThread /\ Orphaned' = Orphaned /\ Ids(batch') = Ids(batch)
    BY <1>3 DEF InThread, Orphaned
  <2>2. /\ InHand = IF phase = "memory" THEN Ids(batch) \cup {x.id} ELSE {}
        /\ InHand' = IF phase = "memory" THEN Ids(batch) \cup Ids(current') ELSE {}
    BY <1>2, <1>3, <2>1 DEF InHand
  <2>3. AgentVolatile = ToSet(inMemory) \cup InHand \cup InThread \cup Orphaned
    BY VolatileIs
  <2>4. AgentVolatile' = ToSet(inMemory) \cup InHand' \cup InThread \cup Orphaned
    BY <1>3, <2>1, VolatileIs DEF AgentVolatile, InHand, InThread, Orphaned
  <2>5. QED
    BY <1>4, <2>2, <2>3, <2>4
<1>6. CASE Removed
  <2>1. Delete(x.id) /\ x.id \in SettledIds
    BY <1>2, <1>6 DEF Removed, StoreCall, Sending, DeletionsAreAnswers
  <2>2. ToSet(rows') = ToSet(rows) \ {x.id}
    BY <2>1, DeletedRow
  <2>3. QED
    BY <1>2, <1>3, <1>5, <2>1, <2>2, SettledCopyGoes
<1>7. CASE Saved
  <2>1. Insert(x.id) /\ sender' = "marking"
    BY <1>2, <1>7 DEF Saved, StoreCall
  <2>2. ToSet(rows') = ToSet(rows) \cup {x.id}
    BY <1>2, <2>1, InsertedRow
  <2>3. CASE x.id \in AgentVolatile \cup SettledIds
    BY <1>2, <1>3, <1>5, <2>2, <2>3, StoredCopyGoes
  <2>4. CASE x.id \notin AgentVolatile \cup SettledIds
    <3>1. x.id \in ToSet(rows)
      BY <1>2, <2>4 DEF AgentTypes
    <3>2. AgentVolatile' = AgentVolatile /\ ToSet(rows') = ToSet(rows)
      BY <1>5, <2>2, <2>4, <3>1
    <3>3. QED
      BY <1>3, <3>2 DEF AgentDelivery!vars
  <2>5. QED
    BY <2>3, <2>4
<1>8. CASE Marked
  <2>1. rows' = rows /\ x.id \in ToSet(rows) \cup SettledIds
    BY <1>2, <1>8 DEF Marked, StoreCall, Sending, BackOff, CopiesAreKept
  <2>2. CASE x.id \in SettledIds
    BY <1>2, <1>3, <1>5, <2>1, <2>2, SettledCopyGoes
  <2>3. CASE x.id \in AgentVolatile /\ x.id \in ToSet(rows)
    BY <1>2, <1>3, <1>5, <2>1, <2>3, StoredCopyGoes
  <2>4. CASE x.id \notin AgentVolatile
    <3>1. AgentVolatile' = AgentVolatile
      BY <1>5, <2>4
    <3>2. QED
      BY <1>3, <2>1, <3>1 DEF AgentDelivery!vars
  <2>5. QED
    BY <2>1, <2>2, <2>3, <2>4
<1>9. QED
  BY <1>6, <1>7, <1>8
LEMMA ShutdownIsLoss ==
    ASSUME AgentInv, Shutdown
    PROVE  [AgentDelivery!Next]_AgentDelivery!vars
<1>1. /\ UNCHANGED <<accepted, rows, delivered, refusedByApi>>
      /\ agentLost' = agentLost \cup (AgentVolatile \ AgentVolatile')
  BY DEF Shutdown, NoteLoss, agentStoreVars
<1> DEFINE gone == AgentVolatile \ AgentVolatile'
           e == current[1].id
<1>2. CASE AgentVolatile' \subseteq AgentVolatile
  <2>1. AgentDelivery!Lose(gone)
    BY <1>1, <1>2 DEF AgentDelivery!Lose
  <2>2. QED
    BY <2>1 DEF AgentDelivery!Next
<1>3. CASE /\ e \in accepted /\ e \in RequestIds
           /\ AgentVolatile' \subseteq AgentVolatile \cup {e} /\ e \in AgentVolatile'
  <2>1. gone \subseteq AgentVolatile /\ AgentVolatile' = (AgentVolatile \ gone) \cup {e}
    BY <1>3
  <2>2. AgentDelivery!Accept(e, gone)
    BY <1>1, <1>3, <2>1 DEF AgentDelivery!Accept
  <2>3. QED
    BY <1>3, <2>1, <2>2 DEF AgentDelivery!Next
<1>4. QED
  BY <1>2, <1>3, ShutdownKeepsAgentInv

LEMMA OrphanIsRetire ==
    ASSUME AgentInv, OrphanRuns
    PROVE  [AgentDelivery!Next]_AgentDelivery!vars
<1>1. PICK o \in orphans :
         /\ orphans' = orphans \ {o}
         /\ CASE o.op = "remove" -> Delete(o.id)
              [] o.op = "save"   -> Insert(o.id)
              [] o.op = "mark"   -> BackOff(o.id)
  BY DEF OrphanRuns
<1>2. UNCHANGED <<inVars, inMemory, accepted, sendVars, life, agentFateVars>>
  BY DEF OrphanRuns
<1>3. /\ AgentVolatile' \subseteq AgentVolatile /\ AgentVolatile \subseteq AgentVolatile' \cup {o.id}
      /\ o.op # "save" => AgentVolatile' = AgentVolatile
      /\ CASE o.op = "remove" -> ToSet(rows') = ToSet(rows) \ {o.id} /\ o.id \in SettledIds
           [] o.op = "save"   -> ToSet(rows') = ToSet(rows) \cup {o.id} /\ o.id \in AgentVolatile
           [] OTHER           -> rows' = rows
  BY <1>1, <1>2, OrphanKeepsAgentInv
<1>4. UNCHANGED <<accepted, delivered, refusedByApi, agentLost>> /\ o.id \in RequestIds
  BY <1>2 DEF agentFateVars, AgentInv, AgentTypes
<1>5. AgentVolatile' \in {AgentVolatile, AgentVolatile \ {o.id}}
  BY <1>3
<1>6. CASE o.op = "remove"
  BY <1>3, <1>4, <1>5, <1>6, SettledCopyGoes
<1>7. CASE o.op = "save"
  BY <1>3, <1>4, <1>5, <1>7, StoredCopyGoes
<1>8. CASE o.op \notin {"remove", "save"}
  BY <1>3, <1>4, <1>8 DEF AgentDelivery!vars
<1>9. QED
  BY <1>6, <1>7, <1>8

LEMMA LossIsLose ==
    ASSUME AgentInv, StoreRaises \/ AgentRestarts
    PROVE  AgentDelivery!Next
<1>1. /\ UNCHANGED <<accepted, rows, delivered, refusedByApi>>
      /\ agentLost' = agentLost \cup (AgentVolatile \ AgentVolatile')
      /\ AgentVolatile' \subseteq AgentVolatile
  BY StoreRaisesKeepsAgentInv, RestartKeepsAgentInv
  DEF StoreRaises, AgentRestarts, agentStoreVars, NoteLoss
<1>2. AgentDelivery!Lose(AgentVolatile \ AgentVolatile')
  BY <1>1 DEF AgentDelivery!Lose
<1>3. QED
  BY <1>2 DEF AgentDelivery!Next

LEMMA StepOfAgentDelivery ==
    AgentInv /\ [PipelineNext]_pipelineVars => [AgentDelivery!Next]_AgentDelivery!vars
<1> SUFFICES ASSUME AgentInv, [PipelineNext]_pipelineVars
             PROVE  [AgentDelivery!Next]_AgentDelivery!vars
  OBVIOUS
<1>1. CASE Collection
  BY <1>1, CollectionIsAccept
<1>2. CASE BeginRunOnce \/ Post \/ MemoryDrained \/ FetchDue \/ EndRunOnce
  <2>1. UNCHANGED <<accepted, rows, delivered, refusedByApi, agentLost>>
    BY <1>2 DEF BeginRunOnce, Post, MemoryDrained, FetchDue, EndRunOnce, agentStoreVars, agentFateVars
  <2>2. AgentVolatile' = AgentVolatile
    BY <1>2, TakingKeepsAgentInv
  <2>3. QED
    BY <2>1, <2>2 DEF AgentDelivery!vars
<1>3. CASE AnswerStep
  BY <1>3, AnswerIsReceive
<1>4. CASE Removed \/ Saved \/ Marked
  BY <1>4, StoreCallIsRetire
<1>5. CASE StoreRaises \/ AgentRestarts
  BY <1>5, LossIsLose
<1>6. CASE Shutdown
  BY <1>6, ShutdownIsLoss
<1>7. CASE OrphanRuns
  BY <1>7, OrphanIsRetire
<1>8. CASE (\E e \in RequestIds : DueAgain(e)) \/ UNCHANGED pipelineVars
  <2>1. /\ UNCHANGED <<fresh, collector, inMemory, accepted, rows, batch, current, phase, orphans>>
        /\ UNCHANGED <<delivered, refusedByApi, agentLost>>
    BY <1>8 DEF DueAgain, pipelineVars, inVars, agentStoreVars, sendVars, agentFateVars
  <2>2. QED
    BY <2>1 DEF AgentDelivery!vars, AgentVolatile
<1>9. QED
  BY <1>1, <1>2, <1>3, <1>4, <1>5, <1>6, <1>7, <1>8 DEF PipelineNext, Sender, AnswerStep

(* The agent delivers at least once: what reached SQLite leaves it only    *)
(* for an answer, and what memory loses is lost to a crash, a stop, or a   *)
(* raised SQLite call (sqlite_store.py, sender.py, agent.py).              *)
THEOREM AgentDeliversAtLeastOnce == PipelineSpec => AgentImplementsDelivery
<1>1. PipelineInit => AgentDelivery!Init
  <2>1. PipelineInit => AgentVolatile = {} /\ ToSet(rows) = {}
    BY IdsOfItems DEF PipelineInit, AgentVolatile
  <2>2. QED
    BY <2>1 DEF PipelineInit, AgentDelivery!Init
<1>2. QED
  BY <1>1, StepOfAgentDelivery, AgentInvAlways, PTL
  DEF PipelineSpec, AgentImplementsDelivery, AgentDelivery!Spec

(* No event the agent accepted disappears unexplained: it is in memory, in *)
(* SQLite, received, refused, or lost with the memory that held it.        *)
AgentAccountsForAll == AgentDelivery!NothingVanishes

THEOREM AgentLosesNothingSilently == PipelineSpec => []AgentAccountsForAll
<1>1. PipelineInit => AgentAccountsForAll
  BY DEF PipelineInit, AgentAccountsForAll, AgentDelivery!NothingVanishes
<1>2. AgentAccountsForAll /\ [AgentDelivery!Next]_AgentDelivery!vars => AgentAccountsForAll'
  BY DEF AgentAccountsForAll, AgentDelivery!NothingVanishes, AgentDelivery!Held, AgentDelivery!Next,
         AgentDelivery!vars, AgentDelivery!Accept, AgentDelivery!Persist, AgentDelivery!Receive,
         AgentDelivery!Confirm, AgentDelivery!Reject, AgentDelivery!Retire, AgentDelivery!Lose,
         AgentDelivery!Rewrite, AgentDelivery!Settled
<1>3. AgentInv /\ AgentAccountsForAll /\ [PipelineNext]_pipelineVars => AgentAccountsForAll'
  BY <1>2, StepOfAgentDelivery
<1>4. QED
  BY <1>1, <1>3, AgentInvAlways, PTL DEF PipelineSpec

(* What is bounded, and marked, in the agent: the counters, the memory     *)
(* queue, the flags of rows, the places of its tasks, the events' fates.   *)
MemoryFits == inMemory \in Seq(RequestIds) /\ Len(inMemory) <= MaxMemoryEvents
FlagsHaveRows == dueRows \subseteq ToSet(rows) /\ tried \subseteq ToSet(rows)
TasksAreSomewhere ==
    /\ post \in {"none", "sent", "taken"}
    /\ collector \in {"poll", "storing", "crashed", "stopped"}
    /\ sender \in {"idle", "next", "posting", "fetching", "removing", "saving", "marking"}
    /\ life \in {"running", "flushing", "closed"}
FatesAreOfEvents == delivered \cup refusedByApi \cup agentLost \subseteq RequestIds

AgentBounds ==
    /\ polled \in [RequestIds -> 0..MaxPolls]
    /\ MemoryFits /\ FlagsHaveRows /\ TasksAreSomewhere /\ FatesAreOfEvents

(* Who changes what                                                        *)
LEMMA AgentMoves ==
    ASSUME [PipelineNext]_pipelineVars
    PROVE  /\ Collect \/ UNCHANGED polled
           /\ PutInMemory \/ BeginRunOnce \/ AgentRestarts \/ UNCHANGED inMemory
           /\ \/ OverflowStored \/ Removed \/ Saved \/ Marked \/ OrphanRuns
              \/ \E e \in RequestIds : DueAgain(e)
              \/ UNCHANGED <<rows, dueRows, tried>>
           /\ ApiTakes \/ UNCHANGED delivered
           /\ AnswerInvalid \/ UNCHANGED refusedByApi
           /\ NoteLoss \/ UNCHANGED agentLost
<1>1. CASE Collection
  BY <1>1 DEF Collection, Collect, NextFresh, PutInMemory, PutOverflows, OverflowStored,
              OverflowRaises, agentStoreVars, agentFateVars
<1>2. CASE Sender \/ ApiTakes
  BY <1>2
  DEF Sender, BeginRunOnce, Post, MemoryDrained, FetchDue, EndRunOnce, StoreRaises,
      AnswerDelivered, AnswerInvalid, AnswerRetry, Answered, Removed, Saved, Marked, StoreCall,
      ApiTakes, inVars, agentStoreVars, agentFateVars
<1>3. CASE (\E e \in RequestIds : DueAgain(e)) \/ Shutdown \/ OrphanRuns \/ AgentRestarts
  BY <1>3 DEF DueAgain, Shutdown, OrphanRuns, AgentRestarts, inVars, agentStoreVars, agentFateVars
<1>4. CASE UNCHANGED pipelineVars
  BY <1>4 DEF pipelineVars, inVars, agentStoreVars, agentFateVars
<1>5. QED
  BY <1>1, <1>2, <1>3, <1>4 DEF PipelineNext

LEMMA MemoryStillFits ==
    ASSUME AgentInv, MemoryFits, [PipelineNext]_pipelineVars PROVE MemoryFits'
<1>1. /\ inMemory \in Seq(RequestIds) /\ Len(inMemory) <= MaxMemoryEvents
      /\ Len(inMemory) \in Nat /\ MaxMemoryEvents \in Nat
  BY AgentSizesAssumption DEF MemoryFits
<1>2. CASE PutInMemory
  <2>1. /\ Len(inMemory) < MaxMemoryEvents /\ inMemory' = Append(inMemory, Head(fresh))
        /\ fresh \in Seq(RequestIds) /\ fresh # <<>>
    BY <1>2 DEF PutInMemory, NextFresh, AgentInv, AgentTypes
  <2>2. Head(fresh) \in RequestIds
    BY <2>1, SetOfTail
  <2>3. inMemory' \in Seq(RequestIds) /\ Len(inMemory') = Len(inMemory) + 1
    BY <1>1, <2>1, <2>2
  <2>4. QED
    BY <1>1, <2>1, <2>3 DEF MemoryFits
<1>3. CASE BeginRunOnce
  <2> DEFINE n == Len(FirstItems(inMemory, AgentBatchSize))
  <2>1. inMemory' = SubSeq(inMemory, n + 1, Len(inMemory))
    BY <1>3 DEF BeginRunOnce
  <2>2. n \in Nat /\ n <= Len(inMemory)
    BY <1>1, AgentSizesAssumption DEF FirstItems
  <2> HIDE DEF n
  <2>3. inMemory' \in Seq(RequestIds) /\ Len(inMemory') = Len(inMemory) - n
    BY <1>1, <2>1, <2>2, SetOfCut
  <2>4. QED
    BY <1>1, <2>2, <2>3 DEF MemoryFits
<1>4. CASE AgentRestarts
  <2>1. inMemory' = <<>> /\ Len(<<>>) = 0 /\ <<>> \in Seq(RequestIds)
    BY <1>4 DEF AgentRestarts
  <2>2. QED
    BY <1>1, <2>1 DEF MemoryFits
<1>5. CASE UNCHANGED inMemory
  BY <1>5 DEF MemoryFits
<1>6. QED
  BY <1>2, <1>3, <1>4, <1>5, AgentMoves

(* A row's flags go with the row.                                          *)
LEMMA FlagsKeepRows ==
    ASSUME AgentTypes, FlagsHaveRows, NEW e \in RequestIds,
           Insert(e) \/ Delete(e) \/ BackOff(e)
    PROVE  FlagsHaveRows'
<1>1. CASE Insert(e)
  <2>1. ToSet(rows') = ToSet(rows) \cup {e}
    BY <1>1, InsertedRow
  <2>2. dueRows' \subseteq dueRows \cup {e} /\ tried' = tried
    BY <1>1 DEF Insert, agentStoreVars
  <2>3. QED
    BY <2>1, <2>2 DEF FlagsHaveRows
<1>2. CASE Delete(e)
  <2>1. ToSet(rows') = ToSet(rows) \ {e}
    BY <1>2, DeletedRow
  <2>2. dueRows' = dueRows \ {e} /\ tried' = tried \ {e}
    BY <1>2 DEF Delete
  <2>3. QED
    BY <2>1, <2>2 DEF FlagsHaveRows
<1>3. CASE BackOff(e)
  BY <1>3 DEF BackOff, FlagsHaveRows
<1>4. QED
  BY <1>1, <1>2, <1>3

LEMMA FlagsStillHaveRows ==
    ASSUME AgentInv, FlagsHaveRows, [PipelineNext]_pipelineVars PROVE FlagsHaveRows'
<1>1. AgentTypes
  BY DEF AgentInv
<1>2. CASE OverflowStored
  <2>1. fresh \in Seq(RequestIds) /\ fresh # <<>> /\ Insert(Head(fresh))
    BY <1>2 DEF OverflowStored, AgentInv, AgentTypes, TasksInOrder
  <2>2. Head(fresh) \in RequestIds
    BY <2>1, SetOfTail
  <2>3. QED
    BY <1>1, <2>1, <2>2, FlagsKeepRows
<1>3. CASE Removed \/ Saved \/ Marked
  <2>1. sender \in Attempting
    BY <1>3 DEF Removed, Saved, Marked, StoreCall, Sending, Attempting
  <2>2. current[1].id \in RequestIds
    BY <2>1, ItemUnderWay
  <2>3. Insert(current[1].id) \/ Delete(current[1].id) \/ BackOff(current[1].id)
    BY <1>3 DEF Removed, Saved, Marked
  <2>4. QED
    BY <1>1, <2>2, <2>3, FlagsKeepRows
<1>4. CASE OrphanRuns
  <2>1. PICK o \in orphans : Insert(o.id) \/ Delete(o.id) \/ BackOff(o.id)
    <3>1. \A o \in orphans : o.op \in {"save", "mark", "remove"}
      BY <1>1 DEF AgentTypes
    <3>2. QED
      BY <1>4, <3>1 DEF OrphanRuns
  <2>2. o.id \in RequestIds
    BY <1>1 DEF AgentTypes
  <2>3. QED
    BY <1>1, <2>1, <2>2, FlagsKeepRows
<1>5. ASSUME NEW e \in RequestIds, DueAgain(e) PROVE FlagsHaveRows'
  BY <1>5 DEF DueAgain, FlagsHaveRows
<1>6. CASE UNCHANGED <<rows, dueRows, tried>>
  BY <1>6 DEF FlagsHaveRows
<1>7. QED
  BY <1>2, <1>3, <1>4, <1>5, <1>6, AgentMoves

LEMMA TasksStaySomewhere ==
    ASSUME TasksAreSomewhere, [PipelineNext]_pipelineVars PROVE TasksAreSomewhere'
<1>1. CASE Collection
  BY <1>1 DEF Collection, Collect, NextFresh, PutInMemory, PutOverflows, OverflowStored,
              OverflowRaises, sendVars, TasksAreSomewhere
<1>2. CASE BeginRunOnce \/ Post \/ MemoryDrained \/ FetchDue \/ EndRunOnce \/ StoreRaises
  BY <1>2
  DEF BeginRunOnce, Post, MemoryDrained, FetchDue, EndRunOnce, StoreRaises, PassOver, inVars,
      TasksAreSomewhere
<1>3. CASE AnswerStep \/ Removed \/ Saved \/ Marked
  BY <1>3
  DEF AnswerStep, ApiTakes, AnswerDelivered, AnswerInvalid, AnswerRetry, Answered, Removed, Saved,
      Marked, StoreCall, inVars, TasksAreSomewhere
<1>4. CASE (\E e \in RequestIds : DueAgain(e)) \/ Shutdown \/ OrphanRuns \/ AgentRestarts
  BY <1>4 DEF DueAgain, Shutdown, OrphanRuns, AgentRestarts, inVars, sendVars, TasksAreSomewhere
<1>5. CASE UNCHANGED pipelineVars
  BY <1>5 DEF pipelineVars, inVars, sendVars, TasksAreSomewhere
<1>6. QED
  BY <1>1, <1>2, <1>3, <1>4, <1>5 DEF PipelineNext, Sender, AnswerStep

LEMMA FatesStayOfEvents ==
    ASSUME AgentInv, FatesAreOfEvents, [PipelineNext]_pipelineVars PROVE FatesAreOfEvents'
<1>1. AgentVolatile \subseteq RequestIds
  BY DEF AgentInv, CopiesAreKept, AgentTypes
<1>2. agentLost' \subseteq RequestIds
  BY <1>1, AgentMoves DEF FatesAreOfEvents, NoteLoss
<1>3. ASSUME post # "none" PROVE current[1].id \in RequestIds
  <2>1. sender \in Attempting
    BY <1>3 DEF AgentInv, TasksInOrder, Attempting
  <2>2. QED
    BY <2>1, ItemUnderWay
<1>4. delivered' \subseteq RequestIds /\ refusedByApi' \subseteq RequestIds
  BY <1>3, AgentMoves DEF FatesAreOfEvents, ApiTakes, AnswerInvalid
<1>5. QED
  BY <1>2, <1>4 DEF FatesAreOfEvents

(* PipelineTypeOK, in every state and for any sizes: the memory queue      *)
(* never holds more than max_memory_events (put() overflows to SQLite      *)
(* instead of waiting or growing), through polls, drains, stops, crashes   *)
(* and errors of SQLite; next_retry_at and attempts are of rows that are   *)
(* there; a task attempts one item at a time.                              *)
THEOREM AgentMemoryIsBounded == PipelineSpec => []PipelineTypeOK
<1>1. PipelineInit => AgentBounds
  <2> SUFFICES ASSUME PipelineInit PROVE AgentBounds
    OBVIOUS
  <2>1. Len(<<>>) = 0 /\ <<>> \in Seq(RequestIds) /\ 0 \in 0..MaxPolls /\ 0 <= MaxMemoryEvents
    BY AgentSizesAssumption
  <2>2. QED
    BY <2>1
    DEF PipelineInit, AgentBounds, MemoryFits, FlagsHaveRows, TasksAreSomewhere, FatesAreOfEvents
<1>2. AgentInv /\ AgentBounds /\ [PipelineNext]_pipelineVars => AgentBounds'
  <2> SUFFICES ASSUME AgentInv, AgentBounds, [PipelineNext]_pipelineVars PROVE AgentBounds'
    OBVIOUS
  <2>1. polled' \in [RequestIds -> 0..MaxPolls]
    <3>1. CASE Collect
      <4>1. PICK e, f \in RequestIds :
                /\ polled[e] < MaxPolls /\ polled[f] < MaxPolls
                /\ polled' = [x \in RequestIds |-> IF x \in {e, f} THEN polled[x] + 1 ELSE polled[x]]
        BY <3>1 DEF Collect
      <4>2. \A x \in RequestIds : polled[x] \in 0..MaxPolls
        BY DEF AgentBounds
      <4>3. \A x \in {e, f} : polled[x] + 1 \in 0..MaxPolls
        BY <4>1, <4>2, AgentSizesAssumption
      <4>4. QED
        BY <4>1, <4>2, <4>3
    <3>2. QED
      BY <3>1, AgentMoves DEF AgentBounds
  <2>2. QED
    BY <2>1, MemoryStillFits, FlagsStillHaveRows, TasksStaySomewhere, FatesStayOfEvents
    DEF AgentBounds
<1>3. AgentInv /\ AgentBounds => PipelineTypeOK
  <2> SUFFICES ASSUME AgentInv, AgentBounds PROVE PipelineTypeOK
    OBVIOUS
  <2>1. Len(current) <= 1
    <3>1. current = <<>> \/ \E x \in Item : current = <<x>>
      BY DEF AgentInv, TasksInOrder
    <3>2. QED
      BY <3>1
  <2>2. QED
    BY <2>1
    DEF PipelineTypeOK, AgentInv, AgentTypes, AgentBounds, MemoryFits, FlagsHaveRows,
        TasksAreSomewhere, FatesAreOfEvents
<1>4. QED
  BY <1>1, <1>2, <1>3, AgentInvAlways, PTL DEF PipelineSpec
-----------------------------------------------------------------------------
(* The JavaScript SDK.  The parts of its invariant: the types,             *)
Finished == arrived \cup rejectedByApi

LogLine == [op : {"put", "retry", "ack"}, id : JsEvents]

JsTypes ==
    /\ policy \in {"drop_newest", "drop_oldest", "block"} /\ file \in BOOLEAN
    /\ buffer \in Seq(JsEvents) /\ IsInjective(buffer)
    /\ kept \in Seq(JsEvents) /\ IsInjective(kept)
    /\ disk \in Seq(JsEvents) /\ IsInjective(disk)
    /\ slice \in Seq(JsEvents) /\ todo \in Seq(JsEvents)
    /\ appends \in Seq(LogLine)
    /\ snapshot \in [on : BOOLEAN, rows : Seq(JsEvents)] /\ IsInjective(snapshot.rows)
    /\ awaiting \subseteq JsEvents /\ woken \subseteq JsEvents
    /\ sent \in [JsEvents -> Nat] /\ taken \in [JsEvents -> Nat]

(* an event is in the buffer once and nowhere else, and one whose put()    *)
(* waits is not queued,                                                    *)
QueuedOnce ==
    /\ Buffered \cap (Kept \cup OnDisk \cup pushedOut \cup Finished \cup spilled) = {}
    /\ (awaiting \cup woken) \cap JsQueued = {} /\ awaiting \cap woken = {}

(* requests are made for rows, which go when their request is answered,    *)
RequestsHaveRows ==
    /\ \A e \in JsEvents : sent[e] + taken[e] > 0 => e \in (Kept \cup Finished) \ Poison
    /\ \A e \in JsEvents : taken[e] > 0 => e \in arrived
    /\ ToSet(slice) \cup ToSet(todo) \subseteq Kept \cup Finished

(* nothing is read or written before the log is replayed, nor without one, *)
ReplayComesFirst ==
    /\ ready # "yes" => /\ kept = <<>> /\ appends = <<>> /\ ~snapshot.on
                        /\ slice = <<>> /\ todo = <<>> /\ Requested = {}
    /\ ~file => disk = <<>> /\ appends = <<>> /\ ~snapshot.on /\ ready = "yes"

(* a line says what happened to its event, in this order,                  *)
LinesAreTrue ==
    \A line \in ToSet(appends) :
        /\ line.op = "ack" => line.id \in Finished \ Kept
        /\ line.op = "put" => line.id \in Kept \cup Finished

(* what the log or its compaction holds beyond the rows is settled, unless *)
(* the log was overlooked,                                                 *)
LogFollowsRows ==
    /\ snapshot.on => /\ ToSet(snapshot.rows) \subseteq Kept \cup Finished
                      /\ Kept \cap OnDisk \subseteq ToSet(snapshot.rows)
    /\ ~overlooked /\ ready = "yes" => OnDisk \subseteq Kept \cup Finished
    /\ ~overlooked /\ snapshot.on => OnDisk \subseteq ToSet(snapshot.rows) \cup Finished

(* and flush() waits for what it saw, or for ever: a row that cannot be    *)
(* serialised never goes.                                                  *)
FlushWaits ==
    /\ caller = "flush" /\ Kept \cap Poison = {}
          => flushed \subseteq Buffered \cup Kept \cup pushedOut \cup Finished
    /\ caller = "drained" => flushed \subseteq pushedOut \cup Finished

JsInv ==
    /\ JsTypes /\ QueuedOnce /\ RequestsHaveRows /\ ReplayComesFirst
    /\ LinesAreTrue /\ LogFollowsRows /\ FlushWaits

LEMMA EmptySet == ToSet(<<>>) = {} /\ IsInjective(<<>>)
BY DEF ToSet, IsInjective

LEMMA InitJsInv == JsInit => JsInv
<1> SUFFICES ASSUME JsInit PROVE JsInv
  OBVIOUS
<1>1. Buffered = {} /\ Kept = {} /\ OnDisk = {} /\ Finished = {}
  BY EmptySet DEF JsInit, Buffered, Kept, OnDisk, Finished
<1>2. JsTypes
  BY EmptySet, JsSizesAssumption DEF JsInit, JsTypes, NotCompacting
<1>3. QueuedOnce /\ RequestsHaveRows /\ FlushWaits
  BY <1>1, EmptySet DEF JsInit, QueuedOnce, JsQueued, RequestsHaveRows, FlushWaits
<1>4. ReplayComesFirst /\ LinesAreTrue /\ LogFollowsRows
  BY <1>1, EmptySet DEF JsInit, ReplayComesFirst, LinesAreTrue, LogFollowsRows, NotCompacting, Requested
<1>5. QED
  BY <1>2, <1>3, <1>4 DEF JsInv
-----------------------------------------------------------------------------
(* track(): the event is queued and may push out others, or it waits, or   *)
(* it is turned away.                                                      *)
TrackStep(e) == slice = <<>> /\ (JsTrack(e) \/ TrackGoesOn(e)) /\ OnlyBuffer

QueuesEvent(e) ==
    \E victims \in SUBSET Buffered :
        /\ Buffered' = (Buffered \ victims) \cup {e}
        /\ pushedOut' = pushedOut \cup victims
        /\ e \notin JsQueued \cup awaiting' \cup woken'

QueuesNothing(e) ==
    /\ UNCHANGED <<buffer, pushedOut>>
    /\ e \notin JsQueued

LEMMA TrackIs ==
    ASSUME JsInv, NEW e \in JsEvents, TrackStep(e)
    PROVE  /\ buffer' \in Seq(JsEvents) /\ IsInjective(buffer')
           /\ awaiting' \cup woken' \subseteq awaiting \cup woken \cup {e}
           /\ awaiting' \cap woken' = {}
           /\ QueuesEvent(e) \/ QueuesNothing(e)
<1> USE DEF JsInv
<1>1. buffer \in Seq(JsEvents) /\ IsInjective(buffer) /\ Buffered = ToSet(buffer)
  BY DEF JsTypes, Buffered
<1>2. awaiting \cap woken = {} /\ (awaiting \cup woken) \cap JsQueued = {} /\ Buffered \subseteq JsQueued
  BY DEF QueuedOnce, JsQueued
<1>3. CASE Untracked(e) /\ PutInRoom(e)
  <2>1. buffer' = Append(buffer, e) /\ UNCHANGED <<awaiting, woken, pushedOut>>
    BY <1>3 DEF PutInRoom
  <2>2. e \notin JsQueued /\ e \notin awaiting /\ e \notin woken
    BY <1>3 DEF Untracked
  <2>3. buffer' \in Seq(JsEvents) /\ IsInjective(buffer') /\ ToSet(buffer') = Buffered \cup {e}
    BY <1>1, <1>2, <2>1, <2>2, SetOfAppend
  <2>4. /\ Buffered' = (Buffered \ {}) \cup {e} /\ pushedOut' = pushedOut \cup {}
        /\ {} \in SUBSET Buffered /\ e \notin JsQueued \cup awaiting' \cup woken'
    BY <2>1, <2>2, <2>3 DEF Buffered
  <2>5. QueuesEvent(e)
    BY <2>4 DEF QueuesEvent
  <2>6. QED
    BY <1>2, <2>1, <2>3, <2>5
<1>4. CASE Untracked(e) /\ PutFull(e)
  <2>1. e \notin JsQueued /\ e \notin awaiting /\ e \notin woken
    BY <1>4 DEF Untracked
  <2>2. woken' = woken
    BY <1>4 DEF PutFull
  <2>3. CASE policy \in {"drop_newest", "block"}
    <3>1. UNCHANGED <<buffer, pushedOut>> /\ awaiting' \subseteq awaiting \cup {e}
      BY <1>4, <2>3 DEF PutFull
    <3>2. QED
      BY <1>1, <1>2, <2>1, <2>2, <3>1 DEF QueuesNothing
  <2>4. CASE policy = "drop_oldest"
    <3>1. /\ buffer' = Append(Tail(buffer), e) /\ pushedOut' = pushedOut \cup {Head(buffer)}
          /\ awaiting' = awaiting /\ Len(buffer) >= MaxSize
      BY <1>4, <2>4 DEF PutFull
    <3>2. MaxSize \in Nat \ {0}
      BY JsSizesAssumption
    <3>3. buffer # <<>> /\ Len(buffer) \in Nat
      BY <1>1, <3>1, <3>2
    <3>4. /\ Head(buffer) \in Buffered /\ Head(buffer) \notin ToSet(Tail(buffer))
          /\ Tail(buffer) \in Seq(JsEvents) /\ IsInjective(Tail(buffer))
          /\ Buffered = {Head(buffer)} \cup ToSet(Tail(buffer))
      BY <1>1, <3>3, InjectiveTail
    <3>5. ToSet(Tail(buffer)) = Buffered \ {Head(buffer)} /\ e \notin ToSet(Tail(buffer))
      BY <1>2, <2>1, <3>4
    <3>6. /\ buffer' \in Seq(JsEvents) /\ IsInjective(buffer')
          /\ ToSet(buffer') = ToSet(Tail(buffer)) \cup {e}
      <4> DEFINE rest == Tail(buffer)
      <4>1. rest \in Seq(JsEvents) /\ IsInjective(rest) /\ e \notin ToSet(rest) /\ buffer' = Append(rest, e)
        BY <3>1, <3>4, <3>5
      <4> HIDE DEF rest
      <4>2. /\ Append(rest, e) \in Seq(JsEvents) /\ IsInjective(Append(rest, e))
            /\ ToSet(Append(rest, e)) = ToSet(rest) \cup {e}
        BY <4>1, SetOfAppend
      <4>3. QED
        BY <4>1, <4>2 DEF rest
    <3>7. Buffered' = (Buffered \ {Head(buffer)}) \cup {e}
      BY <3>5, <3>6 DEF Buffered
    <3>8. QueuesEvent(e)
      BY <2>1, <2>2, <3>1, <3>4, <3>7 DEF QueuesEvent
    <3>9. QED
      BY <1>2, <2>2, <3>1, <3>6, <3>8
  <2>5. QED
    BY <2>3, <2>4 DEF JsTypes
<1>5. CASE WaitTimesOut(e)
  <2>1. UNCHANGED <<buffer, pushedOut, woken>> /\ awaiting' = awaiting \ {e} /\ e \in awaiting
    BY <1>5 DEF WaitTimesOut
  <2>2. QED
    BY <1>1, <1>2, <2>1 DEF QueuesNothing
<1>6. CASE WokenPushes(e)
  <2>1. /\ buffer' = Append(buffer, e) /\ UNCHANGED <<awaiting, pushedOut>>
        /\ e \in woken /\ woken' = woken \ {e}
    BY <1>6 DEF WokenPushes
  <2>2. e \notin JsQueued /\ e \notin awaiting
    BY <1>2, <2>1
  <2>3. buffer' \in Seq(JsEvents) /\ IsInjective(buffer') /\ ToSet(buffer') = Buffered \cup {e}
    BY <1>1, <1>2, <2>1, <2>2, SetOfAppend
  <2>4. /\ Buffered' = (Buffered \ {}) \cup {e} /\ pushedOut' = pushedOut \cup {}
        /\ {} \in SUBSET Buffered /\ e \notin JsQueued \cup awaiting' \cup woken'
    BY <2>1, <2>2, <2>3 DEF Buffered
  <2>5. QueuesEvent(e)
    BY <2>4 DEF QueuesEvent
  <2>6. QED
    BY <1>2, <2>1, <2>3, <2>5
<1>7. QED
  BY <1>3, <1>4, <1>5, <1>6 DEF TrackStep, JsTrack, TrackGoesOn

LEMMA TrackKeepsJsInv ==
    ASSUME JsInv, NEW e \in JsEvents, TrackStep(e)
    PROVE  JsInv'
<1> USE DEF JsInv
<1>1. UNCHANGED <<optionVars, kept, later, logVars, readyVars, gate, passVars, postVars,
                  callVars, replaced, endVars>>
  BY DEF TrackStep, OnlyBuffer
<1>2. /\ UNCHANGED <<policy, file, kept, disk, slice, todo, appends, snapshot, ready, overlooked>>
      /\ UNCHANGED <<sent, taken, caller, flushed, arrived, rejectedByApi, spilled>>
  BY <1>1 DEF optionVars, logVars, readyVars, passVars, postVars, callVars, endVars
<1>3. Kept' = Kept /\ OnDisk' = OnDisk /\ Finished' = Finished /\ Requested' = Requested
  BY <1>2 DEF Kept, OnDisk, Finished, Requested
<1>4. /\ buffer' \in Seq(JsEvents) /\ IsInjective(buffer')
      /\ awaiting' \cup woken' \subseteq awaiting \cup woken \cup {e}
      /\ awaiting' \cap woken' = {}
      /\ QueuesEvent(e) \/ QueuesNothing(e)
  BY TrackIs
<1>5. JsTypes'
  BY <1>2, <1>4 DEF JsTypes
<1>6. RequestsHaveRows' /\ ReplayComesFirst' /\ LinesAreTrue' /\ LogFollowsRows'
  BY <1>2, <1>3 DEF RequestsHaveRows, ReplayComesFirst, LinesAreTrue, LogFollowsRows
<1>7. JsQueued' = Buffered' \cup Kept \cup OnDisk \cup pushedOut' \cup Finished \cup spilled
  BY <1>2, <1>3 DEF JsQueued, Finished
<1>8. JsQueued = Buffered \cup Kept \cup OnDisk \cup pushedOut \cup Finished \cup spilled
  BY DEF JsQueued, Finished
<1>9. CASE QueuesNothing(e)
  <2>1. Buffered' = Buffered /\ pushedOut' = pushedOut /\ e \notin JsQueued
    BY <1>9 DEF QueuesNothing, Buffered
  <2>2. QueuedOnce'
    BY <1>2, <1>3, <1>4, <1>7, <1>8, <2>1 DEF QueuedOnce
  <2>3. FlushWaits'
    BY <1>2, <1>3, <2>1 DEF FlushWaits
  <2>4. QED
    BY <1>5, <1>6, <2>2, <2>3
<1>10. CASE QueuesEvent(e)
  <2>1. PICK victims \in SUBSET Buffered :
           /\ Buffered' = (Buffered \ victims) \cup {e}
           /\ pushedOut' = pushedOut \cup victims
           /\ e \notin JsQueued \cup awaiting' \cup woken'
    BY <1>10 DEF QueuesEvent
  <2>2. JsQueued' = JsQueued \cup {e}
    BY <1>7, <1>8, <2>1
  <2>3. QueuedOnce'
    <3>1. Buffered' \cap (Kept \cup OnDisk \cup pushedOut' \cup Finished \cup spilled) = {}
      BY <1>8, <2>1 DEF QueuedOnce
    <3>2. (awaiting' \cup woken') \cap JsQueued' = {}
      BY <1>4, <2>1, <2>2 DEF QueuedOnce
    <3>3. QED
      BY <1>2, <1>3, <1>4, <3>1, <3>2 DEF QueuedOnce
  <2>4. FlushWaits'
    BY <1>2, <1>3, <2>1 DEF FlushWaits
  <2>5. QED
    BY <1>5, <1>6, <2>3, <2>4
<1>11. QED
  BY <1>4, <1>9, <1>10
-----------------------------------------------------------------------------
(* A pass: a batch becomes rows, up to the first that cannot be serialised *)
LEMMA EnqueuedIs ==
    ASSUME NEW moved \in Seq(JsEvents), IsInjective(moved)
    PROVE  /\ Enqueued(moved) \in Seq(JsEvents) /\ IsInjective(Enqueued(moved))
           /\ ToSet(Enqueued(moved)) \subseteq ToSet(moved)
           /\ Enqueued(moved) # moved => ToSet(Enqueued(moved)) \cap Poison # {}
           /\ Logged(moved) \in Seq(JsEvents)
           /\ \A i \in DOMAIN Logged(moved) : moved[i] \in ToSet(Enqueued(moved))
<1> DEFINE bad == Unserializable(moved)
           m == Min(bad)
<1>1. DOMAIN moved = 1..Len(moved) /\ Len(moved) \in Nat /\ bad \subseteq DOMAIN moved
  BY DEF Unserializable
<1>2. CASE bad = {}
  <2>1. Enqueued(moved) = moved /\ Logged(moved) = moved
    BY <1>2 DEF Enqueued, Logged
  <2>2. QED
    BY <2>1 DEF ToSet
<1>3. CASE bad # {}
  <2>1. m \in bad
    <3>1. bad \in SUBSET Nat
      BY <1>1
    <3>2. QED
      BY <1>3, <3>1, MinOfPositions
  <2>2. m \in 1..Len(moved) /\ m \in Nat /\ m - 1 \in Nat /\ moved[m] \in Poison
    BY <1>1, <2>1 DEF Unserializable
  <2>3. Enqueued(moved) = FirstOnes(moved, m) /\ Logged(moved) = FirstOnes(moved, m - 1)
    BY <1>3 DEF Enqueued, Logged
  <2> HIDE DEF m, bad
  <2>4. /\ FirstOnes(moved, m) \in Seq(JsEvents) /\ IsInjective(FirstOnes(moved, m))
        /\ Len(FirstOnes(moved, m)) = (IF m <= Len(moved) THEN m ELSE Len(moved))
        /\ \A i \in DOMAIN FirstOnes(moved, m) : FirstOnes(moved, m)[i] = moved[i]
        /\ ToSet(FirstOnes(moved, m)) \subseteq ToSet(moved)
    BY <2>2, SetOfFirstOnes
  <2>5. /\ FirstOnes(moved, m - 1) \in Seq(JsEvents)
        /\ Len(FirstOnes(moved, m - 1)) = (IF m - 1 <= Len(moved) THEN m - 1 ELSE Len(moved))
    BY <2>2, SetOfFirstOnes
  <2> DEFINE e == FirstOnes(moved, m)
             l == FirstOnes(moved, m - 1)
  <2> HIDE DEF e, l
  <2>6. DOMAIN e = 1..m /\ DOMAIN l = 1..m - 1
    BY <2>2, <2>4, <2>5 DEF e, l
  <2>7. \A i \in 1..m : moved[i] \in ToSet(e)
    BY <2>4, <2>6 DEF e, ToSet
  <2>8. moved[m] \in ToSet(e) \cap Poison
    BY <2>2, <2>7
  <2>9. \A i \in DOMAIN l : moved[i] \in ToSet(e)
    BY <2>2, <2>6, <2>7
  <2>10. QED
    BY <2>3, <2>4, <2>5, <2>8, <2>9 DEF e, l
<1>4. QED
  BY <1>2, <1>3

PutLines(moved) == [i \in DOMAIN Logged(moved) |-> Line("put", moved[i])]

LEMMA PutLinesAre ==
    ASSUME NEW moved \in Seq(JsEvents), IsInjective(moved)
    PROVE  /\ PutLines(moved) \in Seq(LogLine)
           /\ \A line \in ToSet(PutLines(moved)) :
                 line.op = "put" /\ line.id \in ToSet(Enqueued(moved))
<1> DEFINE n == Len(Logged(moved))
<1>1. /\ Logged(moved) \in Seq(JsEvents) /\ ToSet(Enqueued(moved)) \subseteq JsEvents
      /\ \A i \in DOMAIN Logged(moved) : moved[i] \in ToSet(Enqueued(moved))
  BY EnqueuedIs DEF ToSet
<1>2. n \in Nat /\ DOMAIN Logged(moved) = 1..n
  BY <1>1
<1> HIDE DEF n
<1>3. /\ PutLines(moved) = [i \in 1..n |-> Line("put", moved[i])]
      /\ \A i \in 1..n : moved[i] \in ToSet(Enqueued(moved))
  BY <1>1, <1>2 DEF PutLines
<1>4. \A i \in 1..n : Line("put", moved[i]) \in LogLine
  BY <1>1, <1>3 DEF Line, LogLine
<1>5. PutLines(moved) \in Seq(LogLine)
  BY <1>2, <1>3, <1>4
<1>6. \A line \in ToSet(PutLines(moved)) : \E i \in 1..n : line = Line("put", moved[i])
  BY <1>3 DEF ToSet
<1>7. QED
  BY <1>3, <1>5, <1>6 DEF Line

LEMMA LogIs ==
    ASSUME JsTypes, NEW lines \in Seq(LogLine), Log(lines)
    PROVE  /\ appends' \in Seq(LogLine)
           /\ ToSet(appends') \subseteq ToSet(appends) \cup ToSet(lines)
           /\ ~file => appends' = appends
           /\ UNCHANGED <<snapshot, disk>>
<1>1. appends \in Seq(LogLine)
  BY DEF JsTypes
<1>2. appends \o lines \in Seq(LogLine) /\ ToSet(appends \o lines) = ToSet(appends) \cup ToSet(lines)
  BY <1>1, SetOfConcat
<1>3. QED
  BY <1>1, <1>2 DEF Log

LEMMA DueRowsAre ==
    ASSUME kept' \in Seq(JsEvents), NEW found \in DueRows
    PROVE  /\ [i \in DOMAIN found |-> kept'[found[i]]] \in Seq(JsEvents)
           /\ ToSet([i \in DOMAIN found |-> kept'[found[i]]]) \subseteq ToSet(kept')
<1> DEFINE at == {k \in DOMAIN kept' : kept'[k] \notin later}
           n == Min({JsBatchSize, Cardinality(at)})
           due == [i \in DOMAIN found |-> kept'[found[i]]]
<1>1. DOMAIN kept' = 1..Len(kept') /\ Len(kept') \in Nat /\ at \subseteq DOMAIN kept'
  OBVIOUS
<1>2. Cardinality(at) \in Nat
  <2>1. IsFiniteSet(DOMAIN kept')
    BY <1>1, FS_Interval
  <2>2. IsFiniteSet(at)
    BY <1>1, <2>1, FS_Subset
  <2>3. QED
    BY <2>2, FS_CardinalityType
<1>3. found \in [1..n -> at]
  BY DEF DueRows
<1>4. n \in Nat
  BY <1>2, MinOfTwo, JsSizesAssumption
<1> HIDE DEF n, at
<1>5. DOMAIN found = 1..n /\ \A i \in 1..n : found[i] \in DOMAIN kept'
  BY <1>1, <1>3
<1>6. due = [i \in 1..n |-> kept'[found[i]]] /\ \A i \in 1..n : kept'[found[i]] \in JsEvents
  BY <1>5
<1>7. due \in Seq(JsEvents) /\ DOMAIN due = 1..n
  BY <1>4, <1>6
<1>8. \A i \in DOMAIN due : due[i] \in ToSet(kept')
  BY <1>5, <1>6, <1>7 DEF ToSet
<1>9. QED
  BY <1>7, <1>8 DEF ToSet

BatchMoves(moved, put) ==
    /\ Buffered' = Buffered \ moved /\ Kept' = Kept \cup put
    /\ spilled' = spilled \cup (moved \ put)
    /\ put # moved => put \cap Poison # {}
    /\ \A line \in ToSet(appends') :
          line \notin ToSet(appends) => line.op = "put" /\ line.id \in put

PassStep ==
    LoopIsFree /\ JsPass /\ UNCHANGED <<optionVars, readyVars, callVars, replaced>>

LEMMA PassIs ==
    ASSUME JsInv, PassStep
    PROVE  /\ buffer' \in Seq(JsEvents) /\ IsInjective(buffer')
           /\ kept' \in Seq(JsEvents) /\ IsInjective(kept')
           /\ appends' \in Seq(LogLine)
           /\ ~file => appends' = appends
           /\ slice' \in Seq(JsEvents) /\ todo' \in Seq(JsEvents)
           /\ ToSet(slice') \cup ToSet(todo') \subseteq Kept' \cup Finished
           /\ awaiting' \cup woken' \subseteq awaiting \cup woken /\ awaiting' \cap woken' = {}
           /\ ready = "yes"
           /\ UNCHANGED <<pushedOut, snapshot, disk, sent, taken, arrived, rejectedByApi>>
           /\ \E moved \in SUBSET Buffered : \E put \in SUBSET moved : BatchMoves(moved, put)
<1> DEFINE moved == FirstOnes(buffer, JsBatchSize)
           rest == AfterFirst(buffer, JsBatchSize)
           put == Enqueued(moved)
<1>1. /\ Drain(moved) /\ ready = "yes" /\ slice = <<>>
      /\ UNCHANGED <<sent, taken, arrived, rejectedByApi>>
      /\ \/ UNCHANGED <<slice, todo>>
         \/ \E found \in DueRows : StartDeliveries([i \in DOMAIN found |-> kept'[found[i]]])
  <2>1. /\ Drain(moved) /\ ready = "yes" /\ UNCHANGED <<later, postVars, arrived, rejectedByApi>>
        /\ IF put # moved
           THEN UNCHANGED <<gate, passVars>>
           ELSE /\ gate' = Current(gate)
                /\ \E found \in DueRows :
                      IF gate'.state = "open" \/ found = <<>>
                      THEN UNCHANGED passVars
                      ELSE StartDeliveries([i \in DOMAIN found |-> kept'[found[i]]])
    BY DEF PassStep, JsPass
  <2> HIDE DEF moved, put
  <2>2. UNCHANGED passVars \/ \E found \in DueRows : StartDeliveries([i \in DOMAIN found |-> kept'[found[i]]])
    BY <2>1
  <2>3. slice = <<>>
    BY DEF PassStep, LoopIsFree
  <2>4. QED
    BY <2>1, <2>2, <2>3 DEF passVars, postVars
<1>2. /\ buffer \in Seq(JsEvents) /\ IsInjective(buffer) /\ kept \in Seq(JsEvents) /\ IsInjective(kept)
      /\ Buffered \cap Kept = {} /\ todo \in Seq(JsEvents) /\ ToSet(todo) \subseteq Kept \cup Finished
      /\ awaiting \cap woken = {}
  BY DEF JsInv, JsTypes, QueuedOnce, RequestsHaveRows
<1>3. /\ moved \in Seq(JsEvents) /\ rest \in Seq(JsEvents) /\ IsInjective(moved) /\ IsInjective(rest)
      /\ Buffered = ToSet(moved) \cup ToSet(rest) /\ ToSet(moved) \cap ToSet(rest) = {}
  BY <1>2, SetOfFirstOnes, JsSizesAssumption DEF Buffered
<1>4. /\ buffer' = rest /\ UNCHANGED pushedOut
      /\ IF moved = <<>> THEN UNCHANGED <<waiters, awaiting, woken>> ELSE NotifyRoom(buffer')
      /\ kept' = kept \o put /\ Log(PutLines(moved))
      /\ spilled' = spilled \cup (ToSet(moved) \ ToSet(put))
  BY <1>1 DEF Drain, PutLines
<1> HIDE DEF moved, rest
<1>5. /\ put \in Seq(JsEvents) /\ IsInjective(put) /\ ToSet(put) \subseteq ToSet(moved)
      /\ put # moved => ToSet(put) \cap Poison # {}
  BY <1>3, EnqueuedIs
<1> HIDE DEF put
<1>6. kept' \in Seq(JsEvents) /\ IsInjective(kept') /\ Kept' = Kept \cup ToSet(put)
  <2>1. Kept = ToSet(kept) /\ ToSet(kept) \cap ToSet(put) = {}
    BY <1>2, <1>3, <1>5 DEF Kept
  <2>2. /\ kept \o put \in Seq(JsEvents) /\ IsInjective(kept \o put)
        /\ ToSet(kept \o put) = ToSet(kept) \cup ToSet(put)
    BY <1>2, <1>5, <2>1, SetOfConcat
  <2>3. QED
    BY <1>4, <2>1, <2>2 DEF Kept
<1>7. /\ PutLines(moved) \in Seq(LogLine)
      /\ \A line \in ToSet(PutLines(moved)) : line.op = "put" /\ line.id \in ToSet(put)
  BY <1>3, PutLinesAre DEF put
<1>8. /\ appends' \in Seq(LogLine)
      /\ ~file => appends' = appends
      /\ ToSet(appends') \subseteq ToSet(appends) \cup ToSet(PutLines(moved))
      /\ UNCHANGED <<snapshot, disk>>
  BY <1>4, <1>7, LogIs DEF JsInv
<1>9. awaiting' \cup woken' \subseteq awaiting \cup woken /\ awaiting' \cap woken' = {}
  <2>1. CASE UNCHANGED <<awaiting, woken>>
    BY <1>2, <2>1
  <2>2. CASE /\ awaiting' = awaiting \ {Head(waiters)}
             /\ woken' = woken \cup ({Head(waiters)} \cap awaiting)
    BY <1>2, <2>2
  <2>3. QED
    BY <1>4, <2>1, <2>2 DEF NotifyRoom
<1>10. /\ slice' \in Seq(JsEvents) /\ todo' \in Seq(JsEvents)
       /\ ToSet(slice') \cup ToSet(todo') \subseteq Kept' \cup Finished
  <2>1. CASE UNCHANGED <<slice, todo>>
    <3>1. slice' = <<>> /\ todo' = todo
      BY <1>1, <2>1
    <3>2. QED
      BY <1>2, <1>6, <3>1, EmptySet
  <2>2. ASSUME NEW found \in DueRows, StartDeliveries([i \in DOMAIN found |-> kept'[found[i]]])
        PROVE  /\ slice' \in Seq(JsEvents) /\ todo' \in Seq(JsEvents)
               /\ ToSet(slice') \cup ToSet(todo') \subseteq Kept' \cup Finished
    <3> DEFINE due == [i \in DOMAIN found |-> kept'[found[i]]]
    <3>1. due \in Seq(JsEvents) /\ ToSet(due) \subseteq Kept'
      BY <1>6, DueRowsAre DEF Kept
    <3>2. slice' = FirstOnes(due, JsConcurrent) /\ todo' = AfterFirst(due, JsConcurrent)
      BY <2>2 DEF StartDeliveries
    <3> HIDE DEF due
    <3>3. QED
      BY <3>1, <3>2, SetOfFirstOnes, JsSizesAssumption
  <2>3. QED
    BY <1>1, <2>1, <2>2
<1>11. \E b \in SUBSET Buffered : \E r \in SUBSET b : BatchMoves(b, r)
  <2>1. Buffered' = Buffered \ ToSet(moved)
    BY <1>3, <1>4 DEF Buffered
  <2>2. ToSet(moved) \in SUBSET Buffered /\ ToSet(put) \in SUBSET ToSet(moved)
    BY <1>3, <1>5
  <2>3. ToSet(put) # ToSet(moved) => ToSet(put) \cap Poison # {}
    BY <1>5
  <2>4. \A line \in ToSet(appends') :
           line \notin ToSet(appends) => line.op = "put" /\ line.id \in ToSet(put)
    BY <1>7, <1>8
  <2>5. BatchMoves(ToSet(moved), ToSet(put))
    BY <1>4, <1>6, <2>1, <2>3, <2>4 DEF BatchMoves
  <2>6. QED
    BY <2>2, <2>5
<1>12. QED
  BY <1>1, <1>3, <1>4, <1>6, <1>8, <1>9, <1>10, <1>11

LEMMA PassKeepsJsInv == ASSUME JsInv, PassStep PROVE JsInv'
<1> USE DEF JsInv
<1>1. /\ buffer' \in Seq(JsEvents) /\ IsInjective(buffer')
      /\ kept' \in Seq(JsEvents) /\ IsInjective(kept')
      /\ appends' \in Seq(LogLine)
      /\ ~file => appends' = appends
      /\ slice' \in Seq(JsEvents) /\ todo' \in Seq(JsEvents)
      /\ ToSet(slice') \cup ToSet(todo') \subseteq Kept' \cup Finished
      /\ awaiting' \cup woken' \subseteq awaiting \cup woken /\ awaiting' \cap woken' = {}
      /\ ready = "yes"
      /\ UNCHANGED <<pushedOut, snapshot, disk, sent, taken, arrived, rejectedByApi>>
  BY PassIs
<1>2. PICK moved \in SUBSET Buffered : \E put \in SUBSET moved : BatchMoves(moved, put)
  BY PassIs
<1>3. PICK put \in SUBSET moved : BatchMoves(moved, put)
  BY <1>2
<1> USE DEF BatchMoves
<1>4. UNCHANGED <<policy, file, ready, overlooked, caller, flushed>>
  BY DEF PassStep, optionVars, readyVars, callVars
<1>5. OnDisk' = OnDisk /\ Finished' = Finished
  BY <1>1 DEF OnDisk, Finished
<1>6. JsTypes'
  BY <1>1, <1>4 DEF JsTypes
<1>7. JsQueued' \subseteq JsQueued /\ Buffered \cap (Kept \cup OnDisk \cup Finished) = {}
  BY <1>1, <1>3, <1>5 DEF JsQueued, Finished, QueuedOnce
<1>8. QueuedOnce'
  <2>1. Buffered' \cap (Kept' \cup OnDisk' \cup pushedOut' \cup Finished' \cup spilled') = {}
    BY <1>1, <1>3, <1>5 DEF QueuedOnce
  <2>2. (awaiting' \cup woken') \cap JsQueued' = {}
    BY <1>1, <1>7 DEF QueuedOnce
  <2>3. QED
    BY <1>1, <2>1, <2>2 DEF QueuedOnce
<1>9. RequestsHaveRows'
  BY <1>1, <1>3, <1>5 DEF RequestsHaveRows
<1>10. ReplayComesFirst'
  BY <1>1, <1>4 DEF ReplayComesFirst
<1>11. LinesAreTrue'
  BY <1>3, <1>5, <1>7 DEF LinesAreTrue
<1>12. LogFollowsRows'
  BY <1>1, <1>3, <1>4, <1>5, <1>7 DEF LogFollowsRows
<1>13. FlushWaits'
  <2>1. CASE put = moved
    BY <1>1, <1>3, <1>4, <1>5, <2>1 DEF FlushWaits
  <2>2. CASE put # moved
    <3>1. Kept' \cap Poison # {}
      BY <1>3, <2>2
    <3>2. QED
      BY <1>1, <1>4, <1>5, <3>1 DEF FlushWaits
  <2>3. QED
    BY <2>1, <2>2
<1>14. QED
  BY <1>6, <1>8, <1>9, <1>10, <1>11, <1>12, <1>13
-----------------------------------------------------------------------------
(* Deliveries start for rows.                                              *)
DeliverStep ==
    DeliverOne
    /\ UNCHANGED <<optionVars, bufferVars, kept, later, logVars, readyVars, callVars, replaced, endVars>>

SliceStep ==
    NextSlice
    /\ UNCHANGED <<optionVars, bufferVars, kept, later, logVars, readyVars, gate, postVars, callVars,
                   replaced, endVars>>

LEMMA StartKeepsJsInv == ASSUME JsInv, DeliverStep \/ SliceStep PROVE JsInv'
<1> USE DEF JsInv
<1>1. /\ UNCHANGED <<policy, file, buffer, awaiting, woken, pushedOut, kept, appends, snapshot, disk>>
      /\ UNCHANGED <<ready, overlooked, caller, flushed, arrived, rejectedByApi, spilled>>
  BY DEF DeliverStep, SliceStep, optionVars, bufferVars, logVars, readyVars, callVars, endVars
<1>2. /\ Buffered' = Buffered /\ Kept' = Kept /\ OnDisk' = OnDisk /\ Finished' = Finished
      /\ JsQueued' = JsQueued
  BY <1>1 DEF Buffered, Kept, OnDisk, Finished, JsQueued
<1>3. QueuedOnce' /\ LinesAreTrue' /\ LogFollowsRows' /\ FlushWaits'
  BY <1>1, <1>2 DEF QueuedOnce, LinesAreTrue, LogFollowsRows, FlushWaits
<1>4. /\ slice' \in Seq(JsEvents) /\ todo' \in Seq(JsEvents)
      /\ ToSet(slice') \cup ToSet(todo') \subseteq ToSet(slice) \cup ToSet(todo)
      /\ sent' \in [JsEvents -> Nat] /\ taken' = taken
      /\ \A e \in JsEvents : sent'[e] > 0 => sent[e] > 0 \/ e \in (Kept \cup Finished) \ Poison
      /\ slice = <<>> /\ todo = <<>> => slice' = <<>> /\ todo' = <<>> /\ sent' = sent
  <2>1. /\ slice \in Seq(JsEvents) /\ todo \in Seq(JsEvents) /\ sent \in [JsEvents -> Nat]
        /\ ToSet(slice) \cup ToSet(todo) \subseteq Kept \cup Finished
    BY DEF JsTypes, RequestsHaveRows
  <2>2. CASE DeliverStep
    <3>1. /\ slice # <<>> /\ slice' = Tail(slice) /\ taken' = taken
          /\ \/ todo' = <<>> /\ sent' = sent
             \/ /\ todo' = todo
                /\ sent' = sent \/ (Head(slice) \notin Poison /\ sent' = [sent EXCEPT ![Head(slice)] = @ + 1])
      BY <2>2 DEF DeliverStep, DeliverOne, PassEnds
    <3>2. /\ Head(slice) \in JsEvents /\ Tail(slice) \in Seq(JsEvents)
          /\ ToSet(slice) = {Head(slice)} \cup ToSet(Tail(slice))
      BY <2>1, <3>1, SetOfTail
    <3>3. todo' \in Seq(JsEvents) /\ ToSet(todo') \subseteq ToSet(todo)
      <4>1. todo' \in {todo, <<>>} /\ <<>> \in Seq(JsEvents)
        BY <3>1
      <4>2. QED
        BY <2>1, <4>1, EmptySet
    <3>4. /\ sent' \in [JsEvents -> Nat]
          /\ \A e \in JsEvents : sent'[e] > 0 => sent[e] > 0 \/ e \in (Kept \cup Finished) \ Poison
      <4>1. CASE sent' = sent
        BY <2>1, <4>1
      <4>2. CASE Head(slice) \notin Poison /\ sent' = [sent EXCEPT ![Head(slice)] = @ + 1]
        <5> DEFINE h == Head(slice)
        <5>1. h \in JsEvents /\ h \in (Kept \cup Finished) \ Poison /\ sent' = [sent EXCEPT ![h] = @ + 1]
          BY <2>1, <3>2, <4>2
        <5> HIDE DEF h
        <5>2. sent' \in [JsEvents -> Nat] /\ \A e \in JsEvents : e # h => sent'[e] = sent[e]
          BY <2>1, <5>1
        <5>3. QED
          BY <5>1, <5>2
      <4>3. QED
        BY <3>1, <4>1, <4>2
    <3>5. QED
      BY <3>1, <3>2, <3>3, <3>4
  <2>3. CASE SliceStep
    <3>1. /\ slice = <<>> /\ sent' = sent /\ taken' = taken
          /\ \/ todo = <<>> /\ todo' = <<>> /\ slice' = slice
             \/ /\ todo # <<>>
                /\ slice' = FirstOnes(todo, JsConcurrent) /\ todo' = AfterFirst(todo, JsConcurrent)
      BY <2>3 DEF SliceStep, NextSlice, PassEnds, postVars
    <3>2. JsConcurrent \in Nat
      BY JsSizesAssumption
    <3>3. CASE todo = <<>> /\ todo' = <<>> /\ slice' = slice
      BY <2>1, <3>1, <3>3
    <3>4. CASE /\ todo # <<>>
               /\ slice' = FirstOnes(todo, JsConcurrent) /\ todo' = AfterFirst(todo, JsConcurrent)
      <4>1. /\ slice' \in Seq(JsEvents) /\ todo' \in Seq(JsEvents)
            /\ ToSet(todo) = ToSet(slice') \cup ToSet(todo')
        BY <2>1, <3>2, <3>4, SetOfFirstOnes
      <4>2. QED
        BY <2>1, <3>1, <3>4, <4>1
    <3>5. QED
      BY <3>1, <3>3, <3>4
  <2>4. QED
    BY <2>2, <2>3
<1>5. JsTypes'
  BY <1>1, <1>4 DEF JsTypes
<1>6. RequestsHaveRows'
  <2>1. \A e \in JsEvents : sent[e] \in Nat /\ taken[e] \in Nat /\ sent'[e] \in Nat
    BY <1>4 DEF JsTypes
  <2>2. ASSUME NEW e \in JsEvents, sent'[e] + taken'[e] > 0 PROVE e \in (Kept \cup Finished) \ Poison
    <3>1. CASE sent[e] + taken[e] > 0
      BY <3>1 DEF RequestsHaveRows
    <3>2. CASE ~(sent[e] + taken[e] > 0)
      <4>1. ~(sent[e] > 0) /\ sent'[e] > 0
        BY <1>4, <2>1, <2>2, <3>2
      <4>2. QED
        BY <1>4, <4>1
    <3>3. QED
      BY <3>1, <3>2
  <2>3. QED
    BY <1>1, <1>2, <1>4, <2>2 DEF RequestsHaveRows
<1>7. ReplayComesFirst'
  <2>1. ASSUME ready # "yes" PROVE slice' = <<>> /\ todo' = <<>> /\ Requested' = {}
    BY <1>4, <2>1 DEF ReplayComesFirst, Requested
  <2>2. QED
    BY <1>1, <2>1 DEF ReplayComesFirst
<1>8. QED
  BY <1>3, <1>5, <1>6, <1>7

(* The API and its answers                                                 *)
LEMMA TakesKeepsJsInv == ASSUME JsInv, NEW e \in JsEvents, JsApiTakes(e) PROVE JsInv'
<1> USE DEF JsInv
<1>1. /\ UNCHANGED <<policy, file, buffer, awaiting, woken, pushedOut, kept, appends, snapshot, disk>>
      /\ UNCHANGED <<ready, overlooked, caller, flushed, rejectedByApi, spilled, slice, todo>>
      /\ sent[e] > 0 /\ sent' = [sent EXCEPT ![e] = @ - 1] /\ taken' = [taken EXCEPT ![e] = @ + 1]
      /\ arrived' = arrived \cup {e}
  BY DEF JsApiTakes, ApiArrival, optionVars, bufferVars, logVars, readyVars, callVars, passVars
<1>2. Buffered' = Buffered /\ Kept' = Kept /\ OnDisk' = OnDisk /\ Finished' = Finished \cup {e}
  BY <1>1 DEF Buffered, Kept, OnDisk, Finished
<1>3. /\ sent \in [JsEvents -> Nat] /\ taken \in [JsEvents -> Nat]
      /\ sent' \in [JsEvents -> Nat] /\ taken' \in [JsEvents -> Nat]
      /\ \A f \in JsEvents : sent'[f] + taken'[f] = sent[f] + taken[f] /\ (f # e => taken'[f] = taken[f])
      /\ sent[e] + taken[e] > 0
  <2>1. sent \in [JsEvents -> Nat] /\ taken \in [JsEvents -> Nat]
    BY DEF JsTypes
  <2>2. /\ sent[e] \in Nat /\ sent[e] > 0 /\ taken[e] \in Nat
        /\ sent' = [sent EXCEPT ![e] = sent[e] - 1] /\ taken' = [taken EXCEPT ![e] = taken[e] + 1]
    BY <1>1, <2>1
  <2>3. sent' \in [JsEvents -> Nat] /\ taken' \in [JsEvents -> Nat]
    BY <2>1, <2>2
  <2>4. /\ sent'[e] = sent[e] - 1 /\ taken'[e] = taken[e] + 1
        /\ \A f \in JsEvents : f # e => sent'[f] = sent[f] /\ taken'[f] = taken[f]
    BY <2>1, <2>2
  <2>5. \A f \in JsEvents : sent[f] \in Nat /\ taken[f] \in Nat
    BY <2>1
  <2>6. QED
    BY <2>1, <2>2, <2>3, <2>4, <2>5
<1>4. e \in (Kept \cup Finished) \ Poison
  BY <1>3 DEF RequestsHaveRows
<1>5. JsTypes'
  BY <1>1, <1>3 DEF JsTypes
<1>6. JsQueued' = JsQueued
  BY <1>1, <1>2, <1>4 DEF JsQueued, Finished
<1>7. QueuedOnce'
  BY <1>1, <1>2, <1>4, <1>6 DEF QueuedOnce
<1>8. RequestsHaveRows'
  BY <1>1, <1>2, <1>3 DEF RequestsHaveRows
<1>9. ReplayComesFirst'
  <2>1. Requested' = Requested
    BY <1>3 DEF Requested
  <2>2. QED
    BY <1>1, <2>1 DEF ReplayComesFirst
<1>10. LinesAreTrue' /\ LogFollowsRows' /\ FlushWaits'
  BY <1>1, <1>2 DEF LinesAreTrue, LogFollowsRows, FlushWaits
<1>11. QED
  BY <1>5, <1>7, <1>8, <1>9, <1>10

RowGoes(e) == Kept' = Kept \ {e} /\ e \in Finished'

LEMMA AcksRow ==
    ASSUME JsInv, NEW e \in JsEvents, AckRow(e)
    PROVE  /\ kept' \in Seq(JsEvents) /\ IsInjective(kept') /\ Kept' = Kept \ {e}
           /\ appends' \in Seq(LogLine)
           /\ ~file => appends' = appends
           /\ \A line \in ToSet(appends') : line \notin ToSet(appends) => line = Line("ack", e)
           /\ UNCHANGED <<snapshot, disk>>
<1>1. kept' = Without(kept, e) /\ Log(<<Line("ack", e)>>)
  BY DEF AckRow
<1>2. <<Line("ack", e)>> \in Seq(LogLine) /\ ToSet(<<Line("ack", e)>>) = {Line("ack", e)}
  BY DEF Line, LogLine, ToSet
<1>3. kept \in Seq(JsEvents) /\ IsInjective(kept)
  BY DEF JsInv, JsTypes
<1>4. /\ appends' \in Seq(LogLine)
      /\ ToSet(appends') \subseteq ToSet(appends) \cup {Line("ack", e)}
      /\ ~file => appends' = appends
      /\ UNCHANGED <<snapshot, disk>>
  BY <1>1, <1>2, LogIs DEF JsInv
<1>5. kept' \in Seq(JsEvents) /\ IsInjective(kept') /\ Kept' = Kept \ {e}
  BY <1>1, <1>3, SetOfWithout DEF Kept
<1>6. QED
  BY <1>4, <1>5

LEMMA MarksRow ==
    ASSUME JsInv, NEW e \in JsEvents, MarkRetry(e)
    PROVE  /\ kept' = kept
           /\ appends' \in Seq(LogLine)
           /\ ~file => appends' = appends
           /\ \A line \in ToSet(appends') : line \notin ToSet(appends) => line = Line("retry", e)
           /\ UNCHANGED <<snapshot, disk>>
<1>1. <<Line("retry", e)>> \in Seq(LogLine) /\ ToSet(<<Line("retry", e)>>) = {Line("retry", e)}
  BY DEF Line, LogLine, ToSet
<1>2. CASE Log(<<Line("retry", e)>>)
  <2>1. /\ appends' \in Seq(LogLine)
        /\ ToSet(appends') \subseteq ToSet(appends) \cup {Line("retry", e)}
        /\ ~file => appends' = appends
        /\ UNCHANGED <<snapshot, disk>>
    BY <1>1, <1>2, LogIs DEF JsInv
  <2>2. QED
    BY <2>1 DEF MarkRetry
<1>3. CASE UNCHANGED logVars
  BY <1>3 DEF logVars, JsInv, JsTypes, MarkRetry
<1>4. QED
  BY <1>2, <1>3 DEF MarkRetry

LEMMA AnswerIs ==
    ASSUME JsInv, NEW e \in JsEvents, JsAnswer(e)
    PROVE  /\ UNCHANGED <<policy, file, buffer, awaiting, woken, pushedOut, snapshot, disk>>
           /\ UNCHANGED <<ready, overlooked, caller, flushed, slice, todo, arrived, spilled>>
           /\ ready = "yes" /\ e \in (Kept \cup Finished) \ Poison
           /\ sent' \in [JsEvents -> Nat] /\ taken' \in [JsEvents -> Nat]
           /\ \A f \in JsEvents : /\ sent'[f] + taken'[f] > 0 => sent[f] + taken[f] > 0
                                  /\ taken'[f] > 0 => taken[f] > 0
           /\ kept' \in Seq(JsEvents) /\ IsInjective(kept') /\ (Kept' = Kept \/ RowGoes(e))
           /\ rejectedByApi' \in {rejectedByApi, rejectedByApi \cup {e}}
           /\ rejectedByApi' # rejectedByApi => RowGoes(e)
           /\ appends' \in Seq(LogLine)
           /\ ~file => appends' = appends
           /\ \A line \in ToSet(appends') : line \notin ToSet(appends) =>
                 \/ line.op = "retry"
                 \/ line.op = "ack" /\ line.id = e /\ RowGoes(e)
<1> USE DEF JsInv
<1>1. /\ UNCHANGED <<policy, file, buffer, awaiting, woken, pushedOut>>
      /\ UNCHANGED <<ready, overlooked, caller, flushed, slice, todo, arrived, spilled>>
      /\ Delivered(e) \/ FailedForNow(e) \/ RefusedForGood(e)
  BY DEF JsAnswer, optionVars, bufferVars, readyVars, passVars, callVars
<1>2. sent \in [JsEvents -> Nat] /\ taken \in [JsEvents -> Nat] /\ kept \in Seq(JsEvents) /\ IsInjective(kept)
  BY DEF JsTypes
<1>3. \/ taken[e] > 0 /\ taken' = [taken EXCEPT ![e] = @ - 1] /\ sent' = sent
      \/ sent[e] > 0 /\ sent' = [sent EXCEPT ![e] = @ - 1] /\ taken' = taken
  BY <1>1 DEF Delivered, FailedForNow, RefusedForGood, RequestEnds
<1>4. /\ sent[e] + taken[e] > 0
      /\ sent' \in [JsEvents -> Nat] /\ taken' \in [JsEvents -> Nat]
      /\ \A f \in JsEvents : /\ sent'[f] + taken'[f] > 0 => sent[f] + taken[f] > 0
                             /\ taken'[f] > 0 => taken[f] > 0
  <2>1. \A f \in JsEvents : sent[f] \in Nat /\ taken[f] \in Nat
    BY <1>2
  <2>2. CASE taken[e] > 0 /\ taken' = [taken EXCEPT ![e] = @ - 1] /\ sent' = sent
    <3>1. /\ taken' \in [JsEvents -> Nat] /\ taken'[e] = taken[e] - 1
          /\ \A f \in JsEvents : f # e => taken'[f] = taken[f]
      BY <1>2, <2>1, <2>2
    <3>2. QED
      BY <1>2, <2>1, <2>2, <3>1
  <2>3. CASE sent[e] > 0 /\ sent' = [sent EXCEPT ![e] = @ - 1] /\ taken' = taken
    <3>1. /\ sent' \in [JsEvents -> Nat] /\ sent'[e] = sent[e] - 1
          /\ \A f \in JsEvents : f # e => sent'[f] = sent[f]
      BY <1>2, <2>1, <2>3
    <3>2. QED
      BY <1>2, <2>1, <2>3, <3>1
  <2>4. QED
    BY <1>3, <2>2, <2>3
<1>5. e \in (Kept \cup Finished) \ Poison
  BY <1>4 DEF RequestsHaveRows
<1>6. ready = "yes"
  BY <1>4 DEF ReplayComesFirst, Requested
<1>7. CASE FailedForNow(e)
  <2>1. MarkRetry(e) /\ rejectedByApi' = rejectedByApi
    BY <1>7 DEF FailedForNow
  <2>2. /\ kept' = kept
        /\ appends' \in Seq(LogLine)
        /\ ~file => appends' = appends
        /\ \A line \in ToSet(appends') : line \notin ToSet(appends) => line = Line("retry", e)
        /\ UNCHANGED <<snapshot, disk>>
    BY <2>1, MarksRow
  <2>3. Kept' = Kept /\ Line("retry", e).op = "retry"
    BY <2>2 DEF Kept, Line
  <2>4. QED
    BY <1>1, <1>2, <1>4, <1>5, <1>6, <2>1, <2>2, <2>3
<1>8. CASE Delivered(e) \/ RefusedForGood(e)
  <2>1. /\ AckRow(e) /\ rejectedByApi' \in {rejectedByApi, rejectedByApi \cup {e}}
        /\ taken[e] > 0 \/ e \in rejectedByApi'
    BY <1>8 DEF Delivered, RefusedForGood
  <2>2. e \in Finished'
    BY <1>1, <2>1 DEF RequestsHaveRows, Finished
  <2>3. /\ kept' \in Seq(JsEvents) /\ IsInjective(kept') /\ Kept' = Kept \ {e}
        /\ appends' \in Seq(LogLine)
        /\ ~file => appends' = appends
        /\ \A line \in ToSet(appends') : line \notin ToSet(appends) => line = Line("ack", e)
        /\ UNCHANGED <<snapshot, disk>>
    BY <2>1, AcksRow
  <2>4. RowGoes(e) /\ Line("ack", e).op = "ack" /\ Line("ack", e).id = e
    BY <2>2, <2>3 DEF RowGoes, Line
  <2>5. QED
    BY <1>1, <1>4, <1>5, <1>6, <2>1, <2>3, <2>4
<1>9. QED
  BY <1>1, <1>7, <1>8

LEMMA AnswerKeepsJsInv == ASSUME JsInv, NEW e \in JsEvents, JsAnswer(e) PROVE JsInv'
<1> USE DEF JsInv
<1>1. /\ UNCHANGED <<policy, file, buffer, awaiting, woken, pushedOut, snapshot, disk>>
      /\ UNCHANGED <<ready, overlooked, caller, flushed, slice, todo, arrived, spilled>>
      /\ ready = "yes" /\ e \in (Kept \cup Finished) \ Poison
      /\ sent' \in [JsEvents -> Nat] /\ taken' \in [JsEvents -> Nat]
      /\ \A f \in JsEvents : /\ sent'[f] + taken'[f] > 0 => sent[f] + taken[f] > 0
                             /\ taken'[f] > 0 => taken[f] > 0
      /\ kept' \in Seq(JsEvents) /\ IsInjective(kept') /\ (Kept' = Kept \/ RowGoes(e))
      /\ rejectedByApi' \in {rejectedByApi, rejectedByApi \cup {e}}
      /\ appends' \in Seq(LogLine)
      /\ ~file => appends' = appends
      /\ \A line \in ToSet(appends') : line \notin ToSet(appends) =>
            \/ line.op = "retry"
            \/ line.op = "ack" /\ line.id = e /\ RowGoes(e)
  BY AnswerIs
<1>2. /\ Buffered' = Buffered /\ OnDisk' = OnDisk
      /\ Finished \subseteq Finished' /\ Finished' \subseteq Finished \cup {e}
      /\ Kept' \subseteq Kept /\ Kept \subseteq Kept' \cup Finished'
      /\ \A f \in Kept : f \in Poison => f \in Kept'
  BY <1>1 DEF Buffered, OnDisk, Finished, RowGoes
<1>3. JsTypes'
  BY <1>1 DEF JsTypes
<1>4. JsQueued' \subseteq JsQueued
  BY <1>1, <1>2 DEF JsQueued, Finished
<1>5. QueuedOnce'
  BY <1>1, <1>2, <1>4 DEF QueuedOnce
<1>6. RequestsHaveRows'
  BY <1>1, <1>2 DEF RequestsHaveRows
<1>7. ReplayComesFirst'
  BY <1>1 DEF ReplayComesFirst
<1>8. LinesAreTrue'
  <2>1. ASSUME NEW line \in ToSet(appends'), line \in ToSet(appends)
        PROVE  /\ line.op = "ack" => line.id \in Finished' \ Kept'
               /\ line.op = "put" => line.id \in Kept' \cup Finished'
    BY <1>2, <2>1 DEF LinesAreTrue
  <2>2. ASSUME NEW line \in ToSet(appends'), line \notin ToSet(appends)
        PROVE  /\ line.op = "ack" => line.id \in Finished' \ Kept'
               /\ line.op = "put" => line.id \in Kept' \cup Finished'
    BY <1>1, <2>2 DEF RowGoes
  <2>3. QED
    BY <2>1, <2>2 DEF LinesAreTrue
<1>9. LogFollowsRows'
  BY <1>1, <1>2 DEF LogFollowsRows
<1>10. FlushWaits'
  BY <1>1, <1>2 DEF FlushWaits
<1>11. QED
  BY <1>3, <1>5, <1>6, <1>7, <1>8, <1>9, <1>10
-----------------------------------------------------------------------------
(* The log                                                                 *)
LogFrame ==
    /\ UNCHANGED <<policy, file, buffer, awaiting, woken, pushedOut, slice, todo, sent, taken>>
    /\ UNCHANGED <<caller, flushed, arrived, rejectedByApi, spilled>>

LEMMA DiskIs ==
    ASSUME Disk
    PROVE  /\ LogFrame
           /\ \/ AppendLands /\ UNCHANGED <<kept, ready, overlooked>>
              \/ CompactionLands /\ UNCHANGED <<kept, ready, overlooked>>
              \/ WriteFails /\ UNCHANGED <<kept, ready, overlooked>>
              \/ Replay /\ UNCHANGED <<appends, snapshot, disk>>
              \/ ReplaySeesNothing /\ UNCHANGED <<appends, snapshot, disk>>
              \/ ReplayFails /\ UNCHANGED <<appends, snapshot, disk>>
BY DEF Disk, Writing, LogFrame, optionVars, bufferVars, logVars, readyVars, passVars, postVars,
       callVars, endVars

LEMMA FrameIs ==
    ASSUME LogFrame
    PROVE  Buffered' = Buffered /\ Finished' = Finished /\ Requested' = Requested
BY DEF LogFrame, Buffered, Finished, Requested

(* A line appends a row of an event, or takes one of a settled event away. *)
LEMMA AppendIs ==
    ASSUME JsInv, AppendLands
    PROVE  /\ ready = "yes" /\ file /\ ~snapshot.on
           /\ appends' \in Seq(LogLine) /\ ToSet(appends') \subseteq ToSet(appends)
           /\ disk' \in Seq(JsEvents) /\ IsInjective(disk')
           /\ \/ OnDisk' = OnDisk
              \/ \E e \in JsEvents : e \in Kept \cup Finished /\ OnDisk' = OnDisk \cup {e}
              \/ \E e \in JsEvents : e \in Finished \ Kept /\ OnDisk' = OnDisk \ {e}
           /\ snapshot' = snapshot \/ snapshot' = [on |-> TRUE, rows |-> kept]
<1> USE DEF JsInv
<1> DEFINE line == Head(appends)
<1>1. /\ appends # <<>> /\ ~snapshot.on /\ appends' = Tail(appends) /\ disk' = Replayed(line)
      /\ snapshot' = snapshot \/ snapshot' = [on |-> TRUE, rows |-> kept]
  BY DEF AppendLands
<1>2. /\ appends \in Seq(LogLine) /\ disk \in Seq(JsEvents) /\ IsInjective(disk) /\ file \in BOOLEAN
  BY DEF JsTypes
<1>3. /\ line \in LogLine /\ appends' \in Seq(LogLine)
      /\ ToSet(appends) = {line} \cup ToSet(appends')
  BY <1>1, <1>2, SetOfTail
<1> HIDE DEF line
<1>4. ready = "yes" /\ file
  BY <1>1, <1>2 DEF ReplayComesFirst
<1>5. /\ line.op \in {"put", "ack", "retry"} /\ line.id \in JsEvents
      /\ line.op = "ack" => line.id \in Finished \ Kept
      /\ line.op = "put" => line.id \in Kept \cup Finished
  BY <1>3 DEF LinesAreTrue, LogLine
<1>6. CASE disk' = disk
  BY <1>1, <1>2, <1>3, <1>4, <1>6 DEF OnDisk
<1>7. CASE line.op = "put" /\ line.id \notin OnDisk /\ disk' = Append(disk, line.id)
  <2>1. disk' \in Seq(JsEvents) /\ IsInjective(disk') /\ OnDisk' = OnDisk \cup {line.id}
    BY <1>2, <1>5, <1>7, SetOfAppend DEF OnDisk
  <2>2. QED
    BY <1>1, <1>3, <1>4, <1>5, <1>7, <2>1
<1>8. CASE line.op = "ack" /\ disk' = Without(disk, line.id)
  <2>1. disk' \in Seq(JsEvents) /\ IsInjective(disk') /\ OnDisk' = OnDisk \ {line.id}
    BY <1>2, <1>8, SetOfWithout DEF OnDisk
  <2>2. QED
    BY <1>1, <1>3, <1>4, <1>5, <1>8, <2>1
<1>9. QED
  BY <1>1, <1>5, <1>6, <1>7, <1>8 DEF Replayed

LEMMA AppendKeepsJsInv ==
    ASSUME JsInv, LogFrame, AppendLands, UNCHANGED <<kept, ready, overlooked>>
    PROVE  JsInv'
<1> USE DEF JsInv
<1>1. /\ ready = "yes" /\ file /\ ~snapshot.on
      /\ appends' \in Seq(LogLine) /\ ToSet(appends') \subseteq ToSet(appends)
      /\ disk' \in Seq(JsEvents) /\ IsInjective(disk')
      /\ \/ OnDisk' = OnDisk
         \/ \E e \in JsEvents : e \in Kept \cup Finished /\ OnDisk' = OnDisk \cup {e}
         \/ \E e \in JsEvents : e \in Finished \ Kept /\ OnDisk' = OnDisk \ {e}
      /\ snapshot' = snapshot \/ snapshot' = [on |-> TRUE, rows |-> kept]
  BY AppendIs
<1>2. /\ UNCHANGED <<policy, file, buffer, awaiting, woken, pushedOut, slice, todo, sent, taken>>
      /\ UNCHANGED <<caller, flushed, arrived, rejectedByApi, spilled, kept, ready, overlooked>>
  BY DEF LogFrame
<1>3. /\ Buffered' = Buffered /\ Finished' = Finished /\ Requested' = Requested /\ Kept' = Kept
      /\ OnDisk' \subseteq OnDisk \cup Kept \cup Finished
  BY <1>1, FrameIs DEF Kept
<1>4. JsTypes'
  <2>1. snapshot' \in [on : BOOLEAN, rows : Seq(JsEvents)] /\ IsInjective(snapshot'.rows)
    <3>1. CASE snapshot' = snapshot
      BY <3>1 DEF JsTypes
    <3>2. CASE snapshot' = [on |-> TRUE, rows |-> kept]
      BY <3>2 DEF JsTypes
    <3>3. QED
      BY <1>1, <3>1, <3>2
  <2>2. QED
    BY <1>1, <1>2, <2>1 DEF JsTypes
<1>5. JsQueued' \subseteq JsQueued
  BY <1>2, <1>3 DEF JsQueued, Finished
<1>6. QueuedOnce'
  BY <1>2, <1>3, <1>5 DEF QueuedOnce
<1>7. RequestsHaveRows' /\ FlushWaits'
  BY <1>2, <1>3 DEF RequestsHaveRows, FlushWaits
<1>8. ReplayComesFirst' /\ LinesAreTrue'
  BY <1>1, <1>2, <1>3 DEF ReplayComesFirst, LinesAreTrue
<1>9. LogFollowsRows'
  <2>1. ~overlooked => OnDisk' \subseteq Kept \cup Finished
    BY <1>1, <1>3 DEF LogFollowsRows
  <2>2. snapshot'.on => ToSet(snapshot'.rows) = Kept
    BY <1>1 DEF Kept
  <2>3. QED
    BY <1>2, <1>3, <2>1, <2>2 DEF LogFollowsRows
<1>10. QED
  BY <1>4, <1>6, <1>7, <1>8, <1>9

LEMMA CompactionKeepsJsInv ==
    ASSUME JsInv, LogFrame, CompactionLands, UNCHANGED <<kept, ready, overlooked>>
    PROVE  JsInv' /\ OnDisk' = ToSet(snapshot.rows)
<1> USE DEF JsInv
<1>1. /\ UNCHANGED <<policy, file, buffer, awaiting, woken, pushedOut, slice, todo, sent, taken>>
      /\ UNCHANGED <<caller, flushed, arrived, rejectedByApi, spilled, kept, ready, overlooked>>
      /\ snapshot.on /\ disk' = snapshot.rows /\ snapshot' = NotCompacting /\ appends' = appends
  BY DEF LogFrame, CompactionLands
<1>2. /\ Buffered' = Buffered /\ Finished' = Finished /\ Requested' = Requested /\ Kept' = Kept
      /\ OnDisk' = ToSet(snapshot.rows) /\ OnDisk' \subseteq Kept \cup Finished
  BY <1>1, FrameIs DEF Kept, OnDisk, LogFollowsRows
<1>3. disk' \in Seq(JsEvents) /\ IsInjective(disk')
  BY <1>1 DEF JsTypes
<1>4. snapshot' = [on |-> FALSE, rows |-> <<>>] /\ IsInjective(snapshot'.rows) /\ ~snapshot'.on
  BY <1>1, EmptySet DEF NotCompacting
<1>5. JsTypes'
  BY <1>1, <1>3, <1>4 DEF JsTypes
<1>6. JsQueued' \subseteq JsQueued
  BY <1>1, <1>2 DEF JsQueued, Finished
<1>7. QueuedOnce'
  BY <1>1, <1>2, <1>6 DEF QueuedOnce
<1>8. RequestsHaveRows' /\ FlushWaits' /\ LinesAreTrue'
  BY <1>1, <1>2 DEF RequestsHaveRows, FlushWaits, LinesAreTrue
<1>9. ReplayComesFirst' /\ LogFollowsRows'
  BY <1>1, <1>2, <1>4 DEF ReplayComesFirst, LogFollowsRows
<1>10. QED
  BY <1>2, <1>5, <1>7, <1>8, <1>9

LEMMA FailureKeepsJsInv ==
    ASSUME JsInv, LogFrame, WriteFails, UNCHANGED <<kept, ready, overlooked>>
    PROVE  JsInv' /\ disk' = disk
<1> USE DEF JsInv
<1>1. /\ UNCHANGED <<policy, file, buffer, awaiting, woken, pushedOut, slice, todo, sent, taken>>
      /\ UNCHANGED <<caller, flushed, arrived, rejectedByApi, spilled, kept, ready, overlooked, disk>>
      /\ snapshot' = NotCompacting /\ appends' = <<>>
  BY DEF LogFrame, WriteFails
<1>2. /\ Buffered' = Buffered /\ Finished' = Finished /\ Requested' = Requested /\ Kept' = Kept
      /\ OnDisk' = OnDisk
  BY <1>1, FrameIs DEF Kept, OnDisk
<1>3. /\ snapshot' = [on |-> FALSE, rows |-> <<>>] /\ IsInjective(snapshot'.rows) /\ ~snapshot'.on
      /\ ToSet(appends') = {}
  BY <1>1, EmptySet DEF NotCompacting
<1>4. JsTypes'
  BY <1>1, <1>3 DEF JsTypes
<1>5. QueuedOnce' /\ RequestsHaveRows' /\ FlushWaits'
  BY <1>1, <1>2 DEF QueuedOnce, JsQueued, RequestsHaveRows, FlushWaits
<1>6. ReplayComesFirst' /\ LinesAreTrue' /\ LogFollowsRows'
  BY <1>1, <1>2, <1>3 DEF ReplayComesFirst, LinesAreTrue, LogFollowsRows
<1>7. QED
  BY <1>1, <1>4, <1>5, <1>6

LEMMA ReplayKeepsJsInv ==
    ASSUME JsInv, LogFrame, Replay \/ ReplaySeesNothing \/ ReplayFails,
           UNCHANGED <<appends, snapshot, disk>>
    PROVE  /\ JsInv' /\ Kept \subseteq Kept' /\ Kept' \subseteq Kept \cup OnDisk
<1> USE DEF JsInv
<1>1. /\ UNCHANGED <<policy, file, buffer, awaiting, woken, pushedOut, slice, todo, sent, taken>>
      /\ UNCHANGED <<caller, flushed, arrived, rejectedByApi, spilled, appends, snapshot, disk>>
  BY DEF LogFrame
<1>2. /\ Buffered' = Buffered /\ Finished' = Finished /\ Requested' = Requested /\ OnDisk' = OnDisk
  BY <1>1, FrameIs DEF OnDisk
<1>3. /\ ready = "replaying" /\ file /\ kept = <<>> /\ appends = <<>> /\ ~snapshot.on
      /\ slice = <<>> /\ todo = <<>> /\ Requested = {} /\ Kept = {} /\ ToSet(appends) = {}
  BY EmptySet DEF Replay, ReplaySeesNothing, ReplayFails, ReplayComesFirst, JsTypes, Kept
<1>4. /\ kept' \in Seq(JsEvents) /\ IsInjective(kept') /\ Kept' \subseteq OnDisk
      /\ ready' = "yes" => overlooked' \/ OnDisk \subseteq Kept'
      /\ ready' # "yes" => kept' = <<>>
  <2>1. CASE Replay
    <3>1. kept' = disk /\ ready' = "yes"
      BY <2>1 DEF Replay
    <3>2. QED
      BY <3>1 DEF JsTypes, Kept, OnDisk
  <2>2. CASE ReplaySeesNothing
    <3>1. kept' = kept /\ ready' = "yes" /\ overlooked' = (overlooked \/ disk # <<>>)
      BY <2>2 DEF ReplaySeesNothing
    <3>2. overlooked' \/ OnDisk = {}
      BY <3>1, EmptySet DEF OnDisk
    <3>3. QED
      BY <1>3, <3>1, <3>2 DEF JsTypes, Kept
  <2>3. CASE ReplayFails
    <3>1. kept' = kept /\ ready' = "failed"
      BY <2>3 DEF ReplayFails
    <3>2. QED
      BY <1>3, <3>1 DEF JsTypes, Kept
  <2>4. QED
    BY <2>1, <2>2, <2>3
<1>5. JsTypes'
  BY <1>1, <1>4 DEF JsTypes
<1>6. JsQueued' = JsQueued
  BY <1>1, <1>2, <1>3, <1>4 DEF JsQueued
<1>7. QueuedOnce'
  BY <1>1, <1>2, <1>4, <1>6 DEF QueuedOnce
<1>8. RequestsHaveRows' /\ FlushWaits' /\ LinesAreTrue'
  <2>1. RequestsHaveRows'
    BY <1>1, <1>2, <1>3 DEF RequestsHaveRows
  <2>2. FlushWaits'
    BY <1>1, <1>2, <1>3 DEF FlushWaits
  <2>3. LinesAreTrue'
    BY <1>1, <1>3 DEF LinesAreTrue
  <2>4. QED
    BY <2>1, <2>2, <2>3
<1>9. ReplayComesFirst' /\ LogFollowsRows'
  BY <1>1, <1>2, <1>3, <1>4 DEF ReplayComesFirst, LogFollowsRows
<1>10. QED
  BY <1>3, <1>4, <1>5, <1>7, <1>8, <1>9

LEMMA DiskKeepsJsInv == JsInv /\ Disk => JsInv'
BY DiskIs, AppendKeepsJsInv, CompactionKeepsJsInv, FailureKeepsJsInv, ReplayKeepsJsInv
-----------------------------------------------------------------------------
(* The caller of flush() and shutdown(), and the end of the process        *)
LEMMA CallerKeepsJsInv == ASSUME JsInv, JsCaller PROVE JsInv'
<1> USE DEF JsInv
<1>1. /\ UNCHANGED <<policy, file, buffer, awaiting, woken, pushedOut, kept, appends, snapshot, disk>>
      /\ UNCHANGED <<ready, overlooked, sent, taken, arrived, rejectedByApi, spilled, slice, todo>>
  BY DEF JsCaller, Calling, CallFlush, FlushDrained, FlushGivesUp, FlushAnswers, StopLoop, CloseLog,
         optionVars, bufferVars, logVars, readyVars, passVars, postVars, endVars
<1>2. /\ Buffered' = Buffered /\ Kept' = Kept /\ OnDisk' = OnDisk /\ Finished' = Finished
      /\ JsQueued' = JsQueued /\ Requested' = Requested
  BY <1>1 DEF Buffered, Kept, OnDisk, Finished, JsQueued, Requested
<1>3. JsTypes' /\ QueuedOnce' /\ RequestsHaveRows' /\ LinesAreTrue'
  BY <1>1, <1>2 DEF JsTypes, QueuedOnce, RequestsHaveRows, LinesAreTrue
<1>4. ReplayComesFirst' /\ LogFollowsRows'
  BY <1>1, <1>2 DEF ReplayComesFirst, LogFollowsRows
<1>5. FlushWaits'
  <2>1. CASE CallFlush
    BY <1>1, <1>2, <2>1, JsSizesAssumption DEF CallFlush, FlushWaits
  <2>2. CASE FlushDrained
    <3>1. caller = "flush" /\ Buffered = {} /\ Kept = {} /\ flushed' = flushed /\ caller' = "drained"
      BY <2>2, EmptySet DEF FlushDrained, Buffered, Kept
    <3>2. QED
      BY <1>1, <1>2, <3>1 DEF FlushWaits
  <2>3. CASE FlushGivesUp \/ FlushAnswers \/ StopLoop \/ CloseLog
    <3>1. caller' \notin {"flush", "drained"}
      BY <2>3 DEF FlushGivesUp, FlushAnswers, StopLoop, CloseLog
    <3>2. QED
      BY <3>1 DEF FlushWaits
  <2>4. QED
    BY <2>1, <2>2, <2>3 DEF JsCaller, Calling
<1>6. QED
  BY <1>3, <1>4, <1>5

LEMMA ReplaceKeepsJsInv == ASSUME JsInv, ReplaceProcess PROVE JsInv'
<1> USE DEF JsInv
<1>1. /\ buffer' = <<>> /\ kept' = <<>> /\ appends' = <<>> /\ slice' = <<>> /\ todo' = <<>>
      /\ awaiting' = {} /\ woken' = {} /\ snapshot' = [on |-> FALSE, rows |-> <<>>]
      /\ sent' = [e \in JsEvents |-> 0] /\ taken' = [e \in JsEvents |-> 0] /\ caller' = "app"
      /\ ready' = IF file THEN "replaying" ELSE "yes"
      /\ UNCHANGED <<policy, file, disk, pushedOut, arrived, rejectedByApi, overlooked>>
  BY DEF ReplaceProcess, NotCompacting, optionVars
<1>2. spilled' = spilled \cup ((Buffered \cup Kept) \ OnDisk)
  BY DEF ReplaceProcess
<1>3. /\ Buffered' = {} /\ Kept' = {} /\ OnDisk' = OnDisk /\ Finished' = Finished
      /\ Requested' = {} /\ ToSet(appends') = {} /\ ToSet(slice') = {} /\ ToSet(todo') = {}
  BY <1>1, EmptySet DEF Buffered, Kept, OnDisk, Finished, Requested
<1>4. JsTypes'
  BY <1>1, EmptySet DEF JsTypes
<1>5. QueuedOnce' /\ LinesAreTrue' /\ FlushWaits'
  BY <1>1, <1>3 DEF QueuedOnce, LinesAreTrue, FlushWaits
<1>6. RequestsHaveRows'
  BY <1>1, <1>3 DEF RequestsHaveRows
<1>7. ReplayComesFirst' /\ LogFollowsRows'
  BY <1>1, <1>3, EmptySet DEF ReplayComesFirst, LogFollowsRows, OnDisk, JsTypes
<1>8. QED
  BY <1>4, <1>5, <1>6, <1>7

(* Timers and stuttering                                                   *)
LEMMA TimersKeepJsInv ==
    ASSUME JsInv, TimerComes \/ (\E e \in JsEvents : RetryComes(e)) \/ UNCHANGED jsVars
    PROVE  /\ JsInv'
           /\ UNCHANGED <<buffer, kept, disk, pushedOut, arrived, rejectedByApi, spilled>>
<1> USE DEF JsInv
<1>1. /\ UNCHANGED <<policy, file, buffer, awaiting, woken, pushedOut, kept, appends, snapshot, disk>>
      /\ UNCHANGED <<ready, overlooked, sent, taken, arrived, rejectedByApi, spilled, slice, todo>>
      /\ UNCHANGED <<caller, flushed>>
  BY DEF TimerComes, RetryComes, jsVars, optionVars, bufferVars, logVars, readyVars, passVars,
         postVars, callVars, endVars
<1>2. /\ Buffered' = Buffered /\ Kept' = Kept /\ OnDisk' = OnDisk /\ Finished' = Finished
      /\ JsQueued' = JsQueued /\ Requested' = Requested
  BY <1>1 DEF Buffered, Kept, OnDisk, Finished, JsQueued, Requested
<1>3. JsTypes' /\ QueuedOnce' /\ RequestsHaveRows' /\ LinesAreTrue'
  BY <1>1, <1>2 DEF JsTypes, QueuedOnce, RequestsHaveRows, LinesAreTrue
<1>4. ReplayComesFirst' /\ LogFollowsRows' /\ FlushWaits'
  BY <1>1, <1>2 DEF ReplayComesFirst, LogFollowsRows, FlushWaits
<1>5. QED
  BY <1>1, <1>3, <1>4

LEMMA JsStepIs ==
    ASSUME [JsNext]_jsVars
    PROVE  \/ PassStep \/ DeliverStep \/ SliceStep
           \/ Disk \/ JsCaller \/ ReplaceProcess
           \/ \E e \in JsEvents : TrackStep(e) \/ JsAnswer(e) \/ JsApiTakes(e)
           \/ TimerComes \/ (\E e \in JsEvents : RetryComes(e)) \/ UNCHANGED jsVars
BY DEF JsNext, JsWorker, PassStep, DeliverStep, SliceStep, TrackStep

LEMMA JsInvAlways == JsSpec => []JsInv
<1>1. ASSUME JsInv, [JsNext]_jsVars PROVE JsInv'
  BY <1>1, JsStepIs, PassKeepsJsInv, StartKeepsJsInv, DiskKeepsJsInv, CallerKeepsJsInv,
     ReplaceKeepsJsInv, TrackKeepsJsInv, AnswerKeepsJsInv, TakesKeepsJsInv, TimersKeepJsInv
<1>2. QED
  BY <1>1, InitJsInv, PTL DEF JsSpec

(* When flush() answers true, every event this process held at the call is *)
(* settled, also if an event cannot be serialised: its row stays, and      *)
(* flush() goes on waiting (worker.ts).                                    *)
THEOREM JsFlushIsComplete == JsSpec => []JsFlushMissesNothing
<1>1. JsInv => JsFlushMissesNothing
  BY DEF JsInv, FlushWaits, JsFlushMissesNothing, Finished
<1>2. QED
  BY <1>1, JsInvAlways, PTL
-----------------------------------------------------------------------------
(* Until a log is overlooked, every step is one of AtLeastOnceDelivery or  *)
(* a stutter.  Its variables move with these sets:                         *)
Volatile == (Buffered \cup Kept) \ OnDisk

LEMMA FateIs ==
    /\ JsQueued = Volatile \cup OnDisk \cup pushedOut \cup Finished \cup spilled
    /\ JsQueued' = Volatile' \cup OnDisk' \cup pushedOut' \cup Finished' \cup spilled'
    /\ Finished = JsDelivery!Settled
BY DEF JsQueued, Volatile, Finished, JsDelivery!Settled

LEMMA JsStutters ==
    ASSUME UNCHANGED <<arrived, rejectedByApi, pushedOut, spilled>>,
           Volatile' = Volatile, OnDisk' = OnDisk
    PROVE  UNCHANGED JsDelivery!vars
<1>1. JsQueued' = JsQueued
  BY FateIs DEF Finished
<1>2. QED
  BY <1>1 DEF JsDelivery!vars, Volatile

(* A copy that goes once its event is settled is confirmed or rejected.    *)
LEMMA AnsweredCopyGoes ==
    ASSUME NEW e \in JsEvents, e \in Finished',
           e \in Volatile \cup OnDisk \cup Finished,
           UNCHANGED <<arrived, pushedOut, spilled>>,
           rejectedByApi' \in {rejectedByApi, rejectedByApi \cup {e}},
           Volatile' \in {Volatile, Volatile \ {e}},
           OnDisk' \in {OnDisk, OnDisk \ {e}}
    PROVE  [JsDelivery!Next]_(JsDelivery!vars)
<1>1. JsQueued' = JsQueued
  BY FateIs DEF Finished
<1>2. CASE e \in rejectedByApi'
  <2>1. JsDelivery!Reject(e)
    BY <1>1, <1>2 DEF JsDelivery!Reject, JsDelivery!Retire, JsDelivery!Held, JsDelivery!Settled,
                      Volatile, Finished
  <2>2. QED
    BY <2>1 DEF JsDelivery!Next
<1>3. CASE e \notin rejectedByApi' /\ e \in Volatile \cup OnDisk
  <2>1. e \in arrived /\ rejectedByApi' = rejectedByApi
    BY <1>3 DEF Finished
  <2>2. JsDelivery!Confirm(e)
    BY <1>1, <1>3, <2>1 DEF JsDelivery!Confirm, JsDelivery!Retire, JsDelivery!Held, Volatile
  <2>3. QED
    BY <2>2 DEF JsDelivery!Next
<1>4. CASE e \notin rejectedByApi' /\ e \notin Volatile \cup OnDisk
  <2>1. rejectedByApi' = rejectedByApi /\ Volatile' = Volatile /\ OnDisk' = OnDisk
    BY <1>4
  <2>2. QED
    BY <2>1, JsStutters
<1>5. QED
  BY <1>2, <1>3, <1>4

LEMMA TrackIsAccept ==
    ASSUME JsInv, NEW e \in JsEvents, TrackStep(e)
    PROVE  [JsDelivery!Next]_(JsDelivery!vars)
<1>1. UNCHANGED <<kept, disk, arrived, rejectedByApi, spilled>>
  BY DEF TrackStep, OnlyBuffer, logVars, endVars
<1>2. Kept' = Kept /\ OnDisk' = OnDisk /\ Finished' = Finished
  BY <1>1 DEF Kept, OnDisk, Finished
<1>3. CASE QueuesNothing(e)
  <2>1. Volatile' = Volatile /\ pushedOut' = pushedOut
    BY <1>2, <1>3 DEF QueuesNothing, Volatile, Buffered
  <2>2. QED
    BY <1>1, <1>2, <2>1, JsStutters
<1>4. CASE QueuesEvent(e)
  <2>1. PICK victims \in SUBSET Buffered :
           /\ Buffered' = (Buffered \ victims) \cup {e}
           /\ pushedOut' = pushedOut \cup victims
           /\ e \notin JsQueued \cup awaiting' \cup woken'
    BY <1>4 DEF QueuesEvent
  <2>2. Buffered \cap (Kept \cup OnDisk) = {}
    BY DEF JsInv, QueuedOnce
  <2>3. victims \subseteq Volatile /\ Volatile' = (Volatile \ victims) \cup {e}
    BY <1>2, <2>1, <2>2 DEF Volatile, JsQueued
  <2>4. JsQueued' = JsQueued \cup {e}
    BY <1>1, <1>2, <2>1, <2>3, FateIs
  <2>5. JsDelivery!Accept(e, victims)
    BY <1>1, <1>2, <2>1, <2>3, <2>4 DEF JsDelivery!Accept, Volatile
  <2>6. QED
    BY <2>3, <2>5 DEF JsDelivery!Next, Volatile
<1>5. QED
  BY <1>3, <1>4, TrackIs

LEMMA LossOfVolatile ==
    ASSUME NEW gone \in SUBSET Volatile, UNCHANGED <<arrived, rejectedByApi, pushedOut>>,
           Volatile' = Volatile \ gone, OnDisk' = OnDisk, spilled' = spilled \cup gone
    PROVE  JsDelivery!Next
<1>1. JsQueued' = JsQueued
  BY FateIs DEF Finished
<1>2. JsDelivery!Lose(gone)
  BY <1>1 DEF JsDelivery!Lose, Volatile
<1>3. QED
  BY <1>2 DEF JsDelivery!Next, Volatile

LEMMA PassIsLoss == ASSUME JsInv, PassStep PROVE JsDelivery!Next
<1>1. UNCHANGED <<pushedOut, disk, arrived, rejectedByApi>>
  BY PassIs
<1>2. PICK moved \in SUBSET Buffered : \E put \in SUBSET moved : BatchMoves(moved, put)
  BY PassIs
<1>3. PICK put \in SUBSET moved : BatchMoves(moved, put)
  BY <1>2
<1>4. Buffered \cap (Kept \cup OnDisk) = {} /\ OnDisk' = OnDisk
  BY <1>1 DEF JsInv, QueuedOnce, OnDisk
<1>5. moved \ put \in SUBSET Volatile /\ Volatile' = Volatile \ (moved \ put)
  BY <1>3, <1>4 DEF BatchMoves, Volatile
<1>6. spilled' = spilled \cup (moved \ put)
  BY <1>3 DEF BatchMoves
<1>7. QED
  BY <1>1, <1>4, <1>5, <1>6, LossOfVolatile

LEMMA TakesIsReceive == ASSUME JsInv, NEW e \in JsEvents, JsApiTakes(e) PROVE JsDelivery!Next
<1>1. /\ UNCHANGED <<buffer, kept, disk, pushedOut, rejectedByApi, spilled>>
      /\ arrived' = arrived \cup {e} /\ sent[e] > 0
  BY DEF JsApiTakes, ApiArrival, bufferVars, logVars
<1>2. e \in Kept \cup Finished
  BY <1>1 DEF JsInv, JsTypes, RequestsHaveRows
<1>3. Volatile' = Volatile /\ OnDisk' = OnDisk
  BY <1>1 DEF Volatile, Buffered, Kept, OnDisk
<1>4. e \in Volatile \cup OnDisk \cup Finished
  BY <1>2 DEF Volatile
<1>5. JsQueued' = JsQueued
  BY <1>1, <1>3, <1>4, FateIs DEF Finished
<1>6. JsDelivery!Receive(e)
  BY <1>1, <1>3, <1>4, <1>5 DEF JsDelivery!Receive, JsDelivery!Held, JsDelivery!Settled, Volatile, Finished
<1>7. QED
  BY <1>6 DEF JsDelivery!Next

LEMMA AnswerIsRetire ==
    ASSUME JsInv, NEW e \in JsEvents, JsAnswer(e)
    PROVE  [JsDelivery!Next]_(JsDelivery!vars)
<1>1. /\ UNCHANGED <<buffer, pushedOut, disk, arrived, spilled>> /\ e \in Kept \cup Finished
      /\ Kept' = Kept \/ RowGoes(e)
      /\ rejectedByApi' \in {rejectedByApi, rejectedByApi \cup {e}}
      /\ rejectedByApi' # rejectedByApi => RowGoes(e)
  BY AnswerIs
<1>2. Buffered' = Buffered /\ OnDisk' = OnDisk /\ e \notin Buffered
  BY <1>1 DEF Buffered, OnDisk, JsInv, QueuedOnce
<1>3. CASE RowGoes(e)
  <2>1. e \in Finished' /\ Volatile' = Volatile \ {e} /\ e \in Volatile \cup OnDisk \cup Finished
    BY <1>1, <1>2, <1>3 DEF RowGoes, Volatile
  <2>2. QED
    BY <1>1, <1>2, <2>1, AnsweredCopyGoes
<1>4. CASE ~RowGoes(e)
  <2>1. rejectedByApi' = rejectedByApi /\ Volatile' = Volatile
    BY <1>1, <1>2, <1>4 DEF Volatile
  <2>2. QED
    BY <1>1, <1>2, <2>1, JsStutters
<1>5. QED
  BY <1>3, <1>4

LEMMA AppendIsPersist ==
    ASSUME JsInv, LogFrame, AppendLands, UNCHANGED kept
    PROVE  [JsDelivery!Next]_(JsDelivery!vars)
<1>1. /\ UNCHANGED <<pushedOut, arrived, rejectedByApi, spilled>>
      /\ Buffered' = Buffered /\ Kept' = Kept /\ Finished' = Finished
  BY FrameIs DEF LogFrame, Kept
<1>2. Buffered \cap (Kept \cup OnDisk \cup Finished) = {}
  BY DEF JsInv, QueuedOnce
<1>3. CASE OnDisk' = OnDisk
  <2>1. Volatile' = Volatile
    BY <1>1, <1>3 DEF Volatile
  <2>2. QED
    BY <1>1, <1>3, <2>1, JsStutters
<1>4. ASSUME NEW e \in JsEvents, e \in Kept \cup Finished, OnDisk' = OnDisk \cup {e}, OnDisk' # OnDisk
      PROVE  JsDelivery!Next
  <2>1. Volatile' = Volatile \ {e} /\ e \in Volatile \cup Finished
    BY <1>1, <1>4 DEF Volatile
  <2>2. JsQueued' = JsQueued
    BY <1>1, <1>4, <2>1, FateIs
  <2>3. JsDelivery!Persist(e)
    BY <1>1, <1>4, <2>1, <2>2 DEF JsDelivery!Persist, JsDelivery!Settled, Volatile, Finished
  <2>4. QED
    BY <2>3 DEF JsDelivery!Next
<1>5. ASSUME NEW e \in JsEvents, e \in Finished \ Kept, OnDisk' = OnDisk \ {e}
      PROVE  [JsDelivery!Next]_(JsDelivery!vars)
  <2>1. Volatile' = Volatile /\ e \in Finished'
    BY <1>1, <1>2, <1>5 DEF Volatile
  <2>2. QED
    BY <1>1, <1>5, <2>1, AnsweredCopyGoes
<1>6. QED
  BY <1>3, <1>4, <1>5, AppendIs

LEMMA CompactionIsRewrite ==
    ASSUME JsInv, LogFrame, CompactionLands, UNCHANGED <<kept, ready, overlooked>>, ~overlooked
    PROVE  JsDelivery!Next
<1> DEFINE new == ToSet(snapshot.rows)
<1>1. /\ UNCHANGED <<pushedOut, arrived, rejectedByApi, spilled>>
      /\ Buffered' = Buffered /\ Kept' = Kept /\ Finished' = Finished /\ OnDisk' = new
  BY FrameIs, CompactionKeepsJsInv DEF LogFrame, Kept
<1>2. new \subseteq Kept \cup Finished /\ Kept \cap OnDisk \subseteq new /\ OnDisk \subseteq new \cup Finished
  BY DEF CompactionLands, JsInv, LogFollowsRows
<1>3. new \in SUBSET JsEvents
  BY DEF JsInv, JsTypes, ToSet
<1> HIDE DEF new
<1>4. Buffered \cap OnDisk = {}
  BY DEF JsInv, QueuedOnce
<1>5. /\ Volatile' = Volatile \ new /\ new \subseteq OnDisk \cup Volatile \cup Finished
      /\ OnDisk \ new \subseteq Finished
  BY <1>1, <1>2, <1>4 DEF Volatile
<1>6. JsQueued' = JsQueued
  BY <1>1, <1>5, FateIs
<1>7. JsDelivery!Rewrite(new)
  BY <1>1, <1>5, <1>6 DEF JsDelivery!Rewrite, JsDelivery!Settled, Volatile, Finished
<1>8. QED
  BY <1>3, <1>7 DEF JsDelivery!Next

LEMMA DiskIsDelivery ==
    ASSUME JsInv, Disk, ~overlooked
    PROVE  [JsDelivery!Next]_(JsDelivery!vars)
<1>1. /\ LogFrame /\ UNCHANGED <<pushedOut, arrived, rejectedByApi, spilled>>
      /\ Buffered' = Buffered
  BY DiskIs, FrameIs DEF LogFrame
<1>2. CASE AppendLands /\ UNCHANGED <<kept, ready, overlooked>>
  BY <1>1, <1>2, AppendIsPersist
<1>3. CASE CompactionLands /\ UNCHANGED <<kept, ready, overlooked>>
  BY <1>1, <1>3, CompactionIsRewrite
<1>4. CASE WriteFails /\ UNCHANGED <<kept, ready, overlooked>>
  <2>1. disk' = disk /\ kept' = kept
    BY <1>1, <1>4, FailureKeepsJsInv
  <2>2. Volatile' = Volatile /\ OnDisk' = OnDisk
    BY <1>1, <2>1 DEF Volatile, Kept, OnDisk
  <2>3. QED
    BY <1>1, <2>2, JsStutters
<1>5. CASE (Replay \/ ReplaySeesNothing \/ ReplayFails) /\ UNCHANGED <<appends, snapshot, disk>>
  <2>1. Kept \subseteq Kept' /\ Kept' \subseteq Kept \cup OnDisk
    BY <1>1, <1>5, ReplayKeepsJsInv
  <2>2. OnDisk' = OnDisk
    BY <1>5 DEF OnDisk
  <2>3. Volatile' = Volatile
    BY <1>1, <2>1, <2>2 DEF Volatile
  <2>4. QED
    BY <1>1, <2>2, <2>3, JsStutters
<1>6. QED
  BY <1>2, <1>3, <1>4, <1>5, DiskIs

LEMMA ReplaceIsLoss == ASSUME JsInv, ReplaceProcess PROVE JsDelivery!Next
<1>1. /\ buffer' = <<>> /\ kept' = <<>> /\ UNCHANGED <<disk, pushedOut, arrived, rejectedByApi>>
      /\ spilled' = spilled \cup Volatile
  BY DEF ReplaceProcess, Volatile
<1>2. OnDisk' = OnDisk /\ Volatile' = Volatile \ Volatile
  BY <1>1, EmptySet DEF Volatile, Buffered, Kept, OnDisk
<1>3. QED
  BY <1>1, <1>2, LossOfVolatile

LEMMA StepOfJsDelivery ==
    JsInv /\ [JsNext]_jsVars => [JsDelivery!Next \/ overlooked]_(JsDelivery!vars)
<1> SUFFICES ASSUME JsInv, [JsNext]_jsVars, ~overlooked
             PROVE  [JsDelivery!Next]_(JsDelivery!vars)
  OBVIOUS
<1>1. CASE DeliverStep \/ SliceStep \/ JsCaller \/ TimerComes \/ (\E e \in JsEvents : RetryComes(e))
           \/ UNCHANGED jsVars
  <2>1. UNCHANGED <<buffer, kept, disk, pushedOut, arrived, rejectedByApi, spilled>>
    BY <1>1 DEF DeliverStep, SliceStep, JsCaller, TimerComes, RetryComes, jsVars, bufferVars, logVars,
                endVars
  <2>2. Volatile' = Volatile /\ OnDisk' = OnDisk
    BY <2>1 DEF Volatile, Buffered, Kept, OnDisk
  <2>3. QED
    BY <2>1, <2>2, JsStutters
<1>2. QED
  BY <1>1, JsStepIs, PassIsLoss, DiskIsDelivery, ReplaceIsLoss, TrackIsAccept, AnswerIsRetire,
     TakesIsReceive

(* The JavaScript SDK delivers at least once: until a log that cannot be   *)
(* read is taken for none, what the log holds leaves it only for an        *)
(* answer, compactions, failed writes and new processes included           *)
(* (persistentQueue.ts, worker.ts).                                        *)
THEOREM JsDeliversAtLeastOnce == JsSpec => JsImplementsDelivery
<1>1. JsInit => JsDelivery!Init
  <2>1. JsInit => Buffered = {} /\ Kept = {} /\ OnDisk = {}
    BY EmptySet DEF JsInit, Buffered, Kept, OnDisk
  <2>2. QED
    BY <2>1 DEF JsInit, JsDelivery!Init, JsQueued
<1>2. QED
  BY <1>1, StepOfJsDelivery, JsInvAlways, PTL DEF JsSpec, JsImplementsDelivery
-----------------------------------------------------------------------------
(* A put() that was woken does not look at the size again: it is the only  *)
(* one, and the batch that woke it left room.                              *)
JsRoom ==
    /\ Len(buffer) <= MaxSize + 1
    /\ woken # {} => Len(buffer) <= MaxSize
    /\ \A e, f \in woken : e = f

LEMMA TrackKeepsRoom ==
    ASSUME JsInv, JsRoom, NEW e \in JsEvents, TrackStep(e)
    PROVE  JsRoom'
<1> USE DEF JsRoom
<1>1. buffer \in Seq(JsEvents) /\ Len(buffer) \in Nat /\ MaxSize \in Nat \ {0}
  BY JsSizesAssumption DEF JsInv, JsTypes
<1>2. CASE PutInRoom(e)
  <2>1. Len(buffer') = Len(buffer) + 1 /\ Len(buffer) < MaxSize /\ woken' = woken
    BY <1>1, <1>2 DEF PutInRoom
  <2>2. QED
    BY <1>1, <2>1
<1>3. CASE PutFull(e)
  <2>1. woken' = woken /\ Len(buffer) >= MaxSize
    BY <1>3 DEF PutFull
  <2>2. Len(buffer') = Len(buffer)
    <3>1. CASE policy \in {"drop_newest", "block"}
      BY <1>3, <3>1 DEF PutFull
    <3>2. CASE policy = "drop_oldest"
      <4>1. buffer' = Append(Tail(buffer), e) /\ buffer # <<>>
        BY <1>1, <1>3, <2>1, <3>2 DEF PutFull
      <4>2. Len(Append(Tail(buffer), e)) = Len(buffer)
        BY <1>1, <4>1
      <4>3. QED
        BY <4>1, <4>2
    <3>3. QED
      BY <3>1, <3>2 DEF JsInv, JsTypes
  <2>3. QED
    BY <2>1, <2>2
<1>4. CASE WaitTimesOut(e)
  BY <1>4 DEF WaitTimesOut
<1>5. CASE WokenPushes(e)
  <2>1. Len(buffer') = Len(buffer) + 1 /\ woken' = woken \ {e} /\ e \in woken
    BY <1>1, <1>5 DEF WokenPushes
  <2>2. QED
    BY <1>1, <2>1
<1>6. QED
  BY <1>2, <1>3, <1>4, <1>5 DEF TrackStep, JsTrack, TrackGoesOn

LEMMA PassKeepsRoom == ASSUME JsInv, JsRoom, PassStep PROVE JsRoom'
<1> USE DEF JsRoom
<1> DEFINE first == FirstOnes(buffer, JsBatchSize)
           rest == AfterFirst(buffer, JsBatchSize)
<1>1. buffer \in Seq(JsEvents) /\ {MaxSize, JsBatchSize} \subseteq Nat \ {0}
  BY JsSizesAssumption DEF JsInv, JsTypes
<1>2. /\ buffer' = rest /\ woken = {}
      /\ \/ woken' = {}
         \/ first # <<>> /\ woken' = {} \cup ({Head(waiters)} \cap awaiting)
  BY DEF PassStep, LoopIsFree, JsPass, Drain, NotifyRoom
<1>3. /\ first \in Seq(JsEvents) /\ rest \in Seq(JsEvents)
      /\ Len(first) + Len(rest) = Len(buffer)
  BY <1>1, SetOfFirstOnes
<1> HIDE DEF first, rest
<1>4. Len(first) \in Nat /\ Len(rest) \in Nat /\ (first # <<>> => Len(first) > 0)
  BY <1>3
<1>5. QED
  BY <1>1, <1>2, <1>3, <1>4

LEMMA StepKeepsRoom == JsInv /\ JsRoom /\ [JsNext]_jsVars => JsRoom'
<1> SUFFICES ASSUME JsInv, JsRoom, [JsNext]_jsVars PROVE JsRoom'
  OBVIOUS
<1>1. CASE DeliverStep \/ SliceStep \/ Disk \/ JsCaller \/ TimerComes
           \/ (\E e \in JsEvents : JsAnswer(e) \/ JsApiTakes(e) \/ RetryComes(e)) \/ UNCHANGED jsVars
  <2>1. UNCHANGED <<buffer, woken>>
    BY <1>1 DEF DeliverStep, SliceStep, Disk, JsCaller, TimerComes, JsAnswer, JsApiTakes, RetryComes,
                jsVars, bufferVars
  <2>2. QED
    BY <2>1 DEF JsRoom
<1>2. CASE ReplaceProcess
  <2>1. buffer' = <<>> /\ woken' = {} /\ MaxSize \in Nat
    BY <1>2, JsSizesAssumption DEF ReplaceProcess
  <2>2. QED
    BY <2>1 DEF JsRoom
<1>3. QED
  BY <1>1, <1>2, JsStepIs, TrackKeepsRoom, PassKeepsRoom

BufferIsBounded == Len(buffer) <= MaxSize + 1

(* The memory queue holds at most one event more than maxSize: a put()     *)
(* that waited for room and was woken (memoryQueue.ts).                    *)
THEOREM JsBufferIsBounded == JsSpec => []BufferIsBounded
<1>1. JsInit => JsRoom
  BY JsSizesAssumption DEF JsInit, JsRoom
<1>2. JsRoom => BufferIsBounded
  BY DEF JsRoom, BufferIsBounded
<1>3. QED
  BY <1>1, <1>2, StepKeepsRoom, JsInvAlways, PTL DEF JsSpec
=============================================================================
