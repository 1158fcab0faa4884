--------------------------- MODULE IndexesProofs ----------------------------
(***************************************************************************)
(* Theorems about the indexes: the B+tree, for every set of keys and       *)
(* values, every page capacity and every number of pages; the cartridges,  *)
(* for every pool of items, every set of threads and every search depth.   *)
(***************************************************************************)
EXTENDS MCIndexes, DataLemmas

-----------------------------------------------------------------------------
(***************************************************************************)
(* The least and the greatest element of a set of naturals.                *)
(***************************************************************************)
LEMMA MaxIs ==
  ASSUME NEW S, NEW x \in S, S \subseteq Nat, \A y \in S : y <= x
  PROVE  Max(S) = x
<1>1. \A z \in S : (\A y \in S : z >= y) => z = x
  OBVIOUS
<1>2. Max(S) \in S /\ \A y \in S : Max(S) >= y
  <2> DEFINE P(z) == \A y \in S : z >= y
  <2>1. \E z \in S : P(z)
    OBVIOUS
  <2>2. Max(S) = CHOOSE z \in S : P(z)
    BY DEF Max
  <2> QED BY <2>1, <2>2, Zenon
<1> QED BY <1>1, <1>2

LEMMA MinIs ==
  ASSUME NEW S, S \subseteq Nat, S # {}
  PROVE  Min(S) \in S /\ \A y \in S : Min(S) <= y
<1> DEFINE P(z) == \A y \in S : z <= y
<1>1. \E z \in S : P(z)
  BY Least
<1>2. Min(S) = CHOOSE z \in S : P(z)
  BY DEF Min
<1> QED BY <1>1, <1>2, Zenon

LEMMA FiniteBounded ==
  ASSUME NEW S, S \subseteq Nat, IsFiniteSet(S)
  PROVE  \E n \in Nat : S \subseteq 0 .. n
<1> DEFINE T == {m \in Nat : \A X \in SUBSET Nat : IsFiniteSet(X) /\ Cardinality(X) = m
                                 => \E n \in Nat : X \subseteq 0 .. n}
<1>1. 0 \in T
  <2> SUFFICES ASSUME NEW X \in SUBSET Nat, IsFiniteSet(X), Cardinality(X) = 0
               PROVE  \E n \in Nat : X \subseteq 0 .. n
    OBVIOUS
  <2>1. X = {}
    BY FS_EmptySet
  <2> QED BY <2>1
<1>2. ASSUME NEW m \in T PROVE m + 1 \in T
  <2> SUFFICES ASSUME NEW X \in SUBSET Nat, IsFiniteSet(X), Cardinality(X) = m + 1
               PROVE  \E n \in Nat : X \subseteq 0 .. n
    OBVIOUS
  <2>0. m \in Nat /\ X # {}
    <3>1. m \in Nat
      OBVIOUS
    <3> QED BY ONLY <3>1, IsFiniteSet(X), Cardinality(X) = m + 1, FS_EmptySet
  <2>1. PICK x : x \in X
    BY <2>0
  <2>2. IsFiniteSet(X \ {x}) /\ Cardinality(X \ {x}) = m
    <3>1. /\ IsFiniteSet(X \ {x})
          /\ Cardinality(X \ {x}) = IF x \in X THEN Cardinality(X) - 1 ELSE Cardinality(X)
      BY ONLY FS_RemoveElement, IsFiniteSet(X)
    <3> QED BY ONLY <2>0, <2>1, <3>1, Cardinality(X) = m + 1
  <2>3. PICK n \in Nat : X \ {x} \subseteq 0 .. n
    BY <2>2
  <2>x. x \in Nat
    BY <2>1
  <2>4. PICK k \in Nat : k >= n /\ k >= x
    <3>1. n + x \in Nat /\ n + x >= n /\ n + x >= x
      BY <2>x
    <3> QED BY <3>1
  <2>5. \A y \in X : y = x \/ y \in 0 .. n
    BY <2>3
  <2>6. \A y \in X : y \in Nat /\ y <= k
    BY <2>1, <2>4, <2>5
  <2>7. X \subseteq 0 .. k
    BY <2>4, <2>6
  <2> QED BY <2>4, <2>7
<1>3. Nat \subseteq T
  <2> HIDE DEF T
  <2> QED BY <1>1, <1>2, SetInduction
<1> QED BY <1>3, FS_CardinalityType

LEMMA MaxOf ==
  ASSUME NEW S, S \subseteq Nat, S # {}, IsFiniteSet(S)
  PROVE  Max(S) \in S /\ \A y \in S : y <= Max(S)
<1>1. PICK n \in Nat : S \subseteq 0 .. n
  BY FiniteBounded
<1>2. PICK x \in S : \A y \in S : x >= y
  BY <1>1, Greatest
<1>3. Max(S) = x
  BY <1>2, MaxIs
<1> QED BY <1>2, <1>3

-----------------------------------------------------------------------------
(***************************************************************************)
(* The halves of a split.                                                  *)
(***************************************************************************)
Rank(S, x)  == Cardinality({j \in S : j < x})
Below(S, c) == {x \in S : Rank(S, x) < c}

LEMMA RankType ==
  ASSUME NEW S, IsFiniteSet(S), NEW x
  PROVE  Rank(S, x) \in Nat /\ IsFiniteSet({j \in S : j < x})
BY FS_Subset, FS_CardinalityType DEF Rank

LEMMA BelowLess ==
  ASSUME NEW S, IsFiniteSet(S), S \subseteq Nat, NEW c \in Nat,
         NEW x \in Below(S, c), NEW y \in S \ Below(S, c)
  PROVE  x < y
<1> SUFFICES ASSUME y <= x PROVE FALSE
  BY DEF Below
<1>1. x \in S /\ Rank(S, x) < c /\ y \in S /\ ~(Rank(S, y) < c)
  BY DEF Below
<1>2. {j \in S : j < y} \subseteq {j \in S : j < x}
  <2>1. x \in Nat /\ y \in Nat /\ \A j \in S : j \in Nat
    BY <1>1
  <2>2. \A j \in S : j < y => j < x
    BY ONLY <2>1, y <= x
  <2> QED BY <2>2
<1>3. Rank(S, y) <= Rank(S, x)
  <2>1. IsFiniteSet({j \in S : j < x})
    BY <1>1, RankType
  <2> QED BY <1>2, <2>1, FS_Subset DEF Rank
<1>4. Rank(S, x) \in Nat /\ Rank(S, y) \in Nat
  BY RankType
<1> QED BY ONLY <1>1, <1>3, <1>4, c \in Nat

LEMMA BelowCount ==
  ASSUME NEW S, IsFiniteSet(S), S \subseteq Nat, NEW c \in Nat, c <= Cardinality(S)
  PROVE  Cardinality(Below(S, c)) = c
<1> DEFINE T == {m \in Nat : m <= Cardinality(S) => Cardinality(Below(S, m)) = m}
<1>0. Cardinality(S) \in Nat
  BY FS_CardinalityType
<1>t. \A x : Rank(S, x) \in Nat
  BY RankType
<1>1. 0 \in T
  <2>1. Below(S, 0) = {}
    <3>1. \A x : ~(Rank(S, x) < 0)
      BY ONLY <1>t
    <3> QED BY <3>1 DEF Below
  <2> QED BY <2>1, FS_EmptySet
<1>2. ASSUME NEW m \in Nat, m \in T PROVE m + 1 \in T
  <2> SUFFICES ASSUME m + 1 <= Cardinality(S) PROVE Cardinality(Below(S, m + 1)) = m + 1
    OBVIOUS
  <2>1. Cardinality(Below(S, m)) = m /\ IsFiniteSet(Below(S, m)) /\ Below(S, m) \subseteq S
    <3>1. Below(S, m) \subseteq S
      BY DEF Below
    <3> QED BY <1>0, <1>2, <3>1, FS_Subset
  <2>2. S \ Below(S, m) # {}
    <3> SUFFICES ASSUME S \ Below(S, m) = {} PROVE FALSE
      OBVIOUS
    <3>1. S = Below(S, m)
      BY <2>1
    <3> QED BY <1>0, <2>1, <3>1
  <2>3. PICK x \in S \ Below(S, m) : \A y \in S \ Below(S, m) : x <= y
    <3>1. S \ Below(S, m) \subseteq Nat
      OBVIOUS
    <3> QED BY <2>2, <3>1, Least
  <2>4. {j \in S : j < x} = Below(S, m)
    <3>1. ASSUME NEW j \in S, j < x PROVE j \in Below(S, m)
      BY <2>3, <3>1
    <3>2. ASSUME NEW j \in Below(S, m) PROVE j \in S /\ j < x
      BY <2>1, <2>3, <3>2, BelowLess
    <3> QED BY <3>1, <3>2
  <2>5. Rank(S, x) = m
    BY <2>1, <2>4 DEF Rank
  <2>6. Below(S, m + 1) = Below(S, m) \cup {x}
    <3>1. ASSUME NEW y \in Below(S, m + 1), y \notin Below(S, m), y # x PROVE FALSE
      <4>1. y \in S /\ x < y
        BY <2>3, <3>1 DEF Below
      <4>2. Below(S, m) \cup {x} \subseteq {j \in S : j < y}
        <5>1. x \in Nat /\ y \in Nat /\ \A j \in S : j \in Nat
          BY <2>3, <4>1
        <5>2. \A j \in Below(S, m) : j \in S /\ j < x
          BY <2>4
        <5>3. \A j \in Below(S, m) : j < y
          BY ONLY <4>1, <5>1, <5>2
        <5> QED BY <2>3, <4>1, <5>2, <5>3
      <4>3. Cardinality(Below(S, m) \cup {x}) = m + 1
        <5>1. Cardinality(Below(S, m) \cup {x}) =
                IF x \in Below(S, m) THEN Cardinality(Below(S, m)) ELSE Cardinality(Below(S, m)) + 1
          BY <2>1, FS_AddElement
        <5> QED BY <2>1, <2>3, <5>1
      <4>4. m + 1 <= Rank(S, y)
        <5>1. IsFiniteSet({j \in S : j < y})
          BY <4>1, RankType
        <5> QED BY <4>2, <4>3, <5>1, FS_Subset DEF Rank
      <4>5. Rank(S, y) \in Nat /\ Rank(S, y) < m + 1
        BY <3>1, <4>1, RankType DEF Below
      <4> QED BY <4>4, <4>5
    <3>2. x \in Below(S, m + 1)
      BY <2>3, <2>5 DEF Below
    <3>3. ASSUME NEW y \in Below(S, m) PROVE y \in Below(S, m + 1)
      <4>1. \A z : Rank(S, z) < m => Rank(S, z) < m + 1
        BY ONLY <1>t, m \in Nat
      <4> QED BY <4>1 DEF Below
    <3> QED BY <3>1, <3>2, <3>3
  <2> QED BY <2>1, <2>3, <2>6, FS_AddElement
<1>3. Nat \subseteq T
  <2> HIDE DEF T
  <2> QED BY <1>1, <1>2, SetInduction
<1> QED BY <1>3

-----------------------------------------------------------------------------
(***************************************************************************)
(* The units a leaf's entries take.                                        *)
(***************************************************************************)
Units(e) == {u \in (DOMAIN e) \X {1, 2} : u[2] <= Size(e[u[1]])}
Of(e, S) == [k \in S |-> e[k]]

LEMMA UsedBounds ==
  ASSUME NEW e, IsFiniteSet(DOMAIN e)
  PROVE  /\ IsFiniteSet(Units(e)) /\ Used(e) \in Nat /\ Used(e) = Cardinality(Units(e))
         /\ Cardinality(DOMAIN e) \in Nat
         /\ Cardinality(DOMAIN e) <= Used(e) /\ Used(e) <= 2 * Cardinality(DOMAIN e)
         /\ (\A k \in DOMAIN e : e[k] \notin LongValue) => Used(e) = Cardinality(DOMAIN e)
<1>1. IsFiniteSet({1, 2}) /\ Cardinality({1, 2}) = 2 /\ IsFiniteSet({1}) /\ Cardinality({1}) = 1
  <2>1. IsFiniteSet({1}) /\ Cardinality({1}) = 1
    BY FS_Singleton
  <2>2. IsFiniteSet({1} \cup {2}) /\ Cardinality({1} \cup {2}) = 2
    BY <2>1, FS_AddElement
  <2>3. {1} \cup {2} = {1, 2}
    OBVIOUS
  <2> QED BY <2>1, <2>2, <2>3
<1>2. PICK D : D = DOMAIN e
  OBVIOUS
<1>3. PICK n : n = Cardinality(D)
  OBVIOUS
<1>4. n \in Nat
  BY <1>2, <1>3, FS_CardinalityType
<1>5. /\ IsFiniteSet(D \X {1, 2}) /\ Cardinality(D \X {1, 2}) = n * 2
      /\ IsFiniteSet(D \X {1}) /\ Cardinality(D \X {1}) = n * 1
  BY <1>1, <1>2, <1>3, FS_Product
<1>6. Units(e) \subseteq D \X {1, 2}
  BY <1>2 DEF Units
<1>7. D \X {1} \subseteq Units(e)
  <2> SUFFICES ASSUME NEW u \in D \X {1} PROVE u \in Units(e)
    OBVIOUS
  <2>1. u \in (DOMAIN e) \X {1, 2} /\ u[2] = 1
    BY <1>2
  <2>2. Size(e[u[1]]) \in {1, 2}
    BY DEF Size
  <2>3. u[2] <= Size(e[u[1]])
    BY <2>1, <2>2
  <2> QED BY <2>1, <2>3 DEF Units
<1>8. IsFiniteSet(Units(e)) /\ Cardinality(Units(e)) <= n * 2
  BY <1>5, <1>6, FS_Subset
<1>9. n * 1 <= Cardinality(Units(e))
  BY <1>5, <1>7, <1>8, FS_Subset
<1>10. Used(e) = Cardinality(Units(e))
  BY DEF Used, Units
<1>11. Cardinality(Units(e)) \in Nat
  BY <1>8, FS_CardinalityType
<1>12. ASSUME \A k \in DOMAIN e : e[k] \notin LongValue PROVE Used(e) = n
  <2>1. Units(e) \subseteq D \X {1}
    <3> SUFFICES ASSUME NEW u \in Units(e) PROVE u \in D \X {1}
      OBVIOUS
    <3>1. u \in D \X {1, 2} /\ u[2] <= Size(e[u[1]])
      BY <1>2 DEF Units
    <3>2. Size(e[u[1]]) = 1
      BY <1>2, <1>12, <3>1 DEF Size
    <3>3. u[2] # 2
      BY <3>1, <3>2
    <3> QED BY <3>1, <3>3
  <2>2. Units(e) = D \X {1}
    BY <1>7, <2>1
  <2> QED BY <1>4, <1>5, <1>10, <2>2
<1> QED
  <2>1. /\ n <= Cardinality(Units(e)) /\ Cardinality(Units(e)) <= 2 * n
    BY ONLY <1>4, <1>8, <1>9, <1>11
  <2> QED BY <1>2, <1>3, <1>4, <1>8, <1>10, <1>11, <1>12, <2>1

LEMMA UsedSplit ==
  ASSUME NEW e, IsFiniteSet(DOMAIN e), NEW S, NEW T, S \cup T = DOMAIN e, S \cap T = {}
  PROVE  Used(e) = Used(Of(e, S)) + Used(Of(e, T))
<1>1. IsFiniteSet(S) /\ IsFiniteSet(T)
  BY FS_Subset
<1>2. DOMAIN Of(e, S) = S /\ DOMAIN Of(e, T) = T
  BY DEF Of
<1>3. Units(e) = Units(Of(e, S)) \cup Units(Of(e, T))
  <2>1. ASSUME NEW u \in Units(e) PROVE u \in Units(Of(e, S)) \cup Units(Of(e, T))
    <3>1. u \in (DOMAIN e) \X {1, 2} /\ u[2] <= Size(e[u[1]])
      BY DEF Units
    <3>2. CASE u[1] \in S
      <4>1. u \in S \X {1, 2} /\ Of(e, S)[u[1]] = e[u[1]]
        BY <3>1, <3>2 DEF Of
      <4> QED BY <1>2, <3>1, <4>1 DEF Units
    <3>3. CASE u[1] \in T
      <4>1. u \in T \X {1, 2} /\ Of(e, T)[u[1]] = e[u[1]]
        BY <3>1, <3>3 DEF Of
      <4> QED BY <1>2, <3>1, <4>1 DEF Units
    <3>4. u[1] \in DOMAIN e
      BY <3>1
    <3> QED BY <3>2, <3>3, <3>4
  <2>2. ASSUME NEW u \in Units(Of(e, S)) PROVE u \in Units(e)
    <3>1. u \in S \X {1, 2} /\ u[2] <= Size(Of(e, S)[u[1]])
      BY <1>2 DEF Units
    <3>2. u \in (DOMAIN e) \X {1, 2} /\ Of(e, S)[u[1]] = e[u[1]]
      BY <3>1 DEF Of
    <3> QED BY <3>1, <3>2 DEF Units
  <2>3. ASSUME NEW u \in Units(Of(e, T)) PROVE u \in Units(e)
    <3>1. u \in T \X {1, 2} /\ u[2] <= Size(Of(e, T)[u[1]])
      BY <1>2 DEF Units
    <3>2. u \in (DOMAIN e) \X {1, 2} /\ Of(e, T)[u[1]] = e[u[1]]
      BY <3>1 DEF Of
    <3> QED BY <3>1, <3>2 DEF Units
  <2> QED BY <2>1, <2>2, <2>3
<1>4. Units(Of(e, S)) \cap Units(Of(e, T)) = {}
  <2>1. Units(Of(e, S)) \subseteq S \X {1, 2} /\ Units(Of(e, T)) \subseteq T \X {1, 2}
    BY <1>2 DEF Units
  <2> QED BY <2>1
<1>5. /\ IsFiniteSet(Units(Of(e, S))) /\ Used(Of(e, S)) = Cardinality(Units(Of(e, S)))
      /\ IsFiniteSet(Units(Of(e, T))) /\ Used(Of(e, T)) = Cardinality(Units(Of(e, T)))
      /\ Used(e) = Cardinality(Units(e)) /\ Used(Of(e, S)) \in Nat /\ Used(Of(e, T)) \in Nat
  BY <1>1, <1>2, UsedBounds
<1>6. Cardinality(Units(e)) = Cardinality(Units(Of(e, S))) + Cardinality(Units(Of(e, T)))
                               - Cardinality(Units(Of(e, S)) \cap Units(Of(e, T)))
  BY <1>3, <1>5, FS_Union
<1>7. Cardinality(Units(Of(e, S)) \cap Units(Of(e, T))) = 0
  BY <1>4, FS_EmptySet
<1> QED BY ONLY <1>5, <1>6, <1>7

LEMMA UsedOne ==
  ASSUME NEW v, NEW k
  PROVE  Used([j \in {k} |-> v]) = Size(v)
<1> DEFINE e == [j \in {k} |-> v]
<1>1. DOMAIN e = {k} /\ e[k] = v
  OBVIOUS
<1>2. Units(e) = {<<k, 1>>} \cup (IF v \in LongValue THEN {<<k, 2>>} ELSE {})
  <2>1. \A u \in {k} \X {1, 2} : u = <<k, 1>> \/ u = <<k, 2>>
    OBVIOUS
  <2>2. CASE v \in LongValue
    <3>1. \A u \in {k} \X {1, 2} : u[2] <= Size(e[u[1]])
      BY <2>2 DEF Size
    <3>2. Units(e) = {k} \X {1, 2}
      BY <1>1, <3>1 DEF Units
    <3>3. {k} \X {1, 2} = {<<k, 1>>} \cup {<<k, 2>>}
      OBVIOUS
    <3> QED BY <2>2, <3>2, <3>3
  <2>3. CASE v \notin LongValue
    <3>1. \A u \in {k} \X {1, 2} : u[2] <= Size(e[u[1]]) <=> u = <<k, 1>>
      BY <2>3 DEF Size
    <3>2. <<k, 1>> \in {k} \X {1, 2}
      OBVIOUS
    <3>3. Units(e) = {<<k, 1>>}
      BY <1>1, <3>1, <3>2 DEF Units
    <3> QED BY <2>3, <3>3
  <2> QED BY <2>2, <2>3
<1>3. Used(e) = Cardinality(Units(e))
  BY DEF Used, Units
<1>4. <<k, 2>> # <<k, 1>>
  OBVIOUS
<1>5. IsFiniteSet({<<k, 1>>}) /\ Cardinality({<<k, 1>>}) = 1
  BY FS_Singleton
<1>6. Cardinality({<<k, 1>>} \cup {<<k, 2>>}) = 2
  <2>1. PICK a, b : a = <<k, 1>> /\ b = <<k, 2>>
    OBVIOUS
  <2>2. IsFiniteSet({a}) /\ Cardinality({a}) = 1 /\ b \notin {a}
    BY <1>4, <2>1, FS_Singleton
  <2>3. Cardinality({a} \cup {b}) = IF b \in {a} THEN Cardinality({a}) ELSE Cardinality({a}) + 1
    BY ONLY <2>2, FS_AddElement
  <2>4. Cardinality({a} \cup {b}) = 2
    BY ONLY <2>2, <2>3
  <2> QED BY <2>1, <2>4
<1>7. CASE v \in LongValue
  <2>1. Units(e) = {<<k, 1>>} \cup {<<k, 2>>}
    BY <1>2, <1>7
  <2> QED BY <1>3, <1>6, <1>7, <2>1 DEF Size
<1>8. CASE v \notin LongValue
  <2>1. Units(e) = {<<k, 1>>}
    BY <1>2, <1>8
  <2> QED BY <1>3, <1>5, <1>8, <2>1 DEF Size
<1> QED BY <1>7, <1>8

(* Adding, replacing and removing an entry.                                *)
LEMMA UsedWithout ==
  ASSUME NEW e, IsFiniteSet(DOMAIN e), NEW k \in DOMAIN e
  PROVE  Used(Of(e, DOMAIN e \ {k})) + Size(e[k]) = Used(e)
<1>1. Used(e) = Used(Of(e, DOMAIN e \ {k})) + Used(Of(e, {k}))
  BY UsedSplit
<1>2. Of(e, {k}) = [j \in {k} |-> e[k]]
  BY DEF Of
<1>3. Used(Of(e, {k})) = Size(e[k])
  BY <1>2, UsedOne
<1> QED BY <1>1, <1>3

LEMMA UsedWith ==
  ASSUME NEW e, IsFiniteSet(DOMAIN e), NEW k, NEW v
  PROVE  Used(With(e, k, v)) = IF k \in DOMAIN e THEN Used(e) - Size(e[k]) + Size(v)
                               ELSE Used(e) + Size(v)
<1> DEFINE w == With(e, k, v)
           r == [j \in DOMAIN e \ {k} |-> e[j]]
<1>1. DOMAIN w = DOMAIN e \cup {k} /\ IsFiniteSet(DOMAIN e \cup {k}) /\ w[k] = v
  BY FS_AddElement DEF With
<1>2. Used(Of(w, DOMAIN w \ {k})) + Size(w[k]) = Used(w)
  <2> HIDE DEF w
  <2> QED BY <1>1, UsedWithout
<1>3. Of(w, DOMAIN w \ {k}) = r
  BY <1>1 DEF Of, With
<1>4. Used(r) \in Nat /\ Used(e) \in Nat /\ Size(v) \in Nat /\ Size(e[k]) \in Nat
  <2>1. DOMAIN r = DOMAIN e \ {k} /\ IsFiniteSet(DOMAIN e \ {k})
    BY FS_Subset
  <2>2. Used(r) \in Nat /\ Used(e) \in Nat
    <3> HIDE DEF r
    <3> QED BY <2>1, UsedBounds
  <2> QED BY <2>2 DEF Size
<1>5. CASE k \in DOMAIN e
  <2>1. Of(e, DOMAIN e \ {k}) = r
    BY DEF Of
  <2>2. Used(r) + Size(e[k]) = Used(e)
    BY <1>5, <2>1, UsedWithout
  <2> HIDE DEF r, w
  <2>3. Used(w) = Used(e) - Size(e[k]) + Size(v)
    BY ONLY <1>1, <1>2, <1>3, <1>4, <2>2
  <2> QED BY <1>5, <2>3 DEF w
<1>6. CASE k \notin DOMAIN e
  <2>1. Used(r) = Used(e)
    <3>1. DOMAIN e \ {k} = DOMAIN e
      BY <1>6
    <3>2. Units(r) = Units(e)
      <4>1. \A u \in (DOMAIN e) \X {1, 2} : r[u[1]] = e[u[1]]
        BY <3>1
      <4>2. DOMAIN r = DOMAIN e
        BY <3>1
      <4> QED BY <4>1, <4>2 DEF Units
    <3> QED BY <3>2 DEF Used, Units
  <2> HIDE DEF r, w
  <2>2. Used(w) = Used(e) + Size(v)
    BY ONLY <1>1, <1>2, <1>3, <1>4, <2>1
  <2> QED BY <1>6, <2>2 DEF w
<1> QED BY <1>5, <1>6

-----------------------------------------------------------------------------
(***************************************************************************)
(* Leaves.  A good leaf has entries of the right types, and its free space *)
(* promises no more than there is; a short one holds no long value.        *)
(***************************************************************************)
GoodLeaf(l) ==
  /\ l = Leaf(l.entries, l.free, l.prev)
  /\ IsFiniteSet(DOMAIN l.entries) /\ DOMAIN l.entries \subseteq Key
  /\ \A k \in DOMAIN l.entries : l.entries[k] \in Value
  /\ l.free \in Nat /\ l.free + Used(l.entries) <= Cap
Short(l) == \A k \in DOMAIN l.entries : l.entries[k] \notin LongValue
Count(l) == Cardinality(DOMAIN l.entries)

LEMMA CapNat == Cap \in Nat /\ Cap >= 4 /\ SplitAt \in Nat /\ DelMin \in Nat /\ BorMin \in Nat
BY TreeAssumption

LEMMA GoodCount ==
  ASSUME NEW l, GoodLeaf(l)
  PROVE  /\ Count(l) \in Nat /\ Used(l.entries) \in Nat /\ l.free \in 0 .. Cap
         /\ Count(l) <= Used(l.entries) /\ Used(l.entries) <= 2 * Count(l)
         /\ Short(l) => Used(l.entries) = Count(l)
         /\ Count(l) = 0 <=> DOMAIN l.entries = {}
<1>1. PICK e : e = l.entries
  OBVIOUS
<1>2. IsFiniteSet(DOMAIN e)
  BY <1>1 DEF GoodLeaf
<1>3. /\ Used(e) \in Nat
      /\ Cardinality(DOMAIN e) \in Nat
      /\ Cardinality(DOMAIN e) <= Used(e) /\ Used(e) <= 2 * Cardinality(DOMAIN e)
      /\ (\A k \in DOMAIN e : e[k] \notin LongValue) => Used(e) = Cardinality(DOMAIN e)
  BY <1>2, UsedBounds
<1>4. l.free \in Nat /\ l.free + Used(e) <= Cap
  BY <1>1 DEF GoodLeaf
<1>5. l.free \in 0 .. Cap
  BY ONLY <1>3, <1>4, CapNat
<1>6. Cardinality(DOMAIN e) = 0 <=> DOMAIN e = {}
  BY <1>2, FS_EmptySet
<1> QED BY <1>1, <1>3, <1>5, <1>6 DEF Short, Count

LEMMA InsertGood ==
  ASSUME NEW l, GoodLeaf(l), NEW k \in Key, NEW v \in Value, HasSpace(l, v)
  PROVE  LET n == LeafInsert(l, k, v) IN
         /\ GoodLeaf(n) /\ n.prev = l.prev
         /\ DOMAIN n.entries = DOMAIN l.entries \cup {k} /\ n.entries[k] = v
         /\ \A j \in DOMAIN l.entries \ {k} : n.entries[j] = l.entries[j]
         /\ Count(n) = IF k \in DOMAIN l.entries THEN Count(l) ELSE Count(l) + 1
         /\ Short(l) /\ v \notin LongValue =>
              /\ Short(n)
              /\ n.free = IF k \in DOMAIN l.entries THEN l.free ELSE l.free - 1
<1> DEFINE n == LeafInsert(l, k, v)
           more == Size(v) - Size(l.entries[k])
<1>1. /\ n.entries = With(l.entries, k, v) /\ n.prev = l.prev
      /\ n.free = IF k \notin DOMAIN l.entries THEN AtLeastZero(l.free - Size(v))
                  ELSE IF more < 0 THEN 0 ELSE AtLeastZero(l.free - more)
      /\ n = Leaf(n.entries, n.free, n.prev)
  BY DEF LeafInsert, Leaf
<1>2. PICK e, f : e = l.entries /\ f = l.free
  OBVIOUS
<1>3. /\ IsFiniteSet(DOMAIN e) /\ f \in Nat /\ f + Used(e) <= Cap /\ Used(e) \in Nat
      /\ DOMAIN e \subseteq Key /\ \A j \in DOMAIN e : e[j] \in Value
  BY <1>2, GoodCount DEF GoodLeaf
<1>4. Size(v) \in {1, 2} /\ Size(e[k]) \in {1, 2} /\ f >= Size(v)
  BY <1>2 DEF Size, HasSpace
<1>5. PICK w : w = With(e, k, v)
  OBVIOUS
<1>6. /\ DOMAIN w = DOMAIN e \cup {k} /\ w[k] = v
      /\ \A j \in DOMAIN e \ {k} : w[j] = e[j]
  BY <1>5 DEF With
<1>7. Used(w) = IF k \in DOMAIN e THEN Used(e) - Size(e[k]) + Size(v) ELSE Used(e) + Size(v)
  BY <1>3, <1>5, UsedWith
<1>8. n.free \in Nat /\ n.free + Used(w) <= Cap
  <2>1. CASE k \notin DOMAIN e
    <3>1. n.free = f - Size(v)
      BY <1>1, <1>2, <1>3, <1>4, <2>1 DEF AtLeastZero
    <3> QED BY ONLY <1>3, <1>4, <1>7, <2>1, <3>1, CapNat
  <2>2. CASE k \in DOMAIN e
    <3>1. PICK m : m = Size(v) - Size(e[k])
      OBVIOUS
    <3>2. n.free = IF m < 0 THEN 0 ELSE AtLeastZero(f - m)
      BY <1>1, <1>2, <2>2, <3>1
    <3>3. m \in Int /\ f >= m /\ Used(w) = Used(e) + m
      BY ONLY <1>3, <1>4, <1>7, <2>2, <3>1
    <3>4. n.free = IF m < 0 THEN 0 ELSE f - m
      BY ONLY <1>3, <3>2, <3>3 DEF AtLeastZero
    <3> QED BY ONLY <1>3, <3>3, <3>4, CapNat
  <2> QED BY <2>1, <2>2
<1>9. n.entries = w
  BY <1>1, <1>2, <1>5
<1>10. /\ IsFiniteSet(DOMAIN w)
       /\ Cardinality(DOMAIN w) = IF k \in DOMAIN e THEN Cardinality(DOMAIN e) ELSE Cardinality(DOMAIN e) + 1
  BY <1>3, <1>6, FS_AddElement
<1>11. DOMAIN w \subseteq Key /\ \A j \in DOMAIN w : w[j] \in Value
  BY <1>3, <1>6
<1>12. GoodLeaf(n)
  BY <1>1, <1>8, <1>9, <1>10, <1>11 DEF GoodLeaf
<1>13. ASSUME Short(l), v \notin LongValue
       PROVE  Short(n) /\ n.free = IF k \in DOMAIN e THEN f ELSE f - 1
  <2>1. Short(n)
    BY <1>2, <1>6, <1>9, <1>13 DEF Short
  <2>2. Size(v) = 1 /\ (k \in DOMAIN e => Size(e[k]) = 1)
    BY <1>2, <1>13 DEF Size, Short
  <2> QED BY <1>1, <1>2, <1>3, <1>4, <2>1, <2>2 DEF AtLeastZero
<1> HIDE DEF n
<1>14. /\ GoodLeaf(n) /\ n.prev = l.prev
       /\ DOMAIN n.entries = DOMAIN l.entries \cup {k} /\ n.entries[k] = v
       /\ \A j \in DOMAIN l.entries \ {k} : n.entries[j] = l.entries[j]
  BY <1>1, <1>2, <1>6, <1>9, <1>12
<1>15. Count(n) = IF k \in DOMAIN l.entries THEN Count(l) ELSE Count(l) + 1
  BY <1>2, <1>9, <1>10 DEF Count
<1> QED BY <1>2, <1>13, <1>14, <1>15 DEF n

LEMMA RemoveGood ==
  ASSUME NEW l, GoodLeaf(l), NEW k \in DOMAIN l.entries
  PROVE  LET n == LeafRemove(l, k) IN
         /\ GoodLeaf(n) /\ n.prev = l.prev
         /\ DOMAIN n.entries = DOMAIN l.entries \ {k}
         /\ \A j \in DOMAIN n.entries : n.entries[j] = l.entries[j]
         /\ Count(n) = Count(l) - 1
         /\ Short(l) => Short(n) /\ n.free = l.free + 1
<1> DEFINE n == LeafRemove(l, k)
<1>1. PICK e, f : e = l.entries /\ f = l.free
  OBVIOUS
<1>2. /\ IsFiniteSet(DOMAIN e) /\ f \in Nat /\ f + Used(e) <= Cap /\ Used(e) \in Nat
      /\ DOMAIN e \subseteq Key /\ \A j \in DOMAIN e : e[j] \in Value
  BY <1>1, GoodCount DEF GoodLeaf
<1>3. PICK w : w = Of(e, DOMAIN e \ {k})
  OBVIOUS
<1>4. /\ n.entries = w /\ n.prev = l.prev /\ n.free = f + Size(e[k])
      /\ n = Leaf(n.entries, n.free, n.prev)
  BY <1>1, <1>3 DEF LeafRemove, Leaf, Of
<1>5. DOMAIN w = DOMAIN e \ {k} /\ \A j \in DOMAIN w : w[j] = e[j]
  BY <1>3 DEF Of
<1>6. Used(w) + Size(e[k]) = Used(e)
  BY <1>1, <1>2, <1>3, UsedWithout
<1>7. IsFiniteSet(DOMAIN w) /\ Cardinality(DOMAIN w) = Cardinality(DOMAIN e) - 1
  BY <1>1, <1>2, <1>5, FS_RemoveElement
<1>8. Size(e[k]) \in {1, 2} /\ Used(w) \in Nat
  BY <1>7, UsedBounds DEF Size
<1>9. n.free \in Nat /\ n.free + Used(w) <= Cap
  BY ONLY <1>2, <1>4, <1>6, <1>8, CapNat
<1>10. GoodLeaf(n)
  <2>1. DOMAIN w \subseteq Key /\ \A j \in DOMAIN w : w[j] \in Value
    BY <1>2, <1>5
  <2> QED BY <1>4, <1>7, <1>9, <2>1 DEF GoodLeaf
<1>11. ASSUME Short(l) PROVE Short(n) /\ n.free = f + 1
  <2>1. Size(e[k]) = 1
    BY <1>1, <1>11 DEF Short, Size
  <2> QED BY <1>1, <1>4, <1>5, <1>11, <2>1 DEF Short
<1>12. Count(n) = Count(l) - 1
  BY <1>1, <1>4, <1>7 DEF Count
<1> HIDE DEF n
<1> QED BY <1>1, <1>4, <1>5, <1>10, <1>11, <1>12 DEF n

IsPart(n, l, S, p) ==
  /\ GoodLeaf(n) /\ n.prev = p /\ DOMAIN n.entries = S
  /\ \A j \in S : n.entries[j] = l.entries[j]
  /\ n.free + Used(n.entries) = Cap
  /\ Used(n.entries) + Cardinality(DOMAIN l.entries \ S) <= Used(l.entries)
  /\ Short(l) => Short(n) /\ n.free = Cap - Cardinality(S)

LEMMA PartGood ==
  ASSUME NEW l, GoodLeaf(l), NEW S \in SUBSET DOMAIN l.entries, NEW p
  PROVE  IsPart(Part(l.entries, S, p), l, S, p)
<1>0. PICK n : n = Part(l.entries, S, p)
  OBVIOUS
<1>1. PICK e, f : e = l.entries /\ f = l.free
  OBVIOUS
<1>2. /\ IsFiniteSet(DOMAIN e) /\ f \in Nat /\ f + Used(e) <= Cap /\ Used(e) \in Nat
      /\ DOMAIN e \subseteq Key /\ \A j \in DOMAIN e : e[j] \in Value
  BY <1>1, GoodCount DEF GoodLeaf
<1>3. PICK w, R, u : w = Of(e, S) /\ R = DOMAIN e \ S /\ u = Of(e, R)
  OBVIOUS
<1>4. /\ n.entries = w /\ n.prev = p /\ n.free = Cap - Used(w)
      /\ n = Leaf(n.entries, n.free, n.prev)
  BY <1>0, <1>1, <1>3 DEF Part, Leaf, Of
<1>5. DOMAIN w = S /\ (\A j \in S : w[j] = e[j]) /\ DOMAIN u = R
  BY <1>3 DEF Of
<1>6. Used(e) = Used(w) + Used(u)
  BY <1>1, <1>2, <1>3, UsedSplit
<1>7. IsFiniteSet(S) /\ IsFiniteSet(R)
  BY <1>1, <1>2, <1>3, FS_Subset
<1>8. Used(w) \in Nat /\ Used(u) \in Nat /\ Cardinality(R) <= Used(u) /\ Cardinality(R) \in Nat
  BY <1>5, <1>7, UsedBounds
<1>9. /\ Cap - Used(w) \in Nat /\ (Cap - Used(w)) + Used(w) = Cap
      /\ Used(w) + Cardinality(R) <= Used(e)
  BY ONLY <1>2, <1>6, <1>8, CapNat
<1>10. GoodLeaf(n)
  <2>1. DOMAIN w \subseteq Key /\ \A j \in DOMAIN w : w[j] \in Value
    BY <1>1, <1>2, <1>5
  <2>2. n.free \in Nat /\ n.free + Used(w) <= Cap
    BY ONLY <1>4, <1>9, CapNat
  <2> QED BY <1>4, <1>5, <1>7, <2>1, <2>2 DEF GoodLeaf
<1>11. ASSUME Short(l) PROVE Short(n) /\ n.free = Cap - Cardinality(S)
  <2>1. \A j \in DOMAIN w : w[j] \notin LongValue
    BY <1>1, <1>5, <1>11 DEF Short
  <2>2. Used(w) = Cardinality(S)
    BY <1>5, <1>7, <2>1, UsedBounds
  <2> QED BY <1>4, <2>1, <2>2 DEF Short
<1>12. n.free + Used(n.entries) = Cap
  BY <1>4, <1>9
<1> QED BY <1>0, <1>1, <1>3, <1>4, <1>5, <1>9, <1>10, <1>11, <1>12 DEF IsPart

(* The halves a split makes of a leaf's entries.                           *)
LEMMA Halves ==
  ASSUME NEW e, IsFiniteSet(DOMAIN e), DOMAIN e \subseteq Nat
  PROVE  LET m == Cardinality(DOMAIN e)  L == DOMAIN e \ Upper(e) IN
         /\ m \in Nat /\ Upper(e) \subseteq DOMAIN e
         /\ IsFiniteSet(L) /\ Cardinality(L) = m \div 2
         /\ IsFiniteSet(Upper(e)) /\ Cardinality(Upper(e)) = m - (m \div 2)
         /\ \A x \in L, y \in Upper(e) : x < y
<1>1. PICK D : D = DOMAIN e
  OBVIOUS
<1>2. PICK m : m = Cardinality(D)
  OBVIOUS
<1>3. m \in Nat
  BY <1>1, <1>2, FS_CardinalityType
<1>4. PICK c : c = m \div 2
  OBVIOUS
<1>5. c \in Nat /\ c <= m
  BY ONLY <1>3, <1>4
<1>6. Upper(e) = D \ Below(D, c)
  <2>1. Upper(e) = {k \in D : Rank(D, k) >= c}
    BY <1>1, <1>2, <1>4 DEF Upper, Rank
  <2>2. \A k \in D : Rank(D, k) \in Nat
    BY <1>1, RankType
  <2>3. \A k \in D : Rank(D, k) >= c <=> ~(Rank(D, k) < c)
    BY ONLY <1>5, <2>2
  <2> QED BY <2>1, <2>3 DEF Below
<1>7. D \ Upper(e) = Below(D, c)
  BY <1>6 DEF Below
<1>8. Cardinality(Below(D, c)) = c /\ IsFiniteSet(Below(D, c)) /\ Below(D, c) \subseteq D
  <2>1. Below(D, c) \subseteq D
    BY DEF Below
  <2> QED BY <1>1, <1>2, <1>5, <2>1, BelowCount, FS_Subset
<1>9. IsFiniteSet(D \ Below(D, c)) /\ Cardinality(D \ Below(D, c)) = m - c
  <2>1. D \cap Below(D, c) = Below(D, c)
    BY <1>8
  <2>2. /\ IsFiniteSet(D \ Below(D, c))
        /\ Cardinality(D \ Below(D, c)) = Cardinality(D) - Cardinality(D \cap Below(D, c))
    BY <1>1, FS_Difference
  <2> QED BY <1>2, <1>8, <2>1, <2>2
<1>10. \A x \in Below(D, c), y \in D \ Below(D, c) : x < y
  BY <1>1, <1>5, BelowLess
<1> QED BY <1>1, <1>2, <1>3, <1>4, <1>6, <1>7, <1>8, <1>9, <1>10

-----------------------------------------------------------------------------
(***************************************************************************)
(* Descents.  In a tree whose inner nodes lie above older pages a descent  *)
(* ends in a leaf, and depends only on the inner nodes it passes.          *)
(***************************************************************************)
Ends0(f, M, leafs, side) == \A p \in M : f[p] = IF p \in leafs THEN p ELSE f[side[p]]

Descends(M, top, leafs, side) ==
  /\ top \in Nat /\ M \subseteq 0 .. top
  /\ side \in [M -> M] /\ \A p \in M \ leafs : side[p] < p

LEMMA EndExists ==
  ASSUME NEW M, NEW top \in Nat, M \subseteq 0 .. top, NEW leafs, leafs \subseteq M,
         NEW side \in [M -> M], \A p \in M \ leafs : side[p] < p
  PROVE  \E f \in [M -> leafs] : Ends0(f, M, leafs, side)
<1> DEFINE To(n) == {p \in M : p < n}
           Fn(n) == {f \in [To(n) -> leafs] : Ends0(f, To(n), leafs, side)}
           N == {n \in Nat : Fn(n) # {}}
<1>0. \A p \in M : p \in Nat
  OBVIOUS
<1>1. 0 \in N
  <2>1. To(0) = {}
    <3>1. \A p \in M : ~(p < 0)
      BY ONLY <1>0
    <3> QED BY <3>1
  <2>2. [p \in {} |-> 0] \in Fn(0)
    BY <2>1 DEF Ends0
  <2> QED BY <2>2
<1>2. ASSUME NEW n \in Nat, n \in N PROVE n + 1 \in N
  <2>1. PICK g : g \in Fn(n)
    BY <1>2
  <2>2. g \in [To(n) -> leafs] /\ Ends0(g, To(n), leafs, side)
    BY <2>1
  <2> DEFINE f == [p \in To(n + 1) |-> IF p < n THEN g[p]
                                       ELSE IF p \in leafs THEN p ELSE g[side[p]]]
  <2>3. ASSUME NEW p \in To(n + 1)
        PROVE  p \in M /\ p \in Nat /\ (p < n => p \in To(n)) /\ (~(p < n) => p = n)
    BY <1>0
  <2>4. ASSUME NEW p \in M \ leafs, p < n + 1
        PROVE  side[p] \in To(n) /\ side[p] \in To(n + 1)
    <3>1. side[p] \in M /\ side[p] < p /\ side[p] \in Nat /\ p \in Nat
      BY <1>0
    <3> QED BY <2>4, <3>1
  <2>5. f \in [To(n + 1) -> leafs]
    <3> SUFFICES ASSUME NEW p \in To(n + 1) PROVE f[p] \in leafs
      OBVIOUS
    <3> HIDE DEF To
    <3>1. CASE p < n
      BY <2>2, <2>3, <3>1
    <3>2. CASE ~(p < n) /\ p \in leafs
      BY <3>2
    <3>3. CASE ~(p < n) /\ p \notin leafs
      <4>1. p \in M \ leafs /\ p < n + 1
        BY <2>3, <3>3
      <4>2. g[side[p]] \in leafs
        BY <2>2, <2>4, <4>1
      <4> QED BY <3>3, <4>2
    <3> QED BY <3>1, <3>2, <3>3
  <2>6. ASSUME NEW p \in To(n + 1) PROVE f[p] = IF p \in leafs THEN p ELSE f[side[p]]
    <3>s. \A q \in To(n) : q < n /\ q \in To(n + 1)
      BY <1>0
    <3> HIDE DEF To
    <3>1. CASE p < n
      <4>1. p \in To(n) /\ f[p] = g[p]
        BY <2>3, <3>1
      <4>2. g[p] = IF p \in leafs THEN p ELSE g[side[p]]
        BY <2>2, <4>1 DEF Ends0
      <4>3. p \notin leafs => side[p] \in To(n)
        <5>1. p \in M /\ p < n + 1
          BY <2>3
        <5> QED BY <2>4, <5>1
      <4>4. p \notin leafs => f[side[p]] = g[side[p]]
        BY <3>s, <4>3
      <4> QED BY <4>1, <4>2, <4>4
    <3>2. CASE ~(p < n)
      <4>1. p \notin leafs => side[p] \in To(n)
        <5>1. p \in M /\ p < n + 1
          BY <2>3
        <5> QED BY <2>4, <5>1
      <4>2. p \notin leafs => f[side[p]] = g[side[p]]
        BY <3>s, <4>1
      <4> QED BY <3>2, <4>2
    <3> QED BY <3>1, <3>2
  <2> HIDE DEF f
  <2>7. f \in Fn(n + 1)
    BY <2>5, <2>6 DEF Ends0
  <2> QED BY <2>7
<1> HIDE DEF Fn
<1>3. top + 1 \in N
  <2> HIDE DEF N
  <2> QED BY <1>1, <1>2, SetInduction
<1>4. To(top + 1) = M
  <2>1. \A p \in M : p \in 0 .. top
    OBVIOUS
  <2>2. \A p \in M : p < top + 1
    BY ONLY <2>1, top \in Nat
  <2> QED BY <2>2
<1>5. PICK f : f \in Fn(top + 1)
  BY <1>3
<1> QED BY <1>4, <1>5 DEF Fn

(* Two descents agree where the trees do; there is one in a tree.          *)
LEMMA EndUnique ==
  ASSUME NEW M, NEW top, NEW leafs, NEW side, Descends(M, top, leafs, side),
         NEW f, Ends0(f, M, leafs, side), NEW g, Ends0(g, M, leafs, side)
  PROVE  \A p \in M : g[p] = f[p]
<1> DEFINE B == {p \in M : g[p] # f[p]}
<1> SUFFICES ASSUME B # {} PROVE FALSE
  OBVIOUS
<1>0. /\ \A p \in M : p \in Nat
      /\ side \in [M -> M] /\ \A p \in M \ leafs : side[p] < p
  <2>1. top \in Nat /\ \A p \in M : p \in 0 .. top
    BY DEF Descends
  <2>2. \A p \in M : p \in Nat
    BY ONLY <2>1
  <2> QED BY <2>2 DEF Descends
<1>1. B \subseteq Nat
  BY <1>0
<1>2. PICK p \in B : \A q \in B : p <= q
  <2> HIDE DEF B
  <2> QED BY <1>1, Least
<1>3. /\ f[p] = IF p \in leafs THEN p ELSE f[side[p]]
      /\ g[p] = IF p \in leafs THEN p ELSE g[side[p]]
  BY <1>2 DEF Ends0
<1>4. p \notin leafs /\ g[side[p]] # f[side[p]]
  BY <1>2, <1>3
<1>5. side[p] \in M /\ side[p] < p /\ side[p] \in Nat /\ p \in Nat
  BY <1>0, <1>2, <1>4
<1>6. p <= side[p]
  BY <1>2, <1>4, <1>5
<1> QED BY ONLY <1>5, <1>6

LEMMA EndAgree ==
  ASSUME NEW M, NEW top, NEW leafs, NEW side, Descends(M, top, leafs, side),
         NEW f, Ends0(f, M, leafs, side),
         NEW M2, NEW leafs2, NEW side2, NEW g, Ends0(g, M2, leafs2, side2),
         M \subseteq M2, \A p \in M : (p \in leafs <=> p \in leafs2) /\ (p \notin leafs => side2[p] = side[p])
  PROVE  \A p \in M : g[p] = f[p]
<1> DEFINE B == {p \in M : g[p] # f[p]}
<1> SUFFICES ASSUME B # {} PROVE FALSE
  OBVIOUS
<1>0. /\ \A p \in M : p \in Nat
      /\ side \in [M -> M] /\ \A p \in M \ leafs : side[p] < p
  <2>1. top \in Nat /\ \A p \in M : p \in 0 .. top
    BY DEF Descends
  <2>2. \A p \in M : p \in Nat
    BY ONLY <2>1
  <2> QED BY <2>2 DEF Descends
<1>1. B \subseteq Nat
  BY <1>0
<1>2. PICK p \in B : \A q \in B : p <= q
  <2> HIDE DEF B
  <2> QED BY <1>1, Least
<1>3. /\ f[p] = IF p \in leafs THEN p ELSE f[side[p]]
      /\ g[p] = IF p \in leafs2 THEN p ELSE g[side2[p]]
  BY <1>2 DEF Ends0
<1>4. p \notin leafs /\ side2[p] = side[p] /\ g[side[p]] # f[side[p]]
  BY <1>2, <1>3
<1>5. side[p] \in M /\ side[p] < p /\ side[p] \in Nat /\ p \in Nat
  BY <1>0, <1>2, <1>4
<1>6. side[p] \in B
  BY <1>4, <1>5
<1>7. p <= side[p]
  BY <1>2, <1>6
<1> QED BY ONLY <1>5, <1>7

-----------------------------------------------------------------------------
(***************************************************************************)
(* The pages as a tree.                                                    *)
(***************************************************************************)
NodesOf(pg) == {p \in DOMAIN pg : pg[p].kind # "unused"}
LeafsOf(pg) == {p \in DOMAIN pg : pg[p].kind = "leaf"}
Side(pg, k) == [p \in NodesOf(pg) |->
                  IF pg[p].kind = "leaf" THEN p
                  ELSE IF k < pg[p].sep THEN pg[p].left ELSE pg[p].right]
Walk(pg, r, k) ==
  LET down[p \in NodesOf(pg)] ==
        IF pg[p].kind = "leaf" THEN p
        ELSE down[IF k < pg[p].sep THEN pg[p].left ELSE pg[p].right]
  IN  down[r]

LEMMA LeafOfIsWalk == \A k : LeafOf(k) = Walk(page, root, k) /\ LeafOf(k)' = Walk(page', root', k)
BY DEF LeafOf, Walk, NodesOf, Nodes

(* Inner nodes lie over older ones.                                        *)
Downward(pg) ==
  /\ \E top \in Nat : NodesOf(pg) \subseteq 0 .. top
  /\ \A p \in NodesOf(pg) \ LeafsOf(pg) :
       /\ pg[p].left \in NodesOf(pg) /\ pg[p].left < p
       /\ pg[p].right \in NodesOf(pg) /\ pg[p].right < p

LEMMA WalkIs ==
  ASSUME NEW pg, Downward(pg), NEW k
  PROVE  \E f \in [NodesOf(pg) -> LeafsOf(pg)] :
           /\ Ends0(f, NodesOf(pg), LeafsOf(pg), Side(pg, k))
           /\ \A r : Walk(pg, r, k) = f[r]
<1>1. PICK M, lf, sd : M = NodesOf(pg) /\ lf = LeafsOf(pg) /\ sd = Side(pg, k)
  OBVIOUS
<1>2. lf \subseteq M
  BY <1>1 DEF NodesOf, LeafsOf
<1>3. PICK top \in Nat : M \subseteq 0 .. top
  BY <1>1 DEF Downward
<1>4. sd \in [M -> M] /\ \A p \in M \ lf : sd[p] < p
  BY <1>1 DEF Side, Downward, NodesOf, LeafsOf
<1>5. \E f \in [M -> lf] : Ends0(f, M, lf, sd)
  BY <1>2, <1>3, <1>4, EndExists
<1> DEFINE P(f) == f = [p \in NodesOf(pg) |->
                          IF pg[p].kind = "leaf" THEN p
                          ELSE f[IF k < pg[p].sep THEN pg[p].left ELSE pg[p].right]]
<1>6. \A f \in [M -> lf] : Ends0(f, M, lf, sd) => P(f)
  <2> SUFFICES ASSUME NEW f \in [M -> lf], Ends0(f, M, lf, sd) PROVE P(f)
    OBVIOUS
  <2>1. \A p \in M : f[p] = IF p \in lf THEN p ELSE f[sd[p]]
    BY DEF Ends0
  <2>2. ASSUME NEW p \in M
        PROVE  f[p] = IF pg[p].kind = "leaf" THEN p
                      ELSE f[IF k < pg[p].sep THEN pg[p].left ELSE pg[p].right]
    <3>1. p \in lf <=> pg[p].kind = "leaf"
      BY <1>1 DEF LeafsOf, NodesOf
    <3>2. pg[p].kind # "leaf" => sd[p] = IF k < pg[p].sep THEN pg[p].left ELSE pg[p].right
      BY <1>1 DEF Side
    <3> QED BY <2>1, <3>1, <3>2
  <2> QED BY <1>1, <2>2
<1>7. PICK d : d = CHOOSE f : P(f)
  OBVIOUS
<1>8. P(d)
  <2>1. \E f : P(f)
    BY <1>5, <1>6
  <2> HIDE DEF P
  <2> QED BY <1>7, <2>1
<1>9. Ends0(d, M, lf, sd)
  <2> SUFFICES ASSUME NEW p \in M PROVE d[p] = IF p \in lf THEN p ELSE d[sd[p]]
    BY DEF Ends0
  <2>1. d[p] = IF pg[p].kind = "leaf" THEN p
               ELSE d[IF k < pg[p].sep THEN pg[p].left ELSE pg[p].right]
    BY <1>1, <1>8
  <2>2. p \in lf <=> pg[p].kind = "leaf"
    BY <1>1 DEF LeafsOf, NodesOf
  <2>3. pg[p].kind # "leaf" => sd[p] = IF k < pg[p].sep THEN pg[p].left ELSE pg[p].right
    BY <1>1 DEF Side
  <2> QED BY <2>1, <2>2, <2>3
<1>10. d \in [M -> lf]
  <2>1. PICK f \in [M -> lf] : Ends0(f, M, lf, sd)
    BY <1>5
  <2>2. \A p \in M : d[p] = f[p]
    <3>1. Descends(M, top, lf, sd)
      BY <1>3, <1>4 DEF Descends
    <3> HIDE DEF P
    <3> QED BY <1>9, <2>1, <3>1, EndUnique
  <2>3. d = [p \in M |-> d[p]]
    BY <1>1, <1>8
  <2> HIDE DEF P
  <2> QED BY <2>1, <2>2, <2>3
<1>11. \A r : Walk(pg, r, k) = d[r]
  BY <1>7 DEF Walk
<1> QED BY <1>1, <1>9, <1>10, <1>11

(* Pages that are added and leaves that are rewritten leave a descent from *)
(* an old node as it was.                                                  *)
LEMMA WalkSame ==
  ASSUME NEW pg, Downward(pg), NEW pg2, Downward(pg2), NEW k, NEW r \in NodesOf(pg),
         \A p \in NodesOf(pg) :
           /\ p \in DOMAIN pg2 /\ pg2[p].kind = pg[p].kind
           /\ pg[p].kind # "leaf" => pg2[p] = pg[p]
  PROVE  Walk(pg2, r, k) = Walk(pg, r, k) /\ Walk(pg, r, k) \in LeafsOf(pg)
<1>1. PICK f \in [NodesOf(pg) -> LeafsOf(pg)] :
         /\ Ends0(f, NodesOf(pg), LeafsOf(pg), Side(pg, k))
         /\ \A q : Walk(pg, q, k) = f[q]
  BY WalkIs
<1>2. PICK g \in [NodesOf(pg2) -> LeafsOf(pg2)] :
         /\ Ends0(g, NodesOf(pg2), LeafsOf(pg2), Side(pg2, k))
         /\ \A q : Walk(pg2, q, k) = g[q]
  BY WalkIs
<1>3. PICK top \in Nat : NodesOf(pg) \subseteq 0 .. top
  BY DEF Downward
<1>4. Side(pg, k) \in [NodesOf(pg) -> NodesOf(pg)]
      /\ \A p \in NodesOf(pg) \ LeafsOf(pg) : Side(pg, k)[p] < p
  BY DEF Side, Downward, NodesOf, LeafsOf
<1>5. NodesOf(pg) \subseteq NodesOf(pg2)
  BY DEF NodesOf
<1>6. \A p \in NodesOf(pg) :
        /\ p \in LeafsOf(pg) <=> p \in LeafsOf(pg2)
        /\ p \notin LeafsOf(pg) => Side(pg2, k)[p] = Side(pg, k)[p]
  BY <1>5 DEF Side, NodesOf, LeafsOf
<1>7. \A p \in NodesOf(pg) : g[p] = f[p]
  <2>1. Descends(NodesOf(pg), top, LeafsOf(pg), Side(pg, k))
    BY <1>3, <1>4 DEF Descends
  <2> QED BY <1>1, <1>2, <1>5, <1>6, <2>1, EndAgree
<1> QED BY <1>1, <1>2, <1>7

-----------------------------------------------------------------------------
(***************************************************************************)
(* The shape of the tree: the pages follow one another, an inner node lies *)
(* over older nodes and its right child is the page before it, and every   *)
(* leaf but the first has been made with the inner node after it, whose    *)
(* separator is the lowest key the leaf was made for.                      *)
(***************************************************************************)
AsLeaf(pg, n, p) ==
  /\ GoodLeaf(pg[p]) /\ pg[p].prev \in LeafsOf(pg) \cup {0} /\ pg[p].prev < p
  /\ p # 2 => p + 1 \in 2 .. n /\ pg[p + 1].kind = "inner"
AsInner(pg, p) ==
  /\ pg[p] = Inner(pg[p].left, pg[p].sep, pg[p].right)
  /\ pg[p].left \in NodesOf(pg) /\ pg[p].left < p /\ pg[p].sep \in Key
  /\ pg[p].right \in LeafsOf(pg) /\ pg[p].right = p - 1
Shape(pg, n) ==
  /\ n \in Nat /\ n >= 2 /\ DOMAIN pg = 2 .. n /\ pg[2].kind = "leaf"
  /\ \A p \in 2 .. n : pg[p] = Unused \/ AsLeaf(pg, n, p) \/ AsInner(pg, p)

LEMMA Kinds ==
  ASSUME NEW pg, NEW n, Shape(pg, n)
  PROVE  /\ \A p \in LeafsOf(pg) : AsLeaf(pg, n, p) /\ p \in 2 .. n
         /\ \A p \in NodesOf(pg) \ LeafsOf(pg) : AsInner(pg, p) /\ p \in 2 .. n /\ pg[p].kind = "inner"
         /\ LeafsOf(pg) \subseteq NodesOf(pg) /\ NodesOf(pg) \subseteq 2 .. n
         /\ 2 \in LeafsOf(pg)
<1>1. \A p \in 2 .. n : AsLeaf(pg, n, p) => pg[p].kind = "leaf"
  BY DEF AsLeaf, GoodLeaf, Leaf
<1>2. \A p \in 2 .. n : AsInner(pg, p) => pg[p].kind = "inner"
  BY DEF AsInner, Inner
<1>3. \A p \in 2 .. n : pg[p] = Unused => pg[p].kind = "unused"
  BY DEF Unused
<1>4. LeafsOf(pg) \subseteq NodesOf(pg) /\ NodesOf(pg) \subseteq 2 .. n /\ 2 \in LeafsOf(pg)
  <2>1. "leaf" # "unused" /\ DOMAIN pg = 2 .. n /\ 2 \in 2 .. n
    BY DEF Shape
  <2> QED BY <2>1 DEF LeafsOf, NodesOf, Shape
<1>5. \A p \in 2 .. n : pg[p] = Unused \/ AsLeaf(pg, n, p) \/ AsInner(pg, p)
  BY DEF Shape
<1>6. ASSUME NEW p \in LeafsOf(pg) PROVE AsLeaf(pg, n, p) /\ p \in 2 .. n
  <2>1. pg[p].kind = "leaf" /\ p \in 2 .. n
    BY DEF LeafsOf, Shape
  <2> QED BY <1>2, <1>3, <1>5, <2>1
<1>7. ASSUME NEW p \in NodesOf(pg) \ LeafsOf(pg)
      PROVE  AsInner(pg, p) /\ p \in 2 .. n /\ pg[p].kind = "inner"
  <2>1. p \in 2 .. n /\ pg[p].kind # "unused" /\ pg[p].kind # "leaf"
    BY DEF LeafsOf, NodesOf, Shape
  <2> QED BY <1>1, <1>2, <1>3, <1>5, <2>1
<1> QED BY <1>4, <1>6, <1>7

LEMMA ShapeDownward ==
  ASSUME NEW pg, NEW n, Shape(pg, n)
  PROVE  Downward(pg)
<1>1. n \in Nat /\ \A p \in 2 .. n : p \in 0 .. n /\ p - 1 < p
  BY DEF Shape
<1>2. NodesOf(pg) \subseteq 0 .. n
  BY <1>1, Kinds
<1>3. ASSUME NEW p \in NodesOf(pg) \ LeafsOf(pg)
      PROVE  /\ pg[p].left \in NodesOf(pg) /\ pg[p].left < p
             /\ pg[p].right \in NodesOf(pg) /\ pg[p].right < p
  <2>1. AsInner(pg, p) /\ p \in 2 .. n /\ LeafsOf(pg) \subseteq NodesOf(pg)
    BY Kinds
  <2> QED BY <1>1, <2>1 DEF AsInner
<1> QED BY <1>1, <1>2, <1>3 DEF Downward

LoOf(pg, p) == IF p = 2 THEN 0 ELSE pg[p + 1].sep

(* A leaf is rewritten.                                                    *)
Rewritten(pg, p, l, pg2) ==
  /\ p \in LeafsOf(pg) /\ GoodLeaf(l) /\ l.prev = pg[p].prev
  /\ pg2 = [pg EXCEPT ![p] = l]

LEMMA Rewrite ==
  ASSUME NEW pg, NEW n, Shape(pg, n), NEW p, NEW l, NEW pg2, Rewritten(pg, p, l, pg2)
  PROVE  /\ Shape(pg2, n) /\ LeafsOf(pg2) = LeafsOf(pg) /\ NodesOf(pg2) = NodesOf(pg)
         /\ pg2[p] = l /\ \A q \in 2 .. n : q # p => pg2[q] = pg[q]
         /\ \A q \in LeafsOf(pg) : LoOf(pg2, q) = LoOf(pg, q)
         /\ \A r \in NodesOf(pg), k \in Key : Walk(pg2, r, k) = Walk(pg, r, k)
<1>1. /\ n \in Nat /\ n >= 2 /\ DOMAIN pg = 2 .. n /\ pg[2].kind = "leaf"
      /\ \A q \in 2 .. n : pg[q] = Unused \/ AsLeaf(pg, n, q) \/ AsInner(pg, q)
  BY DEF Shape
<1> USE DEF Rewritten
<1>2. p \in 2 .. n /\ pg[p].kind = "leaf" /\ l.kind = "leaf"
  BY <1>1 DEF LeafsOf, GoodLeaf, Leaf
<1>3. DOMAIN pg2 = 2 .. n /\ pg2[p] = l /\ \A q \in 2 .. n : q # p => pg2[q] = pg[q]
  BY <1>1, <1>2
<1>4. \A q \in 2 .. n : pg2[q].kind = pg[q].kind
  BY <1>2, <1>3
<1>5. LeafsOf(pg2) = LeafsOf(pg) /\ NodesOf(pg2) = NodesOf(pg)
  BY <1>1, <1>3, <1>4 DEF LeafsOf, NodesOf
<1>6. ASSUME NEW q \in 2 .. n PROVE pg2[q] = Unused \/ AsLeaf(pg2, n, q) \/ AsInner(pg2, q)
  <2>1. CASE q = p
    <3>1. AsLeaf(pg, n, p)
      BY Kinds
    <3>2. p # 2 => p + 1 \in 2 .. n /\ pg2[p + 1].kind = "inner"
      BY <1>4, <3>1 DEF AsLeaf
    <3>3. pg2[p].prev = pg[p].prev /\ GoodLeaf(pg2[p])
      BY <1>3
    <3> QED BY <1>5, <2>1, <3>1, <3>2, <3>3 DEF AsLeaf
  <2>2. CASE q # p /\ pg[q] = Unused
    BY <1>3, <2>2
  <2>3. CASE q # p /\ AsLeaf(pg, n, q)
    <3>1. q # 2 => q + 1 \in 2 .. n /\ pg2[q + 1].kind = "inner"
      BY <1>4, <2>3 DEF AsLeaf
    <3>2. pg2[q] = pg[q]
      BY <1>3, <2>3
    <3> QED BY <1>5, <2>3, <3>1, <3>2 DEF AsLeaf
  <2>4. CASE q # p /\ AsInner(pg, q)
    <3>1. pg2[q] = pg[q]
      BY <1>3, <2>4
    <3> QED BY <1>5, <2>4, <3>1 DEF AsInner
  <2> QED BY <1>1, <2>1, <2>2, <2>3, <2>4
<1>7. Shape(pg2, n)
  <2>1. pg2[2].kind = "leaf"
    BY <1>1, <1>4
  <2> QED BY <1>1, <1>3, <1>6, <2>1 DEF Shape
<1>8. ASSUME NEW q \in LeafsOf(pg) PROVE LoOf(pg2, q) = LoOf(pg, q)
  <2>1. AsLeaf(pg, n, q)
    BY Kinds
  <2>2. q # 2 => q + 1 \in 2 .. n /\ pg[q + 1].kind # "leaf"
    BY <2>1 DEF AsLeaf
  <2>3. q # 2 => pg2[q + 1] = pg[q + 1]
    BY <1>2, <1>3, <2>2
  <2> QED BY <2>3 DEF LoOf
<1>9. ASSUME NEW r \in NodesOf(pg), NEW k \in Key PROVE Walk(pg2, r, k) = Walk(pg, r, k)
  <2>1. Downward(pg) /\ Downward(pg2)
    BY <1>7, ShapeDownward
  <2>2. \A q \in NodesOf(pg) :
          /\ q \in DOMAIN pg2 /\ pg2[q].kind = pg[q].kind
          /\ pg[q].kind # "leaf" => pg2[q] = pg[q]
    BY <1>1, <1>2, <1>3, <1>4 DEF NodesOf
  <2> QED BY <2>1, <2>2, WalkSame
<1> QED BY <1>3, <1>5, <1>7, <1>8, <1>9

(* A page is allocated and left unwritten.                                 *)
LEMMA Allocate ==
  ASSUME NEW pg, NEW n, Shape(pg, n), NEW pg2, pg2 = With(pg, n + 1, Unused)
  PROVE  /\ Shape(pg2, n + 1) /\ LeafsOf(pg2) = LeafsOf(pg) /\ NodesOf(pg2) = NodesOf(pg)
         /\ \A q \in 2 .. n : pg2[q] = pg[q]
<1>1. /\ n \in Nat /\ n >= 2 /\ DOMAIN pg = 2 .. n /\ pg[2].kind = "leaf"
      /\ \A q \in 2 .. n : pg[q] = Unused \/ AsLeaf(pg, n, q) \/ AsInner(pg, q)
  BY DEF Shape
<1>2. /\ (2 .. n) \cup {n + 1} = 2 .. n + 1 /\ \A q \in 2 .. n : q # n + 1 /\ q \in 2 .. n + 1
      /\ \A q \in 2 .. n + 1 : q \in 2 .. n \/ q = n + 1
  BY ONLY <1>1
<1>3. DOMAIN pg2 = 2 .. n + 1 /\ pg2[n + 1] = Unused /\ \A q \in 2 .. n : pg2[q] = pg[q]
  BY <1>1, <1>2 DEF With
<1>4. Unused.kind = "unused"
  BY DEF Unused
<1>5. LeafsOf(pg2) = LeafsOf(pg) /\ NodesOf(pg2) = NodesOf(pg)
  <2>1. pg2[n + 1].kind # "leaf" /\ pg2[n + 1].kind = "unused"
    BY <1>3, <1>4
  <2> QED BY <1>1, <1>2, <1>3, <2>1 DEF LeafsOf, NodesOf
<1>6. ASSUME NEW q \in 2 .. n PROVE pg2[q] = Unused \/ AsLeaf(pg2, n + 1, q) \/ AsInner(pg2, q)
  <2>1. pg2[q] = pg[q]
    BY <1>3
  <2>2. CASE pg[q] = Unused
    BY <2>1, <2>2
  <2>3. CASE AsLeaf(pg, n, q)
    <3>1. q # 2 => q + 1 \in 2 .. n + 1 /\ pg2[q + 1].kind = "inner"
      BY <1>2, <1>3, <2>3 DEF AsLeaf
    <3> QED BY <1>5, <2>1, <2>3, <3>1 DEF AsLeaf
  <2>4. CASE AsInner(pg, q)
    BY <1>5, <2>1, <2>4 DEF AsInner
  <2> QED BY <1>1, <2>2, <2>3, <2>4
<1>7. Shape(pg2, n + 1)
  <2>1. pg2[2].kind = "leaf" /\ n + 1 \in Nat /\ n + 1 >= 2
    BY <1>1, <1>3
  <2>2. ASSUME NEW q \in 2 .. n + 1
        PROVE  pg2[q] = Unused \/ AsLeaf(pg2, n + 1, q) \/ AsInner(pg2, q)
    BY <1>2, <1>3, <1>6
  <2> QED BY <1>3, <2>1, <2>2 DEF Shape
<1> QED BY <1>3, <1>5, <1>7

(* A leaf is split and a root put above.                                   *)
Grown(pg, n, r, p, l, u, s, pg2) ==
  /\ r \in NodesOf(pg) /\ p \in LeafsOf(pg) /\ s \in Key
  /\ GoodLeaf(l) /\ l.prev = pg[p].prev /\ GoodLeaf(u) /\ u.prev = p
  /\ pg2 = With(With([pg EXCEPT ![p] = l], n + 1, u), n + 2, Inner(r, s, n + 1))

LEMMA Grow ==
  ASSUME NEW pg, NEW n, Shape(pg, n), NEW r, NEW p, NEW l, NEW u, NEW s, NEW pg2,
         Grown(pg, n, r, p, l, u, s, pg2)
  PROVE  /\ Shape(pg2, n + 2) /\ LeafsOf(pg2) = LeafsOf(pg) \cup {n + 1} /\ n + 1 \notin 2 .. n
         /\ n + 2 \in NodesOf(pg2)
         /\ pg2[p] = l /\ pg2[n + 1] = u /\ \A q \in 2 .. n : q # p => pg2[q] = pg[q]
         /\ LoOf(pg2, n + 1) = s /\ \A q \in LeafsOf(pg) : LoOf(pg2, q) = LoOf(pg, q)
         /\ \A k \in Key : Walk(pg2, n + 2, k) = IF k < s THEN Walk(pg, r, k) ELSE n + 1
<1>a. /\ r \in NodesOf(pg) /\ p \in LeafsOf(pg) /\ s \in Key
      /\ GoodLeaf(l) /\ l.prev = pg[p].prev /\ GoodLeaf(u) /\ u.prev = p
  BY DEF Grown
<1>0. PICK pg1 : pg1 = [pg EXCEPT ![p] = l]
  OBVIOUS
<1>1. /\ Shape(pg1, n) /\ LeafsOf(pg1) = LeafsOf(pg) /\ NodesOf(pg1) = NodesOf(pg)
      /\ pg1[p] = l /\ \A q \in 2 .. n : q # p => pg1[q] = pg[q]
      /\ \A q \in LeafsOf(pg) : LoOf(pg1, q) = LoOf(pg, q)
      /\ \A k \in Key : Walk(pg1, r, k) = Walk(pg, r, k)
  <2>1. Shape(pg, n) /\ r \in NodesOf(pg) /\ Rewritten(pg, p, l, pg1)
    BY <1>0, <1>a DEF Rewritten
  <2> QED BY ONLY <2>1, Rewrite
<1>2. PICK in : in = Inner(r, s, n + 1)
  OBVIOUS
<1>3. /\ n \in Nat /\ n >= 2 /\ DOMAIN pg1 = 2 .. n /\ pg1[2].kind = "leaf"
      /\ \A q \in 2 .. n : pg1[q] = Unused \/ AsLeaf(pg1, n, q) \/ AsInner(pg1, q)
      /\ DOMAIN pg = 2 .. n
  BY <1>1 DEF Shape
<1>4. /\ ((2 .. n) \cup {n + 1}) \cup {n + 2} = 2 .. n + 2
      /\ \A q \in 2 .. n : q # n + 1 /\ q # n + 2 /\ q \in 2 .. n + 2
      /\ \A q \in 2 .. n + 2 : q \in 2 .. n \/ q = n + 1 \/ q = n + 2
      /\ n + 1 # n + 2 /\ n + 1 # 2 /\ n + 2 \in 2 .. n + 2 /\ n + 1 \in 2 .. n + 2
      /\ (n + 2) - 1 = n + 1 /\ (n + 1) + 1 = n + 2 /\ n + 1 < n + 2 /\ \A q \in 2 .. n : q < n + 2 /\ q < n + 1
  BY ONLY <1>3
<1>5. /\ DOMAIN pg2 = 2 .. n + 2 /\ pg2[n + 1] = u /\ pg2[n + 2] = in
      /\ \A q \in 2 .. n : pg2[q] = pg1[q]
  <2>1. PICK w : w = With(pg1, n + 1, u)
    OBVIOUS
  <2>2. DOMAIN w = (2 .. n) \cup {n + 1} /\ w[n + 1] = u /\ \A q \in 2 .. n : w[q] = pg1[q]
    BY <1>3, <1>4, <2>1 DEF With
  <2>3. pg2 = With(w, n + 2, in)
    BY <1>0, <1>2, <2>1 DEF Grown
  <2> QED BY <1>4, <2>2, <2>3 DEF With
<1>6. /\ in.kind = "inner" /\ in = Inner(in.left, in.sep, in.right)
      /\ in.left = r /\ in.sep = s /\ in.right = n + 1 /\ u.kind = "leaf"
  BY <1>2, <1>a DEF Inner, GoodLeaf, Leaf
<1>7. LeafsOf(pg2) = LeafsOf(pg1) \cup {n + 1} /\ NodesOf(pg2) = NodesOf(pg1) \cup {n + 1, n + 2}
  <2>1. /\ pg2[n + 1].kind = "leaf" /\ pg2[n + 1].kind # "unused"
        /\ pg2[n + 2].kind # "leaf" /\ pg2[n + 2].kind # "unused"
    BY <1>5, <1>6
  <2>2. \A q : q \in DOMAIN pg2 <=> q \in DOMAIN pg1 \/ q = n + 1 \/ q = n + 2
    BY <1>3, <1>4, <1>5
  <2>3. \A q \in DOMAIN pg1 : pg2[q] = pg1[q]
    BY <1>3, <1>5
  <2>4. LeafsOf(pg2) = LeafsOf(pg1) \cup {n + 1}
    BY ONLY <2>1, <2>2, <2>3 DEF LeafsOf
  <2>5. NodesOf(pg2) = NodesOf(pg1) \cup {n + 1, n + 2}
    BY ONLY <2>1, <2>2, <2>3 DEF NodesOf
  <2> QED BY <2>4, <2>5
<1>8. ASSUME NEW q \in 2 .. n PROVE pg2[q] = Unused \/ AsLeaf(pg2, n + 2, q) \/ AsInner(pg2, q)
  <2>1. pg2[q] = pg1[q]
    BY <1>5
  <2>2. CASE pg1[q] = Unused
    BY <2>1, <2>2
  <2>3. CASE AsLeaf(pg1, n, q)
    <3>1. q # 2 => q + 1 \in 2 .. n + 2 /\ pg2[q + 1].kind = "inner"
      BY <1>4, <1>5, <2>3 DEF AsLeaf
    <3> QED BY <1>7, <2>1, <2>3, <3>1 DEF AsLeaf
  <2>4. CASE AsInner(pg1, q)
    BY <1>7, <2>1, <2>4 DEF AsInner
  <2> QED BY <1>3, <2>2, <2>3, <2>4
<1>9. p \in 2 .. n /\ r \in 2 .. n /\ r \in NodesOf(pg1) /\ p \in LeafsOf(pg1)
  BY <1>1, <1>a, Kinds
<1>10. AsLeaf(pg2, n + 2, n + 1)
  <2>1. (n + 1) + 1 \in 2 .. n + 2 /\ pg2[(n + 1) + 1].kind = "inner"
    BY <1>4, <1>5, <1>6
  <2>2. pg2[n + 1].prev \in LeafsOf(pg2) \cup {0} /\ pg2[n + 1].prev < n + 1
    BY <1>4, <1>5, <1>7, <1>9, <1>a
  <2> QED BY <1>5, <1>a, <2>1, <2>2 DEF AsLeaf
<1>11. AsInner(pg2, n + 2)
  <2>1. in.right \in LeafsOf(pg2) /\ in.right = (n + 2) - 1
    BY <1>4, <1>6, <1>7
  <2>2. in.left \in NodesOf(pg2) /\ in.left < n + 2 /\ in.sep \in Key
    BY <1>4, <1>6, <1>7, <1>9, <1>a
  <2> QED BY <1>5, <1>6, <2>1, <2>2 DEF AsInner
<1>12. Shape(pg2, n + 2)
  <2>1. pg2[2].kind = "leaf" /\ n + 2 \in Nat /\ n + 2 >= 2
    <3>1. 2 \in 2 .. n /\ n + 2 \in Nat /\ n + 2 >= 2
      BY ONLY <1>3
    <3>2. pg2[2] = pg1[2]
      BY <1>5, <3>1
    <3> QED BY <1>3, <3>1, <3>2
  <2>2. ASSUME NEW q \in 2 .. n + 2
        PROVE  pg2[q] = Unused \/ AsLeaf(pg2, n + 2, q) \/ AsInner(pg2, q)
    BY <1>4, <1>8, <1>10, <1>11
  <2> QED BY <1>5, <2>1, <2>2 DEF Shape
<1>13. ASSUME NEW q \in LeafsOf(pg) PROVE LoOf(pg2, q) = LoOf(pg, q)
  <2>1. AsLeaf(pg1, n, q) /\ LoOf(pg1, q) = LoOf(pg, q)
    BY <1>1, Kinds
  <2>2. q # 2 => q + 1 \in 2 .. n
    BY <2>1 DEF AsLeaf
  <2>3. q # 2 => pg2[q + 1] = pg1[q + 1]
    BY <1>5, <2>2
  <2> QED BY <2>1, <2>3 DEF LoOf
<1>14. LoOf(pg2, n + 1) = s
  BY <1>4, <1>5, <1>6 DEF LoOf
<1>15. ASSUME NEW k \in Key PROVE Walk(pg2, n + 2, k) = IF k < s THEN Walk(pg, r, k) ELSE n + 1
  <2>1. Downward(pg1) /\ Downward(pg2)
    BY <1>1, <1>12, ShapeDownward
  <2>2. \A q \in NodesOf(pg1) :
          /\ q \in DOMAIN pg2 /\ pg2[q].kind = pg1[q].kind
          /\ pg1[q].kind # "leaf" => pg2[q] = pg1[q]
    <3>1. NodesOf(pg1) \subseteq 2 .. n
      BY <1>1, Kinds
    <3> QED BY <1>4, <1>5, <3>1
  <2>3. Walk(pg2, r, k) = Walk(pg1, r, k)
    BY <1>9, <2>1, <2>2, WalkSame
  <2>4. PICK f \in [NodesOf(pg2) -> LeafsOf(pg2)] :
           /\ Ends0(f, NodesOf(pg2), LeafsOf(pg2), Side(pg2, k))
           /\ \A q : Walk(pg2, q, k) = f[q]
    BY ONLY <2>1, WalkIs
  <2>5. n + 2 \in NodesOf(pg2) /\ n + 2 \notin LeafsOf(pg2) /\ n + 1 \in NodesOf(pg2) /\ n + 1 \in LeafsOf(pg2)
    <3>1. LeafsOf(pg1) \subseteq 2 .. n
      BY <1>1, Kinds
    <3> QED BY <1>4, <1>7, <3>1
  <2>6. f[n + 2] = f[Side(pg2, k)[n + 2]] /\ f[n + 1] = n + 1
    BY <2>4, <2>5 DEF Ends0
  <2>7. Side(pg2, k)[n + 2] = IF k < s THEN r ELSE n + 1
    BY <1>5, <1>6, <2>5 DEF Side
  <2> QED BY <1>1, <2>3, <2>4, <2>6, <2>7
<1>16. n + 1 \notin 2 .. n /\ n + 2 \in NodesOf(pg2)
  BY <1>4, <1>7
<1>17. pg2[p] = l /\ \A q \in 2 .. n : q # p => pg2[q] = pg[q]
  BY <1>1, <1>5, <1>9, <1>a
<1>18. LeafsOf(pg2) = LeafsOf(pg) \cup {n + 1}
  BY <1>1, <1>7
<1> QED BY <1>5, <1>12, <1>13, <1>14, <1>15, <1>16, <1>17, <1>18

-----------------------------------------------------------------------------
(***************************************************************************)
(* Where keys are, while all entries have one size.  Of a tree's leaves    *)
(* Lf this speaks of the lowest key `lo` each was made for, its left       *)
(* neighbour `pv`, its entries E, the leaf w a key is searched in, and     *)
(* the contents c the tree should have.                                    *)
(***************************************************************************)
LeafTypes(Lf, lo, pv, E, w) ==
  /\ Lf \subseteq Nat /\ 0 \notin Lf /\ lo \in [Lf -> Nat] /\ pv \in [Lf -> Lf \cup {0}]
  /\ w \in [Key -> Lf] /\ DOMAIN E = Lf
  /\ \A p \in Lf : DOMAIN E[p] \subseteq Key /\ IsFiniteSet(DOMAIN E[p])

(* The keys searched in a leaf are an interval, not below its lowest key.  *)
Intervals(lo, w) ==
  /\ \A i, j, k \in Key : i <= j /\ j <= k /\ w[i] = w[k] => w[j] = w[i]
  /\ \A k \in Key : lo[w[k]] <= k

(* In a leaf that is searched at all, an entry is found there unless it    *)
(* lies below the lowest key, and what is found is right.                  *)
Faithful(lo, E, w, c) ==
  /\ \A k \in Key : \A j \in DOMAIN E[w[k]] : lo[w[k]] <= j => w[j] = w[k]
  /\ \A k \in Key : k \in DOMAIN E[w[k]] => E[w[k]][k] = c[k]

(* A left neighbour holds, and is searched for, only what lies below.      *)
Neighbours(Lf, lo, pv, E, w) ==
  \A p \in Lf : pv[p] # 0 =>
    /\ lo[pv[p]] <= lo[p]
    /\ \A j \in DOMAIN E[pv[p]] : j < lo[p]
    /\ \A k \in Key : w[k] = pv[p] => k < lo[p]

(* The entries below the lowest key were borrowed by a leaf that had fewer *)
(* than DelMin, of a leaf that had more than BorMin.                       *)
Foreign(lo, E, p) == {j \in DOMAIN E[p] : j < lo[p]}
Borrowed(Lf, lo, E) ==
  \A p \in Lf :
    /\ Cardinality(Foreign(lo, E, p)) <= DelMin
    /\ Foreign(lo, E, p) # {} => SplitAt >= BorMin + 2

Sem(Lf, lo, pv, E, w, c) ==
  /\ LeafTypes(Lf, lo, pv, E, w) /\ Intervals(lo, w) /\ Faithful(lo, E, w, c)
  /\ Neighbours(Lf, lo, pv, E, w) /\ Borrowed(Lf, lo, E)

(* Every key that should be there is where it is searched.                 *)
Full(E, w, c) == \A k \in Key : c[k] # Absent => k \in DOMAIN E[w[k]]

LEMMA KeyNat == \A k \in Key : k \in Nat
BY TreeAssumption

(* An entry is put where it is searched.                                   *)
LEMMA SemPut ==
  ASSUME NEW Lf, NEW lo, NEW pv, NEW E, NEW w, NEW c, Sem(Lf, lo, pv, E, w, c),
         NEW k \in Key, NEW v, NEW e, DOMAIN e = DOMAIN E[w[k]] \cup {k}, e[k] = v,
         \A j \in DOMAIN E[w[k]] \ {k} : e[j] = E[w[k]][j],
         NEW E2, DOMAIN E2 = Lf, E2[w[k]] = e, \A q \in Lf \ {w[k]} : E2[q] = E[q],
         NEW c2, c2[k] = v, \A j \in Key \ {k} : c2[j] = c[j]
  PROVE  Sem(Lf, lo, pv, E2, w, c2) /\ (Full(E, w, c) => Full(E2, w, c2))
<1>1. PICK p : p = w[k]
  OBVIOUS
<1>f. /\ \A i \in Key : \A j \in DOMAIN E[w[i]] : lo[w[i]] <= j => w[j] = w[i]
      /\ \A i \in Key : i \in DOMAIN E[w[i]] => E[w[i]][i] = c[i]
  BY DEF Sem, Faithful
<1>b. \A q \in Lf : /\ Cardinality(Foreign(lo, E, q)) <= DelMin
                    /\ Foreign(lo, E, q) # {} => SplitAt >= BorMin + 2
  <2>1. Borrowed(Lf, lo, E)
    BY DEF Sem
  <2> QED BY <2>1 DEF Borrowed
<1>t. LeafTypes(Lf, lo, pv, E, w) /\ p \in Lf /\ lo \in [Lf -> Nat] /\ Lf \subseteq Nat
  BY <1>1 DEF Sem, LeafTypes
<1>2. LeafTypes(Lf, lo, pv, E2, w)
  <2>1. IsFiniteSet(DOMAIN E[p] \cup {k})
    BY <1>t, FS_AddElement DEF LeafTypes
  <2> QED BY <1>1, <1>t, <2>1 DEF LeafTypes
<1>3. lo[p] <= k
  BY <1>1 DEF Sem, Intervals
<1>4. Faithful(lo, E2, w, c2)
  <2>1. ASSUME NEW i \in Key, NEW j \in DOMAIN E2[w[i]], lo[w[i]] <= j PROVE w[j] = w[i]
    <3>1. CASE w[i] = p
      <4>1. j = k \/ j \in DOMAIN E[w[i]]
        BY <1>1, <3>1
      <4> QED BY <1>1, <1>f, <2>1, <3>1, <4>1
    <3>2. CASE w[i] # p
      <4>1. w[i] \in Lf \ {w[k]}
        BY <1>1, <1>t, <3>2 DEF LeafTypes
      <4> QED BY <1>f, <2>1, <4>1
    <3> QED BY <3>1, <3>2
  <2>2. ASSUME NEW i \in Key, i \in DOMAIN E2[w[i]] PROVE E2[w[i]][i] = c2[i]
    <3>1. CASE w[i] = p
      <4>1. i = k \/ (i # k /\ i \in DOMAIN E[w[i]] \ {k})
        BY <1>1, <2>2, <3>1
      <4> QED BY <1>1, <1>f, <3>1, <4>1
    <3>2. CASE w[i] # p
      <4>1. w[i] \in Lf \ {w[k]} /\ i # k
        BY <1>1, <1>t, <3>2 DEF LeafTypes
      <4>2. E2[w[i]] = E[w[i]] /\ c2[i] = c[i]
        BY <4>1
      <4> QED BY <1>f, <2>2, <4>2
    <3> QED BY <3>1, <3>2
  <2> QED BY <2>1, <2>2 DEF Faithful
<1>5. Neighbours(Lf, lo, pv, E2, w)
  <2> SUFFICES ASSUME NEW q \in Lf, pv[q] # 0
               PROVE  /\ lo[pv[q]] <= lo[q]
                      /\ \A j \in DOMAIN E2[pv[q]] : j < lo[q]
                      /\ \A i \in Key : w[i] = pv[q] => i < lo[q]
    BY DEF Neighbours
  <2>1. /\ lo[pv[q]] <= lo[q]
        /\ \A j \in DOMAIN E[pv[q]] : j < lo[q]
        /\ \A i \in Key : w[i] = pv[q] => i < lo[q]
    BY DEF Sem, Neighbours
  <2>2. pv[q] \in Lf
    BY DEF Sem, LeafTypes
  <2> QED BY <1>1, <2>1, <2>2
<1>6. Borrowed(Lf, lo, E2)
  <2>1. ASSUME NEW q \in Lf PROVE Foreign(lo, E2, q) = Foreign(lo, E, q)
    <3>1. CASE q = p
      <4>1. ~(k < lo[p])
        <5>1. k \in Nat /\ lo[p] \in Nat
          BY <1>t, KeyNat
        <5> QED BY ONLY <1>3, <5>1
      <4> QED BY <1>1, <3>1, <4>1 DEF Foreign
    <3>2. CASE q # p
      BY <1>1, <3>2 DEF Foreign
    <3> QED BY <3>1, <3>2
  <2> QED BY <2>1 DEF Sem, Borrowed
<1>7. ASSUME Full(E, w, c) PROVE Full(E2, w, c2)
  BY <1>1, <1>7, <1>t DEF Full, LeafTypes
<1> QED BY <1>2, <1>4, <1>5, <1>6, <1>7 DEF Sem

(* An entry is taken out of some leaf.                                     *)
LEMMA SemShrink ==
  ASSUME NEW Lf, NEW lo, NEW pv, NEW E, NEW w, NEW c, Sem(Lf, lo, pv, E, w, c),
         NEW p \in Lf, NEW x, NEW e, DOMAIN e = DOMAIN E[p] \ {x}, \A j \in DOMAIN e : e[j] = E[p][j],
         NEW E2, DOMAIN E2 = Lf, E2[p] = e, \A q \in Lf \ {p} : E2[q] = E[q]
  PROVE  Sem(Lf, lo, pv, E2, w, c)
<1>f. /\ \A i \in Key : \A j \in DOMAIN E[w[i]] : lo[w[i]] <= j => w[j] = w[i]
      /\ \A i \in Key : i \in DOMAIN E[w[i]] => E[w[i]][i] = c[i]
  BY DEF Sem, Faithful
<1>b. \A q \in Lf : /\ Cardinality(Foreign(lo, E, q)) <= DelMin
                    /\ Foreign(lo, E, q) # {} => SplitAt >= BorMin + 2
  <2>1. Borrowed(Lf, lo, E)
    BY DEF Sem
  <2> QED BY <2>1 DEF Borrowed
<1>t. LeafTypes(Lf, lo, pv, E, w)
  BY DEF Sem, LeafTypes
<1>1. \A q \in Lf : DOMAIN E2[q] \subseteq DOMAIN E[q] /\ \A j \in DOMAIN E2[q] : E2[q][j] = E[q][j]
  OBVIOUS
<1>2. LeafTypes(Lf, lo, pv, E2, w)
  <2>1. \A q \in Lf : IsFiniteSet(DOMAIN E2[q])
    BY <1>t, <1>1, FS_Subset DEF LeafTypes
  <2> QED BY <1>t, <1>1, <2>1 DEF LeafTypes
<1>3. Faithful(lo, E2, w, c)
  BY <1>1, <1>t DEF Sem, Faithful, LeafTypes
<1>4. Neighbours(Lf, lo, pv, E2, w)
  <2> SUFFICES ASSUME NEW q \in Lf, pv[q] # 0
               PROVE  /\ lo[pv[q]] <= lo[q]
                      /\ \A j \in DOMAIN E2[pv[q]] : j < lo[q]
                      /\ \A i \in Key : w[i] = pv[q] => i < lo[q]
    BY DEF Neighbours
  <2>1. /\ lo[pv[q]] <= lo[q]
        /\ \A j \in DOMAIN E[pv[q]] : j < lo[q]
        /\ \A i \in Key : w[i] = pv[q] => i < lo[q]
    BY DEF Sem, Neighbours
  <2>2. pv[q] \in Lf
    BY DEF Sem, LeafTypes
  <2> QED BY <1>1, <2>1, <2>2
<1>5. Borrowed(Lf, lo, E2)
  <2> SUFFICES ASSUME NEW q \in Lf
               PROVE  /\ Cardinality(Foreign(lo, E2, q)) <= DelMin
                      /\ Foreign(lo, E2, q) # {} => SplitAt >= BorMin + 2
    BY DEF Borrowed
  <2>1. Foreign(lo, E2, q) \subseteq Foreign(lo, E, q)
    BY <1>1 DEF Foreign
  <2>2. IsFiniteSet(Foreign(lo, E, q))
    <3>1. Foreign(lo, E, q) \subseteq DOMAIN E[q] /\ IsFiniteSet(DOMAIN E[q])
      BY <1>t DEF Foreign, LeafTypes
    <3> QED BY <3>1, FS_Subset
  <2>3. Cardinality(Foreign(lo, E2, q)) <= Cardinality(Foreign(lo, E, q))
        /\ Cardinality(Foreign(lo, E2, q)) \in Nat /\ Cardinality(Foreign(lo, E, q)) \in Nat
    BY <2>1, <2>2, FS_Subset, FS_CardinalityType
  <2>4. Cardinality(Foreign(lo, E, q)) <= DelMin
    BY <1>b
  <2>5. Cardinality(Foreign(lo, E2, q)) <= DelMin
    BY ONLY <2>3, <2>4, CapNat
  <2> QED BY <2>1, <2>5, <1>b
<1> QED BY <1>2, <1>3, <1>4, <1>5 DEF Sem

(* A key that is not where it is searched is forgotten.                    *)
LEMMA SemForget ==
  ASSUME NEW Lf, NEW lo, NEW pv, NEW E, NEW w, NEW c, Sem(Lf, lo, pv, E, w, c),
         NEW k \in Key, k \notin DOMAIN E[w[k]], NEW c2, \A j \in Key \ {k} : c2[j] = c[j]
  PROVE  Sem(Lf, lo, pv, E, w, c2)
BY DEF Sem, Faithful

(* An underfull leaf takes an entry from below its lowest key.             *)
LEMMA SemTake ==
  ASSUME NEW Lf, NEW lo, NEW pv, NEW E, NEW w, NEW c, Sem(Lf, lo, pv, E, w, c),
         NEW p \in Lf, NEW x \in Key, x < lo[p], Cardinality(DOMAIN E[p]) < DelMin, SplitAt >= BorMin + 2,
         NEW e, DOMAIN e = DOMAIN E[p] \cup {x}, \A j \in DOMAIN E[p] \ {x} : e[j] = E[p][j],
         NEW E2, DOMAIN E2 = Lf, E2[p] = e, \A q \in Lf \ {p} : E2[q] = E[q]
  PROVE  Sem(Lf, lo, pv, E2, w, c)
<1>f. /\ \A i \in Key : \A j \in DOMAIN E[w[i]] : lo[w[i]] <= j => w[j] = w[i]
      /\ \A i \in Key : i \in DOMAIN E[w[i]] => E[w[i]][i] = c[i]
  BY DEF Sem, Faithful
<1>b. \A q \in Lf : /\ Cardinality(Foreign(lo, E, q)) <= DelMin
                    /\ Foreign(lo, E, q) # {} => SplitAt >= BorMin + 2
  <2>1. Borrowed(Lf, lo, E)
    BY DEF Sem
  <2> QED BY <2>1 DEF Borrowed
<1>t. LeafTypes(Lf, lo, pv, E, w) /\ lo \in [Lf -> Nat] /\ Lf \subseteq Nat /\ w \in [Key -> Lf]
  BY DEF Sem, LeafTypes
<1>n. x \in Nat /\ \A q \in Lf : lo[q] \in Nat
  BY <1>t, KeyNat
<1>1. w[x] # p /\ \A q \in Lf : ~(lo[p] <= x)
  <2>1. lo[w[x]] <= x
    BY DEF Sem, Intervals
  <2> QED BY ONLY <1>n, <2>1, x < lo[p], p \in Lf
<1>2. LeafTypes(Lf, lo, pv, E2, w)
  <2>1. IsFiniteSet(DOMAIN E[p] \cup {x})
    BY <1>t, FS_AddElement DEF LeafTypes
  <2> QED BY <1>t, <2>1 DEF LeafTypes
<1>3. Faithful(lo, E2, w, c)
  <2>1. ASSUME NEW i \in Key, NEW j \in DOMAIN E2[w[i]], lo[w[i]] <= j PROVE w[j] = w[i]
    <3>1. CASE w[i] = p
      <4>1. j = x \/ j \in DOMAIN E[w[i]]
        BY <3>1
      <4> QED BY <1>1, <1>f, <2>1, <3>1, <4>1
    <3>2. CASE w[i] # p
      <4>1. w[i] \in Lf \ {p}
        BY <1>t, <3>2
      <4> QED BY <1>f, <2>1, <4>1
    <3> QED BY <3>1, <3>2
  <2>2. ASSUME NEW i \in Key, i \in DOMAIN E2[w[i]] PROVE E2[w[i]][i] = c[i]
    <3>1. CASE w[i] = p
      <4>1. i # x /\ i \in DOMAIN E[w[i]] \ {x}
        BY <1>1, <2>2, <3>1
      <4> QED BY <1>f, <3>1, <4>1
    <3>2. CASE w[i] # p
      <4>1. w[i] \in Lf \ {p}
        BY <1>t, <3>2
      <4> QED BY <1>f, <2>2, <4>1
    <3> QED BY <3>1, <3>2
  <2> QED BY <2>1, <2>2 DEF Faithful
<1>4. Neighbours(Lf, lo, pv, E2, w)
  <2> SUFFICES ASSUME NEW q \in Lf, pv[q] # 0
               PROVE  /\ lo[pv[q]] <= lo[q]
                      /\ \A j \in DOMAIN E2[pv[q]] : j < lo[q]
                      /\ \A i \in Key : w[i] = pv[q] => i < lo[q]
    BY DEF Neighbours
  <2>1. /\ lo[pv[q]] <= lo[q]
        /\ \A j \in DOMAIN E[pv[q]] : j < lo[q]
        /\ \A i \in Key : w[i] = pv[q] => i < lo[q]
    BY DEF Sem, Neighbours
  <2>2. pv[q] \in Lf
    BY DEF Sem, LeafTypes
  <2>3. pv[q] = p => x < lo[q]
    BY ONLY <1>n, <2>1, x < lo[p], p \in Lf, q \in Lf
  <2> QED BY <2>1, <2>2, <2>3
<1>5. Borrowed(Lf, lo, E2)
  <2> SUFFICES ASSUME NEW q \in Lf
               PROVE  /\ Cardinality(Foreign(lo, E2, q)) <= DelMin
                      /\ Foreign(lo, E2, q) # {} => SplitAt >= BorMin + 2
    BY DEF Borrowed
  <2>1. CASE q = p
    <3>1. IsFiniteSet(DOMAIN E[p])
      BY <1>t DEF LeafTypes
    <3>2. /\ Cardinality(DOMAIN E[p]) \in Nat /\ IsFiniteSet(DOMAIN E[p] \cup {x})
          /\ Cardinality(DOMAIN E[p] \cup {x}) =
               IF x \in DOMAIN E[p] THEN Cardinality(DOMAIN E[p]) ELSE Cardinality(DOMAIN E[p]) + 1
      BY <3>1, FS_AddElement, FS_CardinalityType
    <3>3. Foreign(lo, E2, p) \subseteq DOMAIN E[p] \cup {x}
      BY DEF Foreign
    <3>4. Cardinality(Foreign(lo, E2, p)) <= Cardinality(DOMAIN E[p] \cup {x})
          /\ Cardinality(Foreign(lo, E2, p)) \in Nat
      BY <3>2, <3>3, FS_Subset, FS_CardinalityType
    <3>5. Cardinality(Foreign(lo, E2, p)) <= DelMin
      BY ONLY <3>2, <3>4, CapNat, Cardinality(DOMAIN E[p]) < DelMin
    <3> QED BY <2>1, <3>5
  <2>2. CASE q # p
    <3>1. Foreign(lo, E2, q) = Foreign(lo, E, q)
      BY <2>2 DEF Foreign
    <3> QED BY <1>b, <3>1
  <2> QED BY <2>1, <2>2
<1> QED BY <1>2, <1>3, <1>4, <1>5 DEF Sem

(* A leaf is split at one of its entries, not below its lowest key; what   *)
(* was searched at or above that entry is searched in the new leaf.        *)
SplitInTwo(Lf, lo, pv, E, w, k, N, s, Lf2, lo2, pv2, E2, w2) ==
  /\ k \in Key /\ N \in Nat /\ N # 0 /\ N \notin Lf /\ s \in DOMAIN E[w[k]] /\ lo[w[k]] <= s
  /\ Lf2 = Lf \cup {N}
  /\ lo2 = [q \in Lf2 |-> IF q = N THEN s ELSE lo[q]]
  /\ pv2 = [q \in Lf2 |-> IF q = N THEN w[k] ELSE pv[q]]
  /\ w2 = [i \in Key |-> IF i < s THEN w[i] ELSE N]
  /\ DOMAIN E2 = Lf2 /\ \A q \in Lf \ {w[k]} : E2[q] = E[q]
  /\ DOMAIN E2[N] = {j \in DOMAIN E[w[k]] : s <= j}
  /\ \A j \in DOMAIN E2[N] : E2[N][j] = E[w[k]][j]
  /\ DOMAIN E2[w[k]] = {j \in DOMAIN E[w[k]] : j < s}
  /\ \A j \in DOMAIN E2[w[k]] : E2[w[k]][j] = E[w[k]][j]

LEMMA SemSplit ==
  ASSUME NEW Lf, NEW lo, NEW pv, NEW E, NEW w, NEW c, Sem(Lf, lo, pv, E, w, c),
         NEW k, NEW N, NEW s, NEW Lf2, NEW lo2, NEW pv2, NEW E2, NEW w2,
         SplitInTwo(Lf, lo, pv, E, w, k, N, s, Lf2, lo2, pv2, E2, w2)
  PROVE  /\ Sem(Lf2, lo2, pv2, E2, w2, c)
         /\ Full(E, w, c) /\ (\A j \in Key : c[j] # Absent => j <= k) => Full(E2, w2, c)
<1> USE DEF SplitInTwo
<1>0. PICK p : p = w[k]
  OBVIOUS
<1>f. /\ \A i \in Key : \A j \in DOMAIN E[w[i]] : lo[w[i]] <= j => w[j] = w[i]
      /\ \A i \in Key : i \in DOMAIN E[w[i]] => E[w[i]][i] = c[i]
  BY DEF Sem, Faithful
<1>b. \A q \in Lf : /\ Cardinality(Foreign(lo, E, q)) <= DelMin
                    /\ Foreign(lo, E, q) # {} => SplitAt >= BorMin + 2
  <2>1. Borrowed(Lf, lo, E)
    BY DEF Sem
  <2> QED BY <2>1 DEF Borrowed
<1>t. /\ LeafTypes(Lf, lo, pv, E, w) /\ lo \in [Lf -> Nat] /\ Lf \subseteq Nat /\ w \in [Key -> Lf]
      /\ p \in Lf /\ pv \in [Lf -> Lf \cup {0}] /\ 0 \notin Lf /\ p # 0
      /\ \A q \in Lf : DOMAIN E[q] \subseteq Key /\ IsFiniteSet(DOMAIN E[q])
  BY <1>0 DEF Sem, LeafTypes
<1>n. s \in Key /\ s \in Nat /\ (\A q \in Lf : lo[q] \in Nat) /\ (\A i \in Key : i \in Nat) /\ N # p
  BY <1>0, <1>t, KeyNat
<1>1. w[s] = p
  BY <1>0, <1>n DEF Sem, Faithful
<1>2. \A q \in Lf : lo2[q] = lo[q] /\ pv2[q] = pv[q]
  OBVIOUS
<1>3. lo2[N] = s /\ pv2[N] = p
  BY <1>0
<1>4. \A i \in Key : (i < s => w2[i] = w[i]) /\ (~(i < s) => w2[i] = N) /\ (w2[i] # N => i < s)
  BY <1>t
<1>5. LeafTypes(Lf2, lo2, pv2, E2, w2)
  <2>1. \A q \in Lf : IsFiniteSet(DOMAIN E2[q]) /\ DOMAIN E2[q] \subseteq Key
    <3> SUFFICES ASSUME NEW q \in Lf PROVE IsFiniteSet(DOMAIN E2[q]) /\ DOMAIN E2[q] \subseteq Key
      OBVIOUS
    <3>1. DOMAIN E2[q] \subseteq DOMAIN E[q]
      BY <1>0
    <3> QED BY <1>t, <3>1, FS_Subset
  <2>2. IsFiniteSet(DOMAIN E2[N]) /\ DOMAIN E2[N] \subseteq Key
    <3>1. DOMAIN E2[N] \subseteq DOMAIN E[p]
      BY <1>0
    <3> QED BY <1>t, <3>1, FS_Subset
  <2>3. lo2 \in [Lf2 -> Nat] /\ pv2 \in [Lf2 -> Lf2 \cup {0}] /\ w2 \in [Key -> Lf2]
    BY <1>0, <1>n, <1>t
  <2> QED BY <1>t, <2>1, <2>2, <2>3 DEF LeafTypes
<1>6. Intervals(lo2, w2)
  <2>1. ASSUME NEW i \in Key, NEW j \in Key, NEW m \in Key, i <= j, j <= m, w2[i] = w2[m]
        PROVE  w2[j] = w2[i]
    <3>1. i \in Nat /\ j \in Nat /\ m \in Nat
      BY <1>n
    <3>2. CASE i < s
      <4>1. w2[i] = w[i] /\ w[i] # N
        BY <1>4, <1>t, <3>2
      <4>2. m < s
        BY <1>4, <2>1, <4>1
      <4>3. j < s
        BY ONLY <1>n, <2>1, <3>1, <4>2
      <4>4. w[i] = w[m]
        BY <1>4, <2>1, <4>1, <4>2
      <4>5. w[j] = w[i]
        BY <2>1, <4>4 DEF Sem, Intervals
      <4> QED BY <1>4, <4>1, <4>3, <4>5
    <3>3. CASE ~(i < s)
      <4>1. ~(j < s)
        BY ONLY <1>n, <2>1, <3>1, <3>3
      <4> QED BY <1>4, <3>3, <4>1
    <3> QED BY <3>2, <3>3
  <2>2. ASSUME NEW i \in Key PROVE lo2[w2[i]] <= i
    <3>1. CASE i < s
      <4>1. lo[w[i]] <= i /\ w[i] \in Lf
        BY <1>t DEF Sem, Intervals
      <4> QED BY <1>2, <1>4, <3>1, <4>1
    <3>2. CASE ~(i < s)
      <4>1. s <= i
        <5>1. i \in Nat /\ s \in Nat
          BY <1>n
        <5> QED BY ONLY <3>2, <5>1
      <4> QED BY <1>3, <1>4, <3>2, <4>1
    <3> QED BY <3>1, <3>2
  <2> QED BY <2>1, <2>2 DEF Intervals
<1>7. Faithful(lo2, E2, w2, c)
  <2>1. ASSUME NEW i \in Key, NEW j \in DOMAIN E2[w2[i]], lo2[w2[i]] <= j PROVE w2[j] = w2[i]
    <3>1. CASE w2[i] = N
      <4>1. j \in DOMAIN E[p] /\ s <= j
        BY <1>0, <3>1
      <4>2. j \in Key /\ ~(j < s)
        <5>1. j \in Key
          BY <1>t, <4>1
        <5> QED BY ONLY <1>n, <4>1, <5>1
      <4> QED BY <1>4, <3>1, <4>2
    <3>2. CASE w2[i] # N
      <4>1. i < s /\ w2[i] = w[i]
        BY <1>4, <3>2
      <4>2. w[i] \in Lf /\ lo2[w2[i]] = lo[w[i]] /\ lo[w[i]] <= j
        BY <1>2, <1>t, <2>1, <4>1
      <4>3. j \in DOMAIN E[w[i]] /\ j \in Key
        BY <1>0, <1>t, <4>1, <4>2
      <4>4. w[j] = w[i]
        BY <4>2, <4>3 DEF Sem, Faithful
      <4>5. j < s
        <5>1. CASE w[i] = p
          BY <1>0, <4>1, <5>1
        <5>2. CASE w[i] # p
          <6> SUFFICES ASSUME ~(j < s) PROVE FALSE
            OBVIOUS
          <6>1. i <= s /\ s <= j
            BY ONLY <1>n, <4>1, <4>3, ~(j < s), i \in Key
          <6>2. w[s] = w[i]
            BY <1>n, <4>3, <4>4, <6>1 DEF Sem, Intervals
          <6> QED BY <1>1, <5>2, <6>2
        <5> QED BY <5>1, <5>2
      <4> QED BY <1>4, <4>1, <4>3, <4>4, <4>5
    <3> QED BY <3>1, <3>2
  <2>2. ASSUME NEW i \in Key, i \in DOMAIN E2[w2[i]] PROVE E2[w2[i]][i] = c[i]
    <3>1. CASE w2[i] = N
      <4>1. i \in DOMAIN E[p] /\ s <= i /\ E2[N][i] = E[p][i]
        BY <1>0, <2>2, <3>1
      <4>2. lo[p] <= i
        <5>1. i \in Nat /\ s \in Nat /\ lo[p] \in Nat /\ lo[p] <= s
          BY <1>0, <1>n, <1>t
        <5> QED BY ONLY <4>1, <5>1
      <4>3. w[i] = p
        BY <1>0, <4>1, <4>2 DEF Sem, Faithful
      <4>4. E[p][i] = c[i]
        BY <4>1, <4>3 DEF Sem, Faithful
      <4> QED BY <3>1, <4>1, <4>4
    <3>2. CASE w2[i] # N
      <4>1. i < s /\ w2[i] = w[i] /\ w[i] \in Lf
        BY <1>4, <1>t, <3>2
      <4>2. i \in DOMAIN E[w[i]] /\ E2[w[i]][i] = E[w[i]][i]
        BY <1>0, <2>2, <4>1
      <4>3. E[w[i]][i] = c[i]
        BY <4>2 DEF Sem, Faithful
      <4> QED BY <4>1, <4>2, <4>3
    <3> QED BY <3>1, <3>2
  <2> QED BY <2>1, <2>2 DEF Faithful
<1>8. Neighbours(Lf2, lo2, pv2, E2, w2)
  <2> SUFFICES ASSUME NEW q \in Lf2, pv2[q] # 0
               PROVE  /\ lo2[pv2[q]] <= lo2[q]
                      /\ \A j \in DOMAIN E2[pv2[q]] : j < lo2[q]
                      /\ \A i \in Key : w2[i] = pv2[q] => i < lo2[q]
    BY DEF Neighbours
  <2>1. CASE q = N
    <3>1. lo2[q] = s /\ pv2[q] = p /\ lo2[p] = lo[p]
      BY <1>2, <1>3, <1>t, <2>1
    <3>2. lo[p] <= s /\ \A j \in DOMAIN E2[p] : j < s
      BY <1>0
    <3>3. \A i \in Key : w2[i] = p => i < s
      BY <1>4, <1>n
    <3> QED BY <3>1, <3>2, <3>3
  <2>2. CASE q # N
    <3>1. q \in Lf /\ lo2[q] = lo[q] /\ pv2[q] = pv[q] /\ pv[q] \in Lf /\ lo2[pv[q]] = lo[pv[q]]
      BY <1>2, <1>t, <2>2
    <3>2. /\ lo[pv[q]] <= lo[q]
          /\ \A j \in DOMAIN E[pv[q]] : j < lo[q]
          /\ \A i \in Key : w[i] = pv[q] => i < lo[q]
      BY <3>1 DEF Sem, Neighbours
    <3>3. DOMAIN E2[pv[q]] \subseteq DOMAIN E[pv[q]]
      BY <1>0, <3>1
    <3>4. \A i \in Key : w2[i] = pv[q] => w[i] = pv[q]
      BY <1>4, <3>1
    <3> QED BY <3>1, <3>2, <3>3, <3>4
  <2> QED BY <2>1, <2>2
<1>9. Borrowed(Lf2, lo2, E2)
  <2> SUFFICES ASSUME NEW q \in Lf2
               PROVE  /\ Cardinality(Foreign(lo2, E2, q)) <= DelMin
                      /\ Foreign(lo2, E2, q) # {} => SplitAt >= BorMin + 2
    BY DEF Borrowed
  <2>1. CASE q = N
    <3>1. Foreign(lo2, E2, q) = {}
      <4>1. \A j \in DOMAIN E2[N] : j \in Key /\ s <= j
        BY <1>0, <1>t
      <4>2. \A j \in DOMAIN E2[N] : ~(j < s)
        <5>1. s \in Nat /\ \A j \in DOMAIN E2[N] : j \in Nat /\ s <= j
          BY <1>n, <4>1
        <5> QED BY ONLY <5>1
      <4> QED BY <1>3, <2>1, <4>2 DEF Foreign
    <3>2. Cardinality({}) <= DelMin
      BY FS_EmptySet, CapNat
    <3> QED BY <3>1, <3>2
  <2>2. CASE q # N
    <3>0. q \in Lf /\ lo2[q] = lo[q]
      BY <1>2, <2>2
    <3>1. Foreign(lo2, E2, q) \subseteq Foreign(lo, E, q)
      BY <1>0, <3>0 DEF Foreign
    <3>2. IsFiniteSet(Foreign(lo, E, q))
      <4>1. Foreign(lo, E, q) \subseteq DOMAIN E[q] /\ IsFiniteSet(DOMAIN E[q])
        BY <1>t, <3>0 DEF Foreign
      <4> QED BY <4>1, FS_Subset
    <3>3. Cardinality(Foreign(lo2, E2, q)) <= Cardinality(Foreign(lo, E, q))
          /\ Cardinality(Foreign(lo2, E2, q)) \in Nat /\ Cardinality(Foreign(lo, E, q)) \in Nat
      BY <3>1, <3>2, FS_Subset, FS_CardinalityType
    <3>4. Cardinality(Foreign(lo, E, q)) <= DelMin
      BY <1>b, <3>0
    <3>5. Cardinality(Foreign(lo2, E2, q)) <= DelMin
      BY ONLY <3>3, <3>4, CapNat
    <3> QED BY <3>0, <3>1, <3>5, <1>b
  <2> QED BY <2>1, <2>2
<1>10. ASSUME Full(E, w, c), \A j \in Key : c[j] # Absent => j <= k PROVE Full(E2, w2, c)
  <2> SUFFICES ASSUME NEW j \in Key, c[j] # Absent PROVE j \in DOMAIN E2[w2[j]]
    BY DEF Full
  <2>1. j \in DOMAIN E[w[j]] /\ j <= k
    BY <1>10 DEF Full
  <2>2. CASE j < s
    <3>1. w2[j] = w[j] /\ w[j] \in Lf
      BY <1>4, <1>t, <2>2
    <3> QED BY <1>0, <2>1, <2>2, <3>1
  <2>3. CASE ~(j < s)
    <3>1. s <= j
      <4>1. j \in Nat /\ s \in Nat
        BY <1>n
      <4> QED BY ONLY <2>3, <4>1
    <3>2. w[j] = p
      BY <1>0, <1>1, <1>n, <2>1, <3>1 DEF Sem, Intervals
    <3>3. j \in DOMAIN E2[N]
      BY <1>0, <2>1, <3>1, <3>2
    <3> QED BY <1>4, <2>3, <3>3
  <2> QED BY <2>2, <2>3
<1> QED BY <1>5, <1>6, <1>7, <1>8, <1>9, <1>10 DEF Sem

-----------------------------------------------------------------------------
(***************************************************************************)
(* The inductive invariant.                                                *)
(***************************************************************************)
Los(pg)      == [p \in LeafsOf(pg) |-> LoOf(pg, p)]
Prevs(pg)    == [p \in LeafsOf(pg) |-> pg[p].prev]
Ents(pg)     == [p \in LeafsOf(pg) |-> pg[p].entries]
Walks(pg, r) == [k \in Key |-> Walk(pg, r, k)]

(* With entries of one size a leaf stays below the threshold, and loses    *)
(* free space only by lending an entry while it has more than BorMin.      *)
Room(l) ==
  /\ Cap - l.free < SplitAt
  /\ \/ l.free + Count(l) = Cap
     \/ BorMin >= 1 /\ Cap - SplitAt + BorMin + 1 <= l.free + Count(l)

TreeInd ==
  /\ \E n \in 2 .. MaxPage : Shape(page, n)
  /\ root \in NodesOf(page)
  /\ kv \in [Key -> Value \cup {Absent}] /\ ascending \in BOOLEAN /\ uniform \in BOOLEAN

UniformInd ==
  uniform =>
    /\ \A p \in LeafsOf(page) : Short(page[p]) /\ Room(page[p])
    /\ Sem(LeafsOf(page), Los(page), Prevs(page), Ents(page), Walks(page, root), kv)
    /\ ascending => Full(Ents(page), Walks(page, root), kv)

BTreeInd == TreeInd /\ UniformInd

(* The invariant implies what the runs check.                              *)
LEMMA TreeIndType == TreeInd => TypeOK /\ FreeSpaceSafe
<1> SUFFICES ASSUME TreeInd PROVE TypeOK /\ FreeSpaceSafe
  OBVIOUS
<1>1. PICK n \in 2 .. MaxPage : Shape(page, n)
  BY DEF TreeInd
<1>2. /\ n \in Nat /\ n >= 2 /\ DOMAIN page = 2 .. n
  BY <1>1 DEF Shape
<1>3. NextPage = n + 1
  <2>1. Max(2 .. n) = n
    <3>1. n \in 2 .. n /\ 2 .. n \subseteq Nat /\ \A y \in 2 .. n : y <= n
      BY <1>2
    <3> QED BY <3>1, MaxIs
  <2> QED BY <1>2, <2>1 DEF NextPage
<1>4. LeafPages = LeafsOf(page) /\ Nodes = NodesOf(page)
  BY DEF LeafPages, LeafsOf, Nodes, NodesOf
<1>5. InnerPages \subseteq NodesOf(page) \ LeafsOf(page)
  BY DEF InnerPages, LeafsOf, NodesOf
<1>6. ASSUME NEW p \in LeafPages
      PROVE  /\ Keys(p) \subseteq Key /\ \A k \in Keys(p) : page[p].entries[k] \in Value
             /\ page[p].free \in 0 .. Cap /\ page[p].prev \in LeafPages \cup {0}
             /\ page[p].free <= Cap - Used(page[p].entries)
  <2>1. AsLeaf(page, n, p)
    BY <1>1, <1>4, Kinds
  <2>2. PICK l : l = page[p]
    OBVIOUS
  <2>3. GoodLeaf(l) /\ l.prev \in LeafPages \cup {0}
    BY <1>4, <2>1, <2>2 DEF AsLeaf
  <2>4. l.free \in 0 .. Cap /\ Used(l.entries) \in Nat /\ l.free \in Nat /\ l.free + Used(l.entries) <= Cap
    BY <2>3, GoodCount DEF GoodLeaf
  <2>5. l.free <= Cap - Used(l.entries)
    BY ONLY <2>4, CapNat
  <2> QED BY <2>2, <2>3, <2>4, <2>5 DEF Keys, GoodLeaf
<1>7. ASSUME NEW p \in InnerPages
      PROVE  /\ page[p].left \in Nodes /\ page[p].right \in LeafPages
             /\ page[p].left < p /\ page[p].right < p /\ page[p].sep \in Key
  <2>1. AsInner(page, p) /\ p \in 2 .. n
    BY <1>1, <1>5, Kinds
  <2> QED BY <1>2, <1>4, <2>1 DEF AsInner
<1>8. /\ DOMAIN page = FirstPage .. NextPage - 1 /\ NextPage <= MaxPage + 1
  <2>1. MaxPage \in Nat /\ n <= MaxPage
    BY TreeAssumption
  <2> QED BY <1>2, <1>3, <2>1 DEF FirstPage
<1>9. /\ root \in Nodes /\ kv \in [Key -> Value \cup {Absent}] /\ {ascending, uniform} \subseteq BOOLEAN
  BY <1>4 DEF TreeInd
<1>10. TypeOK
  BY <1>6, <1>7, <1>8, <1>9 DEF TypeOK
<1>11. FreeSpaceSafe
  BY <1>6 DEF FreeSpaceSafe
<1> QED BY <1>10, <1>11

(* Where the invariant says that searches lead.                            *)
LEMMA Searches ==
  ASSUME NEW pg, NEW n, Shape(pg, n), NEW r \in NodesOf(pg), NEW k
  PROVE  Walk(pg, r, k) \in LeafsOf(pg)
<1>1. Downward(pg)
  BY ShapeDownward
<1>2. PICK f \in [NodesOf(pg) -> LeafsOf(pg)] :
         /\ Ends0(f, NodesOf(pg), LeafsOf(pg), Side(pg, k))
         /\ \A q : Walk(pg, q, k) = f[q]
  BY ONLY <1>1, WalkIs
<1> QED BY <1>2

LEMMA IndGets ==
  ASSUME BTreeInd, uniform
  PROVE  /\ \A k \in Key : Get(k) \in {kv[k], Absent}
         /\ ascending => \A k \in Key : Get(k) = kv[k]
<1>1. PICK n \in 2 .. MaxPage : Shape(page, n)
  BY DEF BTreeInd, TreeInd
<1>2. PICK E, w : E = Ents(page) /\ w = Walks(page, root)
  OBVIOUS
<1>3. ASSUME NEW k \in Key
      PROVE  Get(k) = IF k \in DOMAIN E[w[k]] THEN E[w[k]][k] ELSE Absent
  <2>1. LeafOf(k) = w[k]
    BY <1>2, LeafOfIsWalk DEF Walks
  <2>2. w[k] \in LeafsOf(page)
    BY <1>1, <1>2, Searches DEF Walks, BTreeInd, TreeInd
  <2>3. E[w[k]] = page[w[k]].entries
    BY <1>2, <2>2 DEF Ents
  <2> QED BY <2>1, <2>3 DEF Get, Lookup
<1>4. PICK Lf, lo, pv : Sem(Lf, lo, pv, E, w, kv)
  BY <1>2 DEF BTreeInd, UniformInd
<1>5. \A k \in Key : k \in DOMAIN E[w[k]] => E[w[k]][k] = kv[k]
  BY <1>4 DEF Sem, Faithful
<1>6. ascending => \A k \in Key : kv[k] # Absent => k \in DOMAIN E[w[k]]
  BY <1>2 DEF BTreeInd, UniformInd, Full
<1> QED BY <1>3, <1>5, <1>6

-----------------------------------------------------------------------------
(***************************************************************************)
(* The steps.                                                              *)
(***************************************************************************)
LEMMA RewriteViews ==
  ASSUME NEW pg, NEW n, Shape(pg, n), NEW p, NEW l, NEW pg2, Rewritten(pg, p, l, pg2),
         NEW r \in NodesOf(pg)
  PROVE  /\ p \in LeafsOf(pg) /\ LeafsOf(pg2) = LeafsOf(pg) /\ Los(pg2) = Los(pg) /\ Prevs(pg2) = Prevs(pg)
         /\ Walks(pg2, r) = Walks(pg, r) /\ pg2[p] = l
         /\ \A q \in LeafsOf(pg) \ {p} : pg2[q] = pg[q]
         /\ DOMAIN Ents(pg2) = LeafsOf(pg) /\ Ents(pg2)[p] = l.entries
         /\ \A q \in LeafsOf(pg) \ {p} : Ents(pg2)[q] = Ents(pg)[q]
<1>1. /\ LeafsOf(pg2) = LeafsOf(pg)
      /\ pg2[p] = l /\ \A q \in 2 .. n : q # p => pg2[q] = pg[q]
      /\ \A q \in LeafsOf(pg) : LoOf(pg2, q) = LoOf(pg, q)
      /\ \A k \in Key : Walk(pg2, r, k) = Walk(pg, r, k)
  BY Rewrite
<1>2. LeafsOf(pg) \subseteq 2 .. n /\ p \in LeafsOf(pg) /\ l.prev = pg[p].prev
  BY Kinds DEF Rewritten
<1>3. \A q \in LeafsOf(pg) \ {p} : pg2[q] = pg[q]
  BY <1>1, <1>2
<1>4. \A q \in LeafsOf(pg) : pg2[q].prev = pg[q].prev
  BY <1>1, <1>2, <1>3
<1>5. Prevs(pg2) = Prevs(pg)
  BY <1>1, <1>4 DEF Prevs
<1>6. Los(pg2) = Los(pg) /\ Walks(pg2, r) = Walks(pg, r)
  BY <1>1 DEF Los, Walks
<1>7. /\ DOMAIN Ents(pg2) = LeafsOf(pg) /\ Ents(pg2)[p] = l.entries
      /\ \A q \in LeafsOf(pg) \ {p} : Ents(pg2)[q] = Ents(pg)[q]
  BY <1>1, <1>2, <1>3 DEF Ents
<1> QED BY <1>1, <1>2, <1>3, <1>5, <1>6, <1>7

LEMMA GrowViews ==
  ASSUME NEW pg, NEW n, Shape(pg, n), NEW r, NEW p, NEW l, NEW u, NEW s, NEW pg2,
         Grown(pg, n, r, p, l, u, s, pg2)
  PROVE  /\ LeafsOf(pg2) = LeafsOf(pg) \cup {n + 1} /\ n + 1 \notin LeafsOf(pg) /\ n + 1 \in Nat
         /\ Los(pg2) = [q \in LeafsOf(pg2) |-> IF q = n + 1 THEN s ELSE Los(pg)[q]]
         /\ Prevs(pg2) = [q \in LeafsOf(pg2) |-> IF q = n + 1 THEN p ELSE Prevs(pg)[q]]
         /\ Walks(pg2, n + 2) = [i \in Key |-> IF i < s THEN Walks(pg, r)[i] ELSE n + 1]
         /\ DOMAIN Ents(pg2) = LeafsOf(pg2)
         /\ Ents(pg2)[n + 1] = u.entries /\ Ents(pg2)[p] = l.entries /\ p \in LeafsOf(pg)
         /\ \A q \in LeafsOf(pg) \ {p} : Ents(pg2)[q] = Ents(pg)[q]
         /\ pg2[p] = l /\ pg2[n + 1] = u /\ \A q \in LeafsOf(pg) \ {p} : pg2[q] = pg[q]
<1>1. /\ LeafsOf(pg2) = LeafsOf(pg) \cup {n + 1} /\ n + 1 \notin 2 .. n
      /\ pg2[p] = l /\ pg2[n + 1] = u /\ \A q \in 2 .. n : q # p => pg2[q] = pg[q]
      /\ LoOf(pg2, n + 1) = s /\ \A q \in LeafsOf(pg) : LoOf(pg2, q) = LoOf(pg, q)
      /\ \A k \in Key : Walk(pg2, n + 2, k) = IF k < s THEN Walk(pg, r, k) ELSE n + 1
  BY Grow
<1>2. /\ LeafsOf(pg) \subseteq 2 .. n /\ p \in LeafsOf(pg) /\ l.prev = pg[p].prev /\ u.prev = p
      /\ n + 1 \in Nat
  BY Kinds DEF Grown, Shape
<1>3. n + 1 \notin LeafsOf(pg) /\ \A q \in LeafsOf(pg) \ {p} : pg2[q] = pg[q]
  BY <1>1, <1>2
<1>4. Los(pg2) = [q \in LeafsOf(pg2) |-> IF q = n + 1 THEN s ELSE Los(pg)[q]]
  BY <1>1, <1>3 DEF Los
<1>5. Prevs(pg2) = [q \in LeafsOf(pg2) |-> IF q = n + 1 THEN p ELSE Prevs(pg)[q]]
  <2>1. \A q \in LeafsOf(pg) : pg2[q].prev = pg[q].prev
    BY <1>1, <1>2, <1>3
  <2> QED BY <1>1, <1>2, <1>3, <2>1 DEF Prevs
<1>6. Walks(pg2, n + 2) = [i \in Key |-> IF i < s THEN Walks(pg, r)[i] ELSE n + 1]
  BY <1>1 DEF Walks
<1>7. /\ DOMAIN Ents(pg2) = LeafsOf(pg2)
      /\ Ents(pg2)[n + 1] = u.entries /\ Ents(pg2)[p] = l.entries
      /\ \A q \in LeafsOf(pg) \ {p} : Ents(pg2)[q] = Ents(pg)[q]
  BY <1>1, <1>2, <1>3 DEF Ents
<1> QED BY <1>1, <1>2, <1>3, <1>4, <1>5, <1>6, <1>7

(* The numbers of a put, of a split and of a loan.                         *)
LEMMA RoomPut ==
  ASSUME NEW l, GoodLeaf(l), Short(l), Room(l), NEW m, GoodLeaf(m),
         m.free + Count(m) = l.free + Count(l),
         (Count(l) = 0 /\ m.free = l.free - 1) \/ Cap - m.free < SplitAt
  PROVE  Room(m)
<1>1. PICK lf, lc, mf, mc : lf = l.free /\ lc = Count(l) /\ mf = m.free /\ mc = Count(m)
  OBVIOUS
<1>2. lf \in Nat /\ lc \in Nat /\ mf \in Nat /\ mc \in Nat
  BY <1>1, GoodCount DEF GoodLeaf
<1>3. SplitAt >= 2
  BY TreeAssumption
<1>4. /\ Cap - lf < SplitAt
      /\ lf + lc = Cap \/ (BorMin >= 1 /\ Cap - SplitAt + BorMin + 1 <= lf + lc)
  BY <1>1 DEF Room
<1>6. /\ mf + mc = lf + lc
  BY <1>1
<1>7. (lc = 0 /\ mf = lf - 1) \/ Cap - mf < SplitAt
  BY <1>1
<1>8. Cap - mf < SplitAt
  BY ONLY <1>2, <1>3, <1>4, <1>7, CapNat
<1> QED BY <1>1, <1>4, <1>6, <1>8 DEF Room

LEMMA RoomSpace ==
  ASSUME NEW l, GoodLeaf(l), Room(l), NEW v PROVE HasSpace(l, v)
<1>1. l.free \in Nat /\ Cap - l.free < SplitAt
  BY DEF GoodLeaf, Room
<1>2. SplitAt + 1 <= Cap
  BY TreeAssumption
<1>3. l.free >= 2
  BY ONLY <1>1, <1>2, CapNat
<1> QED BY <1>1, <1>3 DEF HasSpace, Size

(* A leaf that splits has more than BorMin entries and at most SplitAt.    *)
LEMMA SplitNumbers ==
  ASSUME NEW l, GoodLeaf(l), Short(l), Room(l), NEW m, GoodLeaf(m), Short(m),
         m.free = l.free - 1, Count(m) = Count(l) + 1, NeedsSplit(m)
  PROVE  /\ Count(m) \in Nat /\ Count(m) >= 2 /\ Count(m) <= SplitAt
         /\ SplitAt >= BorMin + 2 => 2 * DelMin <= Count(m)
<1>1. PICK lf, lc, mf, mc : lf = l.free /\ lc = Count(l) /\ mf = m.free /\ mc = Count(m)
  OBVIOUS
<1>2. lf \in Nat /\ lc \in Nat /\ mf \in Nat /\ mc \in Nat /\ mf + mc <= Cap
  BY <1>1, GoodCount DEF GoodLeaf
<1>3. SplitAt >= 2 /\ 2 * DelMin <= BorMin + 1
  BY TreeAssumption
<1>4. /\ Cap - lf < SplitAt
      /\ lf + lc = Cap \/ (BorMin >= 1 /\ Cap - SplitAt + BorMin + 1 <= lf + lc)
  BY <1>1 DEF Room
<1>5. mf = lf - 1 /\ mc = lc + 1 /\ Cap - mf >= SplitAt
  BY <1>1 DEF NeedsSplit
<1>6. /\ mc >= 2 /\ mc <= SplitAt
      /\ SplitAt >= BorMin + 2 => 2 * DelMin <= mc
  BY ONLY <1>2, <1>3, <1>4, <1>5, CapNat
<1> QED BY <1>1, <1>2, <1>6

LEMMA PutInPlaceStep ==
  ASSUME BTreeInd, NEW k \in Key, NEW v \in Value, PutInPlace(k, v)
  PROVE  BTreeInd'
<1>1. PICK n \in 2 .. MaxPage : Shape(page, n)
  BY DEF BTreeInd, TreeInd
<1>2. PICK p, old, new : p = LeafOf(k) /\ old = page[p] /\ new = LeafInsert(old, k, v)
  OBVIOUS
<1>3. /\ HasSpace(old, v) /\ page' = [page EXCEPT ![p] = new] /\ root' = root /\ ShouldHold(k, v)
      /\ FirstEntry(p) \/ k \in DOMAIN old.entries \/ ~NeedsSplit(new)
  BY <1>2 DEF PutInPlace, Keys
<1>4. p = Walk(page, root, k) /\ p \in LeafsOf(page) /\ root \in NodesOf(page) /\ p = Walks(page, root)[k]
  BY <1>1, <1>2, LeafOfIsWalk, Searches DEF BTreeInd, TreeInd, Walks
<1>5. GoodLeaf(old)
  BY <1>1, <1>2, <1>4, Kinds DEF AsLeaf
<1>6. /\ GoodLeaf(new) /\ new.prev = old.prev
      /\ DOMAIN new.entries = DOMAIN old.entries \cup {k} /\ new.entries[k] = v
      /\ \A j \in DOMAIN old.entries \ {k} : new.entries[j] = old.entries[j]
      /\ Count(new) = IF k \in DOMAIN old.entries THEN Count(old) ELSE Count(old) + 1
      /\ Short(old) /\ v \notin LongValue =>
           /\ Short(new)
           /\ new.free = IF k \in DOMAIN old.entries THEN old.free ELSE old.free - 1
  BY <1>2, <1>3, <1>5, InsertGood
<1>7. Rewritten(page, p, new, page')
  BY <1>2, <1>3, <1>4, <1>6 DEF Rewritten
<1>8. Shape(page', n) /\ NodesOf(page') = NodesOf(page)
  BY <1>1, <1>7, Rewrite
<1>9. TreeInd'
  <2>1. /\ kv' \in [Key -> Value \cup {Absent}] /\ ascending' \in BOOLEAN /\ uniform' \in BOOLEAN
    BY <1>3 DEF ShouldHold, BTreeInd, TreeInd
  <2> QED BY <1>3, <1>4, <1>8, <2>1 DEF TreeInd
<1>10. ASSUME uniform' PROVE UniformInd'
  <2>1. uniform /\ v \notin LongValue
    BY <1>3, <1>10 DEF ShouldHold
  <2>2. /\ \A q \in LeafsOf(page) : Short(page[q]) /\ Room(page[q])
        /\ Sem(LeafsOf(page), Los(page), Prevs(page), Ents(page), Walks(page, root), kv)
        /\ ascending => Full(Ents(page), Walks(page, root), kv)
    BY <2>1 DEF BTreeInd, UniformInd
  <2>3. /\ LeafsOf(page') = LeafsOf(page) /\ Los(page') = Los(page) /\ Prevs(page') = Prevs(page)
        /\ Walks(page', root) = Walks(page, root) /\ page'[p] = new
        /\ \A q \in LeafsOf(page) \ {p} : page'[q] = page[q]
        /\ DOMAIN Ents(page') = LeafsOf(page) /\ Ents(page')[p] = new.entries
        /\ \A q \in LeafsOf(page) \ {p} : Ents(page')[q] = Ents(page)[q]
    <3>1. PICK pg, pg2, r : pg = page /\ pg2 = page' /\ r = root
      OBVIOUS
    <3>2. Shape(pg, n) /\ Rewritten(pg, p, new, pg2) /\ r \in NodesOf(pg)
      BY <1>1, <1>4, <1>7, <3>1
    <3>3. /\ LeafsOf(pg2) = LeafsOf(pg) /\ Los(pg2) = Los(pg) /\ Prevs(pg2) = Prevs(pg)
          /\ Walks(pg2, r) = Walks(pg, r) /\ pg2[p] = new
          /\ \A q \in LeafsOf(pg) \ {p} : pg2[q] = pg[q]
          /\ DOMAIN Ents(pg2) = LeafsOf(pg) /\ Ents(pg2)[p] = new.entries
          /\ \A q \in LeafsOf(pg) \ {p} : Ents(pg2)[q] = Ents(pg)[q]
      BY ONLY <3>2, RewriteViews
    <3> QED BY <3>1, <3>3
  <2>4. Short(old) /\ Room(old)
    BY <1>2, <1>4, <2>2
  <2>5. Short(new) /\ Room(new)
    <3>1. /\ Short(new)
          /\ new.free = IF k \in DOMAIN old.entries THEN old.free ELSE old.free - 1
      BY <1>6, <2>1, <2>4
    <3>2. /\ old.free \in Nat /\ Count(old) \in Nat /\ new.free \in Nat
          /\ Count(old) = 0 <=> DOMAIN old.entries = {}
      BY <1>5, <1>6, GoodCount DEF GoodLeaf
    <3>3. new.free + Count(new) = old.free + Count(old)
      BY ONLY <1>6, <3>1, <3>2
    <3>4. (Count(old) = 0 /\ new.free = old.free - 1) \/ Cap - new.free < SplitAt
      <4>1. CASE FirstEntry(p)
        BY <1>2, <3>1, <3>2, <4>1 DEF FirstEntry, Keys
      <4>2. CASE k \in DOMAIN old.entries
        BY <2>4, <3>1, <4>2 DEF Room
      <4>3. CASE ~NeedsSplit(new)
        <5>1. ~(Cap - new.free >= SplitAt)
          BY <4>3 DEF NeedsSplit
        <5> QED BY ONLY <3>2, <5>1, CapNat
      <4> QED BY <1>3, <4>1, <4>2, <4>3
    <3>5. Room(new)
      BY <1>5, <1>6, <2>4, <3>3, <3>4, RoomPut
    <3> QED BY <3>1, <3>5
  <2>6. \A q \in LeafsOf(page) : Short(page'[q]) /\ Room(page'[q])
    BY <2>2, <2>3, <2>5
  <2>7. PICK Lf, lo, pv, E, w, E2, e : /\ Lf = LeafsOf(page) /\ lo = Los(page) /\ pv = Prevs(page)
                                     /\ E = Ents(page) /\ w = Walks(page, root) /\ E2 = Ents(page')
                                     /\ e = new.entries
    OBVIOUS
  <2>8. Sem(Lf, lo, pv, E2, w, kv') /\ (Full(E, w, kv) => Full(E2, w, kv'))
    <3>1. Sem(Lf, lo, pv, E, w, kv)
      BY <2>2, <2>7
    <3>2. w[k] = p /\ E[p] = old.entries
      BY <1>2, <1>4, <2>7 DEF Ents
    <3>3. /\ DOMAIN e = DOMAIN E[w[k]] \cup {k} /\ e[k] = v
          /\ \A j \in DOMAIN E[w[k]] \ {k} : e[j] = E[w[k]][j]
      BY <1>6, <2>7, <3>2
    <3>4. DOMAIN E2 = Lf /\ E2[w[k]] = e /\ \A q \in Lf \ {w[k]} : E2[q] = E[q]
      BY <2>3, <2>7, <3>2
    <3>5. kv'[k] = v /\ \A j \in Key \ {k} : kv'[j] = kv[j]
      BY <1>3 DEF ShouldHold, BTreeInd, TreeInd
    <3>6. PICK c, c2 : c = kv /\ c2 = kv'
      OBVIOUS
    <3>7. Sem(Lf, lo, pv, E2, w, c2) /\ (Full(E, w, c) => Full(E2, w, c2))
      <4>1. Sem(Lf, lo, pv, E, w, c) /\ c2[k] = v /\ \A j \in Key \ {k} : c2[j] = c[j]
        BY <3>1, <3>5, <3>6
      <4> QED BY ONLY <4>1, <3>3, <3>4, k \in Key, SemPut
    <3> QED BY <3>6, <3>7
  <2>9. ascending' => ascending
    BY <1>3 DEF ShouldHold
  <2>10. /\ Sem(LeafsOf(page'), Los(page'), Prevs(page'), Ents(page'), Walks(page', root'), kv')
         /\ ascending' => Full(Ents(page'), Walks(page', root'), kv')
    BY <1>3, <2>2, <2>3, <2>7, <2>8, <2>9
  <2> QED BY <2>3, <2>6, <2>10 DEF UniformInd
<1>11. UniformInd'
  BY <1>10 DEF UniformInd
<1> QED BY <1>9, <1>11 DEF BTreeInd

LEMMA InitInd == Init => BTreeInd
<1> SUFFICES ASSUME Init PROVE BTreeInd
  OBVIOUS
<1>1. PICK e, l : e = [k \in {} |-> Absent] /\ l = Leaf(e, Cap, 0)
  OBVIOUS
<1>2. DOMAIN e = {} /\ l.entries = e /\ l.free = Cap /\ l.prev = 0 /\ l.kind = "leaf"
      /\ l = Leaf(l.entries, l.free, l.prev)
  BY <1>1 DEF Leaf
<1>3. page = [p \in {2} |-> l] /\ root = 2 /\ kv = [k \in Key |-> Absent]
      /\ ascending = TRUE /\ uniform = TRUE
  BY <1>1 DEF Init, FirstPage
<1>4. IsFiniteSet(DOMAIN e) /\ Cardinality(DOMAIN e) = 0
  BY <1>2, FS_EmptySet
<1>5. Used(e) = 0
  <2>1. Used(e) \in Nat /\ Used(e) <= 2 * Cardinality(DOMAIN e)
    BY <1>4, UsedBounds
  <2> QED BY ONLY <1>4, <2>1
<1>6. GoodLeaf(l) /\ Short(l) /\ Count(l) = 0
  <2>1. Cap \in Nat /\ Cap + 0 <= Cap
    BY CapNat
  <2> QED BY <1>2, <1>4, <1>5, <2>1 DEF GoodLeaf, Short, Count
<1>7. page[2] = l /\ DOMAIN page = {2} /\ LeafsOf(page) = {2} /\ NodesOf(page) = {2}
  BY <1>2, <1>3 DEF LeafsOf, NodesOf
<1>8. Shape(page, 2)
  <2>1. 2 .. 2 = {2} /\ 0 < 2
    OBVIOUS
  <2>2. AsLeaf(page, 2, 2)
    BY <1>2, <1>6, <1>7, <2>1 DEF AsLeaf
  <2> QED BY <1>2, <1>7, <2>1, <2>2 DEF Shape
<1>9. TreeInd
  <2>1. 2 \in 2 .. MaxPage
    BY TreeAssumption
  <2> QED BY <1>3, <1>7, <1>8, <2>1 DEF TreeInd
<1>10. Room(l)
  <2>1. Cap - Cap < SplitAt /\ Cap + 0 = Cap
    BY CapNat, TreeAssumption
  <2> QED BY <1>2, <1>6, <2>1 DEF Room
<1>11. PICK Lf, lo, pv, E, w : /\ Lf = LeafsOf(page) /\ lo = Los(page) /\ pv = Prevs(page)
                               /\ E = Ents(page) /\ w = Walks(page, root)
  OBVIOUS
<1>12. /\ Lf = {2} /\ lo = [q \in {2} |-> 0] /\ pv = [q \in {2} |-> 0] /\ E = [q \in {2} |-> e]
       /\ w = [k \in Key |-> 2]
  <2>1. w = [k \in Key |-> 2]
    <3>1. \A k \in Key : Walk(page, root, k) \in LeafsOf(page)
      BY <1>3, <1>7, <1>8, Searches
    <3> QED BY <1>7, <1>11, <3>1 DEF Walks
  <2> QED BY <1>2, <1>7, <1>11, <2>1 DEF Los, LoOf, Prevs, Ents
<1>13. Sem(Lf, lo, pv, E, w, kv)
  <2>1. LeafTypes(Lf, lo, pv, E, w)
    BY <1>2, <1>4, <1>12 DEF LeafTypes
  <2>2. Intervals(lo, w)
    BY <1>12, KeyNat DEF Intervals
  <2>3. Faithful(lo, E, w, kv) /\ Neighbours(Lf, lo, pv, E, w)
    BY <1>2, <1>12 DEF Faithful, Neighbours
  <2>4. Borrowed(Lf, lo, E)
    <3>1. \A p \in Lf : Foreign(lo, E, p) = {}
      BY <1>2, <1>12 DEF Foreign
    <3>2. Cardinality({}) = 0 /\ 0 <= DelMin
      BY CapNat, FS_EmptySet
    <3> QED BY <3>1, <3>2 DEF Borrowed
  <2> QED BY <2>1, <2>2, <2>3, <2>4 DEF Sem
<1>14. Full(E, w, kv)
  BY <1>3 DEF Full
<1> QED BY <1>6, <1>7, <1>9, <1>10, <1>11, <1>13, <1>14 DEF BTreeInd, UniformInd

LEMMA NextPageIs ==
  ASSUME NEW n, Shape(page, n)
  PROVE  NextPage = n + 1
<1>1. n \in Nat /\ n >= 2 /\ DOMAIN page = 2 .. n
  BY DEF Shape
<1>2. n \in 2 .. n /\ 2 .. n \subseteq Nat /\ \A y \in 2 .. n : y <= n
  BY <1>1
<1>3. Max(2 .. n) = n
  BY <1>2, MaxIs
<1> QED BY <1>1, <1>3 DEF NextPage

(* What split_leaf_node makes of a leaf that is not empty.                 *)
LEMMA SplitHalves ==
  ASSUME NEW g, GoodLeaf(g), DOMAIN g.entries # {}, NEW p,
         NEW u, u = Part(g.entries, Upper(g.entries), p), NEW l, l = LowerHalf(g),
         NEW s, s = Min(DOMAIN u.entries)
  PROVE  /\ GoodLeaf(u) /\ u.prev = p /\ GoodLeaf(l) /\ l.prev = g.prev
         /\ s \in Key /\ s \in DOMAIN g.entries
         /\ DOMAIN u.entries = {j \in DOMAIN g.entries : s <= j}
         /\ DOMAIN l.entries = {j \in DOMAIN g.entries : j < s}
         /\ \A j \in DOMAIN u.entries : u.entries[j] = g.entries[j]
         /\ \A j \in DOMAIN l.entries : l.entries[j] = g.entries[j]
         /\ Count(l) = Count(g) \div 2 /\ Count(u) = Count(g) - (Count(g) \div 2)
         /\ l.free + Used(l.entries) = Cap
         /\ Used(l.entries) + Count(u) <= Used(g.entries)
         /\ Short(g) => /\ Short(l) /\ l.free = Cap - Count(l)
                        /\ Short(u) /\ u.free = Cap - Count(u)
<1>1. PICK e, U, L : e = g.entries /\ U = Upper(e) /\ L = DOMAIN e \ U
  OBVIOUS
<1>2. IsFiniteSet(DOMAIN e) /\ DOMAIN e \subseteq Nat /\ DOMAIN e \subseteq Key /\ DOMAIN e # {}
  BY <1>1, KeyNat DEF GoodLeaf
<1>3. PICK m : m = Cardinality(DOMAIN e)
  OBVIOUS
<1>4. /\ m \in Nat /\ U \subseteq DOMAIN e /\ L \subseteq DOMAIN e
      /\ Cardinality(L) = m \div 2 /\ Cardinality(U) = m - (m \div 2)
      /\ \A x \in L, y \in U : x < y
  BY <1>1, <1>2, <1>3, Halves
<1>5. u = Part(g.entries, U, p) /\ l = Part(g.entries, L, g.prev)
  BY <1>1 DEF LowerHalf
<1>6. /\ GoodLeaf(u) /\ u.prev = p /\ DOMAIN u.entries = U
      /\ \A j \in U : u.entries[j] = g.entries[j]
      /\ Short(g) => Short(u) /\ u.free = Cap - Cardinality(U)
  <2>1. GoodLeaf(g) /\ U \in SUBSET DOMAIN g.entries
    BY <1>1, <1>4
  <2>2. IsPart(u, g, U, p)
    BY ONLY <1>5, <2>1, PartGood
  <2> QED BY ONLY <2>2 DEF IsPart
<1>7. /\ GoodLeaf(l) /\ l.prev = g.prev /\ DOMAIN l.entries = L
      /\ \A j \in L : l.entries[j] = g.entries[j]
      /\ l.free + Used(l.entries) = Cap
      /\ Used(l.entries) + Cardinality(DOMAIN g.entries \ L) <= Used(g.entries)
      /\ Short(g) => Short(l) /\ l.free = Cap - Cardinality(L)
  <2>1. GoodLeaf(g) /\ L \in SUBSET DOMAIN g.entries
    BY <1>1, <1>4
  <2>2. IsPart(l, g, L, g.prev)
    BY ONLY <1>5, <2>1, PartGood
  <2> QED BY ONLY <2>2 DEF IsPart
<1>8. DOMAIN g.entries \ L = U
  BY <1>1, <1>4
<1>9. U # {}
  <2>1. m # 0
    BY <1>2, <1>3, FS_EmptySet
  <2>2. m - (m \div 2) # 0
    BY ONLY <1>4, <2>1
  <2> QED BY <1>4, <2>2, FS_EmptySet
<1>10. s \in U /\ \A y \in U : s <= y
  BY <1>2, <1>4, <1>6, <1>9, MinIs
<1>11. U = {j \in DOMAIN e : s <= j} /\ L = {j \in DOMAIN e : j < s}
  <2>1. \A j \in DOMAIN e : j \in L \/ j \in U
    BY <1>1
  <2>2. \A j \in DOMAIN e : j \in Nat
    BY <1>2
  <2>3. s \in Nat
    BY <1>4, <1>10, <2>2
  <2>4. \A j \in DOMAIN e : (j \in U => s <= j) /\ (j \in L => j < s)
    BY <1>4, <1>10
  <2>5. \A j \in DOMAIN e : ~(s <= j /\ j < s)
    BY ONLY <2>2, <2>3
  <2> QED BY <1>4, <2>1, <2>4, <2>5
<1> QED BY <1>1, <1>2, <1>3, <1>4, <1>6, <1>7, <1>8, <1>10, <1>11 DEF Count

LEMMA GrowStep ==
  ASSUME TreeInd, NEW n \in 2 .. MaxPage, Shape(page, n), NEW p \in LeafsOf(page),
         NEW u, NEW l, GoodLeaf(u), u.prev = p, GoodLeaf(l), l.prev = page[p].prev,
         NEW s \in Key, s = Min(DOMAIN u.entries), SplitAndGrow(p, u, l)
  PROVE  /\ Grown(page, n, root, p, l, u, s, page') /\ root' = n + 2 /\ n + 2 \in 2 .. MaxPage
         /\ Shape(page', n + 2) /\ root' \in NodesOf(page')
<1>1. NextPage = n + 1 /\ n \in Nat
  BY NextPageIs DEF Shape
<1>2. (n + 1) + 1 = n + 2
  BY <1>1
<1>3. /\ n + 2 <= MaxPage /\ root' = n + 2
      /\ page' = With(With([page EXCEPT ![p] = l], n + 1, u), n + 2, Inner(root, s, n + 1))
  BY <1>1, <1>2 DEF SplitAndGrow
<1>4. Grown(page, n, root, p, l, u, s, page')
  BY <1>3 DEF Grown, TreeInd
<1>5. Shape(page', n + 2) /\ n + 2 \in NodesOf(page')
  <2>1. PICK pg, pg2, r : pg = page /\ pg2 = page' /\ r = root
    OBVIOUS
  <2>2. Shape(pg, n) /\ Grown(pg, n, r, p, l, u, s, pg2)
    BY <1>4, <2>1
  <2>3. Shape(pg2, n + 2) /\ n + 2 \in NodesOf(pg2)
    BY ONLY <2>2, Grow
  <2> QED BY <2>1, <2>3
<1>6. n + 2 \in 2 .. MaxPage
  BY <1>1, <1>3, TreeAssumption
<1> QED BY <1>3, <1>4, <1>5, <1>6

(* The contents and the flags stay of their types. *)
LEMMA ShouldHoldTypes ==
  ASSUME TreeInd, NEW k \in Key, NEW v \in Value, ShouldHold(k, v)
  PROVE  /\ kv' \in [Key -> Value \cup {Absent}] /\ ascending' \in BOOLEAN /\ uniform' \in BOOLEAN
         /\ kv'[k] = v /\ \A j \in Key \ {k} : kv'[j] = kv[j]
BY DEF ShouldHold, TreeInd

(* The lower half of a split begins no lower than the leaf's lowest key:   *)
(* the borrowed entries are fewer than half.                               *)
LEMMA SplitAboveLow ==
  ASSUME NEW D, IsFiniteSet(D), D \subseteq Nat, NEW s \in D, NEW low \in Nat, NEW m \in Nat,
         NEW L, L = {j \in D : j < s}, Cardinality(L) = m \div 2,
         NEW F, F = {j \in D : j < low}, Cardinality(F) <= DelMin, F # {} => 2 * DelMin <= m
  PROVE  low <= s
<1> SUFFICES ASSUME ~(low <= s) PROVE FALSE
  OBVIOUS
<1>1. s \in Nat /\ s < low /\ ~(s < s)
  OBVIOUS
<1>2. L \subseteq F /\ s \in F /\ s \notin L /\ L \subseteq D /\ F \subseteq D
  <2>1. \A j \in D : j \in Nat
    OBVIOUS
  <2>2. \A j \in D : j < s => j < low
    BY ONLY <1>1, <2>1, low \in Nat
  <2> QED BY <1>1, <2>2
<1>3. IsFiniteSet(L) /\ IsFiniteSet(F)
  BY <1>2, FS_Subset
<1>4. IsFiniteSet(L \cup {s}) /\ Cardinality(L \cup {s}) = Cardinality(L) + 1
  BY <1>2, <1>3, FS_AddElement
<1>5. Cardinality(L \cup {s}) <= Cardinality(F) /\ Cardinality(F) \in Nat
  <2>1. L \cup {s} \subseteq F
    BY <1>2
  <2> QED BY <1>3, <1>4, <2>1, FS_Subset, FS_CardinalityType
<1>6. 2 * DelMin <= m
  BY <1>2
<1>7. PICK c, d, f : c = Cardinality(L \cup {s}) /\ d = m \div 2 /\ f = Cardinality(F)
  OBVIOUS
<1>8. c = d + 1 /\ c <= f /\ f <= DelMin /\ f \in Nat /\ d \in Nat /\ DelMin \in Nat /\ m < 2 * d + 2
  BY <1>4, <1>5, <1>7, CapNat
<1> QED BY ONLY <1>6, <1>8, m \in Nat

LEMMA PutThenSplitStep ==
  ASSUME BTreeInd, NEW k \in Key, NEW v \in Value, PutThenSplit(k, v)
  PROVE  BTreeInd'
<1>1. PICK n \in 2 .. MaxPage : Shape(page, n)
  BY DEF BTreeInd, TreeInd
<1>2. PICK p, old, new : p = LeafOf(k) /\ old = page[p] /\ new = LeafInsert(old, k, v)
  OBVIOUS
<1>3. PICK u, l, s : /\ u = Part(new.entries, Upper(new.entries), p) /\ l = LowerHalf(new)
                     /\ s = Min(DOMAIN u.entries)
  OBVIOUS
<1>4. /\ HasSpace(old, v) /\ k \notin DOMAIN old.entries /\ NeedsSplit(new)
      /\ SplitAndGrow(p, u, l) /\ ShouldHold(k, v)
  BY <1>2, <1>3 DEF PutThenSplit, Keys
<1>5. /\ p = Walk(page, root, k) /\ p \in LeafsOf(page) /\ root \in NodesOf(page)
      /\ p = Walks(page, root)[k] /\ TreeInd
  BY <1>1, <1>2, LeafOfIsWalk, Searches DEF BTreeInd, TreeInd, Walks
<1>6. GoodLeaf(old)
  BY <1>1, <1>2, <1>5, Kinds DEF AsLeaf
<1>7. /\ GoodLeaf(new) /\ new.prev = old.prev
      /\ DOMAIN new.entries = DOMAIN old.entries \cup {k} /\ new.entries[k] = v
      /\ \A j \in DOMAIN old.entries \ {k} : new.entries[j] = old.entries[j]
      /\ Count(new) = Count(old) + 1
      /\ Short(old) /\ v \notin LongValue => Short(new) /\ new.free = old.free - 1
  BY <1>2, <1>4, <1>6, InsertGood
<1>8. /\ GoodLeaf(u) /\ u.prev = p /\ GoodLeaf(l) /\ l.prev = new.prev
      /\ s \in Key /\ s \in DOMAIN new.entries
      /\ DOMAIN u.entries = {j \in DOMAIN new.entries : s <= j}
      /\ DOMAIN l.entries = {j \in DOMAIN new.entries : j < s}
      /\ \A j \in DOMAIN u.entries : u.entries[j] = new.entries[j]
      /\ \A j \in DOMAIN l.entries : l.entries[j] = new.entries[j]
      /\ Count(l) = Count(new) \div 2 /\ Count(u) = Count(new) - (Count(new) \div 2)
      /\ Short(new) => /\ Short(l) /\ l.free = Cap - Count(l)
                       /\ Short(u) /\ u.free = Cap - Count(u)
  <2>1. DOMAIN new.entries # {}
    BY <1>7
  <2> QED BY <1>3, <1>7, <2>1, SplitHalves
<1>9. /\ Grown(page, n, root, p, l, u, s, page') /\ root' = n + 2 /\ n + 2 \in 2 .. MaxPage
      /\ Shape(page', n + 2) /\ root' \in NodesOf(page')
  <2>1. l.prev = page[p].prev
    BY <1>2, <1>7, <1>8
  <2> QED BY <1>1, <1>3, <1>4, <1>5, <1>8, <2>1, GrowStep
<1>10. /\ kv' \in [Key -> Value \cup {Absent}] /\ ascending' \in BOOLEAN /\ uniform' \in BOOLEAN
       /\ kv'[k] = v /\ \A j \in Key \ {k} : kv'[j] = kv[j]
  BY <1>4, <1>5, ShouldHoldTypes
<1>11. TreeInd'
  BY <1>9, <1>10 DEF TreeInd
<1>12. ASSUME uniform' PROVE UniformInd'
  <2>1. uniform /\ v \notin LongValue
    BY <1>4, <1>12 DEF ShouldHold
  <2>2. /\ \A q \in LeafsOf(page) : Short(page[q]) /\ Room(page[q])
        /\ Sem(LeafsOf(page), Los(page), Prevs(page), Ents(page), Walks(page, root), kv)
        /\ ascending => Full(Ents(page), Walks(page, root), kv)
    BY <2>1 DEF BTreeInd, UniformInd
  <2>3. PICK Lf, lo, pv, E, w, c : /\ Lf = LeafsOf(page) /\ lo = Los(page) /\ pv = Prevs(page)
                                   /\ E = Ents(page) /\ w = Walks(page, root) /\ c = kv
    OBVIOUS
  <2>4. PICK Lf2, lo2, pv2, E2, w2, c2 :
             /\ Lf2 = LeafsOf(page') /\ lo2 = Los(page') /\ pv2 = Prevs(page')
             /\ E2 = Ents(page') /\ w2 = Walks(page', root') /\ c2 = kv'
    OBVIOUS
  <2>5. /\ Lf2 = Lf \cup {n + 1} /\ n + 1 \notin Lf /\ n + 1 \in Nat
        /\ lo2 = [q \in Lf2 |-> IF q = n + 1 THEN s ELSE lo[q]]
        /\ pv2 = [q \in Lf2 |-> IF q = n + 1 THEN p ELSE pv[q]]
        /\ w2 = [i \in Key |-> IF i < s THEN w[i] ELSE n + 1]
        /\ DOMAIN E2 = Lf2 /\ E2[n + 1] = u.entries /\ E2[p] = l.entries /\ p \in Lf
        /\ \A q \in Lf \ {p} : E2[q] = E[q]
        /\ page'[p] = l /\ page'[n + 1] = u /\ \A q \in Lf \ {p} : page'[q] = page[q]
    <3>1. PICK pg, pg2, r : pg = page /\ pg2 = page' /\ r = root
      OBVIOUS
    <3>2. Shape(pg, n) /\ Grown(pg, n, r, p, l, u, s, pg2) /\ root' = n + 2
      BY <1>1, <1>9, <3>1
    <3>3. /\ LeafsOf(pg2) = LeafsOf(pg) \cup {n + 1} /\ n + 1 \notin LeafsOf(pg) /\ n + 1 \in Nat
          /\ Los(pg2) = [q \in LeafsOf(pg2) |-> IF q = n + 1 THEN s ELSE Los(pg)[q]]
          /\ Prevs(pg2) = [q \in LeafsOf(pg2) |-> IF q = n + 1 THEN p ELSE Prevs(pg)[q]]
          /\ Walks(pg2, n + 2) = [i \in Key |-> IF i < s THEN Walks(pg, r)[i] ELSE n + 1]
          /\ DOMAIN Ents(pg2) = LeafsOf(pg2)
          /\ Ents(pg2)[n + 1] = u.entries /\ Ents(pg2)[p] = l.entries /\ p \in LeafsOf(pg)
          /\ \A q \in LeafsOf(pg) \ {p} : Ents(pg2)[q] = Ents(pg)[q]
          /\ pg2[p] = l /\ pg2[n + 1] = u /\ \A q \in LeafsOf(pg) \ {p} : pg2[q] = pg[q]
      BY ONLY <3>2, GrowViews
    <3> QED BY <2>3, <2>4, <3>1, <3>2, <3>3
  <2>6. Short(old) /\ Room(old) /\ Short(new) /\ new.free = old.free - 1
    BY <1>2, <1>5, <1>7, <2>1, <2>2
  <2>7. PICK m : m = Count(new)
    OBVIOUS
  <2>8. /\ m \in Nat /\ m >= 2 /\ m <= SplitAt
        /\ SplitAt >= BorMin + 2 => 2 * DelMin <= m
    BY <1>4, <1>6, <1>7, <2>6, <2>7, SplitNumbers
  <2>9. \A q \in LeafsOf(page') : Short(page'[q]) /\ Room(page'[q])
    <3>1. /\ Short(l) /\ l.free = Cap - Count(l) /\ Short(u) /\ u.free = Cap - Count(u)
          /\ Count(l) = m \div 2 /\ Count(u) = m - (m \div 2)
      BY <1>8, <2>6, <2>7
    <3>2. m \div 2 \in Nat /\ 2 * (m \div 2) <= m /\ m < 2 * (m \div 2) + 2
      BY ONLY <2>8
    <3>3. /\ Cap - l.free < SplitAt /\ l.free + Count(l) = Cap
          /\ Cap - u.free < SplitAt /\ u.free + Count(u) = Cap
      <4>1. PICK d, lc, uc, lf, uf : d = m \div 2 /\ lc = Count(l) /\ uc = Count(u) /\ lf = l.free /\ uf = u.free
        OBVIOUS
      <4>2. d \in Nat /\ 2 * d <= m /\ m < 2 * d + 2 /\ lf = Cap - lc /\ uf = Cap - uc /\ lc = d /\ uc = m - d
        BY <3>1, <3>2, <4>1
      <4>3. Cap - lf < SplitAt /\ lf + lc = Cap /\ Cap - uf < SplitAt /\ uf + uc = Cap
        BY ONLY <2>8, <4>2, CapNat
      <4> QED BY <4>1, <4>3
    <3>4. Room(l) /\ Room(u)
      BY <3>3 DEF Room
    <3> QED BY <2>2, <2>3, <2>4, <2>5, <3>1, <3>4
  <2>10. PICK e, E1 : e = new.entries /\ E1 = [E EXCEPT ![p] = e]
    OBVIOUS
  <2>11. w[k] = p /\ E[p] = old.entries /\ DOMAIN E = Lf /\ Sem(Lf, lo, pv, E, w, c)
    BY <1>2, <1>5, <2>2, <2>3 DEF Ents
  <2>12. Sem(Lf, lo, pv, E1, w, c2) /\ (Full(E, w, c) => Full(E1, w, c2))
    <3>1. /\ DOMAIN e = DOMAIN E[w[k]] \cup {k} /\ e[k] = v
          /\ \A j \in DOMAIN E[w[k]] \ {k} : e[j] = E[w[k]][j]
      BY <1>7, <2>10, <2>11
    <3>2. DOMAIN E1 = Lf /\ E1[w[k]] = e /\ \A q \in Lf \ {w[k]} : E1[q] = E[q]
      BY <2>5, <2>10, <2>11
    <3>3. c2[k] = v /\ \A j \in Key \ {k} : c2[j] = c[j]
      BY <1>10, <2>3, <2>4
    <3> QED BY ONLY <2>11, <3>1, <3>2, <3>3, k \in Key, SemPut
  <2>13. DOMAIN E1 = Lf /\ E1[p] = e /\ \A q \in Lf \ {p} : E1[q] = E[q]
    BY <2>5, <2>10, <2>11
  <2>14. lo[p] <= s
    <3>1. LeafTypes(Lf, lo, pv, E1, w) /\ Borrowed(Lf, lo, E1)
      BY <2>12 DEF Sem
    <3>2. /\ Cardinality(Foreign(lo, E1, p)) <= DelMin
          /\ Foreign(lo, E1, p) # {} => SplitAt >= BorMin + 2
      BY <2>5, <3>1 DEF Borrowed
    <3>3. PICK D, L, F, low : D = DOMAIN e /\ L = DOMAIN l.entries /\ F = Foreign(lo, E1, p) /\ low = lo[p]
      OBVIOUS
    <3>4. IsFiniteSet(D) /\ D \subseteq Nat /\ s \in D /\ low \in Nat
      BY <1>7, <1>8, <2>5, <2>10, <3>1, <3>3, KeyNat DEF GoodLeaf, LeafTypes
    <3>5. L = {j \in D : j < s} /\ Cardinality(L) = m \div 2
      BY <1>8, <2>7, <2>10, <3>3 DEF Count
    <3>6. F = {j \in D : j < low} /\ Cardinality(F) <= DelMin /\ (F # {} => 2 * DelMin <= m)
      BY <2>8, <2>13, <3>2, <3>3 DEF Foreign
    <3>7. low <= s
      BY ONLY <2>8, <3>4, <3>5, <3>6, SplitAboveLow
    <3> QED BY <3>3, <3>7
  <2>15. /\ Sem(Lf2, lo2, pv2, E2, w2, c2)
         /\ Full(E1, w, c2) /\ (\A j \in Key : c2[j] # Absent => j <= k) => Full(E2, w2, c2)
    <3>0. PICK N : N = n + 1
      OBVIOUS
    <3>1. /\ N \in Nat /\ N # 0 /\ N \notin Lf /\ s \in DOMAIN E1[w[k]] /\ lo[w[k]] <= s
      BY <1>1, <1>8, <2>5, <2>10, <2>11, <2>13, <2>14, <3>0 DEF Shape
    <3>2. /\ Lf2 = Lf \cup {N} /\ lo2 = [q \in Lf2 |-> IF q = N THEN s ELSE lo[q]]
          /\ pv2 = [q \in Lf2 |-> IF q = N THEN w[k] ELSE pv[q]]
          /\ w2 = [i \in Key |-> IF i < s THEN w[i] ELSE N]
          /\ DOMAIN E2 = Lf2 /\ \A q \in Lf \ {w[k]} : E2[q] = E1[q]
      BY <2>5, <2>11, <2>13, <3>0
    <3>3. /\ DOMAIN E2[N] = {j \in DOMAIN E1[w[k]] : s <= j}
          /\ \A j \in DOMAIN E2[N] : E2[N][j] = E1[w[k]][j]
      <4>1. E2[N] = u.entries /\ E1[w[k]] = new.entries
        BY <2>5, <2>10, <2>11, <2>13, <3>0
      <4> QED BY <1>8, <4>1
    <3>4. /\ DOMAIN E2[w[k]] = {j \in DOMAIN E1[w[k]] : j < s}
          /\ \A j \in DOMAIN E2[w[k]] : E2[w[k]][j] = E1[w[k]][j]
      <4>1. E2[w[k]] = l.entries /\ E1[w[k]] = new.entries
        BY <2>5, <2>10, <2>11, <2>13
      <4> QED BY <1>8, <4>1
    <3>5. SplitInTwo(Lf, lo, pv, E1, w, k, N, s, Lf2, lo2, pv2, E2, w2)
      BY ONLY <3>1, <3>2, <3>3, <3>4, k \in Key DEF SplitInTwo
    <3> QED BY ONLY <2>12, <3>5, SemSplit
  <2>16. ascending' => Full(E2, w2, c2)
    <3> SUFFICES ASSUME ascending' PROVE Full(E2, w2, c2)
      OBVIOUS
    <3>1. ascending /\ (kv[k] = Absent => \A j \in Key : kv[j] # Absent => j < k)
      BY <1>4 DEF ShouldHold
    <3>2. Full(E, w, c)
      BY <2>2, <2>3, <3>1
    <3>3. c[k] = Absent
      BY <1>4, <2>11, <3>2 DEF Full
    <3>4. \A j \in Key : c[j] # Absent => j < k
      BY <2>3, <3>1, <3>3
    <3>5. \A j \in Key : c2[j] # Absent => j <= k
      <4>1. \A j \in Key : c2[j] # Absent => j < k \/ j = k
        BY <1>10, <2>3, <2>4, <3>4
      <4> QED BY <4>1, KeyNat
    <3> QED BY <2>12, <2>15, <3>2, <3>5
  <2>17. /\ Sem(LeafsOf(page'), Los(page'), Prevs(page'), Ents(page'), Walks(page', root'), kv')
         /\ ascending' => Full(Ents(page'), Walks(page', root'), kv')
    BY <2>4, <2>15, <2>16
  <2> QED BY <2>9, <2>17 DEF UniformInd
<1>13. UniformInd'
  BY <1>12 DEF UniformInd
<1> QED BY <1>11, <1>13 DEF BTreeInd

(* A half has room for any entry.                                          *)
LEMMA LowerHasSpace ==
  ASSUME NEW g, GoodLeaf(g), DOMAIN g.entries # {}, NEW v
  PROVE  HasSpace(LowerHalf(g), v)
<1>1. PICK u, l, s, p : /\ u = Part(g.entries, Upper(g.entries), p) /\ l = LowerHalf(g)
                        /\ s = Min(DOMAIN u.entries)
  OBVIOUS
<1>2. /\ GoodLeaf(u) /\ GoodLeaf(l)
      /\ Count(l) = Count(g) \div 2 /\ Count(u) = Count(g) - (Count(g) \div 2)
      /\ l.free + Used(l.entries) = Cap
      /\ Used(l.entries) + Count(u) <= Used(g.entries)
  <2>1. GoodLeaf(g) /\ DOMAIN g.entries # {}
    OBVIOUS
  <2>2. GoodLeaf(u) /\ GoodLeaf(l)
    BY ONLY <1>1, <2>1, SplitHalves
  <2>3. Count(l) = Count(g) \div 2 /\ Count(u) = Count(g) - (Count(g) \div 2)
    BY ONLY <1>1, <2>1, SplitHalves
  <2>4. l.free + Used(l.entries) = Cap
    BY ONLY <1>1, <2>1, SplitHalves
  <2>5. Used(l.entries) + Count(u) <= Used(g.entries)
    BY ONLY <1>1, <2>1, SplitHalves
  <2> QED BY ONLY <2>2, <2>3, <2>4, <2>5
<1>3. PICK m, d, lu, lf, gu : /\ m = Count(g) /\ d = m \div 2 /\ lu = Used(l.entries)
                              /\ lf = l.free /\ gu = Used(g.entries)
  OBVIOUS
<1>4. /\ m \in Nat /\ m # 0 /\ gu \in Nat /\ gu <= Cap
  <2>1. g.free \in Nat /\ g.free + gu <= Cap
    BY <1>3 DEF GoodLeaf
  <2>2. m \in Nat /\ gu \in Nat /\ (m = 0 <=> DOMAIN g.entries = {})
    BY <1>3, GoodCount
  <2>3. gu <= Cap
    BY ONLY <2>1, <2>2, CapNat
  <2> QED BY <2>2, <2>3
<1>5. lu \in Nat /\ lf \in Nat /\ lu <= 2 * d
  BY <1>2, <1>3, GoodCount DEF GoodLeaf
<1>6. d \in Nat /\ 2 * d <= m /\ m < 2 * d + 2
  <2>1. d = m \div 2 /\ m \in Nat
    BY <1>3, <1>4
  <2> QED BY ONLY <2>1
<1>7. lf + lu = Cap /\ lu + (m - d) <= gu
  BY <1>2, <1>3
<1>8. lf >= 2
  BY ONLY <1>4, <1>5, <1>6, <1>7, CapNat
<1> QED BY <1>1, <1>3, <1>5, <1>8 DEF HasSpace, Size

LEMMA SplitThenPutStep ==
  ASSUME BTreeInd, NEW k \in Key, NEW v \in Value, SplitThenPut(k, v)
  PROVE  BTreeInd'
<1>1. PICK n \in 2 .. MaxPage : Shape(page, n)
  BY DEF BTreeInd, TreeInd
<1>2. PICK p, old : p = LeafOf(k) /\ old = page[p]
  OBVIOUS
<1>3. PICK u, l, s : /\ u = Part(old.entries, Upper(old.entries), p) /\ l = LowerHalf(old)
                     /\ s = Min(DOMAIN u.entries)
  OBVIOUS
<1>4. PICK new : new = IF k < Min(DOMAIN old.entries \cap DOMAIN u.entries)
                       THEN LeafInsert(l, k, v) ELSE l
  OBVIOUS
<1>5. /\ ~HasSpace(old, v) /\ DOMAIN old.entries # {}
      /\ SplitAndGrow(p, u, new) /\ ShouldHold(k, v)
  BY <1>2, <1>3, <1>4 DEF SplitThenPut, Keys
<1>6. /\ p \in LeafsOf(page) /\ TreeInd
  BY <1>1, <1>2, LeafOfIsWalk, Searches DEF BTreeInd, TreeInd
<1>7. GoodLeaf(old)
  BY <1>1, <1>2, <1>6, Kinds DEF AsLeaf
<1>8. /\ GoodLeaf(u) /\ u.prev = p /\ GoodLeaf(l) /\ l.prev = old.prev /\ s \in Key
  BY <1>3, <1>5, <1>7, SplitHalves
<1>9. GoodLeaf(new) /\ new.prev = page[p].prev
  <2>1. HasSpace(l, v)
    BY <1>3, <1>5, <1>7, LowerHasSpace
  <2>2. GoodLeaf(LeafInsert(l, k, v)) /\ LeafInsert(l, k, v).prev = l.prev
    BY <1>8, <2>1, InsertGood
  <2> QED BY <1>2, <1>4, <1>8, <2>2
<1>10. /\ root' = n + 2 /\ n + 2 \in 2 .. MaxPage /\ Shape(page', n + 2) /\ root' \in NodesOf(page')
  BY <1>1, <1>3, <1>5, <1>6, <1>8, <1>9, GrowStep
<1>11. /\ kv' \in [Key -> Value \cup {Absent}] /\ ascending' \in BOOLEAN /\ uniform' \in BOOLEAN
  BY <1>5, <1>6, ShouldHoldTypes
<1>12. TreeInd'
  BY <1>10, <1>11 DEF TreeInd
<1>13. ~uniform'
  <2>1. uniform => Room(old)
    BY <1>2, <1>6 DEF BTreeInd, UniformInd
  <2>2. ~uniform
    BY <1>5, <1>7, <2>1, RoomSpace
  <2> QED BY <1>5, <2>2 DEF ShouldHold
<1> QED BY <1>12, <1>13 DEF BTreeInd, UniformInd

LEMMA PutRefusedStep ==
  ASSUME BTreeInd, NEW k \in Key, NEW v \in Value, PutRefused(k, v)
  PROVE  BTreeInd'
<1>1. PICK n \in 2 .. MaxPage : Shape(page, n)
  BY DEF BTreeInd, TreeInd
<1>2. PICK p, old : p = LeafOf(k) /\ old = page[p]
  OBVIOUS
<1>3. /\ ~HasSpace(old, v) /\ root' = root /\ kv' = kv /\ ascending' = ascending /\ uniform' = uniform
      /\ page' = page \/ (NextPage <= MaxPage /\ page' = With(page, NextPage, Unused))
  BY <1>2 DEF PutRefused, histVars
<1>4. p \in LeafsOf(page) /\ TreeInd
  BY <1>1, <1>2, LeafOfIsWalk, Searches DEF BTreeInd, TreeInd
<1>5. GoodLeaf(old)
  BY <1>1, <1>2, <1>4, Kinds DEF AsLeaf
<1>6. \E m \in 2 .. MaxPage : Shape(page', m) /\ NodesOf(page') = NodesOf(page)
  <2>1. CASE page' = page
    BY <1>1, <2>1
  <2>2. CASE NextPage <= MaxPage /\ page' = With(page, NextPage, Unused)
    <3>1. NextPage = n + 1 /\ n \in Nat
      BY <1>1, NextPageIs DEF Shape
    <3>2. n + 1 \in 2 .. MaxPage
      BY <2>2, <3>1, TreeAssumption
    <3>3. Shape(page', n + 1) /\ NodesOf(page') = NodesOf(page)
      BY <1>1, <2>2, <3>1, Allocate
    <3> QED BY <3>2, <3>3
  <2> QED BY <1>3, <2>1, <2>2
<1>7. TreeInd'
  BY <1>3, <1>4, <1>6 DEF TreeInd
<1>8. ~uniform'
  <2>1. uniform => Room(old)
    BY <1>2, <1>4 DEF BTreeInd, UniformInd
  <2> QED BY <1>3, <1>5, <2>1, RoomSpace
<1> QED BY <1>7, <1>8 DEF BTreeInd, UniformInd

(* borrow_from_left_leaf: the donor loses an entry and no free space is    *)
(* given back.                                                             *)
Lent(l, x) == Leaf([j \in DOMAIN l.entries \ {x} |-> l.entries[j]], l.free, l.prev)

LEMMA LentGood ==
  ASSUME NEW l, GoodLeaf(l), NEW x \in DOMAIN l.entries
  PROVE  /\ GoodLeaf(Lent(l, x)) /\ Lent(l, x).prev = l.prev /\ Lent(l, x).free = l.free
         /\ DOMAIN Lent(l, x).entries = DOMAIN l.entries \ {x}
         /\ \A j \in DOMAIN l.entries \ {x} : Lent(l, x).entries[j] = l.entries[j]
         /\ Count(Lent(l, x)) = Count(l) - 1
         /\ Short(l) => Short(Lent(l, x))
<1>1. PICK r, m : r = LeafRemove(l, x) /\ m = Lent(l, x)
  OBVIOUS
<1>2. /\ GoodLeaf(r) /\ DOMAIN r.entries = DOMAIN l.entries \ {x}
      /\ \A j \in DOMAIN r.entries : r.entries[j] = l.entries[j]
      /\ Count(r) = Count(l) - 1 /\ (Short(l) => Short(r))
  BY <1>1, RemoveGood
<1>3. /\ m.entries = r.entries /\ m.free = l.free /\ m.prev = l.prev /\ r.free = l.free + Size(l.entries[x])
      /\ m = Leaf(m.entries, m.free, m.prev)
  BY <1>1 DEF Lent, LeafRemove, Leaf
<1>4. m.free \in Nat /\ m.free + Used(m.entries) <= Cap
  <2>1. l.free \in Nat /\ r.free \in Nat /\ r.free + Used(r.entries) <= Cap /\ Used(r.entries) \in Nat
    BY <1>2, GoodCount DEF GoodLeaf
  <2>2. r.free >= l.free
    BY <1>3, <2>1 DEF Size
  <2>3. l.free + Used(r.entries) <= Cap
    BY ONLY <2>1, <2>2, CapNat
  <2> QED BY <1>3, <2>1, <2>3
<1>5. GoodLeaf(m)
  BY <1>2, <1>3, <1>4 DEF GoodLeaf
<1>6. Count(m) = Count(l) - 1 /\ (Short(l) => Short(m))
  BY <1>2, <1>3 DEF Count, Short
<1> QED BY <1>1, <1>2, <1>3, <1>5, <1>6

(* The numbers of a removal and of a loan.                                 *)
LEMMA RoomRemove ==
  ASSUME NEW l, GoodLeaf(l), Room(l), NEW m, GoodLeaf(m),
         m.free = l.free + 1, Count(m) = Count(l) - 1
  PROVE  Room(m)
<1>1. PICK lf, lc, mf, mc : lf = l.free /\ lc = Count(l) /\ mf = m.free /\ mc = Count(m)
  OBVIOUS
<1>2. lf \in Nat /\ lc \in Nat /\ mf \in Nat /\ mc \in Nat
  BY <1>1, GoodCount DEF GoodLeaf
<1>3. /\ Cap - lf < SplitAt
      /\ lf + lc = Cap \/ (BorMin >= 1 /\ Cap - SplitAt + BorMin + 1 <= lf + lc)
  BY <1>1 DEF Room
<1>4. mf = lf + 1 /\ mc = lc - 1
  BY <1>1
<1>5. /\ Cap - mf < SplitAt
      /\ mf + mc = Cap \/ (BorMin >= 1 /\ Cap - SplitAt + BorMin + 1 <= mf + mc)
  BY ONLY <1>2, <1>3, <1>4, CapNat
<1> QED BY <1>1, <1>5 DEF Room

LEMMA RoomLoan ==
  ASSUME NEW d, GoodLeaf(d), Room(d), Count(d) > BorMin,
         NEW a, GoodLeaf(a), Room(a), Short(a), Count(a) < DelMin,
         NEW d2, GoodLeaf(d2), d2.free = d.free, Count(d2) = Count(d) - 1,
         NEW a2, GoodLeaf(a2),
         \/ a2.free = a.free /\ Count(a2) = Count(a)
         \/ a2.free = a.free - 1 /\ Count(a2) = Count(a) + 1
  PROVE  SplitAt >= BorMin + 2 /\ Room(d2) /\ Room(a2)
<1>1. PICK df, dc, af, ac, ef, ec, bf, bc :
           /\ df = d.free /\ dc = Count(d) /\ af = a.free /\ ac = Count(a)
           /\ ef = d2.free /\ ec = Count(d2) /\ bf = a2.free /\ bc = Count(a2)
  OBVIOUS
<1>2. /\ df \in Nat /\ dc \in Nat /\ af \in Nat /\ ac \in Nat
      /\ ef \in Nat /\ ec \in Nat /\ bf \in Nat /\ bc \in Nat
  BY <1>1, GoodCount DEF GoodLeaf
<1>3. df + dc <= Cap
  <2>1. Used(d.entries) \in Nat /\ dc <= Used(d.entries) /\ df + Used(d.entries) <= Cap
    BY <1>1, GoodCount DEF GoodLeaf
  <2> QED BY ONLY <1>2, <2>1, CapNat
<1>4. /\ Cap - df < SplitAt /\ Cap - af < SplitAt
      /\ af + ac = Cap \/ (BorMin >= 1 /\ Cap - SplitAt + BorMin + 1 <= af + ac)
  BY <1>1 DEF Room
<1>5. /\ dc > BorMin /\ ac < DelMin /\ ef = df /\ ec = dc - 1
      /\ (bf = af /\ bc = ac) \/ (bf = af - 1 /\ bc = ac + 1)
  BY <1>1
<1>6. 2 * DelMin <= BorMin + 1
  BY TreeAssumption
<1>7. SplitAt >= BorMin + 2 /\ BorMin >= 1
  BY ONLY <1>2, <1>3, <1>4, <1>5, <1>6, CapNat
<1>8. /\ Cap - ef < SplitAt /\ Cap - SplitAt + BorMin + 1 <= ef + ec
  BY ONLY <1>2, <1>4, <1>5, CapNat
<1>9. /\ Cap - bf < SplitAt
      /\ bf + bc = Cap \/ (BorMin >= 1 /\ Cap - SplitAt + BorMin + 1 <= bf + bc)
  BY ONLY <1>2, <1>4, <1>5, <1>6, <1>7, CapNat
<1> QED BY <1>1, <1>7, <1>8, <1>9 DEF Room

(* What a delete that finds its key knows while all entries have one size. *)
LEMMA FoundIsThere ==
  ASSUME BTreeInd, uniform, NEW k \in Key, NEW p, p = LeafOf(k), k \in DOMAIN page[p].entries
  PROVE  kv[k] # Absent
<1>1. PICK n \in 2 .. MaxPage : Shape(page, n)
  BY DEF BTreeInd, TreeInd
<1>2. p = Walks(page, root)[k] /\ p \in LeafsOf(page)
  BY <1>1, LeafOfIsWalk, Searches DEF BTreeInd, TreeInd, Walks
<1>3. Ents(page)[p] = page[p].entries
  BY <1>2 DEF Ents
<1>4. page[p].entries[k] \in Value
  BY <1>1, <1>2, Kinds DEF AsLeaf, GoodLeaf
<1>5. Faithful(Los(page), Ents(page), Walks(page, root), kv)
  BY DEF BTreeInd, UniformInd, Sem
<1>6. page[p].entries[k] = kv[k]
  BY <1>2, <1>3, <1>5 DEF Faithful
<1> QED BY <1>4, <1>6, TreeAssumption

LEMMA DeleteMissStep ==
  ASSUME BTreeInd, NEW k \in Key, Delete(k), k \notin DOMAIN page[LeafOf(k)].entries
  PROVE  BTreeInd'
<1>1. PICK n \in 2 .. MaxPage : Shape(page, n)
  BY DEF BTreeInd, TreeInd
<1>2. PICK p : p = LeafOf(k)
  OBVIOUS
<1>3. /\ page' = page /\ root' = root /\ kv' = [kv EXCEPT ![k] = Absent] /\ uniform' = uniform
      /\ ascending' = (ascending /\ kv[k] = Absent)
  BY DEF Delete, Keys
<1>4. p = Walks(page, root)[k] /\ p \in LeafsOf(page) /\ kv \in [Key -> Value \cup {Absent}]
  BY <1>1, <1>2, LeafOfIsWalk, Searches DEF BTreeInd, TreeInd, Walks
<1>5. TreeInd'
  BY <1>3 DEF BTreeInd, TreeInd
<1>6. ASSUME uniform' PROVE UniformInd'
  <2>1. /\ \A q \in LeafsOf(page) : Short(page[q]) /\ Room(page[q])
        /\ Sem(LeafsOf(page), Los(page), Prevs(page), Ents(page), Walks(page, root), kv)
        /\ ascending => Full(Ents(page), Walks(page, root), kv)
    BY <1>3, <1>6 DEF BTreeInd, UniformInd
  <2>2. PICK Lf, lo, pv, E, w, c, c2 :
             /\ Lf = LeafsOf(page) /\ lo = Los(page) /\ pv = Prevs(page)
             /\ E = Ents(page) /\ w = Walks(page, root) /\ c = kv /\ c2 = kv'
    OBVIOUS
  <2>3. k \notin DOMAIN E[w[k]]
    BY <1>2, <1>4, <2>2 DEF Ents
  <2>4. c2[k] = Absent /\ \A j \in Key \ {k} : c2[j] = c[j]
    BY <1>3, <1>4, <2>2
  <2>5. Sem(Lf, lo, pv, E, w, c2)
    <3>1. Sem(Lf, lo, pv, E, w, c)
      BY <2>1, <2>2
    <3> QED BY ONLY <2>3, <2>4, <3>1, k \in Key, SemForget
  <2>6. Full(E, w, c) => Full(E, w, c2)
    BY <2>4 DEF Full
  <2> QED BY <1>3, <2>1, <2>2, <2>5, <2>6 DEF UniformInd
<1> QED BY <1>5, <1>6 DEF BTreeInd, UniformInd

LEMMA DeletePlainStep ==
  ASSUME BTreeInd, NEW k \in Key, Delete(k), k \in DOMAIN page[LeafOf(k)].entries,
         page' = [page EXCEPT ![LeafOf(k)] = LeafRemove(page[LeafOf(k)], k)]
  PROVE  BTreeInd'
<1>1. PICK n \in 2 .. MaxPage : Shape(page, n)
  BY DEF BTreeInd, TreeInd
<1>2. PICK p, old, new : p = LeafOf(k) /\ old = page[p] /\ new = LeafRemove(old, k)
  OBVIOUS
<1>3. /\ page' = [page EXCEPT ![p] = new]
      /\ root' = root /\ kv' = [kv EXCEPT ![k] = Absent] /\ uniform' = uniform
      /\ ascending' = (ascending /\ kv[k] = Absent)
  BY <1>2 DEF Delete
<1>4. /\ p = Walks(page, root)[k] /\ p \in LeafsOf(page) /\ root \in NodesOf(page)
      /\ kv \in [Key -> Value \cup {Absent}]
  BY <1>1, <1>2, LeafOfIsWalk, Searches DEF BTreeInd, TreeInd, Walks
<1>5. GoodLeaf(old) /\ k \in DOMAIN old.entries
  BY <1>1, <1>2, <1>4, Kinds DEF AsLeaf
<1>6. /\ GoodLeaf(new) /\ new.prev = old.prev /\ DOMAIN new.entries = DOMAIN old.entries \ {k}
      /\ \A j \in DOMAIN new.entries : new.entries[j] = old.entries[j]
      /\ Count(new) = Count(old) - 1 /\ (Short(old) => Short(new) /\ new.free = old.free + 1)
  BY <1>2, <1>5, RemoveGood
<1>7. Rewritten(page, p, new, page')
  BY <1>2, <1>3, <1>4, <1>6 DEF Rewritten
<1>8. Shape(page', n) /\ NodesOf(page') = NodesOf(page)
  BY <1>1, <1>7, Rewrite
<1>9. TreeInd'
  <2>1. kv' \in [Key -> Value \cup {Absent}]
    BY <1>3, <1>4
  <2>2. ascending' \in BOOLEAN /\ uniform' \in BOOLEAN
    BY <1>3 DEF BTreeInd, TreeInd
  <2> QED BY <1>3, <1>4, <1>8, <2>1, <2>2 DEF TreeInd
<1>10. ASSUME uniform' PROVE UniformInd'
  <2>1. /\ \A q \in LeafsOf(page) : Short(page[q]) /\ Room(page[q])
        /\ Sem(LeafsOf(page), Los(page), Prevs(page), Ents(page), Walks(page, root), kv)
    BY <1>3, <1>10 DEF BTreeInd, UniformInd
  <2>2. ~ascending'
    BY <1>2, <1>3, <1>5, <1>10, FoundIsThere
  <2>3. /\ LeafsOf(page') = LeafsOf(page) /\ Los(page') = Los(page) /\ Prevs(page') = Prevs(page)
        /\ Walks(page', root) = Walks(page, root) /\ page'[p] = new
        /\ \A q \in LeafsOf(page) \ {p} : page'[q] = page[q]
        /\ DOMAIN Ents(page') = LeafsOf(page) /\ Ents(page')[p] = new.entries
        /\ \A q \in LeafsOf(page) \ {p} : Ents(page')[q] = Ents(page)[q]
    <3>1. PICK pg, pg2, r : pg = page /\ pg2 = page' /\ r = root
      OBVIOUS
    <3>2. Shape(pg, n) /\ Rewritten(pg, p, new, pg2) /\ r \in NodesOf(pg)
      BY <1>1, <1>4, <1>7, <3>1
    <3>3. /\ LeafsOf(pg2) = LeafsOf(pg) /\ Los(pg2) = Los(pg) /\ Prevs(pg2) = Prevs(pg)
          /\ Walks(pg2, r) = Walks(pg, r) /\ pg2[p] = new
          /\ \A q \in LeafsOf(pg) \ {p} : pg2[q] = pg[q]
          /\ DOMAIN Ents(pg2) = LeafsOf(pg) /\ Ents(pg2)[p] = new.entries
          /\ \A q \in LeafsOf(pg) \ {p} : Ents(pg2)[q] = Ents(pg)[q]
      BY ONLY <3>2, RewriteViews
    <3> QED BY <3>1, <3>3
  <2>4. Short(old) /\ Room(old)
    BY <1>2, <1>4, <2>1
  <2>5. Short(new) /\ Room(new)
    BY <1>5, <1>6, <2>4, RoomRemove
  <2>6. \A q \in LeafsOf(page) : Short(page'[q]) /\ Room(page'[q])
    BY <2>1, <2>3, <2>5
  <2>7. PICK Lf, lo, pv, E, w, E2, e, c, c2 :
             /\ Lf = LeafsOf(page) /\ lo = Los(page) /\ pv = Prevs(page)
             /\ E = Ents(page) /\ w = Walks(page, root) /\ E2 = Ents(page')
             /\ e = new.entries /\ c = kv /\ c2 = kv'
    OBVIOUS
  <2>8. Sem(Lf, lo, pv, E2, w, c)
    <3>1. Sem(Lf, lo, pv, E, w, c) /\ p \in Lf
      BY <1>4, <2>1, <2>7
    <3>2. E[p] = old.entries
      BY <1>2, <1>4, <2>7 DEF Ents
    <3>3. DOMAIN e = DOMAIN E[p] \ {k} /\ \A j \in DOMAIN e : e[j] = E[p][j]
      BY <1>6, <2>7, <3>2
    <3>4. DOMAIN E2 = Lf /\ E2[p] = e /\ \A q \in Lf \ {p} : E2[q] = E[q]
      BY <2>3, <2>7
    <3> QED BY ONLY <3>1, <3>3, <3>4, SemShrink
  <2>9. Sem(Lf, lo, pv, E2, w, c2)
    <3>1. w[k] = p /\ k \notin DOMAIN E2[w[k]]
      BY <1>4, <1>6, <2>3, <2>7
    <3>2. \A j \in Key \ {k} : c2[j] = c[j]
      BY <1>3, <1>4, <2>7
    <3> QED BY ONLY <2>8, <3>1, <3>2, k \in Key, SemForget
  <2> QED BY <1>3, <2>2, <2>3, <2>6, <2>7, <2>9 DEF UniformInd
<1> QED BY <1>9, <1>10 DEF BTreeInd, UniformInd

LEMMA DeleteBorrowStep ==
  ASSUME BTreeInd, NEW k \in Key, Delete(k), k \in DOMAIN page[LeafOf(k)].entries,
         LET a == LeafRemove(page[LeafOf(k)], k) IN
           Underfull(a) /\ MayBorrow(a) /\ page' = Borrow(LeafOf(k), a)
  PROVE  BTreeInd'
<1>1. PICK n \in 2 .. MaxPage : Shape(page, n)
  BY DEF BTreeInd, TreeInd
<1>2. PICK p, old, a : p = LeafOf(k) /\ old = page[p] /\ a = LeafRemove(old, k)
  OBVIOUS
<1>3. /\ Underfull(a) /\ MayBorrow(a) /\ page' = Borrow(p, a)
      /\ root' = root /\ kv' = [kv EXCEPT ![k] = Absent] /\ uniform' = uniform
      /\ ascending' = (ascending /\ kv[k] = Absent)
  BY <1>2 DEF Delete
<1>4. /\ p = Walks(page, root)[k] /\ p \in LeafsOf(page) /\ root \in NodesOf(page)
      /\ kv \in [Key -> Value \cup {Absent}]
  BY <1>1, <1>2, LeafOfIsWalk, Searches DEF BTreeInd, TreeInd, Walks
<1>5. AsLeaf(page, n, p) /\ GoodLeaf(old) /\ k \in DOMAIN old.entries
  BY <1>1, <1>2, <1>4, Kinds DEF AsLeaf
<1>6. /\ GoodLeaf(a) /\ a.prev = old.prev /\ DOMAIN a.entries = DOMAIN old.entries \ {k}
      /\ \A j \in DOMAIN a.entries : a.entries[j] = old.entries[j]
      /\ Count(a) = Count(old) - 1 /\ (Short(old) => Short(a) /\ a.free = old.free + 1)
  BY <1>2, <1>5, RemoveGood
<1>7. PICK q, d, x, y : q = a.prev /\ d = page[q] /\ x = Max(DOMAIN d.entries) /\ y = d.entries[x]
  OBVIOUS
<1>8. q \in LeafsOf(page) /\ q # p /\ q # 0 /\ GoodLeaf(d)
  <2>1. q # 0
    BY <1>3, <1>7 DEF MayBorrow
  <2>2. q \in LeafsOf(page) /\ q < p
    BY <1>2, <1>5, <1>6, <1>7, <2>1 DEF AsLeaf
  <2>3. q \in Nat /\ p \in Nat
    <3>1. \A z \in 2 .. n : z \in Nat
      BY <1>1 DEF Shape
    <3> QED BY <1>1, <1>4, <2>2, <3>1, Kinds
  <2>4. q # p
    BY ONLY <2>2, <2>3
  <2>5. GoodLeaf(d)
    BY <1>1, <1>7, <2>2, Kinds DEF AsLeaf
  <2> QED BY <2>1, <2>2, <2>4, <2>5
<1>9. Count(d) > BorMin /\ HasSpace(a, y) /\ Count(a) < DelMin
  BY <1>3, <1>7 DEF MayBorrow, CanBorrow, Donor, LastOf, Underfull, Count
<1>10. x \in DOMAIN d.entries /\ x \in Key /\ y \in Value
  <2>1. IsFiniteSet(DOMAIN d.entries) /\ DOMAIN d.entries \subseteq Nat /\ DOMAIN d.entries \subseteq Key
    BY <1>8, KeyNat DEF GoodLeaf
  <2>2. DOMAIN d.entries # {}
    <3>1. Count(d) \in Nat /\ (Count(d) = 0 <=> DOMAIN d.entries = {})
      BY <1>8, GoodCount
    <3>2. Count(d) # 0
      BY ONLY <1>9, <3>1, CapNat
    <3> QED BY <3>1, <3>2
  <2>3. x \in DOMAIN d.entries
    BY <1>7, <2>1, <2>2, MaxOf
  <2> QED BY <1>7, <1>8, <2>1, <2>3 DEF GoodLeaf
<1>11. PICK a2, d2 : a2 = LeafInsert(a, x, y) /\ d2 = Lent(d, x)
  OBVIOUS
<1>12. /\ GoodLeaf(a2) /\ a2.prev = a.prev
       /\ DOMAIN a2.entries = DOMAIN a.entries \cup {x}
       /\ \A j \in DOMAIN a.entries \ {x} : a2.entries[j] = a.entries[j]
       /\ Count(a2) = IF x \in DOMAIN a.entries THEN Count(a) ELSE Count(a) + 1
       /\ Short(a) /\ y \notin LongValue =>
            /\ Short(a2)
            /\ a2.free = IF x \in DOMAIN a.entries THEN a.free ELSE a.free - 1
  BY <1>6, <1>9, <1>10, <1>11, InsertGood
<1>13. /\ GoodLeaf(d2) /\ d2.prev = d.prev /\ d2.free = d.free
       /\ DOMAIN d2.entries = DOMAIN d.entries \ {x}
       /\ \A j \in DOMAIN d.entries \ {x} : d2.entries[j] = d.entries[j]
       /\ Count(d2) = Count(d) - 1
       /\ Short(d) => Short(d2)
  BY <1>8, <1>10, <1>11, LentGood
<1>14. PICK pg1 : pg1 = [page EXCEPT ![p] = a2]
  OBVIOUS
<1>15. pg1[q] = d /\ q \in DOMAIN pg1 /\ page' = [pg1 EXCEPT ![q] = d2]
  <2>1. p \in DOMAIN page /\ q \in DOMAIN page
    BY <1>4, <1>8 DEF LeafsOf
  <2>2. pg1[q] = d /\ q \in DOMAIN pg1
    BY <1>7, <1>8, <1>14, <2>1
  <2>3. /\ DOMAIN page' = DOMAIN page /\ page'[p] = a2 /\ page' = [z \in DOMAIN page |-> page'[z]]
        /\ page'[q] = [d EXCEPT !.entries = [j \in DOMAIN d.entries \ {x} |-> d.entries[j]]]
        /\ \A z \in DOMAIN page \ {p, q} : page'[z] = page[z]
    <3>1. LastOf(a) = x /\ Donor(a).entries[LastOf(a)] = y /\ a.prev = q
      BY <1>7 DEF Donor, LastOf
    <3>2. page' = [page EXCEPT ![p] = LeafInsert(a, LastOf(a), Donor(a).entries[LastOf(a)]),
                               ![a.prev].entries = [j \in DOMAIN @ \ {LastOf(a)} |-> @[j]]]
      BY <1>3 DEF Borrow
    <3>3. page' = [page EXCEPT ![p] = a2, ![q].entries = [j \in DOMAIN @ \ {x} |-> @[j]]]
      BY ONLY <1>11, <3>1, <3>2
    <3>4. q # p /\ page[q] = d
      BY <1>7, <1>8
    <3> QED BY ONLY <2>1, <3>3, <3>4
  <2>4. [d EXCEPT !.entries = [j \in DOMAIN d.entries \ {x} |-> d.entries[j]]] = d2
    <3>1. PICK e, f, r : d = Leaf(e, f, r)
      BY <1>8 DEF GoodLeaf
    <3> QED BY <1>11, <3>1 DEF Lent, Leaf
  <2>5. page' = [pg1 EXCEPT ![q] = d2]
    <3>1. DOMAIN pg1 = DOMAIN page /\ pg1[p] = a2 /\ \A z \in DOMAIN page \ {p} : pg1[z] = page[z]
      BY ONLY <1>14, <2>1
    <3> QED BY ONLY <1>8, <2>1, <2>3, <2>4, <3>1
  <2> QED BY <2>2, <2>5
<1>16. Rewritten(page, p, a2, pg1)
  BY <1>2, <1>4, <1>6, <1>12, <1>14 DEF Rewritten
<1>17. /\ Shape(pg1, n) /\ NodesOf(pg1) = NodesOf(page) /\ LeafsOf(pg1) = LeafsOf(page)
  BY <1>1, <1>16, Rewrite
<1>18. Rewritten(pg1, q, d2, page')
  BY <1>8, <1>13, <1>15, <1>17 DEF Rewritten
<1>19. Shape(page', n) /\ NodesOf(page') = NodesOf(page)
  <2>1. PICK pg2 : pg2 = page'
    OBVIOUS
  <2>2. Shape(pg1, n) /\ Rewritten(pg1, q, d2, pg2)
    BY <1>17, <1>18, <2>1
  <2>3. Shape(pg2, n) /\ NodesOf(pg2) = NodesOf(pg1)
    BY ONLY <2>2, Rewrite
  <2> QED BY <1>17, <2>1, <2>3
<1>20. TreeInd'
  <2>1. kv' \in [Key -> Value \cup {Absent}]
    BY <1>3, <1>4
  <2>2. ascending' \in BOOLEAN /\ uniform' \in BOOLEAN
    BY <1>3 DEF BTreeInd, TreeInd
  <2> QED BY <1>3, <1>4, <1>19, <2>1, <2>2 DEF TreeInd
<1>21. ASSUME uniform' PROVE UniformInd'
  <2>1. /\ \A z \in LeafsOf(page) : Short(page[z]) /\ Room(page[z])
        /\ Sem(LeafsOf(page), Los(page), Prevs(page), Ents(page), Walks(page, root), kv)
    BY <1>3, <1>21 DEF BTreeInd, UniformInd
  <2>2. ~ascending'
    BY <1>2, <1>3, <1>5, <1>21, FoundIsThere
  <2>3. PICK Lf, lo, pv, E, w, E1, E2, c, c2 :
             /\ Lf = LeafsOf(page) /\ lo = Los(page) /\ pv = Prevs(page)
             /\ E = Ents(page) /\ w = Walks(page, root) /\ E1 = Ents(pg1) /\ E2 = Ents(page')
             /\ c = kv /\ c2 = kv'
    OBVIOUS
  <2>4. /\ LeafsOf(pg1) = Lf /\ Los(pg1) = lo /\ Prevs(pg1) = pv
        /\ Walks(pg1, root) = w /\ pg1[p] = a2 /\ \A z \in Lf \ {p} : pg1[z] = page[z]
        /\ DOMAIN E1 = Lf /\ E1[p] = a2.entries /\ \A z \in Lf \ {p} : E1[z] = E[z]
    <3>1. PICK pg, r : pg = page /\ r = root
      OBVIOUS
    <3>2. Shape(pg, n) /\ Rewritten(pg, p, a2, pg1) /\ r \in NodesOf(pg)
      BY <1>1, <1>4, <1>16, <3>1
    <3>3. /\ LeafsOf(pg1) = LeafsOf(pg) /\ Los(pg1) = Los(pg) /\ Prevs(pg1) = Prevs(pg)
          /\ Walks(pg1, r) = Walks(pg, r) /\ pg1[p] = a2
          /\ \A z \in LeafsOf(pg) \ {p} : pg1[z] = pg[z]
          /\ DOMAIN Ents(pg1) = LeafsOf(pg) /\ Ents(pg1)[p] = a2.entries
          /\ \A z \in LeafsOf(pg) \ {p} : Ents(pg1)[z] = Ents(pg)[z]
      BY ONLY <3>2, RewriteViews
    <3> QED BY <2>3, <3>1, <3>3
  <2>5. /\ LeafsOf(page') = Lf /\ Los(page') = lo /\ Prevs(page') = pv
        /\ Walks(page', root') = w /\ page'[q] = d2 /\ \A z \in Lf \ {q} : page'[z] = pg1[z]
        /\ DOMAIN E2 = Lf /\ E2[q] = d2.entries /\ \A z \in Lf \ {q} : E2[z] = E1[z]
    <3>1. PICK pg2, r : pg2 = page' /\ r = root
      OBVIOUS
    <3>2. Shape(pg1, n) /\ Rewritten(pg1, q, d2, pg2) /\ r \in NodesOf(pg1)
      BY <1>4, <1>17, <1>18, <3>1
    <3>3. /\ LeafsOf(pg2) = LeafsOf(pg1) /\ Los(pg2) = Los(pg1) /\ Prevs(pg2) = Prevs(pg1)
          /\ Walks(pg2, r) = Walks(pg1, r) /\ pg2[q] = d2
          /\ \A z \in LeafsOf(pg1) \ {q} : pg2[z] = pg1[z]
          /\ DOMAIN Ents(pg2) = LeafsOf(pg1) /\ Ents(pg2)[q] = d2.entries
          /\ \A z \in LeafsOf(pg1) \ {q} : Ents(pg2)[z] = Ents(pg1)[z]
      BY ONLY <3>2, RewriteViews
    <3> QED BY <1>3, <2>3, <2>4, <3>1, <3>3
  <2>6. Short(old) /\ Room(old) /\ Short(d) /\ Room(d)
    BY <1>2, <1>4, <1>7, <1>8, <2>1
  <2>7. Short(a) /\ Room(a) /\ y \notin LongValue
    BY <1>5, <1>6, <1>7, <1>10, <2>6, RoomRemove DEF Short
  <2>8. Short(a2) /\ Short(d2) /\ SplitAt >= BorMin + 2 /\ Room(d2) /\ Room(a2)
    <3>1. Short(a2) /\ Short(d2)
      BY <1>12, <1>13, <2>6, <2>7
    <3>2. \/ a2.free = a.free /\ Count(a2) = Count(a)
          \/ a2.free = a.free - 1 /\ Count(a2) = Count(a) + 1
      BY <1>12, <2>7
    <3>3. SplitAt >= BorMin + 2 /\ Room(d2) /\ Room(a2)
      BY ONLY <1>6, <1>8, <1>9, <1>12, <1>13, <2>6, <2>7, <3>2, RoomLoan
    <3> QED BY <3>1, <3>3
  <2>9. \A z \in LeafsOf(page') : Short(page'[z]) /\ Room(page'[z])
    BY <2>1, <2>3, <2>4, <2>5, <2>8
  <2>10. PICK E0 : E0 = [E EXCEPT ![p] = a.entries]
    OBVIOUS
  <2>11. /\ p \in Lf /\ q \in Lf /\ q # p /\ DOMAIN E = Lf /\ E[p] = old.entries /\ E[q] = d.entries
         /\ pv[p] = q /\ w[k] = p /\ DOMAIN E0 = Lf /\ E0[p] = a.entries /\ E0[q] = d.entries
         /\ \A z \in Lf \ {p} : E0[z] = E[z]
    BY <1>2, <1>4, <1>6, <1>7, <1>8, <2>3, <2>10 DEF Ents, Prevs
  <2>12. Sem(Lf, lo, pv, E0, w, c)
    <3>1. PICK e : e = a.entries
      OBVIOUS
    <3>2. Sem(Lf, lo, pv, E, w, c) /\ p \in Lf
      BY <2>1, <2>3, <2>11
    <3>3. DOMAIN e = DOMAIN E[p] \ {k} /\ \A j \in DOMAIN e : e[j] = E[p][j]
      BY <1>6, <2>11, <3>1
    <3>4. DOMAIN E0 = Lf /\ E0[p] = e /\ \A z \in Lf \ {p} : E0[z] = E[z]
      BY <2>11, <3>1
    <3> QED BY ONLY <3>2, <3>3, <3>4, SemShrink
  <2>13. x < lo[p] /\ lo[p] <= k
    <3>1. Neighbours(Lf, lo, pv, E0, w) /\ Intervals(lo, w)
      BY <2>12 DEF Sem
    <3>2. x < lo[p]
      BY <1>8, <1>10, <2>11, <3>1 DEF Neighbours
    <3>3. lo[p] <= k
      BY <2>11, <3>1 DEF Intervals
    <3> QED BY <3>2, <3>3
  <2>14. x # k
    <3>1. x \in Nat /\ k \in Nat /\ lo[p] \in Nat
      BY <1>10, <2>11, <2>12, KeyNat DEF Sem, LeafTypes
    <3> QED BY ONLY <2>13, <3>1
  <2>15. Sem(Lf, lo, pv, E1, w, c)
    <3>1. PICK e : e = a2.entries
      OBVIOUS
    <3>2. /\ DOMAIN e = DOMAIN E0[p] \cup {x} /\ \A j \in DOMAIN E0[p] \ {x} : e[j] = E0[p][j]
      BY <1>12, <2>11, <3>1
    <3>3. DOMAIN E1 = Lf /\ E1[p] = e /\ \A z \in Lf \ {p} : E1[z] = E0[z]
      BY <2>4, <2>11, <3>1
    <3>4. p \in Lf /\ x \in Key /\ x < lo[p] /\ Cardinality(DOMAIN E0[p]) < DelMin /\ SplitAt >= BorMin + 2
      BY <1>9, <1>10, <2>8, <2>11, <2>13 DEF Count
    <3> QED BY ONLY <2>12, <3>2, <3>3, <3>4, SemTake
  <2>16. Sem(Lf, lo, pv, E2, w, c)
    <3>1. PICK e : e = d2.entries
      OBVIOUS
    <3>2. E1[q] = d.entries
      BY <2>4, <2>11
    <3>3. DOMAIN e = DOMAIN E1[q] \ {x} /\ \A j \in DOMAIN e : e[j] = E1[q][j]
      BY <1>13, <3>1, <3>2
    <3>4. q \in Lf /\ DOMAIN E2 = Lf /\ E2[q] = e /\ \A z \in Lf \ {q} : E2[z] = E1[z]
      BY <2>5, <2>11, <3>1
    <3> QED BY ONLY <2>15, <3>3, <3>4, SemShrink
  <2>17. Sem(Lf, lo, pv, E2, w, c2)
    <3>1. k \notin DOMAIN E2[w[k]]
      <4>1. E2[w[k]] = a2.entries
        BY <2>4, <2>5, <2>11
      <4> QED BY <1>6, <1>12, <2>14, <4>1
    <3>2. \A j \in Key \ {k} : c2[j] = c[j]
      BY <1>3, <1>4, <2>3
    <3> QED BY ONLY <2>16, <3>1, <3>2, k \in Key, SemForget
  <2> QED BY <2>2, <2>3, <2>5, <2>9, <2>17 DEF UniformInd
<1> QED BY <1>20, <1>21 DEF BTreeInd, UniformInd

LEMMA DeleteStep ==
  ASSUME BTreeInd, NEW k \in Key, Delete(k)
  PROVE  BTreeInd'
<1>1. PICK p, new : p = LeafOf(k) /\ new = LeafRemove(page[p], k)
  OBVIOUS
<1>2. \/ k \notin DOMAIN page[p].entries
      \/ k \in DOMAIN page[p].entries /\ page' = [page EXCEPT ![p] = new]
      \/ k \in DOMAIN page[p].entries /\ Underfull(new) /\ MayBorrow(new) /\ page' = Borrow(p, new)
  BY <1>1 DEF Delete, Keys
<1>3. CASE k \notin DOMAIN page[p].entries
  BY <1>1, <1>3, DeleteMissStep
<1>4. CASE k \in DOMAIN page[p].entries /\ page' = [page EXCEPT ![p] = new]
  BY <1>1, <1>4, DeletePlainStep
<1>5. CASE k \in DOMAIN page[p].entries /\ Underfull(new) /\ MayBorrow(new) /\ page' = Borrow(p, new)
  BY <1>1, <1>5, DeleteBorrowStep
<1> QED BY <1>2, <1>3, <1>4, <1>5

(***************************************************************************)
(* Theorems                                                                *)
(***************************************************************************)

(* Every reachable state of the tree satisfies the inductive invariant.    *)
LEMMA BTreeStep ==
  ASSUME BTreeInd, [Next]_vars PROVE BTreeInd'
<1>1. ASSUME NEW k \in Key, NEW v \in Value, PutInPlace(k, v) PROVE BTreeInd'
  BY <1>1, PutInPlaceStep
<1>2. ASSUME NEW k \in Key, NEW v \in Value, PutThenSplit(k, v) PROVE BTreeInd'
  BY <1>2, PutThenSplitStep
<1>3. ASSUME NEW k \in Key, NEW v \in Value, SplitThenPut(k, v) PROVE BTreeInd'
  BY <1>3, SplitThenPutStep
<1>4. ASSUME NEW k \in Key, NEW v \in Value, PutRefused(k, v) PROVE BTreeInd'
  BY <1>4, PutRefusedStep
<1>5. ASSUME NEW k \in Key, Delete(k) PROVE BTreeInd'
  BY <1>5, DeleteStep
<1>6. CASE UNCHANGED vars
  BY <1>6 DEF vars, histVars, BTreeInd, TreeInd, UniformInd
<1> QED BY <1>1, <1>2, <1>3, <1>4, <1>5, <1>6 DEF Next

LEMMA BTreeInductive == Spec => []BTreeInd
<1>1. Init => BTreeInd
  BY InitInd
<1>2. BTreeInd /\ [Next]_vars => BTreeInd'
  BY BTreeStep
<1> QED BY <1>1, <1>2, PTL DEF Spec

(* The tree stays a tree: every page the code allocates is a leaf, an      *)
(* inner node over older pages or was never written, and the root is a     *)
(* node, whatever is put and deleted and however often leaves split.       *)
THEOREM TreeTypes == Spec => []TypeOK
<1>1. BTreeInd => TypeOK
  BY TreeIndType DEF BTreeInd
<1> QED BY <1>1, BTreeInductive, PTL

(* header.free_space never promises more than the page has, in every       *)
(* sequence of inserts, updates, removals, splits and loans, also when it  *)
(* has lost count of what is really free.                                  *)
THEOREM FreeSpaceIsSafe == Spec => []FreeSpaceSafe
<1>1. BTreeInd => FreeSpaceSafe
  BY TreeIndType DEF BTreeInd
<1> QED BY <1>1, BTreeInductive, PTL

(* With entries of one size get returns the last value put or nothing.     *)
THEOREM NeverStale == Spec => []UniformNeverStale
<1>1. BTreeInd => UniformNeverStale
  BY IndGets DEF UniformNeverStale
<1> QED BY <1>1, BTreeInductive, PTL

(* With entries of one size, new keys in ascending order and no deletes,   *)
(* every key put is found.                                                 *)
THEOREM AscendingKeysFound == Spec => []AscendingComplete
<1>1. BTreeInd => AscendingComplete
  BY IndGets DEF AscendingComplete
<1> QED BY <1>1, BTreeInductive, PTL

-----------------------------------------------------------------------------
(***************************************************************************)
(* The cartridges.                                                         *)
(***************************************************************************)
(* What the indexes of cartridge c are called, and what they file.         *)
Slots(c)         == ToSet(Indexes[c])
IdsOf(c)         == {x.id : x \in Pool[c]}
StoredOf(c, ix)  == {Folded(ix, v) : v \in UNION {ToSet(x.keys[ix]) : x \in Pool[c]}}

LEMMA IndexNames ==
  ASSUME NEW c \in DOMAIN Indexes
  PROVE  /\ c \in {"entity", "relationship", "topic"}
         /\ Len(Indexes[c]) \in Nat \ {0} /\ DOMAIN Indexes[c] = 1 .. Len(Indexes[c])
         /\ \A p, q \in DOMAIN Indexes[c] : Indexes[c][p] = Indexes[c][q] => p = q
<1>1. c \in {"entity", "relationship", "topic"}
  BY DEF Indexes
<1>2. CASE c = "entity"
  <2>1. PICK s : s = Indexes[c] /\ s = <<"type", "name", "commit">>
    BY <1>2 DEF Indexes
  <2>2. Len(s) = 3 /\ DOMAIN s = 1 .. 3
    BY <2>1
  <2>3. s[1] = "type" /\ s[2] = "name" /\ s[3] = "commit"
    BY <2>1
  <2>4. \A p, q \in 1 .. 3 : s[p] = s[q] => p = q
    BY <2>3
  <2> QED BY <1>1, <2>1, <2>2, <2>4
<1>3. CASE c = "relationship"
  <2>1. PICK s : s = Indexes[c] /\ s = <<"from", "to", "type", "commit">>
    BY <1>3 DEF Indexes
  <2>2. Len(s) = 4 /\ DOMAIN s = 1 .. 4
    BY <2>1
  <2>3. s[1] = "from" /\ s[2] = "to" /\ s[3] = "type" /\ s[4] = "commit"
    BY <2>1
  <2>4. \A p, q \in 1 .. 4 : s[p] = s[q] => p = q
    BY <2>3
  <2> QED BY <1>1, <2>1, <2>2, <2>4
<1>4. CASE c = "topic"
  <2>1. PICK s : s = Indexes[c] /\ s = <<"category", "keyword", "commit">>
    BY <1>4 DEF Indexes
  <2>2. Len(s) = 3 /\ DOMAIN s = 1 .. 3
    BY <2>1
  <2>3. s[1] = "category" /\ s[2] = "keyword" /\ s[3] = "commit"
    BY <2>1
  <2>4. \A p, q \in 1 .. 3 : s[p] = s[q] => p = q
    BY <2>3
  <2> QED BY <1>1, <2>1, <2>2, <2>4
<1> QED BY <1>1, <1>2, <1>3, <1>4

LEMMA SlotAt ==
  ASSUME NEW c \in DOMAIN Indexes
  PROVE  /\ \A p \in DOMAIN Indexes[c] : Indexes[c][p] \in Slots(c)
         /\ \A ix \in Slots(c) : \E p \in DOMAIN Indexes[c] : Indexes[c][p] = ix
BY DEF Slots, ToSet

LEMMA ItemKeys ==
  ASSUME NEW c \in DOMAIN Indexes, NEW x \in Pool[c], NEW ix \in Slots(c)
  PROVE  /\ x.keys[ix] \in Seq(ToSet(x.keys[ix]))
         /\ Len(x.keys[ix]) \in Nat /\ DOMAIN x.keys[ix] = 1 .. Len(x.keys[ix])
         /\ x.id \in IdsOf(c)
<1>1. x.keys[ix] \in Seq(ToSet(x.keys[ix]))
  BY CartAssumption DEF Slots
<1> QED BY <1>1 DEF IdsOf

(* The values an item is filed under are keys of the index; it is filed    *)
(* under a value at finitely many places, at one or more if it has it.     *)
LEMMA FiledPlaces ==
  ASSUME NEW c \in DOMAIN Indexes, NEW x \in Pool[c], NEW ix \in Slots(c)
  PROVE  /\ \A v \in ToSet(Filed(ix, x)) : v \in StoredOf(c, ix) /\ FiledUnder(ix, x, v) # {}
         /\ \A v : IsFiniteSet(FiledUnder(ix, x, v))
         /\ \A v : Cardinality(FiledUnder(ix, x, v)) \in Nat
         /\ \A v : FiledUnder(ix, x, v) # {} => Cardinality(FiledUnder(ix, x, v)) >= 1
<1>1. DOMAIN Filed(ix, x) = DOMAIN x.keys[ix]
  BY DEF Filed
<1>2. ASSUME NEW v \in ToSet(Filed(ix, x))
      PROVE  v \in StoredOf(c, ix) /\ FiledUnder(ix, x, v) # {}
  <2>1. PICK k \in DOMAIN x.keys[ix] : v = Filed(ix, x)[k]
    BY <1>1 DEF ToSet
  <2>2. v = Folded(ix, x.keys[ix][k]) /\ x.keys[ix][k] \in ToSet(x.keys[ix])
    BY <2>1 DEF Filed, ToSet
  <2>3. x.keys[ix][k] \in UNION {ToSet(y.keys[ix]) : y \in Pool[c]}
    BY <2>2
  <2> QED BY <2>1, <2>2, <2>3 DEF StoredOf, FiledUnder
<1>3. ASSUME NEW v
      PROVE  /\ IsFiniteSet(FiledUnder(ix, x, v)) /\ Cardinality(FiledUnder(ix, x, v)) \in Nat
             /\ FiledUnder(ix, x, v) # {} => Cardinality(FiledUnder(ix, x, v)) >= 1
  <2>1. PICK n \in Nat : DOMAIN x.keys[ix] = 1 .. n
    BY ItemKeys
  <2>2. IsFiniteSet(1 .. n)
    BY FS_Interval
  <2>3. FiledUnder(ix, x, v) \subseteq 1 .. n
    BY <2>1 DEF FiledUnder
  <2>4. IsFiniteSet(FiledUnder(ix, x, v))
    BY <2>2, <2>3, FS_Subset
  <2>5. Cardinality(FiledUnder(ix, x, v)) \in Nat
    BY <2>4, FS_CardinalityType
  <2>6. Cardinality(FiledUnder(ix, x, v)) = 0 <=> FiledUnder(ix, x, v) = {}
    BY <2>4, FS_EmptySet
  <2> QED BY <2>4, <2>5, <2>6
<1> QED BY <1>2, <1>3

-----------------------------------------------------------------------------
(* What each call carries.                                                 *)
InsertJob(c) == [at : {"insert"}, item : Pool[c], pos : DOMAIN Indexes[c]]
ClearJob(c)  == [at : {"clear"}, pos : DOMAIN Indexes[c]]
JobOK(c, j) ==
  /\ j.at = "insert" => j \in InsertJob(c)
  /\ j.at = "clear" => j \in ClearJob(c)
  /\ j.at \in {"query", "answer"} => j.ix \in Slots(c) /\ j.value \in StoredOf(c, j.ix)
  /\ j.at = "query" => j.ids \in Seq(IdsOf(c))
  /\ j.at = "answer" => j.got \in Seq(Pool[c])

ItemsOK(c, f) ==
  /\ DOMAIN f \subseteq IdsOf(c) /\ f = [i \in DOMAIN f |-> f[i]]
  /\ \A i \in DOMAIN f : f[i] \in Pool[c] /\ f[i].id = i
IndexOK(c, f) == /\ DOMAIN f = Slots(c)
                 /\ \A ix \in Slots(c) : f[ix] \in [StoredOf(c, ix) -> Seq(IdsOf(c))]
Jobs(c, f) == DOMAIN f = CartTask /\ \A t \in CartTask : JobOK(c, f[t])

CartTypes ==
  /\ cartridge \in DOMAIN Indexes
  /\ ItemsOK(cartridge, items) /\ IndexOK(cartridge, index) /\ Jobs(cartridge, cjob)
  /\ puts \in [Pool[cartridge] -> Nat] /\ unsure \subseteq IdsOf(cartridge)
  /\ calm \in [CartTask -> {"still", "moved", "wiped"}]

LEMMA CartTypesOK == CartTypes => CartTypeOK
<1> SUFFICES ASSUME CartTypes PROVE CartTypeOK
  OBVIOUS
<1>1. items \in [DOMAIN items -> Insertable] /\ DOMAIN items \in SUBSET {x.id : x \in Insertable}
  BY DEF CartTypes, ItemsOK, IdsOf, Insertable
<1> QED BY <1>1 DEF CartTypes, CartTypeOK, ItemsOK, IndexOK, Slots, Order, IdsOf, Insertable

(* One thread's job changes.                                               *)
Now(t, j) == /\ DOMAIN cjob' = CartTask /\ cjob'[t] = j
             /\ \A u \in CartTask \ {t} : cjob'[u] = cjob[u]

LEMMA GoesNow ==
  ASSUME CartTypes, NEW t \in CartTask, NEW j, Goes(t, j) PROVE Now(t, j)
BY DEF CartTypes, Jobs, Goes, Now

LEMMA NowJobs ==
  ASSUME NEW c, Jobs(c, cjob), NEW t \in CartTask, NEW j, Now(t, j), JobOK(c, j)
  PROVE  Jobs(c, cjob')
BY DEF Jobs, Now

-----------------------------------------------------------------------------
(* What a step of insert does to its index: the item is filed there, and   *)
(* nothing that was filed is lost but the id a name led to.                *)
LEMMA CopiesType ==
  ASSUME NEW S, NEW i \in S, NEW n \in Nat
  PROVE  Copies(i, n) \in Seq(S) /\ Len(Copies(i, n)) = n /\ \A k \in 1 .. n : Copies(i, n)[k] = i
BY DEF Copies

LEMMA Joined ==
  ASSUME NEW S, NEW s \in Seq(S), NEW r \in Seq(S)
  PROVE  /\ s \o r \in Seq(S) /\ ToSet(s) \subseteq ToSet(s \o r)
         /\ \A k \in 1 .. Len(r) : r[k] \in ToSet(s \o r)
<1>0. /\ Len(s) \in Nat /\ Len(r) \in Nat /\ DOMAIN s = 1 .. Len(s) /\ s \o r \in Seq(S)
      /\ DOMAIN (s \o r) = 1 .. Len(s) + Len(r)
  OBVIOUS
<1>1. ASSUME NEW k \in 1 .. Len(s) PROVE s[k] \in ToSet(s \o r)
  <2>1. k \in DOMAIN (s \o r) /\ (s \o r)[k] = s[k]
    BY <1>0
  <2> QED BY <2>1 DEF ToSet
<1>2. ASSUME NEW k \in 1 .. Len(r) PROVE r[k] \in ToSet(s \o r)
  <2>1. Len(s) + k \in DOMAIN (s \o r) /\ (s \o r)[Len(s) + k] = r[k]
    BY <1>0
  <2> QED BY <2>1 DEF ToSet
<1> QED BY <1>0, <1>1, <1>2 DEF ToSet

Gains(c, old, new, ix, x) ==
  \A v \in StoredOf(c, ix) :
    new[v] = IF FiledUnder(ix, x, v) = {} THEN old[v]
             ELSE IF ix = "name" THEN <<x.id>>
             ELSE old[v] \o Copies(x.id, Cardinality(FiledUnder(ix, x, v)))

LEMMA WithIdShape ==
  ASSUME NEW c \in DOMAIN Indexes, NEW ix \in Slots(c), NEW x \in Pool[c],
         NEW old \in [StoredOf(c, ix) -> Seq(IdsOf(c))], NEW new, new = WithId(old, ix, x)
  PROVE  /\ new \in [StoredOf(c, ix) -> Seq(IdsOf(c))]
         /\ Gains(c, old, new, ix, x)
<1>1. new = [v \in StoredOf(c, ix) |->
               IF FiledUnder(ix, x, v) = {} THEN old[v]
               ELSE IF ix = "name" THEN <<x.id>>
               ELSE old[v] \o Copies(x.id, Cardinality(FiledUnder(ix, x, v)))]
  BY DEF WithId
<1>2. ASSUME NEW v \in StoredOf(c, ix) PROVE new[v] \in Seq(IdsOf(c))
  <2>1. x.id \in IdsOf(c) /\ old[v] \in Seq(IdsOf(c))
    BY DEF IdsOf
  <2>2. Cardinality(FiledUnder(ix, x, v)) \in Nat
    BY FiledPlaces
  <2>3. Copies(x.id, Cardinality(FiledUnder(ix, x, v))) \in Seq(IdsOf(c))
    BY <2>1, <2>2, CopiesType
  <2> QED BY <1>1, <2>1, <2>3
<1> QED BY <1>1, <1>2 DEF Gains

Keeps(c, old, new, ix) ==
  \A v \in StoredOf(c, ix) :
    IF ix = "name" THEN old[v] # <<>> => new[v] # <<>> ELSE ToSet(old[v]) \subseteq ToSet(new[v])

LEMMA WithIdFiles ==
  ASSUME NEW c \in DOMAIN Indexes, NEW ix \in Slots(c), NEW x \in Pool[c],
         NEW old \in [StoredOf(c, ix) -> Seq(IdsOf(c))], NEW new, new = WithId(old, ix, x)
  PROVE  /\ \A v \in ToSet(Filed(ix, x)) :
              IF ix = "name" THEN new[v] # <<>> ELSE x.id \in ToSet(new[v])
         /\ Keeps(c, old, new, ix)
<1>0. Gains(c, old, new, ix, x)
  BY WithIdShape
<1>1. ASSUME NEW v \in StoredOf(c, ix)
      PROVE  /\ IF ix = "name" THEN old[v] # <<>> => new[v] # <<>> ELSE ToSet(old[v]) \subseteq ToSet(new[v])
             /\ FiledUnder(ix, x, v) # {} => IF ix = "name" THEN new[v] # <<>> ELSE x.id \in ToSet(new[v])
  <2>1. new[v] = IF FiledUnder(ix, x, v) = {} THEN old[v]
                 ELSE IF ix = "name" THEN <<x.id>>
                 ELSE old[v] \o Copies(x.id, Cardinality(FiledUnder(ix, x, v)))
    BY <1>0 DEF Gains
  <2>2. CASE FiledUnder(ix, x, v) = {}
    BY <2>1, <2>2
  <2>3. CASE FiledUnder(ix, x, v) # {} /\ ix = "name"
    BY <2>1, <2>3
  <2>4. CASE FiledUnder(ix, x, v) # {} /\ ix # "name"
    <3>1. PICK n \in Nat : n = Cardinality(FiledUnder(ix, x, v)) /\ n >= 1
      BY <2>4, FiledPlaces
    <3>2. x.id \in IdsOf(c) /\ old[v] \in Seq(IdsOf(c))
      BY DEF IdsOf
    <3>3. PICK i \in IdsOf(c) : i = x.id
      BY <3>2
    <3>7. PICK r : r = Copies(i, n)
      OBVIOUS
    <3>4. r \in Seq(IdsOf(c)) /\ Len(r) = n /\ \A k \in 1 .. n : r[k] = i
      BY <3>7, CopiesType
    <3>6. 1 \in 1 .. n
      BY <3>1
    <3>5. new[v] = old[v] \o r
      BY <2>1, <2>4, <3>1, <3>3, <3>7
    <3> QED BY <2>4, <3>2, <3>3, <3>4, <3>5, <3>6, Joined
  <2> QED BY <2>2, <2>3, <2>4
<1>2. ASSUME NEW v \in ToSet(Filed(ix, x)) PROVE v \in StoredOf(c, ix) /\ FiledUnder(ix, x, v) # {}
  BY FiledPlaces
<1> QED BY <1>1, <1>2 DEF Keeps

-----------------------------------------------------------------------------
(* StoredIsFindable of a map it, indexes f and jobs b.                     *)
FiledAt(c, f, p, x) ==
  \A v \in ToSet(Filed(Indexes[c][p], x)) :
    IF Indexes[c][p] = "name" THEN f[Indexes[c][p]][v] # <<>>
    ELSE x.id \in ToSet(f[Indexes[c][p]][v])
Carried(b, p, x) == \E t \in CartTask : b[t].at = "insert" /\ b[t].item = x /\ b[t].pos <= p
Findable(c, it, un, f, b) ==
  \A i \in DOMAIN it \ un : \A p \in DOMAIN Indexes[c] : Carried(b, p, it[i]) \/ FiledAt(c, f, p, it[i])

Wiping(b)  == \E t \in CartTask : b[t].at = "clear"
CartFound ==
  /\ Wiping(cjob) => DOMAIN items \subseteq unsure
  /\ Findable(cartridge, items, unsure, index, cjob)

LEMMA FoundIs == CartTypes /\ CartFound => StoredIsFindable
<1> SUFFICES ASSUME CartTypes, CartFound,
                    NEW i \in DOMAIN items \ unsure, NEW p \in DOMAIN Order
             PROVE  LET ix == Order[p] IN
                    \/ \E t \in CartTask :
                         cjob[t].at = "insert" /\ cjob[t].item = items[i] /\ cjob[t].pos <= p
                    \/ \A v \in ToSet(Filed(ix, items[i])) :
                         IF ix = "name" THEN index[ix][v] # <<>> ELSE i \in ToSet(index[ix][v])
  BY DEF StoredIsFindable
<1>1. items[i].id = i /\ Order = Indexes[cartridge]
  BY DEF CartTypes, ItemsOK, Order
<1>2. Carried(cjob, p, items[i]) \/ FiledAt(cartridge, index, p, items[i])
  BY <1>1 DEF CartFound, Findable
<1> QED BY <1>1, <1>2 DEF Carried, FiledAt

(* A step that leaves the items and the indexes, by a thread that neither  *)
(* inserts nor clears before or after.                                     *)
LEMMA CalmFound ==
  ASSUME CartTypes, CartFound, NEW t \in CartTask, NEW j, Now(t, j),
         cjob[t].at \notin {"insert", "clear"}, j.at \notin {"insert", "clear"},
         UNCHANGED <<cartridge, items, index, unsure>>
  PROVE  CartFound'
<1>1. ASSUME NEW p, NEW x, Carried(cjob, p, x) PROVE Carried(cjob', p, x)
  BY <1>1 DEF Carried, Now
<1>2. Wiping(cjob') => Wiping(cjob)
  BY DEF Wiping, Now
<1>3. Findable(cartridge, items, unsure, index, cjob')
  BY <1>1 DEF CartFound, Findable
<1>4. Wiping(cjob') => DOMAIN items \subseteq unsure
  BY <1>2 DEF CartFound
<1> QED BY <1>3, <1>4 DEF CartFound

LEMMA MetType ==
  ASSUME CartTypes, NEW w \in {"still", "moved", "wiped"}, Met(w)
  PROVE  calm' \in [CartTask -> {"still", "moved", "wiped"}]
BY DEF CartTypes, Met

LEMMA IdleOK == ASSUME NEW c PROVE JobOK(c, CIdle) /\ CIdle.at = "idle"
BY DEF JobOK, CIdle

(* Where insert and clear go on.                                           *)
LEMMA AfterIs ==
  ASSUME CartTypes, NEW j,
         j \in InsertJob(cartridge) \/ j \in ClearJob(cartridge)
  PROVE  /\ JobOK(cartridge, After(j))
         /\ j.pos = Len(Order) => After(j) = CIdle
         /\ j.pos # Len(Order) =>
              /\ After(j).at = j.at /\ After(j).pos = j.pos + 1
              /\ j \in InsertJob(cartridge) => After(j) \in InsertJob(cartridge) /\ After(j).item = j.item
              /\ j \in ClearJob(cartridge) => After(j) \in ClearJob(cartridge)
<1>1. cartridge \in DOMAIN Indexes /\ Order = Indexes[cartridge]
  BY DEF CartTypes, Order
<1>2. DOMAIN Order = 1 .. Len(Order) /\ Len(Order) \in Nat
  BY <1>1, IndexNames
<1>3. CASE j.pos = Len(Order)
  BY <1>3, IdleOK DEF After
<1>4. CASE j.pos # Len(Order)
  <2>1. After(j) = [j EXCEPT !.pos = j.pos + 1]
    BY <1>4 DEF After
  <2>2. j.pos \in DOMAIN Order
    BY <1>1 DEF InsertJob, ClearJob
  <2>3. j.pos + 1 \in DOMAIN Order
    BY <1>2, <1>4, <2>2
  <2>4. CASE j \in InsertJob(cartridge)
    <3>1. After(j) \in InsertJob(cartridge) /\ After(j).at = j.at /\ After(j).pos = j.pos + 1
          /\ After(j).item = j.item /\ j.at = "insert"
      BY <1>1, <2>1, <2>3, <2>4 DEF InsertJob
    <3>2. j \notin ClearJob(cartridge)
      BY <3>1 DEF ClearJob
    <3> QED BY <1>4, <3>1, <3>2 DEF JobOK
  <2>5. CASE j \in ClearJob(cartridge)
    <3>1. After(j) \in ClearJob(cartridge) /\ After(j).at = j.at /\ After(j).pos = j.pos + 1
          /\ j.at = "clear"
      BY <1>1, <2>1, <2>3, <2>5 DEF ClearJob
    <3>2. j \notin InsertJob(cartridge)
      BY <3>1 DEF InsertJob
    <3> QED BY <1>4, <3>1, <3>2 DEF JobOK
  <2> QED BY <2>4, <2>5
<1> QED BY <1>3, <1>4

LEMMA InsertItemFound ==
  ASSUME CartTypes, CartFound, NEW t \in CartTask, InsertItem(t)
  PROVE  CartTypes' /\ CartFound'
<1>1. PICK x \in Insertable :
        /\ items' = Assign(items, x.id, x)
        /\ Goes(t, [at |-> "insert", item |-> x, pos |-> 1])
        /\ puts' = [puts EXCEPT ![x] = @ + 1]
        /\ unsure' = IF Clearing THEN unsure \cup {x.id} ELSE unsure \ {x.id}
  BY DEF InsertItem
<1>2. cartridge' = cartridge /\ index' = index /\ cjob[t].at = "idle" /\ Met("moved")
  BY DEF InsertItem, Call
<1>3. PICK c : c = cartridge
  OBVIOUS
<1>4. c \in DOMAIN Indexes /\ x \in Pool[c] /\ x.id \in IdsOf(c)
  BY <1>3 DEF CartTypes, Insertable, IdsOf
<1>5. PICK j : j = [at |-> "insert", item |-> x, pos |-> 1]
  OBVIOUS
<1>6. j \in InsertJob(c) /\ JobOK(c, j) /\ j.at = "insert" /\ j.item = x /\ j.pos = 1
  <2>1. 1 \in DOMAIN Indexes[c]
    BY <1>4, IndexNames
  <2>2. j.at = "insert" /\ j.item = x /\ j.pos = 1 /\ j \in InsertJob(c)
    BY <1>4, <1>5, <2>1 DEF InsertJob
  <2> QED BY <2>2 DEF JobOK
<1>7. Now(t, j)
  BY <1>1, <1>5, GoesNow
<1>8. Jobs(c, cjob')
  BY <1>3, <1>6, <1>7, NowJobs DEF CartTypes
<1>9. /\ DOMAIN items' = DOMAIN items \cup {x.id} /\ items'[x.id] = x
      /\ \A i \in DOMAIN items \ {x.id} : items'[i] = items[i]
      /\ items' = [i \in DOMAIN items' |-> items'[i]]
  BY <1>1 DEF Assign
<1>10. ItemsOK(c, items')
  BY <1>3, <1>4, <1>9 DEF CartTypes, ItemsOK
<1>11. unsure' \subseteq IdsOf(c)
  BY <1>1, <1>3, <1>4 DEF CartTypes
<1>12. puts' \in [Pool[c] -> Nat]
  BY <1>1, <1>3, <1>4 DEF CartTypes
<1>13. CartTypes'
  <2>1. calm' \in [CartTask -> {"still", "moved", "wiped"}]
    BY <1>2, MetType
  <2>2. IndexOK(c, index')
    BY <1>2, <1>3 DEF CartTypes
  <2> QED BY <1>2, <1>3, <1>4, <1>8, <1>10, <1>11, <1>12, <2>1, <2>2 DEF CartTypes
<1>14. Clearing <=> Wiping(cjob)
  BY DEF Clearing, Wiping
<1>15. Wiping(cjob') => Wiping(cjob)
  BY <1>6, <1>7 DEF Wiping, Now
<1>16. Wiping(cjob') => DOMAIN items' \subseteq unsure'
  BY <1>1, <1>9, <1>14, <1>15 DEF CartFound
<1>17. ASSUME NEW p \in DOMAIN Indexes[c] PROVE Carried(cjob', p, x)
  <2>1. 1 <= p
    BY <1>4, IndexNames
  <2> QED BY <1>6, <1>7, <2>1 DEF Carried, Now
<1>18. ASSUME NEW p, NEW y, Carried(cjob, p, y) PROVE Carried(cjob', p, y)
  BY <1>2, <1>7, <1>18 DEF Carried, Now
<1>19. Findable(c, items', unsure', index, cjob')
  <2> SUFFICES ASSUME NEW i \in DOMAIN items' \ unsure', NEW p \in DOMAIN Indexes[c]
               PROVE  Carried(cjob', p, items'[i]) \/ FiledAt(c, index, p, items'[i])
    BY DEF Findable
  <2>1. CASE i = x.id
    BY <1>9, <1>17, <2>1
  <2>2. CASE i # x.id
    <3>1. i \in DOMAIN items \ unsure /\ items'[i] = items[i]
      BY <1>1, <1>9, <2>2
    <3> QED BY <1>3, <1>18, <3>1 DEF CartFound, Findable
  <2> QED BY <2>1, <2>2
<1> QED BY <1>2, <1>3, <1>13, <1>16, <1>19 DEF CartFound

LEMMA InsertNextFound ==
  ASSUME CartTypes, CartFound, NEW t \in CartTask, InsertNext(t)
  PROVE  CartTypes' /\ CartFound'
<1>1. PICK c, j, ix : c = cartridge /\ j = cjob[t] /\ ix = Indexes[c][j.pos]
  OBVIOUS
<1>2. /\ j.at = "insert" /\ index' = [index EXCEPT ![ix] = WithId(@, ix, j.item)]
      /\ Goes(t, After(j)) /\ Met("moved") /\ UNCHANGED <<cartridge, items, cartCalls, puts, unsure>>
  BY <1>1 DEF InsertNext, Order
<1>3. c \in DOMAIN Indexes /\ j \in InsertJob(c)
  BY <1>1, <1>2 DEF CartTypes, Jobs, JobOK
<1>4. ix \in Slots(c) /\ j.item \in Pool[c] /\ j.pos \in DOMAIN Indexes[c]
  BY <1>1, <1>3, SlotAt DEF InsertJob
<1>5. PICK new : new = WithId(index[ix], ix, j.item)
  OBVIOUS
<1>6. index[ix] \in [StoredOf(c, ix) -> Seq(IdsOf(c))] /\ DOMAIN index = Slots(c)
  BY <1>1, <1>4 DEF CartTypes, IndexOK
<1>7. new \in [StoredOf(c, ix) -> Seq(IdsOf(c))]
  BY <1>3, <1>4, <1>5, <1>6, WithIdShape
<1>8. DOMAIN index' = Slots(c) /\ index'[ix] = new /\ \A s \in Slots(c) \ {ix} : index'[s] = index[s]
  BY <1>2, <1>4, <1>5, <1>6
<1>9. IndexOK(c, index')
  BY <1>1, <1>7, <1>8 DEF CartTypes, IndexOK
<1>10. JobOK(c, After(j)) /\ Now(t, After(j))
  BY <1>1, <1>2, <1>3, AfterIs, GoesNow
<1>11. Jobs(c, cjob')
  BY <1>1, <1>10, NowJobs DEF CartTypes
<1>12. CartTypes'
  <2>1. calm' \in [CartTask -> {"still", "moved", "wiped"}]
    BY <1>2, MetType
  <2> QED BY <1>1, <1>2, <1>9, <1>11, <2>1 DEF CartTypes
<1>13. /\ j.pos = Len(Indexes[c]) => After(j).at = "idle"
       /\ j.pos # Len(Indexes[c]) => /\ After(j).at = "insert" /\ After(j).pos = j.pos + 1
                                     /\ After(j).item = j.item
  BY <1>1, <1>2, <1>3, AfterIs, IdleOK DEF Order
<1>14. Wiping(cjob') => Wiping(cjob)
  BY <1>10, <1>13 DEF Wiping, Now
<1>15. ASSUME NEW p \in DOMAIN Indexes[c], NEW x, Carried(cjob, p, x)
       PROVE  Carried(cjob', p, x) \/ (x = j.item /\ p = j.pos)
  <2>1. PICK u \in CartTask : cjob[u].at = "insert" /\ cjob[u].item = x /\ cjob[u].pos <= p
    BY <1>15 DEF Carried
  <2>2. CASE u # t
    BY <1>10, <2>1, <2>2 DEF Carried, Now
  <2>3. CASE u = t /\ p # j.pos
    <3>1. j.pos # Len(Indexes[c]) /\ j.pos + 1 <= p
      BY <1>1, <1>3, <1>4, <2>1, <2>3, IndexNames
    <3> QED BY <1>1, <1>10, <1>13, <2>1, <2>3, <3>1 DEF Carried, Now
  <2> QED BY <1>1, <2>1, <2>2, <2>3
<1>16. ASSUME NEW p \in DOMAIN Indexes[c], NEW x \in Pool[c], FiledAt(c, index, p, x)
       PROVE  FiledAt(c, index', p, x)
  <2>1. CASE Indexes[c][p] # ix
    <3>1. Indexes[c][p] \in Slots(c)
      BY <1>3, SlotAt
    <3> QED BY <1>8, <1>16, <2>1, <3>1 DEF FiledAt
  <2>2. CASE Indexes[c][p] = ix
    <3>1. Keeps(c, index[ix], new, ix)
      BY <1>3, <1>4, <1>5, <1>6, WithIdFiles
    <3>2. \A v \in ToSet(Filed(ix, x)) : v \in StoredOf(c, ix)
      BY <1>3, <1>4, FiledPlaces
    <3> QED BY <1>8, <1>16, <2>2, <3>1, <3>2 DEF FiledAt, Keeps
  <2> QED BY <2>1, <2>2
<1>17. FiledAt(c, index', j.pos, j.item)
  <2>1. \A v \in ToSet(Filed(ix, j.item)) : IF ix = "name" THEN new[v] # <<>> ELSE j.item.id \in ToSet(new[v])
    BY <1>3, <1>4, <1>5, <1>6, WithIdFiles
  <2> QED BY <1>1, <1>8, <2>1 DEF FiledAt
<1>18. Findable(c, items, unsure, index', cjob')
  <2> SUFFICES ASSUME NEW i \in DOMAIN items \ unsure, NEW p \in DOMAIN Indexes[c]
               PROVE  Carried(cjob', p, items[i]) \/ FiledAt(c, index', p, items[i])
    BY DEF Findable
  <2>1. items[i] \in Pool[c]
    BY <1>1 DEF CartTypes, ItemsOK
  <2>2. Carried(cjob, p, items[i]) \/ FiledAt(c, index, p, items[i])
    BY <1>1 DEF CartFound, Findable
  <2> QED BY <1>15, <1>16, <1>17, <2>1, <2>2
<1> QED BY <1>1, <1>2, <1>12, <1>14, <1>18 DEF CartFound

LEMMA WipeFound ==
  ASSUME CartTypes, CartFound, NEW t \in CartTask, Wipe(t)
  PROVE  CartTypes' /\ CartFound'
<1>1. /\ items' = [i \in {} |-> CIdle] /\ Goes(t, [at |-> "clear", pos |-> 1]) /\ Met("wiped")
      /\ UNCHANGED <<cartridge, index, puts, unsure>>
  BY DEF Wipe, Call
<1>2. PICK c, j : c = cartridge /\ j = [at |-> "clear", pos |-> 1]
  OBVIOUS
<1>3. c \in DOMAIN Indexes /\ DOMAIN items' = {}
  BY <1>1, <1>2 DEF CartTypes
<1>4. j \in ClearJob(c) /\ JobOK(c, j)
  <2>1. 1 \in DOMAIN Indexes[c]
    BY <1>3, IndexNames
  <2>2. j.at = "clear" /\ j.pos = 1 /\ j \in ClearJob(c)
    BY <1>2, <2>1 DEF ClearJob
  <2> QED BY <2>2 DEF JobOK
<1>5. Jobs(c, cjob')
  BY <1>1, <1>2, <1>4, GoesNow, NowJobs DEF CartTypes
<1>6. ItemsOK(c, items')
  BY <1>1, <1>3 DEF ItemsOK
<1>7. calm' \in [CartTask -> {"still", "moved", "wiped"}]
  BY <1>1, MetType
<1>8. CartTypes'
  BY <1>1, <1>2, <1>5, <1>6, <1>7 DEF CartTypes
<1>9. CartFound'
  BY <1>3 DEF CartFound, Findable
<1> QED BY <1>8, <1>9

LEMMA ClearNextFound ==
  ASSUME CartTypes, CartFound, NEW t \in CartTask, ClearNext(t)
  PROVE  CartTypes' /\ CartFound'
<1>1. PICK c, j, ix : c = cartridge /\ j = cjob[t] /\ ix = Indexes[c][j.pos]
  OBVIOUS
<1>2. /\ j.at = "clear" /\ index' = [index EXCEPT ![ix] = Empty(ix)]
      /\ Goes(t, After(j)) /\ Met("moved") /\ UNCHANGED <<cartridge, items, cartCalls, puts, unsure>>
  BY <1>1 DEF ClearNext, Order
<1>3. c \in DOMAIN Indexes /\ j \in ClearJob(c)
  BY <1>1, <1>2 DEF CartTypes, Jobs, JobOK
<1>4. ix \in Slots(c)
  BY <1>1, <1>3, SlotAt DEF ClearJob
<1>5. Empty(ix) = [v \in StoredOf(c, ix) |-> <<>>]
  BY <1>1 DEF Empty, Stored, StoredOf, Asked, Insertable
<1>6. Empty(ix) \in [StoredOf(c, ix) -> Seq(IdsOf(c))]
  BY <1>5
<1>7. IndexOK(c, index')
  BY <1>1, <1>2, <1>4, <1>6 DEF CartTypes, IndexOK
<1>8. JobOK(c, After(j)) /\ Now(t, After(j))
  BY <1>1, <1>2, <1>3, AfterIs, GoesNow
<1>9. Jobs(c, cjob')
  BY <1>1, <1>8, NowJobs DEF CartTypes
<1>10. calm' \in [CartTask -> {"still", "moved", "wiped"}]
  BY <1>2, MetType
<1>11. CartTypes'
  BY <1>1, <1>2, <1>7, <1>9, <1>10 DEF CartTypes
<1>12. DOMAIN items \subseteq unsure
  BY <1>1, <1>2 DEF CartFound, Wiping
<1>13. CartFound'
  BY <1>2, <1>12 DEF CartFound, Findable
<1> QED BY <1>11, <1>13

LEMMA ItemsIs ==
  ASSUME CartTypes, NEW s \in Seq(IdsOf(cartridge))
  PROVE  /\ Items(s) \in Seq(Pool[cartridge]) /\ Len(Items(s)) = Len(Only(s, DOMAIN items))
         /\ DOMAIN Items(s) = 1 .. Len(Items(s)) /\ Len(Items(s)) \in Nat
         /\ \A k \in 1 .. Len(Items(s)) : /\ Only(s, DOMAIN items)[k] \in DOMAIN items
                                          /\ Items(s)[k] = items[Only(s, DOMAIN items)[k]]
                                          /\ Items(s)[k].id = Only(s, DOMAIN items)[k]
<1>1. PICK c, r : c = cartridge /\ r = Only(s, DOMAIN items)
  OBVIOUS
<1>2. r \in Seq(IdsOf(c) \cap DOMAIN items)
  BY <1>1, OnlyType
<1>3. /\ Len(r) \in Nat /\ DOMAIN r = 1 .. Len(r) /\ \A k \in 1 .. Len(r) : r[k] \in DOMAIN items
  BY <1>2
<1>4. \A i \in DOMAIN items : items[i] \in Pool[c] /\ items[i].id = i
  BY <1>1 DEF CartTypes, ItemsOK
<1>5. Items(s) = [k \in 1 .. Len(r) |-> items[r[k]]]
  BY <1>1, <1>3 DEF Items
<1> QED BY <1>1, <1>3, <1>4, <1>5

LEMMA IdsType ==
  ASSUME CartTypes, NEW ix \in Slots(cartridge), NEW v
  PROVE  Ids(ix, v) \in Seq(IdsOf(cartridge))
BY DEF CartTypes, IndexOK, Ids

(* The steps that only read.                                               *)
Reads(t, j) ==
  /\ Now(t, j) /\ JobOK(cartridge, j)
  /\ cjob[t].at \notin {"insert", "clear"} /\ j.at \notin {"insert", "clear"}
  /\ UNCHANGED <<cartridge, items, index, puts, unsure>>
  /\ calm' \in [CartTask -> {"still", "moved", "wiped"}]
  /\ \A u \in CartTask \ {t} : calm'[u] = calm[u]

LEMMA AskReads ==
  ASSUME CartTypes, NEW t \in CartTask, AskIndex(t)
  PROVE  \E j : Reads(t, j) /\ j.at = "query"
<1>0. PICK ix \in ToSet(Order) : \E v \in Asked(ix) :
        Goes(t, [at |-> "query", ix |-> ix, value |-> Folded(ix, v), ids |-> Ids(ix, Folded(ix, v))])
  BY DEF AskIndex
<1>1. PICK v \in Asked(ix) :
        Goes(t, [at |-> "query", ix |-> ix, value |-> Folded(ix, v), ids |-> Ids(ix, Folded(ix, v))])
  BY <1>0
<1>2. PICK j : j = [at |-> "query", ix |-> ix, value |-> Folded(ix, v), ids |-> Ids(ix, Folded(ix, v))]
  OBVIOUS
<1>3. Now(t, j)
  BY <1>1, <1>2, GoesNow
<1>4. ix \in Slots(cartridge) /\ Folded(ix, v) \in StoredOf(cartridge, ix)
  BY <1>1 DEF Slots, Order, StoredOf, Asked, Insertable
<1>5. JobOK(cartridge, j) /\ j.at = "query"
  BY <1>2, <1>4, IdsType DEF JobOK
<1> QED BY <1>3, <1>5 DEF AskIndex, Call, CartTypes, history, Reads

LEMMA QueryReads ==
  ASSUME CartTypes, NEW t \in CartTask, QueryRead(t)
  PROVE  \E j : Reads(t, j) /\ j.at = "answer"
<1>1. PICK j, g : g = Items(cjob[t].ids) /\
                  j = [at |-> "answer", ix |-> cjob[t].ix, value |-> cjob[t].value, got |-> g]
  OBVIOUS
<1>2. Now(t, j) /\ cjob[t].at = "query"
  BY <1>1, GoesNow DEF QueryRead
<1>3. JobOK(cartridge, cjob[t])
  BY DEF CartTypes, Jobs
<1>4. g \in Seq(Pool[cartridge])
  BY <1>1, <1>2, <1>3, ItemsIs DEF JobOK
<1>5. JobOK(cartridge, j) /\ j.at = "answer"
  BY <1>1, <1>2, <1>3, <1>4 DEF JobOK
<1>6. Reads(t, j)
  BY <1>2, <1>5 DEF QueryRead, CartTypes, history, Reads
<1> QED BY <1>5, <1>6

LEMMA ReturnReads ==
  ASSUME CartTypes, NEW t \in CartTask, Return(t)
  PROVE  Reads(t, CIdle)
<1>1. Now(t, CIdle)
  BY GoesNow DEF Return
<1> QED BY <1>1, IdleOK DEF Return, CartTypes, Reads

(* A step of find_path, whatever it goes on to.                            *)
LEMMA SearchReads ==
  ASSUME CartTypes, NEW t \in CartTask, cjob[t].at \in {"search", "visit"}, NEW j, Goes(t, j),
         j.at \in {"search", "visit", "path"}, UNCHANGED <<cartridge, items, index, cartCalls, history>>
  PROVE  Reads(t, j)
<1>1. Now(t, j)
  BY GoesNow
<1>2. JobOK(cartridge, j)
  BY DEF JobOK
<1> QED BY <1>1, <1>2 DEF Reads, CartTypes, history

-----------------------------------------------------------------------------
(* Counting.                                                               *)
LEMMA OnlyCount ==
  ASSUME NEW S, NEW s \in Seq(S), NEW i
  PROVE  /\ IsFiniteSet({k \in 1 .. Len(s) : s[k] = i})
         /\ Cardinality({k \in 1 .. Len(s) : s[k] = i}) = Len(Only(s, {i}))
<1> DEFINE At(r) == {k \in 1 .. Len(r) : r[k] = i}
           Q == {r \in Seq(S) : IsFiniteSet(At(r)) /\ Cardinality(At(r)) = Len(Only(r, {i}))}
<1>1. <<>> \in Q
  <2>1. At(<<>>) = {} /\ Only(<<>>, {i}) = <<>>
    BY OnlyEmpty
  <2> QED BY <2>1, FS_EmptySet
<1>2. ASSUME NEW r \in Seq(S), NEW e \in S, r \in Q PROVE Append(r, e) \in Q
  <2>0. PICK n \in Nat : n = Len(r)
    OBVIOUS
  <2>1. PICK w : n = Len(r) /\ w = Append(r, e)
    BY <2>0
  <2>2. w \in Seq(S) /\ Len(w) = n + 1 /\ w[n + 1] = e /\ \A k \in 1 .. n : w[k] = r[k]
    BY <2>1
  <2>3. At(w) = IF e = i THEN At(r) \cup {n + 1} ELSE At(r)
    BY <2>1, <2>2
  <2>4. n + 1 \notin At(r)
    BY <2>1
  <2>5. Only(r, {i}) \in Seq(S) /\ Only(w, {i}) = IF e = i THEN Append(Only(r, {i}), e) ELSE Only(r, {i})
    <3>1. \A K : Only(Append(r, e), K) = IF e \in K THEN Append(Only(r, K), e) ELSE Only(r, K)
      BY OnlyAppend
    <3>2. Only(r, {i}) \in Seq(S)
      BY OnlyType
    <3> QED BY <2>1, <3>1, <3>2
  <2>6. IsFiniteSet(At(r)) /\ Cardinality(At(r)) = Len(Only(r, {i})) /\ Len(Only(r, {i})) \in Nat
    BY <1>2, <2>5
  <2> HIDE DEF At
  <2>7. CASE e = i
    <3>1. IsFiniteSet(At(w)) /\ Cardinality(At(w)) = Cardinality(At(r)) + 1
      <4>1. PICK A, y : A = At(r) /\ y = n + 1
        OBVIOUS
      <4>2. IsFiniteSet(A) /\ y \notin A
        BY <2>4, <2>6, <4>1
      <4>3. IsFiniteSet(A \cup {y}) /\ Cardinality(A \cup {y}) = Cardinality(A) + 1
        BY <4>2, FS_AddElement
      <4> QED BY <2>3, <2>7, <4>1, <4>3
    <3>2. Len(Only(w, {i})) = Len(Only(r, {i})) + 1
      BY <2>5, <2>7
    <3> QED BY <2>1, <2>2, <2>6, <3>1, <3>2
  <2>8. CASE e # i
    BY <2>1, <2>2, <2>3, <2>5, <2>6, <2>8
  <2> QED BY <2>7, <2>8
<1> HIDE DEF Q
<1>3. s \in Q
  BY <1>1, <1>2, SequenceInduction
<1> QED BY <1>3 DEF Q

(* Copies of x behind s are counted as x's.                                *)
Longer(s, x, m, i) == Len(Only(s \o Copies(x, m), {i})) = Len(Only(s, {i})) + IF x = i THEN m ELSE 0
LEMMA OnlyCopies ==
  ASSUME NEW S, NEW s \in Seq(S), NEW x \in S, NEW i, NEW m \in Nat
  PROVE  /\ s \o Copies(x, m) \in Seq(S)
         /\ Longer(s, x, m, i)
<1> DEFINE W(n) == s \o Copies(x, n)
           N == {n \in Nat : Len(Only(W(n), {i})) = Len(Only(s, {i})) + IF x = i THEN n ELSE 0}
<1>0. ASSUME NEW n \in Nat PROVE W(n) \in Seq(S) /\ Len(W(n)) = Len(s) + n
  <2>1. Copies(x, n) \in Seq(S) /\ Len(Copies(x, n)) = n
    BY CopiesType
  <2> QED BY <2>1
<1>a. Len(Only(s, {i})) \in Nat
  <2>1. Only(s, {i}) \in Seq(S)
    BY OnlyType
  <2> QED BY <2>1
<1>1. 0 \in N
  <2>1. W(0) = s
    <3>1. Copies(x, 0) = <<>>
      BY DEF Copies
    <3> QED BY <3>1
  <2> HIDE DEF W
  <2>2. Len(Only(W(0), {i})) = Len(Only(s, {i})) + IF x = i THEN 0 ELSE 0
    BY <1>a, <2>1
  <2> QED BY <2>2
<1>2. ASSUME NEW n \in Nat, n \in N PROVE n + 1 \in N
  <2>1. W(n + 1) = Append(W(n), x)
    <3>1. \A k \in Nat : /\ Copies(x, k) \in Seq(S) /\ Len(Copies(x, k)) = k
                         /\ \A l \in 1 .. k : Copies(x, k)[l] = x
      BY CopiesType
    <3>2. PICK u \in Seq(S), w \in Seq(S) : u = Copies(x, n) /\ w = Copies(x, n + 1)
      BY <3>1
    <3>4. /\ Len(u) = n /\ \A l \in 1 .. n : u[l] = x
          /\ Len(w) = n + 1 /\ \A l \in 1 .. n + 1 : w[l] = x
      BY <3>1, <3>2
    <3>3. s \o w = Append(s \o u, x)
      <4>1. w = Append(u, x)
        <5>1. Append(u, x) \in Seq(S) /\ Len(Append(u, x)) = n + 1
              /\ \A l \in 1 .. n + 1 : Append(u, x)[l] = w[l]
          BY <3>4
        <5> QED BY <3>4, <5>1, SameSequence
      <4> QED BY <4>1
    <3> QED BY <3>2, <3>3
  <2>2. W(n) \in Seq(S)
    BY <1>0
  <2>3. Len(Only(W(n), {i})) = Len(Only(s, {i})) + IF x = i THEN n ELSE 0
    BY <1>2
  <2> HIDE DEF W
  <2>4. \A K : Only(Append(W(n), x), K) = IF x \in K THEN Append(Only(W(n), K), x) ELSE Only(W(n), K)
    BY <2>2, OnlyAppend
  <2>5. Only(W(n), {i}) \in Seq(S)
    BY <2>2, OnlyType
  <2>6. Len(Only(W(n + 1), {i})) = Len(Only(W(n), {i})) + IF x = i THEN 1 ELSE 0
    <3>1. CASE x = i
      <4>1. Only(W(n + 1), {i}) = Append(Only(W(n), {i}), x)
        BY <2>1, <2>4, <3>1
      <4>2. Len(Append(Only(W(n), {i}), x)) = Len(Only(W(n), {i})) + 1
        BY <2>5
      <4> QED BY <3>1, <4>1, <4>2
    <3>2. CASE x # i
      <4>1. Only(W(n + 1), {i}) = Only(W(n), {i})
        BY <2>1, <2>4, <3>2
      <4>2. Len(Only(W(n), {i})) \in Nat
        BY <2>5
      <4> QED BY <3>2, <4>1, <4>2
    <3> QED BY <3>1, <3>2
  <2> QED BY <1>a, <2>3, <2>6
<1> HIDE DEF N
<1>3. m \in N
  BY <1>1, <1>2, SetInduction
<1> QED BY <1>0, <1>3 DEF N, Longer

LEMMA Times ==
  ASSUME NEW x, NEW S, IsFiniteSet(S)
  PROVE  IsFiniteSet({x} \X S) /\ Cardinality({x} \X S) = Cardinality(S)
<1>1. IsFiniteSet({x}) /\ Cardinality({x}) = 1
  BY FS_Singleton
<1>2. IsFiniteSet({x} \X S) /\ Cardinality({x} \X S) = Cardinality({x}) * Cardinality(S)
  BY <1>1, FS_Product
<1>3. Cardinality(S) \in Nat
  BY FS_CardinalityType
<1> QED BY <1>1, <1>2, <1>3

LEMMA Apart ==
  ASSUME NEW S, NEW T, IsFiniteSet(S), IsFiniteSet(T), S \cap T = {}
  PROVE  /\ IsFiniteSet(S \cup T) /\ Cardinality(S \cup T) = Cardinality(S) + Cardinality(T)
         /\ Cardinality(S) \in Nat /\ Cardinality(T) \in Nat
<1>1. Cardinality(S) \in Nat /\ Cardinality(T) \in Nat
  BY FS_CardinalityType
<1>2. /\ IsFiniteSet(S \cup T)
      /\ Cardinality(S \cup T) = Cardinality(S) + Cardinality(T) - Cardinality(S \cap T)
  BY FS_Union
<1>3. Cardinality(S \cap T) = 0
  BY FS_EmptySet
<1> QED BY <1>1, <1>2, <1>3

-----------------------------------------------------------------------------
(* The insertions still on their way to an index with a version of id i,   *)
(* with the places they will file it at; and all the places at which the   *)
(* insertions so far file it.                                              *)
Bound(c, j, ix, i) ==
  /\ j.at = "insert" /\ j.item.id = i
  /\ \E p \in DOMAIN Indexes[c] : Indexes[c][p] = ix /\ j.pos <= p
Coming(c, b, ix, v, i) ==
  UNION {{t} \X FiledUnder(ix, b[t].item, v) : t \in {u \in CartTask : Bound(c, b[u], ix, i)}}
Filing(c, n, ix, v, i) ==
  UNION {{x} \X ((1 .. n[x]) \X FiledUnder(ix, x, v)) : x \in {y \in Pool[c] : y.id = i}}

(* An index holds an id no more often than insertions have filed it.       *)
Covers(s, P, F, i) ==
  /\ IsFiniteSet(P) /\ IsFiniteSet(F)
  /\ Len(Only(s, {i})) + Cardinality(P) <= Cardinality(F)
Owed(c, f, b, n) ==
  \A ix \in Slots(c) : \A v \in StoredOf(c, ix) : \A i :
    Covers(f[ix][v], Coming(c, b, ix, v, i), Filing(c, n, ix, v, i), i)
(* So does a query that has read it, and an answer.                        *)
Told(c, j, n) ==
  /\ j.at = "query" => \A i : Len(Only(j.ids, {i})) <= Cardinality(Filing(c, n, j.ix, j.value, i))
  /\ j.at = "answer" =>
       \A i : Cardinality({k \in DOMAIN j.got : j.got[k].id = i})
                <= Cardinality(Filing(c, n, j.ix, j.value, i))
CartCounted == /\ Owed(cartridge, index, cjob, puts)
               /\ \A t \in CartTask : Told(cartridge, cjob[t], puts)

LEMMA CountedIs == CartCounted => AnswersMatch
<1> SUFFICES ASSUME CartCounted, NEW t \in CartTask, cjob[t].at = "answer", NEW i
             PROVE  Cardinality({k \in DOMAIN cjob[t].got : cjob[t].got[k].id = i})
                      <= Cardinality(Filings(cjob[t].ix, cjob[t].value, i))
  BY DEF AnswersMatch
<1>1. Filings(cjob[t].ix, cjob[t].value, i) = Filing(cartridge, puts, cjob[t].ix, cjob[t].value, i)
  BY DEF Filings, Filing, Insertable
<1> QED BY <1>1 DEF CartCounted, Told

LEMMA OwedAt ==
  ASSUME NEW c, NEW f, NEW b, NEW n, Owed(c, f, b, n), NEW ix \in Slots(c), NEW v \in StoredOf(c, ix), NEW i
  PROVE  Covers(f[ix][v], Coming(c, b, ix, v, i), Filing(c, n, ix, v, i), i)
BY DEF Owed

(* A step of a thread that does not insert before or after.                *)
LEMMA ComingSame ==
  ASSUME NEW c, NEW t \in CartTask, NEW j, Now(t, j), cjob[t].at # "insert", j.at # "insert",
         NEW ix, NEW v, NEW i
  PROVE  Coming(c, cjob', ix, v, i) = Coming(c, cjob, ix, v, i)
<1>1. ASSUME NEW u \in CartTask
      PROVE  /\ Bound(c, cjob'[u], ix, i) <=> Bound(c, cjob[u], ix, i)
             /\ Bound(c, cjob[u], ix, i) => cjob'[u] = cjob[u]
  BY DEF Bound, Now
<1>2. {u \in CartTask : Bound(c, cjob'[u], ix, i)} = {u \in CartTask : Bound(c, cjob[u], ix, i)}
  BY <1>1
<1> QED BY <1>1, <1>2 DEF Coming

FilesMore(c, n, m) ==
  \A ix \in Slots(c) : \A v \in StoredOf(c, ix) : \A i :
    /\ Cardinality(Filing(c, n, ix, v, i)) \in Nat /\ Cardinality(Filing(c, m, ix, v, i)) \in Nat
    /\ Cardinality(Filing(c, n, ix, v, i)) <= Cardinality(Filing(c, m, ix, v, i))
Counts(j) ==
  /\ j.at = "query" => \A i : Len(Only(j.ids, {i})) \in Nat
  /\ j.at = "answer" => \A i : Cardinality({k \in DOMAIN j.got : j.got[k].id = i}) \in Nat

(* More has been filed, and what was asked or answered is covered still.   *)
LEMMA ToldStays ==
  ASSUME NEW c, NEW j, JobOK(c, j), NEW n, NEW m, Told(c, j, n),
         FilesMore(c, n, m), Counts(j)
  PROVE  Told(c, j, m)
<1>1. ASSUME j.at = "query", NEW i PROVE Len(Only(j.ids, {i})) <= Cardinality(Filing(c, m, j.ix, j.value, i))
  <2>1. j.ix \in Slots(c) /\ j.value \in StoredOf(c, j.ix)
    BY <1>1 DEF JobOK
  <2>2. PICK a \in Nat, d \in Nat, e \in Nat :
          /\ a = Len(Only(j.ids, {i})) /\ d = Cardinality(Filing(c, n, j.ix, j.value, i))
          /\ e = Cardinality(Filing(c, m, j.ix, j.value, i))
    BY <1>1, <2>1 DEF FilesMore, Counts
  <2>3. a <= d /\ d <= e
    BY <1>1, <2>1, <2>2 DEF Told, FilesMore
  <2> QED BY <2>2, <2>3
<1>2. ASSUME j.at = "answer", NEW i
      PROVE  Cardinality({k \in DOMAIN j.got : j.got[k].id = i}) <= Cardinality(Filing(c, m, j.ix, j.value, i))
  <2>1. j.ix \in Slots(c) /\ j.value \in StoredOf(c, j.ix)
    BY <1>2 DEF JobOK
  <2>2. PICK a \in Nat, d \in Nat, e \in Nat :
          /\ a = Cardinality({k \in DOMAIN j.got : j.got[k].id = i})
          /\ d = Cardinality(Filing(c, n, j.ix, j.value, i))
          /\ e = Cardinality(Filing(c, m, j.ix, j.value, i))
    BY <1>2, <2>1 DEF FilesMore, Counts
  <2>3. a <= d /\ d <= e
    BY <1>2, <2>1, <2>2 DEF Told, FilesMore
  <2> QED BY <2>2, <2>3
<1> QED BY <1>1, <1>2 DEF Told

LEMMA CountTypes ==
  ASSUME NEW c, NEW j, JobOK(c, j)
  PROVE  Counts(j)
<1>1. ASSUME j.at = "query", NEW i PROVE Len(Only(j.ids, {i})) \in Nat
  <2>1. j.ids \in Seq(IdsOf(c))
    BY <1>1 DEF JobOK
  <2>2. Only(j.ids, {i}) \in Seq(IdsOf(c))
    BY <2>1, OnlyType
  <2> QED BY <2>2
<1>2. ASSUME j.at = "answer", NEW i PROVE Cardinality({k \in DOMAIN j.got : j.got[k].id = i}) \in Nat
  <2>1. j.got \in Seq(Pool[c])
    BY <1>2 DEF JobOK
  <2>2. PICK n \in Nat : DOMAIN j.got = 1 .. n
    BY <2>1
  <2>3. IsFiniteSet(1 .. n)
    BY FS_Interval
  <2>4. {k \in DOMAIN j.got : j.got[k].id = i} \subseteq 1 .. n
    BY <2>2
  <2>5. IsFiniteSet({k \in DOMAIN j.got : j.got[k].id = i})
    BY <2>3, <2>4, FS_Subset
  <2> QED BY <2>5, FS_CardinalityType
<1> QED BY <1>1, <1>2 DEF Counts

LEMMA CoversGrow ==
  ASSUME NEW S, NEW s \in Seq(S), NEW i, NEW P, NEW F, Covers(s, P, F, i), NEW A, NEW B,
         IsFiniteSet(A), IsFiniteSet(B), Cardinality(A) = Cardinality(B), P \cap A = {}, F \cap B = {}
  PROVE  /\ Covers(s, P \cup A, F \cup B, i)
         /\ Cardinality(F) <= Cardinality(F \cup B)
<1>1. IsFiniteSet(P) /\ IsFiniteSet(F) /\ Len(Only(s, {i})) + Cardinality(P) <= Cardinality(F)
  BY DEF Covers
<1>2. /\ IsFiniteSet(P \cup A) /\ Cardinality(P \cup A) = Cardinality(P) + Cardinality(A)
      /\ Cardinality(P) \in Nat /\ Cardinality(A) \in Nat
  BY <1>1, Apart
<1>3. /\ IsFiniteSet(F \cup B) /\ Cardinality(F \cup B) = Cardinality(F) + Cardinality(B)
      /\ Cardinality(F) \in Nat
  BY <1>1, Apart
<1>4. Len(Only(s, {i})) \in Nat
  <2>1. Only(s, {i}) \in Seq(S)
    BY OnlyType
  <2> QED BY <2>1
<1>5. PICK l \in Nat, p \in Nat, f \in Nat, a \in Nat :
        l = Len(Only(s, {i})) /\ p = Cardinality(P) /\ f = Cardinality(F) /\ a = Cardinality(A)
  BY <1>2, <1>3, <1>4
<1>6. Cardinality(P \cup A) = p + a /\ Cardinality(F \cup B) = f + a /\ l + p <= f
  BY <1>1, <1>2, <1>3, <1>5
<1>7. l + (p + a) <= f + a /\ f <= f + a
  BY <1>6
<1> QED BY <1>2, <1>3, <1>5, <1>6, <1>7 DEF Covers

OthersSame(a, b, t) == \A u \in CartTask \ {t} : b[u] = a[u]
OneMore(n, m, x)    == m = [n EXCEPT ![x] = @ + 1]
Adds(G, F, D)       == G = F \cup D /\ F \cap D = {}

LEMMA InFiling ==
  ASSUME NEW c, NEW n, NEW ix, NEW v, NEW i, NEW z
  PROVE  z \in Filing(c, n, ix, v, i) <=>
           \E y \in Pool[c] : y.id = i /\ z \in {y} \X ((1 .. n[y]) \X FiledUnder(ix, y, v))
BY DEF Filing

LEMMA InComing ==
  ASSUME NEW c, NEW b, NEW ix, NEW v, NEW i, NEW z
  PROVE  z \in Coming(c, b, ix, v, i) <=>
           \E u \in CartTask : Bound(c, b[u], ix, i) /\ z \in {u} \X FiledUnder(ix, b[u].item, v)
BY DEF Coming

LEMMA FilingGrows ==
  ASSUME NEW c, NEW n \in [Pool[c] -> Nat], NEW x \in Pool[c], NEW m, OneMore(n, m, x),
         NEW ix, NEW v, NEW i
  PROVE  /\ x.id # i => Adds(Filing(c, m, ix, v, i), Filing(c, n, ix, v, i), {})
         /\ x.id = i => Adds(Filing(c, m, ix, v, i), Filing(c, n, ix, v, i),
                             {x} \X ({n[x] + 1} \X FiledUnder(ix, x, v)))
<1> DEFINE R(f, y) == {y} \X ((1 .. f[y]) \X FiledUnder(ix, y, v))
           B == {x} \X ({n[x] + 1} \X FiledUnder(ix, x, v))
<1>1. \A y \in Pool[c] \ {x} : m[y] = n[y]
  BY DEF OneMore
<1>2. m[x] = n[x] + 1 /\ n[x] \in Nat
  BY DEF OneMore
<1>4. \A z : z \in R(m, x) <=> z \in R(n, x) \/ z \in B
  <2>1. 1 .. n[x] + 1 = (1 .. n[x]) \cup {n[x] + 1}
    BY <1>2
  <2> QED BY <1>2, <2>1
<1>5. \A y \in Pool[c] : y # x => R(m, y) = R(n, y)
  BY <1>1
<1>6. \A y \in Pool[c] : \A z \in R(n, y) : z \notin B
  BY <1>2
<1>7. \A z : z \in Filing(c, m, ix, v, i) <=> \E y \in Pool[c] : y.id = i /\ z \in R(m, y)
  BY ONLY InFiling
<1>8. \A z : z \in Filing(c, n, ix, v, i) <=> \E y \in Pool[c] : y.id = i /\ z \in R(n, y)
  BY InFiling
<1> PICK G, H, D : G = Filing(c, m, ix, v, i) /\ H = Filing(c, n, ix, v, i) /\ D = B
  OBVIOUS
<1> HIDE DEF R, B
<1>9. CASE x.id # i
  <2>1. \A z : z \in G <=> z \in H
    BY <1>5, <1>7, <1>8, <1>9
  <2> QED BY <1>9, <2>1 DEF Adds
<1>10. CASE x.id = i
  <2>1. \A z : z \in G <=> z \in H \/ z \in D
    BY <1>4, <1>5, <1>7, <1>8, <1>10
  <2>2. \A z \in H : z \notin D
    BY <1>6, <1>8
  <2>3. Adds(G, H, D)
    BY <2>1, <2>2 DEF Adds
  <2> QED BY <1>10, <2>3 DEF B
<1> QED BY <1>9, <1>10

(* A thread begins to carry an item, or has filed it.                      *)
LEMMA ComingGrows ==
  ASSUME NEW c, NEW a, NEW b, NEW t \in CartTask, OthersSame(a, b, t),
         NEW ix, NEW v, NEW i, ~Bound(c, a[t], ix, i), Bound(c, b[t], ix, i)
  PROVE  Adds(Coming(c, b, ix, v, i), Coming(c, a, ix, v, i), {t} \X FiledUnder(ix, b[t].item, v))
<1> DEFINE R(f, u) == {u} \X FiledUnder(ix, f[u].item, v)
<1>1. \A z : z \in Coming(c, b, ix, v, i) <=> \E u \in CartTask : Bound(c, b[u], ix, i) /\ z \in R(b, u)
  BY InComing
<1>2. \A z : z \in Coming(c, a, ix, v, i) <=> \E u \in CartTask : Bound(c, a[u], ix, i) /\ z \in R(a, u)
  BY InComing
<1>3. \A u \in CartTask \ {t} : R(b, u) = R(a, u) /\ b[u] = a[u]
  BY DEF OthersSame
<1>4. \A u \in CartTask \ {t} : \A z \in R(a, u) : z \notin R(b, t)
  OBVIOUS
<1> PICK G, H, D : G = Coming(c, b, ix, v, i) /\ H = Coming(c, a, ix, v, i) /\ D = R(b, t)
  OBVIOUS
<1> HIDE DEF R
<1>5. \A z : z \in G <=> z \in H \/ z \in D
  BY <1>1, <1>2, <1>3
<1>6. \A z \in H : z \notin D
  BY <1>2, <1>4
<1>7. Adds(G, H, D)
  BY <1>5, <1>6 DEF Adds
<1> QED BY <1>7 DEF R

LEMMA ComingOther ==
  ASSUME NEW c, NEW a, NEW b, NEW t \in CartTask, OthersSame(a, b, t),
         NEW ix, NEW v, NEW i, Bound(c, a[t], ix, i) <=> Bound(c, b[t], ix, i),
         Bound(c, a[t], ix, i) => b[t].item = a[t].item
  PROVE  Coming(c, b, ix, v, i) = Coming(c, a, ix, v, i)
<1>1. \A u \in CartTask : /\ Bound(c, b[u], ix, i) <=> Bound(c, a[u], ix, i)
                          /\ Bound(c, a[u], ix, i) => b[u].item = a[u].item
  BY DEF OthersSame
<1>2. {u \in CartTask : Bound(c, b[u], ix, i)} = {u \in CartTask : Bound(c, a[u], ix, i)}
  BY <1>1
<1> QED BY <1>1, <1>2 DEF Coming

LEMMA OwedStarts ==
  ASSUME NEW c \in DOMAIN Indexes, NEW f, IndexOK(c, f), NEW a, NEW b, NEW t \in CartTask,
         OthersSame(a, b, t), a[t].at # "insert",
         NEW x \in Pool[c], b[t].at = "insert", b[t].item = x, b[t].pos = 1,
         NEW n \in [Pool[c] -> Nat], NEW m, OneMore(n, m, x), Owed(c, f, a, n)
  PROVE  Owed(c, f, b, m) /\ FilesMore(c, n, m)
<1> SUFFICES ASSUME NEW ix \in Slots(c), NEW v \in StoredOf(c, ix), NEW i
             PROVE  /\ Covers(f[ix][v], Coming(c, b, ix, v, i), Filing(c, m, ix, v, i), i)
                    /\ Cardinality(Filing(c, n, ix, v, i)) \in Nat
                    /\ Cardinality(Filing(c, m, ix, v, i)) \in Nat
                    /\ Cardinality(Filing(c, n, ix, v, i)) <= Cardinality(Filing(c, m, ix, v, i))
  BY DEF Owed, FilesMore
<1>1. PICK s, P, F, G, Q : /\ s = f[ix][v] /\ P = Coming(c, a, ix, v, i) /\ F = Filing(c, n, ix, v, i)
                           /\ Q = Coming(c, b, ix, v, i) /\ G = Filing(c, m, ix, v, i)
  OBVIOUS
<1>2. Covers(s, P, F, i) /\ s \in Seq(IdsOf(c))
  BY <1>1, OwedAt DEF IndexOK
<1>3. ~Bound(c, a[t], ix, i)
  BY DEF Bound
<1>4. CASE x.id # i
  <2>0. Adds(Filing(c, m, ix, v, i), Filing(c, n, ix, v, i), {})
    BY <1>4, FilingGrows
  <2>1. G = F
    BY <1>1, <2>0 DEF Adds
  <2>2. ~Bound(c, b[t], ix, i)
    BY <1>4 DEF Bound
  <2>3. Q = P
    BY <1>1, <1>3, <2>2, ComingOther
  <2>4. Cardinality(F) \in Nat
    BY <1>2, FS_CardinalityType DEF Covers
  <2> QED BY <1>1, <1>2, <2>1, <2>3, <2>4
<1>5. CASE x.id = i
  <2>1. Bound(c, b[t], ix, i)
    <3>1. PICK p \in DOMAIN Indexes[c] : Indexes[c][p] = ix
      BY SlotAt
    <3>2. 1 <= p
      BY <3>1, IndexNames
    <3> QED BY <1>5, <3>1, <3>2 DEF Bound
  <2>2. PICK S, A, B : S = FiledUnder(ix, x, v) /\ A = {t} \X S /\ B = {x} \X ({n[x] + 1} \X S)
    OBVIOUS
  <2>3. Adds(G, F, B)
    BY <1>1, <1>5, <2>2, FilingGrows
  <2>4. Adds(Q, P, A)
    BY <1>1, <1>3, <2>1, <2>2, ComingGrows
  <2>5. IsFiniteSet(S)
    BY <2>2, FiledPlaces
  <2>6. IsFiniteSet(A) /\ Cardinality(A) = Cardinality(S)
    BY <2>2, <2>5, Times
  <2>7. PICK T, k : k = n[x] + 1 /\ T = {k} \X S
    OBVIOUS
  <2>8. IsFiniteSet(T) /\ Cardinality(T) = Cardinality(S)
    BY <2>5, <2>7, Times
  <2>9. IsFiniteSet(B) /\ Cardinality(B) = Cardinality(S)
    <3>1. B = {x} \X T
      BY <2>2, <2>7
    <3>2. IsFiniteSet({x} \X T) /\ Cardinality({x} \X T) = Cardinality(T)
      BY <2>8, Times
    <3> QED BY <2>8, <3>1, <3>2
  <2>10. Covers(s, P \cup A, F \cup B, i) /\ Cardinality(F) <= Cardinality(F \cup B)
    BY <1>2, <2>3, <2>4, <2>6, <2>9, CoversGrow DEF Adds
  <2>11. Cardinality(F) \in Nat /\ Cardinality(G) \in Nat
    BY <1>2, <2>3, <2>10, FS_CardinalityType DEF Covers, Adds
  <2> QED BY <1>1, <2>3, <2>4, <2>10, <2>11 DEF Adds
<1> QED BY <1>4, <1>5

LEMMA InsertItemCounted ==
  ASSUME CartTypes, CartCounted, NEW t \in CartTask, InsertItem(t)
  PROVE  CartCounted'
<1>1. PICK x \in Insertable :
        /\ Goes(t, [at |-> "insert", item |-> x, pos |-> 1])
        /\ puts' = [puts EXCEPT ![x] = @ + 1]
  BY DEF InsertItem
<1>2. PICK c, f, a, n, m, b : /\ c = cartridge /\ f = index /\ a = cjob /\ n = puts
                              /\ m = puts' /\ b = cjob'
  OBVIOUS
<1>3. c = cartridge' /\ f = index' /\ a[t].at = "idle"
  BY <1>2 DEF InsertItem, Call
<1>4. /\ c \in DOMAIN Indexes /\ x \in Pool[c] /\ IndexOK(c, f) /\ n \in [Pool[c] -> Nat]
      /\ OneMore(n, m, x) /\ Owed(c, f, a, n) /\ Jobs(c, a)
      /\ \A u \in CartTask : Told(c, a[u], n)
  BY <1>1, <1>2 DEF CartTypes, Insertable, CartCounted, OneMore
<1>5. b[t] = [at |-> "insert", item |-> x, pos |-> 1] /\ OthersSame(a, b, t)
  BY <1>1, <1>2, GoesNow DEF Now, OthersSame
<1>6. Owed(c, f, b, m) /\ FilesMore(c, n, m)
  <2>1. b[t].at = "insert" /\ b[t].item = x /\ b[t].pos = 1 /\ a[t].at # "insert"
    BY <1>3, <1>5
  <2> QED BY <1>4, <1>5, <2>1, OwedStarts
<1>7. ASSUME NEW u \in CartTask PROVE Told(c, b[u], m)
  <2>1. CASE u = t
    BY <1>5, <2>1 DEF Told
  <2>2. CASE u # t
    <3>1. PICK j : j = a[u]
      OBVIOUS
    <3>2. JobOK(c, j) /\ Told(c, j, n)
      BY <1>4, <3>1 DEF Jobs
    <3>3. Told(c, j, m)
      BY <1>6, <3>2, CountTypes, ToldStays
    <3> QED BY <1>5, <2>2, <3>1, <3>3 DEF OthersSame
  <2> QED BY <2>1, <2>2
<1> QED BY <1>2, <1>3, <1>6, <1>7 DEF CartCounted

LEMMA OneOnly ==
  ASSUME NEW S, NEW x \in S, NEW i
  PROVE  Len(Only(<<x>>, {i})) = IF x = i THEN 1 ELSE 0
<1>1. <<x>> = Append(<<>>, x) /\ <<>> \in Seq(S)
  OBVIOUS
<1>2. \A K : Only(Append(<<>>, x), K) = IF x \in K THEN Append(Only(<<>>, K), x) ELSE Only(<<>>, K)
  BY <1>1, OnlyAppend
<1>3. Only(<<>>, {i}) = <<>>
  BY OnlyEmpty
<1>4. Only(<<x>>, {i}) = IF x = i THEN <<x>> ELSE <<>>
  BY <1>1, <1>2, <1>3
<1> QED BY <1>4

LEMMA GainsCount ==
  ASSUME NEW c \in DOMAIN Indexes, NEW ix \in Slots(c), NEW x \in Pool[c], NEW v \in StoredOf(c, ix),
         NEW old, old[v] \in Seq(IdsOf(c)), NEW new, Gains(c, old, new, ix, x), NEW i
  PROVE  /\ Len(Only(old[v], {i})) \in Nat /\ Len(Only(new[v], {i})) \in Nat
         /\ Len(Only(new[v], {i}))
              <= Len(Only(old[v], {i})) + IF x.id = i THEN Cardinality(FiledUnder(ix, x, v)) ELSE 0
<1>1. PICK s, r, S, y : s = old[v] /\ s \in Seq(IdsOf(c)) /\ r = new[v] /\ S = FiledUnder(ix, x, v) /\ y = x.id
  OBVIOUS
<1>2. r = IF S = {} THEN s ELSE IF ix = "name" THEN <<y>> ELSE s \o Copies(y, Cardinality(S))
  BY <1>1 DEF Gains
<1>3. PICK n \in Nat : n = Cardinality(S) /\ (S # {} => n >= 1)
  BY <1>1, FiledPlaces
<1>4. Len(Only(s, {i})) \in Nat
  <2>1. Only(s, {i}) \in Seq(IdsOf(c))
    BY <1>1, OnlyType
  <2> QED BY <2>1
<1>5. y \in IdsOf(c)
  BY <1>1 DEF IdsOf
<1>6. Len(Only(r, {i})) \in Nat /\ Len(Only(r, {i})) <= Len(Only(s, {i})) + IF y = i THEN n ELSE 0
  <2>1. CASE S = {}
    BY <1>2, <1>3, <1>4, <2>1
  <2>2. CASE S # {} /\ ix = "name"
    <3>1. Len(Only(<<y>>, {i})) = IF y = i THEN 1 ELSE 0
      BY <1>5, OneOnly
    <3> QED BY <1>2, <1>3, <1>4, <2>2, <3>1
  <2>3. CASE S # {} /\ ix # "name"
    <3>1. Longer(s, y, n, i)
      BY <1>1, <1>5, OnlyCopies
    <3> QED BY <1>2, <1>3, <1>4, <2>3, <3>1 DEF Longer
  <2> QED BY <2>1, <2>2, <2>3
<1> QED BY <1>1, <1>3, <1>4, <1>6
LEMMA OwedFiled ==
  ASSUME NEW c \in DOMAIN Indexes, NEW f, IndexOK(c, f), NEW a, NEW b, NEW n, NEW t \in CartTask,
         OthersSame(a, b, t), a[t] \in InsertJob(c), NEW ix, ix = Indexes[c][a[t].pos],
         b[t].at # "insert" \/ (b[t].at = "insert" /\ b[t].pos = a[t].pos + 1 /\ b[t].item = a[t].item),
         b[t].at # "insert" => a[t].pos = Len(Indexes[c]),
         NEW g, \A s \in Slots(c) \ {ix} : g[s] = f[s], Gains(c, f[ix], g[ix], ix, a[t].item),
         Owed(c, f, a, n)
  PROVE  Owed(c, g, b, n)
<1>0. PICK x, p : x = a[t].item /\ p = a[t].pos
  OBVIOUS
<1>1. /\ a[t].at = "insert" /\ x \in Pool[c] /\ p \in DOMAIN Indexes[c] /\ ix \in Slots(c)
      /\ ix = Indexes[c][p]
  BY <1>0, SlotAt DEF InsertJob
<1>2. \A q \in DOMAIN Indexes[c] : q \in Nat /\ (Indexes[c][q] = ix => q = p) /\ q <= Len(Indexes[c])
  BY <1>1, IndexNames
<1>3. ASSUME NEW i PROVE ~Bound(c, b[t], ix, i)
  BY <1>0, <1>1, <1>2 DEF Bound
<1>4. ASSUME NEW i PROVE Bound(c, a[t], ix, i) <=> x.id = i
  BY <1>0, <1>1, <1>2 DEF Bound
<1>5. ASSUME NEW s \in Slots(c) \ {ix}, NEW i
      PROVE  /\ Bound(c, a[t], s, i) <=> Bound(c, b[t], s, i)
             /\ Bound(c, a[t], s, i) => b[t].item = a[t].item
  <2>1. ASSUME NEW q \in DOMAIN Indexes[c], Indexes[c][q] = s, p <= q
        PROVE  b[t].at = "insert" /\ b[t].item = x /\ b[t].pos <= q
    <3>1. q # p /\ q \in Nat /\ p \in Nat /\ q <= Len(Indexes[c]) /\ Len(Indexes[c]) \in Nat
      BY <1>1, <1>2, <2>1, IndexNames
    <3>2. p # Len(Indexes[c]) /\ p + 1 <= q
      BY <2>1, <3>1
    <3> QED BY <1>0, <3>2
  <2>2. ASSUME b[t].at = "insert", NEW q \in DOMAIN Indexes[c], b[t].pos <= q PROVE p <= q
    <3>1. q \in Nat /\ p \in Nat
      BY <1>1, <1>2
    <3> QED BY <1>0, <2>2, <3>1
  <2> QED BY <1>0, <1>1, <2>1, <2>2 DEF Bound
<1>6. ASSUME NEW s \in Slots(c), NEW v \in StoredOf(c, s), NEW i
      PROVE  Covers(g[s][v], Coming(c, b, s, v, i), Filing(c, n, s, v, i), i)
  <2>1. Covers(f[s][v], Coming(c, a, s, v, i), Filing(c, n, s, v, i), i)
    BY OwedAt
  <2>2. CASE s # ix
    <3>1. g[s] = f[s]
      BY <2>2
    <3>2. /\ Bound(c, a[t], s, i) <=> Bound(c, b[t], s, i)
          /\ Bound(c, a[t], s, i) => b[t].item = a[t].item
      BY <1>5, <2>2
    <3>3. Coming(c, b, s, v, i) = Coming(c, a, s, v, i)
      BY <3>2, ComingOther
    <3> QED BY <2>1, <3>1, <3>3
  <2>3. CASE s = ix
    <3>0. f[ix][v] \in Seq(IdsOf(c))
      BY <1>1, <2>3 DEF IndexOK
    <3>1. PICK k, l, S, o, w : /\ k = Len(Only(g[ix][v], {i})) /\ l = Len(Only(f[ix][v], {i}))
                               /\ S = FiledUnder(ix, x, v) /\ o = f[ix] /\ w = g[ix]
      OBVIOUS
    <3>2. k \in Nat /\ l \in Nat /\ k <= l + IF x.id = i THEN Cardinality(S) ELSE 0
      <4>1. o[v] \in Seq(IdsOf(c)) /\ Gains(c, o, w, ix, x) /\ v \in StoredOf(c, ix)
        BY <1>0, <2>3, <3>0, <3>1
      <4> QED BY <1>1, <3>1, <4>1, GainsCount
    <3>3. PICK P, Q, F : P = Coming(c, a, ix, v, i) /\ Q = Coming(c, b, ix, v, i) /\ F = Filing(c, n, ix, v, i)
      OBVIOUS
    <3>4. IsFiniteSet(P) /\ IsFiniteSet(F) /\ l + Cardinality(P) <= Cardinality(F)
      BY <2>1, <2>3, <3>1, <3>3 DEF Covers
    <3>5. Cardinality(P) \in Nat /\ Cardinality(F) \in Nat
      BY <3>4, FS_CardinalityType
    <3>6. CASE x.id # i
      <4>1. ~Bound(c, a[t], ix, i) /\ ~Bound(c, b[t], ix, i)
        BY <1>3, <1>4, <3>6
      <4>2. Coming(c, b, ix, v, i) = Coming(c, a, ix, v, i)
        BY <4>1, ComingOther
      <4>3. k + Cardinality(P) <= Cardinality(F)
        BY <3>2, <3>4, <3>5, <3>6
      <4>4. Covers(g[ix][v], Q, F, i)
        BY <3>1, <3>3, <3>4, <4>2, <4>3 DEF Covers
      <4> QED BY <2>3, <3>3, <4>4
    <3>7. CASE x.id = i
      <4>1. Bound(c, a[t], ix, i) /\ ~Bound(c, b[t], ix, i)
        BY <1>3, <1>4, <3>7
      <4>2. OthersSame(b, a, t)
        BY DEF OthersSame
      <4>3. Adds(P, Q, {t} \X S)
        BY <1>0, <3>1, <3>3, <4>1, <4>2, ComingGrows
      <4>4. IsFiniteSet(S)
        BY <1>1, <3>1, FiledPlaces
      <4>5. IsFiniteSet({t} \X S) /\ Cardinality({t} \X S) = Cardinality(S)
        BY <4>4, Times
      <4>6. PICK T : T = {t} \X S
        OBVIOUS
      <4>7. Q \subseteq P /\ P = Q \cup T /\ Q \cap T = {} /\ IsFiniteSet(T)
        BY <4>3, <4>5, <4>6 DEF Adds
      <4>8. IsFiniteSet(Q)
        BY <3>4, <4>7, FS_Subset
      <4>9. Cardinality(P) = Cardinality(Q) + Cardinality(T) /\ Cardinality(Q) \in Nat /\ Cardinality(T) \in Nat
        BY <4>7, <4>8, Apart
      <4>10. Cardinality(T) = Cardinality(S)
        BY <4>5, <4>6
      <4>11. k + Cardinality(Q) <= Cardinality(F)
        BY <3>2, <3>4, <3>5, <3>7, <4>9, <4>10
      <4>12. Covers(g[ix][v], Q, F, i)
        BY <3>1, <3>4, <4>8, <4>11 DEF Covers
      <4> QED BY <2>3, <3>3, <4>12
    <3> QED BY <3>6, <3>7
  <2> QED BY <2>2, <2>3
<1> QED BY <1>6 DEF Owed

LEMMA InsertNextCounted ==
  ASSUME CartTypes, CartCounted, NEW t \in CartTask, InsertNext(t)
  PROVE  CartCounted'
<1>1. PICK c, f, g, a, b, n : /\ c = cartridge /\ f = index /\ a = cjob /\ n = puts
                              /\ g = index' /\ b = cjob'
  OBVIOUS
<1>2. PICK j, ix : j = a[t] /\ ix = Indexes[c][j.pos]
  OBVIOUS
<1>3. /\ j.at = "insert" /\ g = [f EXCEPT ![ix] = WithId(@, ix, j.item)]
      /\ Goes(t, After(j)) /\ cartridge' = c /\ puts' = n
  BY <1>1, <1>2 DEF InsertNext, Order
<1>4. c \in DOMAIN Indexes /\ j \in InsertJob(c) /\ IndexOK(c, f) /\ Owed(c, f, a, n)
  BY <1>1, <1>2, <1>3 DEF CartTypes, Jobs, JobOK, CartCounted
<1>5. ix \in Slots(c) /\ j.item \in Pool[c]
  BY <1>2, <1>4, SlotAt DEF InsertJob
<1>6. PICK old, new : old = f[ix] /\ new = WithId(old, ix, j.item)
  OBVIOUS
<1>7. old \in [StoredOf(c, ix) -> Seq(IdsOf(c))] /\ DOMAIN f = Slots(c)
  BY <1>4, <1>5, <1>6 DEF IndexOK
<1>8. Gains(c, old, new, ix, j.item)
  BY <1>4, <1>5, <1>6, <1>7, WithIdShape
<1>9. g[ix] = new /\ \A s \in Slots(c) \ {ix} : g[s] = f[s]
  BY <1>3, <1>5, <1>6, <1>7
<1>10. Now(t, After(j))
  BY <1>3, GoesNow
<1>11. b[t] = After(j) /\ OthersSame(a, b, t)
  BY <1>1, <1>10 DEF Now, OthersSame
<1>12. /\ j.pos = Len(Indexes[c]) => After(j).at = "idle"
       /\ j.pos # Len(Indexes[c]) => /\ After(j).at = "insert" /\ After(j).pos = j.pos + 1
                                     /\ After(j).item = j.item
  BY <1>1, <1>3, <1>4, AfterIs, IdleOK DEF Order
<1>13. Owed(c, g, b, n)
  <2>1. /\ b[t].at # "insert" \/ (b[t].at = "insert" /\ b[t].pos = a[t].pos + 1 /\ b[t].item = a[t].item)
        /\ b[t].at # "insert" => a[t].pos = Len(Indexes[c])
    BY <1>2, <1>11, <1>12
  <2>2. a[t] \in InsertJob(c) /\ ix = Indexes[c][a[t].pos] /\ Gains(c, f[ix], g[ix], ix, a[t].item)
    BY <1>2, <1>4, <1>6, <1>8, <1>9
  <2> QED BY <1>4, <1>9, <1>11, <2>1, <2>2, OwedFiled
<1>14. ASSUME NEW u \in CartTask PROVE Told(c, b[u], n)
  <2>1. CASE u = t
    BY <1>11, <1>12, <2>1 DEF Told
  <2>2. CASE u # t
    BY <1>1, <1>11, <2>2 DEF CartCounted, OthersSame
  <2> QED BY <2>1, <2>2
<1> QED BY <1>1, <1>3, <1>13, <1>14 DEF CartCounted

(* The steps of threads that are not inserting.                            *)
LEMMA OwedStays ==
  ASSUME NEW c, NEW f, NEW a, NEW b, NEW n, NEW t \in CartTask, OthersSame(a, b, t),
         a[t].at # "insert", b[t].at # "insert", Owed(c, f, a, n)
  PROVE  Owed(c, f, b, n)
<1>1. ASSUME NEW ix \in Slots(c), NEW v \in StoredOf(c, ix), NEW i
      PROVE  Covers(f[ix][v], Coming(c, b, ix, v, i), Filing(c, n, ix, v, i), i)
  <2>1. Covers(f[ix][v], Coming(c, a, ix, v, i), Filing(c, n, ix, v, i), i)
    BY OwedAt
  <2>2. ~Bound(c, a[t], ix, i) /\ ~Bound(c, b[t], ix, i)
    BY DEF Bound
  <2>3. Coming(c, b, ix, v, i) = Coming(c, a, ix, v, i)
    BY <2>2, ComingOther
  <2> QED BY <2>1, <2>3
<1> QED BY <1>1 DEF Owed

LEMMA OwedEmptied ==
  ASSUME NEW c, NEW f, IndexOK(c, f), NEW g, NEW b, NEW n, NEW ix \in Slots(c),
         \A s \in Slots(c) \ {ix} : g[s] = f[s],
         \A v \in StoredOf(c, ix) : g[ix][v] = <<>>, Owed(c, f, b, n)
  PROVE  Owed(c, g, b, n)
<1>1. ASSUME NEW s \in Slots(c), NEW v \in StoredOf(c, s), NEW i
      PROVE  Covers(g[s][v], Coming(c, b, s, v, i), Filing(c, n, s, v, i), i)
  <2>1. Covers(f[s][v], Coming(c, b, s, v, i), Filing(c, n, s, v, i), i)
    BY OwedAt
  <2>2. CASE s # ix
    BY <2>1, <2>2
  <2>3. CASE s = ix
    <3>1. PICK P, F, r : P = Coming(c, b, s, v, i) /\ F = Filing(c, n, s, v, i) /\ r = f[s][v]
      OBVIOUS
    <3>2. IsFiniteSet(P) /\ IsFiniteSet(F) /\ Len(Only(r, {i})) + Cardinality(P) <= Cardinality(F)
      BY <2>1, <3>1 DEF Covers
    <3>3. Cardinality(P) \in Nat /\ Cardinality(F) \in Nat
      BY <3>2, FS_CardinalityType
    <3>4. Len(Only(r, {i})) \in Nat
      <4>1. r \in Seq(IdsOf(c))
        BY <3>1 DEF IndexOK
      <4>2. Only(r, {i}) \in Seq(IdsOf(c))
        BY <4>1, OnlyType
      <4> QED BY <4>2
    <3>5. Only(<<>>, {i}) = <<>>
      BY OnlyEmpty
    <3>6. Len(Only(<<>>, {i})) = 0
      BY <3>5
    <3>7. 0 + Cardinality(P) <= Cardinality(F)
      BY <3>2, <3>3, <3>4
    <3>8. Covers(<<>>, P, F, i)
      BY <3>2, <3>6, <3>7 DEF Covers
    <3> QED BY <2>3, <3>1, <3>8
  <2> QED BY <2>2, <2>3
<1> QED BY <1>1 DEF Owed

LEMMA ClearNextCounted ==
  ASSUME CartTypes, CartCounted, NEW t \in CartTask, ClearNext(t)
  PROVE  CartCounted'
<1>1. PICK c, f, g, a, b, n : /\ c = cartridge /\ f = index /\ a = cjob /\ n = puts
                              /\ g = index' /\ b = cjob'
  OBVIOUS
<1>2. PICK j, ix : j = a[t] /\ ix = Indexes[c][j.pos]
  OBVIOUS
<1>3. /\ j.at = "clear" /\ g = [f EXCEPT ![ix] = Empty(ix)]
      /\ Goes(t, After(j)) /\ cartridge' = c /\ puts' = n
  BY <1>1, <1>2 DEF ClearNext, Order
<1>4. c \in DOMAIN Indexes /\ j \in ClearJob(c) /\ IndexOK(c, f) /\ Owed(c, f, a, n)
  BY <1>1, <1>2, <1>3 DEF CartTypes, Jobs, JobOK, CartCounted
<1>5. ix \in Slots(c)
  BY <1>2, <1>4, SlotAt DEF ClearJob
<1>6. Empty(ix) = [v \in StoredOf(c, ix) |-> <<>>]
  BY <1>1 DEF Empty, Stored, StoredOf, Asked, Insertable
<1>7. (\A v \in StoredOf(c, ix) : g[ix][v] = <<>>) /\ \A s \in Slots(c) \ {ix} : g[s] = f[s]
  <2>1. DOMAIN f = Slots(c)
    BY <1>4 DEF IndexOK
  <2> QED BY <1>3, <1>5, <1>6, <2>1
<1>8. Now(t, After(j))
  BY <1>3, GoesNow
<1>9. b[t] = After(j) /\ OthersSame(a, b, t)
  BY <1>1, <1>8 DEF Now, OthersSame
<1>10. After(j).at \in {"idle", "clear"}
  BY <1>1, <1>3, <1>4, AfterIs, IdleOK
<1>11. Owed(c, g, b, n)
  <2>1. a[t].at # "insert" /\ b[t].at # "insert"
    BY <1>2, <1>3, <1>9, <1>10
  <2>2. Owed(c, f, b, n)
    BY <1>4, <1>9, <2>1, OwedStays
  <2> QED BY <1>4, <1>5, <1>7, <2>2, OwedEmptied
<1>12. ASSUME NEW u \in CartTask PROVE Told(c, b[u], n)
  <2>1. CASE u = t
    BY <1>9, <1>10, <2>1 DEF Told
  <2>2. CASE u # t
    BY <1>1, <1>9, <2>2 DEF CartCounted, OthersSame
  <2> QED BY <2>1, <2>2
<1> QED BY <1>1, <1>3, <1>11, <1>12 DEF CartCounted

(* A step that leaves the indexes and what was put, by a thread that does  *)
(* not insert before or after.                                             *)
LEMMA CalmCounted ==
  ASSUME CartTypes, CartCounted, NEW t \in CartTask, NEW j, Now(t, j), cjob[t].at # "insert",
         j.at # "insert", UNCHANGED <<cartridge, index, puts>>, Told(cartridge, j, puts)
  PROVE  CartCounted'
<1>1. PICK c, f, a, b, n : c = cartridge /\ f = index /\ a = cjob /\ n = puts /\ b = cjob'
  OBVIOUS
<1>2. b[t] = j /\ OthersSame(a, b, t)
  BY <1>1 DEF Now, OthersSame
<1>3. Owed(c, f, b, n)
  BY <1>1, <1>2, OwedStays DEF CartCounted
<1>4. ASSUME NEW u \in CartTask PROVE Told(c, b[u], n)
  BY <1>1, <1>2 DEF CartCounted, OthersSame
<1> QED BY <1>1, <1>3, <1>4 DEF CartCounted

LEMMA WipeCounted ==
  ASSUME CartTypes, CartCounted, NEW t \in CartTask, Wipe(t)
  PROVE  CartCounted'
<1>1. PICK j : j = [at |-> "clear", pos |-> 1]
  OBVIOUS
<1>2. Now(t, j) /\ cjob[t].at # "insert" /\ UNCHANGED <<cartridge, index, puts>>
  BY <1>1, GoesNow DEF Wipe, Call
<1>3. j.at # "insert" /\ Told(cartridge, j, puts)
  BY <1>1 DEF Told
<1> QED BY <1>2, <1>3, CalmCounted

LEMMA AskTold ==
  ASSUME CartTypes, CartCounted, NEW ix \in Slots(cartridge), NEW v \in StoredOf(cartridge, ix), NEW i
  PROVE  Len(Only(Ids(ix, v), {i})) <= Cardinality(Filing(cartridge, puts, ix, v, i))
<1>1. PICK c, s, P, F : /\ c = cartridge /\ s = index[ix][v] /\ P = Coming(c, cjob, ix, v, i)
                        /\ F = Filing(c, puts, ix, v, i)
  OBVIOUS
<1>2. Covers(s, P, F, i)
  BY <1>1, OwedAt DEF CartCounted
<1>3. s \in Seq(IdsOf(c)) /\ Ids(ix, v) = s
  BY <1>1 DEF CartTypes, IndexOK, Ids
<1>4. Cardinality(P) \in Nat /\ Cardinality(F) \in Nat
  BY <1>2, FS_CardinalityType DEF Covers
<1>5. Len(Only(s, {i})) \in Nat
  <2>1. Only(s, {i}) \in Seq(IdsOf(c))
    BY <1>3, OnlyType
  <2> QED BY <2>1
<1>6. Len(Only(s, {i})) <= Cardinality(F)
  BY <1>2, <1>4, <1>5 DEF Covers
<1> QED BY <1>1, <1>3, <1>6

LEMMA AnswerCount ==
  ASSUME CartTypes, NEW s \in Seq(IdsOf(cartridge)), NEW i
  PROVE  /\ Cardinality({k \in DOMAIN Items(s) : Items(s)[k].id = i}) \in Nat
         /\ Len(Only(s, {i})) \in Nat
         /\ Cardinality({k \in DOMAIN Items(s) : Items(s)[k].id = i}) <= Len(Only(s, {i}))
<1>1. PICK g, r, D, c : g = Items(s) /\ r = Only(s, D) /\ D = DOMAIN items /\ c = cartridge
  OBVIOUS
<1>2. r \in Seq(IdsOf(c)) /\ Len(r) \in Nat /\ Len(Only(s, {i})) \in Nat
  <2>1. r \in Seq(IdsOf(c)) /\ Only(s, {i}) \in Seq(IdsOf(c))
    BY <1>1, OnlyType
  <2> QED BY <2>1
<1>3. /\ DOMAIN g = 1 .. Len(r) /\ \A k \in 1 .. Len(r) : r[k] \in D /\ g[k].id = r[k]
  BY <1>1, ItemsIs
<1>4. {k \in DOMAIN g : g[k].id = i} = {k \in 1 .. Len(r) : r[k] = i}
  BY <1>3
<1>7. PICK m, l : m = Cardinality({k \in DOMAIN g : g[k].id = i}) /\ l = Len(Only(s, {i}))
  OBVIOUS
<1>5. CASE i \in D
  <2>1. Cardinality({k \in 1 .. Len(r) : r[k] = i}) = Len(Only(r, {i}))
    BY <1>2, OnlyCount
  <2>2. Only(r, {i}) = Only(s, D \cap {i})
    BY <1>1, OnlyOnly
  <2>3. D \cap {i} = {i}
    BY <1>5
  <2>4. m = l
    BY <1>4, <1>7, <2>1, <2>2, <2>3
  <2>5. m \in Nat /\ l \in Nat /\ m <= l
    BY <1>2, <1>7, <2>4
  <2> QED BY <1>1, <1>7, <2>5
<1>6. CASE i \notin D
  <2>1. {k \in 1 .. Len(r) : r[k] = i} = {}
    BY <1>3, <1>6
  <2>2. Cardinality({}) = 0
    BY FS_EmptySet
  <2>3. m = 0
    BY <1>4, <1>7, <2>1, <2>2
  <2>5. m \in Nat /\ l \in Nat /\ m <= l
    BY <1>2, <1>7, <2>3
  <2> QED BY <1>1, <1>7, <2>5
<1> QED BY <1>5, <1>6

LEMMA AskCounted ==
  ASSUME CartTypes, CartCounted, NEW t \in CartTask, AskIndex(t)
  PROVE  CartCounted'
<1>0. PICK ix \in ToSet(Order) : \E v \in Asked(ix) :
        Goes(t, [at |-> "query", ix |-> ix, value |-> Folded(ix, v), ids |-> Ids(ix, Folded(ix, v))])
  BY DEF AskIndex
<1>1. PICK v \in Asked(ix) :
        Goes(t, [at |-> "query", ix |-> ix, value |-> Folded(ix, v), ids |-> Ids(ix, Folded(ix, v))])
  BY <1>0
<1>2. PICK w, j : w = Folded(ix, v) /\ j = [at |-> "query", ix |-> ix, value |-> w, ids |-> Ids(ix, w)]
  OBVIOUS
<1>3. Now(t, j)
  BY <1>1, <1>2, GoesNow
<1>4. ix \in Slots(cartridge) /\ w \in StoredOf(cartridge, ix)
  BY <1>1, <1>2 DEF Slots, Order, StoredOf, Asked, Insertable
<1>5. \A i : Len(Only(Ids(ix, w), {i})) <= Cardinality(Filing(cartridge, puts, ix, w, i))
  BY <1>4, AskTold
<1>6. j.at = "query" /\ j.ix = ix /\ j.value = w /\ j.ids = Ids(ix, w)
  BY <1>2
<1>7. Told(cartridge, j, puts)
  BY <1>5, <1>6 DEF Told
<1>8. cjob[t].at # "insert" /\ j.at # "insert" /\ UNCHANGED <<cartridge, index, puts>>
  BY <1>6 DEF AskIndex, Call, history
<1> QED BY <1>3, <1>7, <1>8, CalmCounted

LEMMA QueryCounted ==
  ASSUME CartTypes, CartCounted, NEW t \in CartTask, QueryRead(t)
  PROVE  CartCounted'
<1>1. PICK a, s, g, j : /\ a = cjob[t] /\ s = a.ids /\ g = Items(s)
                        /\ j = [at |-> "answer", ix |-> a.ix, value |-> a.value, got |-> g]
  OBVIOUS
<1>2. Now(t, j) /\ a.at = "query" /\ UNCHANGED <<cartridge, index, puts>>
  BY <1>1, GoesNow DEF QueryRead, history
<1>3. j.at = "answer" /\ j.ix = a.ix /\ j.value = a.value /\ j.got = g
  BY <1>1
<1>4. /\ s \in Seq(IdsOf(cartridge)) /\ Told(cartridge, a, puts)
      /\ a.ix \in Slots(cartridge) /\ a.value \in StoredOf(cartridge, a.ix)
  BY <1>1, <1>2 DEF CartTypes, Jobs, JobOK, CartCounted
<1>5. ASSUME NEW i PROVE Cardinality({k \in DOMAIN g : g[k].id = i})
                           <= Cardinality(Filing(cartridge, puts, a.ix, a.value, i))
  <2>1. PICK l, m, F : /\ m = Cardinality({k \in DOMAIN g : g[k].id = i}) /\ l = Len(Only(s, {i}))
                       /\ F = Filing(cartridge, puts, a.ix, a.value, i)
    OBVIOUS
  <2>2. m \in Nat /\ l \in Nat /\ m <= l
    BY <1>1, <1>4, <2>1, AnswerCount
  <2>3. l <= Cardinality(F)
    BY <1>1, <1>2, <1>4, <2>1 DEF Told
  <2>4. IsFiniteSet(F)
    BY <1>4, <2>1, OwedAt DEF CartCounted, Covers
  <2>5. Cardinality(F) \in Nat
    BY <2>4, FS_CardinalityType
  <2> QED BY <2>1, <2>2, <2>3, <2>5
<1>6. Told(cartridge, j, puts)
  BY <1>3, <1>5 DEF Told
<1>7. cjob[t].at # "insert" /\ j.at # "insert"
  BY <1>1, <1>2, <1>3
<1> QED BY <1>2, <1>6, <1>7, CalmCounted

(* Other steps that only read.                                             *)
LEMMA ReadsCounted ==
  ASSUME CartTypes, CartCounted, NEW t \in CartTask, NEW j, Reads(t, j), j.at \notin {"query", "answer"}
  PROVE  CartCounted'
<1>1. Told(cartridge, j, puts)
  BY DEF Told
<1> QED BY <1>1, CalmCounted DEF Reads

LEMMA ReadsFound ==
  ASSUME CartTypes, CartFound, NEW t \in CartTask, NEW j, Reads(t, j)
  PROVE  CartTypes' /\ CartFound'
<1>1. Jobs(cartridge, cjob')
  BY NowJobs DEF CartTypes, Reads
<1>2. CartTypes'
  BY <1>1 DEF CartTypes, Reads
<1>3. CartFound'
  BY CalmFound DEF Reads
<1> QED BY <1>2, <1>3

-----------------------------------------------------------------------------
(* The recursive functions of find_path and of its specification.          *)
NextOf(S) == S \cup {Target(items[i]) : i \in {y \in DOMAIN items : Source(items[y]) \in S}}
NearBy(f, a, n) == f = [k \in 0 .. n |-> IF k = 0 THEN {a} ELSE NextOf(f[k - 1])]

LEMMA WithinIs ==
  ASSUME NEW a, NEW n \in Nat
  PROVE  \E f : f[0] = {a} /\ (\A k \in 1 .. n : f[k] = NextOf(f[k - 1])) /\ Within(a, n) = f[n]
<1> DEFINE W == {a} \cup {Target(items[i]) : i \in DOMAIN items}
           V == SUBSET W
           g == [i \in 1 .. n |-> [S \in V |-> NextOf(S)]]
           near == CHOOSE f : NearBy(f, a, n)
<1>1. {a} \in V /\ g \in [1 .. n -> [V -> V]]
  <2>1. ASSUME NEW S \in V PROVE NextOf(S) \in V
    BY DEF NextOf
  <2> QED BY <2>1
<1>2. \A i \in 1 .. n : \A S \in V : g[i][S] = NextOf(S)
  OBVIOUS
<1> HIDE DEF V, g
<1>3. PICK f \in [0 .. n -> V] : f[0] = {a} /\ \A i \in 1 .. n : f[i] = g[i][f[i - 1]]
  BY <1>1, IterationExists
<1>4. ASSUME NEW i \in 1 .. n PROVE f[i] = NextOf(f[i - 1])
  <2>1. i - 1 \in 0 .. n
    OBVIOUS
  <2>2. f[i - 1] \in V
    BY <2>1
  <2> QED BY <1>2, <1>3, <2>2
<1>5. NearBy(f, a, n)
  <2>1. \A i \in 0 .. n : f[i] = IF i = 0 THEN {a} ELSE NextOf(f[i - 1])
    <3>1. \A i \in 0 .. n : i = 0 \/ i \in 1 .. n
      OBVIOUS
    <3> QED BY <1>3, <1>4, <3>1
  <2>2. f = [i \in 0 .. n |-> f[i]]
    BY <1>3
  <2> QED BY <2>1, <2>2 DEF NearBy
<1>6. NearBy(near, a, n)
  BY <1>5, Zenon
<1>7. Within(a, n) = near[n]
  BY DEF Within, NearBy, NextOf
<1> HIDE DEF near
<1>8. \A i \in 0 .. n : near[i] = IF i = 0 THEN {a} ELSE NextOf(near[i - 1])
  BY <1>6, Zenon DEF NearBy
<1>9. near[0] = {a} /\ \A k \in 1 .. n : near[k] = NextOf(near[k - 1])
  <2>1. 0 \in 0 .. n /\ \A k \in 1 .. n : k \in 0 .. n /\ k # 0
    OBVIOUS
  <2> QED BY <1>8, <2>1
<1> QED BY <1>7, <1>9

BackBy(f, vis, b, n) == f = [k \in 0 .. n |-> IF k = 0 THEN b ELSE vis[f[k - 1]]]

LEMMA BackExists ==
  ASSUME NEW vis, NEW b, NEW n \in Nat
  PROVE  \E f : BackBy(f, vis, b, n)
<1> DEFINE N == {m \in Nat : \E f : BackBy(f, vis, b, m)}
<1>1. 0 \in N
  <2>1. BackBy([k \in 0 .. 0 |-> b], vis, b, 0)
    BY DEF BackBy
  <2> QED BY <2>1
<1>2. ASSUME NEW m \in Nat, m \in N PROVE m + 1 \in N
  <2>1. PICK h : BackBy(h, vis, b, m)
    BY <1>2
  <2>2. \A k \in 0 .. m : h[k] = IF k = 0 THEN b ELSE vis[h[k - 1]]
    BY <2>1, Zenon DEF BackBy
  <2> DEFINE f == [k \in 0 .. m + 1 |-> IF k = m + 1 THEN vis[h[m]] ELSE h[k]]
  <2>3. ASSUME NEW k \in 0 .. m + 1 PROVE f[k] = IF k = 0 THEN b ELSE vis[f[k - 1]]
    <3>1. CASE k = m + 1
      <4>1. f[k] = vis[h[m]] /\ k # 0 /\ k - 1 = m /\ f[m] = h[m]
        BY <3>1
      <4> HIDE DEF f
      <4> QED BY <4>1
    <3>2. CASE k # m + 1
      <4>1. k \in 0 .. m /\ f[k] = h[k]
        BY <3>2
      <4>2. k # 0 => f[k - 1] = h[k - 1]
        BY <3>2
      <4> HIDE DEF f
      <4> QED BY <2>2, <4>1, <4>2
    <3> QED BY <3>1, <3>2
  <2>4. f = [k \in 0 .. m + 1 |-> f[k]]
    OBVIOUS
  <2> HIDE DEF f
  <2>5. BackBy(f, vis, b, m + 1)
    BY <2>3, <2>4, Zenon DEF BackBy
  <2> QED BY <2>5
<1> HIDE DEF N
<1>3. n \in N
  BY <1>1, <1>2, SetInduction
<1> QED BY <1>3 DEF N

-----------------------------------------------------------------------------
(* How far from a the search has found each entity: L.                     *)
Levels(a, vis, L) ==
  /\ DOMAIN L = DOMAIN vis \cup {a} /\ L[a] = 0 /\ \A e \in DOMAIN L : L[e] \in Nat
  /\ \A e \in DOMAIN vis \ {a} : vis[e] \in DOMAIN L /\ L[e] = L[vis[e]] + 1
  /\ IsFiniteSet(DOMAIN vis) /\ \A e \in DOMAIN L : L[e] <= Cardinality(DOMAIN vis)

Steps(p, vis, n) == /\ Len(p) = n + 1
                    /\ \A k \in 1 .. n : p[k + 1] \in DOMAIN vis /\ p[k] = vis[p[k + 1]]

LEMMA PathBackIs ==
  ASSUME NEW a, NEW vis, NEW L, Levels(a, vis, L), NEW b, b \in DOMAIN vis, b # a
  PROVE  Steps(PathBack(vis, a, b), vis, L[b])
<1>1. PICK m \in Nat, d \in Nat : m = Cardinality(DOMAIN vis) /\ d = L[b]
  <2>1. Cardinality(DOMAIN vis) \in Nat
    BY FS_CardinalityType DEF Levels
  <2>2. L[b] \in Nat
    BY DEF Levels
  <2> QED BY <2>1, <2>2
<1>2. d <= m /\ 1 <= d
  <2>1. L[b] <= Cardinality(DOMAIN vis) /\ L[b] = L[vis[b]] + 1 /\ L[vis[b]] \in Nat
    BY DEF Levels
  <2> QED BY <1>1, <2>1
<1> DEFINE back == CHOOSE f : BackBy(f, vis, b, m)
           len == CHOOSE n \in 1 .. m : back[n] = a /\ \A k \in 1 .. n - 1 : back[k] # a
           p == [n \in 1 .. len + 1 |-> back[len + 1 - n]]
<1>3. PathBack(vis, a, b) = p
  BY <1>1 DEF PathBack, BackBy
<1>4. BackBy(back, vis, b, m)
  BY BackExists, Zenon
<1> HIDE DEF back
<1>5. \A k \in 0 .. m : back[k] = IF k = 0 THEN b ELSE vis[back[k - 1]]
  BY <1>4, Zenon DEF BackBy
<1>6. back[0] = b /\ \A k \in Nat : k + 1 <= m => back[k + 1] = vis[back[k]]
  <2>1. 0 \in 0 .. m /\ \A k \in Nat : k + 1 <= m => k + 1 \in 0 .. m /\ k + 1 # 0 /\ (k + 1) - 1 = k
    OBVIOUS
  <2>2. back[0] = b
    BY <1>5, <2>1
  <2>3. ASSUME NEW k \in Nat, k + 1 <= m PROVE back[k + 1] = vis[back[k]]
    <3>1. k + 1 \in 0 .. m /\ k + 1 # 0 /\ (k + 1) - 1 = k
      BY <2>3
    <3> QED BY <1>5, <3>1, Zenon
  <2> QED BY <2>2, <2>3
<1> DEFINE N == {k \in Nat : k <= d => back[k] \in DOMAIN L /\ L[back[k]] = d - k}
<1>7. 0 \in N
  BY <1>1, <1>6 DEF Levels
<1>8. ASSUME NEW k \in Nat, k \in N PROVE k + 1 \in N
  <2> SUFFICES ASSUME k + 1 <= d PROVE back[k + 1] \in DOMAIN L /\ L[back[k + 1]] = d - (k + 1)
    OBVIOUS
  <2>1. PICK e : e = back[k]
    OBVIOUS
  <2>2. e \in DOMAIN L /\ L[e] = d - k
    BY <1>8, <2>1
  <2>3. e # a
    BY <2>2 DEF Levels
  <2>4. vis[e] \in DOMAIN L /\ L[e] = L[vis[e]] + 1 /\ L[vis[e]] \in Nat
    BY <2>2, <2>3 DEF Levels
  <2>5. back[k + 1] = vis[e]
    BY <1>2, <1>6, <2>1
  <2> QED BY <2>2, <2>4, <2>5
<1> HIDE DEF N
<1>9. Nat \subseteq N
  BY <1>7, <1>8, SetInduction
<1>10. \A k \in Nat : k <= d => back[k] \in DOMAIN L /\ L[back[k]] = d - k
  BY <1>9 DEF N
<1>11. \A e \in DOMAIN L : L[e] = 0 => e = a
  <2> SUFFICES ASSUME NEW e \in DOMAIN L, L[e] = 0, e # a PROVE FALSE
    OBVIOUS
  <2>1. e \in DOMAIN vis \ {a} /\ vis[e] \in DOMAIN L /\ L[e] = L[vis[e]] + 1
    BY DEF Levels
  <2>2. L[vis[e]] \in Nat
    BY <2>1 DEF Levels
  <2> QED BY <2>1, <2>2
<1>12. back[d] = a
  BY <1>10, <1>11
<1>13. \A k \in 0 .. d - 1 : back[k] # a /\ back[k] \in DOMAIN vis
  <2> SUFFICES ASSUME NEW k \in 0 .. d - 1 PROVE back[k] # a /\ back[k] \in DOMAIN vis
    OBVIOUS
  <2>1. back[k] \in DOMAIN L /\ L[back[k]] = d - k /\ d - k # 0
    BY <1>10
  <2> QED BY <2>1 DEF Levels
<1>14. len = d
  <2>1. d \in 1 .. m /\ back[d] = a /\ \A k \in 1 .. d - 1 : back[k] # a
    BY <1>2, <1>12, <1>13
  <2>2. ASSUME NEW n \in 1 .. m, back[n] = a, \A k \in 1 .. n - 1 : back[k] # a PROVE n = d
    <3>1. ~(n <= d - 1)
      BY <1>13, <2>2
    <3>2. ~(d <= n - 1)
      BY <1>2, <1>12, <2>2
    <3> QED BY <3>1, <3>2
  <2>3. \E n \in 1 .. m : back[n] = a /\ \A k \in 1 .. n - 1 : back[k] # a
    BY <2>1
  <2>4. len \in 1 .. m /\ back[len] = a /\ \A k \in 1 .. len - 1 : back[k] # a
    BY <2>3, Zenon
  <2> HIDE DEF len
  <2> QED BY <2>2, <2>4
<1> HIDE DEF len
<1>15. p = [n \in 1 .. d + 1 |-> back[d + 1 - n]]
  BY <1>14
<1>16. Len(p) = d + 1
  <2>1. \A n \in 1 .. d + 1 : back[d + 1 - n] \in DOMAIN L
    BY <1>10
  <2>2. p \in [1 .. d + 1 -> DOMAIN L]
    BY <1>15, <2>1
  <2> HIDE DEF p
  <2> QED BY <2>2
<1>17. ASSUME NEW k \in 1 .. d PROVE p[k + 1] \in DOMAIN vis /\ p[k] = vis[p[k + 1]]
  <2> HIDE DEF p
  <2>0. k \in 1 .. d + 1 /\ k + 1 \in 1 .. d + 1 /\ d + 1 - (k + 1) = d - k
    OBVIOUS
  <2>1. p[k] = back[d + 1 - k] /\ p[k + 1] = back[d - k]
    <3>1. \A n \in 1 .. d + 1 : p[n] = back[d + 1 - n]
      BY <1>15
    <3>2. p[k + 1] = back[d + 1 - (k + 1)]
      BY <2>0, <3>1
    <3> QED BY <2>0, <3>1, <3>2
  <2>2. d - k \in 0 .. d - 1 /\ d - k \in Nat /\ (d - k) + 1 = d + 1 - k /\ (d - k) + 1 <= m
    BY <1>2
  <2>3. back[(d - k) + 1] = vis[back[d - k]]
    BY <1>6, <2>2
  <2>4. back[d - k] \in DOMAIN vis
    BY <1>13, <2>2
  <2> QED BY <2>1, <2>2, <2>3, <2>4
<1> HIDE DEF p
<1> QED BY <1>1, <1>3, <1>16, <1>17 DEF Steps

-----------------------------------------------------------------------------
(* What the search knows while nothing is inserted or cleared: the queue   *)
(* goes by distance and holds what is not expanded yet.                    *)
LinkIn(it, a, b) == \E i \in DOMAIN it : Source(it[i]) = a /\ Target(it[i]) = b
Edges(it, vis)   == \A e \in DOMAIN vis : LinkIn(it, vis[e], e)
Queued(q, L)     == \A k \in 1 .. Len(q) : q[k].node \in DOMAIN L
Rising(q) ==
  \A k, l \in 1 .. Len(q) : /\ k <= l => q[k].depth <= q[l].depth
                            /\ q[l].depth <= q[1].depth + 1
Exact(a, q, L) == \A k \in 1 .. Len(q) : q[k].node = a \/ q[k].depth = L[q[k].node]
Expanded(it, vis, L, e) ==
  \A i \in DOMAIN it : Source(it[i]) = e => Target(it[i]) \in DOMAIN vis /\ L[Target(it[i])] <= L[e] + 1
Awaits(q, L, e) == \E k \in 1 .. Len(q) : q[k].node = e /\ q[k].depth = L[e]
Frontier(it, d, q, vis, L) ==
  \A e \in DOMAIN L : L[e] <= d /\ (L[e] < d => Expanded(it, vis, L, e) \/ Awaits(q, L, e))
NearHead(q, L) == q # <<>> => \A e \in DOMAIN L : L[e] <= q[1].depth + 1
Ordered(it, a, d, q, vis, L) ==
  Rising(q) /\ Exact(a, q, L) /\ Frontier(it, d, q, vis, L) /\ NearHead(q, L)

Rels  == Pool["relationship"]
RelNodes == (UNION {ToSet(x.keys["from"]) : x \in Rels}) \cup (UNION {ToSet(x.keys["to"]) : x \in Rels})
Hops  == [node : RelNodes, depth : Nat]

Behind(q, y, n) == Append(q, [node |-> y, depth |-> n])

LEMMA QueueGrows ==
  ASSUME NEW q \in Seq(Hops), NEW y \in RelNodes, NEW m \in Nat, NEW r,
         r = Behind(q, y, m)
  PROVE  /\ r \in Seq(Hops) /\ Len(r) = Len(q) + 1 /\ Len(q) \in Nat /\ r # <<>>
         /\ \A k \in 1 .. Len(q) : r[k] = q[k]
         /\ r[Len(q) + 1].node = y /\ r[Len(q) + 1].depth = m
         /\ \A k \in 1 .. Len(r) : r[k].depth \in Nat /\ (k \in 1 .. Len(q) \/ k = Len(q) + 1)
<1>1. [node |-> y, depth |-> m] \in Hops
  BY DEF Hops
<1>2. /\ r \in Seq(Hops) /\ Len(r) = Len(q) + 1 /\ Len(q) \in Nat
      /\ \A k \in 1 .. Len(q) : r[k] = q[k]
      /\ r[Len(q) + 1] = [node |-> y, depth |-> m]
  BY <1>1 DEF Behind
<1>3. \A k \in 1 .. Len(r) : r[k] \in Hops
  BY <1>2
<1> QED BY <1>2, <1>3 DEF Hops

OneFurther(vis, L, vis2, L2, y) ==
  /\ DOMAIN L2 = DOMAIN L \cup {y} /\ DOMAIN vis2 = DOMAIN vis \cup {y}
  /\ (\A e \in DOMAIN L : L2[e] = L[e]) /\ \A e \in DOMAIN vis : vis2[e] = vis[e]
Further(a, L, y, x) == IF y = a THEN L ELSE Assign(L, y, L[x] + 1)

LEMMA LevelsGrow ==
  ASSUME NEW a, NEW vis, NEW L, Levels(a, vis, L), NEW y, y \notin DOMAIN vis, NEW x \in DOMAIN L,
         NEW vis2, vis2 = Assign(vis, y, x), NEW L2,
         L2 = Further(a, L, y, x)
  PROVE  /\ Levels(a, vis2, L2) /\ OneFurther(vis, L, vis2, L2, y) /\ vis2[y] = x
         /\ y # a => L2[y] = L[x] + 1
<1>1. DOMAIN vis2 = DOMAIN vis \cup {y} /\ vis2[y] = x /\ \A e \in DOMAIN vis : vis2[e] = vis[e]
  BY DEF Assign
<1>2. /\ DOMAIN L = DOMAIN vis \cup {a} /\ L[a] = 0 /\ \A e \in DOMAIN L : L[e] \in Nat
      /\ \A e \in DOMAIN vis \ {a} : vis[e] \in DOMAIN L /\ L[e] = L[vis[e]] + 1
  BY DEF Levels
<1>3. DOMAIN L2 = DOMAIN L \cup {y} /\ (\A e \in DOMAIN L : L2[e] = L[e]) /\ (y # a => L2[y] = L[x] + 1)
  <2>1. CASE y = a
    BY <1>2, <2>1 DEF Further
  <2>2. CASE y # a
    <3>1. y \notin DOMAIN L
      BY <1>2, <2>2
    <3> QED BY <2>2, <3>1 DEF Assign, Further
  <2> QED BY <2>1, <2>2
<1>4. PICK n \in Nat : n = Cardinality(DOMAIN vis)
  BY FS_CardinalityType DEF Levels
<1>5. IsFiniteSet(DOMAIN vis2) /\ Cardinality(DOMAIN vis2) = n + 1
  <2>1. PICK D : D = DOMAIN vis
    OBVIOUS
  <2>2. IsFiniteSet(D) /\ y \notin D
    BY <2>1 DEF Levels
  <2>3. IsFiniteSet(D \cup {y}) /\ Cardinality(D \cup {y}) = Cardinality(D) + 1
    BY <2>2, FS_AddElement
  <2> QED BY <1>1, <1>4, <2>1, <2>3
<1>6. \A e \in DOMAIN L : L[e] \in Nat /\ L[e] <= n
  BY <1>4 DEF Levels
<1>7. \A e \in DOMAIN L2 : L2[e] \in Nat /\ L2[e] <= n + 1
  <2>1. \A e \in DOMAIN L : L2[e] \in Nat /\ L2[e] <= n + 1
    BY <1>3, <1>6
  <2>2. y # a => L2[y] \in Nat /\ L2[y] <= n + 1
    BY <1>3, <1>6
  <2>3. y = a => y \in DOMAIN L
    BY <1>2
  <2> QED BY <1>3, <2>1, <2>2, <2>3
<1>8. ASSUME NEW e \in DOMAIN vis2 \ {a} PROVE vis2[e] \in DOMAIN L2 /\ L2[e] = L2[vis2[e]] + 1
  <2>1. CASE e = y
    BY <1>1, <1>3, <1>8, <2>1
  <2>2. CASE e # y
    <3>1. e \in DOMAIN vis \ {a} /\ e \in DOMAIN L /\ vis2[e] = vis[e] /\ vis[e] \in DOMAIN L
      BY <1>1, <1>2, <1>8, <2>2
    <3> QED BY <1>2, <1>3, <3>1
  <2> QED BY <2>1, <2>2
<1>9. DOMAIN L2 = DOMAIN vis2 \cup {a} /\ L2[a] = 0
  BY <1>1, <1>2, <1>3
<1>10. Levels(a, vis2, L2)
  BY <1>5, <1>7, <1>8, <1>9 DEF Levels
<1> QED BY <1>1, <1>3, <1>10 DEF OneFurther

LEMMA OrderedGrow ==
  ASSUME NEW it, NEW a, NEW d \in Nat, NEW q \in Seq(Hops), q # <<>>, NEW vis, NEW L, NEW h \in Nat,
         q[1].depth = h, h < d, Levels(a, vis, L), Queued(q, L), Ordered(it, a, d, q, vis, L),
         NEW y \in RelNodes, NEW r, r = Behind(q, y, h + 1),
         NEW vis2, NEW L2, OneFurther(vis, L, vis2, L2, y), y = a \/ L2[y] = h + 1
  PROVE  Queued(r, L2) /\ Ordered(it, a, d, r, vis2, L2)
<1>0. PICK n \in Nat : n = Len(q)
  OBVIOUS
<1>1. /\ r \in Seq(Hops) /\ Len(r) = n + 1 /\ r # <<>>
      /\ \A k \in 1 .. n : r[k] = q[k]
      /\ r[n + 1].node = y /\ r[n + 1].depth = h + 1
      /\ \A k \in 1 .. n + 1 : r[k].depth \in Nat /\ (k \in 1 .. n \/ k = n + 1)
  <2>1. h + 1 \in Nat
    OBVIOUS
  <2> QED BY <1>0, <2>1, QueueGrows
<1>2. 1 \in 1 .. n /\ r[1].depth = h
  BY <1>0, <1>1
<1>3. /\ a \in DOMAIN L /\ \A e \in DOMAIN L : L[e] \in Nat
      /\ \A e \in DOMAIN vis : e \in DOMAIN L
  BY DEF Levels
<1>9. /\ DOMAIN L2 = DOMAIN L \cup {y} /\ DOMAIN vis2 = DOMAIN vis \cup {y}
      /\ \A e \in DOMAIN L : L2[e] = L[e]
  BY DEF OneFurther
<1>4. Queued(r, L2)
  BY <1>0, <1>1, <1>9 DEF Queued
<1>5. Rising(r)
  <2>1. \A k \in 1 .. n : q[k].depth <= h + 1 /\ q[k].depth \in Nat
    BY <1>0, <1>1, <1>2 DEF Ordered, Rising
  <2>2. ASSUME NEW k \in 1 .. n + 1, NEW l \in 1 .. n + 1
        PROVE  (k <= l => r[k].depth <= r[l].depth) /\ r[l].depth <= r[1].depth + 1
    <3>1. CASE l = n + 1
      BY <1>1, <1>2, <2>1, <3>1
    <3>2. CASE l \in 1 .. n /\ k \in 1 .. n
      BY <1>0, <1>1, <1>2, <2>1, <3>2 DEF Ordered, Rising
    <3>3. CASE l \in 1 .. n /\ k = n + 1
      BY <1>1, <1>2, <2>1, <3>3
    <3> QED BY <1>1, <3>1, <3>2, <3>3
  <2> QED BY <1>1, <2>2 DEF Rising
<1>6. Exact(a, r, L2)
  BY <1>0, <1>1, <1>9 DEF Ordered, Exact, Queued
<1>7. Frontier(it, d, r, vis2, L2)
  <2> SUFFICES ASSUME NEW e \in DOMAIN L2
               PROVE  L2[e] <= d /\ (L2[e] < d => Expanded(it, vis2, L2, e) \/ Awaits(r, L2, e))
    BY DEF Frontier
  <2>1. CASE e \in DOMAIN L
    <3>1. L2[e] = L[e] /\ L[e] <= d /\ (L[e] < d => Expanded(it, vis, L, e) \/ Awaits(q, L, e))
      BY <1>9, <2>1 DEF Ordered, Frontier
    <3>2. ASSUME Expanded(it, vis, L, e) PROVE Expanded(it, vis2, L2, e)
      BY <1>3, <1>9, <3>1, <3>2 DEF Expanded
    <3>3. ASSUME Awaits(q, L, e) PROVE Awaits(r, L2, e)
      <4>1. PICK k \in 1 .. n : q[k].node = e /\ q[k].depth = L[e]
        BY <1>0, <3>3 DEF Awaits
      <4>2. k \in 1 .. Len(r) /\ r[k].node = e /\ r[k].depth = L2[e]
        BY <1>1, <3>1, <4>1
      <4> QED BY <4>2 DEF Awaits
    <3> QED BY <3>1, <3>2, <3>3
  <2>2. CASE e \notin DOMAIN L
    <3>1. e = y /\ L2[e] = h + 1
      BY <1>3, <1>9, <2>2
    <3>2. n + 1 \in 1 .. Len(r)
      BY <1>1
    <3>3. Awaits(r, L2, e)
      BY <1>1, <3>1, <3>2 DEF Awaits
    <3> QED BY <3>1, <3>3
  <2> QED BY <2>1, <2>2
<1>8. NearHead(r, L2)
  <2>1. \A e \in DOMAIN L : L[e] <= h + 1
    BY DEF Ordered, NearHead
  <2>2. \A e \in DOMAIN L2 : L2[e] <= h + 1
    BY <1>3, <1>9, <2>1
  <2> QED BY <1>2, <2>2 DEF NearHead
<1> QED BY <1>4, <1>5, <1>6, <1>7, <1>8 DEF Ordered

(* The head leaves the queue, expanded or too far away.                    *)
LEMMA TailIs ==
  ASSUME NEW q \in Seq(Hops), q # <<>>
  PROVE  /\ Tail(q) \in Seq(Hops) /\ Len(Tail(q)) = Len(q) - 1 /\ Len(q) \in Nat /\ Len(q) >= 1
         /\ \A k \in 1 .. Len(q) - 1 : Tail(q)[k] = q[k + 1]
         /\ \A k \in 1 .. Len(q) : q[k].depth \in Nat
<1>1. /\ Tail(q) \in Seq(Hops) /\ Len(Tail(q)) = Len(q) - 1 /\ Len(q) \in Nat /\ Len(q) >= 1
      /\ \A k \in 1 .. Len(q) - 1 : Tail(q)[k] = q[k + 1]
  OBVIOUS
<1>2. \A k \in 1 .. Len(q) : q[k] \in Hops
  OBVIOUS
<1> QED BY <1>1, <1>2 DEF Hops

LEMMA TailOrdered ==
  ASSUME NEW it, NEW a, NEW d \in Nat, NEW q \in Seq(Hops), q # <<>>, NEW vis, NEW L,
         Levels(a, vis, L), Queued(q, L), Ordered(it, a, d, q, vis, L),
         \A e \in DOMAIN L : L[e] < d /\ e = q[1].node /\ L[e] = q[1].depth => Expanded(it, vis, L, e)
  PROVE  Ordered(it, a, d, Tail(q), vis, L)
<1>0. PICK r : r = Tail(q)
  OBVIOUS
<1>1. PICK n \in Nat : n = Len(q) /\ r = Tail(q)
  BY <1>0, TailIs
<1>2. /\ Len(r) = n - 1 /\ n >= 1 /\ (\A k \in 1 .. n - 1 : r[k] = q[k + 1])
      /\ \A k \in 1 .. n : q[k].depth \in Nat
  BY <1>1, TailIs
<1>3. PICK h \in Nat : h = q[1].depth
  BY <1>2
<1>4. \A k \in 1 .. n - 1 : k + 1 \in 1 .. n /\ 1 \in 1 .. n - 1
  OBVIOUS
<1>5. \A k \in 1 .. n : h <= q[k].depth /\ q[k].depth <= h + 1
  BY <1>1, <1>2, <1>3 DEF Ordered, Rising
<1>6. Rising(r)
  <2>1. ASSUME NEW k \in 1 .. n - 1, NEW l \in 1 .. n - 1
        PROVE  (k <= l => r[k].depth <= r[l].depth) /\ r[l].depth <= r[1].depth + 1
    <3>1. r[k] = q[k + 1] /\ r[l] = q[l + 1] /\ r[1] = q[1 + 1] /\ 1 + 1 \in 1 .. n
          /\ k + 1 \in 1 .. n /\ l + 1 \in 1 .. n
      BY <1>2, <1>4
    <3>2. k <= l => q[k + 1].depth <= q[l + 1].depth
      BY <1>1, <3>1 DEF Ordered, Rising
    <3>3. q[l + 1].depth <= h + 1 /\ h <= q[1 + 1].depth /\ q[1 + 1].depth \in Nat /\ q[l + 1].depth \in Nat
      BY <1>2, <1>5, <3>1
    <3>4. r[l].depth \in Nat /\ r[1].depth \in Nat /\ r[l].depth <= h + 1 /\ h <= r[1].depth
      BY <3>1, <3>3
    <3>5. r[l].depth <= r[1].depth + 1
      BY <3>4
    <3>6. k <= l => r[k].depth <= r[l].depth
      BY <3>1, <3>2
    <3> QED BY <3>5, <3>6
  <2> QED BY <1>2, <2>1 DEF Rising
<1>7. Exact(a, r, L)
  <2>1. \A k \in 1 .. n : q[k].node = a \/ q[k].depth = L[q[k].node]
    BY <1>1 DEF Ordered, Exact
  <2> QED BY <1>2, <1>4, <2>1 DEF Exact
<1>8. Frontier(it, d, r, vis, L)
  <2> SUFFICES ASSUME NEW e \in DOMAIN L
               PROVE  L[e] <= d /\ (L[e] < d => Expanded(it, vis, L, e) \/ Awaits(r, L, e))
    BY DEF Frontier
  <2>1. L[e] <= d /\ (L[e] < d => Expanded(it, vis, L, e) \/ Awaits(q, L, e))
    BY DEF Ordered, Frontier
  <2>2. ASSUME L[e] < d, Awaits(q, L, e) PROVE Expanded(it, vis, L, e) \/ Awaits(r, L, e)
    <3>1. PICK k \in 1 .. n : q[k].node = e /\ q[k].depth = L[e]
      BY <1>1, <2>2 DEF Awaits
    <3>2. CASE k = 1
      BY <2>2, <3>1, <3>2
    <3>3. CASE k # 1
      <4>1. k - 1 \in 1 .. n - 1 /\ r[k - 1] = q[(k - 1) + 1] /\ (k - 1) + 1 = k
        BY <1>2, <3>3
      <4> QED BY <1>2, <3>1, <4>1 DEF Awaits
    <3> QED BY <3>2, <3>3
  <2> QED BY <2>1, <2>2
<1>9. NearHead(r, L)
  <2> SUFFICES ASSUME r # <<>>, NEW e \in DOMAIN L PROVE L[e] <= r[1].depth + 1
    BY DEF NearHead
  <2>1. n - 1 # 0
    BY <1>1, <1>2
  <2>2. r[1] = q[1 + 1] /\ 1 + 1 \in 1 .. n
    BY <1>2, <2>1
  <2>3. h <= r[1].depth /\ r[1].depth \in Nat
    BY <1>2, <1>5, <2>2
  <2>4. L[e] <= h + 1 /\ L[e] \in Nat
    BY <1>3 DEF Ordered, NearHead, Levels
  <2> QED BY <2>3, <2>4
<1>10. Ordered(it, a, d, r, vis, L)
  BY <1>6, <1>7, <1>8, <1>9 DEF Ordered
<1> QED BY <1>1, <1>10

(* What is expanded up to a distance is all there is within it.            *)
LEMMA WithinFound ==
  ASSUME NEW a, NEW vis, NEW L, Levels(a, vis, L), NEW n \in Nat,
         \A e \in DOMAIN L : L[e] < n => Expanded(items, vis, L, e)
  PROVE  Within(a, n) \subseteq DOMAIN L
<1>1. PICK f : f[0] = {a} /\ (\A k \in 1 .. n : f[k] = NextOf(f[k - 1])) /\ Within(a, n) = f[n]
  BY WithinIs
<1>0. /\ L[a] = 0 /\ a \in DOMAIN L /\ (\A e \in DOMAIN L : L[e] \in Nat)
      /\ \A e \in DOMAIN vis : e \in DOMAIN L
  BY DEF Levels
<1> DEFINE N == {k \in Nat : k <= n => \A e \in f[k] : e \in DOMAIN L /\ L[e] <= k}
<1>2. 0 \in N
  BY <1>0, <1>1
<1>3. ASSUME NEW k \in Nat, k \in N PROVE k + 1 \in N
  <2> SUFFICES ASSUME k + 1 <= n, NEW e \in f[k + 1] PROVE e \in DOMAIN L /\ L[e] <= k + 1
    OBVIOUS
  <2>1. k + 1 \in 1 .. n /\ (k + 1) - 1 = k
    OBVIOUS
  <2>2. f[k + 1] = NextOf(f[k])
    BY <1>1, <2>1
  <2>3. \A z \in f[k] : z \in DOMAIN L /\ L[z] <= k /\ L[z] \in Nat
    BY <1>0, <1>3
  <2>4. CASE e \in f[k]
    BY <2>3, <2>4
  <2>5. CASE e \notin f[k]
    <3>1. PICK i \in DOMAIN items : Source(items[i]) \in f[k] /\ e = Target(items[i])
      BY <2>2, <2>5 DEF NextOf
    <3>2. PICK z : z = Source(items[i])
      OBVIOUS
    <3>3. z \in DOMAIN L /\ L[z] <= k /\ L[z] \in Nat /\ L[z] < n
      BY <2>3, <3>1, <3>2
    <3>4. e \in DOMAIN vis /\ L[e] <= L[z] + 1
      BY <3>1, <3>2, <3>3 DEF Expanded
    <3>5. e \in DOMAIN L /\ L[e] \in Nat
      BY <1>0, <3>4
    <3> QED BY <3>3, <3>4, <3>5
  <2> QED BY <2>4, <2>5
<1> HIDE DEF N
<1>4. n \in N
  BY <1>2, <1>3, SetInduction
<1> QED BY <1>1, <1>4 DEF N

-----------------------------------------------------------------------------
(* The loop of find_path over the relationships of the entity at the head. *)
Traced(it, a, b, d, h, still, xs, n, s, L) ==
  /\ Levels(a, s.visited, L) /\ Queued(s.queue, L)
  /\ still => /\ Ordered(it, a, d, s.queue, s.visited, L)
              /\ b \in DOMAIN s.visited => L[b] = h + 1
              /\ b \notin DOMAIN s.visited =>
                   \A k \in 1 .. n : Target(xs[k]) \in DOMAIN s.visited /\ L[Target(xs[k])] <= h + 1
Loop(it, a, b, d, x, h, ok, still, xs, n, s) ==
  /\ s.queue \in Seq(Hops) /\ s.queue # <<>> /\ s.queue[1].node = x /\ s.queue[1].depth = h
  /\ ok => Edges(it, s.visited)
  /\ \E L : Traced(it, a, b, d, h, still, xs, n, s, L)

(* The head's distance is its depth, or all its neighbours are known.      *)
LEMMA HeadLevel ==
  ASSUME NEW it, NEW a, NEW d \in Nat, NEW q \in Seq(Hops), q # <<>>, NEW vis, NEW L, NEW h \in Nat,
         q[1].depth = h, h < d, Levels(a, vis, L), Queued(q, L), Ordered(it, a, d, q, vis, L)
  PROVE  /\ L[q[1].node] = h \/ Expanded(it, vis, L, q[1].node)
         /\ q[1].node \in DOMAIN L
<1>1. 1 \in 1 .. Len(q) /\ \A k \in 1 .. Len(q) : q[k].depth \in Nat
  BY TailIs
<1>2. q[1].node \in DOMAIN L
  BY <1>1 DEF Queued
<1>3. CASE q[1].node # a
  BY <1>1, <1>2, <1>3 DEF Ordered, Exact
<1>4. CASE q[1].node = a /\ h = 0
  BY <1>2, <1>4 DEF Levels
<1>5. CASE q[1].node = a /\ h # 0
  <2>1. L[a] = 0 /\ L[a] < d /\ a \in DOMAIN L
    BY DEF Levels
  <2>2. ~Awaits(q, L, a)
    <3> SUFFICES ASSUME NEW k \in 1 .. Len(q), q[k].depth = L[a] PROVE FALSE
      BY DEF Awaits
    <3>1. 1 <= k /\ q[1].depth <= q[k].depth
      BY <1>1 DEF Ordered, Rising
    <3> QED BY <1>5, <2>1, <3>1
  <2>3. Expanded(it, vis, L, a)
    BY <2>1, <2>2 DEF Ordered, Frontier
  <2> QED BY <1>2, <1>5, <2>3
<1> QED BY <1>3, <1>4, <1>5

LEMMA LoopStep ==
  ASSUME NEW it, NEW a, NEW b, a # b, NEW d \in Nat, NEW x, NEW h \in Nat, h < d, NEW ok, NEW still,
         NEW xs, NEW n \in Nat, NEW s, Loop(it, a, b, d, x, h, ok, still, xs, n, s),
         NEW i \in DOMAIN it, NEW z, z = it[i], z = xs[n + 1], Source(z) = x, Target(z) \in RelNodes,
         NEW j, j.to = b, j.queue[1].node = x, j.queue[1].depth = h, NEW r, r = Reach(s, j, z)
  PROVE  Loop(it, a, b, d, x, h, ok, still, xs, n + 1, r)
<1>1. PICK q, vis, y : q = s.queue /\ vis = s.visited /\ y = Target(z)
  OBVIOUS
<1>2. PICK L : Traced(it, a, b, d, h, still, xs, n, s, L)
  BY DEF Loop
<1>3. q \in Seq(Hops) /\ q # <<>> /\ q[1].node = x /\ q[1].depth = h /\ (ok => Edges(it, vis))
  BY <1>1 DEF Loop
<1>4. Levels(a, vis, L) /\ Queued(q, L) /\ (still => Ordered(it, a, d, q, vis, L))
  BY <1>1, <1>2 DEF Traced
<1>5. /\ a \in DOMAIN L /\ L[a] = 0 /\ (\A e \in DOMAIN L : L[e] \in Nat)
      /\ \A e \in DOMAIN vis : e \in DOMAIN L
  BY <1>4 DEF Levels
<1>6. \A k \in 1 .. n + 1 : k \in 1 .. n \/ k = n + 1
  OBVIOUS
<1>7. CASE y \in DOMAIN vis \/ b \in DOMAIN vis
  <2>1. r = s
    BY <1>1, <1>7 DEF Reach
  <2>2. ASSUME still, b \notin DOMAIN vis, NEW k \in 1 .. n + 1
        PROVE  Target(xs[k]) \in DOMAIN vis /\ L[Target(xs[k])] <= h + 1
    <3>1. CASE k \in 1 .. n
      BY <1>1, <1>2, <2>2, <3>1 DEF Traced
    <3>2. CASE k = n + 1
      <4>1. y \in DOMAIN L /\ Target(xs[k]) = y /\ y \in DOMAIN vis
        BY <1>1, <1>5, <1>7, <2>2, <3>2
      <4>2. L[y] <= h + 1
        BY <1>3, <1>4, <2>2, <4>1 DEF Ordered, NearHead
      <4> QED BY <4>1, <4>2
    <3> QED BY <1>6, <3>1, <3>2
  <2>3. Traced(it, a, b, d, h, still, xs, n + 1, s, L)
    BY <1>1, <1>2, <2>2 DEF Traced
  <2> QED BY <2>1, <2>3 DEF Loop
<1>8. CASE y \notin DOMAIN vis /\ b \notin DOMAIN vis
  <2>1. PICK vis2, q2, L2 : /\ vis2 = Assign(vis, y, x) /\ q2 = Behind(q, y, h + 1)
                            /\ L2 = Further(a, L, y, x)
    OBVIOUS
  <2>2. r = [visited |-> vis2, queue |-> q2]
    BY <1>1, <1>8, <2>1 DEF Reach, Behind
  <2>3. r.visited = vis2 /\ r.queue = q2
    BY <2>2
  <2>4. x \in DOMAIN L
    <3>1. 1 \in 1 .. Len(q)
      BY <1>3, TailIs
    <3> QED BY <1>3, <1>4, <3>1 DEF Queued
  <2>5. /\ Levels(a, vis2, L2) /\ DOMAIN L2 = DOMAIN L \cup {y} /\ DOMAIN vis2 = DOMAIN vis \cup {y}
        /\ \A e \in DOMAIN L : L2[e] = L[e]
        /\ y # a => L2[y] = L[x] + 1
        /\ vis2[y] = x /\ \A e \in DOMAIN vis : vis2[e] = vis[e]
    <3>1. /\ Levels(a, vis2, L2) /\ OneFurther(vis, L, vis2, L2, y) /\ vis2[y] = x
          /\ y # a => L2[y] = L[x] + 1
      BY <1>4, <1>8, <2>1, <2>4, LevelsGrow
    <3> QED BY <3>1 DEF OneFurther
  <2>6. /\ q2 \in Seq(Hops) /\ q2 # <<>> /\ q2[1] = q[1] /\ Queued(q2, L2)
    <3>0. h + 1 \in Nat /\ y \in RelNodes /\ 1 \in 1 .. Len(q)
      BY <1>1, <1>3, TailIs
    <3>1. /\ q2 \in Seq(Hops) /\ Len(q2) = Len(q) + 1 /\ q2 # <<>>
          /\ \A k \in 1 .. Len(q) : q2[k] = q[k]
          /\ q2[Len(q) + 1].node = y
          /\ \A k \in 1 .. Len(q2) : k \in 1 .. Len(q) \/ k = Len(q) + 1
      BY <1>3, <2>1, <3>0, QueueGrows
    <3>2. Queued(q2, L2)
      BY <1>4, <2>5, <3>1 DEF Queued
    <3> QED BY <3>0, <3>1, <3>2
  <2>7. ok => Edges(it, vis2)
    <3>1. LinkIn(it, x, y)
      BY <1>1 DEF LinkIn
    <3> QED BY <1>3, <2>5, <3>1 DEF Edges
  <2>8. ASSUME still
        PROVE  /\ Ordered(it, a, d, q2, vis2, L2)
               /\ b \in DOMAIN vis2 => L2[b] = h + 1
               /\ \A k \in 1 .. n + 1 : Target(xs[k]) \in DOMAIN vis2 /\ L2[Target(xs[k])] <= h + 1
    <3>1. L[x] = h
      <4>1. L[q[1].node] = h \/ Expanded(it, vis, L, q[1].node)
        BY <1>3, <1>4, <2>8, HeadLevel
      <4>2. ~Expanded(it, vis, L, x)
        BY <1>1, <1>8 DEF Expanded
      <4> QED BY <1>3, <4>1, <4>2
    <3>2. y = a \/ L2[y] = h + 1
      BY <2>5, <3>1
    <3>3. Ordered(it, a, d, q2, vis2, L2)
      <4>1. y \in RelNodes
        BY <1>1
      <4>2. OneFurther(vis, L, vis2, L2, y)
        BY <2>5 DEF OneFurther
      <4> QED BY <1>3, <1>4, <2>1, <2>8, <3>2, <4>1, <4>2, OrderedGrow
    <3>4. b \in DOMAIN vis2 => L2[b] = h + 1
      BY <1>8, <2>5, <3>2
    <3>5. ASSUME NEW k \in 1 .. n + 1 PROVE Target(xs[k]) \in DOMAIN vis2 /\ L2[Target(xs[k])] <= h + 1
      <4>1. CASE k \in 1 .. n
        <5>1. Target(xs[k]) \in DOMAIN vis /\ L[Target(xs[k])] <= h + 1
          BY <1>1, <1>2, <1>8, <2>8, <4>1 DEF Traced
        <5> QED BY <1>5, <2>5, <5>1
      <4>2. CASE k = n + 1
        <5>1. Target(xs[k]) = y /\ y \in DOMAIN vis2
          BY <1>1, <2>5, <4>2
        <5>2. L2[y] <= h + 1
          BY <1>5, <2>5, <3>2
        <5> QED BY <5>1, <5>2
      <4> QED BY <1>6, <4>1, <4>2
    <3> QED BY <3>3, <3>4, <3>5
  <2>9. Traced(it, a, b, d, h, still, xs, n + 1, r, L2)
    BY <2>3, <2>5, <2>6, <2>8 DEF Traced
  <2> QED BY <1>3, <2>3, <2>6, <2>7, <2>9 DEF Loop
<1> QED BY <1>7, <1>8

ReachBy(f, j, xs, n) ==
  f = [k \in 0 .. n |-> IF k = 0 THEN [visited |-> j.visited, queue |-> j.queue]
                        ELSE Reach(f[k - 1], j, xs[k])]

LEMMA ReachExists ==
  ASSUME NEW j, NEW xs, NEW n \in Nat
  PROVE  \E f : ReachBy(f, j, xs, n)
<1> DEFINE N == {m \in Nat : \E f : ReachBy(f, j, xs, m)}
<1>0. PICK z : z = [visited |-> j.visited, queue |-> j.queue]
  OBVIOUS
<1>1. 0 \in N
  <2>1. ReachBy([k \in 0 .. 0 |-> z], j, xs, 0)
    BY <1>0 DEF ReachBy
  <2> QED BY <2>1
<1>2. ASSUME NEW m \in Nat, m \in N PROVE m + 1 \in N
  <2>1. PICK g : ReachBy(g, j, xs, m)
    BY <1>2
  <2>2. \A k \in 0 .. m : g[k] = IF k = 0 THEN z ELSE Reach(g[k - 1], j, xs[k])
    BY <1>0, <2>1, Zenon DEF ReachBy
  <2> DEFINE f == [k \in 0 .. m + 1 |-> IF k = m + 1 THEN Reach(g[m], j, xs[m + 1]) ELSE g[k]]
  <2>3. ASSUME NEW k \in 0 .. m + 1 PROVE f[k] = IF k = 0 THEN z ELSE Reach(f[k - 1], j, xs[k])
    <3>1. CASE k = m + 1
      <4>1. f[k] = Reach(g[m], j, xs[k]) /\ k # 0 /\ k - 1 = m /\ f[m] = g[m]
        BY <3>1
      <4> HIDE DEF f
      <4> QED BY <4>1
    <3>2. CASE k # m + 1
      <4>1. k \in 0 .. m /\ f[k] = g[k]
        BY <3>2
      <4>2. k # 0 => f[k - 1] = g[k - 1]
        BY <3>2
      <4> HIDE DEF f
      <4> QED BY <2>2, <4>1, <4>2
    <3> QED BY <3>1, <3>2
  <2>4. f = [k \in 0 .. m + 1 |-> f[k]]
    OBVIOUS
  <2> HIDE DEF f
  <2>5. ReachBy(f, j, xs, m + 1)
    BY <1>0, <2>3, <2>4, Zenon DEF ReachBy
  <2> QED BY <2>5
<1> HIDE DEF N
<1>3. n \in N
  BY <1>1, <1>2, SetInduction
<1> QED BY <1>3 DEF N

Sound(it, x, xs) ==
  \A k \in 1 .. Len(xs) : Source(xs[k]) = x /\ Target(xs[k]) \in RelNodes /\ \E i \in DOMAIN it : xs[k] = it[i]

LEMMA LoopHolds ==
  ASSUME NEW it, NEW a, NEW b, a # b, NEW d \in Nat, NEW x, NEW h \in Nat, h < d, NEW ok, NEW still,
         NEW xs, Len(xs) \in Nat, Sound(it, x, xs),
         NEW j, j.to = b, j.queue[1].node = x, j.queue[1].depth = h,
         Loop(it, a, b, d, x, h, ok, still, xs, 0, [visited |-> j.visited, queue |-> j.queue])
  PROVE  Loop(it, a, b, d, x, h, ok, still, xs, Len(xs), Reached(j, xs))
<1>0. PICK m \in Nat : m = Len(xs)
  OBVIOUS
<1>1. PICK z : z = [visited |-> j.visited, queue |-> j.queue]
  OBVIOUS
<1> DEFINE after == CHOOSE f : ReachBy(f, j, xs, m)
           N == {n \in Nat : n <= m => Loop(it, a, b, d, x, h, ok, still, xs, n, after[n])}
<1>2. ReachBy(after, j, xs, m)
  BY ReachExists, Zenon
<1>3. Reached(j, xs) = after[m]
  BY <1>0 DEF Reached, ReachBy
<1> HIDE DEF after
<1>4. \A k \in 0 .. m : after[k] = IF k = 0 THEN z ELSE Reach(after[k - 1], j, xs[k])
  BY <1>1, <1>2, Zenon DEF ReachBy
<1>5. 0 \in N
  <2>1. 0 \in 0 .. m
    OBVIOUS
  <2>2. after[0] = z
    BY <1>4, <2>1
  <2> QED BY <1>1, <2>2
<1>6. ASSUME NEW n \in Nat, n \in N PROVE n + 1 \in N
  <2> SUFFICES ASSUME n + 1 <= m PROVE Loop(it, a, b, d, x, h, ok, still, xs, n + 1, after[n + 1])
    OBVIOUS
  <2>1. n + 1 \in 0 .. m /\ n + 1 # 0 /\ (n + 1) - 1 = n /\ n + 1 \in 1 .. Len(xs) /\ n <= m
    BY <1>0
  <2>2. PICK s, r, y : s = after[n] /\ r = after[n + 1] /\ y = xs[n + 1]
    OBVIOUS
  <2>3. r = Reach(s, j, y)
    BY <1>4, <2>1, <2>2
  <2>4. Source(y) = x /\ Target(y) \in RelNodes /\ \E i \in DOMAIN it : y = it[i]
    BY <2>1, <2>2 DEF Sound
  <2>5. PICK i \in DOMAIN it : y = it[i]
    BY <2>4
  <2>6. Loop(it, a, b, d, x, h, ok, still, xs, n, s)
    BY <1>6, <2>1, <2>2
  <2>7. Loop(it, a, b, d, x, h, ok, still, xs, n + 1, r)
    BY <2>2, <2>3, <2>4, <2>5, <2>6, LoopStep
  <2> QED BY <2>2, <2>7
<1> HIDE DEF N
<1>7. m \in N
  BY <1>5, <1>6, SetInduction
<1> QED BY <1>0, <1>3, <1>7 DEF N

-----------------------------------------------------------------------------
(* What a thread in find_path relies on.                                   *)
SearchOK(it, j, cm) ==
  /\ j.from # j.to /\ j.depth \in Nat /\ j.queue \in Seq(Hops) /\ j.to \notin DOMAIN j.visited
  /\ cm # "wiped" => Edges(it, j.visited)
  /\ \E L : /\ Levels(j.from, j.visited, L) /\ Queued(j.queue, L)
            /\ cm = "still" => Ordered(it, j.from, j.depth, j.queue, j.visited, L)
FromNode(ids, x) == \A k \in 1 .. Len(ids) : \A y \in Rels : y.id = ids[k] => Source(y) = x
AllIn(it, x, ids) == \A i \in DOMAIN it : Source(it[i]) = x => \E k \in 1 .. Len(ids) : ids[k] = i
VisitOK(it, j, cm) ==
  /\ j.queue # <<>> /\ j.queue[1].depth < j.depth /\ j.ids \in Seq(IdsOf("relationship"))
  /\ FromNode(j.ids, j.queue[1].node)
  /\ cm = "still" => AllIn(it, j.queue[1].node, j.ids)
AllFiled(it, f) == \A i \in DOMAIN it : i \in ToSet(f["from"][Source(it[i])])
SearchForm(j) ==
  j = [at |-> "search", from |-> j.from, to |-> j.to, depth |-> j.depth,
       queue |-> j.queue, visited |-> j.visited]

WithinOf(it, a, n) ==
  LET near[k \in 0..n] ==
        IF k = 0 THEN {a}
        ELSE near[k - 1] \cup {Target(it[i]) : i \in {y \in DOMAIN it : Source(it[y]) \in near[k - 1]}}
  IN  near[n]
PathOK(it, j, cm) ==
  /\ cm # "wiped" => \A k \in 1 .. Len(j.path) - 1 : LinkIn(it, j.path[k], j.path[k + 1])
  /\ cm = "still" =>
       IF j.path = <<>> THEN j.to \notin WithinOf(it, j.from, j.depth)
       ELSE /\ Len(j.path) - 1 <= j.depth
            /\ Len(j.path) - 1 > 0 => j.to \notin WithinOf(it, j.from, Len(j.path) - 1 - 1)

WalkOK(c, it, f, j, cm) ==
  /\ j.at \in {"search", "visit"} =>
       c = "relationship" /\ SearchOK(it, j, cm) /\ (cm = "still" => AllFiled(it, f))
  /\ j.at = "search" => SearchForm(j)
  /\ j.at = "visit" => VisitOK(it, j, cm)
  /\ j.at = "path" => c = "relationship" /\ PathOK(it, j, cm)
CartWalks == \A t \in CartTask : WalkOK(cartridge, items, index, cjob[t], calm[t])

LEMMA WithinSame == ASSUME NEW a, NEW n PROVE Within(a, n) = WithinOf(items, a, n)
BY DEF Within, WithinOf

LEMMA WalksIs == CartWalks => PathsRight
<1> SUFFICES ASSUME CartWalks, NEW t \in CartTask, cjob[t].at = "path"
             PROVE  LET j == cjob[t]  hops == Len(j.path) - 1 IN
                    /\ calm[t] # "wiped" => \A k \in 1..hops : Linked(j.path[k], j.path[k + 1])
                    /\ calm[t] = "still" =>
                         IF j.path = <<>> THEN j.to \notin Within(j.from, j.depth)
                         ELSE /\ hops <= j.depth
                              /\ hops > 0 => j.to \notin Within(j.from, hops - 1)
  BY DEF PathsRight
<1>1. PathOK(items, cjob[t], calm[t])
  BY DEF CartWalks, WalkOK
<1>2. \A a, b : Linked(a, b) <=> LinkIn(items, a, b)
  BY DEF Linked, LinkIn
<1>3. \A a, n : Within(a, n) = WithinOf(items, a, n)
  BY WithinSame
<1> QED BY <1>1, <1>2, <1>3 DEF PathOK

(* What other threads may do meanwhile.                                    *)
Drifts(it, f, cm, it2, f2, cm2) ==
  /\ cm2 = "still" => cm = "still" /\ it2 = it /\ f2 = f
  /\ cm2 # "wiped" => cm # "wiped" /\ \A a, b : LinkIn(it, a, b) => LinkIn(it2, a, b)

LEMMA DriftsOK ==
  ASSUME NEW c, NEW it, NEW f, NEW j, NEW cm, NEW it2, NEW f2, NEW cm2, WalkOK(c, it, f, j, cm),
         j.at \in {"search", "visit", "path"} => Drifts(it, f, cm, it2, f2, cm2)
  PROVE  WalkOK(c, it2, f2, j, cm2)
<1>1. CASE j.at \notin {"search", "visit", "path"}
  BY <1>1 DEF WalkOK
<1>2. CASE j.at \in {"search", "visit"}
  <2>1. /\ c = "relationship" /\ SearchOK(it, j, cm) /\ (cm = "still" => AllFiled(it, f))
        /\ j.at = "search" => SearchForm(j)
        /\ j.at = "visit" => VisitOK(it, j, cm)
    BY <1>2 DEF WalkOK
  <2>2. Drifts(it, f, cm, it2, f2, cm2)
    BY <1>2
  <2>3. SearchOK(it2, j, cm2)
    <3>1. cm2 # "wiped" => Edges(it2, j.visited)
      BY <2>1, <2>2 DEF SearchOK, Drifts, Edges
    <3>2. PICK L : /\ Levels(j.from, j.visited, L) /\ Queued(j.queue, L)
                   /\ cm = "still" => Ordered(it, j.from, j.depth, j.queue, j.visited, L)
      BY <2>1 DEF SearchOK
    <3>3. cm2 = "still" => Ordered(it2, j.from, j.depth, j.queue, j.visited, L)
      BY <2>2, <3>2 DEF Drifts
    <3> QED BY <2>1, <3>1, <3>2, <3>3 DEF SearchOK
  <2>4. cm2 = "still" => AllFiled(it2, f2)
    BY <2>1, <2>2 DEF Drifts
  <2>5. j.at = "visit" => VisitOK(it2, j, cm2)
    BY <2>1, <2>2 DEF Drifts, VisitOK
  <2> QED BY <1>2, <2>1, <2>3, <2>4, <2>5 DEF WalkOK
<1>3. CASE j.at = "path"
  <2>1. c = "relationship" /\ PathOK(it, j, cm) /\ Drifts(it, f, cm, it2, f2, cm2)
    BY <1>3 DEF WalkOK
  <2>2. PathOK(it2, j, cm2)
    BY <2>1 DEF PathOK, Drifts
  <2> QED BY <1>3, <2>1, <2>2 DEF WalkOK
<1> QED BY <1>1, <1>2, <1>3

(* A step of thread t: the others' searches stay right if the step drifts. *)
LEMMA CartWalksStep ==
  ASSUME CartWalks, cartridge' = cartridge, NEW t \in CartTask, NEW j, Now(t, j),
         WalkOK(cartridge, items', index', j, calm'[t]),
         \A u \in CartTask \ {t} : cjob[u].at \in {"search", "visit", "path"} =>
            Drifts(items, index, calm[u], items', index', calm'[u])
  PROVE  CartWalks'
<1>1. ASSUME NEW u \in CartTask PROVE WalkOK(cartridge, items', index', cjob'[u], calm'[u])
  <2>1. CASE u = t
    BY <2>1 DEF Now
  <2>2. CASE u # t
    <3>1. PICK c, it, f, k, cm, it2, f2, cm2 :
            /\ c = cartridge /\ it = items /\ f = index /\ k = cjob[u] /\ cm = calm[u]
            /\ it2 = items' /\ f2 = index' /\ cm2 = calm'[u]
      OBVIOUS
    <3>2. WalkOK(c, it, f, k, cm)
      BY <3>1 DEF CartWalks
    <3>3. k.at \in {"search", "visit", "path"} => Drifts(it, f, cm, it2, f2, cm2)
      BY <2>2, <3>1
    <3>4. WalkOK(c, it2, f2, k, cm2)
      BY <3>2, <3>3, DriftsOK
    <3>5. cjob'[u] = k
      BY <2>2, <3>1 DEF Now
    <3> QED BY <3>1, <3>4, <3>5
  <2> QED BY <2>1, <2>2
<1> QED BY <1>1 DEF CartWalks

LEMMA ElseWhere ==
  ASSUME NEW c, NEW it, NEW f, NEW j, NEW cm, j.at \notin {"search", "visit", "path"}
  PROVE  WalkOK(c, it, f, j, cm)
BY DEF WalkOK

LEMMA MetDrifts ==
  ASSUME NEW w \in {"moved", "wiped"}, Met(w), NEW u \in CartTask, cjob[u].at \in {"search", "visit", "path"},
         w # "wiped" => \A a, b : LinkIn(items, a, b) => LinkIn(items', a, b)
  PROVE  Drifts(items, index, calm[u], items', index', calm'[u])
<1>1. calm'[u] = IF calm[u] # "wiped" THEN w ELSE calm[u]
  BY DEF Met
<1> QED BY <1>1 DEF Drifts

LEMMA ReadsDrifts ==
  ASSUME NEW t \in CartTask, NEW j, Reads(t, j), NEW u \in CartTask \ {t}
  PROVE  Drifts(items, index, calm[u], items', index', calm'[u])
BY DEF Reads, Drifts

(* An insertion keeps the links.                                           *)
LEMMA InsertLinks ==
  ASSUME CartTypes, cartridge = "relationship", NEW x \in Insertable, items' = Assign(items, x.id, x),
         NEW a, NEW b, LinkIn(items, a, b)
  PROVE  LinkIn(items', a, b)
<1>1. PICK i \in DOMAIN items : Source(items[i]) = a /\ Target(items[i]) = b
  BY DEF LinkIn
<1>2. i \in DOMAIN items' /\ items'[i] = IF i = x.id THEN x ELSE items[i]
  BY DEF Assign
<1>3. items[i] \in Rels /\ items[i].id = i /\ x \in Rels
  BY DEF CartTypes, ItemsOK, Rels, Insertable
<1>4. i = x.id => items[i].keys["from"] = x.keys["from"] /\ items[i].keys["to"] = x.keys["to"]
  BY <1>3, CartAssumption DEF Rels
<1>5. Source(items'[i]) = a /\ Target(items'[i]) = b
  BY <1>1, <1>2, <1>4 DEF Source, Target
<1> QED BY <1>2, <1>5 DEF LinkIn

LEMMA WritesWalk ==
  ASSUME CartTypes, CartWalks, NEW t \in CartTask,
         InsertItem(t) \/ InsertNext(t) \/ Wipe(t) \/ ClearNext(t)
  PROVE  CartWalks'
<1>1. CASE InsertItem(t)
  <2>1. PICK x \in Insertable : /\ items' = Assign(items, x.id, x)
                                /\ Goes(t, [at |-> "insert", item |-> x, pos |-> 1])
    BY <1>1 DEF InsertItem
  <2>2. PICK j : j = [at |-> "insert", item |-> x, pos |-> 1]
    OBVIOUS
  <2>3. Now(t, j) /\ j.at = "insert" /\ cartridge' = cartridge /\ Met("moved")
    BY <1>1, <2>1, <2>2, GoesNow DEF InsertItem, Call
  <2>4. WalkOK(cartridge, items', index', j, calm'[t])
    BY <2>3, ElseWhere
  <2>5. ASSUME NEW u \in CartTask \ {t}, cjob[u].at \in {"search", "visit", "path"}
        PROVE  Drifts(items, index, calm[u], items', index', calm'[u])
    <3>1. cartridge = "relationship"
      BY <2>5 DEF CartWalks, WalkOK
    <3>2. \A a, b : LinkIn(items, a, b) => LinkIn(items', a, b)
      BY <2>1, <3>1, InsertLinks
    <3> QED BY <2>3, <2>5, <3>2, MetDrifts
  <2> QED BY <2>3, <2>4, <2>5, CartWalksStep
<1>2. CASE InsertNext(t) \/ ClearNext(t)
  <2>1. PICK j : j = After(cjob[t])
    OBVIOUS
  <2>2. Goes(t, j) /\ cartridge' = cartridge /\ items' = items /\ Met("moved")
    BY <1>2, <2>1 DEF InsertNext, ClearNext
  <2>3. Now(t, j)
    BY <2>2, GoesNow
  <2>4. cjob[t] \in InsertJob(cartridge) \/ cjob[t] \in ClearJob(cartridge)
    BY <1>2 DEF InsertNext, ClearNext, CartTypes, Jobs, JobOK
  <2>5. j.at \in {"idle", "insert", "clear"}
    <3>1. cjob[t].at \in {"insert", "clear"}
      BY <1>2 DEF InsertNext, ClearNext
    <3> QED BY <2>1, <2>4, <3>1, AfterIs, IdleOK
  <2>6. WalkOK(cartridge, items', index', j, calm'[t])
    BY <2>5, ElseWhere
  <2>7. ASSUME NEW u \in CartTask \ {t}, cjob[u].at \in {"search", "visit", "path"}
        PROVE  Drifts(items, index, calm[u], items', index', calm'[u])
    BY <2>2, <2>7, MetDrifts
  <2> QED BY <2>2, <2>3, <2>6, <2>7, CartWalksStep
<1>3. CASE Wipe(t)
  <2>1. PICK j : j = [at |-> "clear", pos |-> 1]
    OBVIOUS
  <2>2. Now(t, j) /\ j.at = "clear" /\ cartridge' = cartridge /\ Met("wiped")
    BY <1>3, <2>1, GoesNow DEF Wipe, Call
  <2>3. WalkOK(cartridge, items', index', j, calm'[t])
    BY <2>2, ElseWhere
  <2>4. ASSUME NEW u \in CartTask \ {t}, cjob[u].at \in {"search", "visit", "path"}
        PROVE  Drifts(items, index, calm[u], items', index', calm'[u])
    BY <2>2, <2>4, MetDrifts
  <2> QED BY <2>2, <2>3, <2>4, CartWalksStep
<1> QED BY <1>1, <1>2, <1>3

LEMMA ReadsWalk ==
  ASSUME CartTypes, CartWalks, NEW t \in CartTask, NEW j, Reads(t, j),
         WalkOK(cartridge, items, index, j, calm'[t])
  PROVE  CartWalks'
<1>1. /\ cartridge' = cartridge /\ items' = items /\ index' = index /\ Now(t, j)
      /\ \A u \in CartTask \ {t} : calm'[u] = calm[u]
  BY DEF Reads
<1>2. WalkOK(cartridge, items', index', j, calm'[t])
  BY <1>1
<1>3. \A u \in CartTask \ {t} : Drifts(items, index, calm[u], items', index', calm'[u])
  BY <1>1 DEF Drifts
<1> QED BY <1>1, <1>2, <1>3, CartWalksStep

-----------------------------------------------------------------------------
LEMMA NodesIs ==
  ASSUME cartridge = "relationship"
  PROVE  Entities = RelNodes
<1>1. Insertable = Rels
  BY DEF Insertable, Rels
<1>2. Asked("from") = UNION {ToSet(x.keys["from"]) : x \in Rels}
  BY <1>1 DEF Asked
<1>3. Asked("to") = UNION {ToSet(x.keys["to"]) : x \in Rels}
  BY <1>1 DEF Asked
<1> QED BY <1>2, <1>3 DEF Entities, RelNodes

(* A relationship is filed under the entity it leads from, and there only. *)
LEMMA RelEnds ==
  ASSUME NEW x \in Rels
  PROVE  /\ Target(x) \in RelNodes /\ Source(x) \in StoredOf("relationship", "from")
         /\ \A v : FiledUnder("from", x, v) # {} => Source(x) = v
<1>1. "relationship" \in DOMAIN Indexes /\ "from" \in Slots("relationship") /\ "to" \in Slots("relationship")
  <2>1. PICK s : s = Indexes["relationship"] /\ s = <<"from", "to", "type", "commit">>
    BY DEF Indexes
  <2>2. Len(s) = 4 /\ DOMAIN s = 1 .. 4 /\ s[1] = "from" /\ s[2] = "to"
    BY <2>1
  <2>3. "relationship" \in DOMAIN Indexes
    BY DEF Indexes
  <2> QED BY <2>1, <2>2, <2>3 DEF Slots, ToSet
<1>2. Len(x.keys["from"]) = 1 /\ Len(x.keys["to"]) = 1
  BY CartAssumption DEF Rels
<1>3. x.keys["from"] \in Seq(ToSet(x.keys["from"])) /\ x.keys["to"] \in Seq(ToSet(x.keys["to"]))
  BY <1>1, ItemKeys DEF Rels
<1>4. DOMAIN x.keys["from"] = {1} /\ Source(x) \in ToSet(x.keys["from"]) /\ Target(x) \in ToSet(x.keys["to"])
  BY <1>2, <1>3 DEF Source, Target
<1>5. Target(x) \in RelNodes
  <2>1. Target(x) \in UNION {ToSet(y.keys["to"]) : y \in Rels}
    BY <1>4
  <2> QED BY <2>1 DEF RelNodes
<1>6. Source(x) \in StoredOf("relationship", "from")
  <2>1. Folded("from", Source(x)) = Source(x)
    BY DEF Folded
  <2> QED BY <1>4, <2>1 DEF StoredOf, Rels
<1>7. ASSUME NEW v, FiledUnder("from", x, v) # {} PROVE Source(x) = v
  <2>1. PICK k \in DOMAIN x.keys["from"] : Filed("from", x)[k] = v
    BY <1>7 DEF FiledUnder
  <2>2. Filed("from", x)[1] = v /\ k = 1
    BY <1>4, <2>1
  <2> QED BY <1>4, <2>2 DEF Filed, Folded, Source
<1> QED BY <1>5, <1>6, <1>7

(* What the index of sources holds leads from that entity.                 *)
LEMMA IdsFromNode ==
  ASSUME CartTypes, CartCounted, cartridge = "relationship", NEW v
  PROVE  FromNode(Ids("from", v), v)
<1>0. "relationship" \in DOMAIN Indexes /\ "from" \in Slots("relationship")
  <2>1. PICK s : s = Indexes["relationship"] /\ s = <<"from", "to", "type", "commit">>
    BY DEF Indexes
  <2>2. Len(s) = 4 /\ DOMAIN s = 1 .. 4 /\ s[1] = "from"
    BY <2>1
  <2>3. "relationship" \in DOMAIN Indexes
    BY DEF Indexes
  <2> QED BY <2>1, <2>2, <2>3 DEF Slots, ToSet
<1>1. CASE v \notin DOMAIN index["from"]
  BY <1>1 DEF Ids, FromNode
<1>2. CASE v \in DOMAIN index["from"]
  <2>1. PICK s : s = index["from"][v]
    OBVIOUS
  <2>2. Ids("from", v) = s /\ s \in Seq(IdsOf("relationship")) /\ v \in StoredOf("relationship", "from")
    BY <1>0, <1>2, <2>1 DEF Ids, CartTypes, IndexOK
  <2> SUFFICES ASSUME NEW k \in 1 .. Len(s), NEW y \in Rels, y.id = s[k] PROVE Source(y) = v
    BY <2>2 DEF FromNode
  <2>3. PICK i, P, F : /\ i = s[k] /\ P = Coming("relationship", cjob, "from", v, i)
                       /\ F = Filing("relationship", puts, "from", v, i)
    OBVIOUS
  <2>4. Covers(s, P, F, i)
    BY <1>0, <2>1, <2>2, <2>3, OwedAt DEF CartCounted
  <2>5. PICK m : m = Only(s, {i})
    OBVIOUS
  <2>6. \E l \in 1 .. Len(m) : m[l] = i
    <3>1. PICK K : K = {i}
      OBVIOUS
    <3>2. i \in K /\ \E l \in 1 .. Len(s) : s[l] = i
      BY <2>3, <3>1
    <3>3. \E l \in 1 .. Len(Only(s, K)) : Only(s, K)[l] = i
      BY <2>2, <3>2, OnlyElements
    <3> QED BY <2>5, <3>1, <3>3
  <2>7. Len(m) \in Nat /\ Len(m) >= 1
    <3>1. m \in Seq(IdsOf("relationship"))
      BY <2>2, <2>5, OnlyType
    <3> QED BY <2>6, <3>1
  <2>8. Cardinality(P) \in Nat /\ Cardinality(F) \in Nat /\ Len(m) + Cardinality(P) <= Cardinality(F)
    BY <2>4, <2>5, FS_CardinalityType DEF Covers
  <2>9. F # {}
    <3>1. Cardinality({}) = 0
      BY FS_EmptySet
    <3>2. Cardinality(F) # 0
      BY <2>7, <2>8
    <3> QED BY <3>1, <3>2
  <2>10. PICK z : z \in F
    BY <2>9
  <2>11. PICK x \in Rels : x.id = i /\ z \in {x} \X ((1 .. puts[x]) \X FiledUnder("from", x, v))
    BY <2>3, <2>10, InFiling DEF Rels
  <2>12. Source(x) = v
    <3>1. FiledUnder("from", x, v) # {}
      BY <2>11
    <3> QED BY <3>1, RelEnds
  <2>13. x.keys["from"] = y.keys["from"]
    BY <2>3, <2>11, CartAssumption DEF Rels
  <2> QED BY <2>12, <2>13 DEF Source
<1> QED BY <1>1, <1>2

LEMMA FindWalk ==
  ASSUME CartTypes, CartWalks, NEW t \in CartTask, FindPath(t)
  PROVE  \E j : Reads(t, j) /\ j.at \notin {"query", "answer"} /\ WalkOK(cartridge, items, index, j, calm'[t])
<1>1. PICK a, b \in Entities, d \in Depths :
        Goes(t, IF a = b THEN [at |-> "path", from |-> a, to |-> b, depth |-> d, path |-> <<a>>]
                ELSE [at |-> "search", from |-> a, to |-> b, depth |-> d,
                      queue |-> <<[node |-> a, depth |-> 0]>>, visited |-> [e \in {} |-> a]])
  BY DEF FindPath
<1>2. PICK j : j = IF a = b THEN [at |-> "path", from |-> a, to |-> b, depth |-> d, path |-> <<a>>]
                   ELSE [at |-> "search", from |-> a, to |-> b, depth |-> d,
                         queue |-> <<[node |-> a, depth |-> 0]>>, visited |-> [e \in {} |-> a]]
  OBVIOUS
<1>3. Now(t, j)
  BY <1>1, <1>2, GoesNow
<1>4. j.at \in {"path", "search"}
  BY <1>2
<1>5. JobOK(cartridge, j)
  BY <1>4 DEF JobOK
<1>6. /\ cjob[t].at = "idle" /\ UNCHANGED <<cartridge, items, index, puts, unsure>>
      /\ calm' = [calm EXCEPT ![t] = IF AllLinked THEN "still" ELSE "moved"]
      /\ cartridge = "relationship"
  BY DEF FindPath, Call
<1>7. calm' \in [CartTask -> {"still", "moved", "wiped"}] /\ \A u \in CartTask \ {t} : calm'[u] = calm[u]
  BY <1>6 DEF CartTypes
<1>8. Reads(t, j)
  BY <1>3, <1>4, <1>5, <1>6, <1>7 DEF Reads
<1>9. calm'[t] = "still" => AllFiled(items, index)
  BY <1>6 DEF CartTypes, AllLinked, AllFiled
<1>10. d \in Nat /\ a \in RelNodes
  BY <1>6, NodesIs, CartAssumption
<1>11. CASE a = b
  <2>1. j.at = "path" /\ j.path = <<a>> /\ Len(j.path) = 1 /\ j.depth = d
    BY <1>2, <1>11
  <2>2. Len(j.path) - 1 = 0 /\ j.path # <<>> /\ 1 .. 0 = {} /\ 0 <= d
    BY <1>10, <2>1
  <2>3. PathOK(items, j, calm'[t])
    BY <2>1, <2>2 DEF PathOK
  <2>4. WalkOK(cartridge, items, index, j, calm'[t])
    BY <1>6, <2>1, <2>3 DEF WalkOK
  <2> QED BY <1>4, <1>8, <2>4
<1>12. CASE a # b
  <2>1. PICK q, vis : q = <<[node |-> a, depth |-> 0]>> /\ vis = [e \in {} |-> a]
    OBVIOUS
  <2>2. /\ j.at = "search" /\ j.from = a /\ j.to = b /\ j.depth = d /\ j.queue = q /\ j.visited = vis
        /\ SearchForm(j)
    BY <1>2, <1>12, <2>1 DEF SearchForm
  <2>3. q \in Seq(Hops) /\ Len(q) = 1 /\ q # <<>> /\ q[1].node = a /\ q[1].depth = 0
    <3>1. [node |-> a, depth |-> 0] \in Hops
      BY <1>10 DEF Hops
    <3> QED BY <2>1, <3>1
  <2>4. DOMAIN vis = {}
    BY <2>1
  <2>5. PICK L : L = [e \in {a} |-> 0]
    OBVIOUS
  <2>6. DOMAIN L = {a} /\ L[a] = 0
    BY <2>5
  <2>7. Levels(a, vis, L)
    <3>1. IsFiniteSet({}) /\ Cardinality({}) = 0
      BY FS_EmptySet
    <3> QED BY <2>4, <2>6, <3>1 DEF Levels
  <2>8. Queued(q, L)
    BY <2>3, <2>6 DEF Queued
  <2>9. Ordered(items, a, d, q, vis, L)
    <3>1. \A k \in 1 .. Len(q) : k = 1
      BY <2>3
    <3>2. Rising(q) /\ Exact(a, q, L) /\ NearHead(q, L)
      BY <2>3, <2>6, <3>1 DEF Rising, Exact, NearHead
    <3>3. Awaits(q, L, a)
      BY <2>3, <2>6 DEF Awaits
    <3>4. Frontier(items, d, q, vis, L)
      BY <1>10, <2>6, <3>3 DEF Frontier
    <3> QED BY <3>2, <3>4 DEF Ordered
  <2>10. Edges(items, vis)
    BY <2>4 DEF Edges
  <2>11. SearchOK(items, j, calm'[t])
    BY <1>10, <1>12, <2>2, <2>3, <2>4, <2>7, <2>8, <2>9, <2>10 DEF SearchOK
  <2>12. WalkOK(cartridge, items, index, j, calm'[t])
    BY <1>6, <1>9, <2>2, <2>11 DEF WalkOK
  <2> QED BY <1>4, <1>8, <2>12
<1> QED BY <1>11, <1>12

LEMMA PopWalk ==
  ASSUME CartTypes, CartCounted, CartWalks, NEW t \in CartTask, Pop(t)
  PROVE  \E j : Reads(t, j) /\ j.at \notin {"query", "answer"} /\ WalkOK(cartridge, items, index, j, calm'[t])
<1>1. PICK k, a, b, d, q, vis, cm : /\ k = cjob[t] /\ a = k.from /\ b = k.to /\ d = k.depth
                                    /\ q = k.queue /\ vis = k.visited /\ cm = calm[t]
  OBVIOUS
<1>2. k.at = "search" /\ UNCHANGED <<cartridge, items, index, cartCalls, history>> /\ calm'[t] = cm
  BY <1>1 DEF Pop, history
<1>3. /\ cartridge = "relationship" /\ SearchOK(items, k, cm) /\ SearchForm(k)
      /\ cm = "still" => AllFiled(items, index)
  BY <1>1, <1>2 DEF CartWalks, WalkOK
<1>4. /\ a # b /\ d \in Nat /\ q \in Seq(Hops) /\ b \notin DOMAIN vis
      /\ cm # "wiped" => Edges(items, vis)
  BY <1>1, <1>3 DEF SearchOK
<1>5. PICK L : /\ Levels(a, vis, L) /\ Queued(q, L)
               /\ cm = "still" => Ordered(items, a, d, q, vis, L)
  BY <1>1, <1>3 DEF SearchOK
<1>6. ASSUME NEW j, Goes(t, j), j.at \in {"search", "visit", "path"} PROVE Reads(t, j)
  BY <1>1, <1>2, <1>6, SearchReads
<1>7. CASE q = <<>>
  <2>1. PICK j : j = [at |-> "path", from |-> a, to |-> b, depth |-> d, path |-> <<>>]
    OBVIOUS
  <2>2. Goes(t, j) /\ j.at = "path" /\ j.from = a /\ j.to = b /\ j.depth = d /\ j.path = <<>>
    BY <1>1, <1>7, <2>1 DEF Pop, Ends
  <2>3. cm = "still" => b \notin WithinOf(items, a, d)
    <3> SUFFICES ASSUME cm = "still" PROVE b \notin WithinOf(items, a, d)
      OBVIOUS
    <3>1. \A e : ~Awaits(q, L, e)
      BY <1>7 DEF Awaits
    <3>2. \A e \in DOMAIN L : L[e] < d => Expanded(items, vis, L, e)
      BY <1>5, <3>1 DEF Ordered, Frontier
    <3>3. Within(a, d) \subseteq DOMAIN L
      BY <1>4, <1>5, <3>2, WithinFound
    <3>4. b \notin DOMAIN L
      BY <1>4, <1>5 DEF Levels
    <3> QED BY <3>3, <3>4, WithinSame
  <2>4. PathOK(items, j, calm'[t])
    <3>1. Len(j.path) = 0 /\ 1 .. 0 - 1 = {}
      BY <2>2
    <3> QED BY <1>2, <2>2, <2>3, <3>1 DEF PathOK
  <2>5. WalkOK(cartridge, items, index, j, calm'[t])
    BY <1>3, <2>2, <2>4 DEF WalkOK
  <2> QED BY <1>6, <2>2, <2>5
<1>8. CASE q # <<>> /\ q[1].depth >= d
  <2>1. PICK j, r : j = [k EXCEPT !.queue = Tail(q)] /\ r = Tail(q)
    OBVIOUS
  <2>2. Goes(t, j)
    BY <1>1, <1>8, <2>1 DEF Pop
  <2>3. /\ j.at = "search" /\ j.from = a /\ j.to = b /\ j.depth = d /\ j.queue = r /\ j.visited = vis
        /\ SearchForm(j)
    <3>1. k = [at |-> "search", from |-> a, to |-> b, depth |-> d, queue |-> q, visited |-> vis]
      BY <1>1, <1>3 DEF SearchForm
    <3>2. j = [at |-> "search", from |-> a, to |-> b, depth |-> d, queue |-> r, visited |-> vis]
      BY <2>1, <3>1
    <3> QED BY <3>2 DEF SearchForm
  <2>4. r \in Seq(Hops) /\ Queued(r, L)
    <3>1. /\ r \in Seq(Hops) /\ Len(r) = Len(q) - 1 /\ Len(q) \in Nat /\ Len(q) >= 1
          /\ \A i \in 1 .. Len(q) - 1 : r[i] = q[i + 1]
      BY <1>4, <1>8, <2>1, TailIs
    <3>2. \A i \in 1 .. Len(q) - 1 : i + 1 \in 1 .. Len(q)
      BY <3>1
    <3> QED BY <1>5, <3>1, <3>2 DEF Queued
  <2>5. cm = "still" => Ordered(items, a, d, r, vis, L)
    <3> SUFFICES ASSUME cm = "still" PROVE Ordered(items, a, d, r, vis, L)
      OBVIOUS
    <3>1. \A e \in DOMAIN L : L[e] < d /\ e = q[1].node /\ L[e] = q[1].depth => Expanded(items, vis, L, e)
      BY <1>4, <1>5, <1>8 DEF Levels
    <3> QED BY <1>4, <1>5, <1>8, <2>1, <3>1, TailOrdered
  <2>6. SearchOK(items, j, calm'[t])
    BY <1>2, <1>4, <1>5, <2>3, <2>4, <2>5 DEF SearchOK
  <2>7. WalkOK(cartridge, items, index, j, calm'[t])
    BY <1>2, <1>3, <2>3, <2>6 DEF WalkOK
  <2> QED BY <1>6, <2>2, <2>3, <2>7
<1>9. CASE q # <<>> /\ ~(q[1].depth >= d)
  <2>1. PICK x, ids, j : /\ x = q[1].node /\ ids = Ids("from", x)
                         /\ j = [at |-> "visit", from |-> a, to |-> b, depth |-> d, queue |-> q, visited |-> vis,
                                 ix |-> "from", ids |-> ids]
    OBVIOUS
  <2>2. Goes(t, j)
    BY <1>1, <1>9, <2>1 DEF Pop
  <2>3. /\ j.at = "visit" /\ j.from = a /\ j.to = b /\ j.depth = d /\ j.queue = q /\ j.visited = vis
        /\ j.ids = ids
    BY <2>1
  <2>4. SearchOK(items, j, calm'[t])
    BY <1>2, <1>4, <1>5, <2>3 DEF SearchOK
  <2>5. q[1].depth < d
    <3>1. 1 \in 1 .. Len(q) /\ \A i \in 1 .. Len(q) : q[i].depth \in Nat
      BY <1>4, <1>9, TailIs
    <3> QED BY <1>4, <1>9, <3>1
  <2>6. FromNode(ids, x)
    BY <1>3, <2>1, IdsFromNode
  <2>7. "from" \in Slots("relationship")
    <3>1. PICK s : s = Indexes["relationship"] /\ s = <<"from", "to", "type", "commit">>
      BY DEF Indexes
    <3>2. Len(s) = 4 /\ DOMAIN s = 1 .. 4 /\ s[1] = "from"
      BY <3>1
    <3> QED BY <3>1, <3>2 DEF Slots, ToSet
  <2>8. ids \in Seq(IdsOf("relationship"))
    BY <1>3, <2>1, <2>7, IdsType
  <2>9. cm = "still" => AllIn(items, x, ids)
    <3> SUFFICES ASSUME cm = "still", NEW i \in DOMAIN items, Source(items[i]) = x
                 PROVE  \E l \in 1 .. Len(ids) : ids[l] = i
      BY DEF AllIn
    <3>1. i \in ToSet(index["from"][x])
      BY <1>3 DEF AllFiled
    <3>2. items[i] \in Rels
      BY <1>3 DEF CartTypes, ItemsOK, Rels
    <3>3. x \in StoredOf("relationship", "from")
      BY <3>2, RelEnds
    <3>4. x \in DOMAIN index["from"]
      BY <1>3, <2>7, <3>3 DEF CartTypes, IndexOK
    <3>5. ids = index["from"][x]
      BY <2>1, <3>4 DEF Ids
    <3> QED BY <2>8, <3>1, <3>5 DEF ToSet
  <2>10. VisitOK(items, j, calm'[t])
    BY <1>2, <1>9, <2>1, <2>3, <2>5, <2>6, <2>8, <2>9 DEF VisitOK
  <2>11. WalkOK(cartridge, items, index, j, calm'[t])
    BY <1>2, <1>3, <2>3, <2>4, <2>10 DEF WalkOK
  <2> QED BY <1>6, <2>2, <2>3, <2>11
<1> QED BY <1>7, <1>8, <1>9

-----------------------------------------------------------------------------
(* What get_from_entity returns: relationships of the entity, and all of   *)
(* them when every one is in the index.                                    *)
LEMMA VisitItems ==
  ASSUME CartTypes, cartridge = "relationship", NEW ids \in Seq(IdsOf("relationship")), NEW x,
         FromNode(ids, x)
  PROVE  /\ Len(Items(ids)) \in Nat /\ Sound(items, x, Items(ids))
         /\ AllIn(items, x, ids) =>
              \A i \in DOMAIN items : Source(items[i]) = x => \E k \in 1 .. Len(Items(ids)) : Items(ids)[k] = items[i]
<1>1. PICK r, D, xs : D = DOMAIN items /\ r = Only(ids, D) /\ xs = Items(ids)
  OBVIOUS
<1>2. /\ Len(xs) = Len(r) /\ Len(xs) \in Nat
      /\ \A k \in 1 .. Len(xs) : r[k] \in D /\ xs[k] = items[r[k]] /\ xs[k].id = r[k]
  BY <1>1, ItemsIs
<1>3. \A y : (\E k \in 1 .. Len(Only(ids, D)) : Only(ids, D)[k] = y) <=> y \in D /\ \E k \in 1 .. Len(ids) : ids[k] = y
  BY OnlyElements
<1>4. \A y : (\E k \in 1 .. Len(xs) : r[k] = y) <=> y \in D /\ \E k \in 1 .. Len(ids) : ids[k] = y
  BY <1>1, <1>2, <1>3
<1>5. \A i \in D : items[i] \in Rels /\ items[i].id = i
  BY <1>1 DEF CartTypes, ItemsOK, Rels
<1>6. ASSUME NEW k \in 1 .. Len(xs)
      PROVE  Source(xs[k]) = x /\ Target(xs[k]) \in RelNodes /\ \E i \in D : xs[k] = items[i]
  <2>1. PICK i : i = r[k]
    OBVIOUS
  <2>2. i \in D /\ xs[k] = items[i] /\ items[i] \in Rels /\ items[i].id = i
    BY <1>2, <1>5, <2>1
  <2>3. PICK l \in 1 .. Len(ids) : ids[l] = i
    BY <1>4, <2>1
  <2>4. Source(items[i]) = x
    BY <2>2, <2>3 DEF FromNode
  <2>5. Target(items[i]) \in RelNodes
    BY <2>2, RelEnds
  <2> QED BY <2>2, <2>4, <2>5
<1>7. Sound(items, x, xs)
  BY <1>1, <1>6 DEF Sound
<1>8. ASSUME AllIn(items, x, ids), NEW i \in D, Source(items[i]) = x
      PROVE  \E k \in 1 .. Len(xs) : xs[k] = items[i]
  <2>1. \E k \in 1 .. Len(ids) : ids[k] = i
    BY <1>1, <1>8 DEF AllIn
  <2>2. PICK k \in 1 .. Len(xs) : r[k] = i
    BY <1>4, <2>1
  <2> QED BY <1>2, <2>2
<1> QED BY <1>1, <1>2, <1>7, <1>8

LEMMA VisitWalk ==
  ASSUME CartTypes, CartWalks, NEW t \in CartTask, Visit(t)
  PROVE  \E j : Reads(t, j) /\ j.at \notin {"query", "answer"} /\ WalkOK(cartridge, items, index, j, calm'[t])
<1>1. PICK k, a, b, d, q, vis, cm : /\ k = cjob[t] /\ a = k.from /\ b = k.to /\ d = k.depth
                                    /\ q = k.queue /\ vis = k.visited /\ cm = calm[t]
  OBVIOUS
<1>2. k.at = "visit" /\ UNCHANGED <<cartridge, items, index, cartCalls, history>> /\ calm'[t] = cm
  BY <1>1 DEF Visit, history
<1>3. /\ cartridge = "relationship" /\ SearchOK(items, k, cm) /\ VisitOK(items, k, cm)
      /\ cm = "still" => AllFiled(items, index)
  BY <1>1, <1>2 DEF CartWalks, WalkOK
<1>4. /\ a # b /\ d \in Nat /\ q \in Seq(Hops) /\ b \notin DOMAIN vis
      /\ cm # "wiped" => Edges(items, vis)
  BY <1>1, <1>3 DEF SearchOK
<1>5. PICK L0 : /\ Levels(a, vis, L0) /\ Queued(q, L0)
                /\ cm = "still" => Ordered(items, a, d, q, vis, L0)
  BY <1>1, <1>3 DEF SearchOK
<1>6. ASSUME NEW j, Goes(t, j), j.at \in {"search", "visit", "path"} PROVE Reads(t, j)
  BY <1>1, <1>2, <1>6, SearchReads
<1>7. PICK x, ids, xs, s : x = q[1].node /\ ids = k.ids /\ xs = Items(ids) /\ s = Reached(k, xs)
  OBVIOUS
<1>8. /\ q # <<>> /\ q[1].depth < d /\ ids \in Seq(IdsOf("relationship")) /\ FromNode(ids, x)
      /\ cm = "still" => AllIn(items, x, ids)
  BY <1>1, <1>3, <1>7 DEF VisitOK
<1>9. PICK h \in Nat : h = q[1].depth
  BY <1>4, <1>8, TailIs
<1>10. /\ Len(xs) \in Nat /\ Sound(items, x, xs)
       /\ cm = "still" =>
            \A i \in DOMAIN items : Source(items[i]) = x => \E l \in 1 .. Len(xs) : xs[l] = items[i]
  BY <1>3, <1>7, <1>8, VisitItems
<1>11. PICK ok \in BOOLEAN, still \in BOOLEAN : (ok <=> cm # "wiped") /\ (still <=> cm = "still")
  OBVIOUS
<1>12. Loop(items, a, b, d, x, h, ok, still, xs, Len(xs), s)
  <2>1. PICK z : z = [visited |-> vis, queue |-> q]
    OBVIOUS
  <2>2. z.visited = vis /\ z.queue = q
    BY <2>1
  <2>3. Traced(items, a, b, d, h, still, xs, 0, z, L0)
    <3>1. 1 .. 0 = {}
      OBVIOUS
    <3>2. still => Ordered(items, a, d, q, vis, L0)
      BY <1>5, <1>11
    <3> QED BY <1>4, <1>5, <2>2, <3>1, <3>2 DEF Traced
  <2>4. Loop(items, a, b, d, x, h, ok, still, xs, 0, z)
    BY <1>4, <1>7, <1>8, <1>9, <1>11, <2>2, <2>3 DEF Loop
  <2>5. k.to = b /\ k.queue[1].node = x /\ k.queue[1].depth = h /\ z = [visited |-> k.visited, queue |-> k.queue]
    BY <1>1, <1>7, <1>9, <2>1
  <2> QED BY <1>4, <1>7, <1>8, <1>9, <1>10, <2>4, <2>5, LoopHolds
<1>13. PICK vis2, q2 : vis2 = s.visited /\ q2 = s.queue
  OBVIOUS
<1>14. /\ q2 \in Seq(Hops) /\ q2 # <<>> /\ q2[1].node = x /\ q2[1].depth = h
       /\ cm # "wiped" => Edges(items, vis2)
  BY <1>11, <1>12, <1>13 DEF Loop
<1>15. PICK L : Traced(items, a, b, d, h, still, xs, Len(xs), s, L)
  BY <1>12 DEF Loop
<1>16. /\ Levels(a, vis2, L) /\ Queued(q2, L)
       /\ cm = "still" => /\ Ordered(items, a, d, q2, vis2, L)
                          /\ b \in DOMAIN vis2 => L[b] = h + 1
                          /\ b \notin DOMAIN vis2 =>
                               \A l \in 1 .. Len(xs) : Target(xs[l]) \in DOMAIN vis2 /\ L[Target(xs[l])] <= h + 1
  BY <1>11, <1>13, <1>15 DEF Traced
<1>17. CASE b \in DOMAIN vis2
  <2>1. PICK p, j : p = PathBack(vis2, a, b) /\ j = [at |-> "path", from |-> a, to |-> b, depth |-> d, path |-> p]
    OBVIOUS
  <2>2. Goes(t, j) /\ j.at = "path" /\ j.from = a /\ j.to = b /\ j.depth = d /\ j.path = p
    BY <1>1, <1>7, <1>13, <1>17, <2>1 DEF Visit, Ends
  <2>3. Steps(p, vis2, L[b])
    BY <1>4, <1>16, <1>17, <2>1, PathBackIs
  <2>4. PICK n \in Nat : n = L[b]
    BY <1>16, <1>17 DEF Levels
  <2>5. Len(p) = n + 1 /\ \A l \in 1 .. n : p[l + 1] \in DOMAIN vis2 /\ p[l] = vis2[p[l + 1]]
    BY <2>3, <2>4 DEF Steps
  <2>6. Len(p) - 1 = n /\ p # <<>>
    BY <2>5
  <2>7. cm # "wiped" => \A l \in 1 .. n : LinkIn(items, p[l], p[l + 1])
    BY <1>14, <2>5 DEF Edges
  <2>8. ASSUME cm = "still" PROVE n <= d /\ b \notin WithinOf(items, a, n - 1)
    <3>0. n = h + 1
      BY <1>16, <1>17, <2>4, <2>8
    <3>1. n = h + 1 /\ n <= d /\ n - 1 = h
      BY <1>4, <1>8, <1>9, <3>0
    <3>2. ASSUME NEW e \in DOMAIN L0, L0[e] < h PROVE Expanded(items, vis, L0, e)
      <4>1. L0[e] \in Nat
        BY <1>5 DEF Levels
      <4>2. ~Awaits(q, L0, e)
        <5> SUFFICES ASSUME NEW l \in 1 .. Len(q), q[l].depth = L0[e] PROVE FALSE
          BY DEF Awaits
        <5>1. 1 \in 1 .. Len(q) /\ 1 <= l
          BY <1>4, <1>8, TailIs
        <5>2. q[1].depth <= q[l].depth
          BY <1>5, <2>8, <5>1 DEF Ordered, Rising
        <5> QED BY <1>9, <3>2, <4>1, <5>2
      <4>3. L0[e] < d
        BY <1>4, <1>8, <1>9, <3>2, <4>1
      <4> QED BY <1>5, <2>8, <4>2, <4>3 DEF Ordered, Frontier
    <3>3. Within(a, h) \subseteq DOMAIN L0
      BY <1>5, <3>2, WithinFound
    <3>4. b \notin DOMAIN L0
      BY <1>4, <1>5 DEF Levels
    <3>5. b \notin WithinOf(items, a, h)
      BY <3>3, <3>4, WithinSame
    <3> QED BY <3>1, <3>5
  <2>9. PathOK(items, j, cm)
    BY <2>2, <2>6, <2>7, <2>8 DEF PathOK
  <2>10. WalkOK(cartridge, items, index, j, calm'[t])
    BY <1>2, <1>3, <2>2, <2>9 DEF WalkOK
  <2> QED BY <1>6, <2>2, <2>10
<1>18. CASE b \notin DOMAIN vis2
  <2>1. PICK r, j : r = Tail(q2) /\ j = [at |-> "search", from |-> a, to |-> b, depth |-> d,
                                         queue |-> r, visited |-> vis2]
    OBVIOUS
  <2>2. Goes(t, j)
    BY <1>1, <1>7, <1>13, <1>18, <2>1 DEF Visit
  <2>3. /\ j.at = "search" /\ j.from = a /\ j.to = b /\ j.depth = d /\ j.queue = r /\ j.visited = vis2
        /\ SearchForm(j)
    BY <2>1 DEF SearchForm
  <2>4. r \in Seq(Hops) /\ Queued(r, L)
    <3>1. /\ r \in Seq(Hops) /\ Len(r) = Len(q2) - 1 /\ Len(q2) \in Nat /\ Len(q2) >= 1
          /\ \A i \in 1 .. Len(q2) - 1 : r[i] = q2[i + 1]
      BY <1>14, <2>1, TailIs
    <3>2. \A i \in 1 .. Len(q2) - 1 : i + 1 \in 1 .. Len(q2)
      BY <3>1
    <3> QED BY <1>16, <3>1, <3>2 DEF Queued
  <2>5. cm = "still" => Ordered(items, a, d, r, vis2, L)
    <3> SUFFICES ASSUME cm = "still" PROVE Ordered(items, a, d, r, vis2, L)
      OBVIOUS
    <3>1. ASSUME L[x] = h PROVE Expanded(items, vis2, L, x)
      <4> SUFFICES ASSUME NEW i \in DOMAIN items, Source(items[i]) = x
                   PROVE  Target(items[i]) \in DOMAIN vis2 /\ L[Target(items[i])] <= L[x] + 1
        BY DEF Expanded
      <4>1. PICK l \in 1 .. Len(xs) : xs[l] = items[i]
        BY <1>10
      <4>2. Target(xs[l]) \in DOMAIN vis2 /\ L[Target(xs[l])] <= h + 1
        BY <1>16, <1>18, <4>1
      <4> QED BY <3>1, <4>1, <4>2
    <3>2. \A e \in DOMAIN L : L[e] < d /\ e = q2[1].node /\ L[e] = q2[1].depth => Expanded(items, vis2, L, e)
      BY <1>14, <3>1
    <3> QED BY <1>4, <1>14, <1>16, <2>1, <3>2, TailOrdered
  <2>6. SearchOK(items, j, calm'[t])
    BY <1>2, <1>4, <1>14, <1>16, <1>18, <2>3, <2>4, <2>5 DEF SearchOK
  <2>7. WalkOK(cartridge, items, index, j, calm'[t])
    BY <1>2, <1>3, <2>3, <2>6 DEF WalkOK
  <2> QED BY <1>6, <2>2, <2>3, <2>7
<1> QED BY <1>17, <1>18

-----------------------------------------------------------------------------
(* The invariant of the cartridges, and its proof.                         *)
CartInd == CartTypes /\ CartFound /\ CartCounted /\ CartWalks

LEMMA CartIndImplies == CartInd => CartTypeOK /\ CartridgesSound
BY CartTypesOK, FoundIs, CountedIs, WalksIs DEF CartInd, CartridgesSound

(* A step that only reads, and asks or answers nothing.                    *)
LEMMA ReadsInd ==
  ASSUME CartInd, NEW t \in CartTask, NEW j, Reads(t, j), j.at \notin {"query", "answer"},
         WalkOK(cartridge, items, index, j, calm'[t])
  PROVE  CartInd'
<1>1. CartTypes' /\ CartFound'
  BY ReadsFound DEF CartInd
<1>2. CartCounted'
  BY ReadsCounted DEF CartInd
<1>3. CartWalks'
  BY ReadsWalk DEF CartInd
<1> QED BY <1>1, <1>2, <1>3 DEF CartInd

LEMMA CartStep ==
  ASSUME CartInd, [CartNext]_cartVars
  PROVE  CartInd'
<1> USE DEF CartInd
<1>1. CASE UNCHANGED cartVars
  <2>1. CartTypes'
    BY <1>1 DEF cartVars, CartTypes
  <2>2. CartFound'
    BY <1>1 DEF cartVars, CartFound
  <2>3. CartCounted'
    BY <1>1 DEF cartVars, CartCounted
  <2>4. CartWalks'
    BY <1>1 DEF cartVars, CartWalks
  <2> QED BY <2>1, <2>2, <2>3, <2>4
<1>2. CASE CartNext
  <2>1. PICK t \in CartTask :
          \/ InsertItem(t) \/ InsertNext(t) \/ Wipe(t) \/ ClearNext(t)
          \/ AskIndex(t) \/ QueryRead(t) \/ Return(t)
          \/ FindPath(t) \/ Pop(t) \/ Visit(t)
    BY <1>2 DEF CartNext
  <2>2. CASE InsertItem(t)
    BY <2>2, InsertItemFound, InsertItemCounted, WritesWalk
  <2>3. CASE InsertNext(t)
    BY <2>3, InsertNextFound, InsertNextCounted, WritesWalk
  <2>4. CASE Wipe(t)
    BY <2>4, WipeFound, WipeCounted, WritesWalk
  <2>5. CASE ClearNext(t)
    BY <2>5, ClearNextFound, ClearNextCounted, WritesWalk
  <2>6. CASE AskIndex(t)
    <3>1. PICK j : Reads(t, j) /\ j.at = "query"
      BY <2>6, AskReads
    <3>2. CartCounted'
      BY <2>6, AskCounted
    <3>3. CartTypes' /\ CartFound'
      BY <3>1, ReadsFound
    <3>4. CartWalks'
      BY <3>1, ElseWhere, ReadsWalk
    <3> QED BY <3>2, <3>3, <3>4
  <2>7. CASE QueryRead(t)
    <3>1. PICK j : Reads(t, j) /\ j.at = "answer"
      BY <2>7, QueryReads
    <3>2. CartCounted'
      BY <2>7, QueryCounted
    <3>3. CartTypes' /\ CartFound'
      BY <3>1, ReadsFound
    <3>4. CartWalks'
      BY <3>1, ElseWhere, ReadsWalk
    <3> QED BY <3>2, <3>3, <3>4
  <2>8. CASE Return(t)
    <3>1. Reads(t, CIdle) /\ CIdle.at = "idle"
      BY <2>8, ReturnReads, IdleOK
    <3>2. WalkOK(cartridge, items, index, CIdle, calm'[t])
      BY <3>1, ElseWhere
    <3> QED BY <3>1, <3>2, ReadsInd
  <2>9. CASE FindPath(t)
    BY <2>9, FindWalk, ReadsInd
  <2>10. CASE Pop(t)
    BY <2>10, PopWalk, ReadsInd
  <2>11. CASE Visit(t)
    BY <2>11, VisitWalk, ReadsInd
  <2> QED BY <2>1, <2>2, <2>3, <2>4, <2>5, <2>6, <2>7, <2>8, <2>9, <2>10, <2>11
<1> QED BY <1>1, <1>2

LEMMA CartStart ==
  ASSUME CartInit PROVE CartInd
<1>1. PICK c : c = cartridge
  OBVIOUS
<1>2. /\ c \in DOMAIN Indexes /\ items = [i \in {} |-> CIdle]
      /\ index = [ix \in Slots(c) |-> Empty(ix)] /\ cjob = [t \in CartTask |-> CIdle]
      /\ puts = [x \in Pool[c] |-> 0] /\ unsure = {} /\ calm = [t \in CartTask |-> "still"]
  BY <1>1 DEF CartInit, Slots, Order, Insertable
<1>3. DOMAIN items = {} /\ items = [i \in DOMAIN items |-> items[i]]
  BY <1>2
<1>4. \A t \in CartTask : cjob[t] = CIdle /\ cjob[t].at = "idle" /\ JobOK(c, cjob[t])
  BY <1>2, IdleOK
<1>5. \A ix \in Slots(c) : index[ix] = [v \in StoredOf(c, ix) |-> <<>>]
  BY <1>1, <1>2 DEF Empty, Stored, StoredOf, Asked, Insertable
<1>6. CartTypes
  <2>1. ItemsOK(c, items)
    BY <1>3 DEF ItemsOK
  <2>2. IndexOK(c, index)
    <3>1. DOMAIN index = Slots(c)
      BY <1>2
    <3>2. \A ix \in Slots(c) : [v \in StoredOf(c, ix) |-> <<>>] \in [StoredOf(c, ix) -> Seq(IdsOf(c))]
      OBVIOUS
    <3> QED BY <1>5, <3>1, <3>2 DEF IndexOK
  <2>3. Jobs(c, cjob)
    BY <1>2, <1>4 DEF Jobs
  <2>4. puts \in [Pool[c] -> Nat] /\ calm \in [CartTask -> {"still", "moved", "wiped"}]
    BY <1>2
  <2> QED BY <1>1, <1>2, <2>1, <2>2, <2>3, <2>4 DEF CartTypes
<1>7. CartFound
  BY <1>3 DEF CartFound, Findable
<1>8. CartCounted
  <2>1. ASSUME NEW ix \in Slots(c), NEW v \in StoredOf(c, ix), NEW i
        PROVE  Covers(index[ix][v], Coming(c, cjob, ix, v, i), Filing(c, puts, ix, v, i), i)
    <3>1. Coming(c, cjob, ix, v, i) = {}
      <4>1. \A u \in CartTask : ~Bound(c, cjob[u], ix, i)
        BY <1>4 DEF Bound
      <4> QED BY <4>1 DEF Coming
    <3>2. Filing(c, puts, ix, v, i) = {}
      <4>1. \A z : z \notin Filing(c, puts, ix, v, i)
        <5> SUFFICES ASSUME NEW z, z \in Filing(c, puts, ix, v, i) PROVE FALSE
          OBVIOUS
        <5>1. PICK y \in Pool[c] : z \in {y} \X ((1 .. puts[y]) \X FiledUnder(ix, y, v))
          BY InFiling
        <5>2. 1 .. puts[y] = {}
          BY <1>2
        <5> QED BY <5>1, <5>2
      <4> QED BY <4>1
    <3>3. index[ix][v] = <<>>
      BY <1>5
    <3>4. Only(<<>>, {i}) = <<>>
      BY OnlyEmpty
    <3>5. IsFiniteSet({}) /\ Cardinality({}) = 0
      BY FS_EmptySet
    <3>6. Len(Only(<<>>, {i})) + Cardinality({}) <= Cardinality({})
      BY <3>4, <3>5
    <3> QED BY <3>1, <3>2, <3>3, <3>5, <3>6 DEF Covers
  <2>2. \A t \in CartTask : Told(c, cjob[t], puts)
    BY <1>4 DEF Told
  <2> QED BY <1>1, <2>1, <2>2 DEF CartCounted, Owed
<1>9. CartWalks
  BY <1>4, ElseWhere DEF CartWalks
<1> QED BY <1>6, <1>7, <1>8, <1>9 DEF CartInd

(* Whatever threads insert, clear, ask and search, in whatever order their *)
(* steps come: what is stored is found by every index, an answer holds no  *)
(* more than was inserted under the value, and a path is a shortest one    *)
(* along stored relationships.                                             *)
THEOREM CartridgesAreSound == CartSpec => []CartridgesSound
<1>1. CartInit => CartInd
  BY CartStart
<1>2. CartInd /\ [CartNext]_cartVars => CartInd'
  BY CartStep
<1>3. CartInd => CartridgesSound
  BY CartIndImplies
<1> QED BY <1>1, <1>2, <1>3, PTL DEF CartSpec

(* Both kinds of index keep their types, side by side.                     *)
THEOREM IndexesTypes == IndexSpec => []IndexesTypeOK
<1> DEFINE Ind == BTreeInd /\ CartInd
<1>1. IndexInit => Ind
  BY InitInd, CartStart DEF IndexInit
<1>2. Ind /\ [IndexNext]_indexVars => Ind'
  <2> SUFFICES ASSUME Ind, [IndexNext]_indexVars PROVE Ind'
    OBVIOUS
  <2>1. [Next]_vars
    BY DEF IndexNext, indexVars
  <2>2. [CartNext]_cartVars
    BY DEF IndexNext, indexVars
  <2> QED BY <2>1, <2>2, BTreeStep, CartStep
<1>3. Ind => IndexesTypeOK
  <2>1. BTreeInd => TypeOK
    BY TreeIndType DEF BTreeInd
  <2> QED BY <2>1, CartIndImplies DEF IndexesTypeOK
<1> HIDE DEF Ind
<1> QED BY <1>1, <1>2, <1>3, PTL DEF IndexSpec
=============================================================================
