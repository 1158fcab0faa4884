------------------------------ MODULE DataLemmas ------------------------------
(****************************************************************************)
(* What the proofs need to know about the data the modules work on:         *)
(* induction over the naturals, stated with a set in place of a predicate,  *)
(* and from it what the recursively defined operators compute.              *)
(****************************************************************************)
EXTENDS Filters, FiniteSets, FiniteSetTheorems, WellFoundedInduction, TLAPS

(* A nonempty set of naturals has a least element.                          *)
LEMMA Least ==
  ASSUME NEW S, S \subseteq Nat, S # {}
  PROVE  \E n \in S : \A m \in S : n <= m
<1> DEFINE R == OpToRel(<, Nat)
<1>1. \A x, y \in Nat : x < y => <<x, y>> \in R
  BY DEF OpToRel
<1>2. IsWellFoundedOn(R, Nat)
  BY NatLessThanWellFounded
<1> HIDE DEF R
<1>3. PICK n \in S : \A m \in S : ~ (<<m, n>> \in R)
  BY <1>2, WFMin
<1>4. \A m \in S : ~ (m < n)
  BY <1>1, <1>3, Zenon
<1> QED BY <1>4

(* Induction: a set that holds 0 and with every natural its successor holds *)
(* them all.                                                                *)
LEMMA SetInduction ==
  ASSUME NEW S, 0 \in S, \A n \in Nat : n \in S => n + 1 \in S
  PROVE  Nat \subseteq S
<1> DEFINE T == Nat \ S
<1> SUFFICES ASSUME T # {} PROVE FALSE
  OBVIOUS
<1>1. PICK n \in T : \A m \in T : n <= m
  <2> HIDE DEF T
  <2>1. T \subseteq Nat
    BY DEF T
  <2> QED BY <2>1, Least
<1>2. n # 0 /\ n \in Nat /\ n - 1 \in Nat /\ n - 1 \notin T
  BY <1>1
<1> QED BY <1>2

(* The same over sequences: a set that holds the empty sequence and with    *)
(* every sequence over S each of its extensions by one element.             *)
LEMMA SequenceInduction ==
  ASSUME NEW S, NEW Q, <<>> \in Q,
         \A s \in Seq(S), e \in S : s \in Q => Append(s, e) \in Q
  PROVE  Seq(S) \subseteq Q
<1> DEFINE N == {n \in Nat : \A s \in Seq(S) : Len(s) = n => s \in Q}
<1>1. 0 \in N
  OBVIOUS
<1>2. ASSUME NEW n \in Nat, n \in N PROVE n + 1 \in N
  <2> SUFFICES ASSUME NEW s \in Seq(S), Len(s) = n + 1 PROVE s \in Q
    OBVIOUS
  <2> DEFINE t == SubSeq(s, 1, n)
  <2>1. t \in Seq(S) /\ Len(t) = n /\ s[n + 1] \in S
    OBVIOUS
  <2>2. s = Append(t, s[n + 1])
    OBVIOUS
  <2>3. t \in Q
    BY <1>2, <2>1
  <2> HIDE DEF t
  <2> QED BY <2>1, <2>2, <2>3
<1> HIDE DEF N
<1>3. Nat \subseteq N
  BY <1>1, <1>2, SetInduction
<1>4. ASSUME NEW s \in Seq(S) PROVE s \in Q
  <2>1. Len(s) \in N
    BY <1>3
  <2> QED BY <2>1 DEF N
<1> QED BY <1>4

-------------------------------------------------------------------------------
(* The equation that Only's recursive function satisfies: there is such a   *)
(* function, and only one.                                                  *)
KeptBy(f, s, K) ==
  f = [i \in 0 .. Len(s) |->
         IF i = 0 THEN <<>>
         ELSE IF s[i] \in K THEN Append(f[i - 1], s[i]) ELSE f[i - 1]]

LEMMA KeptExists ==
  ASSUME NEW S, NEW s \in Seq(S), NEW K
  PROVE  \E f \in [0 .. Len(s) -> Seq(S \cap K)] : KeptBy(f, s, K)
<1> DEFINE Next(x, i) == IF s[i] \in K THEN Append(x, s[i]) ELSE x
           Fn(n) == {f \in [0 .. n -> Seq(S \cap K)] :
                       f[0] = <<>> /\ \A i \in 1 .. n : f[i] = Next(f[i - 1], i)}
           N == {n \in Nat : n <= Len(s) => Fn(n) # {}}
<1>0. Len(s) \in Nat /\ \A i \in 1 .. Len(s) : s[i] \in S
  OBVIOUS
<1>n. \A x \in Seq(S \cap K), i \in 1 .. Len(s) : Next(x, i) \in Seq(S \cap K)
  BY <1>0
<1> HIDE DEF Next
<1>1. Fn(0) # {}
  <2>1. [i \in 0 .. 0 |-> <<>>] \in Fn(0)
    OBVIOUS
  <2> QED BY <2>1
<1>2. ASSUME NEW n \in Nat, n + 1 <= Len(s), Fn(n) # {} PROVE Fn(n + 1) # {}
  <2>1. PICK g : g \in Fn(n)
    BY <1>2
  <2> DEFINE f == [i \in 0 .. n + 1 |-> IF i = n + 1 THEN Next(g[n], n + 1) ELSE g[i]]
  <2>2. f \in [0 .. n + 1 -> Seq(S \cap K)]
    <3>1. g \in [0 .. n -> Seq(S \cap K)] /\ g[n] \in Seq(S \cap K)
      BY <2>1
    <3>2. Next(g[n], n + 1) \in Seq(S \cap K)
      <4>1. n + 1 \in 1 .. Len(s)
        BY <1>0, <1>2
      <4> QED BY <1>n, <3>1, <4>1, Zenon
    <3>3. \A i \in 0 .. n + 1 : i # n + 1 => i \in 0 .. n
      OBVIOUS
    <3> QED BY <3>1, <3>2, <3>3
  <2>3. f[0] = <<>>
    BY <2>1
  <2>4. ASSUME NEW i \in 1 .. n + 1 PROVE f[i] = Next(f[i - 1], i)
    <3>1. CASE i = n + 1
      BY <3>1
    <3>2. CASE i # n + 1
      <4>1. i \in 1 .. n /\ i - 1 \in 0 .. n /\ i \in 0 .. n
        BY <3>2
      <4> QED BY <2>1, <4>1
    <3> QED BY <3>1, <3>2
  <2>5. f \in Fn(n + 1)
    BY <2>2, <2>3, <2>4
  <2> QED BY <2>5
<1> HIDE DEF Fn
<1>3. 0 \in N /\ \A n \in Nat : n \in N => n + 1 \in N
  BY <1>0, <1>1, <1>2
<1> HIDE DEF N
<1>4. Len(s) \in N
  BY <1>0, <1>3, SetInduction
<1>5. PICK f : f \in Fn(Len(s))
  BY <1>0, <1>4 DEF N
<1>6. /\ f \in [0 .. Len(s) -> Seq(S \cap K)]
      /\ f[0] = <<>> /\ \A i \in 1 .. Len(s) : f[i] = Next(f[i - 1], i)
  BY <1>5 DEF Fn
<1>7. ASSUME NEW i \in 0 .. Len(s)
      PROVE  f[i] = IF i = 0 THEN <<>>
                    ELSE IF s[i] \in K THEN Append(f[i - 1], s[i]) ELSE f[i - 1]
  <2>1. CASE i = 0
    BY <1>6, <2>1
  <2>2. CASE i # 0
    <3>1. i \in 1 .. Len(s)
      BY <1>0, <2>2
    <3> QED BY <1>6, <2>2, <3>1, Zenon DEF Next
  <2> QED BY <2>1, <2>2
<1>8. KeptBy(f, s, K)
  BY <1>6, <1>7 DEF KeptBy
<1> QED BY <1>6, <1>8

LEMMA KeptStep ==
  ASSUME NEW f, NEW s, NEW K, KeptBy(f, s, K), Len(s) \in Nat,
         NEW m \in Nat, m + 1 <= Len(s)
  PROVE  f[m + 1] = IF s[m + 1] \in K THEN Append(f[m], s[m + 1]) ELSE f[m]
<1>1. m + 1 \in 0 .. Len(s) /\ m + 1 # 0 /\ (m + 1) - 1 = m
  OBVIOUS
<1>2. \A i \in 0 .. Len(s) :
        f[i] = IF i = 0 THEN <<>>
               ELSE IF s[i] \in K THEN Append(f[i - 1], s[i]) ELSE f[i - 1]
  BY Zenon DEF KeptBy
<1> QED BY <1>1, <1>2, Zenon

(* On a common prefix two such functions agree.                             *)
LEMMA KeptAgree ==
  ASSUME NEW S, NEW s \in Seq(S), NEW t \in Seq(S), NEW K, NEW f, NEW g, NEW n \in Nat,
         n <= Len(s), n <= Len(t),
         \A i \in 1 .. n : s[i] = t[i],
         KeptBy(f, s, K), KeptBy(g, t, K)
  PROVE  f[n] = g[n]
<1> DEFINE N == {m \in Nat : m <= n => f[m] = g[m]}
<1>1. 0 \in N
  BY DEF KeptBy
<1>2. ASSUME NEW m \in Nat, m \in N PROVE m + 1 \in N
  <2> SUFFICES ASSUME m + 1 <= n PROVE f[m + 1] = g[m + 1]
    OBVIOUS
  <2>1. f[m] = g[m] /\ s[m + 1] = t[m + 1]
    BY <1>2
  <2>2. f[m + 1] = IF s[m + 1] \in K THEN Append(f[m], s[m + 1]) ELSE f[m]
    BY KeptStep
  <2>3. g[m + 1] = IF t[m + 1] \in K THEN Append(g[m], t[m + 1]) ELSE g[m]
    BY KeptStep
  <2> QED BY <2>1, <2>2, <2>3
<1> HIDE DEF N
<1>3. n \in N
  BY <1>1, <1>2, SetInduction
<1> QED BY <1>3 DEF N

(* What Only gives is what any such function gives at the end.              *)
LEMMA OnlyIsKept ==
  ASSUME NEW S, NEW s \in Seq(S), NEW K, NEW f, KeptBy(f, s, K)
  PROVE  Only(s, K) = f[Len(s)]
<1> DEFINE kept == CHOOSE g : KeptBy(g, s, K)
<1>1. KeptBy(kept, s, K)
  BY KeptExists
<1>2. Only(s, K) = kept[Len(s)]
  BY DEF Only, KeptBy
<1> HIDE DEF kept
<1>3. kept[Len(s)] = f[Len(s)]
  BY <1>1, KeptAgree
<1> QED BY <1>2, <1>3

(* Only gives a sequence of elements of K.                                  *)
LEMMA OnlyType ==
  ASSUME NEW S, NEW s \in Seq(S), NEW K
  PROVE  Only(s, K) \in Seq(S \cap K) /\ Only(s, K) \in Seq(S)
<1>1. PICK f \in [0 .. Len(s) -> Seq(S \cap K)] : KeptBy(f, s, K)
  BY KeptExists
<1>2. Only(s, K) = f[Len(s)]
  BY <1>1, OnlyIsKept
<1>3. Only(s, K) \in Seq(S \cap K)
  BY <1>2
<1> QED BY <1>3

LEMMA OnlyEmpty ==
  ASSUME NEW K PROVE Only(<<>>, K) = <<>>
<1>1. <<>> \in Seq({})
  OBVIOUS
<1>2. PICK f \in [0 .. Len(<<>>) -> Seq({} \cap K)] : KeptBy(f, <<>>, K)
  BY <1>1, KeptExists
<1>3. Only(<<>>, K) = f[0]
  BY <1>1, <1>2, OnlyIsKept
<1> QED BY <1>2, <1>3 DEF KeptBy

LEMMA OnlyAppend ==
  ASSUME NEW S, NEW s \in Seq(S), NEW e \in S, NEW K
  PROVE  Only(Append(s, e), K) = IF e \in K THEN Append(Only(s, K), e) ELSE Only(s, K)
<1> DEFINE t == Append(s, e)
<1>1. /\ t \in Seq(S) /\ Len(t) = Len(s) + 1 /\ t[Len(s) + 1] = e
      /\ \A i \in 1 .. Len(s) : s[i] = t[i]
      /\ Len(s) \in Nat
  OBVIOUS
<1> HIDE DEF t
<1>2. PICK f \in [0 .. Len(s) -> Seq(S \cap K)] : KeptBy(f, s, K)
  BY KeptExists
<1>3. PICK g \in [0 .. Len(t) -> Seq(S \cap K)] : KeptBy(g, t, K)
  BY <1>1, KeptExists
<1>4. f[Len(s)] = g[Len(s)]
  <2>1. ASSUME NEW n \in Nat, n = Len(s) PROVE f[n] = g[n]
    <3>1. n <= Len(s) /\ n <= Len(t)
      BY <1>1, <2>1
    <3>2. \A i \in 1 .. n : s[i] = t[i]
      BY <1>1, <2>1
    <3>3. t \in Seq(S)
      BY <1>1
    <3> QED BY <1>2, <1>3, <3>1, <3>2, <3>3, KeptAgree
  <2> QED BY <1>1, <2>1
<1>5. g[Len(s) + 1] = IF e \in K THEN Append(g[Len(s)], e) ELSE g[Len(s)]
  <2>1. Len(t) \in Nat /\ Len(s) + 1 <= Len(t)
    BY <1>1
  <2> QED BY <1>1, <1>3, <2>1, KeptStep
<1>6. Only(s, K) = f[Len(s)] /\ Only(t, K) = g[Len(t)]
  BY <1>1, <1>2, <1>3, OnlyIsKept
<1> QED BY <1>1, <1>4, <1>5, <1>6 DEF t
(* The elements of Only(s, K) are the elements of s that are in K.          *)
LEMMA OnlyElements ==
  ASSUME NEW S, NEW s \in Seq(S), NEW K, NEW x
  PROVE  (\E i \in 1 .. Len(Only(s, K)) : Only(s, K)[i] = x)
           <=> x \in K /\ \E i \in 1 .. Len(s) : s[i] = x
<1> DEFINE In(t) == \E i \in 1 .. Len(t) : t[i] = x
           Q == {t \in Seq(S) : In(Only(t, K)) <=> x \in K /\ In(t)}
<1>1. <<>> \in Q
  BY OnlyEmpty
<1>2. ASSUME NEW t \in Seq(S), NEW e \in S, t \in Q PROVE Append(t, e) \in Q
  <2>0. Only(t, K) \in Seq(S)
    BY OnlyType
  <2>1. \A u \in Seq(S) : In(Append(u, e)) <=> In(u) \/ x = e
    OBVIOUS
  <2>6. In(Only(t, K)) <=> x \in K /\ In(t)
    BY <1>2
  <2> HIDE DEF In
  <2>2. In(Append(t, e)) <=> In(t) \/ x = e
    BY <2>1
  <2>3. In(Append(Only(t, K), e)) <=> In(Only(t, K)) \/ x = e
    BY <2>0, <2>1
  <2>4. Only(Append(t, e), K) = IF e \in K THEN Append(Only(t, K), e) ELSE Only(t, K)
    BY OnlyAppend
  <2>5. Append(t, e) \in Seq(S)
    OBVIOUS
  <2>7. In(Only(Append(t, e), K)) <=> x \in K /\ In(Append(t, e))
    BY <2>2, <2>3, <2>4, <2>6
  <2> QED BY <2>5, <2>7
<1> HIDE DEF Q
<1>3. s \in Q
  BY <1>1, <1>2, SequenceInduction
<1> QED BY <1>3 DEF Q

(* A sequence that names nothing twice still does not.                      *)
LEMMA OnlyNamesOnce ==
  ASSUME NEW S, NEW s \in Seq(S), NEW K,
         \A i, j \in 1 .. Len(s) : s[i] = s[j] => i = j
  PROVE  \A i, j \in 1 .. Len(Only(s, K)) : Only(s, K)[i] = Only(s, K)[j] => i = j
<1> DEFINE Once(t) == \A i, j \in 1 .. Len(t) : t[i] = t[j] => i = j
           In(t, x) == \E i \in 1 .. Len(t) : t[i] = x
           Q == {t \in Seq(S) : Once(t) => Once(Only(t, K))}
<1>1. <<>> \in Q
  BY OnlyEmpty
<1>2. ASSUME NEW t \in Seq(S), NEW e \in S, t \in Q PROVE Append(t, e) \in Q
  <2>0. Only(t, K) \in Seq(S)
    BY OnlyType
  <2>7. Append(t, e) \in Seq(S)
    OBVIOUS
  <2>1. \A u \in Seq(S) : Once(Append(u, e)) <=> Once(u) /\ ~In(u, e)
    <3> SUFFICES ASSUME NEW u \in Seq(S)
                 PROVE  Once(Append(u, e)) <=> Once(u) /\ ~In(u, e)
      OBVIOUS
    <3>1. /\ Len(Append(u, e)) = Len(u) + 1 /\ Len(u) \in Nat
          /\ \A i \in 1 .. Len(u) : Append(u, e)[i] = u[i]
          /\ Append(u, e)[Len(u) + 1] = e
      OBVIOUS
    <3> QED BY <3>1
  <2>4. Only(Append(t, e), K) = IF e \in K THEN Append(Only(t, K), e) ELSE Only(t, K)
    BY OnlyAppend
  <2>5. In(Only(t, K), e) => In(t, e)
    <3>1. (\E i \in 1 .. Len(Only(t, K)) : Only(t, K)[i] = e)
            <=> e \in K /\ \E i \in 1 .. Len(t) : t[i] = e
      BY OnlyElements
    <3> QED BY <3>1
  <2> HIDE DEF Once, In
  <2>2. Once(Append(t, e)) <=> Once(t) /\ ~In(t, e)
    BY <2>1
  <2>3. Once(Append(Only(t, K), e)) <=> Once(Only(t, K)) /\ ~In(Only(t, K), e)
    BY <2>0, <2>1
  <2>6. Once(Append(t, e)) => Once(Only(Append(t, e), K))
    BY <1>2, <2>2, <2>3, <2>4, <2>5
  <2> QED BY <2>6, <2>7
<1> HIDE DEF Q
<1>3. s \in Q
  BY <1>1, <1>2, SequenceInduction
<1> QED BY <1>3 DEF Q

(* Every element goes to one of the two sides of a split.                   *)
LEMMA OnlySplit ==
  ASSUME NEW S, NEW s \in Seq(S), NEW K, NEW L, S \subseteq K \cup L, K \cap L \cap S = {}
  PROVE  Len(Only(s, K)) + Len(Only(s, L)) = Len(s)
<1> DEFINE Q == {t \in Seq(S) : Len(Only(t, K)) + Len(Only(t, L)) = Len(t)}
<1>1. <<>> \in Q
  BY OnlyEmpty
<1>2. ASSUME NEW t \in Seq(S), NEW e \in S, t \in Q PROVE Append(t, e) \in Q
  <2>1. /\ Only(t, K) \in Seq(S) /\ Only(t, L) \in Seq(S) /\ Append(t, e) \in Seq(S)
        /\ Len(Append(t, e)) = Len(t) + 1
    <3>1. Only(t, K) \in Seq(S \cap K) /\ Only(t, L) \in Seq(S \cap L)
      BY OnlyType
    <3> QED BY <3>1
  <2>2. Only(Append(t, e), K) = IF e \in K THEN Append(Only(t, K), e) ELSE Only(t, K)
    BY OnlyAppend
  <2>3. Only(Append(t, e), L) = IF e \in L THEN Append(Only(t, L), e) ELSE Only(t, L)
    BY OnlyAppend
  <2>4. /\ Len(Only(Append(t, e), K)) = IF e \in K THEN Len(Only(t, K)) + 1 ELSE Len(Only(t, K))
        /\ Len(Only(Append(t, e), L)) = IF e \in L THEN Len(Only(t, L)) + 1 ELSE Len(Only(t, L))
    BY <2>1, <2>2, <2>3
  <2>5. (e \in K /\ e \notin L) \/ (e \in L /\ e \notin K)
    OBVIOUS
  <2>6. Len(Only(t, K)) \in Nat /\ Len(Only(t, L)) \in Nat
    BY <2>1
  <2> QED BY <1>2, <2>1, <2>4, <2>5, <2>6
<1> HIDE DEF Q
<1>3. s \in Q
  BY <1>1, <1>2, SequenceInduction
<1> QED BY <1>3 DEF Q


(* What is left of what is left.                                            *)
LEMMA OnlyOnly ==
  ASSUME NEW S, NEW s \in Seq(S), NEW K, NEW L
  PROVE  Only(Only(s, K), L) = Only(s, K \cap L)
<1>0. PICK M : M = K \cap L
  OBVIOUS
<1> DEFINE Q == {t \in Seq(S) : Only(Only(t, K), L) = Only(t, M)}
<1>1. <<>> \in Q
  <2>1. Only(<<>>, K) = <<>> /\ Only(<<>>, L) = <<>> /\ Only(<<>>, M) = <<>>
    BY OnlyEmpty, Zenon
  <2>2. <<>> \in Seq(S)
    OBVIOUS
  <2> QED BY <2>1, <2>2
<1>2. ASSUME NEW t \in Seq(S), NEW e \in S, t \in Q PROVE Append(t, e) \in Q
  <2>1. Only(t, K) \in Seq(S)
    BY OnlyType
  <2>7. Append(t, e) \in Seq(S)
    OBVIOUS
  <2>2. Only(Append(t, e), K) = IF e \in K THEN Append(Only(t, K), e) ELSE Only(t, K)
    BY OnlyAppend
  <2>3. Only(Append(t, e), M) = IF e \in M THEN Append(Only(t, M), e) ELSE Only(t, M)
    BY OnlyAppend
  <2>4. Only(Append(Only(t, K), e), L)
          = IF e \in L THEN Append(Only(Only(t, K), L), e) ELSE Only(Only(t, K), L)
    BY <2>1, OnlyAppend
  <2>5. Only(Only(t, K), L) = Only(t, M)
    BY <1>2
  <2>6. Only(Only(Append(t, e), K), L) = Only(Append(t, e), M)
    BY <1>0, <2>2, <2>3, <2>4, <2>5
  <2> QED BY <2>6, <2>7
<1> HIDE DEF Q
<1>3. s \in Q
  BY <1>1, <1>2, SequenceInduction
<1> QED BY <1>0, <1>3 DEF Q

(* Nothing is left of what nobody asks for.                                 *)
LEMMA OnlyNone ==
  ASSUME NEW S, NEW s \in Seq(S)
  PROVE  Only(s, {}) = <<>>
<1>1. Only(s, {}) \in Seq(S \cap {})
  <2>1. ASSUME NEW K PROVE Only(s, K) \in Seq(S \cap K)
    BY OnlyType
  <2> QED BY <2>1, Zenon
<1>2. S \cap {} = {}
  OBVIOUS
<1>3. Only(s, {}) \in Seq({})
  BY <1>1, <1>2
<1>4. ASSUME NEW u \in Seq({}) PROVE u = <<>>
  <2>1. Len(u) = 0
    <3>1. Len(u) \in Nat /\ \A i \in 1 .. Len(u) : u[i] \in {}
      OBVIOUS
    <3>2. Len(u) # 0 => 1 \in 1 .. Len(u)
      BY <3>1
    <3> QED BY <3>1, <3>2
  <2> QED BY <2>1
<1> QED BY <1>3, <1>4

-------------------------------------------------------------------------------
(* A function defined by recursion over the naturals up to n exists: the    *)
(* step i takes the value before it to g[i] of it.                          *)
LEMMA IterationExists ==
  ASSUME NEW V, NEW z \in V, NEW n \in Nat, NEW g \in [1 .. n -> [V -> V]]
  PROVE  \E f \in [0 .. n -> V] : f[0] = z /\ \A i \in 1 .. n : f[i] = g[i][f[i - 1]]
<1> DEFINE Fn(m) == {f \in [0 .. m -> V] : f[0] = z /\ \A i \in 1 .. m : f[i] = g[i][f[i - 1]]}
           N == {m \in Nat : m <= n => Fn(m) # {}}
<1>1. Fn(0) # {}
  <2>1. [i \in 0 .. 0 |-> z] \in Fn(0)
    OBVIOUS
  <2> QED BY <2>1
<1>2. ASSUME NEW m \in Nat, m + 1 <= n, Fn(m) # {} PROVE Fn(m + 1) # {}
  <2>1. PICK h : h \in Fn(m)
    BY <1>2
  <2>2. PICK x : x = g[m + 1][h[m]]
    OBVIOUS
  <2> DEFINE f == [i \in 0 .. m + 1 |-> IF i = m + 1 THEN x ELSE h[i]]
  <2>3. x \in V
    <3>1. h[m] \in V /\ m + 1 \in 1 .. n
      BY <1>2, <2>1
    <3> QED BY <2>2, <3>1
  <2>4. f \in [0 .. m + 1 -> V]
    <3>1. h \in [0 .. m -> V]
      BY <2>1
    <3>2. \A i \in 0 .. m + 1 : i # m + 1 => i \in 0 .. m
      OBVIOUS
    <3> QED BY <2>3, <3>1, <3>2
  <2>5. f[0] = z
    BY <2>1
  <2>6. ASSUME NEW i \in 1 .. m + 1 PROVE f[i] = g[i][f[i - 1]]
    <3>1. CASE i = m + 1
      BY <2>2, <3>1
    <3>2. CASE i # m + 1
      <4>1. i \in 1 .. m /\ i - 1 \in 0 .. m /\ i \in 0 .. m
        BY <3>2
      <4>2. h[i] = g[i][h[i - 1]]
        BY <2>1, <4>1
      <4> QED BY <4>1, <4>2
    <3> QED BY <3>1, <3>2
  <2>7. f \in Fn(m + 1)
    BY <2>4, <2>5, <2>6
  <2> QED BY <2>7
<1> HIDE DEF Fn
<1>3. 0 \in N /\ \A m \in Nat : m \in N => m + 1 \in N
  BY <1>1, <1>2
<1> HIDE DEF N
<1>4. n \in N
  BY <1>3, SetInduction
<1>5. PICK f : f \in Fn(n)
  BY <1>4 DEF N
<1> QED BY <1>5 DEF Fn

(* Sequences of one length with the same elements are one sequence.        *)
LEMMA SameSequence ==
  ASSUME NEW S, NEW s \in Seq(S), NEW t \in Seq(S), Len(s) = Len(t),
         \A i \in 1..Len(s) : s[i] = t[i]
  PROVE  s = t
OBVIOUS

(* A nonempty set of bounded naturals has a greatest element.              *)
LEMMA Greatest ==
  ASSUME NEW n \in Nat, NEW S, S \subseteq 0 .. n, S # {}
  PROVE  \E x \in S : \A y \in S : x >= y
<1> DEFINE T == {n - i : i \in S}
<1>0. \A i \in S : i \in 0 .. n /\ n - i \in Nat
  OBVIOUS
<1>1. T \subseteq Nat /\ T # {}
  BY <1>0
<1>2. PICK m \in T : \A k \in T : m <= k
  BY <1>1, Least
<1>3. PICK x \in S : m = n - x
  OBVIOUS
<1>4. ASSUME NEW y \in S PROVE x >= y
  <2>1. n - y \in T
    OBVIOUS
  <2>2. m <= n - y
    BY <1>2, <2>1
  <2>3. n - x <= n - y /\ x \in Int /\ y \in Int
    <3> HIDE DEF T
    <3> QED BY <1>3, <2>2
  <2> QED BY <2>3
<1> QED BY <1>4

LEMMA AppendStays ==
  ASSUME NEW S, NEW s \in Seq(S), NEW e \in S PROVE Append(s, e) \in Seq(S)
OBVIOUS

(* Only of a sequence whose first n elements, and no others, are wanted.   *)
LEMMA OnlyPrefix ==
  ASSUME NEW S, NEW s \in Seq(S), NEW K, NEW n \in 0 .. Len(s),
         \A i \in 1 .. Len(s) : s[i] \in K <=> i <= n
  PROVE  Only(s, K) = SubSeq(s, 1, n)
<1> DEFINE Good(t) == \A m \in 0 .. Len(t) :
                        (\A i \in 1 .. Len(t) : t[i] \in K <=> i <= m) => Only(t, K) = SubSeq(t, 1, m)
           Q == {t \in Seq(S) : Good(t)}
<1>1. <<>> \in Q
  <2>1. Only(<<>>, K) = <<>>
    BY OnlyEmpty
  <2>2. \A m \in 0 .. Len(<<>>) : SubSeq(<<>>, 1, m) = <<>>
    OBVIOUS
  <2>3. Good(<<>>)
    BY <2>1, <2>2
  <2>4. <<>> \in Seq(S)
    OBVIOUS
  <2> QED BY <2>3, <2>4
<1>2. ASSUME NEW t \in Seq(S), NEW e \in S, t \in Q PROVE Append(t, e) \in Q
  <2>0. Good(t)
    BY <1>2
  <2> HIDE DEF Q, Good
  <2>1. PICK u \in Seq(S) : u = Append(t, e)
    BY AppendStays
  <2>2. /\ Len(u) = Len(t) + 1 /\ Len(t) \in Nat /\ u[Len(t) + 1] = e
        /\ \A i \in 1 .. Len(t) : u[i] = t[i]
    BY <2>1
  <2>3. ASSUME NEW m \in 0 .. Len(u), \A i \in 1 .. Len(u) : u[i] \in K <=> i <= m
        PROVE  Only(u, K) = SubSeq(u, 1, m)
    <3>1. CASE m = Len(u)
      <4>1. \A i \in 1 .. Len(t) : t[i] \in K <=> i <= Len(t)
        BY <2>2, <2>3, <3>1
      <4>6. SubSeq(t, 1, Len(t)) = t
        OBVIOUS
      <4>7. Len(t) \in 0 .. Len(t)
        BY <2>2
      <4>2. Only(t, K) = SubSeq(t, 1, Len(t)) /\ SubSeq(t, 1, Len(t)) = t
        BY <2>0, <4>1, <4>6, <4>7 DEF Good
      <4>3. e \in K
        BY <2>2, <2>3, <3>1
      <4>4. Only(u, K) = u
        BY <2>1, <4>2, <4>3, OnlyAppend
      <4>5. SubSeq(u, 1, Len(u)) = u
        OBVIOUS
      <4> QED BY <3>1, <4>4, <4>5
    <3>2. CASE m # Len(u)
      <4>1. m \in 0 .. Len(t)
        BY <2>2, <3>2
      <4>2. \A i \in 1 .. Len(t) : t[i] \in K <=> i <= m
        BY <2>2, <2>3
      <4>3. Only(t, K) = SubSeq(t, 1, m)
        BY <2>0, <4>1, <4>2 DEF Good
      <4>4. e \notin K
        BY <2>2, <2>3, <4>1
      <4>5. Only(u, K) = Only(t, K)
        BY <2>1, <4>4, OnlyAppend
      <4>6. SubSeq(u, 1, m) = SubSeq(t, 1, m)
        <5>1. PICK x \in Seq(S), y \in Seq(S) : x = SubSeq(u, 1, m) /\ y = SubSeq(t, 1, m)
          <6>1. SubSeq(u, 1, m) \in Seq(S)
            BY <2>2, <4>1
          <6>2. SubSeq(t, 1, m) \in Seq(S)
            BY <2>2, <4>1
          <6> QED BY <6>1, <6>2
        <5>2. Len(x) = m /\ Len(y) = m /\ \A i \in 1 .. m : x[i] = u[i] /\ y[i] = t[i]
          BY <2>2, <4>1, <5>1
        <5>3. \A i \in 1 .. Len(x) : x[i] = y[i]
          <6>1. \A i \in 1 .. m : i \in 1 .. Len(t)
            BY <2>2, <4>1
          <6> QED BY <2>2, <5>2, <6>1
        <5> QED BY <5>1, <5>2, <5>3, SameSequence
      <4> QED BY <4>3, <4>5, <4>6
    <3> QED BY <3>1, <3>2
  <2>4. Good(u)
    BY <2>3 DEF Good
  <2> QED BY <2>1, <2>4 DEF Q
<1> HIDE DEF Q, Good
<1>3. s \in Q
  BY <1>1, <1>2, SequenceInduction
<1>4. Good(s)
  BY <1>3 DEF Q
<1> QED BY <1>4 DEF Good

LEMMA OnlyUnwanted ==
  ASSUME NEW S, NEW s \in Seq(S), NEW K, \A i \in 1 .. Len(s) : s[i] \notin K
  PROVE  Only(s, K) = <<>>
<1>1. PICK t \in Seq(S) : t = Only(s, K)
  BY OnlyType
<1>2. ASSUME NEW i \in 1 .. Len(t) PROVE FALSE
  <2>1. PICK x : x = t[i]
    OBVIOUS
  <2>2. x \in K /\ \E j \in 1 .. Len(s) : s[j] = x
    BY <1>1, <2>1, OnlyElements
  <2> QED BY <2>2
<1>3. Len(t) = 0
  BY <1>2
<1> QED BY <1>1, <1>3

(* Only begins with the first element that is wanted.                      *)
LEMMA OnlyFirst ==
  ASSUME NEW S, NEW s \in Seq(S), NEW K, NEW i \in 1 .. Len(s), s[i] \in K,
         \A j \in 1 .. (i - 1) : s[j] \notin K
  PROVE  Only(s, K) # <<>> /\ Head(Only(s, K)) = s[i]
<1> DEFINE Good(t) == \A k \in 1 .. Len(t) :
                        t[k] \in K /\ (\A j \in 1 .. (k - 1) : t[j] \notin K)
                          => Len(Only(t, K)) >= 1 /\ Only(t, K)[1] = t[k]
           Q == {t \in Seq(S) : Good(t)}
<1>1. <<>> \in Q
  OBVIOUS
<1>2. ASSUME NEW t \in Seq(S), NEW e \in S, t \in Q PROVE Append(t, e) \in Q
  <2>0. Good(t)
    BY <1>2
  <2> HIDE DEF Q, Good
  <2>1. PICK u \in Seq(S) : u = Append(t, e)
    BY AppendStays
  <2>2. /\ Len(u) = Len(t) + 1 /\ Len(t) \in Nat /\ u[Len(t) + 1] = e
        /\ \A k \in 1 .. Len(t) : u[k] = t[k]
    BY <2>1
  <2>3. PICK o \in Seq(S) : o = Only(t, K)
    BY OnlyType
  <2>4. Only(u, K) = IF e \in K THEN Append(o, e) ELSE o
    BY <2>1, <2>3, OnlyAppend
  <2>5. ASSUME NEW k \in 1 .. Len(u), u[k] \in K, \A j \in 1 .. (k - 1) : u[j] \notin K
        PROVE  Len(Only(u, K)) >= 1 /\ Only(u, K)[1] = u[k]
    <3>1. CASE k = Len(u)
      <4>1. \A j \in 1 .. Len(t) : t[j] \notin K
        BY <2>2, <2>5, <3>1
      <4>2. o = <<>>
        BY <2>3, <4>1, OnlyUnwanted
      <4>3. Only(u, K) = <<e>> /\ u[k] = e
        BY <2>2, <2>4, <2>5, <3>1, <4>2
      <4> QED BY <4>3
    <3>2. CASE k # Len(u)
      <4>1. k \in 1 .. Len(t) /\ t[k] \in K /\ u[k] = t[k]
        BY <2>2, <2>5, <3>2
      <4>2. ASSUME NEW j \in 1 .. (k - 1) PROVE t[j] \notin K
        <5>1. u[j] \notin K
          BY <2>5
        <5>2. j \in 1 .. Len(t)
          BY ONLY <2>2, <4>1, j \in 1 .. (k - 1)
        <5> QED BY <2>2, <5>1, <5>2
      <4>3. Len(o) >= 1 /\ o[1] = t[k] /\ Len(o) \in Nat
        BY <2>0, <2>3, <4>1, <4>2 DEF Good
      <4>4. Len(Append(o, e)) >= 1 /\ Append(o, e)[1] = o[1]
        BY <4>3
      <4> QED BY <2>4, <4>1, <4>3, <4>4
    <3> QED BY <3>1, <3>2
  <2>6. Good(u)
    BY <2>5 DEF Good
  <2> QED BY <2>1, <2>6 DEF Q
<1> HIDE DEF Q
<1>3. s \in Q
  BY <1>1, <1>2, SequenceInduction
<1>4. Len(Only(s, K)) >= 1 /\ Only(s, K)[1] = s[i]
  BY <1>3 DEF Q
<1>5. PICK o \in Seq(S) : o = Only(s, K)
  BY OnlyType
<1>6. o # <<>> /\ Head(o) = o[1]
  BY <1>4, <1>5
<1> QED BY <1>4, <1>5, <1>6
=============================================================================
