---------------------------- MODULE ServicesProofs ----------------------------
(****************************************************************************)
(* Theorems about the services around the database, for every number of     *)
(* users, tasks, writers and every bound.                                   *)
(****************************************************************************)
EXTENDS Degradation, Recovery, Backup, Snapshots, DataLemmas

-------------------------------------------------------------------------------
(****************************************************************************)
(* The throttler.  What the users hold between two critical sections is     *)
(* added up as the size of a set with one element for each unit.            *)
(****************************************************************************)
Units(f) == UNION {{u} \X (1 .. f[u]) : u \in DOMAIN f}
Held(f)  == Cardinality(Units(f))

LEMMA UnitsOfNone ==
  ASSUME NEW U, NEW f, f = [u \in U |-> 0] PROVE IsFiniteSet(Units(f)) /\ Held(f) = 0
<1>1. Units(f) = {}
  BY DEF Units
<1> QED BY <1>1, FS_EmptySet, Zenon DEF Held

(* A change of one user's share changes the sum by as much.                 *)
Moved(U, f, u, n, g) ==
  /\ IsFiniteSet(Units(g)) /\ g \in [U -> Nat]
  /\ Held(f) \in Nat /\ Held(g) \in Nat /\ f[u] \in Nat /\ f[u] <= Held(f)
  /\ Held(g) = Held(f) - f[u] + n

LEMMA UnitsChange ==
  ASSUME NEW U, NEW f \in [U -> Nat], IsFiniteSet(Units(f)), NEW u \in U, NEW n \in Nat,
         NEW g, g = [f EXCEPT ![u] = n]
  PROVE  Moved(U, f, u, n, g)
<1> DEFINE Others == UNION {{v} \X (1 .. f[v]) : v \in U \ {u}}
           Mine(m) == {u} \X (1 .. m)
<1>1. f[u] \in Nat /\ g \in [U -> Nat] /\ g[u] = n /\ \A v \in U \ {u} : g[v] = f[v]
  OBVIOUS
<1>2. Units(f) = Others \cup Mine(f[u]) /\ Units(g) = Others \cup Mine(n)
  <2> DEFINE Share(h, v) == {v} \X (1 .. h[v])
  <2>1. DOMAIN f = U /\ DOMAIN g = U
    BY <1>1
  <2>2. Share(f, u) = Mine(f[u]) /\ Share(g, u) = Mine(n) /\ \A v \in U \ {u} : Share(g, v) = Share(f, v)
    BY <1>1
  <2>3. Units(f) = UNION {Share(f, v) : v \in U} /\ Units(g) = UNION {Share(g, v) : v \in U}
        /\ Others = UNION {Share(f, v) : v \in U \ {u}}
    BY <2>1 DEF Units
  <2> HIDE DEF Share, Mine, Others
  <2> QED BY <2>2, <2>3
<1>3. ASSUME NEW m \in Nat
      PROVE  IsFiniteSet(Mine(m)) /\ Cardinality(Mine(m)) = m /\ Others \cap Mine(m) = {}
  <2>1. IsFiniteSet(1 .. m) /\ Cardinality(1 .. m) = m
    <3>1. 1 \in Int /\ m \in Int
      OBVIOUS
    <3>2. IsFiniteSet(1 .. m) /\ Cardinality(1 .. m) = IF 1 > m THEN 0 ELSE m - 1 + 1
      BY <3>1, FS_Interval
    <3> QED BY <3>2
  <2>2. IsFiniteSet({u}) /\ Cardinality({u}) = 1
    BY FS_Singleton
  <2>3. IsFiniteSet(Mine(m)) /\ Cardinality(Mine(m)) = m
    <3>1. /\ IsFiniteSet({u} \X (1 .. m))
          /\ Cardinality({u} \X (1 .. m)) = Cardinality({u}) * Cardinality(1 .. m)
      BY <2>1, <2>2, FS_Product, Zenon
    <3>2. Cardinality({u}) * Cardinality(1 .. m) = 1 * m
      BY <2>1, <2>2, Zenon
    <3>3. 1 * m = m
      OBVIOUS
    <3> QED BY <3>1, <3>2, <3>3, Zenon
  <2>4. \A x \in Mine(m) : x[1] = u
    OBVIOUS
  <2>5. \A x \in Others : x[1] # u
    <3> SUFFICES ASSUME NEW v \in U \ {u}, NEW x \in {v} \X (1 .. f[v]) PROVE x[1] # u
      OBVIOUS
    <3> QED OBVIOUS
  <2>6. Others \cap Mine(m) = {}
    <3> HIDE DEF Others, Mine
    <3> QED BY <2>4, <2>5
  <2> QED BY <2>3, <2>6
<1>4. IsFiniteSet(Others) /\ Cardinality(Others) \in Nat
  <2>1. Others \in SUBSET Units(f)
    BY <1>2
  <2> QED BY <2>1, FS_Subset, FS_CardinalityType
<1> HIDE DEF Others, Mine
<1>5. ASSUME NEW m \in Nat
      PROVE  IsFiniteSet(Others \cup Mine(m)) /\ Cardinality(Others \cup Mine(m)) = Cardinality(Others) + m
  <2>1. /\ IsFiniteSet(Others \cup Mine(m))
        /\ Cardinality(Others \cup Mine(m)) =
             Cardinality(Others) + Cardinality(Mine(m)) - Cardinality(Others \cap Mine(m))
    BY <1>3, <1>4, FS_Union
  <2>2. Cardinality(Others \cap Mine(m)) = 0
    BY <1>3, FS_EmptySet, Zenon
  <2>3. Cardinality(Mine(m)) = m
    BY <1>3
  <2> QED BY <1>4, <2>1, <2>2, <2>3
<1>6. Held(f) = Cardinality(Others) + f[u] /\ Held(g) = Cardinality(Others) + n
      /\ IsFiniteSet(Units(g))
  BY <1>1, <1>2, <1>5 DEF Held
<1> QED BY <1>1, <1>4, <1>6 DEF Moved

(* The bucket's inductive invariant: what was spent, what reservations hold *)
(* and the tokens, with the time that is not yet turned into tokens, never  *)
(* exceed what time and resets have given; and a user outside refill has    *)
(* claimed nothing, one inside a call holds no reservation.                 *)
Given == BurstSize * (1 + bucketResets) + RateLimit * clock
BucketInd ==
  /\ tokens \in Nat /\ unclaimed \in Nat /\ used \in Nat /\ clock \in Nat /\ bucketResets \in Nat
  /\ turn \in [Users -> {"idle", "refill", "spend"}]
  /\ claim \in [Users -> Nat] /\ reserved \in [Users -> Nat]
  /\ \A u \in Users : turn[u] # "refill" => claim[u] = 0
  /\ \A u \in Users : turn[u] # "idle" => reserved[u] = 0
  /\ IsFiniteSet(Units(claim)) /\ IsFiniteSet(Units(reserved))
  /\ used + Held(reserved) + tokens + RateLimit * (unclaimed + Held(claim)) <= Given

LEMMA Distribute ==
  ASSUME NEW a \in Nat, NEW b \in Nat, NEW c \in Nat PROVE a * (b + c) = a * b + a * c
OBVIOUS

LEMMA Across ==
  ASSUME NEW a \in Nat, NEW b \in Nat, NEW c \in Nat, NEW d \in Nat, NEW h \in Nat, a + b <= c + d
  PROVE  a + h + b <= c + h + d
OBVIOUS

LEMMA BucketInitInd == BucketInit => BucketInd
<1> SUFFICES ASSUME BucketInit PROVE BucketInd
  OBVIOUS
<1>1. IsFiniteSet(Units(claim)) /\ Held(claim) = 0 /\ IsFiniteSet(Units(reserved)) /\ Held(reserved) = 0
  BY UnitsOfNone DEF BucketInit
<1>2. used + Held(reserved) + tokens + RateLimit * (unclaimed + Held(claim)) <= Given
  <2>1. used = 0 /\ tokens = BurstSize /\ unclaimed = 0 /\ clock = 0 /\ bucketResets = 0
    BY DEF BucketInit
  <2>2. RateLimit * 0 = 0 /\ BurstSize * (1 + 0) = BurstSize /\ BurstSize \in Nat
    BY DegradationBounds
  <2>3. RateLimit * (unclaimed + Held(claim)) = 0 /\ Given = BurstSize
    BY <1>1, <2>1, <2>2 DEF Given
  <2> QED BY <1>1, <2>1, <2>2, <2>3
<1> QED BY <1>1, <1>2, DegradationBounds DEF BucketInit, BucketInd

(* The sum, in its parts.                                                   *)
LEMMA BucketParts ==
  ASSUME BucketInd
  PROVE  /\ Held(claim) \in Nat /\ Held(reserved) \in Nat /\ Given \in Nat
         /\ RateLimit \in Nat /\ BurstSize \in Nat
         /\ RateLimit * unclaimed \in Nat /\ RateLimit * Held(claim) \in Nat
         /\ used + Held(reserved) + tokens + RateLimit * unclaimed + RateLimit * Held(claim) <= Given
<1>1. Held(claim) \in Nat /\ Held(reserved) \in Nat
  BY FS_CardinalityType DEF BucketInd, Held
<1>2. RateLimit \in Nat /\ BurstSize \in Nat
  BY DegradationBounds
<1>3. tokens \in Nat /\ unclaimed \in Nat /\ used \in Nat /\ clock \in Nat /\ bucketResets \in Nat
  BY DEF BucketInd
<1>4. Given \in Nat
  BY <1>2, <1>3 DEF Given
<1>5. RateLimit * (unclaimed + Held(claim)) = RateLimit * unclaimed + RateLimit * Held(claim)
  BY <1>1, <1>2, <1>3, Distribute
<1>6. RateLimit * unclaimed \in Nat /\ RateLimit * Held(claim) \in Nat
  BY <1>1, <1>2, <1>3
<1>7. used + Held(reserved) + tokens + RateLimit * (unclaimed + Held(claim)) <= Given
  BY DEF BucketInd
<1>8. ASSUME NEW a \in Nat, NEW b \in Nat, NEW c \in Nat, c = a + b
      PROVE  used + Held(reserved) + tokens + c = used + Held(reserved) + tokens + a + b
  BY <1>1, <1>3, <1>8
<1> QED BY <1>1, <1>2, <1>4, <1>5, <1>6, <1>7, <1>8

(* What a step must show: the sum in its parts.                            *)
LEMMA SumOfParts ==
  ASSUME NEW n \in Nat, NEW x \in Nat, NEW y \in Nat, NEW g \in Nat,
         n + RateLimit * x + RateLimit * y <= g
  PROVE  n + RateLimit * (x + y) <= g
<1>1. RateLimit \in Nat
  BY DegradationBounds
<1>2. RateLimit * (x + y) = RateLimit * x + RateLimit * y
  BY <1>1, Distribute
<1>3. PICK a \in Nat : a = RateLimit * x
  BY <1>1
<1>4. PICK b \in Nat : b = RateLimit * y
  BY <1>1
<1>5. n + a + b <= g
  BY <1>3, <1>4
<1>6. n + (a + b) <= g
  BY <1>5
<1> QED BY <1>2, <1>3, <1>4, <1>6

LEMMA GivenSteps ==
  ASSUME BucketInd, NEW g, g = Given
  PROVE  /\ BurstSize * (1 + bucketResets) + RateLimit * (clock + 1) = g + RateLimit
         /\ BurstSize * (1 + (bucketResets + 1)) + RateLimit * clock = g + BurstSize
         /\ RateLimit * (unclaimed + 1) = RateLimit * unclaimed + RateLimit
<1>1. RateLimit \in Nat /\ BurstSize \in Nat /\ clock \in Nat /\ bucketResets \in Nat /\ unclaimed \in Nat
  BY DegradationBounds DEF BucketInd
<1>2. RateLimit * 1 = RateLimit /\ BurstSize * 1 = BurstSize
  BY <1>1
<1>3. RateLimit * (clock + 1) = RateLimit * clock + RateLimit
  BY <1>1, <1>2, Distribute
<1>4. RateLimit * (unclaimed + 1) = RateLimit * unclaimed + RateLimit
  BY <1>1, <1>2, Distribute
<1>5. BurstSize * (1 + (bucketResets + 1)) = BurstSize * (1 + bucketResets) + BurstSize
  <2>1. 1 + (bucketResets + 1) = (1 + bucketResets) + 1 /\ 1 + bucketResets \in Nat
    BY <1>1
  <2> QED BY <1>1, <1>2, <2>1, Distribute
<1>6. PICK a \in Nat : a = RateLimit * clock
  BY <1>1
<1>7. PICK b \in Nat : b = BurstSize * (1 + bucketResets)
  BY <1>1
<1>8. g = b + a
  BY <1>6, <1>7 DEF Given
<1> QED BY <1>1, <1>3, <1>4, <1>5, <1>6, <1>7, <1>8

LEMMA BucketTick == ASSUME BucketInd, Tick PROVE BucketInd'
<1>1. clock' = clock + 1 /\ unclaimed' = unclaimed + 1
      /\ tokens' = tokens /\ turn' = turn /\ claim' = claim /\ reserved' = reserved
      /\ used' = used /\ bucketResets' = bucketResets
  BY DEF Tick
<1>2. Held(claim)' = Held(claim) /\ Held(reserved)' = Held(reserved)
      /\ Units(claim)' = Units(claim) /\ Units(reserved)' = Units(reserved)
  BY <1>1 DEF Held, Units
<1>3. PICK g : g = Given
  OBVIOUS
<1>4. Given' = g + RateLimit /\ RateLimit * unclaimed' = RateLimit * unclaimed + RateLimit
  BY <1>1, <1>3, GivenSteps DEF Given
<1>5. PICK a \in Nat : a = RateLimit * unclaimed
  BY BucketParts
<1>6. PICK b \in Nat : b = RateLimit * Held(claim)
  BY BucketParts
<1>7. used + Held(reserved) + tokens + a + b <= g /\ g \in Nat /\ RateLimit \in Nat
      /\ Held(claim) \in Nat /\ Held(reserved) \in Nat
  BY <1>3, <1>5, <1>6, BucketParts
<1>8. tokens \in Nat /\ unclaimed \in Nat /\ used \in Nat /\ clock \in Nat /\ bucketResets \in Nat
  BY DEF BucketInd
<1>9. used + Held(reserved) + tokens + (a + RateLimit) + b <= g + RateLimit
  BY <1>7, <1>8
<1>10. used' + Held(reserved)' + tokens' + RateLimit * unclaimed' + RateLimit * Held(claim)' <= Given'
  BY <1>1, <1>2, <1>4, <1>5, <1>6, <1>9
<1>11. used' + Held(reserved)' + tokens' + RateLimit * (unclaimed' + Held(claim)') <= Given'
  <2>1. used' + Held(reserved)' + tokens' \in Nat /\ unclaimed' \in Nat /\ Held(claim)' \in Nat /\ Given' \in Nat
    BY <1>1, <1>2, <1>4, <1>7, <1>8
  <2> QED BY <1>10, <2>1, SumOfParts
<1> QED BY <1>1, <1>2, <1>8, <1>11 DEF BucketInd

(* What stands still at a step of a user: everything but what the step says. *)
LEMMA BucketUser ==
  ASSUME BucketInd, NEW u \in Users, NEW n \in Nat
  PROVE  /\ claim' = [claim EXCEPT ![u] = n] =>
              /\ IsFiniteSet(Units(claim)') /\ claim' \in [Users -> Nat]
              /\ Held(claim)' \in Nat /\ claim[u] <= Held(claim)
              /\ Held(claim)' = Held(claim) - claim[u] + n
         /\ reserved' = [reserved EXCEPT ![u] = n] =>
              /\ IsFiniteSet(Units(reserved)') /\ reserved' \in [Users -> Nat]
              /\ Held(reserved)' \in Nat /\ reserved[u] <= Held(reserved)
              /\ Held(reserved)' = Held(reserved) - reserved[u] + n
         /\ claim' = claim => Units(claim)' = Units(claim) /\ Held(claim)' = Held(claim)
         /\ reserved' = reserved => Units(reserved)' = Units(reserved) /\ Held(reserved)' = Held(reserved)
<1>1. claim \in [Users -> Nat] /\ reserved \in [Users -> Nat]
      /\ IsFiniteSet(Units(claim)) /\ IsFiniteSet(Units(reserved))
  BY DEF BucketInd
<1>2. ASSUME NEW g, g = claim'
      PROVE  Units(claim)' = Units(g) /\ Held(claim)' = Held(g)
  BY <1>2 DEF Units, Held
<1>3. ASSUME NEW g, g = reserved'
      PROVE  Units(reserved)' = Units(g) /\ Held(reserved)' = Held(g)
  BY <1>3 DEF Units, Held
<1>4. PICK c : c = claim'
  OBVIOUS
<1>5. PICK r : r = reserved'
  OBVIOUS
<1>6. ASSUME c = [claim EXCEPT ![u] = n]
      PROVE  /\ IsFiniteSet(Units(c)) /\ c \in [Users -> Nat]
             /\ Held(c) \in Nat /\ claim[u] <= Held(claim) /\ Held(c) = Held(claim) - claim[u] + n
  <2>1. PICK f \in [Users -> Nat] : f = claim
    BY <1>1
  <2>2. IsFiniteSet(Units(f)) /\ c = [f EXCEPT ![u] = n]
    BY <1>1, <1>6, <2>1
  <2>3. Moved(Users, f, u, n, c)
    BY <2>2, UnitsChange
  <2> QED BY <2>1, <2>3 DEF Moved
<1>7. ASSUME r = [reserved EXCEPT ![u] = n]
      PROVE  /\ IsFiniteSet(Units(r)) /\ r \in [Users -> Nat]
             /\ Held(r) \in Nat /\ reserved[u] <= Held(reserved) /\ Held(r) = Held(reserved) - reserved[u] + n
  <2>1. PICK f \in [Users -> Nat] : f = reserved
    BY <1>1
  <2>2. IsFiniteSet(Units(f)) /\ r = [f EXCEPT ![u] = n]
    BY <1>1, <1>7, <2>1
  <2>3. Moved(Users, f, u, n, r)
    BY <2>2, UnitsChange
  <2> QED BY <2>1, <2>3 DEF Moved
<1> QED BY <1>2, <1>3, <1>4, <1>5, <1>6, <1>7

LEMMA BucketClaim == ASSUME BucketInd, NEW u \in Users, RefillClaim(u) PROVE BucketInd'
<1>1. /\ turn[u] = "idle" /\ turn' = [turn EXCEPT ![u] = "refill"]
      /\ claim' = [claim EXCEPT ![u] = unclaimed] /\ unclaimed' = 0 /\ reserved[u] = 0
      /\ tokens' = tokens /\ reserved' = reserved /\ used' = used /\ clock' = clock
      /\ bucketResets' = bucketResets
  BY DEF RefillClaim
<1>2. /\ tokens \in Nat /\ unclaimed \in Nat /\ used \in Nat /\ clock \in Nat /\ bucketResets \in Nat
      /\ turn \in [Users -> {"idle", "refill", "spend"}]
      /\ claim \in [Users -> Nat] /\ reserved \in [Users -> Nat]
      /\ IsFiniteSet(Units(claim)) /\ IsFiniteSet(Units(reserved))
      /\ Held(claim) \in Nat /\ Held(reserved) \in Nat
  BY BucketParts DEF BucketInd
<1>3. claim[u] = 0
  BY <1>1 DEF BucketInd
<1>4. /\ IsFiniteSet(Units(claim)') /\ claim' \in [Users -> Nat] /\ Held(claim)' \in Nat
      /\ Held(claim)' = Held(claim) - claim[u] + unclaimed
      /\ Units(reserved)' = Units(reserved) /\ Held(reserved)' = Held(reserved)
  BY <1>1, <1>2, BucketUser
<1>5. unclaimed' + Held(claim)' = unclaimed + Held(claim)
  BY <1>1, <1>2, <1>3, <1>4
<1>6. Given' = Given
  BY <1>1 DEF Given
<1>7. (used + Held(reserved) + tokens + RateLimit * (unclaimed + Held(claim)) <= Given)'
  BY <1>1, <1>4, <1>5, <1>6 DEF BucketInd
<1>8. turn' \in [Users -> {"idle", "refill", "spend"}]
  BY <1>1, <1>2
<1>9. \A v \in Users : turn'[v] # "refill" => claim'[v] = 0
  BY <1>1, <1>2 DEF BucketInd
<1>10. \A v \in Users : turn'[v] # "idle" => reserved'[v] = 0
  BY <1>1, <1>2 DEF BucketInd
<1> QED BY <1>1, <1>2, <1>4, <1>7, <1>8, <1>9, <1>10 DEF BucketInd

LEMMA BucketAdd == ASSUME BucketInd, NEW u \in Users, RefillAdd(u) PROVE BucketInd'
<1>1. /\ turn[u] = "refill" /\ turn' = [turn EXCEPT ![u] = "spend"]
      /\ claim' = [claim EXCEPT ![u] = 0] /\ unclaimed' = unclaimed
      /\ tokens' = UpTo(tokens + claim[u] * RateLimit, BurstSize)
      /\ reserved' = reserved /\ used' = used /\ clock' = clock /\ bucketResets' = bucketResets
  BY DEF RefillAdd
<1>2. /\ tokens \in Nat /\ unclaimed \in Nat /\ used \in Nat /\ clock \in Nat /\ bucketResets \in Nat
      /\ turn \in [Users -> {"idle", "refill", "spend"}]
      /\ claim \in [Users -> Nat] /\ reserved \in [Users -> Nat]
      /\ IsFiniteSet(Units(claim)) /\ IsFiniteSet(Units(reserved))
      /\ Held(claim) \in Nat /\ Held(reserved) \in Nat /\ RateLimit \in Nat /\ BurstSize \in Nat
      /\ claim[u] \in Nat
  BY BucketParts DEF BucketInd
<1>4. /\ IsFiniteSet(Units(claim)') /\ claim' \in [Users -> Nat] /\ Held(claim)' \in Nat
      /\ Held(claim)' = Held(claim) - claim[u] + 0
      /\ Units(reserved)' = Units(reserved) /\ Held(reserved)' = Held(reserved)
  BY <1>1, <1>2, BucketUser
<1>5. PICK h \in Nat : h = Held(claim)'
  BY <1>4
<1>6. PICK q \in Nat : q = RateLimit * claim[u]
  BY <1>2
<1>7. PICK p \in Nat : p = RateLimit * (unclaimed + h)
  BY <1>2
<1>8. RateLimit * (unclaimed + Held(claim)) = p + q
  <2>1. unclaimed + Held(claim) = (unclaimed + h) + claim[u] /\ unclaimed + h \in Nat
    BY <1>2, <1>4, <1>5
  <2> QED BY <1>2, <1>6, <1>7, <2>1, Distribute
<1>9. claim[u] * RateLimit = q
  BY <1>2, <1>6
<1>10. tokens' \in Nat /\ tokens' <= tokens + q
  BY <1>1, <1>2, <1>9 DEF UpTo
<1>11. Given' = Given /\ Given \in Nat
  BY <1>1, BucketParts DEF Given
<1>12. used + Held(reserved) + tokens + (p + q) <= Given
  BY <1>8 DEF BucketInd
<1>13. used + Held(reserved) + tokens' + p <= Given
  BY <1>2, <1>10, <1>11, <1>12
<1>14. (used + Held(reserved) + tokens + RateLimit * (unclaimed + Held(claim)) <= Given)'
  BY <1>1, <1>4, <1>5, <1>7, <1>11, <1>13
<1>15. turn' \in [Users -> {"idle", "refill", "spend"}]
  BY <1>1, <1>2
<1>16. \A v \in Users : turn'[v] # "refill" => claim'[v] = 0
  BY <1>1, <1>2 DEF BucketInd
<1>17. \A v \in Users : turn'[v] # "idle" => reserved'[v] = 0
  BY <1>1, <1>2 DEF BucketInd
<1> QED BY <1>1, <1>2, <1>4, <1>10, <1>14, <1>15, <1>16, <1>17 DEF BucketInd

(* The steps that leave time alone move tokens between the bucket, the      *)
(* reservations and what was spent.                                         *)
TokensMove ==
  /\ tokens' \in Nat /\ used' \in Nat /\ turn' \in [Users -> {"idle", "refill", "spend"}]
  /\ reserved' \in [Users -> Nat] /\ IsFiniteSet(Units(reserved)') /\ Held(reserved)' \in Nat
  /\ \A v \in Users : turn'[v] # "refill" => claim'[v] = 0
  /\ \A v \in Users : turn'[v] # "idle" => reserved'[v] = 0
  /\ used' + Held(reserved)' + tokens' <= used + Held(reserved) + tokens

LEMMA BucketSpend ==
  ASSUME BucketInd, NEW u \in Users,
         \/ \E cost \in Cost : Acquire(u, cost) \/ Reserve(u, cost)
         \/ Consume(u) \/ Cancel(u) \/ DropLocked(u)
  PROVE  BucketInd'
<1>1. unclaimed' = unclaimed /\ claim' = claim /\ clock' = clock /\ bucketResets' = bucketResets
  BY DEF Acquire, Reserve, Consume, Cancel, DropLocked
<1>2. /\ tokens \in Nat /\ unclaimed \in Nat /\ used \in Nat /\ clock \in Nat /\ bucketResets \in Nat
      /\ turn \in [Users -> {"idle", "refill", "spend"}]
      /\ claim \in [Users -> Nat] /\ reserved \in [Users -> Nat]
      /\ IsFiniteSet(Units(claim)) /\ IsFiniteSet(Units(reserved))
      /\ Held(claim) \in Nat /\ Held(reserved) \in Nat /\ BurstSize \in Nat /\ reserved[u] \in Nat
  BY BucketParts DEF BucketInd
<1>3. Units(claim)' = Units(claim) /\ Held(claim)' = Held(claim) /\ Given' = Given /\ Given \in Nat
  BY <1>1, BucketUser, BucketParts DEF Given
<1>4. PICK p \in Nat : p = RateLimit * (unclaimed + Held(claim))
  BY <1>2, DegradationBounds
<1>5. used + Held(reserved) + tokens + p <= Given
  BY <1>4 DEF BucketInd
<1>6. TokensMove
  <2>1. ASSUME NEW cost \in Cost, Acquire(u, cost) PROVE TokensMove
    <3>1. cost \in Nat
      BY <1>2 DEF Cost
    <3>2. reserved' = reserved /\ turn[u] = "spend" /\ turn' = [turn EXCEPT ![u] = "idle"]
      BY <2>1 DEF Acquire
    <3>3. tokens' \in Nat /\ used' \in Nat /\ used' + tokens' <= used + tokens
      BY <1>2, <2>1, <3>1 DEF Acquire
    <3>4. Units(reserved)' = Units(reserved) /\ Held(reserved)' = Held(reserved)
      BY <3>2, BucketUser
    <3>5. used' + Held(reserved)' + tokens' <= used + Held(reserved) + tokens
      <4>1. PICK h \in Nat : h = Held(reserved)
        BY <1>2
      <4>2. used' \in Nat /\ tokens' \in Nat /\ used \in Nat /\ tokens \in Nat
        BY <1>2, <3>3
      <4>3. used' + h + tokens' <= used + h + tokens
        BY <3>3, <4>2, Across
      <4> QED BY <3>4, <4>1, <4>3
    <3>6. \A v \in Users : turn'[v] # "refill" => claim'[v] = 0
      BY <1>1, <1>2, <3>2 DEF BucketInd
    <3>7. \A v \in Users : turn'[v] # "idle" => reserved'[v] = 0
      BY <1>1, <1>2, <3>2 DEF BucketInd
    <3>8. turn' \in [Users -> {"idle", "refill", "spend"}]
      BY <1>2, <3>2
    <3> QED BY <1>2, <3>2, <3>3, <3>4, <3>5, <3>6, <3>7, <3>8 DEF TokensMove
  <2>2. ASSUME NEW cost \in Cost, Reserve(u, cost) PROVE TokensMove
    <3>1. cost \in Nat
      BY <1>2 DEF Cost
    <3>2. used' = used /\ turn[u] = "spend" /\ turn' = [turn EXCEPT ![u] = "idle"]
      BY <2>2 DEF Reserve
    <3>3. reserved[u] = 0
      BY <3>2 DEF BucketInd
    <3>4. \A v \in Users : turn'[v] # "refill" => claim'[v] = 0
      BY <1>1, <1>2, <3>2 DEF BucketInd
    <3>5. turn' \in [Users -> {"idle", "refill", "spend"}]
      BY <1>2, <3>2
    <3>6. CASE tokens >= cost
      <4>1. tokens' = tokens - cost /\ reserved' = [reserved EXCEPT ![u] = cost]
        BY <2>2, <3>6 DEF Reserve
      <4>2. /\ IsFiniteSet(Units(reserved)') /\ reserved' \in [Users -> Nat] /\ Held(reserved)' \in Nat
            /\ Held(reserved)' = Held(reserved) - reserved[u] + cost
        BY <3>1, <4>1, BucketUser
      <4>3. tokens' \in Nat
        BY <1>2, <3>1, <3>6, <4>1
      <4>4. used' + Held(reserved)' + tokens' <= used + Held(reserved) + tokens
        BY <1>2, <3>1, <3>2, <3>3, <4>1, <4>2
      <4>5. \A v \in Users : turn'[v] # "idle" => reserved'[v] = 0
        BY <1>2, <3>2, <4>1 DEF BucketInd
      <4> QED BY <1>2, <3>2, <3>4, <3>5, <4>2, <4>3, <4>4, <4>5 DEF TokensMove
    <3>7. CASE ~(tokens >= cost)
      <4>1. tokens' = tokens /\ reserved' = reserved
        BY <2>2, <3>7 DEF Reserve
      <4>2. Units(reserved)' = Units(reserved) /\ Held(reserved)' = Held(reserved)
        BY <4>1, BucketUser
      <4>3. \A v \in Users : turn'[v] # "idle" => reserved'[v] = 0
        BY <1>2, <3>2, <4>1 DEF BucketInd
      <4> QED BY <1>2, <3>2, <3>4, <3>5, <4>1, <4>2, <4>3 DEF TokensMove
    <3> QED BY <3>6, <3>7
  <2>3. ASSUME Consume(u) \/ Cancel(u) \/ DropLocked(u) PROVE TokensMove
    <3>1. turn' = turn /\ reserved' = [reserved EXCEPT ![u] = 0]
      BY <2>3 DEF Consume, Cancel, DropLocked
    <3>2. /\ IsFiniteSet(Units(reserved)') /\ reserved' \in [Users -> Nat] /\ Held(reserved)' \in Nat
          /\ reserved[u] <= Held(reserved) /\ Held(reserved)' = Held(reserved) - reserved[u] + 0
      BY <3>1, BucketUser
    <3>3. tokens' \in Nat /\ used' \in Nat /\ used' + tokens' <= used + tokens + reserved[u]
      BY <1>2, <2>3 DEF Consume, Cancel, DropLocked, UpTo
    <3>4. used' + Held(reserved)' + tokens' <= used + Held(reserved) + tokens
      BY <1>2, <3>2, <3>3
    <3>5. \A v \in Users : turn'[v] # "refill" => claim'[v] = 0
      BY <1>1, <3>1 DEF BucketInd
    <3>6. \A v \in Users : turn'[v] # "idle" => reserved'[v] = 0
      BY <1>2, <3>1 DEF BucketInd
    <3> QED BY <1>2, <3>1, <3>2, <3>3, <3>4, <3>5, <3>6 DEF TokensMove
  <2> QED BY <2>1, <2>2, <2>3
<1>7. used' + Held(reserved)' + tokens' + p <= Given
  BY <1>2, <1>3, <1>4, <1>5, <1>6 DEF TokensMove
<1>8. (used + Held(reserved) + tokens + RateLimit * (unclaimed + Held(claim)) <= Given)'
  BY <1>1, <1>3, <1>4, <1>7
<1> QED BY <1>1, <1>2, <1>3, <1>6, <1>8 DEF BucketInd, TokensMove

LEMMA BucketReset == ASSUME BucketInd, ResetBucket PROVE BucketInd'
<1>1. /\ bucketResets' = bucketResets + 1 /\ tokens' = BurstSize /\ unclaimed' = 0
      /\ turn' = turn /\ claim' = claim /\ reserved' = reserved /\ used' = used /\ clock' = clock
  BY DEF ResetBucket
<1>2. Held(claim)' = Held(claim) /\ Held(reserved)' = Held(reserved)
      /\ Units(claim)' = Units(claim) /\ Units(reserved)' = Units(reserved)
  BY <1>1 DEF Held, Units
<1>3. PICK g : g = Given
  OBVIOUS
<1>4. Given' = g + BurstSize
  BY <1>1, <1>3, GivenSteps DEF Given
<1>5. PICK a \in Nat : a = RateLimit * unclaimed
  BY BucketParts
<1>6. PICK b \in Nat : b = RateLimit * Held(claim)
  BY BucketParts
<1>7. used + Held(reserved) + tokens + a + b <= g /\ g \in Nat /\ BurstSize \in Nat
      /\ Held(claim) \in Nat /\ Held(reserved) \in Nat
  BY <1>3, <1>5, <1>6, BucketParts
<1>8. tokens \in Nat /\ used \in Nat /\ clock \in Nat /\ bucketResets \in Nat
  BY DEF BucketInd
<1>9. used + Held(reserved) + BurstSize + b <= g + BurstSize
  BY <1>7, <1>8
<1>10. RateLimit * (0 + Held(claim)) = b
  BY <1>6, <1>7
<1>11. (used + Held(reserved) + tokens + RateLimit * (unclaimed + Held(claim)) <= Given)'
  BY <1>1, <1>2, <1>4, <1>9, <1>10
<1> QED BY <1>1, <1>2, <1>7, <1>8, <1>11 DEF BucketInd

LEMMA BucketStepInd == BucketInd /\ [BucketNext]_bucketVars => BucketInd'
<1> SUFFICES ASSUME BucketInd, [BucketNext]_bucketVars PROVE BucketInd'
  OBVIOUS
<1>1. CASE UNCHANGED bucketVars
  BY <1>1 DEF bucketVars, BucketInd, Given, Units, Held
<1>2. CASE BucketNext
  BY <1>2, BucketTick, BucketClaim, BucketAdd, BucketSpend, BucketReset DEF BucketNext
<1> QED BY <1>1, <1>2

(* The throttler (Throttler, acquire, reserve, ThrottleReservation): what   *)
(* went ahead and what may still go ahead on any one reservation stays      *)
(* within the burst and the rate, for every number of threads, rate, burst  *)
(* and number of resets.                                                    *)
THEOREM RateKept == BucketSpec => []RateRespected
<1>1. BucketInd => RateRespected
  <2> SUFFICES ASSUME BucketInd PROVE RateRespected
    OBVIOUS
  <2>1. /\ used \in Nat /\ tokens \in Nat /\ Held(reserved) \in Nat /\ Given \in Nat
        /\ RateLimit * unclaimed \in Nat /\ RateLimit * Held(claim) \in Nat
        /\ used + Held(reserved) + tokens + RateLimit * unclaimed + RateLimit * Held(claim) <= Given
    BY BucketParts DEF BucketInd
  <2>2. used + Held(reserved) <= Given
    <3>1. PICK a \in Nat : a = RateLimit * unclaimed
      BY <2>1
    <3>2. PICK b \in Nat : b = RateLimit * Held(claim)
      BY <2>1
    <3>3. used + Held(reserved) + tokens + a + b <= Given
      BY <2>1, <3>1, <3>2
    <3> QED BY <2>1, <3>3
  <2>3. ASSUME NEW u \in Users PROVE reserved[u] \in Nat /\ reserved[u] <= Held(reserved)
    <3>1. reserved \in [Users -> Nat] /\ IsFiniteSet(Units(reserved))
      BY DEF BucketInd
    <3>2. PICK g : g = [reserved EXCEPT ![u] = 0]
      OBVIOUS
    <3>3. Moved(Users, reserved, u, 0, g)
      BY <3>1, <3>2, UnitsChange
    <3> QED BY <3>3 DEF Moved
  <2>4. used <= Given /\ \A u \in Users : used + reserved[u] <= Given
    BY <2>1, <2>2, <2>3
  <2> QED BY <2>4 DEF RateRespected, Given
<1> QED BY <1>1, BucketInitInd, BucketStepInd, PTL DEF BucketSpec

-------------------------------------------------------------------------------
(****************************************************************************)
(* Tree recovery.                                                           *)
(****************************************************************************)
Entries == [RKey -> RValue \cup {Gone}]
Record  == [id : 1 .. MaxId, muts : Mutations]

(* A transaction past its prepare knows its record; when the database is    *)
(* down there is none.                                                      *)
TxnsLaid ==
  /\ txn \in [RWriter -> [at : {"none", "client", "prepared", "applied"}, id : Nat, pos : Nat]]
  /\ \A w \in RWriter :
       /\ txn[w].at # "none" => txn[w].id \in 1 .. handed /\ stage = "running"
       /\ txn[w].at \in {"prepared", "applied"} =>
            txn[w].pos \in 1 .. Len(rlog) /\ rlog[txn[w].pos].id = txn[w].id

(* A key no record has a mutation for has no entry anywhere.                *)
Untouched(k) == \A i \in 1 .. Len(rlog) : rlog[i].muts[k] = Same
NothingElse ==
  \A k \in RKey : Untouched(k) =>
    tree[k] = Gone /\ synced[k] = Gone /\ found[k] = Gone /\ committed[k] = Gone

(* What the commits add up to is, key by key, the mutation of the           *)
(* acknowledged record with the highest id.                                 *)
Tops(i, k) ==
  /\ i \in acked /\ rlog[i].muts[k] # Same
  /\ \A j \in acked \ {i} : rlog[j].muts[k] # Same => rlog[j].id < rlog[i].id
CommitsLaid ==
  /\ \A i \in acked : rlog[i].id <= rmeta
  /\ \A k \in RKey : (\E i \in acked : rlog[i].muts[k] # Same) =>
                       \E i \in acked : Tops(i, k) /\ committed[k] = rlog[i].muts[k]

(* The tree holds, key by key, the mutation of the last of these records.   *)
Wins(i, S, k) ==
  /\ rlog[i].muts[k] # Same
  /\ \A j \in S \ {i} : rlog[j].muts[k] # Same => Before(j, i)
Replayed(S) ==
  \A k \in RKey : (\E i \in S : rlog[i].muts[k] # Same) =>
                    \E i \in S : Wins(i, S, k) /\ tree[k] = rlog[i].muts[k]
ReplayLaid ==
  /\ stage # "replaying" => todo = {}
  /\ stage = "replaying" =>
       /\ Replayed((1 .. readable) \ todo)
       /\ \A i \in (1 .. readable) \ todo, j \in todo : Before(i, j)
  /\ stage = "recovered" => Replayed(1 .. readable)

RecInd == RecoveryTypeOK /\ TxnsLaid /\ NothingElse /\ CommitsLaid /\ ReplayLaid

LEMMA RecordType ==
  ASSUME RecoveryTypeOK, NEW i \in 1 .. Len(rlog)
  PROVE  /\ rlog \in Seq(Record) /\ Len(rlog) \in Nat /\ rlog[i] \in Record
         /\ rlog[i].id \in Nat /\ rlog[i].muts \in [RKey -> RValue \cup {Gone, Same}]
<1>1. rlog \in Seq(Record)
  BY DEF RecoveryTypeOK, Record
<1>2. rlog[i] \in Record
  BY <1>1
<1> QED BY <1>1, <1>2, RecoveryAssumption DEF Record, Mutations

LEMMA OverType ==
  ASSUME NEW e \in Entries, NEW m \in [RKey -> RValue \cup {Gone, Same}]
  PROVE  /\ Over(e, m) \in Entries
         /\ \A k \in RKey : Over(e, m)[k] = IF m[k] = Same THEN e[k] ELSE m[k]
BY DEF Entries, Over

LEMMA RecInitInd == RecoveryInit => RecInd
<1> SUFFICES ASSUME RecoveryInit PROVE RecInd
  OBVIOUS
<1>1. RecoveryTypeOK
  <2>1. Nothing \in [RKey -> RValue \cup {Gone}]
    BY DEF Nothing
  <2>2. Len(rlog) = 0 /\ rlog \in Seq([id : 1 .. MaxId, muts : Mutations])
    BY DEF RecoveryInit
  <2>3. {tree, synced, committed, found} \subseteq [RKey -> RValue \cup {Gone}]
    BY <2>1 DEF RecoveryInit
  <2> QED BY <2>2, <2>3, RecoveryAssumption DEF RecoveryInit, RecoveryTypeOK
<1>2. TxnsLaid
  BY DEF RecoveryInit, TxnsLaid, NoTxn
<1>3. NothingElse
  BY DEF RecoveryInit, NothingElse, Nothing
<1>4. CommitsLaid /\ ReplayLaid
  BY DEF RecoveryInit, CommitsLaid, ReplayLaid
<1> QED BY <1>1, <1>2, <1>3, <1>4 DEF RecInd

(* Begin and Abort leave log, tree and commits alone.                       *)
LEMMA RecBeginInd == ASSUME RecInd, NEW w \in RWriter, Begin(w) PROVE RecInd'
<1>1. /\ stage = "running" /\ handed < MaxId /\ handed' = handed + 1
      /\ txn' = [txn EXCEPT ![w] = [NoTxn EXCEPT !.at = "client", !.id = handed + 1]]
      /\ rlog' = rlog /\ readable' = readable /\ tree' = tree /\ synced' = synced /\ rmeta' = rmeta
      /\ stage' = stage /\ todo' = todo /\ acked' = acked /\ aborted' = aborted
      /\ committed' = committed /\ found' = found
  BY DEF Begin, history
<1>2. handed \in Nat /\ MaxId \in Nat /\ rmeta \in 0 .. handed
  BY RecoveryAssumption DEF RecInd, RecoveryTypeOK
<1>3. RecoveryTypeOK'
  <2>1. rmeta' \in 0 .. handed' /\ handed' \in 0 .. MaxId
    BY <1>1, <1>2
  <2> QED BY <1>1, <2>1 DEF RecInd, RecoveryTypeOK
<1>4. TxnsLaid'
  <2>2. PICK t : t = [NoTxn EXCEPT !.at = "client", !.id = handed + 1]
    OBVIOUS
  <2>3. /\ t \in [at : {"none", "client", "prepared", "applied"}, id : Nat, pos : Nat]
        /\ t.at = "client" /\ t.id = handed + 1
    <3>1. t = [at |-> "client", id |-> handed + 1, pos |-> 0]
      BY <2>2 DEF NoTxn
    <3> QED BY <1>2, <3>1
  <2>4. txn \in [RWriter -> [at : {"none", "client", "prepared", "applied"}, id : Nat, pos : Nat]]
    BY DEF RecInd, TxnsLaid
  <2>5. txn' = [txn EXCEPT ![w] = t]
    BY <1>1, <2>2
  <2>6. txn' \in [RWriter -> [at : {"none", "client", "prepared", "applied"}, id : Nat, pos : Nat]]
    BY <2>3, <2>4, <2>5
  <2>7. ASSUME NEW v \in RWriter
        PROVE  /\ txn'[v].at # "none" => txn'[v].id \in 1 .. handed' /\ stage' = "running"
               /\ txn'[v].at \in {"prepared", "applied"} =>
                    txn'[v].pos \in 1 .. Len(rlog') /\ rlog'[txn'[v].pos].id = txn'[v].id
    <3>1. CASE v = w
      BY <1>1, <1>2, <2>3, <2>4, <2>5, <3>1
    <3>2. CASE v # w
      <4>1. txn'[v] = txn[v]
        BY <2>4, <2>5, <3>2
      <4>2. txn[v].at # "none" => txn[v].id \in 1 .. handed /\ stage = "running"
        BY DEF RecInd, TxnsLaid
      <4>3. 1 .. handed \subseteq 1 .. handed'
        BY <1>1, <1>2
      <4>4. txn[v].at \in {"prepared", "applied"} =>
              txn[v].pos \in 1 .. Len(rlog) /\ rlog[txn[v].pos].id = txn[v].id
        BY DEF RecInd, TxnsLaid
      <4> QED BY <1>1, <4>1, <4>2, <4>3, <4>4
    <3> QED BY <3>1, <3>2
  <2> QED BY <2>6, <2>7 DEF TxnsLaid
<1>5. NothingElse'
  BY <1>1 DEF RecInd, NothingElse, Untouched
<1>6. CommitsLaid'
  BY <1>1 DEF RecInd, CommitsLaid, Tops
<1>7. ReplayLaid'
  BY <1>1 DEF RecInd, ReplayLaid
<1> QED BY <1>3, <1>4, <1>5, <1>6, <1>7 DEF RecInd

(* A writer that goes on, or ends, keeps its record.                        *)
LEMMA TxnMoves ==
  ASSUME RecInd, NEW w \in RWriter, NEW place \in {"none", "applied"}, Moves(w, place),
         place = "applied" => txn[w].at = "prepared",
         rlog' = rlog, stage' = stage, handed' = handed
  PROVE  TxnsLaid'
<1>1. txn \in [RWriter -> [at : {"none", "client", "prepared", "applied"}, id : Nat, pos : Nat]]
  BY DEF RecInd, TxnsLaid
<1>2. txn' = [txn EXCEPT ![w].at = place]
  BY DEF Moves
<1>3. txn' \in [RWriter -> [at : {"none", "client", "prepared", "applied"}, id : Nat, pos : Nat]]
  BY <1>1, <1>2
<1>4. ASSUME NEW v \in RWriter
      PROVE  /\ txn'[v].at # "none" => txn'[v].id \in 1 .. handed' /\ stage' = "running"
             /\ txn'[v].at \in {"prepared", "applied"} =>
                  txn'[v].pos \in 1 .. Len(rlog') /\ rlog'[txn'[v].pos].id = txn'[v].id
  <2>1. txn'[v].id = txn[v].id /\ txn'[v].pos = txn[v].pos
        /\ (v # w => txn'[v].at = txn[v].at) /\ (v = w => txn'[v].at = place)
    BY <1>1, <1>2
  <2>2. /\ txn[v].at # "none" => txn[v].id \in 1 .. handed /\ stage = "running"
        /\ txn[v].at \in {"prepared", "applied"} =>
             txn[v].pos \in 1 .. Len(rlog) /\ rlog[txn[v].pos].id = txn[v].id
    BY DEF RecInd, TxnsLaid
  <2> QED BY <2>1, <2>2
<1> QED BY <1>3, <1>4 DEF TxnsLaid

LEMMA RecAbortInd == ASSUME RecInd, NEW w \in RWriter, Abort(w) PROVE RecInd'
<1>1. /\ stage = "running" /\ Moves(w, "none") /\ handed' = handed
      /\ rlog' = rlog /\ readable' = readable /\ tree' = tree /\ synced' = synced /\ rmeta' = rmeta
      /\ stage' = stage /\ todo' = todo /\ acked' = acked
      /\ committed' = committed /\ found' = found
  BY DEF Abort
<1>2. aborted' \subseteq 1 .. Len(rlog)
  <2>1. aborted \subseteq 1 .. Len(rlog)
    BY DEF RecInd, RecoveryTypeOK
  <2>2. txn[w].at = "prepared" => txn[w].pos \in 1 .. Len(rlog)
    BY DEF RecInd, TxnsLaid
  <2> QED BY <2>1, <2>2 DEF Abort
<1>3. RecoveryTypeOK'
  BY <1>1, <1>2 DEF RecInd, RecoveryTypeOK
<1>4. TxnsLaid'
  BY <1>1, TxnMoves
<1>5. NothingElse'
  BY <1>1 DEF RecInd, NothingElse, Untouched
<1>6. CommitsLaid'
  BY <1>1 DEF RecInd, CommitsLaid, Tops
<1>7. ReplayLaid'
  BY <1>1 DEF RecInd, ReplayLaid
<1> QED BY <1>3, <1>4, <1>5, <1>6, <1>7 DEF RecInd

(* A new record takes the next place.                                       *)
LEMMA RecPrepareInd ==
  ASSUME RecInd, NEW w \in RWriter, NEW muts \in Mutations, Prepare(w, muts) PROVE RecInd'
<1>1. PICK n : n = Len(rlog)
  OBVIOUS
<1>2. PICK r : r = [id |-> txn[w].id, muts |-> muts]
  OBVIOUS
<1>3. /\ stage = "running" /\ txn[w].at = "client" /\ rlog' = Append(rlog, r)
      /\ readable' = Len(rlog')
      /\ txn' = [txn EXCEPT ![w].at = "prepared", ![w].pos = Len(rlog')]
      /\ handed' = handed /\ tree' = tree /\ synced' = synced /\ rmeta' = rmeta
      /\ stage' = stage /\ todo' = todo /\ acked' = acked /\ aborted' = aborted
      /\ committed' = committed /\ found' = found
  BY <1>2 DEF Prepare, history
<1>4. r \in Record /\ r.id = txn[w].id
  <2>1. txn[w].id \in 1 .. handed /\ handed \in 0 .. MaxId
    BY <1>3 DEF RecInd, TxnsLaid, RecoveryTypeOK
  <2>2. txn[w].id \in 1 .. MaxId
    BY <2>1, RecoveryAssumption
  <2> QED BY <1>2, <2>2 DEF Record
<1>5. rlog \in Seq(Record) /\ n \in Nat
  BY <1>1 DEF RecInd, RecoveryTypeOK, Record
<1>6. /\ rlog' \in Seq(Record) /\ Len(rlog') = n + 1 /\ rlog'[n + 1] = r
      /\ \A i \in 1 .. n : rlog'[i] = rlog[i]
  BY <1>1, <1>3, <1>4, <1>5
<1>7. RecoveryTypeOK'
  <2>1. readable' \in 0 .. Len(rlog')
    BY <1>3, <1>5, <1>6
  <2>2. todo' \subseteq 1 .. readable'
    <3>1. todo \subseteq 1 .. readable /\ readable \in 0 .. n
      BY <1>1 DEF RecInd, RecoveryTypeOK
    <3> QED BY <1>3, <1>5, <1>6, <3>1
  <2>3. acked' \cup aborted' \subseteq 1 .. Len(rlog')
    <3>1. acked \cup aborted \subseteq 1 .. n
      BY <1>1 DEF RecInd, RecoveryTypeOK
    <3> QED BY <1>3, <1>5, <1>6, <3>1
  <2>4. rlog' \in Seq([id : 1 .. MaxId, muts : Mutations])
    BY <1>6 DEF Record
  <2> QED BY <1>3, <2>1, <2>2, <2>3, <2>4 DEF RecInd, RecoveryTypeOK
<1>8. TxnsLaid'
  <2>1. txn \in [RWriter -> [at : {"none", "client", "prepared", "applied"}, id : Nat, pos : Nat]]
    BY DEF RecInd, TxnsLaid
  <2>2. txn' = [txn EXCEPT ![w].at = "prepared", ![w].pos = n + 1]
    BY <1>3, <1>6
  <2>3. txn' \in [RWriter -> [at : {"none", "client", "prepared", "applied"}, id : Nat, pos : Nat]]
    <3>1. PICK t : t = [txn[w] EXCEPT !.at = "prepared", !.pos = n + 1]
      OBVIOUS
    <3>2. t \in [at : {"none", "client", "prepared", "applied"}, id : Nat, pos : Nat]
      <4>1. n + 1 \in Nat
        BY <1>5
      <4>2. txn[w] \in [at : {"none", "client", "prepared", "applied"}, id : Nat, pos : Nat]
        BY <2>1
      <4>3. t = [at |-> "prepared", id |-> txn[w].id, pos |-> n + 1] /\ txn[w].id \in Nat
        BY <3>1, <4>2
      <4> QED BY <4>1, <4>3
    <3>3. txn' = [txn EXCEPT ![w] = t]
      BY <2>1, <2>2, <3>1
    <3> QED BY <2>1, <3>2, <3>3
  <2>4. ASSUME NEW v \in RWriter
        PROVE  /\ txn'[v].at # "none" => txn'[v].id \in 1 .. handed' /\ stage' = "running"
               /\ txn'[v].at \in {"prepared", "applied"} =>
                    txn'[v].pos \in 1 .. Len(rlog') /\ rlog'[txn'[v].pos].id = txn'[v].id
    <3>1. CASE v = w
      <4>1. txn'[v].id = txn[w].id /\ txn'[v].pos = n + 1
        BY <2>1, <2>2, <3>1
      <4>2. txn[w].id \in 1 .. handed
        BY <1>3 DEF RecInd, TxnsLaid
      <4>3. n + 1 \in 1 .. Len(rlog')
        BY <1>5, <1>6
      <4> QED BY <1>3, <1>4, <1>6, <4>1, <4>2, <4>3
    <3>2. CASE v # w
      <4>1. txn'[v] = txn[v]
        BY <2>1, <2>2, <3>2
      <4>2. /\ txn[v].at # "none" => txn[v].id \in 1 .. handed /\ stage = "running"
            /\ txn[v].at \in {"prepared", "applied"} =>
                 txn[v].pos \in 1 .. n /\ rlog[txn[v].pos].id = txn[v].id
        BY <1>1 DEF RecInd, TxnsLaid
      <4>3. 1 .. n \subseteq 1 .. Len(rlog')
        BY <1>5, <1>6
      <4> QED BY <1>3, <1>6, <4>1, <4>2, <4>3
    <3> QED BY <3>1, <3>2
  <2> QED BY <2>3, <2>4 DEF TxnsLaid
<1>9. NothingElse'
  <2> SUFFICES ASSUME NEW k \in RKey, Untouched(k)'
               PROVE  (tree[k] = Gone /\ synced[k] = Gone /\ found[k] = Gone /\ committed[k] = Gone)'
    BY DEF NothingElse
  <2>1. 1 .. n \subseteq 1 .. Len(rlog')
    BY <1>5, <1>6
  <2>2. Untouched(k)
    BY <1>1, <1>6, <2>1 DEF Untouched
  <2> QED BY <1>3, <2>2 DEF RecInd, NothingElse
<1>10. CommitsLaid'
  <2>1. acked \subseteq 1 .. n
    BY <1>1 DEF RecInd, RecoveryTypeOK
  <2>2. \A i \in acked : rlog'[i] = rlog[i]
    BY <1>6, <2>1
  <2>3. \A i \in acked : rlog'[i].id <= rmeta
    BY <2>2 DEF RecInd, CommitsLaid
  <2>4. ASSUME NEW k \in RKey, NEW i \in acked, Tops(i, k) PROVE Tops(i, k)'
    BY <1>3, <2>2, <2>4 DEF Tops
  <2>5. ASSUME NEW k \in RKey, NEW j \in acked, rlog'[j].muts[k] # Same
        PROVE  \E i \in acked : Tops(i, k)' /\ committed'[k] = rlog'[i].muts[k]
    <3>1. PICK i \in acked : Tops(i, k) /\ committed[k] = rlog[i].muts[k]
      BY <2>2, <2>5 DEF RecInd, CommitsLaid
    <3> QED BY <1>3, <2>2, <2>4, <3>1
  <2> QED BY <1>3, <2>3, <2>5 DEF CommitsLaid
<1>11. ReplayLaid'
  BY <1>3 DEF RecInd, ReplayLaid
<1> QED BY <1>7, <1>8, <1>9, <1>10, <1>11 DEF RecInd

LEMMA RecApplyInd == ASSUME RecInd, NEW w \in RWriter, Apply(w) PROVE RecInd'
<1>1. PICK m : m = rlog[txn[w].pos].muts
  OBVIOUS
<1>2. /\ stage = "running" /\ txn[w].at = "prepared" /\ tree' = Over(tree, m)
      /\ Moves(w, "applied") /\ handed' = handed
      /\ rlog' = rlog /\ readable' = readable /\ synced' = synced /\ rmeta' = rmeta
      /\ stage' = stage /\ todo' = todo /\ acked' = acked /\ aborted' = aborted
      /\ committed' = committed /\ found' = found
  BY <1>1 DEF Apply, history
<1>3. txn[w].pos \in 1 .. Len(rlog)
  BY <1>2 DEF RecInd, TxnsLaid
<1>4. m \in [RKey -> RValue \cup {Gone, Same}]
  BY <1>1, <1>3, RecordType DEF RecInd
<1>5. tree \in Entries
  BY DEF RecInd, RecoveryTypeOK, Entries
<1>6. tree' \in Entries /\ \A k \in RKey : tree'[k] = IF m[k] = Same THEN tree[k] ELSE m[k]
  BY <1>2, <1>4, <1>5, OverType
<1>7. RecoveryTypeOK'
  BY <1>2, <1>6 DEF RecInd, RecoveryTypeOK, Entries
<1>8. TxnsLaid'
  BY <1>2, TxnMoves
<1>9. NothingElse'
  <2> SUFFICES ASSUME NEW k \in RKey, Untouched(k)
               PROVE  (tree[k] = Gone /\ synced[k] = Gone /\ found[k] = Gone /\ committed[k] = Gone)'
    BY <1>2 DEF NothingElse, Untouched
  <2>1. m[k] = Same
    BY <1>1, <1>3 DEF Untouched
  <2> QED BY <1>2, <1>6, <2>1 DEF RecInd, NothingElse
<1>10. CommitsLaid'
  BY <1>2 DEF RecInd, CommitsLaid, Tops
<1>11. ReplayLaid'
  BY <1>2 DEF RecInd, ReplayLaid
<1> QED BY <1>7, <1>8, <1>9, <1>10, <1>11 DEF RecInd

(* A registered commit has the highest id so far, and tops the others.      *)
LEMMA RecRegisterInd == ASSUME RecInd, NEW w \in RWriter, Register(w) PROVE RecInd'
<1>1. PICK p : p = txn[w].pos
  OBVIOUS
<1>2. PICK m : m = rlog[p].muts
  OBVIOUS
<1>3. /\ stage = "running" /\ txn[w].at = "applied" /\ Moves(w, "none") /\ handed' = handed
      /\ rlog' = rlog /\ readable' = readable /\ tree' = tree
      /\ stage' = stage /\ todo' = todo /\ aborted' = aborted /\ found' = found
  BY DEF Register
<1>4. p \in 1 .. Len(rlog) /\ rlog[p].id = txn[w].id /\ txn[w].id \in 1 .. handed
  BY <1>1, <1>3 DEF RecInd, TxnsLaid
<1>5. m \in [RKey -> RValue \cup {Gone, Same}] /\ rlog[p].id \in Nat
  BY <1>2, <1>4, RecordType DEF RecInd
<1>6. TxnsLaid'
  BY <1>3, TxnMoves
<1>7. ReplayLaid'
  BY <1>3 DEF RecInd, ReplayLaid
<1>8. CASE ~(txn[w].id > rmeta)
  <2>1. rmeta' = rmeta /\ synced' = synced /\ acked' = acked /\ committed' = committed
    BY <1>8 DEF Register
  <2>2. RecoveryTypeOK'
    BY <1>3, <2>1 DEF RecInd, RecoveryTypeOK
  <2>3. NothingElse'
    BY <1>3, <2>1 DEF RecInd, NothingElse, Untouched
  <2>4. CommitsLaid'
    BY <1>3, <2>1 DEF RecInd, CommitsLaid, Tops
  <2> QED BY <1>6, <1>7, <2>2, <2>3, <2>4 DEF RecInd
<1>9. CASE txn[w].id > rmeta
  <2>1. /\ rmeta' = rlog[p].id /\ synced' = tree /\ acked' = acked \cup {p}
        /\ committed' = Over(committed, m)
    BY <1>1, <1>2, <1>4, <1>9 DEF Register
  <2>2. committed \in Entries /\ tree \in Entries
    BY DEF RecInd, RecoveryTypeOK, Entries
  <2>3. committed' \in Entries
        /\ \A k \in RKey : committed'[k] = IF m[k] = Same THEN committed[k] ELSE m[k]
    BY <1>5, <2>1, <2>2, OverType
  <2>4. RecoveryTypeOK'
    <3>1. handed \in Nat /\ rmeta' \in 0 .. handed'
      BY <1>3, <1>4, <2>1, RecoveryAssumption DEF RecInd, RecoveryTypeOK
    <3>2. acked' \cup aborted' \subseteq 1 .. Len(rlog')
      BY <1>3, <1>4, <2>1 DEF RecInd, RecoveryTypeOK
    <3>3. {tree, synced, committed, found}' \subseteq [RKey -> RValue \cup {Gone}]
      BY <1>3, <2>1, <2>2, <2>3 DEF RecInd, RecoveryTypeOK, Entries
    <3> QED BY <1>3, <3>1, <3>2, <3>3 DEF RecInd, RecoveryTypeOK
  <2>5. NothingElse'
    <3> SUFFICES ASSUME NEW k \in RKey, Untouched(k)
                 PROVE  (tree[k] = Gone /\ synced[k] = Gone /\ found[k] = Gone /\ committed[k] = Gone)'
      BY <1>3 DEF NothingElse, Untouched
    <3>1. m[k] = Same
      BY <1>2, <1>4 DEF Untouched
    <3> QED BY <1>3, <2>1, <2>3, <3>1 DEF RecInd, NothingElse
  <2>6. \A i \in acked : rlog[i].id \in Nat /\ rlog[i].id <= rmeta /\ rlog[i].id < rlog[p].id
    <3> SUFFICES ASSUME NEW i \in acked
                 PROVE  rlog[i].id \in Nat /\ rlog[i].id <= rmeta /\ rlog[i].id < rlog[p].id
      OBVIOUS
    <3>1. i \in 1 .. Len(rlog)
      BY DEF RecInd, RecoveryTypeOK
    <3>2. rlog[i].id \in Nat
      BY <3>1, RecordType DEF RecInd
    <3>3. rlog[i].id <= rmeta /\ rmeta \in Nat
      BY DEF RecInd, CommitsLaid, RecoveryTypeOK
    <3> QED BY <1>4, <1>5, <1>9, <3>2, <3>3
  <2>7. CommitsLaid'
    <3>1. \A i \in acked' : rlog'[i].id <= rmeta'
      <4> SUFFICES ASSUME NEW i \in acked' PROVE rlog[i].id <= rlog[p].id
        BY <1>3, <2>1
      <4> QED BY <1>5, <2>1, <2>6
    <3>2. ASSUME NEW k \in RKey, m[k] # Same
          PROVE  p \in acked' /\ Tops(p, k)' /\ committed'[k] = rlog'[p].muts[k]
      BY <1>2, <1>3, <2>1, <2>3, <2>6, <3>2 DEF Tops
    <3>3. ASSUME NEW k \in RKey, m[k] = Same, NEW i \in acked, Tops(i, k)
          PROVE  Tops(i, k)'
      BY <1>2, <1>3, <2>1, <3>3 DEF Tops
    <3>4. ASSUME NEW k \in RKey, NEW j \in acked', rlog'[j].muts[k] # Same
          PROVE  \E i \in acked' : Tops(i, k)' /\ committed'[k] = rlog'[i].muts[k]
      <4>1. CASE m[k] # Same
        BY <3>2, <4>1
      <4>2. CASE m[k] = Same
        <5>1. j \in acked /\ rlog[j].muts[k] # Same
          BY <1>2, <1>3, <2>1, <3>4, <4>2
        <5>2. PICK i \in acked : Tops(i, k) /\ committed[k] = rlog[i].muts[k]
          BY <5>1 DEF RecInd, CommitsLaid
        <5>3. Tops(i, k)'
          BY <3>3, <4>2, <5>2
        <5>4. committed'[k] = committed[k]
          BY <2>3, <4>2
        <5> QED BY <1>3, <2>1, <5>2, <5>3, <5>4
      <4> QED BY <4>1, <4>2
    <3> QED BY <3>1, <3>4 DEF CommitsLaid
  <2> QED BY <1>6, <1>7, <2>4, <2>5, <2>7 DEF RecInd
<1> QED BY <1>8, <1>9

LEMMA RecPowerInd == ASSUME RecInd, PowerLoss PROVE RecInd'
<1>1. PICK kept \in SUBSET RKey : tree' = [k \in RKey |-> IF k \in kept THEN tree[k] ELSE synced[k]]
  BY DEF PowerLoss
<1>2. /\ synced' = tree' /\ found' = (IF stage = "running" THEN tree' ELSE found)
      /\ txn' = [w \in RWriter |-> NoTxn] /\ stage' = "crashed" /\ todo' = {}
      /\ rlog' = rlog /\ readable' = readable /\ rmeta' = rmeta /\ handed' = handed
      /\ acked' = acked /\ aborted' = aborted /\ committed' = committed
  BY DEF PowerLoss, history
<1>3. tree \in Entries /\ synced \in Entries /\ found \in Entries /\ committed \in Entries
  BY DEF RecInd, RecoveryTypeOK, Entries
<1>4. tree' \in Entries
  BY <1>1, <1>3 DEF Entries
<1>5. found' \in Entries
  BY <1>2, <1>3, <1>4
<1>6. RecoveryTypeOK'
  <2>1. {tree, synced, committed, found}' \subseteq [RKey -> RValue \cup {Gone}]
    BY <1>2, <1>3, <1>4, <1>5 DEF Entries
  <2> QED BY <1>2, <2>1 DEF RecInd, RecoveryTypeOK
<1>7. TxnsLaid'
  BY <1>2 DEF TxnsLaid, NoTxn
<1>8. NothingElse'
  <2> SUFFICES ASSUME NEW k \in RKey, Untouched(k)
               PROVE  (tree[k] = Gone /\ synced[k] = Gone /\ found[k] = Gone /\ committed[k] = Gone)'
    BY <1>2 DEF NothingElse, Untouched
  <2>1. tree[k] = Gone /\ synced[k] = Gone /\ found[k] = Gone /\ committed[k] = Gone
    BY DEF RecInd, NothingElse
  <2>2. tree'[k] = Gone
    BY <1>1, <2>1
  <2> QED BY <1>2, <2>1, <2>2
<1>9. CommitsLaid'
  BY <1>2 DEF RecInd, CommitsLaid, Tops
<1>10. ReplayLaid'
  BY <1>2 DEF RecInd, ReplayLaid
<1> QED BY <1>6, <1>7, <1>8, <1>9, <1>10 DEF RecInd

(* The steps of a recovery, and what comes before and after it.             *)
LEMMA RecDownInd == ASSUME RecInd, Damage \/ Recover \/ RecoverDone \/ Reopen PROVE RecInd'
<1>1. /\ rlog' = rlog /\ tree' = tree /\ synced' = synced /\ rmeta' = rmeta /\ txn' = txn
      /\ acked' = acked /\ aborted' = aborted /\ committed' = committed /\ found' = found
  BY DEF Damage, Recover, RecoverDone, Reopen, history
<1>2. stage # "running"
  BY DEF Damage, Recover, RecoverDone, Reopen
<1>3. readable \in 0 .. Len(rlog) /\ Len(rlog) \in Nat /\ todo \subseteq 1 .. readable
      /\ rmeta \in 0 .. handed /\ handed \in 0 .. MaxId /\ MaxId \in Nat
  BY RecoveryAssumption DEF RecInd, RecoveryTypeOK
<1>4. NothingElse'
  BY <1>1 DEF RecInd, NothingElse, Untouched
<1>5. CommitsLaid'
  BY <1>1 DEF RecInd, CommitsLaid, Tops
<1>6. TxnsLaid'
  <2>1. \A w \in RWriter : txn[w].at = "none"
    BY <1>2 DEF RecInd, TxnsLaid
  <2> QED BY <1>1, <2>1 DEF RecInd, TxnsLaid
<1>7. stage # "replaying" => todo = {}
  BY DEF RecInd, ReplayLaid
<1>8. RecoveryTypeOK'
  <2>1. stage' \in {"running", "crashed", "replaying", "recovered"}
    BY DEF Damage, Recover, RecoverDone, Reopen, RecInd, RecoveryTypeOK
  <2>2. readable' \in 0 .. Len(rlog) /\ todo' \subseteq 1 .. readable'
    <3>1. CASE Damage
      <4>1. todo' = {} /\ readable' \in 0 .. (readable - 1) /\ readable > 0
        BY <1>7, <3>1 DEF Damage
      <4> QED BY <1>3, <4>1
    <3>2. CASE Recover
      BY <1>3, <3>2 DEF Recover
    <3>3. CASE RecoverDone \/ Reopen
      BY <1>3, <3>3 DEF RecoverDone, Reopen
    <3> QED BY <3>1, <3>2, <3>3
  <2>3. rmeta \in 0 .. handed' /\ handed' \in 0 .. MaxId
    BY <1>3 DEF Damage, Recover, RecoverDone, Reopen
  <2> QED BY <1>1, <2>1, <2>2, <2>3 DEF RecInd, RecoveryTypeOK
<1>9. ReplayLaid'
  <2>1. CASE Damage \/ Reopen
    BY <1>7, <2>1 DEF Damage, Reopen, ReplayLaid
  <2>2. CASE Recover
    <3>1. stage' = "replaying" /\ todo' = 1 .. readable /\ readable' = readable
      BY <2>2 DEF Recover
    <3>2. (1 .. readable') \ todo' = {}
      BY <3>1
    <3>3. Replayed((1 .. readable) \ todo)'
      BY <3>2 DEF Replayed
    <3> QED BY <3>1, <3>2, <3>3 DEF ReplayLaid
  <2>3. CASE RecoverDone
    <3>1. /\ stage = "replaying" /\ stage' = "recovered" /\ todo = {} /\ todo' = todo
          /\ readable' = readable
      BY <2>3 DEF RecoverDone
    <3>2. (1 .. readable) \ todo = 1 .. readable
      BY <3>1
    <3>3. Replayed(1 .. readable)
      BY <3>1, <3>2 DEF RecInd, ReplayLaid
    <3>4. Replayed(1 .. readable)'
      BY <1>1, <3>1, <3>3 DEF Replayed, Wins, Before
    <3> QED BY <3>1, <3>4 DEF ReplayLaid
  <2> QED BY <2>1, <2>2, <2>3
<1> QED BY <1>4, <1>5, <1>6, <1>8, <1>9 DEF RecInd

LEMMA BeforeOrders ==
  ASSUME RecoveryTypeOK, NEW i \in 1 .. readable, NEW j \in 1 .. readable, Before(i, j)
  PROVE  ~Before(j, i) /\ i # j
<1>1. i \in 1 .. Len(rlog) /\ j \in 1 .. Len(rlog) /\ i \in Nat /\ j \in Nat
  BY DEF RecoveryTypeOK
<1>2. rlog[i].id \in Nat /\ rlog[j].id \in Nat
  BY <1>1, RecordType
<1> QED BY <1>1, <1>2 DEF Before

(* Replaying the foremost record that is left makes it the last of those    *)
(* replayed.                                                                *)
LEMMA RecReplayInd == ASSUME RecInd, ReplayOne PROVE RecInd'
<1>1. PICK i \in todo : Foremost(i, todo) /\ tree' = Over(tree, rlog[i].muts) /\ todo' = todo \ {i}
  BY DEF ReplayOne
<1>2. /\ stage = "replaying" /\ rlog' = rlog /\ readable' = readable /\ synced' = synced
      /\ rmeta' = rmeta /\ handed' = handed /\ txn' = txn /\ stage' = stage
      /\ acked' = acked /\ aborted' = aborted /\ committed' = committed /\ found' = found
  BY DEF ReplayOne, history
<1>3. i \in 1 .. readable /\ i \in 1 .. Len(rlog) /\ todo \subseteq 1 .. readable
  BY DEF RecInd, RecoveryTypeOK
<1>4. PICK m \in [RKey -> RValue \cup {Gone, Same}] : m = rlog[i].muts
  BY <1>3, RecordType DEF RecInd
<1>5. tree' \in Entries /\ \A k \in RKey : tree'[k] = IF m[k] = Same THEN tree[k] ELSE m[k]
  <2>1. tree \in Entries
    BY DEF RecInd, RecoveryTypeOK, Entries
  <2> QED BY <1>1, <1>4, <2>1, OverType
<1>6. RecoveryTypeOK'
  BY <1>1, <1>2, <1>5 DEF RecInd, RecoveryTypeOK, Entries
<1>7. TxnsLaid'
  BY <1>2 DEF RecInd, TxnsLaid
<1>8. NothingElse'
  <2> SUFFICES ASSUME NEW k \in RKey, Untouched(k)
               PROVE  (tree[k] = Gone /\ synced[k] = Gone /\ found[k] = Gone /\ committed[k] = Gone)'
    BY <1>2 DEF NothingElse, Untouched
  <2>1. m[k] = Same
    BY <1>3, <1>4 DEF Untouched
  <2> QED BY <1>2, <1>5, <2>1 DEF RecInd, NothingElse
<1>9. CommitsLaid'
  BY <1>2 DEF RecInd, CommitsLaid, Tops
<1>10. PICK S : S = (1 .. readable) \ todo
  OBVIOUS
<1>11. (1 .. readable') \ todo' = S \cup {i}
  BY <1>1, <1>2, <1>3, <1>10
<1>12. Replayed(S) /\ \A x \in S, y \in todo : Before(x, y)
  BY <1>2, <1>10 DEF RecInd, ReplayLaid
<1>13. ASSUME NEW x \in S \cup {i}, NEW y \in todo' PROVE Before(x, y)
  <2>1. y \in todo \ {i}
    BY <1>1
  <2>2. CASE x \in S
    BY <1>12, <2>1, <2>2
  <2>3. CASE x = i
    BY <1>1, <2>1, <2>3 DEF Foremost
  <2> QED BY <2>2, <2>3
<1>14. ASSUME NEW T, T = S \cup {i} PROVE Replayed(T)'
  <2> SUFFICES ASSUME NEW k \in RKey, NEW j \in T, rlog[j].muts[k] # Same
               PROVE  \E x \in T : Wins(x, T, k)' /\ tree'[k] = rlog[x].muts[k]
    BY <1>2 DEF Replayed
  <2>1. \A x : Wins(x, T, k)' <=> Wins(x, T, k)
    BY <1>2 DEF Wins, Before
  <2>2. CASE m[k] # Same
    <3>1. Wins(i, T, k)
      BY <1>4, <1>12, <1>14, <2>2 DEF Wins
    <3> QED BY <1>4, <1>5, <1>14, <2>1, <2>2, <3>1
  <2>3. CASE m[k] = Same
    <3>1. j \in S
      BY <1>4, <1>14, <2>3
    <3>2. PICK x \in S : Wins(x, S, k) /\ tree[k] = rlog[x].muts[k]
      BY <1>12, <3>1 DEF Replayed
    <3>3. Wins(x, T, k)
      BY <1>4, <1>14, <2>3, <3>2 DEF Wins
    <3> QED BY <1>5, <1>14, <2>1, <2>3, <3>2, <3>3
  <2> QED BY <2>2, <2>3
<1>15. ReplayLaid'
  <2>1. Replayed((1 .. readable) \ todo)'
    <3>1. PICK T : T = S \cup {i}
      OBVIOUS
    <3>2. Replayed(T)'
      BY <1>14, <3>1
    <3>3. T = (1 .. readable') \ todo'
      BY <1>11, <3>1
    <3> QED BY <3>2, <3>3 DEF Replayed, Wins
  <2>2. (\A x \in (1 .. readable) \ todo, y \in todo : Before(x, y))'
    <3>1. \A x \in S \cup {i}, y \in todo' : Before(x, y)'
      BY <1>2, <1>13 DEF Before
    <3> QED BY <1>11, <3>1
  <2> QED BY <1>2, <2>1, <2>2 DEF ReplayLaid
<1> QED BY <1>6, <1>7, <1>8, <1>9, <1>15 DEF RecInd

LEMMA RecStepInd == RecInd /\ [RecoveryNext]_recVars => RecInd'
<1> SUFFICES ASSUME RecInd, [RecoveryNext]_recVars PROVE RecInd'
  OBVIOUS
<1>1. CASE UNCHANGED recVars
  BY <1>1 DEF recVars, RecInd, RecoveryTypeOK, TxnsLaid, NothingElse, Untouched, CommitsLaid, Tops,
              ReplayLaid, Replayed, Wins, Before
<1>2. CASE RecoveryNext
  BY <1>2, RecBeginInd, RecAbortInd, RecPrepareInd, RecApplyInd, RecRegisterInd, RecPowerInd,
     RecDownInd, RecReplayInd DEF RecoveryNext
<1> QED BY <1>1, <1>2

LEMMA RecAlways == RecoverySpec => []RecInd
BY RecInitInd, RecStepInd, PTL DEF RecoverySpec

(* The state recover_btree and the write transactions keep is of its types. *)
THEOREM RecoveryType == RecoverySpec => []RecoveryTypeOK
<1>1. RecInd => RecoveryTypeOK
  BY DEF RecInd
<1> QED BY <1>1, RecAlways, PTL

(* recover_btree, for every number of keys, writers, records and power      *)
(* losses: a replay that completes leaves what the readable records add up  *)
(* to in id order, however often it was interrupted, and what the commits   *)
(* that returned Ok add up to wherever no other transaction interfered.     *)
THEOREM RecoveryIsSound == RecoverySpec => []RecoverySound
<1>1. RecInd => RecoverySound
  <2> SUFFICES ASSUME RecInd, stage = "recovered", NEW k \in RKey
               PROVE  /\ \/ /\ Touching(k) = {}
                            /\ (\A i \in 1 .. Len(rlog) : rlog[i].muts[k] = Same) => tree[k] = found[k]
                         \/ \E i \in Touching(k) : /\ \A j \in Touching(k) \ {i} : Before(j, i)
                                                   /\ tree[k] = rlog[i].muts[k]
                      /\ (readable = Len(rlog) /\ Touching(k) \subseteq acked) => tree[k] = committed[k]
    BY DEF RecoverySound, RecoveryConverges, RecoversCommitted
  <2>1. CASE Touching(k) = {}
    <3>1. Untouched(k) => tree[k] = Gone /\ found[k] = Gone /\ committed[k] = Gone
      BY DEF RecInd, NothingElse
    <3>2. readable = Len(rlog) => Untouched(k)
      BY <2>1 DEF Touching, Untouched
    <3> QED BY <2>1, <3>1, <3>2 DEF Untouched
  <2>2. CASE Touching(k) # {}
    <3>1. PICK i \in 1 .. readable : Wins(i, 1 .. readable, k) /\ tree[k] = rlog[i].muts[k]
      BY <2>2 DEF RecInd, ReplayLaid, Replayed, Touching
    <3>2. i \in Touching(k) /\ \A j \in Touching(k) \ {i} : Before(j, i)
      BY <3>1 DEF Wins, Touching
    <3>3. ASSUME readable = Len(rlog), Touching(k) \subseteq acked PROVE tree[k] = committed[k]
      <4>1. PICK t \in acked : Tops(t, k) /\ committed[k] = rlog[t].muts[k]
        BY <3>2, <3>3 DEF RecInd, CommitsLaid, Touching
      <4>2. t \in Touching(k)
        BY <3>3, <4>1 DEF Touching, Tops, RecInd, RecoveryTypeOK
      <4>3. i # t => rlog[i].id < rlog[t].id /\ Before(t, i)
        BY <3>2, <3>3, <4>1, <4>2 DEF Tops, Touching
      <4>4. i \in 1 .. readable /\ t \in 1 .. readable /\ RecoveryTypeOK
        BY <4>2 DEF Touching, RecInd
      <4>5. i # t => Before(i, t)
        BY <4>3 DEF Before
      <4>6. i = t
        BY <4>3, <4>4, <4>5, BeforeOrders
      <4> QED BY <3>1, <4>1, <4>6
    <3> QED BY <3>1, <3>2, <3>3
  <2> QED BY <2>1, <2>2
<1> QED BY <1>1, RecAlways, PTL

-------------------------------------------------------------------------------
(****************************************************************************)
(* Backups.                                                                 *)
(****************************************************************************)
Path == {"Full", "Incremental"} \X Nat

BackupTypes ==
  /\ version \in Nat /\ time \in Nat /\ made \in Nat /\ begun \in Nat
  /\ DOMAIN inode \subseteq Path /\ inode \in [DOMAIN inode -> Nat]
  /\ data \in [DOMAIN data -> Seq(Int)]
  /\ \A b \in DOMAIN backups :
       /\ backups[b].path \in Path /\ backups[b].path[1] = backups[b].kind
       /\ backups[b].sum \in Seq(Int)
       /\ backups[b].kind = "Incremental" => backups[b].sum = <<Rotten>>
  /\ making # NoMaking =>
       /\ making.path \in Path /\ making.path[1] = "Full" /\ making.node \in Nat
       /\ making.path \in DOMAIN inode /\ inode[making.path] = making.node
  /\ target \in Seq(Int)

(* A restore under way stands in the map as one that can be cancelled.      *)
RestoreTypes ==
  /\ DOMAIN recovery \subseteq 1 .. begun
  /\ restore \in [id : Nat, path : Path \cup {<<>>}, node : Nat, want : Seq(Int), clean : BOOLEAN]
  /\ restore # NoRestore =>
       restore.path \in Path /\ restore.id \in DOMAIN recovery /\ recovery[restore.id] = "Restoring"

(* Inodes have one path; the next number is new; an incremental backup's    *)
(* file is empty; the file a restore reads has its own path or none.        *)
Highest == IF making = NoMaking THEN made ELSE made + 1
Inodes ==
  /\ \A p \in DOMAIN inode : inode[p] \in DOMAIN data /\ inode[p] \in 1 .. Highest
  /\ \A p, q \in DOMAIN inode : inode[p] = inode[q] => p = q
  /\ \A p \in DOMAIN inode : p[1] = "Incremental" => data[inode[p]] = <<>>
  /\ restore.node \in 0 .. Highest
  /\ restore.node # None =>
       restore.node \in DOMAIN data /\ \A p \in DOMAIN inode : inode[p] = restore.node => p = restore.path

(* What a restore still called clean has read, and will read, is what the   *)
(* backup recorded.                                                         *)
CleanSource ==
  restore.clean =>
    /\ restore.path[1] = "Full" /\ (making # NoMaking => making.path # restore.path)
    /\ (restore.node = None /\ restore.path \in DOMAIN inode) => data[inode[restore.path]] = restore.want
    /\ restore.node # None =>
         /\ data[restore.node] = restore.want /\ Len(target) <= Len(restore.want)
         /\ \A i \in 1 .. Len(target) : target[i] = restore.want[i]

BackupInd == BackupTypes /\ RestoreTypes /\ Inodes /\ CleanSource /\ RestoreSound

LEMMA PutIs ==
  ASSUME NEW f, NEW k, NEW v
  PROVE  /\ DOMAIN Put(f, k, v) = DOMAIN f \cup {k} /\ Put(f, k, v)[k] = v
         /\ \A x \in DOMAIN f \ {k} : Put(f, k, v)[x] = f[x]
BY DEF Put

LEMMA PutType ==
  ASSUME NEW V, NEW f, f \in [DOMAIN f -> V], NEW k, NEW v \in V
  PROVE  Put(f, k, v) \in [DOMAIN Put(f, k, v) -> V]
BY DEF Put

LEMMA LessIs ==
  ASSUME NEW f, NEW S
  PROVE  /\ DOMAIN Less(f, S) = DOMAIN f \ S
         /\ \A x \in DOMAIN f \ S : Less(f, S)[x] = f[x]
BY DEF Less, Restrict

LEMMA BackupInitInd == BackupInit => BackupInd
<1> SUFFICES ASSUME BackupInit PROVE BackupInd
  OBVIOUS
<1>1. DOMAIN <<>> = {} /\ <<>> \in Seq(Int)
  OBVIOUS
<1>2. BackupTypes
  <2>1. NoFile \in Seq(Int)
    BY DEF NoFile
  <2> QED BY <1>1, <2>1 DEF BackupInit, BackupTypes
<1>3. RestoreTypes
  BY <1>1 DEF BackupInit, RestoreTypes, NoRestore, None
<1>4. Inodes
  BY <1>1 DEF BackupInit, Inodes, NoRestore, None, Highest
<1>5. CleanSource
  BY DEF BackupInit, CleanSource, NoRestore
<1>6. RestoreSound
  BY DEF BackupInit, RestoreSound, VerifiedRestore, PartialCanBeCancelled
<1> QED BY <1>2, <1>3, <1>4, <1>5, <1>6 DEF BackupInd

LEMMA SoundKept ==
  ASSUME BackupInd, last' = last, target' = target, recovery' = recovery,
         restore' = NoRestore => restore = NoRestore
  PROVE  RestoreSound'
BY DEF BackupInd, RestoreSound, VerifiedRestore, PartialCanBeCancelled

(* The restore's steps leave the source alone.                              *)
LEMMA SourceKept ==
  ASSUME BackupInd, UNCHANGED sourceVars, target' \in Seq(Int), begun' \in Nat
  PROVE  BackupTypes'
BY DEF BackupInd, BackupTypes, sourceVars

LEMMA RestoreFacts ==
  ASSUME BackupInd
  PROVE  /\ restore.id \in Nat /\ restore.node \in Nat /\ restore.want \in Seq(Int)
         /\ restore.clean \in BOOLEAN /\ restore.path \in Path \cup {<<>>}
         /\ restore = NoRestore => restore.node = None /\ ~restore.clean
         /\ restore.node # None => restore # NoRestore
BY DEF BackupInd, RestoreTypes, NoRestore

(* A restore that begins: what it is given, and the map.                    *)
LEMMA EntersKeeps ==
  ASSUME BackupInd, restore = NoRestore, LockFree,
         NEW job, Enters(job), UNCHANGED <<sourceVars, target, last>>,
         job # NoRestore =>
           /\ job \in [id : Nat, path : Path, node : {None}, want : Seq(Int), clean : BOOLEAN]
           /\ job.clean => /\ job.path[1] = "Full" /\ job.path \in DOMAIN inode
                           /\ data[inode[job.path]] = job.want
  PROVE  BackupInd'
<1>1. begun \in Nat /\ DOMAIN recovery \subseteq 1 .. begun
  BY DEF BackupInd, BackupTypes, RestoreTypes
<1>2. begun' = begun + 1 /\ recovery' = Put(recovery, begun + 1, "Restoring")
  BY DEF Enters
<1>3. DOMAIN recovery' \subseteq 1 .. begun' /\ begun + 1 \in DOMAIN recovery'
      /\ recovery'[begun + 1] = "Restoring"
  <2>1. DOMAIN recovery' = DOMAIN recovery \cup {begun + 1}
    BY <1>2 DEF Put
  <2>2. recovery'[begun + 1] = "Restoring"
    BY <1>2 DEF Put
  <2> QED BY <1>1, <1>2, <2>1, <2>2
<1>4. BackupTypes'
  <2>1. target \in Seq(Int)
    BY DEF BackupInd, BackupTypes
  <2> QED BY <1>1, <1>2, <2>1, SourceKept
<1>5. /\ version' = version /\ time' = time /\ inode' = inode /\ data' = data /\ backups' = backups
      /\ made' = made /\ making' = making /\ making = NoMaking /\ target' = target /\ last' = last
  BY DEF sourceVars, LockFree
<1>6. CASE job = NoRestore
  <2>1. restore' = NoRestore
    BY <1>6 DEF Enters
  <2>2. RestoreTypes'
    BY <1>3, <2>1 DEF BackupInd, RestoreTypes
  <2>3. Inodes'
    BY <1>5, <2>1 DEF BackupInd, Inodes, Highest
  <2>4. CleanSource'
    BY <2>1 DEF CleanSource, NoRestore
  <2>5. RestoreSound'
    <3>1. VerifiedRestore'
      BY <1>5 DEF BackupInd, RestoreSound, VerifiedRestore
    <3>2. recovery'[begun + 1] # "Completed"
      BY <1>3
    <3> QED BY <1>3, <3>1, <3>2 DEF RestoreSound, PartialCanBeCancelled
  <2> QED BY <1>4, <2>2, <2>3, <2>4, <2>5 DEF BackupInd
<1>7. CASE job # NoRestore
  <2>1. restore' = [job EXCEPT !.id = begun + 1]
    BY <1>7 DEF Enters
  <2>2. job \in [id : Nat, path : Path, node : {None}, want : Seq(Int), clean : BOOLEAN]
    BY <1>7
  <2>3. PICK r : r = [job EXCEPT !.id = begun + 1]
    OBVIOUS
  <2>4. /\ r \in [id : Nat, path : Path, node : {None}, want : Seq(Int), clean : BOOLEAN]
        /\ r.id = begun + 1 /\ r.path = job.path /\ r.node = None /\ r.want = job.want
        /\ r.clean = job.clean
    BY <1>1, <2>2, <2>3
  <2>5. restore' = r
    BY <2>1, <2>3
  <2>6. r \in [id : Nat, path : Path \cup {<<>>}, node : Nat, want : Seq(Int), clean : BOOLEAN]
        /\ r.path \in Path
    BY <2>4 DEF None
  <2>7. RestoreTypes'
    BY <1>3, <2>4, <2>5, <2>6 DEF RestoreTypes
  <2>8. Inodes'
    BY <1>5, <2>4, <2>5 DEF BackupInd, Inodes, Highest, BackupTypes, None
  <2>9. CleanSource'
    BY <1>5, <1>7, <2>4, <2>5 DEF CleanSource
  <2>10. RestoreSound'
    <3>1. restore' # NoRestore
      BY <1>1, <2>4, <2>5 DEF NoRestore, None
    <3> QED BY <1>5, <3>1 DEF BackupInd, RestoreSound, VerifiedRestore, PartialCanBeCancelled
  <2> QED BY <1>4, <2>7, <2>8, <2>9, <2>10 DEF BackupInd
<1> QED BY <1>6, <1>7

LEMMA FromIs ==
  ASSUME BackupInd, NEW b \in DOMAIN backups, NEW v \in BOOLEAN, NEW job, job = From(b, v)
  PROVE  /\ job \in [id : Nat, path : Path, node : {None}, want : Seq(Int), clean : BOOLEAN]
         /\ job.path = backups[b].path /\ job.want = backups[b].sum /\ job.clean = v
<1>1. backups[b].path \in Path /\ backups[b].sum \in Seq(Int)
  BY DEF BackupInd, BackupTypes
<1>2. job = [id |-> None, path |-> backups[b].path, node |-> None, want |-> backups[b].sum, clean |-> v]
  BY DEF From, NoRestore
<1> QED BY <1>1, <1>2 DEF None

LEMMA RestoreFullInd == ASSUME BackupInd, NEW b, RestoreFull(b) PROVE BackupInd'
<1>1. PICK job : job = IF b \in DOMAIN backups /\ Verified(b) THEN From(b, TRUE) ELSE NoRestore
  OBVIOUS
<1>2. restore = NoRestore /\ LockFree /\ Enters(job) /\ UNCHANGED <<sourceVars, target, last>>
  BY <1>1 DEF RestoreFull, MayRestore
<1>3. ASSUME job # NoRestore
      PROVE  /\ job \in [id : Nat, path : Path, node : {None}, want : Seq(Int), clean : BOOLEAN]
             /\ job.clean => /\ job.path[1] = "Full" /\ job.path \in DOMAIN inode
                             /\ data[inode[job.path]] = job.want
  <2>1. b \in DOMAIN backups /\ Verified(b) /\ job = From(b, TRUE)
    BY <1>1, <1>3
  <2>2. /\ job \in [id : Nat, path : Path, node : {None}, want : Seq(Int), clean : BOOLEAN]
        /\ job.path = backups[b].path /\ job.want = backups[b].sum
    BY <2>1, FromIs
  <2>3. job.path \in DOMAIN inode /\ data[inode[job.path]] = job.want
    BY <2>1, <2>2 DEF Verified
  <2>4. job.path[1] \in {"Full", "Incremental"}
    BY <2>2 DEF Path
  <2>5. job.path[1] # "Incremental"
    <3> SUFFICES ASSUME job.path[1] = "Incremental" PROVE FALSE
      OBVIOUS
    <3>1. job.want = <<Rotten>>
      BY <2>1, <2>2 DEF BackupInd, BackupTypes
    <3>2. data[inode[job.path]] = <<>>
      BY <2>3 DEF BackupInd, Inodes
    <3>3. <<Rotten>> # <<>>
      OBVIOUS
    <3> QED BY <2>3, <3>1, <3>2, <3>3
  <2> QED BY <2>2, <2>3, <2>4, <2>5
<1> QED BY <1>2, <1>3, EntersKeeps

LEMMA RestoreChainInd == ASSUME BackupInd, NEW b, RestoreChain(b) PROVE BackupInd'
<1>1. restore = NoRestore /\ LockFree /\ UNCHANGED <<sourceVars, target, last>>
  BY DEF RestoreChain, MayRestore
<1>2. ASSUME NEW c \in DOMAIN backups, Enters(From(c, FALSE)) PROVE BackupInd'
  <2>1. PICK job : job = From(c, FALSE)
    OBVIOUS
  <2>2. job \in [id : Nat, path : Path, node : {None}, want : Seq(Int), clean : BOOLEAN] /\ job.clean = FALSE
    BY <2>1, FromIs
  <2>3. Enters(job)
    BY <1>2, <2>1
  <2> QED BY <1>1, <2>2, <2>3, EntersKeeps
<1>3. ASSUME begun' = begun + 1, restore' = restore, recovery' = Put(recovery, begun + 1, "Completed")
      PROVE  BackupInd'
  <2>1. begun \in Nat /\ DOMAIN recovery \subseteq 1 .. begun /\ target \in Seq(Int)
    BY DEF BackupInd, BackupTypes, RestoreTypes
  <2>2. DOMAIN recovery' = DOMAIN recovery \cup {begun + 1}
        /\ \A r \in DOMAIN recovery : recovery'[r] = recovery[r]
    <3>1. begun + 1 \notin DOMAIN recovery
      BY <2>1
    <3> QED BY <1>3, <3>1 DEF Put
  <2>3. BackupTypes'
    BY <1>1, <1>3, <2>1, SourceKept
  <2>4. RestoreTypes'
    BY <1>1, <1>3, <2>1, <2>2 DEF BackupInd, RestoreTypes
  <2>5. Inodes' /\ CleanSource'
    BY <1>1, <1>3 DEF BackupInd, Inodes, CleanSource, Highest, sourceVars
  <2>6. RestoreSound'
    BY <1>1, <1>3, <2>2 DEF BackupInd, RestoreSound, VerifiedRestore, PartialCanBeCancelled
  <2> QED BY <2>3, <2>4, <2>5, <2>6 DEF BackupInd
<1> QED BY <1>2, <1>3 DEF RestoreChain

LEMMA OpenInd == ASSUME BackupInd, OpenFiles PROVE BackupInd'
<1>1. /\ restore # NoRestore /\ restore.node = None
      /\ UNCHANGED sourceVars /\ recovery' = recovery /\ begun' = begun /\ last' = last
  BY DEF OpenFiles
<1>2. target \in Seq(Int) /\ begun \in Nat /\ <<>> \in Seq(Int)
  BY DEF BackupInd, BackupTypes
<1>3. /\ version' = version /\ time' = time /\ inode' = inode /\ data' = data /\ backups' = backups
      /\ made' = made /\ making' = making
  BY <1>1 DEF sourceVars
<1>4. BackupTypes'
  BY <1>1, <1>2, SourceKept DEF OpenFiles
<1>5. restore.id \in DOMAIN recovery /\ recovery[restore.id] = "Restoring"
  BY <1>1 DEF BackupInd, RestoreTypes
<1>6. CASE restore.path \notin DOMAIN inode
  <2>1. restore' = NoRestore /\ target' = target
    BY <1>6 DEF OpenFiles
  <2>2. RestoreTypes'
    <3>1. NoRestore \in [id : Nat, path : Path \cup {<<>>}, node : Nat, want : Seq(Int), clean : BOOLEAN]
      BY <1>2 DEF NoRestore, None
    <3> QED BY <1>1, <2>1, <3>1 DEF BackupInd, RestoreTypes
  <2>3. Inodes' /\ CleanSource'
    BY <1>3, <1>1, <2>1 DEF BackupInd, Inodes, CleanSource, Highest, NoRestore
  <2>4. RestoreSound'
    BY <1>1, <1>5 DEF BackupInd, RestoreSound, VerifiedRestore, PartialCanBeCancelled
  <2> QED BY <1>4, <2>2, <2>3, <2>4 DEF BackupInd
<1>7. CASE restore.path \in DOMAIN inode
  <2>1. target' = <<>> /\ restore' = [restore EXCEPT !.node = inode[restore.path]]
    BY <1>7 DEF OpenFiles
  <2>2. PICK n : n = inode[restore.path]
    OBVIOUS
  <2>3. n \in DOMAIN data /\ n \in 1 .. Highest /\ n \in Nat
        /\ \A p \in DOMAIN inode : inode[p] = n => p = restore.path
    BY <1>7, <2>2 DEF BackupInd, Inodes, BackupTypes
  <2>4. restore \in [id : Nat, path : Path \cup {<<>>}, node : Nat, want : Seq(Int), clean : BOOLEAN]
        /\ restore.path \in Path
    BY <1>1 DEF BackupInd, RestoreTypes
  <2>5. PICK r : r = [restore EXCEPT !.node = n]
    OBVIOUS
  <2>6. /\ r \in [id : Nat, path : Path \cup {<<>>}, node : Nat, want : Seq(Int), clean : BOOLEAN]
        /\ r.id = restore.id /\ r.path = restore.path /\ r.node = n /\ r.want = restore.want
        /\ r.clean = restore.clean /\ restore' = r
    BY <2>1, <2>2, <2>3, <2>4, <2>5
  <2>7. n # None /\ made \in Nat /\ Highest \in Nat /\ Highest' = Highest
    BY <1>3, <2>3 DEF None, BackupInd, BackupTypes, Highest
  <2>8. restore' # NoRestore
    BY <2>6, <2>7 DEF NoRestore
  <2>9. RestoreTypes'
    BY <1>1, <1>5, <2>4, <2>6 DEF BackupInd, RestoreTypes
  <2>10. Inodes'
    BY <1>3, <2>3, <2>6, <2>7 DEF BackupInd, Inodes
  <2>11. CleanSource'
    <3> SUFFICES ASSUME restore.clean PROVE CleanSource'
      BY <2>6 DEF CleanSource
    <3>1. /\ restore.path[1] = "Full" /\ (making # NoMaking => making.path # restore.path)
          /\ data[n] = restore.want
      BY <1>1, <1>7, <2>2 DEF BackupInd, CleanSource
    <3>2. Len(target') = 0 /\ restore.want \in Seq(Int)
      BY <2>1, <2>4
    <3> QED BY <1>3, <2>6, <2>7, <3>1, <3>2 DEF CleanSource
  <2>12. RestoreSound'
    BY <1>1, <2>8 DEF BackupInd, RestoreSound, VerifiedRestore, PartialCanBeCancelled
  <2> QED BY <1>4, <2>9, <2>10, <2>11, <2>12 DEF BackupInd
<1> QED BY <1>6, <1>7

LEMMA ChunkInd == ASSUME BackupInd, RestoreChunk PROVE BackupInd'
<1>1. /\ restore.node # None /\ Len(target) < Len(data[restore.node])
      /\ target' = Append(target, data[restore.node][Len(target) + 1])
      /\ UNCHANGED sourceVars /\ recovery' = recovery /\ begun' = begun /\ restore' = restore
      /\ last' = last
  BY DEF RestoreChunk, Reading
<1>2. PICK s : s = data[restore.node]
  OBVIOUS
<1>3. target \in Seq(Int) /\ s \in Seq(Int) /\ begun \in Nat
  <2>1. restore.node \in DOMAIN data
    BY <1>1 DEF BackupInd, Inodes
  <2> QED BY <1>2, <2>1 DEF BackupInd, BackupTypes
<1>4. PICK n \in Nat : n = Len(target)
  BY <1>3
<1>5. n < Len(s) /\ target' = Append(target, s[n + 1]) /\ n + 1 \in 1 .. Len(s)
  BY <1>1, <1>2, <1>3, <1>4
<1>6. s[n + 1] \in Int
  BY <1>3, <1>5
<1>7. target' \in Seq(Int) /\ Len(target') = n + 1 /\ target'[n + 1] = s[n + 1]
      /\ \A i \in 1 .. n : target'[i] = target[i]
  BY <1>3, <1>4, <1>5, <1>6
<1>8. BackupTypes'
  BY <1>1, <1>3, <1>7, SourceKept
<1>9. RestoreTypes'
  BY <1>1 DEF BackupInd, RestoreTypes
<1>10. Inodes'
  BY <1>1 DEF BackupInd, Inodes, Highest, sourceVars
<1>11. CleanSource'
  <2> SUFFICES ASSUME restore.clean PROVE CleanSource'
    BY <1>1 DEF CleanSource
  <2>1. /\ restore.path[1] = "Full" /\ (making # NoMaking => making.path # restore.path)
        /\ s = restore.want /\ \A i \in 1 .. n : target[i] = restore.want[i]
    BY <1>1, <1>2, <1>4 DEF BackupInd, CleanSource
  <2>2. Len(target') <= Len(restore.want)
    BY <1>3, <1>5, <1>7, <2>1
  <2>3. \A i \in 1 .. (n + 1) : target'[i] = restore.want[i]
    <3> SUFFICES ASSUME NEW i \in 1 .. (n + 1) PROVE target'[i] = restore.want[i]
      OBVIOUS
    <3>1. CASE i = n + 1
      BY <1>7, <2>1, <3>1
    <3>2. CASE i \in 1 .. n
      BY <1>7, <2>1, <3>2
    <3> QED BY <3>1, <3>2
  <2>4. making' = making /\ inode' = inode /\ data' = data
    BY <1>1 DEF sourceVars
  <2> QED BY <1>1, <1>2, <1>7, <2>1, <2>2, <2>3, <2>4 DEF CleanSource
<1>12. RestoreSound'
  <2>1. restore # NoRestore
    BY <1>1, RestoreFacts
  <2> QED BY <1>1, <2>1 DEF BackupInd, RestoreSound, VerifiedRestore, PartialCanBeCancelled
<1> QED BY <1>8, <1>9, <1>10, <1>11, <1>12 DEF BackupInd

(* A restore that ends leaves nothing behind but its entry in the map.      *)
LEMMA EndKeeps ==
  ASSUME BackupInd, restore' = NoRestore, UNCHANGED sourceVars, target' \in Seq(Int), begun' = begun,
         DOMAIN recovery' \subseteq 1 .. begun
  PROVE  BackupTypes' /\ RestoreTypes' /\ Inodes' /\ CleanSource'
<1>1. BackupTypes'
  <2>1. begun \in Nat
    BY DEF BackupInd, BackupTypes
  <2> QED BY <2>1, SourceKept
<1>2. RestoreTypes'
  <2>1. NoRestore \in [id : Nat, path : Path \cup {<<>>}, node : Nat, want : Seq(Int), clean : BOOLEAN]
    BY DEF NoRestore, None
  <2> QED BY <2>1 DEF RestoreTypes
<1>3. /\ inode' = inode /\ data' = data /\ made' = made /\ making' = making
  BY DEF sourceVars
<1>4. Highest \in Nat /\ Highest' = Highest
  BY <1>3 DEF BackupInd, BackupTypes, Highest
<1>5. Inodes'
  BY <1>3, <1>4 DEF BackupInd, Inodes, NoRestore, None
<1>6. CleanSource'
  BY DEF CleanSource, NoRestore
<1> QED BY <1>1, <1>2, <1>5, <1>6

LEMMA DoneInd == ASSUME BackupInd, RestoreDone PROVE BackupInd'
<1>1. /\ restore.node # None /\ Len(target) >= Len(data[restore.node])
      /\ recovery' = Put(recovery, restore.id, "Completed")
      /\ last' = [want |-> restore.want, got |-> target, clean |-> restore.clean]
      /\ restore' = NoRestore /\ UNCHANGED sourceVars /\ begun' = begun /\ target' = target
  BY DEF RestoreDone, Reading
<1>2. restore # NoRestore
  BY <1>1, RestoreFacts
<1>3. DOMAIN recovery' = DOMAIN recovery
  <2>1. restore.id \in DOMAIN recovery
    BY <1>2 DEF BackupInd, RestoreTypes
  <2> QED BY <1>1, <2>1 DEF Put
<1>4. target \in Seq(Int) /\ DOMAIN recovery' \subseteq 1 .. begun
  BY <1>3 DEF BackupInd, BackupTypes, RestoreTypes
<1>5. BackupTypes' /\ RestoreTypes' /\ Inodes' /\ CleanSource'
  BY <1>1, <1>4, EndKeeps
<1>6. restore.clean => target = restore.want
  <2> SUFFICES ASSUME restore.clean PROVE target = restore.want
    OBVIOUS
  <2>1. /\ data[restore.node] = restore.want /\ Len(target) <= Len(restore.want)
        /\ \A i \in 1 .. Len(target) : target[i] = restore.want[i]
    BY <1>1 DEF BackupInd, CleanSource
  <2>2. restore.want \in Seq(Int)
    BY RestoreFacts
  <2>3. Len(target) = Len(restore.want)
    BY <1>1, <1>4, <2>1, <2>2
  <2>4. PICK t, w : t = target /\ w = restore.want
    OBVIOUS
  <2>5. t \in Seq(Int) /\ w \in Seq(Int) /\ Len(t) = Len(w) /\ \A i \in 1 .. Len(t) : t[i] = w[i]
    BY <1>4, <2>1, <2>2, <2>3, <2>4
  <2>6. t = w
    BY ONLY <2>5, SameSequence
  <2> QED BY <2>4, <2>6
<1>7. RestoreSound'
  BY <1>1, <1>6 DEF RestoreSound, VerifiedRestore, PartialCanBeCancelled
<1> QED BY <1>5, <1>7 DEF BackupInd

LEMMA FailsInd == ASSUME BackupInd, RestoreFails PROVE BackupInd'
<1>1. /\ restore.node # None /\ restore' = NoRestore /\ UNCHANGED sourceVars /\ recovery' = recovery
      /\ begun' = begun /\ target' = target /\ last' = last
  BY DEF RestoreFails, Reading
<1>2. restore # NoRestore
  BY <1>1, RestoreFacts
<1>3. target \in Seq(Int) /\ DOMAIN recovery' \subseteq 1 .. begun
  BY <1>1 DEF BackupInd, BackupTypes, RestoreTypes
<1>4. BackupTypes' /\ RestoreTypes' /\ Inodes' /\ CleanSource'
  BY <1>1, <1>3, EndKeeps
<1>5. restore.id \in DOMAIN recovery /\ recovery[restore.id] = "Restoring"
  BY <1>2 DEF BackupInd, RestoreTypes
<1>6. RestoreSound'
  BY <1>1, <1>5 DEF BackupInd, RestoreSound, VerifiedRestore, PartialCanBeCancelled
<1> QED BY <1>4, <1>6 DEF BackupInd

LEMMA CancelRecoveryInd == ASSUME BackupInd, NEW r, CancelRecovery(r) PROVE BackupInd'
<1>1. /\ restore = NoRestore /\ restore' = NoRestore /\ UNCHANGED sourceVars
      /\ recovery' = Less(recovery, {r}) /\ begun' = begun /\ target' = NoFile /\ last' = last
  BY DEF CancelRecovery
<1>2. target' \in Seq(Int)
  BY <1>1 DEF NoFile
<1>3. DOMAIN recovery' \subseteq 1 .. begun
  <2>1. DOMAIN recovery' = DOMAIN recovery \ {r}
    BY <1>1 DEF Less, Restrict
  <2> QED BY <2>1 DEF BackupInd, RestoreTypes
<1>4. BackupTypes' /\ RestoreTypes' /\ Inodes' /\ CleanSource'
  BY <1>1, <1>2, <1>3, EndKeeps
<1>5. RestoreSound'
  BY <1>1 DEF BackupInd, RestoreSound, VerifiedRestore, PartialCanBeCancelled
<1> QED BY <1>4, <1>5 DEF BackupInd

-------------------------------------------------------------------------------
(* What leaves the restore alone.                                           *)
LEMMA TargetKept ==
  ASSUME BackupInd, UNCHANGED targetVars
  PROVE  RestoreTypes' /\ RestoreSound' /\ restore' = restore /\ target' = target
BY DEF BackupInd, RestoreTypes, RestoreSound, VerifiedRestore, PartialCanBeCancelled, targetVars

LEMMA ClockInd == ASSUME BackupInd, Write \/ TimePasses PROVE BackupInd'
<1>1. /\ UNCHANGED targetVars /\ inode' = inode /\ data' = data /\ backups' = backups /\ made' = made
      /\ making' = making /\ version' \in Nat /\ time' \in Nat
  BY DEF BackupInd, BackupTypes, Write, TimePasses
<1>2. RestoreTypes' /\ RestoreSound' /\ restore' = restore /\ target' = target /\ begun' = begun
  BY <1>1, TargetKept DEF targetVars
<1>3. BackupTypes'
  BY <1>1, <1>2 DEF BackupInd, BackupTypes
<1>4. Inodes' /\ CleanSource'
  BY <1>1, <1>2 DEF BackupInd, Inodes, CleanSource, Highest
<1> QED BY <1>2, <1>3, <1>4 DEF BackupInd

(* The file being made is not the one a clean restore reads.                *)
LEMMA MakingApart ==
  ASSUME BackupInd, making # NoMaking, restore.clean
  PROVE  /\ restore.node # None => restore.node # making.node
         /\ restore.path \in DOMAIN inode => inode[restore.path] # making.node
<1>1. making.path \in DOMAIN inode /\ inode[making.path] = making.node /\ making.path # restore.path
  BY DEF BackupInd, BackupTypes, CleanSource
<1> QED BY <1>1 DEF BackupInd, Inodes

LEMMA CopyInd == ASSUME BackupInd, CopyChunk PROVE BackupInd'
<1>1. PICK n : n = making.node
  OBVIOUS
<1>2. /\ making # NoMaking /\ data' = [data EXCEPT ![n] = Append(@, version)]
      /\ UNCHANGED targetVars /\ inode' = inode /\ backups' = backups /\ made' = made
      /\ making' = making /\ version' = version /\ time' = time
  BY <1>1 DEF CopyChunk
<1>3. RestoreTypes' /\ RestoreSound' /\ restore' = restore /\ target' = target /\ begun' = begun
  BY <1>2, TargetKept DEF targetVars
<1>4. making.path \in DOMAIN inode /\ inode[making.path] = n /\ making.path[1] = "Full"
  BY <1>1, <1>2 DEF BackupInd, BackupTypes
<1>5. n \in DOMAIN data /\ data \in [DOMAIN data -> Seq(Int)] /\ version \in Int
  BY <1>4 DEF BackupInd, BackupTypes, Inodes
<1>6. PICK s : s = Append(data[n], version)
  OBVIOUS
<1>7. s \in Seq(Int)
  BY <1>5, <1>6
<1>8. data' = [data EXCEPT ![n] = s]
  BY <1>2, <1>6
<1>9. DOMAIN data' = DOMAIN data /\ data' \in [DOMAIN data' -> Seq(Int)]
      /\ \A x \in DOMAIN data \ {n} : data'[x] = data[x]
  BY <1>5, <1>7, <1>8
<1>10. BackupTypes'
  BY <1>2, <1>3, <1>9 DEF BackupInd, BackupTypes
<1>11. Inodes'
  <2>1. ASSUME NEW p \in DOMAIN inode, p[1] = "Incremental" PROVE data'[inode[p]] = <<>>
    <3>1. inode[p] # n /\ inode[p] \in DOMAIN data /\ data[inode[p]] = <<>>
      <4>1. p # making.path
        BY <1>4, <2>1
      <4> QED BY <1>4, <2>1, <4>1 DEF BackupInd, Inodes
    <3> QED BY <1>9, <3>1
  <2> QED BY <1>2, <1>3, <1>9, <2>1 DEF BackupInd, Inodes, Highest
<1>12. CleanSource'
  <2> SUFFICES ASSUME restore.clean PROVE CleanSource'
    BY <1>3 DEF CleanSource
  <2>1. restore.path \in DOMAIN inode => data'[inode[restore.path]] = data[inode[restore.path]]
    BY <1>1, <1>2, <1>9, MakingApart DEF BackupInd, Inodes
  <2>2. restore.node # None => data'[restore.node] = data[restore.node]
    BY <1>1, <1>2, <1>9, MakingApart DEF BackupInd, Inodes
  <2> QED BY <1>2, <1>3, <2>1, <2>2 DEF BackupInd, CleanSource
<1> QED BY <1>3, <1>10, <1>11, <1>12 DEF BackupInd

(* Files that are unlinked take nothing from the others, nor from a reader. *)
LEMMA UnlinkKeeps ==
  ASSUME BackupInd, data' = data, restore' = restore, target' = target, making' = NoMaking,
         DOMAIN inode' \subseteq DOMAIN inode, \A p \in DOMAIN inode' : inode'[p] = inode[p],
         made' \in Nat, made' >= Highest
  PROVE  Inodes' /\ CleanSource'
<1>1. Highest \in Nat /\ Highest' = made' /\ \A n \in 0 .. Highest : n \in 0 .. Highest'
  BY DEF BackupInd, BackupTypes, Highest
<1>2. \A n \in 1 .. Highest : n \in 1 .. Highest'
  BY <1>1
<1>3. Inodes'
  BY <1>1, <1>2 DEF BackupInd, Inodes
<1>4. CleanSource'
  BY DEF BackupInd, CleanSource
<1> QED BY <1>3, <1>4

LEMMA UnlinkedIs ==
  ASSUME BackupInd, NEW S, NEW f, f = Unlinked(S)
  PROVE  /\ DOMAIN f \subseteq DOMAIN inode /\ DOMAIN f \subseteq Path /\ f \in [DOMAIN f -> Nat]
         /\ \A p \in DOMAIN f : f[p] = inode[p]
BY DEF Unlinked, Less, Restrict, BackupInd, BackupTypes

LEMMA LessBackups ==
  ASSUME BackupInd, NEW S, NEW f, f = Less(backups, S), NEW b \in DOMAIN f
  PROVE  /\ f[b].path \in Path /\ f[b].path[1] = f[b].kind /\ f[b].sum \in Seq(Int)
         /\ f[b].kind = "Incremental" => f[b].sum = <<Rotten>>
<1>1. b \in DOMAIN backups /\ f[b] = backups[b]
  BY DEF Less, Restrict
<1> QED BY <1>1 DEF BackupInd, BackupTypes

LEMMA DeleteInd == ASSUME BackupInd, NEW b, DeleteBackup(b) PROVE BackupInd'
<1>1. /\ making = NoMaking /\ backups' = Less(backups, {b}) /\ inode' = Unlinked({b})
      /\ version' = version /\ time' = time /\ data' = data /\ made' = made /\ making' = making
      /\ UNCHANGED targetVars
  BY DEF DeleteBackup, LockFree
<1>2. RestoreTypes' /\ RestoreSound' /\ restore' = restore /\ target' = target /\ begun' = begun
  BY <1>1, TargetKept DEF targetVars
<1>3. PICK f : f = Unlinked({b})
  OBVIOUS
<1>4. inode' = f /\ DOMAIN f \subseteq DOMAIN inode /\ DOMAIN f \subseteq Path /\ f \in [DOMAIN f -> Nat]
      /\ \A p \in DOMAIN f : f[p] = inode[p]
  BY <1>1, <1>3, UnlinkedIs
<1>5. PICK g : g = Less(backups, {b})
  OBVIOUS
<1>6. BackupTypes'
  <2>1. backups' = g
    BY <1>1, <1>5
  <2>2. \A c \in DOMAIN g : /\ g[c].path \in Path /\ g[c].path[1] = g[c].kind /\ g[c].sum \in Seq(Int)
                            /\ g[c].kind = "Incremental" => g[c].sum = <<Rotten>>
    <3> SUFFICES ASSUME NEW c \in DOMAIN g
                 PROVE  /\ g[c].path \in Path /\ g[c].path[1] = g[c].kind /\ g[c].sum \in Seq(Int)
                        /\ g[c].kind = "Incremental" => g[c].sum = <<Rotten>>
      OBVIOUS
    <3> QED BY <1>5, LessBackups
  <2> QED BY <1>1, <1>2, <1>4, <2>1, <2>2 DEF BackupInd, BackupTypes
<1>7. made \in Nat /\ made >= Highest
  BY <1>1 DEF BackupInd, BackupTypes, Highest
<1>8. Inodes' /\ CleanSource'
  BY <1>1, <1>2, <1>4, <1>7, UnlinkKeeps
<1> QED BY <1>2, <1>6, <1>8 DEF BackupInd

LEMMA FailFullInd == ASSUME BackupInd, FailFull PROVE BackupInd'
<1>1. /\ making # NoMaking /\ making' = NoMaking /\ made' = made + 1 /\ version' = version /\ time' = time
      /\ inode' = inode /\ data' = data /\ backups' = backups /\ UNCHANGED targetVars
  BY DEF FailFull
<1>2. RestoreTypes' /\ RestoreSound' /\ restore' = restore /\ target' = target /\ begun' = begun
  BY <1>1, TargetKept DEF targetVars
<1>3. made' \in Nat /\ made' >= Highest
  BY <1>1 DEF BackupInd, BackupTypes, Highest
<1>4. BackupTypes'
  BY <1>1, <1>2, <1>3 DEF BackupInd, BackupTypes
<1>5. Inodes' /\ CleanSource'
  BY <1>1, <1>2, <1>3, UnlinkKeeps
<1> QED BY <1>2, <1>4, <1>5 DEF BackupInd

LEMMA FinishInd == ASSUME BackupInd, FinishFull PROVE BackupInd'
<1>1. PICK new : new = [kind |-> "Full", path |-> making.path, created |-> making.path[2],
                        prev |-> None, sum |-> data[making.node]]
  OBVIOUS
<1>2. /\ making # NoMaking /\ made' = made + 1
      /\ backups' = Put(Less(backups, Aged), made + 1, new) /\ inode' = Unlinked(Aged)
      /\ making' = NoMaking /\ version' = version /\ time' = time /\ data' = data
      /\ UNCHANGED targetVars
  BY <1>1 DEF FinishFull
<1>3. RestoreTypes' /\ RestoreSound' /\ restore' = restore /\ target' = target /\ begun' = begun
  BY <1>2, TargetKept DEF targetVars
<1>4. PICK f : f = Unlinked(Aged)
  OBVIOUS
<1>5. inode' = f /\ DOMAIN f \subseteq DOMAIN inode /\ DOMAIN f \subseteq Path /\ f \in [DOMAIN f -> Nat]
      /\ \A p \in DOMAIN f : f[p] = inode[p]
  BY <1>2, <1>4, UnlinkedIs
<1>6. made' \in Nat /\ made' >= Highest
  BY <1>2 DEF BackupInd, BackupTypes, Highest
<1>7. /\ new.path \in Path /\ new.path[1] = new.kind /\ new.sum \in Seq(Int)
      /\ new.kind = "Full"
  <2>1. making.path \in Path /\ making.path[1] = "Full" /\ making.node \in DOMAIN data
    BY <1>2 DEF BackupInd, BackupTypes, Inodes
  <2>2. data[making.node] \in Seq(Int)
    BY <2>1 DEF BackupInd, BackupTypes
  <2> QED BY <1>1, <2>1, <2>2
<1>8. PICK g : g = Less(backups, Aged)
  OBVIOUS
<1>9. ASSUME NEW c \in DOMAIN backups'
      PROVE  /\ backups'[c].path \in Path /\ backups'[c].path[1] = backups'[c].kind
             /\ backups'[c].sum \in Seq(Int)
             /\ backups'[c].kind = "Incremental" => backups'[c].sum = <<Rotten>>
  <2>1. backups' = Put(g, made + 1, new)
    BY <1>2, <1>8
  <2>2. CASE c = made + 1
    <3>1. backups'[c] = new
      BY <2>1, <2>2 DEF Put
    <3> QED BY <1>7, <3>1
  <2>3. CASE c # made + 1
    <3>1. c \in DOMAIN g /\ backups'[c] = g[c]
      BY <2>1, <2>3 DEF Put
    <3> QED BY <1>8, <3>1, LessBackups
  <2> QED BY <2>2, <2>3
<1>10. BackupTypes'
  BY <1>2, <1>3, <1>5, <1>6, <1>9 DEF BackupInd, BackupTypes
<1>11. Inodes' /\ CleanSource'
  BY <1>2, <1>3, <1>5, <1>6, UnlinkKeeps
<1> QED BY <1>3, <1>10, <1>11 DEF BackupInd

LEMMA IncrementalInd == ASSUME BackupInd, CreateIncremental PROVE BackupInd'
<1>1. PICK path : path = <<"Incremental", time>>
  OBVIOUS
<1>2. PICK f : f = Unlinked(Aged)
  OBVIOUS
<1>3. PICK g : g = Less(backups, Aged)
  OBVIOUS
<1>4. PICK n : n = made + 1
  OBVIOUS
<1>5. PICK base : /\ inode' = Put(f, path, n) /\ data' = Put(data, n, <<>>)
                  /\ backups' = Put(g, n, [kind |-> "Incremental", path |-> path, created |-> time,
                                           prev |-> base, sum |-> <<Rotten>>])
  BY <1>1, <1>2, <1>3, <1>4 DEF CreateIncremental
<1>6. /\ making = NoMaking /\ made' = n /\ version' = version /\ time' = time /\ making' = making
      /\ UNCHANGED targetVars
  BY <1>4 DEF CreateIncremental, LockFree
<1>7. RestoreTypes' /\ RestoreSound' /\ restore' = restore /\ target' = target /\ begun' = begun
  BY <1>6, TargetKept DEF targetVars
<1>8. DOMAIN f \subseteq DOMAIN inode /\ DOMAIN f \subseteq Path /\ f \in [DOMAIN f -> Nat]
      /\ \A p \in DOMAIN f : f[p] = inode[p]
  BY <1>2, UnlinkedIs
<1>9. path \in Path /\ path[1] = "Incremental" /\ n \in Nat /\ Highest = made /\ Highest' = n /\ made \in Nat
  BY <1>1, <1>4, <1>6 DEF BackupInd, BackupTypes, Path, Highest
<1>10. n \notin 0 .. made /\ 0 .. made \subseteq 0 .. n /\ 1 .. made \subseteq 1 .. n /\ n \in 1 .. n
  BY <1>4, <1>9
<1>11. DOMAIN inode' = DOMAIN f \cup {path} /\ inode'[path] = n
       /\ \A p \in DOMAIN inode' \ {path} : p \in DOMAIN inode /\ inode'[p] = inode[p]
  BY <1>5, <1>8 DEF Put
<1>12. DOMAIN data' = DOMAIN data \cup {n} /\ data'[n] = <<>>
       /\ \A x \in DOMAIN data \ {n} : data'[x] = data[x]
  BY <1>5 DEF Put
<1>13. BackupTypes'
  <2>1. DOMAIN inode' \subseteq Path /\ inode' \in [DOMAIN inode' -> Nat]
    <3>1. inode' \in [DOMAIN f \cup {path} -> Nat]
      BY <1>5, <1>8, <1>9 DEF Put
    <3> QED BY <1>8, <1>9, <1>11, <3>1
  <2>2. data' \in [DOMAIN data' -> Seq(Int)]
    <3>1. data \in [DOMAIN data -> Seq(Int)] /\ <<>> \in Seq(Int)
      BY DEF BackupInd, BackupTypes
    <3>2. data' \in [DOMAIN data \cup {n} -> Seq(Int)]
      BY <1>5, <3>1 DEF Put
    <3> QED BY <1>12, <3>2
  <2>3. ASSUME NEW c \in DOMAIN backups'
        PROVE  /\ backups'[c].path \in Path /\ backups'[c].path[1] = backups'[c].kind
               /\ backups'[c].sum \in Seq(Int)
               /\ backups'[c].kind = "Incremental" => backups'[c].sum = <<Rotten>>
    <3>1. CASE c = n
      <4>1. backups'[c] = [kind |-> "Incremental", path |-> path, created |-> time,
                           prev |-> base, sum |-> <<Rotten>>]
        BY <1>5, <3>1 DEF Put
      <4>2. <<Rotten>> \in Seq(Int)
        BY DEF Rotten
      <4> QED BY <1>9, <4>1, <4>2
    <3>2. CASE c # n
      <4>1. c \in DOMAIN g /\ backups'[c] = g[c]
        BY <1>5, <3>2 DEF Put
      <4> QED BY <1>3, <4>1, LessBackups
    <3> QED BY <3>1, <3>2
  <2> QED BY <1>6, <1>7, <1>9, <2>1, <2>2, <2>3 DEF BackupInd, BackupTypes
<1>14. \A p \in DOMAIN inode : inode[p] \in DOMAIN data /\ inode[p] \in 1 .. made /\ inode[p] # n
  <2>1. \A p \in DOMAIN inode : inode[p] \in DOMAIN data /\ inode[p] \in 1 .. made
    BY <1>9 DEF BackupInd, Inodes
  <2>2. n \notin 1 .. made
    BY <1>4, <1>9
  <2> QED BY <2>1, <2>2
<1>15. restore.node \in 0 .. made /\ restore.node # n
  BY <1>9, <1>10 DEF BackupInd, Inodes
<1>16. Inodes'
  <2>1. ASSUME NEW p \in DOMAIN inode' PROVE inode'[p] \in DOMAIN data' /\ inode'[p] \in 1 .. n
    BY <1>10, <1>11, <1>12, <1>14
  <2>2. ASSUME NEW p \in DOMAIN inode', NEW q \in DOMAIN inode', inode'[p] = inode'[q] PROVE p = q
    BY <1>11, <1>14, <2>2 DEF BackupInd, Inodes
  <2>3. ASSUME NEW p \in DOMAIN inode', p[1] = "Incremental" PROVE data'[inode'[p]] = <<>>
    BY <1>11, <1>12, <1>14, <2>3 DEF BackupInd, Inodes
  <2>4. ASSUME restore.node # None
        PROVE  restore.node \in DOMAIN data' /\ \A p \in DOMAIN inode' : inode'[p] = restore.node => p = restore.path
    BY <1>11, <1>12, <1>15, <2>4 DEF BackupInd, Inodes
  <2>5. restore.node \in 0 .. n
    BY <1>10, <1>15
  <2> QED BY <1>7, <1>9, <2>1, <2>2, <2>3, <2>4, <2>5 DEF Inodes
<1>17. CleanSource'
  <2> SUFFICES ASSUME restore.clean PROVE CleanSource'
    BY <1>7 DEF CleanSource
  <2>1. restore.path # path
    BY <1>9 DEF BackupInd, CleanSource
  <2>2. restore.path \in DOMAIN inode' =>
          restore.path \in DOMAIN inode /\ data'[inode'[restore.path]] = data[inode[restore.path]]
    BY <1>11, <1>12, <1>14, <2>1
  <2>3. restore.node # None => data'[restore.node] = data[restore.node]
    BY <1>12, <1>15 DEF BackupInd, Inodes
  <2> QED BY <1>6, <1>7, <2>2, <2>3 DEF BackupInd, CleanSource
<1> QED BY <1>7, <1>13, <1>16, <1>17 DEF BackupInd

(* A change of a file's contents through its path is noticed by the history *)
(* of a restore from that path, and touches no other.                       *)
LEMMA ChangesIs ==
  ASSUME BackupInd, NEW path \in Path, Changes(path)
  PROVE  /\ restore' \in [id : Nat, path : Path \cup {<<>>}, node : Nat, want : Seq(Int), clean : BOOLEAN]
         /\ restore'.id = restore.id /\ restore'.path = restore.path /\ restore'.node = restore.node
         /\ restore'.want = restore.want
         /\ restore'.clean => restore.clean /\ restore.path # path
         /\ restore' = NoRestore <=> restore = NoRestore
<1>1. restore \in [id : Nat, path : Path \cup {<<>>}, node : Nat, want : Seq(Int), clean : BOOLEAN]
  BY DEF BackupInd, RestoreTypes
<1>2. path # <<>>
  BY DEF Path
<1>3. CASE restore.path = path
  <2>1. restore' = [restore EXCEPT !.clean = FALSE]
    BY <1>3 DEF Changes
  <2>2. /\ restore' \in [id : Nat, path : Path \cup {<<>>}, node : Nat, want : Seq(Int), clean : BOOLEAN]
        /\ restore'.id = restore.id /\ restore'.path = restore.path /\ restore'.node = restore.node
        /\ restore'.want = restore.want /\ restore'.clean = FALSE
    BY <1>1, <2>1
  <2>3. restore # NoRestore /\ restore' # NoRestore
    BY <1>2, <1>3, <2>2 DEF NoRestore
  <2> QED BY <2>2, <2>3
<1>4. CASE restore.path # path
  <2>1. restore' = restore
    BY <1>4 DEF Changes
  <2> QED BY <1>1, <1>4, <2>1
<1> QED BY <1>3, <1>4

LEMMA ChangedRestore ==
  ASSUME BackupInd, NEW path \in Path, Changes(path), recovery' = recovery, begun' = begun,
         target' = target, last' = last
  PROVE  RestoreTypes' /\ RestoreSound'
<1>1. RestoreTypes'
  BY ChangesIs DEF BackupInd, RestoreTypes
<1>2. RestoreSound'
  BY ChangesIs, SoundKept
<1> QED BY <1>1, <1>2

LEMMA RottenType ==
  ASSUME NEW s \in Seq(Int), s # <<>> PROVE [s EXCEPT ![1] = Rotten] \in Seq(Int)
<1>1. PICK n \in Nat : n = Len(s)
  OBVIOUS
<1>2. s \in [1 .. n -> Int] /\ Rotten \in Int
  BY <1>1 DEF Rotten
<1>3. [s EXCEPT ![1] = Rotten] \in [1 .. n -> Int]
  BY <1>2
<1> QED BY <1>3

LEMMA RotInd == ASSUME BackupInd, NEW path \in DOMAIN inode, Rot(path) PROVE BackupInd'
<1>1. PICK n : n = inode[path]
  OBVIOUS
<1>2. /\ making = NoMaking /\ data[n] # <<>> /\ data' = [data EXCEPT ![n][1] = Rotten] /\ Changes(path)
      /\ version' = version /\ time' = time /\ inode' = inode /\ backups' = backups /\ made' = made
      /\ making' = making /\ recovery' = recovery /\ begun' = begun /\ target' = target /\ last' = last
  BY <1>1 DEF Rot, LockFree
<1>3. path \in Path /\ n \in DOMAIN data /\ data \in [DOMAIN data -> Seq(Int)] /\ data[n] \in Seq(Int)
  BY <1>1 DEF BackupInd, BackupTypes, Inodes
<1>4. RestoreTypes' /\ RestoreSound'
  BY <1>2, <1>3, ChangedRestore
<1>5. /\ restore'.path = restore.path /\ restore'.node = restore.node /\ restore'.want = restore.want
      /\ restore'.clean => restore.clean /\ restore.path # path
  BY <1>2, <1>3, ChangesIs
<1>6. PICK s : s = [data[n] EXCEPT ![1] = Rotten]
  OBVIOUS
<1>7. s \in Seq(Int)
  BY <1>2, <1>3, <1>6, RottenType
<1>8. data' = [data EXCEPT ![n] = s]
  BY <1>2, <1>6
<1>9. DOMAIN data' = DOMAIN data /\ data' \in [DOMAIN data' -> Seq(Int)]
      /\ \A x \in DOMAIN data \ {n} : data'[x] = data[x]
  BY <1>3, <1>7, <1>8
<1>10. BackupTypes'
  BY <1>2, <1>9 DEF BackupInd, BackupTypes
<1>11. Inodes'
  <2>1. ASSUME NEW p \in DOMAIN inode, p[1] = "Incremental" PROVE data'[inode[p]] = <<>>
    <3>1. inode[p] \in DOMAIN data /\ data[inode[p]] = <<>>
      BY <2>1 DEF BackupInd, Inodes
    <3>2. inode[p] # n
      BY <1>2, <3>1
    <3> QED BY <1>9, <3>1, <3>2
  <2> QED BY <1>2, <1>5, <1>9, <2>1 DEF BackupInd, Inodes, Highest
<1>12. CleanSource'
  <2> SUFFICES ASSUME restore'.clean PROVE CleanSource'
    BY DEF CleanSource
  <2>1. restore.clean /\ restore.path # path
    BY <1>5
  <2>2. restore.path \in DOMAIN inode => data'[inode[restore.path]] = data[inode[restore.path]]
    BY <1>1, <1>9, <2>1 DEF BackupInd, Inodes
  <2>3. restore.node # None => data'[restore.node] = data[restore.node]
    BY <1>1, <1>9, <2>1 DEF BackupInd, Inodes
  <2> QED BY <1>2, <1>5, <2>1, <2>2, <2>3 DEF BackupInd, CleanSource
<1> QED BY <1>4, <1>10, <1>11, <1>12 DEF BackupInd

LEMMA BeginFullInd == ASSUME BackupInd, BeginFull PROVE BackupInd'
<1>1. PICK path : path = <<"Full", time>>
  OBVIOUS
<1>2. PICK n : n = IF path \in DOMAIN inode THEN inode[path] ELSE made + 1
  OBVIOUS
<1>3. /\ making = NoMaking /\ inode' = Put(inode, path, n) /\ data' = Put(data, n, <<>>) /\ Changes(path)
      /\ making' = [path |-> path, node |-> inode'[path]]
      /\ version' = version /\ time' = time /\ backups' = backups /\ made' = made
      /\ recovery' = recovery /\ begun' = begun /\ target' = target /\ last' = last
  BY <1>1, <1>2 DEF BeginFull, CreateFile, LockFree
<1>4. path \in Path /\ path[1] = "Full" /\ made \in Nat /\ path # <<>>
  BY <1>1 DEF BackupInd, BackupTypes, Path
<1>5. RestoreTypes' /\ RestoreSound'
  BY <1>3, <1>4, ChangedRestore
<1>6. /\ restore'.path = restore.path /\ restore'.node = restore.node /\ restore'.want = restore.want
      /\ restore'.clean => restore.clean /\ restore.path # path
  BY <1>3, <1>4, ChangesIs
<1>7. DOMAIN inode' = DOMAIN inode \cup {path} /\ inode'[path] = n
      /\ \A p \in DOMAIN inode' \ {path} : p \in DOMAIN inode /\ inode'[p] = inode[p]
  BY <1>3 DEF Put
<1>8. DOMAIN data' = DOMAIN data \cup {n} /\ data'[n] = <<>>
      /\ \A x \in DOMAIN data \ {n} : data'[x] = data[x]
  BY <1>3 DEF Put
<1>9. making' = [path |-> path, node |-> n] /\ making' # NoMaking
  <2>1. making' = [path |-> path, node |-> n]
    BY <1>3, <1>7
  <2> QED BY <1>4, <2>1 DEF NoMaking
<1>10. Highest = made /\ Highest' = made + 1 /\ 0 .. made \subseteq 0 .. (made + 1)
       /\ 1 .. made \subseteq 1 .. (made + 1) /\ made + 1 \notin 0 .. made /\ made + 1 \in 1 .. (made + 1)
       /\ 1 .. made \subseteq 0 .. made
  BY <1>3, <1>4, <1>9 DEF Highest
<1>11. n \in 1 .. (made + 1) /\ n \in Nat
  <2>1. path \in DOMAIN inode => inode[path] \in 1 .. made
    BY <1>10 DEF BackupInd, Inodes
  <2> QED BY <1>2, <1>4, <1>10, <2>1
<1>12. ASSUME NEW p \in DOMAIN inode, inode[p] = n PROVE p = path
  <2>1. inode[p] \in 1 .. made
    BY <1>10 DEF BackupInd, Inodes
  <2>2. n # made + 1
    BY <1>10, <1>12, <2>1
  <2> QED BY <1>2, <1>12, <2>2 DEF BackupInd, Inodes
<1>13. (restore.node # None /\ restore.node = n) => restore.path = path
  <2>1. restore.node \in 0 .. made
    BY <1>10 DEF BackupInd, Inodes
  <2>2. restore.node # made + 1
    BY <1>10, <2>1
  <2> QED BY <1>2, <2>2 DEF BackupInd, Inodes
<1>14. BackupTypes'
  <2>1. DOMAIN inode' \subseteq Path /\ inode' \in [DOMAIN inode' -> Nat]
    <3>1. inode \in [DOMAIN inode -> Nat] /\ DOMAIN inode \subseteq Path
      BY DEF BackupInd, BackupTypes
    <3>2. inode' \in [DOMAIN inode \cup {path} -> Nat]
      BY <1>3, <1>11, <3>1 DEF Put
    <3> QED BY <1>4, <1>7, <3>1, <3>2
  <2>2. data' \in [DOMAIN data' -> Seq(Int)]
    <3>1. data \in [DOMAIN data -> Seq(Int)] /\ <<>> \in Seq(Int)
      BY DEF BackupInd, BackupTypes
    <3>2. data' \in [DOMAIN data \cup {n} -> Seq(Int)]
      BY <1>3, <3>1 DEF Put
    <3> QED BY <1>8, <3>2
  <2>3. /\ making'.path \in Path /\ making'.path[1] = "Full" /\ making'.node \in Nat
        /\ making'.path \in DOMAIN inode' /\ inode'[making'.path] = making'.node
    BY <1>4, <1>7, <1>9, <1>11
  <2> QED BY <1>3, <2>1, <2>2, <2>3 DEF BackupInd, BackupTypes
<1>15. Inodes'
  <2>1. ASSUME NEW p \in DOMAIN inode' PROVE inode'[p] \in DOMAIN data' /\ inode'[p] \in 1 .. (made + 1)
    <3>1. CASE p = path
      BY <1>7, <1>8, <1>11, <3>1
    <3>2. CASE p # path
      BY <1>7, <1>8, <1>10, <3>2 DEF BackupInd, Inodes
    <3> QED BY <3>1, <3>2
  <2>2. ASSUME NEW p \in DOMAIN inode', NEW q \in DOMAIN inode', inode'[p] = inode'[q] PROVE p = q
    BY <1>7, <1>12, <2>2 DEF BackupInd, Inodes
  <2>3. ASSUME NEW p \in DOMAIN inode', p[1] = "Incremental" PROVE data'[inode'[p]] = <<>>
    <3>1. p # path /\ p \in DOMAIN inode /\ inode'[p] = inode[p]
      BY <1>4, <1>7, <2>3
    <3> QED BY <1>8, <2>3, <3>1 DEF BackupInd, Inodes
  <2>4. ASSUME restore.node # None
        PROVE  restore.node \in DOMAIN data' /\ \A p \in DOMAIN inode' : inode'[p] = restore.node => p = restore.path
    BY <1>7, <1>8, <1>13, <2>4 DEF BackupInd, Inodes
  <2>5. restore.node \in 0 .. (made + 1)
    BY <1>10 DEF BackupInd, Inodes
  <2> QED BY <1>6, <1>10, <2>1, <2>2, <2>3, <2>4, <2>5 DEF Inodes
<1>16. CleanSource'
  <2> SUFFICES ASSUME restore'.clean PROVE CleanSource'
    BY DEF CleanSource
  <2>1. restore.clean /\ restore.path # path
    BY <1>6
  <2>2. restore.path \in DOMAIN inode' =>
          restore.path \in DOMAIN inode /\ data'[inode'[restore.path]] = data[inode[restore.path]]
    <3> SUFFICES ASSUME restore.path \in DOMAIN inode'
                 PROVE  restore.path \in DOMAIN inode /\ data'[inode'[restore.path]] = data[inode[restore.path]]
      OBVIOUS
    <3>1. restore.path \in DOMAIN inode /\ inode'[restore.path] = inode[restore.path]
      BY <1>7, <2>1
    <3>2. inode[restore.path] # n /\ inode[restore.path] \in DOMAIN data
      BY <1>12, <2>1, <3>1 DEF BackupInd, Inodes
    <3> QED BY <1>8, <3>1, <3>2
  <2>3. restore.node # None => data'[restore.node] = data[restore.node]
    BY <1>8, <1>13, <2>1 DEF BackupInd, Inodes
  <2>4. making'.path = path
    BY <1>9
  <2> QED BY <1>3, <1>6, <2>1, <2>2, <2>3, <2>4 DEF BackupInd, CleanSource
<1> QED BY <1>5, <1>14, <1>15, <1>16 DEF BackupInd

LEMMA BackupStepInd == BackupInd /\ [BackupNext]_backupVars => BackupInd'
<1> SUFFICES ASSUME BackupInd, [BackupNext]_backupVars PROVE BackupInd'
  OBVIOUS
<1>1. CASE UNCHANGED backupVars
  <2>1. UNCHANGED sourceVars /\ UNCHANGED targetVars
    BY <1>1 DEF backupVars, sourceVars, targetVars
  <2>2. RestoreTypes' /\ RestoreSound'
    BY <2>1, TargetKept
  <2>3. BackupTypes' /\ Inodes' /\ CleanSource'
    BY <2>1 DEF BackupInd, BackupTypes, Inodes, CleanSource, Highest, sourceVars, targetVars
  <2> QED BY <2>2, <2>3 DEF BackupInd
<1>2. CASE BackupNext
  BY <1>2, RestoreFullInd, RestoreChainInd, OpenInd, ChunkInd, DoneInd, FailsInd, CancelRecoveryInd,
     ClockInd, CopyInd, DeleteInd, FailFullInd, FinishInd, IncrementalInd, RotInd, BeginFullInd
     DEF BackupNext
<1> QED BY <1>1, <1>2

(* RecoveryManager and BackupManager: a restore that completes from a       *)
(* source it verified has written what the backup recorded, and a target    *)
(* left in pieces can be cleaned up, for every number of backups, restores  *)
(* and chunks and every retention age.                                      *)
THEOREM RestoreIsSound == BackupSpec => []RestoreSound
<1>1. BackupInd => RestoreSound
  BY DEF BackupInd
<1> QED BY <1>1, BackupInitInd, BackupStepInd, PTL DEF BackupSpec

-------------------------------------------------------------------------------
(****************************************************************************)
(* The snapshot registry under concurrent callers.                          *)
(****************************************************************************)
(* The types as a record of a thread has them.                              *)
SnapStep == [at : SnapPlace, id : SnapId, seen : SUBSET SnapId,
             refs : [SnapId -> 0 .. MaxHandles]]

(* What RegistrySound needs to be inductive.  A thread about to raise a     *)
(* count does so for a registered id, and an id that was never registered   *)
(* has no handles: so the first registration of an id, which sets its count *)
(* to nothing, forgets no handle.  A count never exceeds the handles.  What *)
(* a cleanup has judged lies below the current id, which only grows.        *)
RegistryInd ==
  /\ LatestExists
  /\ HandlesCounted
  /\ \A i \in SnapId : counts[i] <= handles[i]
  /\ \A i \in SnapId \ roots : handles[i] = 0
  /\ \A t \in Thread : On(t, "count") => step[t].id \in roots
  /\ \A t \in Thread : On(t, "judged") => \A i \in step[t].seen : 0 < i /\ i < newest

(* A thread at rest holds nothing.                                          *)
LEMMA RestType == Rest \in SnapStep
BY SnapshotsAssumption DEF Rest, SnapStep, SnapPlace, SnapId

(* Every step leaves the record of the other threads alone.                 *)
LEMMA DoOnlyMine ==
  ASSUME step \in [Thread -> SnapStep], NEW t \in Thread, NEW s \in SnapStep, Do(t, s)
  PROVE  /\ step' \in [Thread -> SnapStep] /\ step'[t] = s
         /\ \A u \in Thread \ {t} : step'[u] = step[u]
BY DEF Do

LEMMA SnapInitInd == SnapInit => SnapTypeOK /\ RegistryInd
<1> SUFFICES ASSUME SnapInit PROVE SnapTypeOK /\ RegistryInd
  OBVIOUS
<1>1. 0 \in SnapId /\ 0 \in 0 .. MaxHandles
  BY SnapshotsAssumption DEF SnapId
<1>2. SnapTypeOK
  BY <1>1, RestType DEF SnapInit, SnapTypeOK, SnapStep
<1>3. RegistryInd
  BY <1>1 DEF SnapInit, RegistryInd, LatestExists, HandlesCounted, On, Rest
<1> QED BY <1>2, <1>3

LEMMA SnapStepInd == SnapTypeOK /\ RegistryInd /\ [SnapNext]_snapVars
                       => SnapTypeOK' /\ RegistryInd'
<1> SUFFICES ASSUME SnapTypeOK, RegistryInd, [SnapNext]_snapVars
             PROVE  SnapTypeOK' /\ RegistryInd'
  OBVIOUS
<1> USE DEF SnapTypeOK
<1>0. step \in [Thread -> SnapStep] /\ Rest \in SnapStep
  BY RestType DEF SnapStep
<1>t. /\ SnapId \subseteq Int /\ newest \in Int
      /\ \A i \in SnapId : counts[i] \in Int /\ handles[i] \in Int
  BY SnapshotsAssumption DEF SnapId
(* A step that only moves one thread, to a record that is neither about to  *)
(* count an unregistered id nor judged otherwise than below the current id. *)
<1>q. ASSUME NEW t \in Thread, NEW s \in SnapStep, Do(t, s),
             UNCHANGED <<roots, newest, counts, handles, twice>>,
             s.at = "count" => s.id \in roots,
             s.at = "judged" => \A i \in s.seen : 0 < i /\ i < newest
      PROVE  SnapTypeOK' /\ RegistryInd'
  <2>1. /\ step' \in [Thread -> SnapStep] /\ step'[t] = s
        /\ \A u \in Thread \ {t} : step'[u] = step[u]
    BY <1>0, <1>q, DoOnlyMine
  <2>2. SnapTypeOK'
    BY <1>q, <2>1 DEF SnapStep
  <2>3. (\A u \in Thread : On(u, "count") => step[u].id \in roots)'
    BY <1>q, <2>1 DEF RegistryInd, On
  <2>4. (\A u \in Thread : On(u, "judged") => \A i \in step[u].seen : 0 < i /\ i < newest)'
    BY <1>q, <2>1 DEF RegistryInd, On
  <2> QED BY <1>q, <2>2, <2>3, <2>4 DEF RegistryInd, LatestExists, HandlesCounted
<1>1. ASSUME NEW t \in Thread, NEW i \in SnapId, RegisterRead(t, i)
      PROVE  SnapTypeOK' /\ RegistryInd'
  <2>1. [Rest EXCEPT !.at = "duplicate", !.id = i] \in SnapStep
    BY <1>0 DEF SnapStep, SnapPlace
  <2> QED BY <1>0, <1>1, <1>q, <2>1 DEF RegisterRead, Rest
<1>2. ASSUME NEW t \in Thread, RegisterDuplicate(t) PROVE SnapTypeOK' /\ RegistryInd'
  <2>1. [step[t] EXCEPT !.at = "write"] \in SnapStep
        /\ [step[t] EXCEPT !.at = "write"].at = "write"
    BY <1>0 DEF SnapStep, SnapPlace
  <2> QED BY <1>0, <1>2, <1>q, <2>1 DEF RegisterDuplicate, Rest
<1>3. ASSUME NEW t \in Thread, RegisterWrite(t) PROVE SnapTypeOK' /\ RegistryInd'
  <2> DEFINE i == step[t].id
  <2>1. /\ step' \in [Thread -> SnapStep] /\ step'[t] = Rest
        /\ \A u \in Thread \ {t} : step'[u] = step[u]
    BY <1>0, <1>3, DoOnlyMine DEF RegisterWrite, Done
  <2>2. /\ i \in SnapId /\ roots' = roots \cup {i} /\ handles' = handles
        /\ counts' = [counts EXCEPT ![i] = 0]
        /\ newest' = IF i > newest THEN i ELSE newest
        /\ twice' = IF i \in roots THEN twice \cup {i} ELSE twice
    BY <1>0, <1>3 DEF RegisterWrite, SnapStep
  <2> HIDE DEF i
  <2>3. SnapTypeOK'
    BY <2>1, <2>2, SnapshotsAssumption DEF SnapStep
  <2>4. LatestExists'
    BY <1>t, <2>2 DEF LatestExists, RegistryInd
  <2>5. HandlesCounted'
    BY <1>t, <2>2 DEF HandlesCounted, RegistryInd
  <2>6. (\A j \in SnapId : counts[j] <= handles[j])'
    BY <2>2, SnapshotsAssumption DEF RegistryInd
  <2>7. (\A j \in SnapId \ roots : handles[j] = 0)'
    BY <2>2 DEF RegistryInd
  <2>8. (\A u \in Thread : On(u, "count") => step[u].id \in roots)'
    BY <2>1, <2>2 DEF RegistryInd, On, Rest
  <2>9. (\A u \in Thread : On(u, "judged") => \A j \in step[u].seen : 0 < j /\ j < newest)'
    <3> SUFFICES ASSUME NEW u \in Thread, (On(u, "judged"))', NEW j \in (step[u].seen)'
                 PROVE  0 < j /\ j < newest'
      OBVIOUS
    <3>1. u # t
      BY <2>1 DEF On, Rest
    <3>2. j \in SnapId /\ 0 < j /\ j < newest
      BY <2>1, <3>1, <1>0 DEF RegistryInd, On, SnapStep
    <3> QED BY <1>t, <2>2, <3>2
  <2> QED BY <2>3, <2>4, <2>5, <2>6, <2>7, <2>8, <2>9 DEF RegistryInd
<1>4. ASSUME NEW t \in Thread, NEW i \in SnapId, SnapshotLook(t, i)
      PROVE  SnapTypeOK' /\ RegistryInd'
  <2>1. [Rest EXCEPT !.at = "count", !.id = i] \in SnapStep
    BY <1>0 DEF SnapStep, SnapPlace
  <2> QED BY <1>4, <1>q, <2>1 DEF SnapshotLook, Rest
<1>5. ASSUME NEW t \in Thread, SnapshotCount(t) PROVE SnapTypeOK' /\ RegistryInd'
  <2> DEFINE i == step[t].id
  <2>1. /\ step' \in [Thread -> SnapStep] /\ step'[t] = Rest
        /\ \A u \in Thread \ {t} : step'[u] = step[u]
    BY <1>0, <1>5, DoOnlyMine DEF SnapshotCount, Done
  <2>2. /\ i \in SnapId /\ i \in roots /\ handles[i] < MaxHandles
        /\ counts' = [counts EXCEPT ![i] = @ + 1]
        /\ handles' = [handles EXCEPT ![i] = @ + 1]
        /\ UNCHANGED <<roots, newest, twice>>
    BY <1>0, <1>5 DEF SnapshotCount, SnapStep, RegistryInd
  <2> HIDE DEF i
  <2>3. SnapTypeOK'
    BY <2>1, <2>2, SnapshotsAssumption DEF SnapStep, RegistryInd
  <2>4. HandlesCounted'
    BY <1>t, <2>2 DEF HandlesCounted, RegistryInd
  <2>5. (\A j \in SnapId : counts[j] <= handles[j])'
    BY <1>t, <2>2 DEF RegistryInd
  <2>6. (\A j \in SnapId \ roots : handles[j] = 0)'
    BY <2>2 DEF RegistryInd
  <2>7. (\A u \in Thread : On(u, "count") => step[u].id \in roots)'
    BY <2>1, <2>2 DEF RegistryInd, On, Rest
  <2>8. (\A u \in Thread : On(u, "judged") => \A j \in step[u].seen : 0 < j /\ j < newest)'
    BY <2>1, <2>2 DEF RegistryInd, On, Rest
  <2> QED BY <2>2, <2>3, <2>4, <2>5, <2>6, <2>7, <2>8 DEF RegistryInd, LatestExists
<1>6. ASSUME NEW t \in Thread, CleanupSnapshots(t) PROVE SnapTypeOK' /\ RegistryInd'
  <2>1. [Rest EXCEPT !.at = "refs", !.seen = roots] \in SnapStep
    BY <1>0 DEF SnapStep, SnapPlace
  <2> QED BY <1>6, <1>q, <2>1 DEF CleanupSnapshots, Rest
<1>7. ASSUME NEW t \in Thread, CleanupRefs(t) PROVE SnapTypeOK' /\ RegistryInd'
  <2>1. [step[t] EXCEPT !.at = "judge", !.refs = counts] \in SnapStep
        /\ [step[t] EXCEPT !.at = "judge", !.refs = counts].at = "judge"
    BY <1>0 DEF SnapStep, SnapPlace
  <2> QED BY <1>7, <1>q, <2>1 DEF CleanupRefs
<1>8. ASSUME NEW t \in Thread, CleanupJudge(t) PROVE SnapTypeOK' /\ RegistryInd'
  <2> DEFINE judged == {i \in step[t].seen : ~Keep(step[t], i)}
             s == [Rest EXCEPT !.at = "judged", !.seen = judged, !.refs = step[t].refs]
  <2>1. judged \subseteq SnapId
    BY <1>0 DEF SnapStep
  <2>2. \A i \in judged : 0 < i /\ i < newest
    <3> TAKE i \in judged
    <3>1. i \in SnapId /\ i # 0 /\ ~(newest - i < MinGap)
      BY <2>1 DEF Keep
    <3> QED BY <3>1, SnapshotsAssumption DEF SnapId
  <2> HIDE DEF judged
  <2>3. s \in SnapStep /\ s.at = "judged" /\ s.seen = judged
    BY <1>0, <2>1 DEF SnapStep, SnapPlace
  <2>4. Do(t, s) /\ UNCHANGED <<roots, newest, counts, handles, twice>>
    BY <1>8 DEF CleanupJudge, judged
  <2> HIDE DEF s
  <2> QED BY <1>q, <2>2, <2>3, <2>4
<1>9. ASSUME NEW t \in Thread, CleanupEnd(t) PROVE SnapTypeOK' /\ RegistryInd'
  BY <1>0, <1>9, <1>q DEF CleanupEnd, Done, Rest
<1>10. CASE UNCHANGED snapVars
  BY <1>10 DEF snapVars, RegistryInd, LatestExists, HandlesCounted, On
<1> QED BY <1>1, <1>2, <1>3, <1>4, <1>5, <1>6, <1>7, <1>8, <1>9, <1>10 DEF SnapNext

(* Whatever the threads do between their separate lock acquisitions, every  *)
(* copy they hold keeps its type and no count exceeds its bound.            *)
THEOREM SnapshotsType == SnapSpec => []SnapTypeOK
<1>1. SnapTypeOK /\ RegistryInd /\ [SnapNext]_snapVars => (SnapTypeOK /\ RegistryInd)'
  BY SnapStepInd
<1> QED BY <1>1, SnapInitInd, PTL DEF SnapSpec

(* register_snapshot, snapshot and identify_cleanup_candidates under any    *)
(* interleaving: there is always a latest snapshot and it is the highest    *)
(* id, every handle of an id registered once is counted, and a cleanup's    *)
(* candidates never hold the first or the current snapshot.                 *)
THEOREM RegistryCorrect == SnapSpec => []RegistrySound
<1>1. SnapTypeOK /\ RegistryInd /\ [SnapNext]_snapVars => (SnapTypeOK /\ RegistryInd)'
  BY SnapStepInd
<1>2. SnapTypeOK /\ RegistryInd => RegistrySound
  BY DEF RegistryInd, RegistrySound, CandidatesNotCurrent, SnapTypeOK, SnapId
<1> QED BY <1>1, <1>2, SnapInitInd, PTL DEF SnapSpec
===============================================================================
