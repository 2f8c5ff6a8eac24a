----------------------- MODULE SimulationEngineProofs -----------------------
(***************************************************************************)
(* Theorems about SimulationEngine, for every set of prices, timeframes,   *)
(* capitals and quantities, every session and every number of bars.        *)
(***************************************************************************)
EXTENDS SimulationEngine, SequenceTheorems, FiniteSetTheorems, TLAPS

-----------------------------------------------------------------------------
(* Arithmetic. *)

(* Rounding to the nearest part adds at most half a part.                  *)
LEMMA NearestBound ==
    ASSUME NEW money \in Nat, NEW price \in Nat \ {0}
    PROVE  /\ Nearest(money, price) \in Nat
           /\ 2 * (Nearest(money, price) * price) <= 2 * money + price
  BY DEF Nearest

LEMMA WholeBound ==
    ASSUME NEW money \in Nat, NEW price \in Nat \ {0}, NEW u \in Nat \ {0}
    PROVE  /\ (money \div (u * price)) * u \in Nat
           /\ ((money \div (u * price)) * u) * price <= money
  OBVIOUS

(* Buckets follow each other as their minutes do.                          *)
LEMMA BucketMonotonic ==
    ASSUME NEW t \in Nat, NEW u \in Nat, t <= u, NEW f \in Nat \ {0}
    PROVE  Bucket(t, f) \in Nat /\ Bucket(t, f) <= Bucket(u, f)
  BY DEF Bucket

(* What is bought costs no more than there is, but for the rounding.       *)
LEMMA BoughtBound ==
    ASSUME NEW c \in Configs, NEW money \in Int, NEW price \in Prices,
           Bought(c, money, price) > 0
    PROVE  /\ Bought(c, money, price) \in Nat \ {0}
           /\ c.mode = "capital" =>
                IF c.fractional THEN 2 * (Bought(c, money, price) * price) <= 2 * money + price
                ELSE Bought(c, money, price) * price <= money
<1>1. price \in Nat \ {0} /\ Unit \in Nat \ {0}
  BY SimulationAssumption
<1>2. CASE c.mode = "qty"
  <2>1. c.qty \in Nat \ {0}
    BY SimulationAssumption DEF Configs
  <2>2. Whole(c.qty) \in Nat
    BY <2>1, <1>1 DEF Whole
  <2> QED
    BY <1>2, <2>1, <2>2 DEF Bought
<1>3. CASE c.mode = "capital"
  <2> DEFINE budget == IF c.reinvest \/ money < c.capital THEN money ELSE c.capital
  <2>1. c.capital \in Nat \ {0} /\ c.fractional \in BOOLEAN
    BY DEF Configs
  <2>2. budget \in Int /\ budget <= money
    BY <2>1
  <2>3. Bought(c, money, price)
          = IF budget <= 0 THEN 0
            ELSE IF c.fractional THEN Nearest(budget, price)
                 ELSE (budget \div (Unit * price)) * Unit
    BY <1>3 DEF Bought
  <2>4. budget \in Nat /\ ~(budget <= 0)
    BY <2>2, <2>3
  <2> HIDE DEF budget
  <2> DEFINE n == Bought(c, money, price)
  <2>5. CASE c.fractional
    <3>1. n = Nearest(budget, price)
      BY <2>5, <2>3, <2>4
    <3>2. n \in Nat /\ 2 * (n * price) <= 2 * budget + price
      BY <3>1, <2>4, <1>1, NearestBound
    <3> HIDE DEF n
    <3>3. 2 * (n * price) <= 2 * money + price
      BY <3>2, <2>2, <1>1
    <3>4. n \in Nat \ {0}
      BY <3>2 DEF n
    <3> QED
      BY <3>3, <3>4, <2>5 DEF n
  <2>6. CASE ~c.fractional
    <3>1. n = (budget \div (Unit * price)) * Unit
      BY <2>6, <2>3, <2>4
    <3>2. n \in Nat /\ n * price <= budget
      BY <3>1, <2>4, <1>1, WholeBound
    <3> HIDE DEF n
    <3>3. n * price <= money
      BY <3>2, <2>2, <1>1
    <3>4. n \in Nat \ {0}
      BY <3>2 DEF n
    <3> QED
      BY <3>3, <3>4, <2>6 DEF n
  <2> QED
    BY <2>1, <2>5, <2>6
<1> QED
  BY <1>2, <1>3 DEF Configs, Modes

-----------------------------------------------------------------------------
(* Induction over the numbers, for a set: the provers cannot instantiate   *)
(* the library's theorem, whose hypothesis is an operator.                 *)

(* No set of numbers up to m has for each of its numbers the one below.    *)
LEMMA NoDescent ==
    ASSUME NEW B, NEW m \in Nat, B \subseteq 0 .. m, m \in B,
           \A k \in B : k - 1 \in B
    PROVE  FALSE
<1> DEFINE f == [k \in B |-> k - 1]
<1>1. IsFiniteSet(0 .. m)
  BY FS_Interval
<1>2. IsFiniteSet(B)
  BY <1>1, FS_Subset
<1>3. IsFiniteSet(B \ {m}) /\ Cardinality(B \ {m}) = Cardinality(B) - 1
  BY <1>2, FS_RemoveElement
<1>4. Cardinality(B) \in Nat
  BY <1>2, FS_CardinalityType
<1>5. f \in [B -> B \ {m}]
  OBVIOUS
<1>6. \A x, y \in B : x # y => f[x] # f[y]
  OBVIOUS
<1> HIDE DEF f
<1>7. Cardinality(B \ {m}) < Cardinality(B)
  BY <1>3, <1>4
<1>8. \E x, y \in B : x # y /\ f[x] = f[y]
  BY <1>2, <1>3, <1>5, <1>7, FS_PigeonHole, Zenon
<1> QED
  BY <1>6, <1>8, Zenon

LEMMA Induction ==
    ASSUME NEW S, 0 \in S, \A n \in Nat : n \in S => n + 1 \in S
    PROVE  Nat \subseteq S
<1> SUFFICES ASSUME NEW m \in Nat, m \notin S PROVE FALSE
  OBVIOUS
<1> DEFINE B == {k \in 0 .. m : k \notin S}
<1>1. B \subseteq 0 .. m /\ m \in B
  OBVIOUS
<1>2. \A k \in B : k - 1 \in B
  <2> SUFFICES ASSUME NEW k \in B PROVE k - 1 \in B
    OBVIOUS
  <2>1. k \in Nat /\ k <= m /\ k \notin S /\ k # 0
    OBVIOUS
  <2>2. k - 1 \in Nat /\ (k - 1) + 1 = k
    BY <2>1
  <2>3. k - 1 \notin S
    BY <2>1, <2>2
  <2> QED
    BY <2>1, <2>2, <2>3
<1> HIDE DEF B
<1> QED
  BY <1>1, <1>2, NoDescent

(* Among finitely many numbers each rank below their number is taken by    *)
(* exactly one.                                                            *)
Rank(S, k) == Cardinality({m \in S : m < k})

LEMMA RankGrows ==
    ASSUME NEW S, S \subseteq Nat, IsFiniteSet(S), NEW k \in S
    PROVE  /\ Rank(S, k) \in 0 .. (Cardinality(S) - 1)
           /\ \A m \in S : m < k => Rank(S, m) < Rank(S, k)
<1> DEFINE below(x) == {m \in S : m < x}
<1>1. \A x : IsFiniteSet(below(x)) /\ Cardinality(below(x)) \in Nat
  <2> SUFFICES ASSUME NEW x PROVE IsFiniteSet(below(x)) /\ Cardinality(below(x)) \in Nat
    OBVIOUS
  <2>1. below(x) \in SUBSET S
    OBVIOUS
  <2> HIDE DEF below
  <2> QED
    BY <2>1, FS_Subset, FS_CardinalityType
<1>2. ASSUME NEW T, NEW U, IsFiniteSet(U), T \subseteq U, NEW x \in U, x \notin T
      PROVE  Cardinality(T) < Cardinality(U)
  <2>1. Cardinality(T) <= Cardinality(U) /\ Cardinality(T) # Cardinality(U)
    BY <1>2, FS_Subset
  <2>2. Cardinality(T) \in Nat /\ Cardinality(U) \in Nat
    BY <1>2, FS_Subset, FS_CardinalityType
  <2> QED
    BY <2>1, <2>2
<1>3. below(k) \subseteq S /\ k \notin below(k)
  OBVIOUS
<1>4. \A m \in S : m < k => below(m) \subseteq below(k) /\ m \in below(k) /\ m \notin below(m)
  <2> SUFFICES ASSUME NEW m \in S, m < k
               PROVE  below(m) \subseteq below(k) /\ m \in below(k) /\ m \notin below(m)
    OBVIOUS
  <2>1. \A x \in S : x \in Nat
    OBVIOUS
  <2>2. k \in Nat /\ m \in Nat /\ m < k
    BY <2>1
  <2>3. \A x \in Nat : x < m => x < k
    BY <2>2
  <2>4. below(m) \subseteq below(k)
    BY <2>1, <2>3
  <2>5. ~(m < m)
    BY <2>2
  <2> QED
    BY <2>4, <2>5
<1>5. Rank(S, k) = Cardinality(below(k)) /\ \A m \in S : Rank(S, m) = Cardinality(below(m))
  BY DEF Rank
<1> HIDE DEF below
<1>6. Cardinality(below(k)) < Cardinality(S)
  BY <1>2, <1>3
<1>7. \A m \in S : m < k => Cardinality(below(m)) < Cardinality(below(k))
  BY <1>1, <1>2, <1>4
<1>8. Cardinality(S) \in Nat /\ Cardinality(below(k)) \in Nat
  BY <1>1, FS_CardinalityType
<1> QED
  BY <1>5, <1>6, <1>7, <1>8

LEMMA RanksApart ==
    ASSUME NEW S, S \subseteq Nat, IsFiniteSet(S), NEW k \in S, NEW m \in S,
           Rank(S, k) = Rank(S, m)
    PROVE  k = m
<1>1. k \in Nat /\ m \in Nat
  OBVIOUS
<1>2. /\ Rank(S, k) \in 0 .. (Cardinality(S) - 1)
      /\ m < k => Rank(S, m) < Rank(S, k)
      /\ k < m => Rank(S, k) < Rank(S, m)
  BY RankGrows
<1>3. Rank(S, k) \in Int
  BY <1>2, FS_CardinalityType
<1> QED
  BY <1>1, <1>2, <1>3

LEMMA RankTaken ==
    ASSUME NEW S, S \subseteq Nat, IsFiniteSet(S), NEW j \in 0 .. (Cardinality(S) - 1)
    PROVE  \E k \in S : Rank(S, k) = j
<1> DEFINE n == Cardinality(S)
           all == 0 .. (n - 1)
           rank == [k \in S |-> Rank(S, k)]
<1>1. n \in Nat
  BY FS_CardinalityType
<1>2. IsFiniteSet(all) /\ Cardinality(all) = n
  BY <1>1, FS_Interval
<1>3. rank \in Injection(S, all)
  <2>1. rank \in [S -> all]
    BY RankGrows
  <2>2. \A a, b \in S : rank[a] = rank[b] => a = b
    BY RanksApart
  <2> HIDE DEF rank, all
  <2> QED
    BY <2>1, <2>2 DEF Injection, IsInjective
<1> HIDE DEF all, n
<1>4. rank \in Surjection(S, all)
  <2> HIDE DEF rank
  <2> QED
    BY <1>2, <1>3, FS_Injection DEF n
<1>5. j \in all
  BY DEF all, n
<1>6. \E k \in S : rank[k] = j
  <2> HIDE DEF rank
  <2> QED
    BY <1>4, <1>5 DEF Surjection
<1> QED
  BY <1>6

-----------------------------------------------------------------------------
(* Enumerations. *)

(* InOrder lists each number once, from the least up.                      *)
LEMMA InOrderFacts ==
    ASSUME NEW T, T \subseteq Nat, IsFiniteSet(T)
    PROVE  /\ InOrder(T) \in Seq(T) /\ Len(InOrder(T)) = Cardinality(T)
           /\ Cardinality(T) \in Nat
           /\ \A i \in 1 .. Cardinality(T) :
                InOrder(T)[i] \in T /\ Rank(T, InOrder(T)[i]) = i - 1
           /\ \A t \in T : \E i \in 1 .. Cardinality(T) : InOrder(T)[i] = t
<1> DEFINE len == Cardinality(T)
           at(i) == CHOOSE t \in T : Rank(T, t) = i - 1
<1>1. Cardinality(T) \in Nat
  BY FS_CardinalityType
<1>2. InOrder(T) = [i \in 1 .. Cardinality(T) |-> at(i)]
  BY DEF InOrder, Rank
<1>3. \A i \in 1 .. Cardinality(T) : at(i) \in T /\ Rank(T, at(i)) = i - 1
  <2> SUFFICES ASSUME NEW i \in 1 .. Cardinality(T) PROVE at(i) \in T /\ Rank(T, at(i)) = i - 1
    OBVIOUS
  <2>1. i - 1 \in 0 .. (Cardinality(T) - 1)
    BY <1>1
  <2>2. \E t \in T : Rank(T, t) = i - 1
    BY <2>1, RankTaken
  <2> QED
    BY <2>2
<1> HIDE DEF at
<1>4. InOrder(T) \in Seq(T) /\ Len(InOrder(T)) = Cardinality(T)
  BY <1>1, <1>2, <1>3
<1>5. \A i \in 1 .. Cardinality(T) : InOrder(T)[i] = at(i)
  BY <1>2
<1>6. ASSUME NEW t \in T PROVE \E i \in 1 .. Cardinality(T) : InOrder(T)[i] = t
  <2>1. Rank(T, t) \in 0 .. (Cardinality(T) - 1)
    BY RankGrows
  <2>2. Rank(T, t) + 1 \in 1 .. Cardinality(T) /\ (Rank(T, t) + 1) - 1 = Rank(T, t)
    BY <1>1, <2>1
  <2>3. at(Rank(T, t) + 1) \in T /\ Rank(T, at(Rank(T, t) + 1)) = Rank(T, t)
    BY <1>3, <2>2
  <2>4. at(Rank(T, t) + 1) = t
    BY <2>3, RanksApart
  <2> QED
    BY <1>5, <2>2, <2>4
<1> QED
  BY <1>1, <1>3, <1>4, <1>5, <1>6

LEMMA InOrderRises ==
    ASSUME NEW T, T \subseteq Nat, IsFiniteSet(T),
           NEW i \in 1 .. Cardinality(T), NEW j \in 1 .. Cardinality(T), i < j
    PROVE  InOrder(T)[i] < InOrder(T)[j]
<1>1. /\ InOrder(T)[i] \in T /\ InOrder(T)[j] \in T
      /\ Rank(T, InOrder(T)[i]) = i - 1 /\ Rank(T, InOrder(T)[j]) = j - 1
  BY InOrderFacts
<1>2. \A x \in T : x \in Nat
  OBVIOUS
<1>3. i \in Int /\ j \in Int
  OBVIOUS
<1>4. ~(InOrder(T)[j] < InOrder(T)[i])
  <2>1. SUFFICES ASSUME InOrder(T)[j] < InOrder(T)[i] PROVE FALSE
    OBVIOUS
  <2>2. Rank(T, InOrder(T)[j]) < Rank(T, InOrder(T)[i])
    BY <1>1, <2>1, RankGrows
  <2> QED
    BY <1>1, <1>3, <2>2
<1>5. InOrder(T)[i] # InOrder(T)[j]
  BY <1>1, <1>3
<1>6. InOrder(T)[i] \in Nat /\ InOrder(T)[j] \in Nat
  BY <1>1, <1>2
<1> QED
  BY <1>4, <1>5, <1>6

(* A greater number comes last. *)
LEMMA InOrderGrows ==
    ASSUME NEW T, T \subseteq Nat, IsFiniteSet(T), NEW m \in Nat, \A t \in T : t < m
    PROVE  /\ IsFiniteSet(T \union {m}) /\ Cardinality(T \union {m}) = Cardinality(T) + 1
           /\ InOrder(T \union {m}) = Append(InOrder(T), m)
<1> DEFINE U == T \union {m}
<1>1. m \notin T
  BY m < m => FALSE
<1>2. IsFiniteSet(U) /\ Cardinality(U) = Cardinality(T) + 1 /\ Cardinality(T) \in Nat
  BY <1>1, FS_AddElement, FS_CardinalityType
<1>3. U \subseteq Nat /\ m \in U /\ T \subseteq U
  OBVIOUS
<1>4. /\ \A t \in T : Rank(U, t) = Rank(T, t)
      /\ Rank(U, m) = Cardinality(T)
  <2>1. ASSUME NEW t \in T PROVE Rank(U, t) = Rank(T, t)
    <3>1. {u \in U : u < t} = {u \in T : u < t}
      BY ~(m < t)
    <3> QED
      BY <3>1 DEF Rank
  <2>2. {u \in U : u < m} = T
    BY ~(m < m)
  <2> QED
    BY <2>1, <2>2 DEF Rank
<1> HIDE DEF U
<1> DEFINE s == InOrder(T)
           v == InOrder(U)
<1>5. /\ s \in Seq(T) /\ Len(s) = Cardinality(T)
      /\ \A i \in 1 .. Cardinality(T) : s[i] \in T /\ Rank(T, s[i]) = i - 1
  BY InOrderFacts
<1>6. /\ v \in Seq(U) /\ Len(v) = Cardinality(T) + 1
      /\ \A i \in 1 .. Cardinality(T) + 1 : v[i] \in U /\ Rank(U, v[i]) = i - 1
  <2>1. /\ v \in Seq(U) /\ Len(v) = Cardinality(U)
        /\ \A i \in 1 .. Cardinality(U) : v[i] \in U /\ Rank(U, v[i]) = i - 1
    BY <1>2, <1>3, InOrderFacts
  <2> HIDE DEF v
  <2> QED
    BY <1>2, <2>1
<1> HIDE DEF s, v
<1>7. \A i \in 1 .. Cardinality(T) : v[i] = s[i]
  <2> SUFFICES ASSUME NEW i \in 1 .. Cardinality(T) PROVE v[i] = s[i]
    OBVIOUS
  <2>1. s[i] \in U /\ Rank(U, s[i]) = i - 1
    BY <1>3, <1>4, <1>5
  <2>2. v[i] \in U /\ Rank(U, v[i]) = i - 1
    BY <1>2, <1>6
  <2> QED
    BY <1>2, <1>3, <2>1, <2>2, RanksApart
<1>8. v[Cardinality(T) + 1] = m
  <2>1. v[Cardinality(T) + 1] \in U /\ Rank(U, v[Cardinality(T) + 1]) = Cardinality(T)
    BY <1>2, <1>6
  <2> QED
    BY <1>2, <1>3, <1>4, <2>1, RanksApart
<1>9. v = Append(s, m)
  <2>1. /\ Append(s, m) \in Seq(U) /\ Len(Append(s, m)) = Len(s) + 1
        /\ \A i \in 1 .. Len(s) : Append(s, m)[i] = s[i]
        /\ Append(s, m)[Len(s) + 1] = m
      <3>1. s \in Seq(U) /\ m \in U
      BY <1>3, <1>5, SeqMonotonic
    <3> QED
      BY <3>1, AppendProperties
  <2>2. \A i \in 1 .. Len(v) : v[i] = Append(s, m)[i]
    BY <1>2, <1>5, <1>6, <1>7, <1>8, <2>1
  <2> QED
    BY <1>2, <1>5, <1>6, <2>1, <2>2, SeqEqual
<1> QED
  BY <1>2, <1>9 DEF U, s, v

Places(s) == SUBSET (1 .. Len(s))

(* What is picked at the places of T, and at one more after them.          *)
LEMMA PickedFacts ==
    ASSUME NEW S, NEW s \in Seq(S), NEW T \in Places(s)
    PROVE  /\ IsFiniteSet(T) /\ T \subseteq Nat /\ Cardinality(T) \in Nat
           /\ Picked(s, T) \in Seq(S) /\ Len(Picked(s, T)) = Cardinality(T)
           /\ \A n \in 1 .. Cardinality(T) : Picked(s, T)[n] = s[InOrder(T)[n]]
<1>0. T \subseteq 1 .. Len(s) /\ Len(s) \in Nat
  BY LenProperties DEF Places
<1>1. IsFiniteSet(1 .. Len(s)) /\ T \subseteq Nat
  BY <1>0, FS_Interval
<1>2. IsFiniteSet(T) /\ Cardinality(T) \in Nat
  BY <1>0, <1>1, FS_Subset, FS_CardinalityType
<1>3. \A n \in 1 .. Cardinality(T) : InOrder(T)[n] \in T
  BY <1>1, <1>2, InOrderFacts
<1>4. \A n \in 1 .. Cardinality(T) : s[InOrder(T)[n]] \in S
  BY <1>0, <1>3, ElementOfSeq
<1> QED
  BY <1>1, <1>2, <1>4 DEF Picked

LEMMA PickedGrows ==
    ASSUME NEW S, NEW s \in Seq(S), NEW m \in 1 .. Len(s), NEW T, T \subseteq 1 .. (m - 1)
    PROVE  Picked(s, T \union {m}) = Append(Picked(s, T), s[m])
<1> DEFINE U == T \union {m}
           v == Picked(s, U)
           w == Picked(s, T)
<1>1. m \in Nat /\ T \in Places(s) /\ U \in Places(s) /\ \A t \in T : t < m
  BY LenProperties DEF Places
<1>2. /\ IsFiniteSet(T) /\ T \subseteq Nat /\ Cardinality(T) \in Nat
      /\ w \in Seq(S) /\ Len(w) = Cardinality(T)
      /\ \A n \in 1 .. Cardinality(T) : w[n] = s[InOrder(T)[n]]
  BY <1>1, PickedFacts
<1>3. Cardinality(U) = Cardinality(T) + 1 /\ InOrder(U) = Append(InOrder(T), m)
  BY <1>1, <1>2, InOrderGrows
<1>4. /\ v \in Seq(S) /\ Len(v) = Cardinality(U)
      /\ \A n \in 1 .. Cardinality(U) : v[n] = s[InOrder(U)[n]]
  <2> HIDE DEF U
  <2> QED
    BY <1>1, PickedFacts
<1>5. s[m] \in S
  BY ElementOfSeq
<1> HIDE DEF U, v, w
<1>6. /\ InOrder(T) \in Seq(Nat) /\ Len(InOrder(T)) = Cardinality(T)
  <2>1. InOrder(T) \in Seq(T) /\ Len(InOrder(T)) = Cardinality(T)
    BY <1>2, InOrderFacts
  <2> QED
    BY <1>2, <2>1, SeqMonotonic
<1>7. /\ \A n \in 1 .. Cardinality(T) : InOrder(U)[n] = InOrder(T)[n]
      /\ InOrder(U)[Cardinality(T) + 1] = m
  <2> DEFINE o == InOrder(T)
  <2>1. o \in Seq(Nat) /\ Len(o) = Cardinality(T)
    BY <1>6
  <2> HIDE DEF o
  <2>2. /\ \A n \in 1 .. Len(o) : Append(o, m)[n] = o[n]
        /\ Append(o, m)[Len(o) + 1] = m
    BY <2>1, <1>1
  <2> QED
    BY <2>1, <2>2, <1>3 DEF o
<1>8. /\ Append(w, s[m]) \in Seq(S) /\ Len(Append(w, s[m])) = Cardinality(T) + 1
      /\ \A n \in 1 .. Cardinality(T) : Append(w, s[m])[n] = w[n]
      /\ Append(w, s[m])[Cardinality(T) + 1] = s[m]
  BY <1>2, <1>5, AppendProperties
<1>9. \A n \in 1 .. Len(v) : v[n] = Append(w, s[m])[n]
  <2> SUFFICES ASSUME NEW n \in 1 .. Cardinality(T) + 1 PROVE v[n] = Append(w, s[m])[n]
    BY <1>3, <1>4
  <2>1. CASE n \in 1 .. Cardinality(T)
    BY <2>1, <1>2, <1>3, <1>4, <1>7, <1>8
  <2>2. CASE n = Cardinality(T) + 1
    BY <2>2, <1>2, <1>3, <1>4, <1>7, <1>8
  <2> QED
    BY <1>2, <2>1, <2>2
<1>10. v = Append(w, s[m])
  BY <1>3, <1>4, <1>8, <1>9, SeqEqual
<1> QED
  BY <1>10 DEF U, v, w

-----------------------------------------------------------------------------
(* Recursion over the numbers up to N. *)
Steps(X, N) == [1 .. N -> [X -> X]]
Follows(f, X, N, base, step) ==
    /\ f \in [0 .. N -> X] /\ f[0] = base
    /\ \A n \in 1 .. N : f[n] = step[n][f[n - 1]]

LEMMA Recursion ==
    ASSUME NEW X, NEW N \in Nat, NEW base \in X, NEW step \in Steps(X, N)
    PROVE  \E f : Follows(f, X, N, base, step)
<1> DEFINE Good(m, f) == f[0] = base /\ \A n \in 1 .. m : f[n] = step[n][f[n - 1]]
           S == {m \in Nat : m <= N => \E f \in [0 .. m -> X] : Good(m, f)}
<1>1. 0 \in S
  <2>1. [n \in 0 .. 0 |-> base] \in [0 .. 0 -> X] /\ Good(0, [n \in 0 .. 0 |-> base])
    OBVIOUS
  <2> QED
    BY <2>1
<1>2. ASSUME NEW m \in Nat, m \in S PROVE m + 1 \in S
  <2> SUFFICES ASSUME m + 1 <= N PROVE \E f \in [0 .. m + 1 -> X] : Good(m + 1, f)
    OBVIOUS
  <2>1. PICK f \in [0 .. m -> X] : Good(m, f)
    BY <1>2
  <2>2. step[m + 1][f[m]] \in X
    <3>1. m + 1 \in 1 .. N /\ f[m] \in X
      OBVIOUS
    <3> QED
      BY <3>1 DEF Steps
  <2> DEFINE g == [n \in 0 .. m + 1 |-> IF n = m + 1 THEN step[m + 1][f[m]] ELSE f[n]]
  <2>3. g \in [0 .. m + 1 -> X]
    BY <2>2
  <2>4. g[0] = base
    BY <2>1
  <2>5. ASSUME NEW n \in 1 .. m + 1 PROVE g[n] = step[n][g[n - 1]]
    <3>1. CASE n = m + 1
      BY <3>1
    <3>2. CASE n # m + 1
      <4>1. n \in 1 .. m /\ n - 1 \in 0 .. m /\ n - 1 # m + 1
        BY <3>2
      <4> QED
        BY <4>1, <3>2, <2>1
    <3> QED
      BY <3>1, <3>2
  <2> HIDE DEF g
  <2> QED
    BY <2>3, <2>4, <2>5
<1> HIDE DEF S
<1>3. N \in S
  BY <1>1, <1>2, Induction
<1> QED
  BY <1>3 DEF S, Follows

(* The running sums of a sequence. *)
IsSums(s, f) == f = [n \in 0 .. Len(s) |-> IF n = 0 THEN 0 ELSE f[n - 1] + s[n]]

LEMMA SumsExist ==
    ASSUME NEW s \in Seq(Int)
    PROVE  \E f : IsSums(s, f) /\ SumOf(s) = f[Len(s)]
<1>1. Len(s) \in Nat /\ \A n \in 1 .. Len(s) : s[n] \in Int
  OBVIOUS
<1> DEFINE N == Len(s)
           step == [n \in 1 .. N |-> [x \in Int |-> x + s[n]]]
<1>2. step \in Steps(Int, N)
  BY <1>1 DEF Steps
<1>3. \A n \in 1 .. N, x \in Int : step[n][x] = x + s[n]
  OBVIOUS
<1> HIDE DEF step
<1>4. PICK f : Follows(f, Int, N, 0, step)
  <2> DEFINE base == 0
             X == Int
  <2>1. N \in Nat /\ base \in X /\ step \in Steps(X, N)
    BY <1>1, <1>2
  <2> HIDE DEF N, base, X
  <2>2. \E f : Follows(f, X, N, base, step)
    BY <2>1, Recursion
  <2> QED
    BY <2>2 DEF base, X
<1>5. \A n \in 0 .. N : f[n] = IF n = 0 THEN 0 ELSE f[n - 1] + s[n]
  <2> SUFFICES ASSUME NEW n \in 0 .. N, n # 0 PROVE f[n] = f[n - 1] + s[n]
    BY <1>4 DEF Follows
  <2>1. n \in 1 .. N /\ n - 1 \in 0 .. N
    BY <1>1
  <2>2. f[n - 1] \in Int
    BY <2>1, <1>4 DEF Follows
  <2> QED
    BY <2>1, <2>2, <1>3, <1>4 DEF Follows
<1>6. f = [n \in 0 .. N |-> IF n = 0 THEN 0 ELSE f[n - 1] + s[n]]
  <2>1. f = [n \in 0 .. N |-> f[n]]
    BY <1>4 DEF Follows
  <2> QED
    BY <1>5, <2>1
<1> DEFINE h == CHOOSE g : g = [n \in 0 .. Len(s) |-> IF n = 0 THEN 0 ELSE g[n - 1] + s[n]]
<1>7. h = [n \in 0 .. Len(s) |-> IF n = 0 THEN 0 ELSE h[n - 1] + s[n]]
  BY <1>6
<1>8. SumOf(s) = h[Len(s)]
  BY DEF SumOf
<1> HIDE DEF h
<1> QED
  BY <1>7, <1>8 DEF IsSums

LEMMA SumsAre ==
    ASSUME NEW s \in Seq(Int), NEW f, IsSums(s, f)
    PROVE  /\ f[0] = 0 /\ \A n \in 1 .. Len(s) : f[n] = f[n - 1] + s[n]
           /\ \A n \in 0 .. Len(s) : f[n] \in Int
<1>1. Len(s) \in Nat /\ \A n \in 1 .. Len(s) : s[n] \in Int
  OBVIOUS
<1>2. f[0] = 0 /\ \A n \in 1 .. Len(s) : f[n] = f[n - 1] + s[n]
  <2>1. \A n \in 0 .. Len(s) : f[n] = IF n = 0 THEN 0 ELSE f[n - 1] + s[n]
    BY Zenon DEF IsSums
  <2> QED
    BY <1>1, <2>1
<1> DEFINE S == {n \in Nat : n <= Len(s) => f[n] \in Int}
<1>3. 0 \in S
  BY <1>2
<1>4. ASSUME NEW n \in Nat, n \in S PROVE n + 1 \in S
  BY <1>1, <1>2, <1>4
<1> HIDE DEF S
<1>5. Nat \subseteq S
  BY <1>3, <1>4, Induction
<1>6. \A n \in 0 .. Len(s) : f[n] \in Int
  BY <1>1, <1>5 DEF S
<1> QED
  BY <1>2, <1>6

(* A sum is a number, of nothing 0, and grows by what is appended.         *)
LEMMA SumFacts ==
    /\ SumOf(<<>>) = 0
    /\ \A s \in Seq(Int) : SumOf(s) \in Int
    /\ \A s \in Seq(Int), x \in Int : SumOf(Append(s, x)) = SumOf(s) + x
<1>1. SumOf(<<>>) = 0
  <2>1. <<>> \in Seq(Int) /\ Len(<<>>) = 0
    OBVIOUS
  <2>2. PICK f : IsSums(<<>>, f) /\ SumOf(<<>>) = f[0]
    BY <2>1, SumsExist
  <2> QED
    BY <2>1, <2>2, SumsAre
<1>2. ASSUME NEW s \in Seq(Int) PROVE SumOf(s) \in Int
  <2>1. PICK f : IsSums(s, f) /\ SumOf(s) = f[Len(s)]
    BY SumsExist
  <2>2. Len(s) \in 0 .. Len(s)
    OBVIOUS
  <2> QED
    BY <2>1, <2>2, SumsAre
<1>3. ASSUME NEW s \in Seq(Int), NEW x \in Int
      PROVE  SumOf(Append(s, x)) = SumOf(s) + x
  <2> DEFINE t == Append(s, x)
  <2>1. /\ t \in Seq(Int) /\ Len(t) = Len(s) + 1 /\ Len(s) \in Nat
        /\ \A n \in 1 .. Len(s) : t[n] = s[n] /\ s[n] \in Int
        /\ t[Len(s) + 1] = x
    BY AppendProperties
  <2> HIDE DEF t
  <2>2. PICK f : IsSums(s, f) /\ SumOf(s) = f[Len(s)]
    BY SumsExist
  <2>3. PICK g : IsSums(t, g) /\ SumOf(t) = g[Len(t)]
    BY <2>1, SumsExist
  <2>4. /\ f[0] = 0 /\ \A n \in 1 .. Len(s) : f[n] = f[n - 1] + s[n]
        /\ \A n \in 0 .. Len(s) : f[n] \in Int
    BY <2>2, SumsAre
  <2>5. g[0] = 0 /\ \A n \in 1 .. Len(s) + 1 : g[n] = g[n - 1] + t[n]
    BY <2>1, <2>3, SumsAre
  <2> DEFINE S == {n \in Nat : n <= Len(s) => f[n] = g[n]}
  <2>6. 0 \in S
    BY <2>4, <2>5
  <2>7. ASSUME NEW n \in Nat, n \in S PROVE n + 1 \in S
    <3> SUFFICES ASSUME n + 1 <= Len(s) PROVE f[n + 1] = g[n + 1]
      OBVIOUS
    <3>1. n + 1 \in 1 .. Len(s) /\ n + 1 \in 1 .. Len(s) + 1 /\ (n + 1) - 1 = n
      BY <2>1
    <3>2. f[n] = g[n]
      BY <2>1, <2>7
    <3> QED
      BY <3>1, <3>2, <2>1, <2>4, <2>5
  <2> HIDE DEF S
  <2>8. Len(s) \in S
    BY <2>1, <2>6, <2>7, Induction
  <2>9. f[Len(s)] = g[Len(s)]
    BY <2>1, <2>8 DEF S
  <2>10. Len(s) + 1 \in 1 .. Len(s) + 1 /\ (Len(s) + 1) - 1 = Len(s)
    BY <2>1
  <2>11. g[Len(s) + 1] = g[Len(s)] + x
    BY <2>1, <2>5, <2>10
  <2>12. SumOf(t) = SumOf(s) + x
    BY <2>1, <2>2, <2>3, <2>9, <2>11
  <2> QED
    BY <2>12 DEF t
<1> QED
  BY <1>1, <1>2, <1>3

(* The sum of one more of the first members. *)
LEMMA PrefixSums ==
    ASSUME NEW s \in Seq(Int)
    PROVE  /\ SumOf(SubSeq(s, 1, 0)) = 0
           /\ \A n \in 0 .. Len(s) : SumOf(SubSeq(s, 1, n)) \in Int
           /\ \A n \in 0 .. Len(s) - 1 :
                SumOf(SubSeq(s, 1, n + 1)) = SumOf(SubSeq(s, 1, n)) + s[n + 1]
           /\ SubSeq(s, 1, Len(s)) = s
<1>1. Len(s) \in Nat /\ \A n \in 1 .. Len(s) : s[n] \in Int
  OBVIOUS
<1>2. \A n \in 0 .. Len(s) : /\ SubSeq(s, 1, n) \in Seq(Int) /\ Len(SubSeq(s, 1, n)) = n
                             /\ \A i \in 1 .. n : SubSeq(s, 1, n)[i] = s[i]
  <2> TAKE n \in 0 .. Len(s)
  <2>1. SubSeq(s, 1, n) = [i \in 1 .. n |-> s[i]]
    BY <1>1
  <2>2. \A i \in 1 .. n : s[i] \in Int
    BY <1>1
  <2> QED
    BY <1>1, <2>1, <2>2
<1>3. SubSeq(s, 1, 0) = <<>>
  BY <1>1, <1>2
<1>4. SubSeq(s, 1, Len(s)) = s
  <2>1. Len(s) \in 0 .. Len(s)
    BY <1>1
  <2> QED
    BY <1>2, <2>1, SeqEqual
<1>5. ASSUME NEW n \in 0 .. Len(s) - 1
      PROVE  SubSeq(s, 1, n + 1) = Append(SubSeq(s, 1, n), s[n + 1])
  <2>1. n \in 0 .. Len(s) /\ n + 1 \in 0 .. Len(s) /\ s[n + 1] \in Int /\ n \in Nat
    BY <1>1
  <2> DEFINE p == SubSeq(s, 1, n)
             q == SubSeq(s, 1, n + 1)
  <2>2. p \in Seq(Int) /\ Len(p) = n /\ \A i \in 1 .. n : p[i] = s[i]
    BY <1>2, <2>1
  <2>3. q \in Seq(Int) /\ Len(q) = n + 1 /\ \A i \in 1 .. n + 1 : q[i] = s[i]
    BY <1>2, <2>1
  <2> HIDE DEF p, q
  <2>4. /\ Append(p, s[n + 1]) \in Seq(Int) /\ Len(Append(p, s[n + 1])) = n + 1
        /\ \A i \in 1 .. n : Append(p, s[n + 1])[i] = p[i]
        /\ Append(p, s[n + 1])[n + 1] = s[n + 1]
    BY <2>1, <2>2, AppendProperties
  <2>5. \A i \in 1 .. Len(q) : q[i] = Append(p, s[n + 1])[i]
    BY <2>1, <2>2, <2>3, <2>4
  <2>6. q = Append(p, s[n + 1])
    BY <2>3, <2>4, <2>5, SeqEqual
  <2> QED
    BY <2>6 DEF p, q
<1>6. ASSUME NEW n \in 0 .. Len(s) - 1
      PROVE  SumOf(SubSeq(s, 1, n + 1)) = SumOf(SubSeq(s, 1, n)) + s[n + 1]
  <2>1. n \in 0 .. Len(s) /\ s[n + 1] \in Int
    BY <1>1
  <2> QED
    BY <1>2, <1>5, <2>1, SumFacts
<1> QED
  BY <1>2, <1>3, <1>4, <1>6, SumFacts

-----------------------------------------------------------------------------
(* The metrics.                                                            *)

(* The running sum, its peak and the deepest fall so far.                  *)
Runs == [sum: Int, peak: Int, down: Int]
NoRun == [sum |-> 0, peak |-> 0, down |-> 0]
NextRun(acc, g) ==
    [sum |-> acc.sum + g, peak |-> Peak(acc.peak, acc.sum + g),
     down |-> IF Peak(acc.peak, acc.sum + g) - (acc.sum + g) > acc.down
              THEN Peak(acc.peak, acc.sum + g) - (acc.sum + g) ELSE acc.down]
IsRun(s, f) == f = [n \in 0 .. Len(s) |-> IF n = 0 THEN NoRun ELSE NextRun(f[n - 1], s[n])]
Drawdown(s) == (CHOOSE f : IsRun(s, f))[Len(s)].down

LEMMA NextRunType == \A acc \in Runs, g \in Int : NextRun(acc, g) \in Runs
  BY DEF Runs, NextRun, Peak

LEMMA RunExists ==
    ASSUME NEW s \in Seq(Int)
    PROVE  \E f : IsRun(s, f)
<1>1. Len(s) \in Nat /\ \A n \in 1 .. Len(s) : s[n] \in Int
  OBVIOUS
<1> DEFINE N == Len(s)
           step == [n \in 1 .. N |-> [x \in Runs |-> NextRun(x, s[n])]]
<1>2. step \in Steps(Runs, N)
  BY <1>1, NextRunType DEF Steps
<1>3. \A n \in 1 .. N, x \in Runs : step[n][x] = NextRun(x, s[n])
  OBVIOUS
<1> HIDE DEF step
<1>4. PICK f : Follows(f, Runs, N, NoRun, step)
  <2>1. N \in Nat /\ NoRun \in Runs
    BY <1>1 DEF NoRun, Runs
  <2> HIDE DEF N
  <2> QED
    BY <2>1, <1>2, Recursion
<1>5. \A n \in 0 .. N : f[n] = IF n = 0 THEN NoRun ELSE NextRun(f[n - 1], s[n])
  <2> SUFFICES ASSUME NEW n \in 0 .. N, n # 0 PROVE f[n] = NextRun(f[n - 1], s[n])
    BY <1>4 DEF Follows
  <2>1. n \in 1 .. N /\ n - 1 \in 0 .. N
    BY <1>1
  <2>2. f[n - 1] \in Runs
    BY <2>1, <1>4 DEF Follows
  <2> QED
    BY <2>1, <2>2, <1>3, <1>4 DEF Follows
<1>6. f = [n \in 0 .. N |-> f[n]]
  BY <1>4 DEF Follows
<1>7. f = [n \in 0 .. N |-> IF n = 0 THEN NoRun ELSE NextRun(f[n - 1], s[n])]
  BY <1>5, <1>6
<1> QED
  BY <1>7 DEF IsRun

IsPrefixSums(s, A) == \A n \in 0 .. Len(s) : A[n] = SumOf(SubSeq(s, 1, n))

RunIsAt(f, A, n) ==
    /\ f[n] \in Runs /\ f[n].sum = A[n]
    /\ \E k \in 0 .. n : f[n].peak = A[k]
    /\ \A k \in 0 .. n : A[k] <= f[n].peak
    /\ \E p, q \in 0 .. n : p <= q /\ f[n].down = A[p] - A[q]
    /\ \A p, q \in 0 .. n : p <= q => A[p] - A[q] <= f[n].down

(* What one pass computes: the sum, the highest sum and the deepest fall   *)
(* from one to a later one.                                                *)
LEMMA RunIsRight ==
    ASSUME NEW s \in Seq(Int), NEW f, IsRun(s, f), NEW A, IsPrefixSums(s, A)
    PROVE  \A n \in 0 .. Len(s) : RunIsAt(f, A, n)
<1>1. Len(s) \in Nat /\ \A n \in 1 .. Len(s) : s[n] \in Int
  OBVIOUS
<1>2. /\ A[0] = 0 /\ \A n \in 0 .. Len(s) : A[n] \in Int
      /\ \A n \in 0 .. Len(s) - 1 : A[n + 1] = A[n] + s[n + 1]
  <2>1. \A n \in 0 .. Len(s) - 1 : n \in 0 .. Len(s) /\ n + 1 \in 0 .. Len(s)
    BY <1>1
  <2>2. 0 \in 0 .. Len(s)
    BY <1>1
  <2> QED
    BY <2>1, <2>2, PrefixSums DEF IsPrefixSums
<1>3. f[0] = NoRun /\ \A n \in 1 .. Len(s) : f[n] = NextRun(f[n - 1], s[n])
  <2>1. \A n \in 0 .. Len(s) : f[n] = IF n = 0 THEN NoRun ELSE NextRun(f[n - 1], s[n])
    BY Zenon DEF IsRun
  <2> QED
    BY <1>1, <2>1
<1> DEFINE Right(n) ==
              /\ f[n] \in Runs /\ f[n].sum = A[n]
              /\ \E k \in 0 .. n : f[n].peak = A[k]
              /\ \A k \in 0 .. n : A[k] <= f[n].peak
              /\ \E p, q \in 0 .. n : p <= q /\ f[n].down = A[p] - A[q]
              /\ \A p, q \in 0 .. n : p <= q => A[p] - A[q] <= f[n].down
           S == {n \in Nat : n <= Len(s) => Right(n)}
<1>4. 0 \in S
  <2>1. NoRun \in Runs /\ NoRun.sum = 0 /\ NoRun.peak = 0 /\ NoRun.down = 0
    BY DEF NoRun, Runs
  <2>2. 0 \in 0 .. 0 /\ \A k \in 0 .. 0 : k = 0
    OBVIOUS
  <2> QED
    BY <1>2, <1>3, <2>1, <2>2
<1>5. ASSUME NEW n \in Nat, n \in S PROVE n + 1 \in S
  <2> SUFFICES ASSUME n + 1 <= Len(s) PROVE Right(n + 1)
    OBVIOUS
  <2> DEFINE m == n + 1
             a == A[m]
             o == f[n]
             r == f[m]
  <2>1. Right(n) /\ n \in 0 .. Len(s) - 1 /\ n \in 0 .. Len(s) /\ m \in 1 .. Len(s)
        /\ m \in 0 .. Len(s) /\ m - 1 = n
    BY <1>1, <1>5
  <2>2. a = A[n] + s[m] /\ a \in Int /\ s[m] \in Int
    BY <1>1, <1>2, <2>1
  <2>3. r = NextRun(o, s[m]) /\ o \in Runs /\ o.sum = A[n]
    BY <1>3, <2>1
  <2>4. /\ o.peak \in Int /\ o.down \in Int /\ o.sum \in Int
        /\ r \in Runs /\ r.sum = a /\ r.peak = (IF a > o.peak THEN a ELSE o.peak)
        /\ r.down = (IF r.peak - a > o.down THEN r.peak - a ELSE o.down)
    BY <2>2, <2>3 DEF Runs, NextRun, Peak
  <2>5. \A k \in 0 .. m : k \in 0 .. n \/ k = m
    BY <2>1
  <2>6. \A k \in 0 .. m : A[k] \in Int
    BY <1>2, <2>1
  <2>7. 0 .. n \subseteq 0 .. m /\ m \in 0 .. m
    BY <2>1
  <2>8. PICK k0 \in 0 .. n : o.peak = A[k0]
    BY <2>1
  <2>9. \A k \in 0 .. n : A[k] <= o.peak
    BY <2>1
  <2>10. PICK p0, q0 \in 0 .. n : p0 <= q0 /\ o.down = A[p0] - A[q0]
    BY <2>1
  <2>11. \A p, q \in 0 .. n : p <= q => A[p] - A[q] <= o.down
    BY <2>1
  <2> HIDE DEF m, a, o, r, Right
  <2>12. PICK k1 \in 0 .. m : r.peak = A[k1]
    <3>1. CASE a > o.peak
      BY <3>1, <2>4, <2>7 DEF a
    <3>2. CASE ~(a > o.peak)
      BY <3>2, <2>4, <2>7, <2>8
    <3> QED
      BY <3>1, <3>2
  <2>13. \A k \in 0 .. m : A[k] <= r.peak
    <3> SUFFICES ASSUME NEW k \in 0 .. m PROVE A[k] <= r.peak
      OBVIOUS
    <3>1. CASE k \in 0 .. n
      BY <3>1, <2>2, <2>4, <2>6, <2>9
    <3>2. CASE k = m
      BY <3>2, <2>2, <2>4 DEF a
    <3> QED
      BY <3>1, <3>2, <2>5
  <2>14. \E p, q \in 0 .. m : p <= q /\ r.down = A[p] - A[q]
    <3>1. CASE r.peak - a > o.down
      <4>1. k1 <= m /\ r.down = A[k1] - A[m]
        BY <3>1, <2>4, <2>12, <2>1 DEF a
      <4> QED
        BY <4>1, <2>7, <2>12
    <3>2. CASE ~(r.peak - a > o.down)
      BY <3>2, <2>4, <2>7, <2>10
    <3> QED
      BY <3>1, <3>2
  <2>15. \A p, q \in 0 .. m : p <= q => A[p] - A[q] <= r.down
    <3> SUFFICES ASSUME NEW p \in 0 .. m, NEW q \in 0 .. m, p <= q PROVE A[p] - A[q] <= r.down
      OBVIOUS
    <3>0. /\ A[p] \in Int /\ A[q] \in Int /\ o.down \in Int /\ r.peak \in Int /\ r.down \in Int
          /\ a \in Int /\ o.down <= r.down /\ r.peak - a <= r.down
      <4>1. r.peak \in Int
        BY <2>2, <2>4
      <4> QED
        BY <2>2, <2>4, <2>6, <4>1
    <3>1. CASE q = m
      <4>1. A[p] <= r.peak /\ A[q] = a
        BY <3>1, <2>13 DEF a
      <4> QED
        BY <4>1, <3>0
    <3>2. CASE q # m
      <4>1. q \in 0 .. n /\ p \in 0 .. n
        BY <3>2, <2>1, <2>5
      <4>2. A[p] - A[q] <= o.down
        BY <4>1, <2>11
      <4> QED
        BY <4>2, <3>0
    <3> QED
      BY <3>1, <3>2
  <2>16. Right(m)
    BY <2>4, <2>12, <2>13, <2>14, <2>15 DEF r, a, Right
  <2> QED
    BY <2>16 DEF m
<1> HIDE DEF S
<1>6. Nat \subseteq S
  BY <1>4, <1>5, Induction
<1>7. \A n \in 0 .. Len(s) : Right(n)
  BY <1>1, <1>6 DEF S
<1> QED
  BY <1>7 DEF RunIsAt

LEMMA DrawdownIsRight ==
    ASSUME NEW s \in Seq(Int)
    PROVE  Drawdown(s) = Max({SumOf(SubSeq(s, 1, p[1])) - SumOf(SubSeq(s, 1, p[2])) :
                                p \in {q \in (0 .. Len(s)) \X (0 .. Len(s)) : q[1] <= q[2]}})
<1> DEFINE ends == 0 .. Len(s)
           A == [n \in ends |-> SumOf(SubSeq(s, 1, n))]
           falls == {SumOf(SubSeq(s, 1, p[1])) - SumOf(SubSeq(s, 1, p[2])) :
                       p \in {q \in ends \X ends : q[1] <= q[2]}}
           f == CHOOSE g : IsRun(s, g)
           d == Drawdown(s)
<1>1. Len(s) \in Nat /\ Len(s) \in ends
  OBVIOUS
<1>2. IsRun(s, f) /\ d = f[Len(s)].down
  BY RunExists DEF Drawdown
<1>3. \A n \in ends : A[n] = SumOf(SubSeq(s, 1, n)) /\ A[n] \in Int
  BY PrefixSums
<1>4. \A x : x \in falls <=> \E p, q \in ends : p <= q /\ x = A[p] - A[q]
  <2> SUFFICES ASSUME NEW x PROVE x \in falls <=> \E p, q \in ends : p <= q /\ x = A[p] - A[q]
    OBVIOUS
  <2>1. ASSUME x \in falls PROVE \E p, q \in ends : p <= q /\ x = A[p] - A[q]
    <3>1. PICK p \in ends \X ends : p[1] <= p[2] /\ x = SumOf(SubSeq(s, 1, p[1])) - SumOf(SubSeq(s, 1, p[2]))
      BY <2>1
    <3>2. p[1] \in ends /\ p[2] \in ends
      BY <3>1
    <3> QED
      BY <3>1, <3>2
  <2>2. ASSUME NEW p \in ends, NEW q \in ends, p <= q, x = A[p] - A[q] PROVE x \in falls
    <3>1. <<p, q>> \in ends \X ends /\ <<p, q>>[1] = p /\ <<p, q>>[2] = q
      OBVIOUS
    <3>2. x = SumOf(SubSeq(s, 1, <<p, q>>[1])) - SumOf(SubSeq(s, 1, <<p, q>>[2]))
      BY <2>2, <3>1
    <3> QED
      BY <2>2, <3>1, <3>2
  <2> QED
    BY <2>1, <2>2
<1> HIDE DEF falls, f, A, d, ends
<1>5. /\ f[Len(s)] \in Runs
      /\ \E p, q \in ends : p <= q /\ f[Len(s)].down = A[p] - A[q]
      /\ \A p, q \in ends : p <= q => A[p] - A[q] <= f[Len(s)].down
  <2>1. IsPrefixSums(s, A)
    BY <1>3 DEF ends, IsPrefixSums
  <2>2. Len(s) \in 0 .. Len(s)
    BY <1>1
  <2>3. RunIsAt(f, A, Len(s))
    BY <1>2, <2>1, <2>2, RunIsRight
  <2> QED
    BY <2>3 DEF RunIsAt, ends
<1>6. d \in falls /\ d \in Int
  BY <1>2, <1>4, <1>5 DEF Runs
<1>7. \A x \in falls : x \in Int /\ d >= x
  BY <1>2, <1>3, <1>4, <1>5, <1>6
<1>8. \A y \in falls : (\A x \in falls : y >= x) => y = d
  BY <1>6, <1>7
<1>9. d = Max(falls)
  BY <1>6, <1>7, <1>8 DEF Max
<1> QED
  BY <1>9 DEF d, falls, ends

LEMMA NoDrawdown == Drawdown(<<>>) = 0
<1> DEFINE f == CHOOSE g : IsRun(<<>>, g)
<1>1. <<>> \in Seq(Int) /\ Len(<<>>) = 0
  OBVIOUS
<1>2. IsRun(<<>>, f)
  BY <1>1, RunExists
<1>3. Drawdown(<<>>) = f[0].down
  BY <1>1 DEF Drawdown
<1> HIDE DEF f
<1>4. f[0] = NoRun
  <2>1. 0 \in 0 .. Len(<<>>)
    BY <1>1
  <2> QED
    BY <1>2, <2>1 DEF IsRun
<1> QED
  BY <1>3, <1>4 DEF NoRun

(* Winners and losers together make the total.                             *)
Won(s, n) == {i \in 1 .. n : s[i] > 0}
Lost(s, n) == {i \in 1 .. n : s[i] < 0}

LEMMA PickedSums ==
    ASSUME NEW s \in Seq(Int), NEW n \in 0 .. Len(s)
    PROVE  /\ SumOf(Picked(s, Won(s, n))) \in Nat
           /\ -SumOf(Picked(s, Lost(s, n))) \in Nat
           /\ SumOf(Picked(s, Won(s, n))) + SumOf(Picked(s, Lost(s, n)))
                = SumOf(SubSeq(s, 1, n))
<1>1. Len(s) \in Nat /\ \A k \in 1 .. Len(s) : s[k] \in Int
  OBVIOUS
<1> DEFINE A(k) == SumOf(SubSeq(s, 1, k))
           W(k) == SumOf(Picked(s, Won(s, k)))
           L(k) == SumOf(Picked(s, Lost(s, k)))
           Good(k) == W(k) \in Nat /\ -L(k) \in Nat /\ W(k) + L(k) = A(k)
           S == {k \in Nat : k <= Len(s) => Good(k)}
<1>2. \A k \in 0 .. Len(s) : /\ W(k) \in Int /\ L(k) \in Int /\ A(k) \in Int
                             /\ Picked(s, Won(s, k)) \in Seq(Int)
                             /\ Picked(s, Lost(s, k)) \in Seq(Int)
  <2> TAKE k \in 0 .. Len(s)
  <2>1. Won(s, k) \in Places(s) /\ Lost(s, k) \in Places(s)
    BY <1>1 DEF Won, Lost, Places
  <2>2. Picked(s, Won(s, k)) \in Seq(Int) /\ Picked(s, Lost(s, k)) \in Seq(Int)
    BY <2>1, PickedFacts
  <2> QED
    BY <2>2, SumFacts, PrefixSums
<1>3. 0 \in S
  <2>1. Won(s, 0) = {} /\ Lost(s, 0) = {} /\ 0 \in 0 .. Len(s)
    BY <1>1 DEF Won, Lost
  <2>2. {} \in Places(s) /\ Cardinality({}) = 0
    BY FS_EmptySet DEF Places
  <2>3. Picked(s, {}) \in Seq(Int) /\ Len(Picked(s, {})) = 0
    BY <2>2, PickedFacts
  <2>4. Picked(s, {}) = <<>>
    BY <2>3
  <2>5. W(0) = 0 /\ L(0) = 0 /\ A(0) = 0
    <3>1. W(0) = SumOf(<<>>) /\ L(0) = SumOf(<<>>)
      BY <2>1, <2>4, Zenon
    <3> QED
      BY <3>1, SumFacts, PrefixSums
  <2>6. Good(0)
    <3>1. 0 \in Nat /\ -0 \in Nat /\ 0 + 0 = 0
      OBVIOUS
    <3> HIDE DEF W, L, A
    <3> QED
      BY <2>5, <3>1, Zenon
  <2> HIDE DEF Good
  <2> QED
    BY <2>6
<1>4. ASSUME NEW k \in Nat, k \in S PROVE k + 1 \in S
  <2> SUFFICES ASSUME k + 1 <= Len(s) PROVE Good(k + 1)
    OBVIOUS
  <2> DEFINE m == k + 1
             x == s[m]
  <2>1. /\ Good(k) /\ k \in 0 .. Len(s) /\ m \in 0 .. Len(s) /\ m \in 1 .. Len(s)
        /\ k \in 0 .. Len(s) - 1 /\ m - 1 = k /\ x \in Int
    BY <1>1, <1>4
  <2>2. A(m) = A(k) + x
    BY <2>1, PrefixSums
  <2>3. Won(s, m) = (IF x > 0 THEN Won(s, k) \union {m} ELSE Won(s, k))
    BY <2>1 DEF Won
  <2>4. Lost(s, m) = (IF x < 0 THEN Lost(s, k) \union {m} ELSE Lost(s, k))
    BY <2>1 DEF Lost
  <2>5. Won(s, k) \subseteq 1 .. (m - 1) /\ Lost(s, k) \subseteq 1 .. (m - 1)
    BY <2>1 DEF Won, Lost
  <2> HIDE DEF m, Good, A
  <2>6. x > 0 => W(m) = W(k) + x
    <3> SUFFICES ASSUME x > 0 PROVE W(m) = W(k) + x
      OBVIOUS
    <3>1. Picked(s, Won(s, m)) = Append(Picked(s, Won(s, k)), x)
      BY <2>1, <2>3, <2>5, PickedGrows
    <3> HIDE DEF x
    <3> QED
      BY <2>1, <3>1, <1>2, SumFacts
  <2>7. x < 0 => L(m) = L(k) + x
    <3> SUFFICES ASSUME x < 0 PROVE L(m) = L(k) + x
      OBVIOUS
    <3>1. Picked(s, Lost(s, m)) = Append(Picked(s, Lost(s, k)), x)
      BY <2>1, <2>4, <2>5, PickedGrows
    <3> HIDE DEF x
    <3> QED
      BY <2>1, <3>1, <1>2, SumFacts
  <2>8. ~(x > 0) => W(m) = W(k)
    BY <2>3
  <2>9. ~(x < 0) => L(m) = L(k)
    BY <2>4
  <2>10. W(k) \in Nat /\ -L(k) \in Nat /\ L(k) \in Int /\ W(k) + L(k) = A(k) /\ A(k) \in Int
    BY <2>1, <1>2 DEF Good
  <2> HIDE DEF W, L, x
  <2>11. W(m) \in Nat /\ -L(m) \in Nat /\ W(m) + L(m) = A(m)
    BY <2>1, <2>2, <2>6, <2>7, <2>8, <2>9, <2>10
  <2> QED
    BY <2>11 DEF Good, m
<1> HIDE DEF S
<1>5. Nat \subseteq S
  BY <1>3, <1>4, Induction
<1>6. Good(n)
  BY <1>1, <1>5 DEF S
<1> QED
  BY <1>6

(* The metrics of any list of trades, by their definitions.                *)
LEMMA MetricsOf ==
    ASSUME NEW list \in Seq(Trades)
    PROVE  LET gain == Gains(list)
               m == ComputeMetrics(list)
               won == {i \in DOMAIN gain : gain[i] > 0}
           IN  /\ m.total = SumOf(gain) /\ m.count = Len(list) /\ m.wins = Cardinality(won)
               /\ m.won - m.lost = SumOf(gain) /\ m.won >= 0 /\ m.lost >= 0
               /\ m.drawdown = Drawdown(gain)
<1> DEFINE gain == Gains(list)
           m == ComputeMetrics(list)
<1>1. /\ gain \in Seq(Int) /\ Len(gain) = Len(list) /\ DOMAIN gain = 1 .. Len(gain)
      /\ Len(list) \in Nat
  <2>1. \A i \in DOMAIN list : list[i] \in Trades
    OBVIOUS
  <2>2. \A i \in DOMAIN list : list[i].gain \in Int
    BY <2>1 DEF Trades
  <2>3. DOMAIN list = 1 .. Len(list) /\ Len(list) \in Nat
    OBVIOUS
  <2> QED
    BY <2>2, <2>3 DEF Gains
<1>2. CASE list = <<>>
  <2>1. m = NoMetrics /\ Len(list) = 0 /\ gain = <<>>
    BY <1>1, <1>2 DEF ComputeMetrics
  <2>2. {i \in DOMAIN gain : gain[i] > 0} = {}
    BY <1>1, <2>1
  <2> QED
    BY <2>1, <2>2, SumFacts, NoDrawdown, FS_EmptySet DEF NoMetrics
<1>3. CASE list # <<>>
  <2> DEFINE W == SumOf(Picked(gain, Won(gain, Len(gain))))
             L == SumOf(Picked(gain, Lost(gain, Len(gain))))
  <2>1. {i \in DOMAIN gain : gain[i] > 0} = Won(gain, Len(gain))
    BY <1>1 DEF Won
  <2>2. {i \in DOMAIN gain : gain[i] < 0} = Lost(gain, Len(gain))
    BY <1>1 DEF Lost
  <2>3. m = [total |-> SumOf(gain), count |-> Len(list),
             wins |-> Len(Picked(gain, {i \in DOMAIN gain : gain[i] > 0})),
             won |-> SumOf(Picked(gain, {i \in DOMAIN gain : gain[i] > 0})),
             lost |-> -SumOf(Picked(gain, {i \in DOMAIN gain : gain[i] < 0})),
             drawdown |-> Drawdown(gain)]
    BY <1>3, Zenon DEF ComputeMetrics, Drawdown, IsRun, NextRun, NoRun
  <2> HIDE DEF gain, m
  <2>4. m = [total |-> SumOf(gain), count |-> Len(list),
             wins |-> Len(Picked(gain, Won(gain, Len(gain)))),
             won |-> W, lost |-> -L, drawdown |-> Drawdown(gain)]
    BY <2>1, <2>2, <2>3, Zenon
  <2>5. Won(gain, Len(gain)) \in Places(gain)
    BY <1>1 DEF Won, Places
  <2>6. Len(Picked(gain, Won(gain, Len(gain)))) = Cardinality(Won(gain, Len(gain)))
    BY <1>1, <2>5, PickedFacts
  <2>7. W \in Nat /\ -L \in Nat /\ W + L = SumOf(SubSeq(gain, 1, Len(gain)))
    <3>1. Len(gain) \in 0 .. Len(gain)
      BY <1>1
    <3> QED
      BY <1>1, <3>1, PickedSums
  <2>8. SubSeq(gain, 1, Len(gain)) = gain /\ SumOf(gain) \in Int
    BY <1>1, PrefixSums, SumFacts
  <2>9. L \in Int
    <3>1. Lost(gain, Len(gain)) \in Places(gain)
      BY <1>1 DEF Lost, Places
    <3> QED
      BY <1>1, <3>1, PickedFacts, SumFacts
  <2> HIDE DEF W, L
  <2> DEFINE wins == Len(Picked(gain, Won(gain, Len(gain))))
             loss == -L
             total == SumOf(gain)
             count == Len(list)
             down == Drawdown(gain)
  <2>10a. /\ m.total = total /\ m.count = count /\ m.wins = wins
          /\ m.won = W /\ m.lost = loss /\ m.drawdown = down
    <3>1. m = [total |-> total, count |-> count, wins |-> wins,
               won |-> W, lost |-> loss, drawdown |-> down]
      BY <2>4, Zenon
    <3> HIDE DEF wins, loss, total, count, down
    <3> QED
      BY <3>1
  <2>10. /\ m.total = SumOf(gain) /\ m.count = Len(list)
         /\ m.wins = Cardinality(Won(gain, Len(gain)))
         /\ m.won = W /\ m.lost = -L /\ m.drawdown = Drawdown(gain)
    BY <2>6, <2>10a
  <2>11. m.won - m.lost = SumOf(gain) /\ m.won >= 0 /\ m.lost >= 0
    <3>1. W + L = total
      BY <2>7, <2>8, Zenon
    <3>2. m.won = W /\ m.lost = loss
      BY <2>10, Zenon
    <3>3. total \in Int
      BY <2>8
    <3>4. loss \in Nat /\ W - loss = total
      BY <2>7, <2>9, <3>1
    <3> HIDE DEF loss, total
    <3>5. m.won - m.lost = total /\ m.won >= 0 /\ m.lost >= 0
      BY <2>7, <3>2, <3>4
    <3> QED
      BY <3>5 DEF total
  <2> QED
    BY <2>1, <2>10, <2>11 DEF gain, m
<1> QED
  BY <1>2, <1>3

(* One more trade adds its gain. *)
LEMMA GainsGrow ==
    ASSUME NEW list \in Seq(Trades), NEW t \in Trades
    PROVE  SumOf(Gains(Append(list, t))) = SumOf(Gains(list)) + t.gain
<1>1. /\ Gains(list) \in Seq(Int) /\ Len(Gains(list)) = Len(list) /\ t.gain \in Int
      /\ Len(list) \in Nat
  <2>1. \A i \in DOMAIN list : list[i] \in Trades
    OBVIOUS
  <2>2. \A i \in DOMAIN list : list[i].gain \in Int
    BY <2>1 DEF Trades
  <2>3. DOMAIN list = 1 .. Len(list) /\ Len(list) \in Nat
    OBVIOUS
  <2>4. t.gain \in Int
    BY DEF Trades
  <2> QED
    BY <2>2, <2>3, <2>4 DEF Gains
<1> DEFINE more == Append(list, t)
<1>2. /\ more \in Seq(Trades) /\ Len(more) = Len(list) + 1
      /\ \A i \in 1 .. Len(list) : more[i] = list[i]
      /\ more[Len(list) + 1] = t
      /\ DOMAIN more = 1 .. Len(list) + 1 /\ DOMAIN list = 1 .. Len(list)
  BY AppendProperties
<1> HIDE DEF more
<1>3. Gains(more) = [i \in 1 .. Len(list) + 1 |-> IF i = Len(list) + 1 THEN t.gain ELSE Gains(list)[i]]
  BY <1>1, <1>2 DEF Gains
<1>4. \A i \in 1 .. Len(list) : Gains(list)[i] \in Int
  BY <1>1
<1>5. Gains(more) = Append(Gains(list), t.gain)
  BY <1>1, <1>3, <1>4
<1> QED
  BY <1>1, <1>5, SumFacts DEF more

(* The metrics on display are those of the trades.                         *)
Counted == metrics = ComputeMetrics(trades) /\ earned = SumOf(Gains(trades))

LEMMA CountedIsRight ==
    ASSUME trades \in Seq(Trades), Counted
    PROVE  MetricsAreRight
<1> DEFINE gain == Gains(trades)
           m == ComputeMetrics(trades)
           won == {i \in DOMAIN gain : gain[i] > 0}
           falls == {SumOf(SubSeq(gain, 1, p[1])) - SumOf(SubSeq(gain, 1, p[2])) :
                       p \in {q \in (0 .. Len(trades)) \X (0 .. Len(trades)) : q[1] <= q[2]}}
<1>1. /\ m.total = SumOf(gain) /\ m.count = Len(trades) /\ m.wins = Cardinality(won)
      /\ m.won - m.lost = SumOf(gain) /\ m.won >= 0 /\ m.lost >= 0
      /\ m.drawdown = Drawdown(gain)
  BY MetricsOf
<1>2. gain \in Seq(Int) /\ Len(gain) = Len(trades)
  <2>1. \A i \in DOMAIN trades : trades[i] \in Trades
    OBVIOUS
  <2>2. \A i \in DOMAIN trades : trades[i].gain \in Int
    BY <2>1 DEF Trades
  <2> QED
    BY <2>2 DEF Gains
<1>3. Drawdown(gain) = Max(falls)
  <2> HIDE DEF gain
  <2>1. Drawdown(gain) = Max({SumOf(SubSeq(gain, 1, p[1])) - SumOf(SubSeq(gain, 1, p[2])) :
                                p \in {q \in (0 .. Len(gain)) \X (0 .. Len(gain)) : q[1] <= q[2]}})
    BY <1>2, DrawdownIsRight
  <2> QED
    BY <1>2, <2>1
<1>4. metrics = m /\ earned = SumOf(gain)
  BY DEF Counted
<1> HIDE DEF m, falls
<1>5. metrics.drawdown = Max(falls)
  BY <1>1, <1>3, <1>4
<1> QED
  BY <1>1, <1>4, <1>5, Zenon DEF MetricsAreRight, falls


-----------------------------------------------------------------------------
(* The bars of a series, by their definition.                              *)

LEMMA LeastAndGreatest ==
    ASSUME NEW T, T \subseteq Nat, IsFiniteSet(T), T # {}
    PROVE  /\ Min(T) \in T /\ \A u \in T : Min(T) <= u
           /\ Max(T) \in T /\ \A u \in T : u <= Max(T)
<1> DEFINE s == InOrder(T)
           n == Cardinality(T)
<1>1. /\ n \in Nat
      /\ \A i \in 1 .. n : s[i] \in T
      /\ \A t \in T : \E i \in 1 .. n : s[i] = t
  BY InOrderFacts
<1>2. \A i, j \in 1 .. n : i < j => s[i] < s[j]
  <2> SUFFICES ASSUME NEW i \in 1 .. n, NEW j \in 1 .. n, i < j PROVE s[i] < s[j]
    OBVIOUS
  <2> QED
    BY InOrderRises
<1>3. \A u \in T : u \in Nat
  OBVIOUS
<1> HIDE DEF s, n
<1>4. 1 \in 1 .. n /\ n \in 1 .. n
  <2>1. PICK t : t \in T
    OBVIOUS
  <2>2. PICK i \in 1 .. n : s[i] = t
    BY <1>1, <2>1
  <2> QED
    BY <1>1, <2>2
<1>5. s[1] \in T /\ \A u \in T : s[1] <= u
  <2> SUFFICES ASSUME NEW u \in T PROVE s[1] <= u
    BY <1>1, <1>4
  <2>1. PICK i \in 1 .. n : s[i] = u
    BY <1>1
  <2>2. i = 1 \/ 1 < i
    OBVIOUS
  <2>3. s[1] \in Nat /\ s[i] \in Nat
    BY <1>1, <1>3, <1>4
  <2> QED
    BY <2>1, <2>2, <2>3, <1>2, <1>4
<1>6. s[n] \in T /\ \A u \in T : u <= s[n]
  <2> SUFFICES ASSUME NEW u \in T PROVE u <= s[n]
    BY <1>1, <1>4
  <2>1. PICK i \in 1 .. n : s[i] = u
    BY <1>1
  <2>2. i = n \/ i < n
    BY <1>1
  <2>3. s[n] \in Nat /\ s[i] \in Nat
    BY <1>1, <1>3, <1>4
  <2> QED
    BY <2>1, <2>2, <2>3, <1>2, <1>4
<1>7. Min(T) \in T /\ \A u \in T : Min(T) <= u
  BY <1>5 DEF Min
<1>8. Max(T) \in T /\ \A u \in T : u <= Max(T)
  <2>1. \A u \in T : s[n] >= u
    BY <1>3, <1>6
  <2>2. Max(T) \in T /\ \A u \in T : Max(T) >= u
    BY <1>6, <2>1 DEF Max
  <2> QED
    BY <1>3, <2>2
<1> QED
  BY <1>7, <1>8

(* There is one least and one greatest. *)
LEMMA LeastIs ==
    ASSUME NEW T, T \subseteq Nat, NEW m \in T, \A u \in T : m <= u
    PROVE  Min(T) = m
<1>1. \A u \in T : u \in Nat
  OBVIOUS
<1>2. \A x \in T : (\A u \in T : x <= u) => x = m
  BY <1>1
<1> QED
  BY <1>2 DEF Min

LEMMA GreatestIs ==
    ASSUME NEW T, T \subseteq Nat, NEW m \in T, \A u \in T : u <= m
    PROVE  Max(T) = m
<1>1. \A u \in T : u \in Nat /\ m >= u
  OBVIOUS
<1>2. \A x \in T : (\A u \in T : x >= u) => x = m
  BY <1>1
<1> QED
  BY <1>1, <1>2 DEF Max

Charted(s) ==
    DOMAIN s \subseteq Nat /\ IsFiniteSet(DOMAIN s) /\ \A u \in DOMAIN s : s[u] \in Prices
Extends(r, s, t) ==
    /\ t \in Nat /\ DOMAIN r = DOMAIN s \union {t}
    /\ \A u \in DOMAIN s : r[u] = s[u] /\ u < t
Inside(s, frame, k) == {t \in DOMAIN s : Bucket(t, frame) = k}
Buckets(s, frame) == {Bucket(t, frame) : t \in DOMAIN s}
BarOf(s, frame, k) ==
    [time |-> k, open |-> s[Min(Inside(s, frame, k))],
     high |-> Max({s[t] : t \in Inside(s, frame, k)}),
     low |-> Min({s[t] : t \in Inside(s, frame, k)}),
     close |-> s[Max(Inside(s, frame, k))], volume |-> Cardinality(Inside(s, frame, k))]

LEMMA ImageFinite ==
    ASSUME NEW T, IsFiniteSet(T), NEW f \in [T -> Nat]
    PROVE  IsFiniteSet({f[x] : x \in T}) /\ {f[x] : x \in T} \subseteq Nat
<1> DEFINE R == {f[x] : x \in T}
<1>1. R \subseteq Nat
  OBVIOUS
<1>2. f \in [T -> R]
  OBVIOUS
<1>3. \A y \in R : \E x \in T : f[x] = y
  OBVIOUS
<1>4. f \in Surjection(T, R)
  BY <1>2, <1>3 DEF Surjection
<1>5. IsFiniteSet(R)
  BY <1>4, FS_Surjection
<1> QED
  BY <1>1, <1>5

LEMMA RolledUpIs ==
    ASSUME NEW s, Charted(s), NEW frame \in Nat \ {0}
    PROVE  /\ Buckets(s, frame) \subseteq Nat /\ IsFiniteSet(Buckets(s, frame))
           /\ Cardinality(Buckets(s, frame)) \in Nat
           /\ RolledUp(s, frame) = [n \in 1 .. Cardinality(Buckets(s, frame)) |->
                                      BarOf(s, frame, InOrder(Buckets(s, frame))[n])]
<1>1. \A t \in DOMAIN s : Bucket(t, frame) \in Nat
  BY BucketMonotonic DEF Charted
<1>2. Buckets(s, frame) \subseteq Nat /\ IsFiniteSet(Buckets(s, frame))
  <2> DEFINE T == DOMAIN s
             f == [t \in T |-> Bucket(t, frame)]
             R == {f[t] : t \in T}
  <2>1. f \in [T -> Nat] /\ IsFiniteSet(T)
    BY <1>1 DEF Charted
  <2>2. R = Buckets(s, frame)
    BY DEF Buckets
  <2> HIDE DEF f, T
  <2>3. IsFiniteSet(R) /\ R \subseteq Nat
    BY <2>1, ImageFinite
  <2> QED
    BY <2>2, <2>3
<1>3. DOMAIN InOrder(Buckets(s, frame)) = 1 .. Cardinality(Buckets(s, frame))
  BY DEF InOrder
<1>4. RolledUp(s, frame) = [n \in DOMAIN InOrder(Buckets(s, frame)) |->
                              BarOf(s, frame, InOrder(Buckets(s, frame))[n])]
  BY Zenon DEF RolledUp, BarOf, Inside, Buckets
<1> QED
  BY <1>2, <1>3, <1>4, FS_CardinalityType, Zenon

(* A bucket that has bars; and one that the new bar is not in.             *)
LEMMA InsideFacts ==
    ASSUME NEW s, Charted(s), NEW frame \in Nat \ {0}, NEW k \in Buckets(s, frame)
    PROVE  LET T == Inside(s, frame, k)
               P == {s[t] : t \in T}
           IN  /\ T \subseteq Nat /\ IsFiniteSet(T) /\ T # {} /\ T \subseteq DOMAIN s
               /\ P \subseteq Nat /\ IsFiniteSet(P) /\ P # {} /\ P \subseteq Prices
<1> DEFINE T == Inside(s, frame, k)
           P == {s[t] : t \in T}
<1>1. T \subseteq DOMAIN s /\ T \subseteq Nat /\ T # {}
  BY DEF Inside, Buckets, Charted
<1>2. IsFiniteSet(T)
  BY <1>1, FS_Subset DEF Charted
<1>3. P \subseteq Prices /\ P # {} /\ P \subseteq Nat
  BY <1>1, SimulationAssumption DEF Charted
<1>4. IsFiniteSet(P)
  <2> DEFINE f == [t \in T |-> s[t]]
             R == {f[t] : t \in T}
  <2>1. f \in [T -> Nat]
    BY <1>3
  <2>2. R = P
    OBVIOUS
  <2> HIDE DEF f, T, P
  <2>3. IsFiniteSet(R)
    BY <1>2, <2>1, ImageFinite
  <2> QED
    BY <2>2, <2>3
<1> QED
  BY <1>1, <1>2, <1>3, <1>4

LEMMA BarStays ==
    ASSUME NEW s, Charted(s), NEW frame \in Nat \ {0}, NEW r, NEW t, Extends(r, s, t),
           NEW k \in Buckets(s, frame), k # Bucket(t, frame)
    PROVE  BarOf(r, frame, k) = BarOf(s, frame, k)
<1> DEFINE T == Inside(s, frame, k)
<1>1. Inside(r, frame, k) = T
  BY DEF Inside, Extends
<1>2. T \subseteq Nat /\ IsFiniteSet(T) /\ T # {} /\ T \subseteq DOMAIN s
  BY InsideFacts
<1>3. Min(T) \in DOMAIN s /\ Max(T) \in DOMAIN s
  BY <1>2, LeastAndGreatest
<1>4. r[Min(T)] = s[Min(T)] /\ r[Max(T)] = s[Max(T)]
  BY <1>3 DEF Extends
<1>5. {r[u] : u \in T} = {s[u] : u \in T}
  BY <1>2 DEF Extends
<1> QED
  BY <1>1, <1>4, <1>5, Zenon DEF BarOf

LEMMA BarBegins ==
    ASSUME NEW s, Charted(s), NEW frame \in Nat \ {0}, NEW r, NEW t, Extends(r, s, t),
           Bucket(t, frame) \notin Buckets(s, frame), r[t] \in Nat
    PROVE  BarOf(r, frame, Bucket(t, frame)) = Began(t, r[t], frame)
<1> DEFINE k == Bucket(t, frame)
<1>1. Inside(r, frame, k) = {t}
  BY DEF Inside, Extends, Buckets
<1>2. t \in Nat
  BY DEF Extends
<1>3. Min({t}) = t /\ Max({t}) = t
  BY <1>2, LeastIs, GreatestIs
<1>4. {r[u] : u \in {t}} = {r[t]}
  OBVIOUS
<1>5. Min({r[t]}) = r[t] /\ Max({r[t]}) = r[t]
  <2> DEFINE p == r[t]
  <2>1. p \in Nat
    OBVIOUS
  <2> HIDE DEF p
  <2>2. Min({p}) = p /\ Max({p}) = p
    BY <2>1, LeastIs, GreatestIs
  <2> QED
    BY <2>2 DEF p
<1>6. Cardinality({t}) = 1
  BY FS_Singleton
<1> QED
  BY <1>1, <1>3, <1>4, <1>5, <1>6, Zenon DEF BarOf, Began

LEMMA BarJoins ==
    ASSUME NEW s, Charted(s), NEW frame \in Nat \ {0}, NEW r, NEW t, Extends(r, s, t),
           Bucket(t, frame) \in Buckets(s, frame), r[t] \in Nat
    PROVE  BarOf(r, frame, Bucket(t, frame)) = Joined(BarOf(s, frame, Bucket(t, frame)), r[t])
<1> DEFINE k == Bucket(t, frame)
           T == Inside(s, frame, k)
           U == T \union {t}
           P == {s[u] : u \in T}
           p == r[t]
           Q == P \union {p}
<1>1. Inside(r, frame, k) = U
  BY DEF Inside, Extends
<1>2. /\ T \subseteq Nat /\ IsFiniteSet(T) /\ T # {} /\ T \subseteq DOMAIN s
      /\ P \subseteq Nat /\ IsFiniteSet(P) /\ P # {}
  BY InsideFacts
<1>3. t \in Nat /\ p \in Nat /\ \A u \in T : u < t /\ u \in Nat
  BY <1>2 DEF Extends
<1>4. {r[u] : u \in U} = Q
  BY <1>2 DEF Extends
<1>5. /\ Min(T) \in T /\ \A u \in T : Min(T) <= u
  BY <1>2, LeastAndGreatest
<1>6. /\ Min(P) \in P /\ \A u \in P : Min(P) <= u
      /\ Max(P) \in P /\ \A u \in P : u <= Max(P)
  <2> HIDE DEF P
  <2> QED
    BY <1>2, LeastAndGreatest
<1>6a. r[Min(T)] = s[Min(T)]
  BY <1>2, <1>5 DEF Extends
<1> HIDE DEF T, P, p, k
<1>7. Min(U) = Min(T)
  <2> DEFINE m == Min(T)
  <2>0. m \in T /\ \A u \in T : m <= u
    BY <1>5
  <2> HIDE DEF m
  <2>1. m \in U /\ U \subseteq Nat /\ \A u \in U : m <= u
    BY <1>2, <1>3, <2>0
  <2> HIDE DEF U
  <2>2. Min(U) = m
    BY <2>1, LeastIs
  <2> QED
    BY <2>2 DEF m
<1>8. Max(U) = t
  <2>1. t \in U /\ U \subseteq Nat /\ \A u \in U : u <= t
    BY <1>2, <1>3
  <2> HIDE DEF U
  <2> QED
    BY <2>1, GreatestIs
<1>9. Cardinality(U) = Cardinality(T) + 1
  <2>1. t \notin T
    BY <1>3
  <2> QED
    BY <1>2, <2>1, FS_AddElement
<1>10. Min(Q) = IF p < Min(P) THEN p ELSE Min(P)
  <2> DEFINE m == IF p < Min(P) THEN p ELSE Min(P)
  <2>1. Min(P) \in Nat /\ \A u \in P : u \in Nat
    BY <1>2, <1>6
  <2>2. m \in Q /\ Q \subseteq Nat /\ \A u \in Q : m <= u
    BY <1>2, <1>3, <1>6, <2>1
  <2> HIDE DEF m, Q
  <2>3. Min(Q) = m
    BY <2>2, LeastIs
  <2> QED
    BY <2>3 DEF m
<1>11. Max(Q) = IF p > Max(P) THEN p ELSE Max(P)
  <2> DEFINE m == IF p > Max(P) THEN p ELSE Max(P)
  <2>1. Max(P) \in Nat /\ \A u \in P : u \in Nat
    BY <1>2, <1>6
  <2>2. m \in Q /\ Q \subseteq Nat /\ \A u \in Q : u <= m
    BY <1>2, <1>3, <1>6, <2>1
  <2> HIDE DEF m, Q
  <2>3. Max(Q) = m
    BY <2>2, GreatestIs
  <2> QED
    BY <2>3 DEF m
<1> HIDE DEF U, Q
<1> DEFINE old == BarOf(s, frame, k)
           new == BarOf(r, frame, k)
<1>12. old = [time |-> k, open |-> s[Min(T)], high |-> Max(P), low |-> Min(P),
              close |-> s[Max(T)], volume |-> Cardinality(T)]
  BY Zenon DEF BarOf, T, P
<1>13. new = [time |-> k, open |-> s[Min(T)], high |-> Max(Q), low |-> Min(Q),
              close |-> p, volume |-> Cardinality(T) + 1]
  <2>1. new = [time |-> k, open |-> r[Min(U)], high |-> Max({r[u] : u \in U}),
               low |-> Min({r[u] : u \in U}), close |-> r[Max(U)], volume |-> Cardinality(U)]
    <3> USE DEF k
    <3> QED
    BY <1>1, Zenon DEF BarOf
  <2> QED
    BY <1>4, <1>6a, <1>7, <1>8, <1>9, <2>1, Zenon DEF p
<1>14. new = Joined(old, p)
  <2> DEFINE open == s[Min(T)]
             close == s[Max(T)]
             high == Max(P)
             low == Min(P)
             more == Max(Q)
             less == Min(Q)
             n == Cardinality(T)
  <2>1. old = [time |-> k, open |-> open, high |-> high, low |-> low, close |-> close, volume |-> n]
    BY <1>12
  <2>2. new = [time |-> k, open |-> open, high |-> more, low |-> less, close |-> p, volume |-> n + 1]
    BY <1>13
  <2>3. more = (IF p > high THEN p ELSE high) /\ less = (IF p < low THEN p ELSE low)
    BY <1>10, <1>11
  <2> HIDE DEF old, new, open, close, high, low, more, less, n
  <2>4. old.high = high /\ old.low = low /\ old.volume = n
    BY <2>1
  <2>5. Joined(old, p) = [old EXCEPT !.high = more, !.low = less, !.close = p, !.volume = n + 1]
    BY <2>3, <2>4 DEF Joined
  <2> QED
    BY <2>1, <2>2, <2>5
<1> QED
  BY <1>14 DEF k, p, old, new


LEMMA BarType ==
    ASSUME NEW s, Charted(s), NEW frame \in Nat \ {0}, NEW k \in Buckets(s, frame)
    PROVE  BarOf(s, frame, k) \in Bars /\ BarOf(s, frame, k).time = k
<1> DEFINE T == Inside(s, frame, k)
           P == {s[t] : t \in T}
           open == s[Min(T)]
           close == s[Max(T)]
           high == Max(P)
           low == Min(P)
           n == Cardinality(T)
<1>1. /\ T \subseteq Nat /\ IsFiniteSet(T) /\ T # {} /\ T \subseteq DOMAIN s
      /\ P \subseteq Nat /\ IsFiniteSet(P) /\ P # {} /\ P \subseteq Prices
  BY InsideFacts
<1>2. BarOf(s, frame, k) = [time |-> k, open |-> open, high |-> high, low |-> low,
                            close |-> close, volume |-> n]
  BY Zenon DEF BarOf
<1>3. k \in Nat
  BY RolledUpIs
<1>4. Min(T) \in DOMAIN s /\ Max(T) \in DOMAIN s
  BY <1>1, LeastAndGreatest
<1>5. open \in Prices /\ close \in Prices
  BY <1>4 DEF Charted
<1>6. high \in Prices /\ low \in Prices
  <2> HIDE DEF P
  <2> QED
    BY <1>1, LeastAndGreatest
<1>7. n \in Nat \ {0}
  BY <1>1, FS_CardinalityType, FS_EmptySet
<1> HIDE DEF open, close, high, low, n
<1> QED
  BY <1>2, <1>3, <1>5, <1>6, <1>7 DEF Bars

LEMMA AppendIs ==
    ASSUME NEW S, NEW f \in Seq(S), NEW n \in Nat, Len(f) = n, NEW e \in S,
           NEW g, g = [i \in 1 .. n + 1 |-> IF i = n + 1 THEN e ELSE f[i]]
    PROVE  g = Append(f, e)
<1>1. f \in Seq(S) /\ Len(f) = n
  OBVIOUS
<1>2. g \in Seq(S) /\ Len(g) = n + 1
  OBVIOUS
<1>3. /\ Append(f, e) \in Seq(S) /\ Len(Append(f, e)) = n + 1
      /\ \A i \in 1 .. n : Append(f, e)[i] = f[i]
      /\ Append(f, e)[n + 1] = e
  BY <1>1, AppendProperties
<1>4. \A i \in 1 .. Len(g) : g[i] = Append(f, e)[i]
  BY <1>2, <1>3
<1> QED
  BY <1>1, <1>2, <1>3, <1>4, SeqEqual

LEMMA RolledUpType ==
    ASSUME NEW s, Charted(s), NEW frame \in Nat \ {0}
    PROVE  /\ RolledUp(s, frame) \in Seq(Bars)
           /\ Len(RolledUp(s, frame)) = Cardinality(Buckets(s, frame))
           /\ \A n \in 1 .. Cardinality(Buckets(s, frame)) :
                /\ InOrder(Buckets(s, frame))[n] \in Buckets(s, frame)
                /\ RolledUp(s, frame)[n] = BarOf(s, frame, InOrder(Buckets(s, frame))[n])
<1> DEFINE B == Buckets(s, frame)
           m == Cardinality(B)
           f == [n \in 1 .. m |-> BarOf(s, frame, InOrder(B)[n])]
<1>1. /\ B \subseteq Nat /\ IsFiniteSet(B) /\ m \in Nat /\ RolledUp(s, frame) = f
  BY RolledUpIs
<1>2. \A n \in 1 .. m : InOrder(B)[n] \in B
  <2> HIDE DEF B
  <2> QED
    BY <1>1, InOrderFacts
<1>3. \A n \in 1 .. m : BarOf(s, frame, InOrder(B)[n]) \in Bars
  BY <1>2, BarType
<1>4. f \in Seq(Bars) /\ Len(f) = m /\ \A n \in 1 .. m : f[n] = BarOf(s, frame, InOrder(B)[n])
  <2> HIDE DEF B, m
  <2> QED
    BY <1>1, <1>3
<1> QED
  BY <1>1, <1>2, <1>4

(* One more raw bar, later than all before: it begins a bar, or joins the  *)
(* last.                                                                   *)
LEMMA RollsOn ==
    ASSUME NEW s, Charted(s), NEW frame \in Nat \ {0}, NEW r, Charted(r),
           NEW t, Extends(r, s, t), \A k \in Buckets(s, frame) : k < Bucket(t, frame)
    PROVE  RolledUp(r, frame) = Append(RolledUp(s, frame), Began(t, r[t], frame))
<1> DEFINE B == Buckets(s, frame)
           C == Buckets(r, frame)
           m == Cardinality(B)
           b == Bucket(t, frame)
           f == RolledUp(s, frame)
           g == RolledUp(r, frame)
           e == Began(t, r[t], frame)
<1>1. /\ B \subseteq Nat /\ IsFiniteSet(B) /\ m \in Nat
      /\ f = [n \in 1 .. m |-> BarOf(s, frame, InOrder(B)[n])]
  BY RolledUpIs
<1>2. g = [n \in 1 .. Cardinality(C) |-> BarOf(r, frame, InOrder(C)[n])]
  BY RolledUpIs
<1>3. C = B \union {b}
  BY DEF Buckets, Extends
<1>4. b \in Nat /\ b \in C /\ r[t] \in Nat
  <2>1. t \in DOMAIN r /\ t \in Nat
    BY DEF Extends
  <2>2. r[t] \in Nat
    BY <2>1, SimulationAssumption DEF Charted
  <2> QED
    BY <2>1, <2>2, <1>3, BucketMonotonic
<1>5. \A k \in B : k < b
  OBVIOUS
<1>6. b \notin B
  BY <1>4, <1>5
<1>7. e = BarOf(r, frame, b) /\ e \in Bars
  <2>1. e = BarOf(r, frame, b)
    BY <1>4, <1>6, BarBegins
  <2> QED
    BY <1>4, <2>1, BarType
<1>8. \A n \in 1 .. m : InOrder(B)[n] \in B /\ f[n] = BarOf(s, frame, InOrder(B)[n])
  BY RolledUpType
<1>9. f \in Seq(Bars) /\ Len(f) = m
  BY RolledUpType
<1>10. \A k \in B : BarOf(r, frame, k) = BarOf(s, frame, k)
  BY <1>6, BarStays
<1> HIDE DEF B, b
<1>11. Cardinality(C) = m + 1 /\ InOrder(C) = Append(InOrder(B), b)
  BY <1>1, <1>3, <1>4, <1>5, InOrderGrows
<1>12. /\ \A n \in 1 .. m : InOrder(C)[n] = InOrder(B)[n]
       /\ InOrder(C)[m + 1] = b
  <2> DEFINE o == InOrder(B)
  <2>1. o \in Seq(Nat) /\ Len(o) = m
    <3>1. o \in Seq(B) /\ Len(o) = m
      BY <1>1, InOrderFacts
    <3> QED
      BY <1>1, <3>1, SeqMonotonic
  <2> HIDE DEF o
  <2>2. /\ \A n \in 1 .. Len(o) : Append(o, b)[n] = o[n]
        /\ Append(o, b)[Len(o) + 1] = b
    BY <2>1, <1>4
  <2> QED
    BY <2>1, <2>2, <1>11 DEF o
<1>13. \A n \in 1 .. m + 1 : BarOf(r, frame, InOrder(C)[n]) = IF n = m + 1 THEN e ELSE f[n]
  <2> SUFFICES ASSUME NEW n \in 1 .. m + 1
               PROVE  BarOf(r, frame, InOrder(C)[n]) = IF n = m + 1 THEN e ELSE f[n]
    OBVIOUS
  <2>1. CASE n = m + 1
    BY <2>1, <1>7, <1>12
  <2>2. CASE n # m + 1
    <3>1. n \in 1 .. m
      BY <2>2, <1>1
    <3>2. InOrder(B)[n] \in B /\ f[n] = BarOf(s, frame, InOrder(B)[n])
      BY <1>8, <3>1
    <3>3. BarOf(r, frame, InOrder(C)[n]) = f[n]
      BY <3>1, <3>2, <1>10, <1>12
    <3> QED
      BY <2>2, <3>3
  <2> QED
    BY <2>1, <2>2
<1> HIDE DEF m, C, e, f, g
<1>14. g = [n \in 1 .. m + 1 |-> IF n = m + 1 THEN e ELSE f[n]]
  BY <1>2, <1>11, <1>13
<1>15. g = Append(f, e)
  <2>1. m \in Nat /\ f \in Seq(Bars) /\ Len(f) = m /\ e \in Bars
    BY <1>1, <1>7, <1>9
  <2> QED
    BY <2>1, <1>14, AppendIs
<1> QED
  BY <1>15 DEF f, g, e

LEMMA RollsIn ==
    ASSUME NEW s, Charted(s), NEW frame \in Nat \ {0}, NEW r, Charted(r),
           NEW t, Extends(r, s, t), Bucket(t, frame) \in Buckets(s, frame),
           \A k \in Buckets(s, frame) : k <= Bucket(t, frame),
           NEW done \in Seq(Bars), NEW last \in Bars, RolledUp(s, frame) = Append(done, last)
    PROVE  /\ last.time = Bucket(t, frame)
           /\ RolledUp(r, frame) = Append(done, Joined(last, r[t]))
<1> DEFINE B == Buckets(s, frame)
           m == Cardinality(B)
           b == Bucket(t, frame)
           o == InOrder(B)
           f == RolledUp(s, frame)
           g == RolledUp(r, frame)
           e == Joined(last, r[t])
<1>1. B \subseteq Nat /\ IsFiniteSet(B) /\ m \in Nat
  BY RolledUpIs
<1>2. /\ f \in Seq(Bars) /\ Len(f) = m
      /\ \A n \in 1 .. m : o[n] \in B /\ f[n] = BarOf(s, frame, o[n])
  BY RolledUpType
<1>3. Buckets(r, frame) = B
  BY DEF Buckets, Extends
<1>4. /\ g \in Seq(Bars) /\ Len(g) = m
      /\ \A n \in 1 .. m : g[n] = BarOf(r, frame, o[n])
  <2>1. /\ g \in Seq(Bars) /\ Len(g) = Cardinality(Buckets(r, frame))
        /\ \A n \in 1 .. Cardinality(Buckets(r, frame)) :
             g[n] = BarOf(r, frame, InOrder(Buckets(r, frame))[n])
    BY RolledUpType
  <2> HIDE DEF g, B
  <2> QED
    BY <1>3, <2>1
<1>5. r[t] \in Nat
  <2>1. t \in DOMAIN r
    BY DEF Extends
  <2> QED
    BY <2>1, SimulationAssumption DEF Charted
<1>6. \A k \in B : k # b => BarOf(r, frame, k) = BarOf(s, frame, k)
  BY BarStays
<1>7. BarOf(r, frame, b) = Joined(BarOf(s, frame, b), r[t])
  BY <1>5, BarJoins
<1>8. b \in B /\ \A k \in B : k <= b
  OBVIOUS
<1>9. BarOf(s, frame, b).time = b /\ BarOf(r, frame, b) \in Bars
  BY <1>3, <1>8, BarType
<1>10. /\ m = Len(done) + 1 /\ Len(done) \in Nat
       /\ \A n \in 1 .. Len(done) : f[n] = done[n]
       /\ f[m] = last
  <2>1. f = Append(done, last)
    OBVIOUS
  <2>2. /\ Len(Append(done, last)) = Len(done) + 1 /\ Len(done) \in Nat
        /\ \A n \in 1 .. Len(done) : Append(done, last)[n] = done[n]
        /\ Append(done, last)[Len(done) + 1] = last
    BY AppendProperties
  <2> HIDE DEF f
  <2>3. m = Len(done) + 1
    BY <1>2, <2>1, <2>2
  <2> QED
    BY <2>1, <2>2, <2>3
<1>11. \A i, j \in 1 .. m : i < j => o[i] < o[j]
  <2> SUFFICES ASSUME NEW i \in 1 .. m, NEW j \in 1 .. m, i < j PROVE o[i] < o[j]
    OBVIOUS
  <2> HIDE DEF B
  <2> QED
    BY <1>1, InOrderRises
<1>12. \E i \in 1 .. m : o[i] = b
  <2> HIDE DEF B, b
  <2> QED
    BY <1>1, <1>8, InOrderFacts
<1> HIDE DEF B, m, b, o, f, g
<1>13. o[m] = b
  <2>1. PICK i \in 1 .. m : o[i] = b
    BY <1>12
  <2>2. m \in 1 .. m /\ o[m] \in B /\ o[m] \in Nat /\ b \in Nat /\ o[m] <= b
    <3>1. m \in 1 .. m
      BY <1>1, <2>1
    <3>2. o[m] \in B
      BY <1>2, <3>1
    <3>3. \A k \in B : k \in Nat
      BY <1>1
    <3> QED
      BY <1>8, <3>1, <3>2, <3>3
  <2>3. ~(i < m)
    BY <2>1, <2>2, <1>11
  <2>4. i = m
    BY <2>1, <2>3, <1>1
  <2> QED
    BY <2>1, <2>4
<1>14. \A n \in 1 .. Len(done) : n \in 1 .. m /\ n < m /\ o[n] # b
  <2> SUFFICES ASSUME NEW n \in 1 .. Len(done) PROVE n \in 1 .. m /\ n < m /\ o[n] # b
    OBVIOUS
  <2>1. n \in 1 .. m /\ n < m /\ m \in 1 .. m
    BY <1>10
  <2>2. o[n] < o[m] /\ o[n] \in Nat /\ o[m] \in Nat
    BY <2>1, <1>1, <1>2, <1>11
  <2> QED
    BY <2>1, <2>2, <1>13
<1>15. m \in 1 .. m /\ last = BarOf(s, frame, b) /\ g[m] = e /\ e \in Bars
  <2>1. m \in 1 .. m
    BY <1>10
  <2>2. last = BarOf(s, frame, b) /\ g[m] = BarOf(r, frame, b)
    BY <2>1, <1>2, <1>4, <1>10, <1>13
  <2> QED
    BY <2>1, <2>2, <1>7, <1>9
<1>16. \A n \in 1 .. Len(done) : g[n] = done[n]
  BY <1>2, <1>4, <1>6, <1>10, <1>14
<1> HIDE DEF e
<1>17. g = Append(done, e)
  <2>1. /\ Append(done, e) \in Seq(Bars) /\ Len(Append(done, e)) = Len(done) + 1
        /\ \A n \in 1 .. Len(done) : Append(done, e)[n] = done[n]
        /\ Append(done, e)[Len(done) + 1] = e
    BY <1>15, AppendProperties
  <2>2. \A n \in 1 .. Len(g) : g[n] = Append(done, e)[n]
    <3> SUFFICES ASSUME NEW n \in 1 .. m PROVE g[n] = Append(done, e)[n]
      BY <1>4
    <3>1. CASE n \in 1 .. Len(done)
      BY <3>1, <1>16, <2>1
    <3>2. CASE n = m
      BY <3>2, <1>10, <1>15, <2>1
    <3> QED
      BY <3>1, <3>2, <1>10
  <2> QED
    BY <1>4, <1>10, <2>1, <2>2, SeqEqual
<1>18. last.time = b
  BY <1>9, <1>15
<1> QED
  BY <1>17, <1>18 DEF g, e, b


-----------------------------------------------------------------------------
(* The bars as they are made, one raw bar after the other.                 *)

Making == [done: Seq(Bars), last: Bars \union {NoBar}]
NoneMade == [done |-> <<>>, last |-> NoBar]
NextMade(acc, t, price, frame) ==
    [done |-> IF acc.last # NoBar /\ Begins(acc.last, t, frame)
              THEN Append(acc.done, acc.last) ELSE acc.done,
     last |-> Grown(acc.last, t, price, frame)]
IsMade(raw, frame, f) ==
    f = [n \in 0 .. Len(InOrder(DOMAIN raw)) |->
           IF n = 0 THEN NoneMade
           ELSE NextMade(f[n - 1], InOrder(DOMAIN raw)[n], raw[InOrder(DOMAIN raw)[n]], frame)]
Made(raw, frame) == CHOOSE f : IsMade(raw, frame, f)
Shown(done, last) == IF last = NoBar THEN done ELSE Append(done, last)

LEMMA GrownType ==
    ASSUME NEW last \in Bars \union {NoBar}, NEW t \in Nat, NEW price \in Prices,
           NEW frame \in Nat \ {0}
    PROVE  Grown(last, t, price, frame) \in Bars
<1>1. CASE Begins(last, t, frame)
  <2>1. Bucket(t, frame) \in Nat
    BY BucketMonotonic
  <2> QED
    BY <1>1, <2>1 DEF Grown, Began, Bars
<1>2. CASE ~Begins(last, t, frame)
  <2>1. last \in Bars
    BY <1>2 DEF Begins
  <2> DEFINE high == IF price > last.high THEN price ELSE last.high
             low == IF price < last.low THEN price ELSE last.low
  <2>2. high \in Prices /\ low \in Prices /\ last.volume + 1 \in Nat \ {0}
    BY <2>1 DEF Bars
  <2>3. Grown(last, t, price, frame)
          = [last EXCEPT !.high = high, !.low = low, !.close = price, !.volume = last.volume + 1]
    BY <1>2 DEF Grown, Joined
  <2> HIDE DEF high, low
  <2> QED
    BY <2>1, <2>2, <2>3 DEF Bars
<1> QED
  BY <1>1, <1>2

LEMMA NextMadeType ==
    ASSUME NEW acc \in Making, NEW t \in Nat, NEW price \in Prices, NEW frame \in Nat \ {0}
    PROVE  NextMade(acc, t, price, frame) \in Making
<1>1. acc.last \in Bars \union {NoBar} /\ acc.done \in Seq(Bars)
  BY DEF Making
<1> DEFINE done == IF acc.last # NoBar /\ Begins(acc.last, t, frame)
                   THEN Append(acc.done, acc.last) ELSE acc.done
           last == Grown(acc.last, t, price, frame)
<1>2. done \in Seq(Bars)
  BY <1>1
<1>3. last \in Bars
  BY <1>1, GrownType
<1>4. NextMade(acc, t, price, frame) = [done |-> done, last |-> last]
  BY DEF NextMade
<1> HIDE DEF done, last
<1> QED
  BY <1>2, <1>3, <1>4 DEF Making

LEMMA MadeFacts ==
    ASSUME NEW raw, Charted(raw), NEW frame \in Nat \ {0}
    PROVE  LET ts == InOrder(DOMAIN raw)
               N == Cardinality(DOMAIN raw)
               F == Made(raw, frame)
           IN  /\ N \in Nat /\ F[0] = NoneMade
               /\ \A n \in 1 .. N : F[n] = NextMade(F[n - 1], ts[n], raw[ts[n]], frame)
               /\ \A n \in 0 .. N : F[n] \in Making
               /\ AllTfBars(raw, frame) = IF N = 0 THEN <<>> ELSE Append(F[N].done, F[N].last)
<1> DEFINE ts == InOrder(DOMAIN raw)
           N == Cardinality(DOMAIN raw)
           F == Made(raw, frame)
           step == [n \in 1 .. N |-> [x \in Making |-> NextMade(x, ts[n], raw[ts[n]], frame)]]
<1>1. /\ N \in Nat /\ Len(ts) = N /\ (ts = <<>> <=> N = 0)
      /\ \A n \in 1 .. N : ts[n] \in Nat /\ raw[ts[n]] \in Prices
  <2> DEFINE D == DOMAIN raw
  <2>1. D \subseteq Nat /\ IsFiniteSet(D) /\ \A u \in D : raw[u] \in Prices
    BY DEF Charted
  <2> HIDE DEF D
  <2>2. /\ InOrder(D) \in Seq(D) /\ Len(InOrder(D)) = Cardinality(D) /\ Cardinality(D) \in Nat
        /\ \A i \in 1 .. Cardinality(D) : InOrder(D)[i] \in D
    BY <2>1, InOrderFacts
  <2>3. InOrder(D) = <<>> <=> Cardinality(D) = 0
    <3> DEFINE o == InOrder(D)
    <3>1. o \in Seq(D) /\ Len(o) = Cardinality(D)
      BY <2>2
    <3> HIDE DEF o
    <3>2. o = <<>> <=> Len(o) = 0
      BY <3>1
    <3> QED
      BY <3>1, <3>2 DEF o
  <2>4. \A i \in 1 .. Cardinality(D) : InOrder(D)[i] \in Nat /\ raw[InOrder(D)[i]] \in Prices
    BY <2>1, <2>2
  <2> QED
    BY <2>2, <2>3, <2>4 DEF D
<1> HIDE DEF ts, N
<1>2. step \in Steps(Making, N)
  BY <1>1, NextMadeType DEF Steps
<1>3. \A n \in 1 .. N, x \in Making : step[n][x] = NextMade(x, ts[n], raw[ts[n]], frame)
  OBVIOUS
<1> HIDE DEF step
<1>4. PICK f : Follows(f, Making, N, NoneMade, step)
  <2>1. NoneMade \in Making
    BY DEF NoneMade, Making
  <2> QED
    BY <1>1, <1>2, <2>1, Recursion
<1>5. \A n \in 0 .. N : f[n] = IF n = 0 THEN NoneMade
                               ELSE NextMade(f[n - 1], ts[n], raw[ts[n]], frame)
  <2> SUFFICES ASSUME NEW n \in 0 .. N, n # 0
               PROVE  f[n] = NextMade(f[n - 1], ts[n], raw[ts[n]], frame)
    BY <1>4 DEF Follows
  <2>1. n \in 1 .. N /\ n - 1 \in 0 .. N
    BY <1>1
  <2>2. f[n - 1] \in Making
    BY <2>1, <1>4 DEF Follows
  <2> QED
    BY <2>1, <2>2, <1>3, <1>4 DEF Follows
<1>6. f = [n \in 0 .. N |-> f[n]]
  BY <1>4 DEF Follows
<1>7. f = [n \in 0 .. N |-> IF n = 0 THEN NoneMade
                            ELSE NextMade(f[n - 1], ts[n], raw[ts[n]], frame)]
  BY <1>5, <1>6
<1>8. IsMade(raw, frame, f)
  BY <1>1, <1>7 DEF IsMade, ts
<1>9. IsMade(raw, frame, F)
  BY <1>8 DEF Made
<1> HIDE DEF F
<1>10. F = [n \in 0 .. N |-> IF n = 0 THEN NoneMade
                             ELSE NextMade(F[n - 1], ts[n], raw[ts[n]], frame)]
  <2>1. Len(InOrder(DOMAIN raw)) = N
    BY <1>1 DEF ts
  <2> QED
    BY <1>9, <2>1, Zenon DEF IsMade, ts
<1>11. /\ F[0] = NoneMade
       /\ \A n \in 1 .. N : F[n] = NextMade(F[n - 1], ts[n], raw[ts[n]], frame)
  <2>1. \A n \in 0 .. N : F[n] = IF n = 0 THEN NoneMade
                                 ELSE NextMade(F[n - 1], ts[n], raw[ts[n]], frame)
    BY <1>10, Zenon
  <2>2. 0 \in 0 .. N /\ \A n \in 1 .. N : n \in 0 .. N /\ n # 0
    BY <1>1
  <2> QED
    BY <2>1, <2>2, Zenon
<1> DEFINE S == {n \in Nat : n <= N => F[n] \in Making}
<1>12. 0 \in S
  <2>1. NoneMade \in Making
    BY DEF NoneMade, Making
  <2>2. F[0] \in Making
    BY <1>11, <2>1
  <2> QED
    BY <2>2
<1>13. ASSUME NEW n \in Nat, n \in S PROVE n + 1 \in S
  <2> SUFFICES ASSUME n + 1 <= N PROVE F[n + 1] \in Making
    OBVIOUS
  <2>1. n + 1 \in 1 .. N /\ (n + 1) - 1 = n /\ F[n] \in Making
    BY <1>1, <1>13
  <2>2. F[n + 1] = NextMade(F[n], ts[n + 1], raw[ts[n + 1]], frame)
    BY <1>11, <2>1
  <2> QED
    BY <1>1, <2>1, <2>2, NextMadeType
<1> HIDE DEF S
<1>14. Nat \subseteq S
  BY <1>12, <1>13, Induction
<1>15. \A n \in 0 .. N : F[n] \in Making
  BY <1>1, <1>14 DEF S
<1>16. AllTfBars(raw, frame) = IF ts = <<>> THEN <<>> ELSE Append(F[Len(ts)].done, F[Len(ts)].last)
  BY Zenon DEF AllTfBars, Made, IsMade, NextMade, NoneMade, F, ts
<1>17. AllTfBars(raw, frame) = IF N = 0 THEN <<>> ELSE Append(F[N].done, F[N].last)
  BY <1>1, <1>16, Zenon
<1> QED
  BY <1>1, <1>11, <1>15, <1>17 DEF ts, N, F

(* What is made stays. *)
Leads(s, t) == Len(s) <= Len(t) /\ \A i \in 1 .. Len(s) : s[i] = t[i]

LEMMA LeadsOn ==
    ASSUME NEW s \in Seq(Bars)
    PROVE  /\ Leads(s, s)
           /\ \A b \in Bars : Leads(s, Append(s, b))
           /\ \A t \in Seq(Bars), u \in Seq(Bars) : Leads(s, t) /\ Leads(t, u) => Leads(s, u)
           /\ \A t \in Seq(Bars) : Leads(s, t) => IsPrefix(s, t)
<1>1. Len(s) \in Nat
  OBVIOUS
<1>2. Leads(s, s)
  BY <1>1 DEF Leads
<1>3. ASSUME NEW b \in Bars PROVE Leads(s, Append(s, b))
  BY <1>1, AppendProperties DEF Leads
<1>4. ASSUME NEW t \in Seq(Bars), NEW u \in Seq(Bars), Leads(s, t), Leads(t, u) PROVE Leads(s, u)
  <2>1. Len(t) \in Nat /\ Len(u) \in Nat
    OBVIOUS
  <2> QED
    BY <1>1, <1>4, <2>1 DEF Leads
<1>5. ASSUME NEW t \in Seq(Bars), Leads(s, t) PROVE IsPrefix(s, t)
  <2>1. Len(t) \in Nat /\ Len(s) <= Len(t) /\ \A i \in 1 .. Len(s) : s[i] = t[i]
    BY <1>5 DEF Leads
  <2>2. SubSeq(s, 1, Len(s)) = [i \in 1 .. Len(s) |-> s[i]]
    BY <1>1
  <2>3. SubSeq(t, 1, Len(s)) = [i \in 1 .. Len(s) |-> t[i]]
    BY <1>1, <2>1
  <2>4. SubSeq(s, 1, Len(s)) = SubSeq(t, 1, Len(s))
    BY <2>1, <2>2, <2>3
  <2> QED
    BY <2>1, <2>4 DEF IsPrefix
<1> QED
  BY <1>2, <1>3, <1>4, <1>5

LEMMA MadeStays ==
    ASSUME NEW raw, Charted(raw), NEW frame \in Nat \ {0},
           NEW n \in 0 .. Cardinality(DOMAIN raw)
    PROVE  IsPrefix(Made(raw, frame)[n].done, AllTfBars(raw, frame))
<1> DEFINE ts == InOrder(DOMAIN raw)
           N == Cardinality(DOMAIN raw)
           F == Made(raw, frame)
           d == F[n].done
           all == AllTfBars(raw, frame)
<1>1. /\ N \in Nat /\ F[0] = NoneMade
      /\ \A i \in 1 .. N : F[i] = NextMade(F[i - 1], ts[i], raw[ts[i]], frame)
      /\ \A i \in 0 .. N : F[i] \in Making
      /\ all = IF N = 0 THEN <<>> ELSE Append(F[N].done, F[N].last)
  BY MadeFacts
<1>2. n \in 0 .. N
  OBVIOUS
<1> HIDE DEF ts, N, F, all
<1>3. d \in Seq(Bars)
  BY <1>1, <1>2 DEF Making
<1>4. \A i \in 0 .. N - 1 : /\ F[i].done \in Seq(Bars) /\ F[i + 1].done \in Seq(Bars)
                            /\ Leads(F[i].done, F[i + 1].done)
  <2> SUFFICES ASSUME NEW i \in 0 .. N - 1
               PROVE  /\ F[i].done \in Seq(Bars) /\ F[i + 1].done \in Seq(Bars)
                      /\ Leads(F[i].done, F[i + 1].done)
    OBVIOUS
  <2>1. i \in 0 .. N /\ i + 1 \in 1 .. N /\ i + 1 \in 0 .. N /\ (i + 1) - 1 = i
    BY <1>1
  <2>2. F[i] \in Making /\ F[i + 1] \in Making
    BY <1>1, <2>1
  <2>3. F[i + 1] = NextMade(F[i], ts[i + 1], raw[ts[i + 1]], frame)
    BY <1>1, <2>1
  <2>4. F[i + 1].done = F[i].done \/ (F[i].last # NoBar /\ F[i + 1].done = Append(F[i].done, F[i].last))
    BY <2>3 DEF NextMade
  <2>5. F[i].done \in Seq(Bars) /\ F[i + 1].done \in Seq(Bars) /\ F[i].last \in Bars \union {NoBar}
    BY <2>2 DEF Making
  <2> QED
    BY <2>4, <2>5, LeadsOn
<1> DEFINE S == {m \in Nat : n + m <= N => Leads(d, F[n + m].done)}
<1>5. 0 \in S
  <2>1. Leads(d, d) /\ n + 0 = n
    BY <1>2, <1>3, LeadsOn
  <2> QED
    BY <2>1
<1>6. ASSUME NEW m \in Nat, m \in S PROVE m + 1 \in S
  <2> SUFFICES ASSUME n + (m + 1) <= N PROVE Leads(d, F[n + (m + 1)].done)
    OBVIOUS
  <2> DEFINE i == n + m
  <2>1. i \in 0 .. N - 1 /\ n + (m + 1) = i + 1
    BY <1>1, <1>2
  <2>2. Leads(d, F[i].done)
    BY <1>6, <1>1, <1>2
  <2> HIDE DEF i, d
  <2>3. Leads(d, F[i + 1].done)
    BY <1>3, <1>4, <2>1, <2>2, LeadsOn
  <2> QED
    BY <2>1, <2>3
<1> HIDE DEF S
<1>7. Nat \subseteq S
  BY <1>5, <1>6, Induction
<1>8. Leads(d, F[N].done)
  <2> DEFINE m == N - n
  <2>1. m \in Nat /\ n + m = N /\ N <= N
    BY <1>1, <1>2
  <2> HIDE DEF m, d
  <2>2. m \in S
    BY <1>7, <2>1
  <2>3. n + m <= N => Leads(d, F[n + m].done)
    BY <2>2 DEF S
  <2> QED
    BY <2>1, <2>3
<1>9. CASE N = 0
  <2>1. n = 0 /\ d = <<>> /\ all = <<>>
    BY <1>1, <1>2, <1>9 DEF NoneMade
  <2>2. IsPrefix(d, d)
    BY <1>3, LeadsOn
  <2> QED
    BY <2>1, <2>2 DEF F, all
<1>10. CASE N # 0
  <2> DEFINE end == F[N]
  <2>1. N \in 1 .. N /\ N - 1 \in 0 .. N /\ N \in 0 .. N
    BY <1>1, <1>10
  <2>2. end.done \in Seq(Bars) /\ end.last \in Bars
    <3>1. end \in Making /\ F[N - 1] \in Making
      BY <1>1, <2>1
    <3>2. end = NextMade(F[N - 1], ts[N], raw[ts[N]], frame)
      BY <1>1, <2>1
    <3>3. ts[N] \in Nat /\ raw[ts[N]] \in Prices
      <4>1. ts[N] \in DOMAIN raw
        <5> DEFINE D == DOMAIN raw
        <5>1. D \subseteq Nat /\ IsFiniteSet(D)
          BY DEF Charted
        <5> HIDE DEF D
        <5>2. \A i \in 1 .. Cardinality(D) : InOrder(D)[i] \in D
          BY <5>1, InOrderFacts
        <5> QED
          BY <5>2, <2>1 DEF D, N, ts
      <4> QED
        BY <4>1 DEF Charted
    <3>4. end.last = Grown(F[N - 1].last, ts[N], raw[ts[N]], frame)
      BY <3>2 DEF NextMade
    <3>5. F[N - 1].last \in Bars \union {NoBar}
      BY <3>1 DEF Making
    <3>6. end.last \in Bars
      BY <3>3, <3>4, <3>5, GrownType
    <3> QED
      BY <3>1, <3>6 DEF Making
  <2>3. all = Append(end.done, end.last)
    BY <1>1, <1>10
  <2> HIDE DEF end, d
  <2>4. Leads(d, end.done)
    BY <1>8 DEF end
  <2>5. Leads(end.done, all) /\ all \in Seq(Bars)
    BY <2>2, <2>3, LeadsOn
  <2>6. IsPrefix(d, all)
    BY <1>3, <2>2, <2>4, <2>5, LeadsOn
  <2> QED
    BY <2>6 DEF d, F, all
<1> QED
  BY <1>9, <1>10

LEMMA Rolls ==
    ASSUME NEW s, Charted(s), NEW frame \in Nat \ {0}, NEW r, Charted(r),
           NEW t, Extends(r, s, t),
           NEW done \in Seq(Bars), NEW last \in Bars \union {NoBar},
           last = NoBar => done = <<>>, Shown(done, last) = RolledUp(s, frame)
    PROVE  IF last # NoBar /\ Begins(last, t, frame)
           THEN Append(Append(done, last), Grown(last, t, r[t], frame)) = RolledUp(r, frame)
           ELSE Append(done, Grown(last, t, r[t], frame)) = RolledUp(r, frame)
<1> DEFINE B == Buckets(s, frame)
           m == Cardinality(B)
           b == Bucket(t, frame)
<1>1. /\ B \subseteq Nat /\ IsFiniteSet(B) /\ m \in Nat
  BY RolledUpIs
<1>2. /\ RolledUp(s, frame) \in Seq(Bars) /\ Len(RolledUp(s, frame)) = m
      /\ \A n \in 1 .. m : InOrder(B)[n] \in B /\ RolledUp(s, frame)[n] = BarOf(s, frame, InOrder(B)[n])
  BY RolledUpType
<1>3. b \in Nat /\ \A k \in B : k <= b
  <2>1. t \in Nat /\ \A u \in DOMAIN s : u \in Nat /\ u < t
    BY DEF Extends, Charted
  <2>2. \A u \in DOMAIN s : Bucket(u, frame) <= b
    BY <2>1, BucketMonotonic
  <2> QED
    BY <2>1, <2>2, BucketMonotonic DEF Buckets
<1>4. CASE last = NoBar
  <2>1. RolledUp(s, frame) = <<>> /\ done = <<>>
    BY <1>4 DEF Shown
  <2>2. m = 0
    BY <1>2, <2>1
  <2>3. B = {}
    BY <1>1, <2>2, FS_EmptySet
  <2>4. RolledUp(r, frame) = Append(RolledUp(s, frame), Began(t, r[t], frame))
    BY <2>3, RollsOn
  <2> QED
    BY <1>4, <2>1, <2>4 DEF Grown, Begins
<1>5. CASE last # NoBar
  <2>1. last \in Bars /\ RolledUp(s, frame) = Append(done, last)
    BY <1>5 DEF Shown
  <2>2. CASE b \in B
    <3>1. last.time = b /\ RolledUp(r, frame) = Append(done, Joined(last, r[t]))
      BY <1>3, <2>1, <2>2, RollsIn
    <3>2. ~Begins(last, t, frame)
      BY <1>5, <3>1 DEF Begins
    <3> QED
      BY <3>1, <3>2 DEF Grown
  <2>3. CASE b \notin B
    <3>1. \A k \in B : k < b
      BY <1>1, <1>3, <2>3
    <3>2. RolledUp(r, frame) = Append(RolledUp(s, frame), Began(t, r[t], frame))
      BY <3>1, RollsOn
    <3>3. last.time \in B
      <4>1. /\ Len(Append(done, last)) = Len(done) + 1 /\ Len(done) \in Nat
            /\ Append(done, last)[Len(done) + 1] = last
        BY <2>1, AppendProperties
      <4>2. m \in 1 .. m /\ RolledUp(s, frame)[m] = last
        BY <1>2, <2>1, <4>1
      <4>3. InOrder(B)[m] \in B /\ last = BarOf(s, frame, InOrder(B)[m])
        BY <1>2, <4>2
      <4> QED
        BY <4>3, BarType
    <3>4. Begins(last, t, frame)
      BY <2>3, <3>3 DEF Begins
    <3> QED
      BY <1>5, <2>1, <3>2, <3>4 DEF Grown
  <2> QED
    BY <2>2, <2>3
<1> QED
  BY <1>4, <1>5


-----------------------------------------------------------------------------
(* What has been taken is behind what is left, and what has been made of   *)
(* it is what buildAllTfBars had made of it, and its bars by definition.   *)
Taken == DOMAIN bars \ rest
Replayed ==
    config # NoBar =>
        LET acc == Made(bars, config.frame)[Cardinality(Taken)]
        IN  /\ \A u \in Taken, v \in rest : u < v
            /\ tfBars = acc.done /\ partial = acc.last
            /\ partial = NoBar => tfBars = <<>>
            /\ Shown(tfBars, partial) = RolledUp([t \in Taken |-> bars[t]], config.frame)

LEMMA BarsCharted ==
    ASSUME NEW raw, DOMAIN raw \subseteq Minutes, \A t \in DOMAIN raw : raw[t] \in Prices,
           NEW T, T \subseteq DOMAIN raw
    PROVE  /\ Charted(raw) /\ IsFiniteSet(T) /\ Cardinality(T) \in Nat
           /\ Cardinality(T) <= Cardinality(DOMAIN raw)
           /\ Cardinality(DOMAIN raw) \in Nat
           /\ Charted([t \in T |-> raw[t]])
<1>1. DOMAIN raw \subseteq 0 .. LastMinute /\ \A t \in DOMAIN raw : raw[t] \in Prices
  BY DEF Minutes
<1>2. IsFiniteSet(0 .. LastMinute) /\ 0 .. LastMinute \subseteq Nat
  BY SimulationAssumption, FS_Interval
<1>3. IsFiniteSet(DOMAIN raw)
  BY <1>1, <1>2, FS_Subset
<1>4. /\ IsFiniteSet(T) /\ Cardinality(T) <= Cardinality(DOMAIN raw)
      /\ Cardinality(T) \in Nat /\ Cardinality(DOMAIN raw) \in Nat
  BY <1>3, FS_Subset, FS_CardinalityType
<1>5. T \subseteq Nat /\ DOMAIN raw \subseteq Nat
  BY <1>1, <1>2
<1>6. Charted(raw)
  BY <1>1, <1>3, <1>5 DEF Charted
<1>7. Charted([t \in T |-> raw[t]])
  <2> DEFINE s == [t \in T |-> raw[t]]
  <2>1. DOMAIN s = T /\ \A t \in T : s[t] \in Prices
    BY <1>1
  <2> HIDE DEF s
  <2>2. Charted(s)
    BY <1>4, <1>5, <2>1 DEF Charted
  <2> QED
    BY <2>2 DEF s
<1> QED
  BY <1>4, <1>6, <1>7

LEMMA ReplayStarts ==
    ASSUME TypeOK', config' \in Configs, rest' = DOMAIN bars', tfBars' = <<>>, partial' = NoBar
    PROVE  Replayed'
<1> DEFINE raw == bars'
           frame == config'.frame
           T == Taken'
           s == [t \in T |-> raw[t]]
<1>1. T = {} /\ Cardinality(T) = 0
  BY FS_EmptySet DEF Taken
<1>2. frame \in Nat \ {0}
  BY SimulationAssumption DEF Configs
<1>3. DOMAIN raw \subseteq Minutes /\ \A t \in DOMAIN raw : raw[t] \in Prices
  BY DEF TypeOK
<1> HIDE DEF T, raw
<1>4. Charted(raw) /\ Charted(s)
  BY <1>1, <1>3, BarsCharted
<1> HIDE DEF frame
<1>5. Made(raw, frame)[0] = NoneMade
  BY <1>2, <1>4, MadeFacts
<1>6. DOMAIN s = {}
  BY <1>1
<1> HIDE DEF s
<1>7. Buckets(s, frame) = {}
  BY <1>6 DEF Buckets
<1>8. Len(RolledUp(s, frame)) = 0 /\ RolledUp(s, frame) \in Seq(Bars)
  BY <1>2, <1>4, <1>7, RolledUpType, FS_EmptySet
<1>9. RolledUp(s, frame) = <<>>
  <2> DEFINE f == RolledUp(s, frame)
  <2>1. f \in Seq(Bars) /\ Len(f) = 0
    BY <1>8
  <2> HIDE DEF f
  <2>2. f = <<>>
    BY <2>1
  <2> QED
    BY <2>2 DEF f
<1>10. Shown(tfBars', partial') = RolledUp(s, frame)
  BY <1>9 DEF Shown
<1> QED
  BY <1>1, <1>5, <1>10 DEF Replayed, NoneMade, s, T, raw, frame

LEMMA ReplayGoesOn ==
    ASSUME TypeOK, config # NoBar, Replayed, NEW t \in rest, \A u \in rest : t <= u,
           config' = config, bars' = bars, rest' = rest \ {t},
           partial' = Grown(partial, t, bars[t], config.frame),
           tfBars' = IF partial # NoBar /\ Begins(partial, t, config.frame)
                     THEN Append(tfBars, partial) ELSE tfBars
    PROVE  Replayed'
<1> DEFINE frame == config.frame
           D == DOMAIN bars
           more == Taken \union {t}
           n == Cardinality(Taken)
           s == [u \in Taken |-> bars[u]]
           r == [u \in more |-> bars[u]]
           F == Made(bars, frame)
<1>1. /\ frame \in Nat \ {0} /\ tfBars \in Seq(Bars) /\ partial \in Bars \union {NoBar}
  BY SimulationAssumption DEF TypeOK, Configs
<1>2. rest \subseteq D /\ t \in D /\ Taken \subseteq D /\ more \subseteq D /\ t \notin Taken
  BY DEF TypeOK, Taken
<1>3. Taken' = more
  BY <1>2 DEF Taken
<1>3a. DOMAIN bars \subseteq Minutes /\ \A u \in DOMAIN bars : bars[u] \in Prices
  BY DEF TypeOK
<1>4. /\ Charted(bars) /\ Charted(s) /\ IsFiniteSet(Taken) /\ n \in Nat
  BY <1>2, <1>3a, BarsCharted
<1>5. Charted(r) /\ Cardinality(more) <= Cardinality(D) /\ Cardinality(D) \in Nat
  BY <1>2, <1>3a, BarsCharted
<1>6. \A u \in D : u \in Nat /\ bars[u] \in Prices
  BY <1>4 DEF Charted
<1>7. /\ \A u \in Taken, v \in rest : u < v
      /\ tfBars = F[n].done /\ partial = F[n].last
      /\ partial = NoBar => tfBars = <<>>
      /\ Shown(tfBars, partial) = RolledUp(s, frame)
  BY DEF Replayed
<1>8. Extends(r, s, t)
  <2>1. \A u \in Taken : u < t
    BY <1>7
  <2>2. DOMAIN r = DOMAIN s \union {t} /\ \A u \in DOMAIN s : r[u] = s[u] /\ u < t
    BY <2>1
  <2> QED
    BY <1>2, <1>6, <2>2 DEF Extends
<1>9. \A u \in Taken', v \in rest' : u < v
  <2>1. \A v \in rest' : v \in rest /\ v # t /\ t <= v /\ v \in Nat /\ t \in Nat
    BY <1>2, <1>6
  <2> QED
    BY <1>3, <1>7, <2>1
<1>10. Cardinality(more) = n + 1 /\ n + 1 \in 1 .. Cardinality(D)
  <2>1. Cardinality(more) = n + 1
    BY <1>2, <1>4, FS_AddElement
  <2> HIDE DEF n, more, D
  <2> QED
    BY <1>4, <1>5, <2>1
<1>11. InOrder(D)[n + 1] = t
  <2>1. {u \in D : u < t} = Taken
    <3>1. \A u \in rest : ~(u < t)
      BY <1>2, <1>6
    <3> QED
      BY <1>2, <1>7, <3>1 DEF Taken
  <2>2. Rank(D, t) = n
    BY <2>1 DEF Rank
  <2>3. D \subseteq Nat /\ IsFiniteSet(D)
    BY <1>4 DEF Charted
  <2> HIDE DEF D, n
  <2>4. InOrder(D)[n + 1] \in D /\ Rank(D, InOrder(D)[n + 1]) = (n + 1) - 1
    BY <1>10, <2>3, InOrderFacts
  <2>5. (n + 1) - 1 = n
    BY <1>4
  <2> QED
    BY <1>2, <2>2, <2>3, <2>4, <2>5, RanksApart
<1>12. F[n + 1] = NextMade(F[n], t, bars[t], frame)
  <2>1. \A i \in 1 .. Cardinality(D) : F[i] = NextMade(F[i - 1], InOrder(D)[i], bars[InOrder(D)[i]], frame)
    BY <1>1, <1>4, MadeFacts
  <2>2. (n + 1) - 1 = n
    BY <1>4
  <2> HIDE DEF D, F
  <2> QED
    BY <1>10, <1>11, <2>1, <2>2
<1>13. tfBars' = F[n + 1].done /\ partial' = F[n + 1].last
  <2> HIDE DEF F
  <2>1. F[n + 1].last = Grown(F[n].last, t, bars[t], frame)
    BY <1>12 DEF NextMade
  <2>2. F[n + 1].done = IF F[n].last # NoBar /\ Begins(F[n].last, t, frame)
                        THEN Append(F[n].done, F[n].last) ELSE F[n].done
    BY <1>12 DEF NextMade
  <2> QED
    BY <1>7, <2>1, <2>2
<1>14. partial' \in Bars /\ partial' # NoBar
  <2>1. t \in Nat /\ bars[t] \in Prices
    BY <1>2, <1>6
  <2>2. partial' \in Bars
    BY <1>1, <2>1, GrownType
  <2> QED
    BY <2>2, NoBarIsNone
<1>15. r[t] = bars[t]
  OBVIOUS
<1>16. Append(tfBars', partial') = RolledUp(r, frame)
  <2> HIDE DEF r, s, frame
  <2>1. IF partial # NoBar /\ Begins(partial, t, frame)
        THEN Append(Append(tfBars, partial), Grown(partial, t, r[t], frame)) = RolledUp(r, frame)
        ELSE Append(tfBars, Grown(partial, t, r[t], frame)) = RolledUp(r, frame)
    <3>1. /\ Charted(s) /\ Charted(r) /\ Extends(r, s, t)
          /\ partial = NoBar => tfBars = <<>>
          /\ Shown(tfBars, partial) = RolledUp(s, frame)
      BY <1>4, <1>5, <1>7, <1>8
    <3> QED
      BY <1>1, <3>1, Rolls
  <2> QED
    BY <1>15, <2>1 DEF frame
<1>17. Shown(tfBars', partial') = RolledUp(r, frame)
  BY <1>14, <1>16 DEF Shown
<1>18. [u \in Taken' |-> bars'[u]] = r
  BY <1>3
<1>19. Made(bars', config'.frame)[Cardinality(Taken')] = F[n + 1]
  BY <1>3, <1>10
<1> HIDE DEF r, F
<1> QED
  BY <1>9, <1>13, <1>14, <1>17, <1>18, <1>19 DEF Replayed

LEMMA ReplayedIsRight ==
    ASSUME TypeOK, Replayed
    PROVE  ReplayIsRollUp
<1> SUFFICES ASSUME config # NoBar PROVE ReplayIsRollUp
  BY DEF ReplayIsRollUp
<1> DEFINE n == Cardinality(Taken)
           F == Made(bars, config.frame)
<1>1. config.frame \in Nat \ {0}
  BY SimulationAssumption DEF TypeOK, Configs
<1>2. Taken \subseteq DOMAIN bars
  BY DEF Taken
<1>3. Charted(bars) /\ n \in 0 .. Cardinality(DOMAIN bars)
  <2>1. /\ Charted(bars) /\ n \in Nat /\ n <= Cardinality(DOMAIN bars)
        /\ Cardinality(DOMAIN bars) \in Nat
    <3>1. DOMAIN bars \subseteq Minutes /\ \A u \in DOMAIN bars : bars[u] \in Prices
      BY DEF TypeOK
    <3> QED
      BY <1>2, <3>1, BarsCharted
  <2> HIDE DEF n
  <2> QED
    BY <2>1
<1>4. IsPrefix(F[n].done, AllTfBars(bars, config.frame))
  BY <1>1, <1>3, MadeStays
<1>5. /\ tfBars = F[n].done
      /\ Shown(tfBars, partial) = RolledUp([t \in Taken |-> bars[t]], config.frame)
  BY DEF Replayed
<1> HIDE DEF F, n
<1>6. IsPrefix(tfBars, AllTfBars(bars, config.frame))
  BY <1>4, <1>5
<1> QED
  BY <1>5, <1>6, Zenon DEF ReplayIsRollUp, Shown, Taken

-----------------------------------------------------------------------------
(* The invariant.  Order is kept because the bar being made is later than  *)
(* whatever has been traded on, and no raw bar is left for an earlier one. *)

Idle ==
    config = NoBar => /\ tfBars = <<>> /\ partial = NoBar /\ rest = {}
                      /\ position = NoBar /\ trades = <<>> /\ earned = 0
Ahead ==
    /\ partial # NoBar => \A t \in rest : partial.time <= Bucket(t, config.frame)
    /\ position # NoBar => partial # NoBar /\ position.since < partial.time
    /\ \A i \in DOMAIN trades : partial # NoBar /\ trades[i].until < partial.time

IInv ==
    /\ TypeOK /\ Idle /\ Ahead /\ MoneyAddsUp /\ TradesInOrder
    /\ Counted /\ Replayed

LEMMA Starts == Init => IInv
<1> SUFFICES ASSUME Init PROVE IInv
  OBVIOUS
<1>1. TypeOK /\ Idle /\ Ahead /\ MoneyAddsUp /\ TradesInOrder
  BY DEF Init, TypeOK, Idle, Ahead, MoneyAddsUp, TradesInOrder, Minutes
<1>2. Replayed
  BY DEF Init, Replayed
<1>3. Counted
  <2>1. trades = <<>> /\ metrics = NoMetrics /\ earned = 0
    BY DEF Init
  <2>2. Gains(<<>>) = <<>>
    BY DEF Gains
  <2>3. ComputeMetrics(<<>>) = NoMetrics
    BY Zenon DEF ComputeMetrics
  <2> QED
    BY <2>1, <2>2, <2>3, SumFacts DEF Counted
<1> QED
  BY <1>1, <1>2, <1>3 DEF IInv

(* The constructor. *)
LEMMA Constructs ==
    ASSUME IInv, config = NoBar,
           NEW raw \in Series, NEW session \in Sessions, NEW frame \in Frames,
           NEW mode \in Modes, NEW fractional \in BOOLEAN, NEW reinvest \in BOOLEAN,
           NEW scripted \in BOOLEAN, NEW capital \in Capitals, NEW qty \in Quantities,
           Construct(raw, session, Config(frame, mode, fractional, reinvest, capital, qty, scripted))
    PROVE  IInv'
<1> DEFINE c == Config(frame, mode, fractional, reinvest, capital, qty, scripted)
<1>1. c \in Configs
  <2>1. capital * Unit \in Nat \ {0}
    BY SimulationAssumption
  <2> QED
    BY <2>1 DEF Config, Configs, Modes
<1>2. c # NoBar
  BY <1>1, NoBarIsNone
<1>3. /\ config' = c /\ bars' = Filtered(raw, c.frame, session)
      /\ rest' = DOMAIN bars' /\ cash' = c.capital
      /\ UNCHANGED <<tfBars, partial, position, trades, metrics, earned>>
  BY DEF Construct
<1> HIDE DEF c
<1>4. DOMAIN raw \subseteq Minutes /\ \A t \in DOMAIN raw : raw[t] \in Prices
  BY DEF Series
<1>5. DOMAIN bars' \subseteq Minutes /\ \A t \in DOMAIN bars' : bars'[t] \in Prices
  BY <1>3, <1>4 DEF Filtered
<1>6. /\ tfBars = <<>> /\ partial = NoBar /\ position = NoBar /\ trades = <<>> /\ earned = 0
  BY DEF IInv, Idle
<1>7. TypeOK'
  BY <1>1, <1>3, <1>5, <1>6 DEF IInv, TypeOK, Configs
<1>8. Idle' /\ Ahead' /\ TradesInOrder'
  BY <1>2, <1>3, <1>6 DEF Idle, Ahead, TradesInOrder
<1>9. MoneyAddsUp'
  BY <1>1, <1>3, <1>6 DEF MoneyAddsUp, Configs
<1>10. Counted'
  BY <1>3 DEF IInv, Counted
<1>11. Replayed'
  BY <1>1, <1>3, <1>6, <1>7, ReplayStarts
<1> QED
  BY <1>7, <1>8, <1>9, <1>10, <1>11 DEF IInv

-----------------------------------------------------------------------------
(* Trading on a bar of the timeframe that has just been completed.         *)

LEMMA Buys ==
    ASSUME IInv, config # NoBar, config' = config, partial # NoBar, Buy(partial)
    PROVE  /\ position' \in Positions /\ position'.since = partial.time
           /\ cash' \in Int /\ UNCHANGED <<trades, earned>>
           /\ MoneyAddsUp' /\ Counted'
<1> DEFINE n == Bought(config, cash, partial.close)
           price == partial.close
<1>1. /\ config \in Configs /\ partial \in Bars /\ cash \in Int /\ earned \in Int
      /\ position = NoBar /\ n > 0
  BY DEF IInv, TypeOK, Buy
<1>2. price \in Prices /\ price \in Nat \ {0} /\ partial.time \in Nat
  BY <1>1, SimulationAssumption DEF Bars
<1>3. /\ n \in Nat \ {0}
      /\ config.mode = "capital" =>
           IF config.fractional THEN 2 * (n * price) <= 2 * cash + price
           ELSE n * price <= cash
  BY <1>1, <1>2, BoughtBound
<1>4. /\ position' = [since |-> partial.time, entry |-> price, shares |-> n]
      /\ cash' = (IF config.mode = "capital" THEN cash - n * price ELSE cash)
      /\ UNCHANGED <<trades, metrics, earned>>
  BY DEF Buy
<1> HIDE DEF n, price
<1>5. position' \in Positions /\ position'.since = partial.time /\ position' # NoBar
  BY <1>2, <1>3, <1>4, NoBarIsNone DEF Positions
<1>6. n * price \in Int /\ price * n = n * price
  BY <1>2, <1>3
<1>7. cash' \in Int
  BY <1>1, <1>4, <1>6
<1>8. MoneyAddsUp'
  <2>1. CASE config.mode = "qty"
    BY <2>1, <1>1, <1>4 DEF IInv, MoneyAddsUp
  <2>2. CASE config.mode = "capital"
    <3>1. cash = config.capital + (IF config.reinvest THEN earned ELSE 0)
      BY <2>2, <1>1 DEF IInv, MoneyAddsUp, Configs
    <3>2. cash' = cash - n * price
      BY <2>2, <1>4
    <3>3. position'.entry * position'.shares = n * price /\ position'.entry = price
      BY <1>4, <1>6
    <3>4. IF config.fractional THEN 2 * cash' >= -position'.entry ELSE cash' >= 0
      BY <3>2, <3>3, <2>2, <1>1, <1>2, <1>3, <1>6
    <3>5. cash' + n * price = cash
      BY <3>2, <1>1, <1>6
    <3> QED
      BY <3>1, <3>3, <3>4, <3>5, <2>2, <1>4, <1>5 DEF MoneyAddsUp
  <2> QED
    BY <2>1, <2>2, <1>1 DEF Configs, Modes
<1>9. Counted'
  BY <1>4 DEF IInv, Counted
<1> QED
  BY <1>4, <1>5, <1>7, <1>8, <1>9

LEMMA Sells ==
    ASSUME IInv, config # NoBar, config' = config, partial # NoBar, Sell(partial)
    PROVE  /\ position' = NoBar /\ position # NoBar
           /\ \E t \in Trades : /\ t.since = position.since /\ t.until = partial.time
                                /\ trades' = Append(trades, t)
           /\ cash' \in Int /\ earned' \in Int
           /\ MoneyAddsUp' /\ Counted'
<1> DEFINE gain == (partial.close - position.entry) * position.shares
           t == [since |-> position.since, entry |-> position.entry,
                 shares |-> position.shares, until |-> partial.time, exit |-> partial.close,
                 gain |-> gain]
           paid == position.entry * position.shares
           got == position.shares * partial.close
<1>1. /\ config \in Configs /\ partial \in Bars /\ cash \in Int /\ earned \in Int
      /\ position \in Positions /\ position # NoBar
  BY DEF IInv, TypeOK, Sell
<1>2. /\ position.since \in Nat /\ position.entry \in Prices /\ position.entry \in Nat
      /\ position.shares \in Nat \ {0}
      /\ partial.close \in Prices /\ partial.close \in Nat /\ partial.time \in Nat
  BY <1>1, SimulationAssumption DEF Positions, Bars
<1>3. gain \in Int /\ paid \in Int /\ got \in Int /\ gain = got - paid
  BY <1>2
<1>4. /\ trades' = Append(trades, t) /\ earned' = earned + gain /\ position' = NoBar
      /\ cash' = (IF config.mode = "capital"
                  THEN IF config.reinvest THEN cash + got ELSE config.capital
                  ELSE cash)
  BY DEF Sell, CashAfter
<1>4a. metrics' = ComputeMetrics(trades')
  BY DEF Sell
<1>5. t \in Trades
  BY <1>2, <1>3 DEF Trades
<1>6. t.since = position.since /\ t.until = partial.time /\ t.gain = gain
  OBVIOUS
<1> HIDE DEF gain, t, paid, got
<1>7. config.capital \in Nat /\ config.reinvest \in BOOLEAN
  BY <1>1 DEF Configs
<1>8. cash' \in Int /\ earned' \in Int
  BY <1>1, <1>3, <1>4, <1>7
<1>9. MoneyAddsUp'
  <2>1. CASE config.mode = "qty"
    BY <2>1, <1>1, <1>4 DEF IInv, MoneyAddsUp
  <2>2. CASE config.mode = "capital"
    <3>1. cash + paid = config.capital + (IF config.reinvest THEN earned ELSE 0)
      BY <2>2, <1>1 DEF IInv, MoneyAddsUp, paid
    <3>2. cash' = config.capital + (IF config.reinvest THEN earned' ELSE 0)
      BY <3>1, <2>2, <1>1, <1>3, <1>4, <1>7
    <3> QED
      BY <3>2, <2>2, <1>4, <1>8 DEF MoneyAddsUp
  <2> QED
    BY <2>1, <2>2, <1>1 DEF Configs, Modes
<1>10. Counted'
  <2>1. trades \in Seq(Trades) /\ earned = SumOf(Gains(trades))
    BY DEF IInv, TypeOK, Counted
  <2>2. SumOf(Gains(Append(trades, t))) = SumOf(Gains(trades)) + t.gain
    BY <1>5, <2>1, GainsGrow
  <2>3. earned' = SumOf(Gains(trades'))
    BY <1>4, <1>6, <2>1, <2>2, Zenon
  <2> QED
    BY <1>4a, <2>3, Zenon DEF Counted
<1> QED
  BY <1>1, <1>4, <1>5, <1>6, <1>8, <1>9, <1>10

LEMMA Trading ==
    ASSUME IInv, config # NoBar, config' = config, partial # NoBar, Trade(partial)
    PROVE  /\ position' \in Positions \union {NoBar} /\ trades' \in Seq(Trades)
           /\ cash' \in Int /\ earned' \in Int
           /\ MoneyAddsUp' /\ TradesInOrder' /\ Counted'
           /\ position' # NoBar => position'.since <= partial.time
           /\ \A i \in DOMAIN trades' : trades'[i].until <= partial.time
<1>1. /\ partial \in Bars /\ partial.time \in Nat
      /\ position \in Positions \union {NoBar} /\ trades \in Seq(Trades)
      /\ cash \in Int /\ earned \in Int
  BY DEF IInv, TypeOK, Bars
<1>2. /\ position # NoBar => position.since < partial.time /\ position.since \in Nat
      /\ \A i \in DOMAIN trades : trades[i].until < partial.time /\ trades[i].until \in Nat
  <2>1. position # NoBar => position \in Positions
    BY <1>1
  <2>2. \A i \in DOMAIN trades : trades[i] \in Trades
    BY <1>1
  <2>3. Ahead
    BY DEF IInv
  <2>4. \A i \in DOMAIN trades : trades[i].until \in Nat
    BY <2>2 DEF Trades
  <2>5. position # NoBar => position.since \in Nat
    BY <2>1 DEF Positions
  <2> QED
    BY <2>3, <2>4, <2>5 DEF Ahead
<1>3. TradesInOrder
  BY DEF IInv
<1>4. CASE Buy(partial)
  <2>1. /\ position' \in Positions /\ position'.since = partial.time
        /\ cash' \in Int /\ trades' = trades /\ earned' = earned /\ MoneyAddsUp'
        /\ Counted'
    BY <1>4, Buys
  <2>2. TradesInOrder'
    BY <2>1, <1>2, <1>3 DEF TradesInOrder
  <2> QED
    BY <2>1, <2>2, <1>1, <1>2
<1>5. CASE Sell(partial)
  <2>1. /\ position' = NoBar /\ position # NoBar /\ cash' \in Int /\ earned' \in Int
        /\ MoneyAddsUp' /\ Counted'
    BY <1>5, Sells
  <2>2. PICK t \in Trades : /\ t.since = position.since /\ t.until = partial.time
                            /\ trades' = Append(trades, t)
    BY <1>5, Sells
  <2>3. /\ trades' \in Seq(Trades) /\ Len(trades') = Len(trades) + 1
        /\ \A i \in 1 .. Len(trades) : trades'[i] = trades[i]
        /\ trades'[Len(trades) + 1] = t
        /\ DOMAIN trades = 1 .. Len(trades) /\ DOMAIN trades' = 1 .. Len(trades) + 1
        /\ Len(trades) \in Nat
    BY <2>2, <1>1
  <2>4. \A i \in DOMAIN trades' : trades'[i].until <= partial.time
    BY <2>2, <2>3, <1>1, <1>2
  <2>5. TradesInOrder'
    <3>1. \A i \in DOMAIN trades' : trades'[i].since < trades'[i].until
      BY <2>1, <2>2, <2>3, <1>2, <1>3 DEF TradesInOrder
    <3>2. \A i, j \in DOMAIN trades' : i < j => trades'[i].until < trades'[j].since
      <4> SUFFICES ASSUME NEW i \in DOMAIN trades', NEW j \in DOMAIN trades', i < j
                   PROVE  trades'[i].until < trades'[j].since
        OBVIOUS
      <4>1. i \in DOMAIN trades /\ trades'[i] = trades[i]
        BY <2>3
      <4>2. CASE j \in DOMAIN trades
        BY <4>1, <4>2, <2>3, <1>3 DEF TradesInOrder
      <4>3. CASE j = Len(trades) + 1
        BY <4>1, <4>3, <2>1, <2>2, <2>3, <1>3 DEF TradesInOrder
      <4> QED
        BY <4>2, <4>3, <2>3
    <3> QED
      BY <3>1, <3>2, <2>1 DEF TradesInOrder
  <2> QED
    BY <2>1, <2>3, <2>4, <2>5
<1>6. CASE UNCHANGED <<cash, position, trades, metrics, earned>>
  BY <1>6, <1>1, <1>2, <1>3 DEF IInv, MoneyAddsUp, TradesInOrder, Counted
<1> QED
  BY <1>4, <1>5, <1>6 DEF Trade

-----------------------------------------------------------------------------
(* One raw bar. *)
LEMMA Stepping ==
    ASSUME IInv, Step
    PROVE  IInv'
<1>1. PICK t \in rest :
        /\ \A u \in rest : t <= u
        /\ rest' = rest \ {t}
        /\ partial' = Grown(partial, t, bars[t], config.frame)
        /\ IF partial # NoBar /\ Begins(partial, t, config.frame)
           THEN tfBars' = Append(tfBars, partial) /\ Trade(partial)
           ELSE UNCHANGED <<tfBars, cash, position, trades, metrics, earned>>
  BY DEF Step
<1>2. config # NoBar /\ config' = config /\ bars' = bars
  BY DEF Step
<1>3. /\ config \in Configs /\ config.frame \in Nat \ {0}
      /\ t \in Nat /\ rest \subseteq Nat /\ bars[t] \in Prices
      /\ partial \in Bars \union {NoBar} /\ tfBars \in Seq(Bars)
  <2>1. config \in Configs /\ config.frame \in Frames
    BY <1>2 DEF IInv, TypeOK, Configs
  <2>2. rest \subseteq DOMAIN bars /\ DOMAIN bars \subseteq 0 .. LastMinute
    BY DEF IInv, TypeOK, Minutes
  <2>3. rest \subseteq Nat
    BY <2>2, SimulationAssumption
  <2> QED
    BY <2>1, <2>2, <2>3, SimulationAssumption DEF IInv, TypeOK
<1>4. /\ Bucket(t, config.frame) \in Nat
      /\ \A u \in rest : /\ Bucket(u, config.frame) \in Nat
                         /\ Bucket(t, config.frame) <= Bucket(u, config.frame)
  <2>1. \A u \in rest : /\ Bucket(u, config.frame) \in Nat
                        /\ Bucket(t, config.frame) <= Bucket(u, config.frame)
    <3> TAKE u \in rest
    <3>1. u \in Nat /\ t <= u /\ t \in Nat /\ u <= u /\ config.frame \in Nat \ {0}
      BY <1>1, <1>3
    <3>2. Bucket(t, config.frame) <= Bucket(u, config.frame)
      BY <3>1, BucketMonotonic
    <3>3. Bucket(u, config.frame) \in Nat
      BY <3>1, BucketMonotonic
    <3> QED
      BY <3>2, <3>3
  <2> QED
    BY <2>1
<1>5. /\ partial' \in Bars /\ partial'.time = Bucket(t, config.frame)
      /\ partial # NoBar => partial.time \in Nat /\ partial.time <= partial'.time
      /\ partial # NoBar /\ Begins(partial, t, config.frame) => partial.time < partial'.time
      /\ partial # NoBar /\ ~Begins(partial, t, config.frame) => partial.time = partial'.time
  <2>1. partial # NoBar => partial \in Bars /\ partial.time \in Nat
                           /\ partial.time <= Bucket(t, config.frame)
    BY <1>3, <1>1 DEF IInv, Ahead, Bars
  <2>2. CASE Begins(partial, t, config.frame)
    <3>1. partial' = Began(t, bars[t], config.frame)
      BY <2>2, <1>1 DEF Grown
    <3>2. partial' \in Bars /\ partial'.time = Bucket(t, config.frame)
      BY <3>1, <1>3, <1>4 DEF Began, Bars
    <3> QED
      BY <3>2, <2>1, <2>2, <1>4 DEF Begins
  <2>3. CASE ~Begins(partial, t, config.frame)
    <3>1. partial # NoBar /\ partial.time = Bucket(t, config.frame)
      BY <2>3 DEF Begins
    <3>2. partial' = Joined(partial, bars[t])
      BY <2>3, <1>1 DEF Grown
    <3> DEFINE high == IF bars[t] > partial.high THEN bars[t] ELSE partial.high
               low == IF bars[t] < partial.low THEN bars[t] ELSE partial.low
    <3>3. high \in Prices /\ low \in Prices /\ partial.volume + 1 \in Nat \ {0}
      BY <3>1, <2>1, <1>3 DEF Bars
    <3>4. partial' = [partial EXCEPT !.high = high, !.low = low, !.close = bars[t],
                                     !.volume = partial.volume + 1]
      BY <3>2 DEF Joined
    <3> HIDE DEF high, low
    <3>5. partial' \in Bars /\ partial'.time = partial.time
      BY <3>1, <3>3, <3>4, <2>1, <1>3 DEF Bars
    <3> QED
      BY <3>1, <3>5, <2>1, <2>3
  <2> QED
    BY <2>2, <2>3
<1>6. partial' # NoBar
  BY <1>5, NoBarIsNone
<1>7. \A u \in rest' : partial'.time <= Bucket(u, config'.frame)
  BY <1>1, <1>2, <1>4, <1>5
<1>7a. Replayed'
  <2>1. tfBars' = IF partial # NoBar /\ Begins(partial, t, config.frame)
                  THEN Append(tfBars, partial) ELSE tfBars
    BY <1>1
  <2>2. TypeOK /\ Replayed
    BY DEF IInv
  <2> QED
    BY <1>1, <1>2, <2>1, <2>2, ReplayGoesOn
<1>8. CASE partial # NoBar /\ Begins(partial, t, config.frame)
  <2>1. tfBars' = Append(tfBars, partial) /\ Trade(partial)
    BY <1>8, <1>1
  <2>2. /\ position' \in Positions \union {NoBar} /\ trades' \in Seq(Trades)
        /\ cash' \in Int /\ earned' \in Int
        /\ MoneyAddsUp' /\ TradesInOrder' /\ Counted'
        /\ position' # NoBar => position'.since <= partial.time
        /\ \A i \in DOMAIN trades' : trades'[i].until <= partial.time
    BY <2>1, <1>2, <1>8, Trading
  <2>3. TypeOK'
    BY <2>1, <2>2, <1>1, <1>2, <1>3, <1>5 DEF IInv, TypeOK
  <2>4. Ahead'
    <3>1. partial.time \in Nat /\ partial'.time \in Nat /\ partial.time < partial'.time
      BY <1>5, <1>8, <1>4
    <3>2. position' # NoBar => position'.since < partial'.time
      BY <3>1, <2>2 DEF Positions
    <3>3. \A i \in DOMAIN trades' : trades'[i].until < partial'.time
      <4>1. \A i \in DOMAIN trades' : trades'[i] \in Trades
        BY <2>2
      <4>2. \A i \in DOMAIN trades' : trades'[i].until \in Nat
        BY <4>1 DEF Trades
      <4> QED
        BY <4>2, <3>1, <2>2
    <3> QED
      BY <3>2, <3>3, <1>6, <1>7 DEF Ahead
  <2> QED
    BY <2>2, <2>3, <2>4, <1>2, <1>7a DEF IInv, Idle
<1>9. CASE ~(partial # NoBar /\ Begins(partial, t, config.frame))
  <2>1. UNCHANGED <<tfBars, cash, position, trades, metrics, earned>>
    BY <1>9, <1>1
  <2>2. TypeOK'
    BY <2>1, <1>1, <1>2, <1>3, <1>5 DEF IInv, TypeOK
  <2>3. Ahead'
    BY <2>1, <1>1, <1>5, <1>6, <1>7, <1>9 DEF IInv, Ahead
  <2>4. MoneyAddsUp' /\ TradesInOrder' /\ Idle' /\ Counted'
    BY <2>1, <1>2 DEF IInv, MoneyAddsUp, TradesInOrder, Idle, Counted
  <2> QED
    BY <2>2, <2>3, <2>4, <1>7a DEF IInv
<1> QED
  BY <1>8, <1>9

LEMMA Invariance == Spec => []IInv
<1>1. Init => IInv
  BY Starts
<1>2. IInv /\ [Next]_simVars => IInv'
  <2> SUFFICES ASSUME IInv, [Next]_simVars PROVE IInv'
    OBVIOUS
  <2>1. ASSUME config = NoBar,
               NEW raw \in Series, NEW session \in Sessions, NEW frame \in Frames,
               NEW mode \in Modes, NEW fractional \in BOOLEAN, NEW reinvest \in BOOLEAN,
               NEW scripted \in BOOLEAN, NEW capital \in Capitals, NEW qty \in Quantities,
               Construct(raw, session,
                         Config(frame, mode, fractional, reinvest, capital, qty, scripted))
        PROVE  IInv'
    BY <2>1, Constructs
  <2>2. CASE Step
    BY <2>2, Stepping
  <2>3. CASE UNCHANGED simVars
    BY <2>3 DEF simVars, IInv, TypeOK, Idle, Ahead, MoneyAddsUp, TradesInOrder,
                Counted, Replayed, Taken
  <2> QED
    BY <2>1, <2>2, <2>3 DEF Next
<1> QED
  BY <1>1, <1>2, PTL DEF Spec

(* Bars, position and trades have their types, whatever the constructor is *)
(* given (SimulationEngine).                                               *)
THEOREM TypeCorrect == Spec => []TypeOK
<1>1. IInv => TypeOK
  BY DEF IInv
<1> QED
  BY <1>1, Invariance, PTL

(* Cash and stake are the capital and the reinvested gains, a position     *)
(* costs what there is, and trades follow each other (onTfBarCompleted).   *)
THEOREM LedgerAddsUpHolds == Spec => []LedgerAddsUp
<1>1. IInv => LedgerAddsUp
  BY DEF IInv, LedgerAddsUp
<1> QED
  BY <1>1, Invariance, PTL

(* The bars the replay shows are the rolled up bars it has taken, and the  *)
(* first of those the strategy has judged; the metrics are those of all    *)
(* the trades, the drawdown the deepest fall of their sum (step,           *)
(* buildAllTfBars, computeMetrics).                                        *)
THEOREM ReplayIsRightHolds == Spec => []ReplayIsRight
<1>1. IInv => ReplayIsRight
  <2> SUFFICES ASSUME IInv PROVE ReplayIsRight
    OBVIOUS
  <2>1. TypeOK /\ Counted /\ Replayed /\ trades \in Seq(Trades)
    BY DEF IInv, TypeOK
  <2> QED
    BY <2>1, CountedIsRight, ReplayedIsRight DEF ReplayIsRight
<1> QED
  BY <1>1, Invariance, PTL
=============================================================================
