---------------------------- MODULE EngineProofs ----------------------------
(***************************************************************************)
(* EngineItem for every order book, mapping, stock, lead time and set of   *)
(* rules: the split gives out the quantity of a country and follows the    *)
(* orders, steps 1 and 5 see the same units, every country that sells is   *)
(* accounted for, restocked ones reach their target, and no component is   *)
(* promised twice.  Lemmas about what the operators of WarehouseSplit and  *)
(* StockMapping return come first, then those about the steps.             *)
(***************************************************************************)
EXTENDS EngineItem, AllocationProofs, NaturalsInduction

\* Most steps are first-order reasoning; those that need arithmetic or
\* updates of functions and records cite SMT.
USE Zenon

\* A function on a finite set has no more values than arguments.
LEMMA RangeFinite ==
    ASSUME NEW f, IsFiniteSet(DOMAIN f)
    PROVE  IsFiniteSet(Range(f)) /\ Cardinality(Range(f)) <= Cardinality(DOMAIN f)
  <1> DEFINE g == [x \in DOMAIN f |-> f[x]]
  <1>1. g \in Surjection(DOMAIN f, Range(f))
    BY DEF Surjection, Range
  <1> HIDE DEF g
  <1> QED
    BY <1>1, FS_Surjection

\* The units of each line.
Units(lines) == [i \in DOMAIN lines |-> lines[i].qty]

\* A sample of order lines, each of at least one unit.
IsSample(lines) == IsFiniteSet(DOMAIN lines) /\ \A i \in DOMAIN lines : lines[i].qty \in Nat \ {0}

\* Warehouses in their order.
IsList(e) == Len(e) \in Nat /\ DOMAIN e = 1 .. Len(e)

\* What explain_country_qty_split needs to know of the orders: when units go to a
\* known warehouse, some warehouse has a weight.
Splittable(s, n) ==
    /\ s.matched \in Nat /\ s.unknown \in Nat
    /\ DOMAIN s.counts = 1 .. n /\ Weights(s.counts)
    /\ s.matched > 0 => Total(s.counts) > 0

\* The units of some of the lines.
LEMMA UnitsOf ==
    ASSUME NEW lines, IsSample(lines), NEW T, T \subseteq DOMAIN lines
    PROVE  /\ Total([i \in T |-> lines[i].qty]) = Sum(Units(lines), T)
           /\ Sum(Units(lines), T) \in Nat
           /\ IsFiniteSet(T)
  <1> DEFINE f == [i \in T |-> lines[i].qty]
             u == Units(lines)
  <1>1. IsFiniteSet(T)
    BY FS_Subset DEF IsSample
  <1>2. \A i \in T : u[i] \in Nat /\ u[i] \in Int /\ f[i] = u[i] /\ f[i] \in Int
    BY SMT DEF IsSample, Units
  <1>3. DOMAIN f = T
    OBVIOUS
  <1> HIDE DEF f, u
  <1>4. Total(f) = Sum(f, T)
    BY <1>1, <1>2, <1>3, TotalIsSum
  <1>5. Sum(f, T) = Sum(u, T)
    BY <1>1, <1>2, SumSame
  <1>6. Sum(u, T) \in Nat
    BY <1>1, <1>2, SumNat
  <1> QED
    BY <1>1, <1>4, <1>5, <1>6 DEF f, u

\* An order that goes to some warehouses gives each of them a weight.
LEMMA ShareOf ==
    ASSUME NEW e, IsList(e), NEW G, G \subseteq Range(e), G # {}, NEW q \in Nat \ {0}
    PROVE  q * (Product([k \in 1 .. Len(e) |-> k]) \div Cardinality(G)) \in Nat \ {0}
  <1> DEFINE n == Len(e)
             p == Product([k \in 1 .. n |-> k])
             d == Cardinality(G)
  <1>1. n \in Nat /\ IsFiniteSet(DOMAIN e) /\ Cardinality(DOMAIN e) = n
    BY IntervalFinite DEF IsList
  <1>2. IsFiniteSet(Range(e)) /\ Cardinality(Range(e)) <= n /\ Cardinality(Range(e)) \in Nat
    BY <1>1, RangeFinite, FS_CardinalityType
  <1>3. d \in Nat /\ d <= n /\ d # 0
    <2>1. IsFiniteSet(G) /\ d <= Cardinality(Range(e))
      BY <1>2, FS_Subset
    <2>2. d \in Nat /\ d # 0
      BY <2>1, FS_CardinalityType, FS_EmptySet
    <2> QED
      BY SMT, <1>1, <1>2, <2>1, <2>2
  <1>4. p \in Nat /\ p >= n
    BY <1>1, ScaleBounds
  <1> HIDE DEF p, d, n
  <1>5. p \div d \in Nat /\ p \div d # 0
    <2>1. p \div d \in Nat /\ p % d \in Nat /\ p % d <= d - 1 /\ p = (d * (p \div d)) + (p % d)
      BY SMT, <1>3, <1>4, Division
    <2>2. p >= d
      BY SMT, <1>1, <1>3, <1>4
    <2>3. ASSUME p \div d = 0 PROVE FALSE
      <3>1. d * (p \div d) = 0
        BY SMT, <1>3, <2>3
      <3> QED
        BY SMT, <1>3, <2>1, <2>2, <3>1
    <2> QED
      BY <2>1, <2>3
  <1>6. \A a, b \in Nat \ {0} : a * b \in Nat \ {0}
    BY SMT
  <1> QED
    BY <1>5, <1>6 DEF p, d, n

\* A sample can be split by, and counts every unit of its lines once, as matched
\* or as unknown.
LEMMA SampleFacts ==
    ASSUME NEW lines, IsSample(lines), NEW book, NEW e, IsList(e)
    PROVE  /\ Splittable(Sample(lines, book, e), Len(e))
           /\ Sample(lines, book, e).matched + Sample(lines, book, e).unknown
                 = Sum(Units(lines), DOMAIN lines)
  <1> DEFINE goes(o) == MatchWarehouses(o.zip, book) \cap Range(e)
             D == DOMAIN lines
             known == {i \in D : goes(lines[i]) # {}}
             scale == Product([k \in 1 .. Len(e) |-> k])
             at(w) == {i \in known : w \in goes(lines[i])}
             share(w) == [i \in at(w) |-> lines[i].qty * (scale \div Cardinality(goes(lines[i])))]
             counts == [k \in DOMAIN e |-> Total(share(e[k]))]
             s == Sample(lines, book, e)
  <1>1. /\ s.matched = Total([i \in known |-> lines[i].qty])
        /\ s.unknown = Total([i \in D \ known |-> lines[i].qty])
        /\ s.counts = counts
    BY DEF Sample, Product
  <1>2. known \subseteq D /\ D \ known \subseteq D
    OBVIOUS
  <1>3. /\ s.matched = Sum(Units(lines), known) /\ s.matched \in Nat
        /\ s.unknown = Sum(Units(lines), D \ known) /\ s.unknown \in Nat
    <2> HIDE DEF known, s
    <2> QED
      BY SMT, <1>1, <1>2, UnitsOf
  <1>4. s.matched + s.unknown = Sum(Units(lines), D)
    <2>1. IsFiniteSet(D) /\ \A i \in D : Units(lines)[i] \in Int
      BY SMT DEF IsSample, Units
    <2>2. Sum(Units(lines), D) = Sum(Units(lines), known) + Sum(Units(lines), D \ known)
      <3> HIDE DEF known, D
      <3> QED
        BY <1>2, <2>1, SumPart
    <2> HIDE DEF s, known
    <2> QED
      BY <1>3, <2>2
  <1>5. ASSUME NEW w
        PROVE  /\ IsFiniteSet(at(w)) /\ Total(share(w)) = Sum(share(w), at(w))
               /\ Total(share(w)) \in Nat
               /\ \A i \in at(w) : share(w)[i] \in Nat \ {0}
    <2>1. IsFiniteSet(at(w))
      BY FS_Subset DEF IsSample
    <2>2. ASSUME NEW i \in at(w) PROVE share(w)[i] \in Nat \ {0}
      <3>1. goes(lines[i]) \subseteq Range(e) /\ goes(lines[i]) # {} /\ lines[i].qty \in Nat \ {0}
        BY DEF IsSample
      <3>2. share(w)[i] = lines[i].qty * (scale \div Cardinality(goes(lines[i])))
        OBVIOUS
      <3> HIDE DEF goes, share, at
      <3> QED
        BY <3>1, <3>2, ShareOf
    <2>3. DOMAIN share(w) = at(w)
      OBVIOUS
    <2> HIDE DEF share, at
    <2>4. \A i \in at(w) : share(w)[i] \in Int /\ share(w)[i] \in Nat
      BY SMT, <2>2
    <2>5. Total(share(w)) = Sum(share(w), at(w))
      BY <2>1, <2>3, <2>4, TotalIsSum
    <2>6. Sum(share(w), at(w)) \in Nat
      BY <2>1, <2>4, SumNat
    <2> QED
      BY <2>1, <2>2, <2>5, <2>6
  <1>6. DOMAIN counts = 1 .. Len(e) /\ \A k \in DOMAIN e : counts[k] = Total(share(e[k])) /\ counts[k] \in Nat
    <2>1. DOMAIN counts = 1 .. Len(e) /\ \A k \in DOMAIN e : counts[k] = Total(share(e[k]))
      BY DEF IsList
    <2> HIDE DEF counts, share, at
    <2> QED
      BY <1>5, <2>1
  <1> HIDE DEF counts
  <1>7. Weights(counts)
    <2>1. IsFiniteSet(1 .. Len(e)) /\ 1 .. Len(e) \subseteq Int
      BY IntervalFinite DEF IsList
    <2> HIDE DEF share
    <2> QED
      BY <1>6, <2>1 DEF Weights, IsList
  <1>8. ASSUME s.matched > 0 PROVE Total(counts) > 0
    <2>1. known # {}
      <3> SUFFICES ASSUME known = {} PROVE FALSE
        OBVIOUS
      <3> HIDE DEF known, s
      <3>1. Sum(Units(lines), known) = 0
        BY SumEmpty
      <3> QED
        BY SMT, <1>3, <1>8, <3>1
    <2>2. PICK i \in known : TRUE
      BY <2>1
    <2>3. PICK w \in goes(lines[i]) : TRUE
      OBVIOUS
    <2>4. PICK k \in DOMAIN e : e[k] = w
      BY <2>3 DEF Range
    <2>5. i \in at(w)
      OBVIOUS
    <2> HIDE DEF share, at, known, goes, s
    <2>6. Sum(share(w), at(w)) >= share(w)[i] /\ share(w)[i] \in Nat \ {0}
      <3>1. \A j \in at(w) : share(w)[j] \in Nat
        BY <1>5
      <3>2. share(w)[i] \in Nat \ {0} /\ IsFiniteSet(at(w))
        BY <1>5, <2>5
      <3> QED
        BY <2>5, <3>1, <3>2, SumTerm
    <2>7. counts[k] = Sum(share(w), at(w)) /\ counts[k] \in Nat
      BY <1>5, <1>6, <2>4
    <2>8. Sum(counts, DOMAIN counts) >= counts[k]
      <3>1. IsFiniteSet(DOMAIN counts) /\ \A j \in DOMAIN counts : counts[j] \in Nat
        BY <1>7 DEF Weights
      <3>2. k \in DOMAIN counts
        BY <1>6 DEF IsList
      <3> QED
        BY <3>1, <3>2, SumTerm
    <2>9. Total(counts) = Sum(counts, DOMAIN counts) /\ Total(counts) \in Nat
      BY <1>7, WeightsSum
    <2> QED
      BY SMT, <2>6, <2>7, <2>8, <2>9
  <1>9. Splittable(s, Len(e))
    <2> HIDE DEF s
    <2> QED
      BY <1>1, <1>3, <1>6, <1>7, <1>8 DEF Splittable
  <1> QED
    BY <1>4, <1>9

\* What a split promises: every unit goes to a warehouse, and when the warehouses of
\* all orders are known each gets its share but for less than a unit.
SplitOK(q, s, n, x) ==
    /\ n > 0 => Total(x.to) = q
    /\ x.mode = "matched" =>
          \A k \in 1 .. n : /\ x.to[k] * Total(s.counts) < q * s.counts[k] + Total(s.counts)
                            /\ x.to[k] * Total(s.counts) > q * s.counts[k] - Total(s.counts)

\* explain_country_qty_split keeps the promise.
LEMMA SplitFacts ==
    ASSUME NEW q \in Nat, NEW e, IsList(e), NEW s, Splittable(s, Len(e))
    PROVE  SplitOK(q, s, Len(e), SplitCountry(q, s, e))
  <1> DEFINE n == Len(e)
             D == 1 .. n
             x == SplitCountry(q, s, e)
             bucket == AllocateByWeights(q, <<s.matched, s.unknown>>)
             known == AllocateByWeights(bucket[1], s.counts)
             even == AllocateEven(bucket[2], n)
  <1>0. n \in Nat /\ IsFiniteSet(D)
    BY IntervalFinite DEF IsList
  <1>1. CASE s.matched > 0
    <2>1. /\ x.mode = IF s.unknown > 0 THEN "mixed_known_unknown" ELSE "matched"
          /\ x.to = [k \in 1 .. n |-> known[k] + even[k]]
      BY <1>1 DEF SplitCountry
    <2>2. s.matched \in Nat /\ s.unknown \in Nat /\ DOMAIN s.counts = D /\ Weights(s.counts) /\ Total(s.counts) > 0
      BY <1>1 DEF Splittable
    <2>3. /\ bucket[1] \in Nat /\ bucket[2] \in Nat /\ bucket[1] + bucket[2] = q
          /\ s.unknown = 0 => bucket[1] = q /\ bucket[2] = 0
      BY SMT, <1>1, <2>2, Buckets
    <2> HIDE DEF bucket, x
    <2>4. Shared(bucket[1], s.counts, known)
      BY <2>2, <2>3, ByWeights
    <2>5. /\ \A i \in D : even[i] \in Nat /\ (bucket[2] = 0 => even[i] = 0)
          /\ n > 0 => Sum(even, D) = bucket[2]
      <3> HIDE DEF n
      <3> QED
        BY SMT, <1>0, <2>3, Evenly
    <2>6. /\ \A i \in D : /\ known[i] \in Nat
                          /\ known[i] * Total(s.counts) < bucket[1] * s.counts[i] + Total(s.counts)
                          /\ known[i] * Total(s.counts) > bucket[1] * s.counts[i] - Total(s.counts)
          /\ Sum(known, D) = bucket[1]
      BY <2>2, <2>4 DEF Shared
    <2> HIDE DEF known, even
    <2>7. DOMAIN x.to = D /\ \A i \in D : x.to[i] = known[i] + even[i] /\ x.to[i] \in Int
      BY SMT, <2>1, <2>5, <2>6
    <2>8. n > 0 => Total(x.to) = q
      <3> SUFFICES ASSUME n > 0 PROVE Total(x.to) = q
        OBVIOUS
      <3> DEFINE to == x.to
      <3>1. IsFiniteSet(DOMAIN to) /\ \A i \in DOMAIN to : to[i] \in Int
        BY <1>0, <2>7
      <3>2. \A i \in D : known[i] \in Int /\ even[i] \in Int /\ to[i] = known[i] + even[i]
        BY SMT, <2>5, <2>6, <2>7
      <3>3. DOMAIN to = D
        BY <2>7
      <3> HIDE DEF to, D
      <3>4. Total(to) = Sum(to, DOMAIN to)
        BY <3>1, TotalIsSum
      <3>5. Sum(to, D) = Sum(known, D) + Sum(even, D)
        BY <1>0, <3>2, SumAdd
      <3> QED
        BY <2>3, <2>5, <2>6, <3>3, <3>4, <3>5 DEF to
    <2>9. ASSUME x.mode = "matched", NEW k \in D
          PROVE  /\ x.to[k] * Total(s.counts) < q * s.counts[k] + Total(s.counts)
                 /\ x.to[k] * Total(s.counts) > q * s.counts[k] - Total(s.counts)
      <3>1. s.unknown = 0
        BY SMT, <2>1, <2>2, <2>9
      <3>2. bucket[1] = q /\ even[k] = 0
        BY <2>3, <2>5, <3>1
      <3>3. x.to[k] = known[k]
        BY SMT, <2>6, <2>7, <3>2
      <3> QED
        BY <2>6, <3>2, <3>3
    <2> QED
      BY <2>8, <2>9 DEF SplitOK, x
  <1>2. CASE ~(s.matched > 0)
    <2>1. /\ x.mode = IF n > 0 THEN "fallback_even" ELSE "no_warehouse"
          /\ x.to = AllocateEven(q, n)
      BY <1>2 DEF SplitCountry
    <2>2. x.mode # "matched"
      BY <2>1
    <2>3. ASSUME n > 0 PROVE Total(x.to) = q
      <3> DEFINE to == x.to
      <3>1. DOMAIN to = D /\ (\A i \in D : to[i] \in Nat) /\ Sum(to, D) = q
        <4> HIDE DEF n, x
        <4> QED
          BY <1>0, <2>1, <2>3, Evenly
      <3> HIDE DEF to
      <3>2. Total(to) = Sum(to, DOMAIN to)
        <4>1. IsFiniteSet(DOMAIN to) /\ \A i \in DOMAIN to : to[i] \in Int
          BY SMT, <1>0, <3>1
        <4> QED
          BY <4>1, TotalIsSum
      <3> QED
        BY <3>1, <3>2 DEF to
    <2> HIDE DEF x
    <2> QED
      BY <2>2, <2>3 DEF SplitOK, x
  <1> QED
    BY <1>1, <1>2

\* _allocate_integer_quantity hands out no more than there is, nothing when there is
\* less than nothing, and never a negative quantity.
LEMMA Allotted ==
    ASSUME NEW total \in Int, NEW C, IsFiniteSet(C), C \subseteq Int, NEW v,
           \A s \in C : v[s] \in Nat,
           NEW to, to = AllocateInteger(total, C, v)
    PROVE  /\ \A s \in C : to[s] \in Nat
           /\ total <= 0 => \A s \in C : to[s] = 0
           /\ total > 0 => Sum(to, C) <= total
  <1> DEFINE even == \E s \in C : v[s] <= 0
             w == [s \in C |-> IF even THEN 1 ELSE v[s]]
             W == SumOf(w)
             base == [s \in C |-> (total * w[s]) \div W]
             rest == [s \in C |-> (total * w[s]) % W]
             ahead(s) == {t \in C : rest[t] > rest[s] \/ (rest[t] = rest[s] /\ t < s)}
  <1>1. to = [s \in C |-> IF total <= 0 THEN 0
                ELSE base[s] + IF Cardinality(ahead(s)) < total - SumOf(base) THEN 1 ELSE 0]
    BY DEF AllocateInteger
  <1>2. CASE total <= 0
    <2>1. \A s \in C : to[s] = 0
      BY <1>1, <1>2
    <2> QED
      BY SMT, <1>2, <2>1
  <1>3. CASE total > 0 /\ C = {}
    <2>1. Sum(to, C) = 0
      BY <1>3, SumEmpty
    <2> QED
      BY SMT, <1>3, <2>1
  <1>4. CASE total > 0 /\ C # {}
    <2>1. DOMAIN w = C /\ \A s \in C : w[s] \in Nat \ {0} /\ w[s] \in Nat
      BY SMT
    <2> HIDE DEF w
    <2>2. Weights(w)
      BY <2>1 DEF Weights
    <2>3. W = Sum(w, C) /\ W \in Nat /\ W > 0
      <3>1. W = Sum(w, C) /\ W \in Nat
        BY <2>1, <2>2, WeightsSum, SumOfTotal
      <3>2. PICK y \in C : TRUE
        BY <1>4
      <3>3. Sum(w, C) >= w[y]
        BY <2>1, SumTerm
      <3>4. w[y] \in Nat \ {0}
        BY <2>1
      <3> HIDE DEF W
      <3> QED
        BY SMT, <3>1, <3>3, <3>4
    <2> HIDE DEF W
    <2>4. total \in Nat
      BY SMT, <1>4
    <2>5. DOMAIN base = C /\ \A s \in C : base[s] = (total * w[s]) \div W
      OBVIOUS
    <2>6. \A s \in C : base[s] \in Int
      <3> TAKE s \in C
      <3>1. total * w[s] \in Nat
        BY <2>1, <2>4, Products
      <3>2. (total * w[s]) \div W \in Int
        BY SMT, <2>3, <3>1, Division
      <3> QED
        BY <2>5, <3>2
    <2>7. Floors(total, w, C, W, base)
      <3> HIDE DEF base
      <3> QED
        BY <2>1, <2>3, <2>4, <2>5 DEF Floors
    <2>8. SumOf(base) = Sum(base, C)
      <3> HIDE DEF base
      <3> QED
        BY <2>5, <2>6, TotalIsSum, SumOfTotal
    <2>9. \A s \in C : to[s] = base[s] +
              IF Cardinality(Ahead(total, w, W, C, s)) < total - Sum(base, C) THEN 1 ELSE 0
      <3> TAKE s \in C
      <3>1. ahead(s) = Ahead(total, w, W, C, s)
        BY DEF Ahead, Remainder
      <3>2. ~(total <= 0)
        BY SMT, <1>4
      <3> HIDE DEF base, ahead
      <3>3. to[s] = base[s] + IF Cardinality(ahead(s)) < total - SumOf(base) THEN 1 ELSE 0
        BY <1>1, <3>2
      <3> QED
        BY <2>8, <3>1, <3>3
    <2>10. (\A s \in C : to[s] \in Nat) /\ Sum(to, C) = total
      <3> HIDE DEF base
      <3>1. HandsOut(total, w, C, W, base, to)
        BY <2>9 DEF HandsOut
      <3>2. Proportional(total, w, C, W, to)
        BY <2>7, <3>1, LargestRemainders
      <3> QED
        BY <3>2 DEF Proportional
    <2> QED
      BY SMT, <1>4, <2>10
  <1> QED
    BY SMT, <1>2, <1>3, <1>4

-----------------------------------------------------------------------------
(* Components *)

\* Rules, stock and velocities, as the tables have them.
Shareable(R, stock, v) ==
    /\ IsFiniteSet(DOMAIN R) /\ DOMAIN R \subseteq Int
    /\ \A s \in DOMAIN R :
          /\ v[s] \in Nat
          /\ IsFiniteSet(R[s])
          /\ \A g \in R[s] : DOMAIN g # {} /\ \A c \in DOMAIN g : g[c] \in Nat \ {0}
    /\ IsFiniteSet(DOMAIN stock)
    /\ \A key \in DOMAIN stock : key = <<key[1], key[2]>> /\ stock[key] \in Int

\* A set of naturals has a least one.
LEMMA Least ==
    ASSUME NEW S, S \subseteq Nat, S # {}
    PROVE  \E k \in S : \A x \in S : k <= x
  <1>1. PICK k \in S : \A x \in S : ~(<<x, k>> \in OpToRel(<, Nat))
    BY NatLessThanWellFounded, WFMin
  <1>2. \A x \in S : ~(x < k)
    BY <1>1 DEF OpToRel
  <1> QED
    BY SMT, <1>2

\* What the consumers of a component in a warehouse get of it.
LEMMA Allotments ==
    ASSUME NEW R, NEW stock, NEW v, Shareable(R, stock, v),
           NEW c, NEW wh, <<c, wh>> \in DOMAIN stock,
           NEW to, to = AllocateInteger(stock[<<c, wh>>], Consumers(R, c), v)
    PROVE  /\ IsFiniteSet(Consumers(R, c)) /\ Consumers(R, c) \subseteq DOMAIN R
           /\ \A s \in Consumers(R, c) : Allocated(R, stock, v, s, c, wh) = to[s] /\ to[s] \in Nat
           /\ stock[<<c, wh>>] \in Int
           /\ stock[<<c, wh>>] <= 0 => \A s \in Consumers(R, c) : to[s] = 0
           /\ stock[<<c, wh>>] > 0 => Sum(to, Consumers(R, c)) <= stock[<<c, wh>>]
  <1> DEFINE C == Consumers(R, c)
             total == stock[<<c, wh>>]
  <1>1. C \subseteq DOMAIN R
    BY DEF Consumers
  <1>2. IsFiniteSet(C) /\ C \subseteq Int /\ (\A s \in C : v[s] \in Nat) /\ total \in Int
    BY <1>1, FS_Subset DEF Shareable
  <1>3. \A s \in C : Allocated(R, stock, v, s, c, wh) = to[s]
    BY DEF Allocated
  <1> HIDE DEF C, total
  <1>4. to = AllocateInteger(total, C, v)
    BY DEF C, total
  <1>5. /\ \A s \in C : to[s] \in Nat
        /\ total <= 0 => \A s \in C : to[s] = 0
        /\ total > 0 => Sum(to, C) <= total
    BY <1>2, <1>4, Allotted
  <1> QED
    BY <1>1, <1>2, <1>3, <1>5 DEF C, total

\* A group never needs more of a component than its commodity was given of it.
LEMMA Builds ==
    ASSUME NEW R, NEW stock, NEW v, Shareable(R, stock, v),
           NEW s \in DOMAIN R, NEW g \in R[s], NEW wh, NEW b, b = Buildable(R, stock, v, s, g, wh)
    PROVE  /\ b \in Nat
           /\ \A c \in DOMAIN g : <<c, wh>> \in DOMAIN stock =>
                 Allocated(R, stock, v, s, c, wh) \in Nat /\ g[c] * b <= Allocated(R, stock, v, s, c, wh)
  <1> DEFINE A(c) == Allocated(R, stock, v, s, c, wh)
             n(c) == Allocated(R, stock, v, s, c, wh) \div g[c]
             S == {n(c) : c \in DOMAIN g}
  <1>1. DOMAIN g # {} /\ \A c \in DOMAIN g : g[c] \in Nat \ {0}
    BY DEF Shareable
  <1>2. ASSUME NEW c \in DOMAIN g, <<c, wh>> \in DOMAIN stock
        PROVE  A(c) \in Nat /\ n(c) \in Nat /\ g[c] * n(c) <= A(c)
    <2>1. s \in Consumers(R, c)
      BY DEF Consumers
    <2>2. A(c) \in Nat
      BY SMT, <1>2, <2>1, Allotments
    <2> HIDE DEF A
    <2>3. n(c) = A(c) \div g[c]
      BY DEF A
    <2>4. g[c] \in Nat /\ g[c] > 0
      BY SMT, <1>1
    <2>5. A(c) \div g[c] \in Nat /\ A(c) % g[c] \in Nat /\ A(c) = (g[c] * (A(c) \div g[c])) + (A(c) % g[c])
      BY <2>2, <2>4, Division
    <2> HIDE DEF n
    <2>6. g[c] * n(c) \in Nat
      BY <2>3, <2>4, <2>5, Products
    <2> QED
      BY SMT, <2>2, <2>3, <2>5, <2>6
  <1>3. CASE \E c \in DOMAIN g : <<c, wh>> \notin DOMAIN stock
    <2>1. b = 0
      BY <1>3 DEF Buildable
    <2>2. \A c \in DOMAIN g : g[c] * 0 = 0
      BY SMT, <1>1
    <2> HIDE DEF n
    <2> QED
      BY SMT, <1>2, <2>1, <2>2
  <1>4. CASE \A c \in DOMAIN g : <<c, wh>> \in DOMAIN stock
    <2>1. b = CHOOSE k \in S : \A c \in DOMAIN g : k <= n(c)
      BY <1>4 DEF Buildable
    <2>2. \A c \in DOMAIN g : A(c) \in Nat /\ n(c) \in Nat /\ g[c] * n(c) <= A(c)
      BY <1>2, <1>4
    <2>3. S \subseteq Nat /\ S # {} /\ \A c \in DOMAIN g : n(c) \in S
      <3> HIDE DEF n, A
      <3> QED
        BY <1>1, <2>2
    <2>4. \E k \in S : \A c \in DOMAIN g : k <= n(c)
      <3> HIDE DEF S
      <3>1. PICK k \in S : \A x \in S : k <= x
        BY <2>3, Least
      <3> QED
        BY <2>3, <3>1
    <2> HIDE DEF S, n, A
    <2>5. b \in Nat /\ \A c \in DOMAIN g : b <= n(c)
      BY <2>1, <2>3, <2>4
    <2>6. ASSUME NEW c \in DOMAIN g PROVE g[c] * b <= A(c)
      <3>1. g[c] * b <= g[c] * n(c)
        BY <1>1, <2>2, <2>5, Products
      <3>2. g[c] * b \in Nat /\ g[c] * n(c) \in Nat
        BY <1>1, <2>2, <2>5, Products
      <3> QED
        BY SMT, <2>2, <3>1, <3>2
    <2> QED
      BY <2>2, <2>5, <2>6 DEF A
  <1> QED
    BY <1>3, <1>4

\* The assembled stock is a number: groups and warehouses are finitely many.
LEMMA MappedInt ==
    ASSUME NEW R, NEW stock, NEW v, Shareable(R, stock, v), NEW s \in DOMAIN R
    PROVE  MappedStock(R, stock, v, s) \in Int
  <1> DEFINE whs == {key[2] : key \in DOMAIN stock}
             sites == R[s] \X whs
             live  == {x \in sites : \E c \in DOMAIN x[1] : <<c, x[2]>> \in DOMAIN stock}
             f == [x \in live |-> Buildable(R, stock, v, s, x[1], x[2])]
  <1>0. IsFiniteSet(whs)
    <2> DEFINE h == [key \in DOMAIN stock |-> key[2]]
    <2>1. h \in Surjection(DOMAIN stock, whs)
      BY DEF Surjection
    <2>2. IsFiniteSet(DOMAIN stock)
      BY DEF Shareable
    <2> HIDE DEF h, whs
    <2> QED
      BY <2>1, <2>2, FS_Surjection
  <1>1. IsFiniteSet(sites)
    <2>1. IsFiniteSet(R[s])
      BY DEF Shareable
    <2> HIDE DEF whs
    <2> QED
      BY <1>0, <2>1, FS_Product
  <1>2. IsFiniteSet(live)
    BY <1>1, FS_Subset
  <1>3. \A x \in live : f[x] \in Int
    <2> TAKE x \in live
    <2>1. x[1] \in R[s]
      OBVIOUS
    <2>2. Buildable(R, stock, v, s, x[1], x[2]) \in Nat
      <3>1. ASSUME NEW g \in R[s], NEW wh PROVE Buildable(R, stock, v, s, g, wh) \in Nat
        BY Builds
      <3> QED
        BY <2>1, <3>1
    <2>3. f[x] = Buildable(R, stock, v, s, x[1], x[2])
      OBVIOUS
    <2> HIDE DEF f, live
    <2> QED
      BY SMT, <2>2, <2>3
  <1>4. MappedStock(R, stock, v, s) = IF live = {} THEN -1 ELSE SumOf(f)
    BY DEF MappedStock
  <1>5. DOMAIN f = live
    OBVIOUS
  <1> HIDE DEF f, live
  <1>6. SumOf(f) \in Int
    <2>1. Total(f) = Sum(f, live)
      BY <1>2, <1>3, <1>5, TotalIsSum
    <2>2. Sum(f, live) \in Int
      BY <1>2, <1>3, SumInt
    <2> QED
      BY <2>1, <2>2, SumOfTotal
  <1> QED
    BY SMT, <1>4, <1>6

\* When the groups of a commodity share no component, what all commodities could
\* assemble in a warehouse needs no more of a component than there is.
LEMMA Conserves ==
    ASSUME NEW R, NEW stock, NEW v, Shareable(R, stock, v), ~Overlapping(R),
           NEW c, NEW wh, <<c, wh>> \in DOMAIN stock,
           NEW used, used = Used(R, stock, v, c, wh)
    PROVE  used <= stock[<<c, wh>>] \/ used = 0
  <1> DEFINE C == Consumers(R, c)
             total == stock[<<c, wh>>]
             to == AllocateInteger(total, C, v)
             of(s) == {g \in R[s] : c \in DOMAIN g}
             need(s) == [g \in of(s) |-> g[c] * Buildable(R, stock, v, s, g, wh)]
             u == [s \in DOMAIN R |-> SumOf(need(s))]
  <1>1. used = SumOf(u)
    BY DEF Used
  <1>2. /\ IsFiniteSet(C) /\ C \subseteq DOMAIN R
        /\ \A s \in C : Allocated(R, stock, v, s, c, wh) = to[s] /\ to[s] \in Nat
        /\ total \in Int
        /\ total <= 0 => \A s \in C : to[s] = 0
        /\ total > 0 => Sum(to, C) <= total
    BY SMT, Allotments
  <1> HIDE DEF to, total
  <1>3. ASSUME NEW s \in DOMAIN R, NEW g \in of(s)
        PROVE  s \in C /\ need(s)[g] \in Nat /\ need(s)[g] <= to[s]
    <2>1. s \in C
      BY DEF Consumers
    <2>2. need(s)[g] = g[c] * Buildable(R, stock, v, s, g, wh)
      OBVIOUS
    <2>3. /\ Buildable(R, stock, v, s, g, wh) \in Nat
          /\ g[c] * Buildable(R, stock, v, s, g, wh) <= Allocated(R, stock, v, s, c, wh)
      BY Builds
    <2>4. g[c] \in Nat
      BY DEF Shareable
    <2>5. g[c] * Buildable(R, stock, v, s, g, wh) \in Nat
      BY <2>3, <2>4, Products
    <2> HIDE DEF need, of, C
    <2> QED
      BY <1>2, <2>1, <2>2, <2>3, <2>5
  <1>4. ASSUME NEW s \in DOMAIN R
        PROVE  /\ u[s] \in Nat
               /\ s \in C => u[s] <= to[s]
               /\ s \notin C => u[s] = 0
    <2>1. u[s] = SumOf(need(s)) /\ DOMAIN need(s) = of(s)
      OBVIOUS
    <2>2. IsFiniteSet(of(s))
      BY FS_Subset DEF Shareable
    <2>3. \A g \in of(s) : s \in C /\ need(s)[g] \in Nat /\ need(s)[g] <= to[s]
      BY <1>3
    <2>4. \A g, h \in of(s) : g = h
      BY DEF Overlapping
    <2> HIDE DEF need, of, C, u
    <2>5. u[s] = Sum(need(s), of(s))
      <3>1. \A g \in of(s) : need(s)[g] \in Int
        BY SMT, <2>3
      <3>2. Total(need(s)) = Sum(need(s), of(s))
        BY <2>1, <2>2, <3>1, TotalIsSum
      <3> QED
        BY <2>1, <3>2, SumOfTotal
    <2>6. CASE of(s) = {}
      <3>1. Sum(need(s), of(s)) = 0
        BY <2>6, SumEmpty
      <3> QED
        BY SMT, <1>2, <2>5, <3>1
    <2>7. CASE of(s) # {}
      <3>1. PICK g \in of(s) : TRUE
        BY <2>7
      <3>2. Sum(need(s), of(s)) = need(s)[g] + Sum(need(s), of(s) \ {g})
        <4>1. \A h \in of(s) : need(s)[h] \in Int
          BY SMT, <2>3
        <4> QED
          BY SMT, <2>2, <4>1, SumRemove
      <3>3. of(s) \ {g} = {}
        BY <2>4
      <3>4. Sum(need(s), of(s) \ {g}) = 0
        BY <3>3, SumEmpty
      <3>5. need(s)[g] \in Nat /\ need(s)[g] <= to[s] /\ s \in C
        BY <2>3
      <3> QED
        BY SMT, <2>5, <3>2, <3>4, <3>5
    <2> QED
      BY <2>6, <2>7
  <1>5. DOMAIN u = DOMAIN R /\ IsFiniteSet(DOMAIN R)
    BY DEF Shareable
  <1> HIDE DEF u, C, need, of
  <1>6. used = Sum(u, DOMAIN R)
    <2>1. \A s \in DOMAIN R : u[s] \in Int
      BY SMT, <1>4
    <2>2. Total(u) = Sum(u, DOMAIN R)
      BY <1>5, <2>1, TotalIsSum
    <2> QED
      BY <1>1, <2>2, SumOfTotal
  <1>7. Sum(u, DOMAIN R) = Sum(u, C)
    <2>1. (\A s \in DOMAIN R : u[s] \in Int) /\ \A s \in DOMAIN R \ C : u[s] = 0
      BY SMT, <1>4
    <2> QED
      BY <1>2, <1>5, <2>1, SumSupport
  <1>8. \A s \in C : u[s] \in Nat /\ u[s] <= to[s] /\ to[s] \in Nat
    BY <1>2, <1>4
  <1>9. CASE total <= 0
    <2>1. \A s \in C : u[s] = 0
      BY SMT, <1>2, <1>8, <1>9
    <2>2. Sum(u, C) = 0
      BY <1>2, <2>1, SumZero
    <2> QED
      BY <1>6, <1>7, <2>2
  <1>10. CASE total > 0
    <2>1. \A s \in C : u[s] \in Int /\ to[s] \in Int /\ u[s] <= to[s]
      BY SMT, <1>8
    <2>2. Sum(u, C) <= Sum(to, C)
      BY <1>2, <2>1, SumAtMost
    <2>3. Sum(u, C) \in Int /\ Sum(to, C) \in Int
      BY <1>2, <2>1, SumInt
    <2> QED
      BY SMT, <1>2, <1>6, <1>7, <1>10, <2>2, <2>3 DEF total
  <1> QED
    BY SMT, <1>2, <1>9, <1>10

-----------------------------------------------------------------------------
(* The steps *)

\* The velocity that the current orders give.
Speed(c) == 150 * Sold(c, 7) + 45 * Sold(c, 14) + 14 * Sold(c, 30)

\* What is known of a country once step 3 is done.
Explained(c) ==
    /\ qty[c] \in Nat
    /\ qty[c] > 0 => Unit * (qty[c] - 1) <= Short(c) /\ Short(c) <= Unit * qty[c]
    /\ c \in Allowed /\ velocity[c] > 0 /\ qty[c] = 0
          => c \in warned \/ (inventory[c] # -1 /\ Short(c) <= 0)

\* Until a sync commits, the velocity is that of the current orders.
SalesInv ==
    /\ orders \in Seq(OrderLines)
    /\ velocity \in [Countries -> Nat]
    /\ phase # "start" /\ synced = "no" => \A c \in Countries : velocity[c] = Speed(c)

\* After step 2 the stock is known.
StockInv ==
    phase \notin {"start", "velocity"} => mapping \in Mappings /\ inventory \in [Countries -> Int]

\* After step 3 every country is accounted for.
QtyInv ==
    phase \notin {"start", "velocity", "stock"} => \A c \in Countries : Explained(c)

\* The item is split by the orders as they are.
ItemInv ==
    phase = "item" =>
      \A c \in Restocked : /\ samples[c] = Sample(Lines(c), rules, Eligible[c])
                           /\ split[c] = SplitCountry(qty[c], samples[c], Eligible[c])

\* The inductive invariant.
EngineInv == SalesInv /\ StockInv /\ QtyInv /\ ItemInv

\* The lines of a country are a sample: order lines of a positive quantity.
LEMMA LinesAreSample ==
    ASSUME orders \in Seq(OrderLines), NEW c
    PROVE  IsSample(Lines(c)) /\ DOMAIN Lines(c) = Selected(c)
  <1>1. DOMAIN orders = 1 .. Len(orders) /\ Len(orders) \in Nat
    BY SMT
  <1>2. IsFiniteSet(Selected(c))
    <2>1. IsFiniteSet(DOMAIN orders)
      BY <1>1, IntervalFinite
    <2> QED
      BY <2>1, FS_Subset DEF Selected
  <1>3. DOMAIN Lines(c) = Selected(c) /\ \A i \in Selected(c) : Lines(c)[i] = orders[i]
    BY DEF Lines
  <1>4. ASSUME NEW i \in Selected(c) PROVE orders[i].qty \in Nat \ {0}
    <2>1. orders[i] \in OrderLines /\ orders[i].qty > 0
      BY SMT DEF Selected
    <2>2. orders[i].qty \in Int
      BY <2>1, EngineAssumption
    <2> QED
      BY SMT, <2>1, <2>2
  <1> QED
    BY <1>2, <1>3, <1>4 DEF IsSample

\* The lines of the last n days.
Recent(c, n) == {i \in Selected(c) : InWindow(orders[i], n)}

\* The units sold in the last n days.
LEMMA SoldIs ==
    ASSUME orders \in Seq(OrderLines), NEW c, NEW n
    PROVE  Sold(c, n) = Sum(Units(Lines(c)), Recent(c, n)) /\ Sold(c, n) \in Nat
  <1>1. Recent(c, n) \subseteq Selected(c)
    BY DEF Recent
  <1>2. [i \in Recent(c, n) |-> orders[i].qty] = [i \in Recent(c, n) |-> Lines(c)[i].qty]
    BY <1>1 DEF Lines
  <1>3. Total([i \in Recent(c, n) |-> Lines(c)[i].qty]) = Sum(Units(Lines(c)), Recent(c, n))
        /\ Sum(Units(Lines(c)), Recent(c, n)) \in Nat
    <2>1. IsSample(Lines(c)) /\ Recent(c, n) \subseteq DOMAIN Lines(c)
      BY <1>1, LinesAreSample
    <2> QED
      BY <2>1, UnitsOf
  <1>4. Sold(c, n) = Total([i \in Recent(c, n) |-> orders[i].qty])
    BY DEF Sold, Recent
  <1> QED
    BY <1>2, <1>3, <1>4

\* More days have more units; 30 days have all units of the sample.
LEMMA SoldGrows ==
    ASSUME orders \in Seq(OrderLines), NEW c
    PROVE  /\ Sold(c, 7) \in Nat /\ Sold(c, 14) \in Nat /\ Sold(c, 30) \in Nat
           /\ Sold(c, 7) <= Sold(c, 14) /\ Sold(c, 14) <= Sold(c, 30)
           /\ Sold(c, 30) = Sum(Units(Lines(c)), DOMAIN Lines(c))
  <1> DEFINE u == Units(Lines(c))
  <1>1. IsSample(Lines(c)) /\ DOMAIN Lines(c) = Selected(c)
    BY LinesAreSample
  <1>2. ASSUME NEW T, NEW S, T \subseteq S, S \subseteq Selected(c)
        PROVE  Sum(u, T) <= Sum(u, S)
    <2>1. IsFiniteSet(S) /\ \A i \in S : u[i] \in Int /\ u[i] \in Nat
      BY SMT, <1>1, <1>2, FS_Subset DEF IsSample, Units
    <2> HIDE DEF u
    <2>2. Sum(u, S) = Sum(u, T) + Sum(u, S \ T)
      BY <1>2, <2>1, SumPart
    <2>3. Sum(u, T) \in Nat /\ Sum(u, S \ T) \in Nat
      <3>1. IsFiniteSet(T) /\ IsFiniteSet(S \ T)
        BY <1>2, <2>1, FS_Subset
      <3>2. (\A i \in T : u[i] \in Nat) /\ \A i \in S \ T : u[i] \in Nat
        BY <1>2, <2>1
      <3> QED
        BY <3>1, <3>2, SumNat
    <2> QED
      BY SMT, <2>2, <2>3
  <1>3. /\ Recent(c, 7) \subseteq Recent(c, 14) /\ Recent(c, 14) \subseteq Recent(c, 30)
        /\ Recent(c, 30) = Selected(c)
    BY SMT DEF Recent, Selected, InWindow
  <1>4. Recent(c, 14) \subseteq Selected(c) /\ Recent(c, 30) \subseteq Selected(c)
    BY DEF Recent
  <1> HIDE DEF u
  <1>5. Sum(u, Recent(c, 7)) <= Sum(u, Recent(c, 14)) /\ Sum(u, Recent(c, 14)) <= Sum(u, Recent(c, 30))
    BY <1>2, <1>3, <1>4
  <1>6. \A n : Sold(c, n) = Sum(u, Recent(c, n)) /\ Sold(c, n) \in Nat
    BY SoldIs DEF u
  <1> QED
    BY SMT, <1>1, <1>3, <1>5, <1>6 DEF u

\* It holds before step 1.
LEMMA InitEngine == Init => EngineInv
  <1> SUFFICES ASSUME Init PROVE EngineInv
    OBVIOUS
  <1>1. SalesInv
    BY EngineAssumption DEF Init, SalesInv
  <1>2. StockInv /\ QtyInv /\ ItemInv
    BY DEF Init, StockInv, QtyInv, ItemInv
  <1> QED
    BY <1>1, <1>2 DEF EngineInv

\* Velocity and sample depend on the orders only.
LEMMA SameOrders ==
    ASSUME orders' = orders, NEW c
    PROVE  /\ Speed(c)' = Speed(c) /\ Lines(c)' = Lines(c)
  BY DEF Speed, Sold, Lines, Selected, InWindow

\* Step 1 computes the velocity; a sync after it is noted.
LEMMA SalesStep == ASSUME EngineInv, [Next]_vars PROVE SalesInv'
  <1>0. SalesInv
    BY DEF EngineInv
  <1>1. CASE Step1
    <2>1. ASSUME NEW c \in Countries PROVE Speed(c) \in Nat
      BY SMT, <1>0, SoldGrows DEF Speed, SalesInv
    <2>2. orders' = orders /\ velocity' = [c \in Countries |-> Speed(c)]
      BY <1>1 DEF Step1, Speed
    <2>3. \A c \in Countries : velocity'[c] = Speed(c)'
      BY <2>2, SameOrders
    <2> QED
      BY <1>0, <2>1, <2>2, <2>3 DEF SalesInv
  <1>2. CASE OrdersSynced
    <2>1. PICK line \in LateOrders : orders' = Append(orders, line)
      BY <1>2 DEF OrdersSynced
    <2>2. orders' \in Seq(OrderLines)
      BY SMT, <1>0, <2>1, EngineAssumption DEF SalesInv
    <2>3. synced' # "no" /\ velocity' = velocity
      BY <1>2 DEF OrdersSynced
    <2> QED
      BY <1>0, <2>2, <2>3 DEF SalesInv
  <1>3. CASE Step2 \/ Step3 \/ Step4 \/ Step5 \/ Done \/ UNCHANGED vars
    <2>1. UNCHANGED <<orders, velocity, synced>> /\ (phase = "start" => phase' = "start")
      BY <1>3 DEF Step2, Step3, Step4, Step5, Done, vars
    <2>2. \A c : Speed(c)' = Speed(c)
      BY <2>1, SameOrders
    <2> QED
      BY <1>0, <2>1, <2>2 DEF SalesInv
  <1> QED
    BY <1>1, <1>2, <1>3 DEF Next

\* The mapping step 2 reads can be shared out by the velocities.
LEMMA Shares ==
    ASSUME SalesInv, NEW m \in Mappings
    PROVE  Shareable(m.rules, m.stock, Weight(m)) /\ Sku \in DOMAIN m.rules /\ m.country \in Countries
  <1>1. IsMapping(m)
    BY EngineAssumption
  <1>2. \A s \in DOMAIN m.rules : Weight(m)[s] \in Nat
    BY <1>1 DEF IsMapping, Weight, SalesInv
  <1> QED
    BY <1>1, <1>2 DEF IsMapping, Shareable

\* Step 2 adds what can be assembled.
LEMMA StockStep == ASSUME EngineInv, [Next]_vars PROVE StockInv'
  <1>0. SalesInv /\ StockInv
    BY DEF EngineInv
  <1>1. CASE Step2
    <2>1. PICK direct \in Stocks, m \in Mappings :
             LET built == MappedStock(m.rules, m.stock, Weight(m), Sku)
             IN  /\ mapping' = m
                 /\ inventory' = [direct EXCEPT ![m.country] =
                                     IF built = -1 THEN @ ELSE IF @ = -1 THEN built ELSE @ + built]
      BY <1>1 DEF Step2
    <2> DEFINE built == MappedStock(m.rules, m.stock, Weight(m), Sku)
    <2>2. built \in Int
      <3>1. Shareable(m.rules, m.stock, Weight(m)) /\ Sku \in DOMAIN m.rules
        BY <1>0, Shares
      <3> QED
        BY <3>1, MappedInt
    <2>3. direct \in [Countries -> Int]
      BY EngineAssumption
    <2>4. /\ mapping' = m
          /\ inventory' = [direct EXCEPT ![m.country] =
                              IF built = -1 THEN @ ELSE IF @ = -1 THEN built ELSE @ + built]
      BY <2>1
    <2>5. m.country \in Countries
      BY <1>0, Shares
    <2> HIDE DEF built
    <2>6. inventory' \in [Countries -> Int]
      BY SMT, <2>2, <2>3, <2>4, <2>5
    <2> QED
      BY <2>4, <2>6 DEF StockInv
  <1>2. CASE ~Step2
    <2>1. UNCHANGED <<inventory, mapping>>
          /\ (phase \in {"start", "velocity"} => phase' \in {"start", "velocity"})
      <3>1. CASE Step1
        BY <3>1 DEF Step1
      <3>2. CASE Step3 \/ Step4 \/ Step5
        BY <3>2 DEF Step3, Step4, Step5
      <3>3. CASE OrdersSynced \/ Done \/ UNCHANGED vars
        BY <3>3 DEF OrdersSynced, Done, vars
      <3> QED
        BY <1>2, <3>1, <3>2, <3>3 DEF Next
    <2> QED
      BY <1>0, <2>1 DEF StockInv
  <1> QED
    BY <1>1, <1>2

\* The rounding of step 3, for a shortage of n in 1/2100, although the float may
\* round a whole value up.
LEMMA Rounded ==
    ASSUME NEW n \in Int, n >= 0,
           NEW q, q = CeilDiv(n, Unit) \/ (n % Unit = 0 /\ q = (n \div Unit) + 1)
    PROVE  q \in Nat /\ Unit * (q - 1) <= n /\ n <= Unit * q
  <1>1. CASE q = CeilDiv(n, Unit)
    BY SMT, <1>1 DEF CeilDiv, Unit
  <1>2. CASE n % Unit = 0 /\ q = (n \div Unit) + 1
    BY SMT, <1>2 DEF Unit
  <1> QED
    BY <1>1, <1>2

\* Step 3 accounts for every country; later steps leave it at that.
LEMMA QtyStep == ASSUME EngineInv, [Next]_vars PROVE QtyInv'
  <1>0. SalesInv /\ StockInv /\ QtyInv
    BY DEF EngineInv
  <1>1. CASE Step3
    <2> SUFFICES ASSUME NEW c \in Countries PROVE Explained(c)'
      BY DEF QtyInv
    <2>1. inventory[c] \in Int /\ velocity[c] \in Nat /\ TargetDays \in Nat
      BY <1>0, <1>1, EngineAssumption DEF Step3, StockInv, SalesInv
    <2>2. Short(c) \in Int
      BY SMT, <2>1 DEF Short, Unit
    <2>3. PICK up \in [Countries -> BOOLEAN] :
            qty' = [d \in Countries |->
                       IF d \in Allowed /\ velocity[d] > 0 /\ inventory[d] # -1 /\ Short(d) >= 0
                       THEN IF up[d] /\ Short(d) % Unit = 0 THEN Short(d) \div Unit + 1
                                                            ELSE CeilDiv(Short(d), Unit)
                       ELSE 0]
      BY <1>1 DEF Step3
    <2>4. UNCHANGED <<velocity, inventory>> /\ warned' = {d \in Allowed : velocity[d] > 0 /\ inventory[d] = -1}
      BY <1>1 DEF Step3
    <2>5. Short(c)' = Short(c)
      BY <2>4 DEF Short
    <2> DEFINE counted == c \in Allowed /\ velocity[c] > 0 /\ inventory[c] # -1 /\ Short(c) >= 0
    <2>6. CASE counted
      <3>1. qty'[c] = CeilDiv(Short(c), Unit) \/ (Short(c) % Unit = 0 /\ qty'[c] = (Short(c) \div Unit) + 1)
        BY <2>3, <2>6
      <3>2. qty'[c] \in Nat /\ Unit * (qty'[c] - 1) <= Short(c) /\ Short(c) <= Unit * qty'[c]
        BY <2>2, <2>6, <3>1, Rounded
      <3>3. ASSUME qty'[c] = 0 PROVE Short(c) <= 0
        BY SMT, <2>2, <3>2, <3>3 DEF Unit
      <3> QED
        BY <2>4, <2>5, <2>6, <3>2, <3>3 DEF Explained
    <2>7. CASE ~counted
      <3>1. qty'[c] = 0
        BY <2>3, <2>7
      <3>2. c \in Allowed /\ velocity[c] > 0 => c \in warned' \/ (inventory[c] # -1 /\ Short(c) <= 0)
        BY SMT, <2>2, <2>4, <2>7
      <3> QED
        BY SMT, <2>4, <2>5, <3>1, <3>2 DEF Explained
    <2> QED
      BY <2>6, <2>7
  <1>2. CASE ~Step3
    <2>1. phase' \in {"start", "velocity", "stock"}
          \/ (UNCHANGED <<qty, velocity, inventory, warned>> /\ phase \notin {"start", "velocity", "stock"})
      <3>1. CASE Step1 \/ Step2
        BY <3>1 DEF Step1, Step2
      <3>2. CASE Step4 \/ Step5
        BY <3>2 DEF Step4, Step5
      <3>3. CASE OrdersSynced \/ Done \/ UNCHANGED vars
        BY <3>3 DEF OrdersSynced, Done, vars
      <3> QED
        BY <1>2, <3>1, <3>2, <3>3 DEF Next
    <2> QED
      BY <1>0, <2>1 DEF QtyInv, Explained, Short
  <1> QED
    BY <1>1, <1>2

\* Step 5 splits by the lines of now, and nothing changes after it.
LEMMA ItemStep == ASSUME EngineInv, [Next]_vars PROVE ItemInv'
  <1>0. ItemInv
    BY DEF EngineInv
  <1>1. CASE Step5
    <2>1. /\ UNCHANGED <<orders, qty>>
          /\ samples' = [c \in Restocked |-> Sample(Lines(c), rules', Eligible[c])]
          /\ split' = [c \in Restocked |-> SplitCountry(qty[c], samples'[c], Eligible[c])]
      BY <1>1 DEF Step5
    <2>2. \A c : Lines(c)' = Lines(c)
      BY <2>1, SameOrders
    <2>3. Restocked' = Restocked
      BY <2>1 DEF Restocked
    <2> QED
      BY <2>1, <2>2, <2>3 DEF ItemInv
  <1>2. CASE ~Step5
    <2>1. phase' # "item" \/ (phase = "item" /\ UNCHANGED <<orders, qty, samples, split, rules>>)
      <3>1. CASE Step1 \/ Step2 \/ Step3
        BY <3>1 DEF Step1, Step2, Step3
      <3>2. CASE Step4
        BY <3>2 DEF Step4
      <3>3. CASE OrdersSynced \/ Done \/ UNCHANGED vars
        BY <3>3 DEF OrdersSynced, Done, vars
      <3> QED
        BY <1>2, <3>1, <3>2, <3>3 DEF Next
    <2>2. CASE phase' # "item"
      BY <2>2 DEF ItemInv
    <2>3. CASE phase = "item" /\ UNCHANGED <<orders, qty, samples, split, rules>>
      <3>1. \A c : Lines(c)' = Lines(c)
        BY <2>3, SameOrders
      <3>2. Restocked' = Restocked
        BY <2>3 DEF Restocked
      <3> QED
        BY <1>0, <2>3, <3>1, <3>2 DEF ItemInv
    <2> QED
      BY <2>1, <2>2, <2>3
  <1> QED
    BY <1>1, <1>2

\* What each step of the pipeline has computed is what its inputs give, for every
\* order book, mapping, stock and set of rules.
THEOREM EngineInvariant == Spec => []EngineInv
  <1>1. EngineInv /\ [Next]_vars => EngineInv'
    <2> SUFFICES ASSUME EngineInv, [Next]_vars PROVE EngineInv'
      OBVIOUS
    <2>1. SalesInv' /\ StockInv' /\ QtyInv' /\ ItemInv'
      BY SalesStep, StockStep, QtyStep, ItemStep
    <2> QED
      BY <2>1 DEF EngineInv
  <1> QED
    BY <1>1, InitEngine, PTL DEF Spec

\* The sample and the split of a country that is restocked.
LEMMA ItemFacts ==
    ASSUME EngineInv, phase = "item", NEW c \in Restocked
    PROVE  /\ Splittable(samples[c], Len(Eligible[c])) /\ IsList(Eligible[c])
           /\ samples[c].matched + samples[c].unknown = Sold(c, 30)
           /\ SplitOK(qty[c], samples[c], Len(Eligible[c]), split[c])
  <1>1. orders \in Seq(OrderLines) /\ c \in Countries /\ qty[c] \in Nat
    BY DEF EngineInv, SalesInv, QtyInv, Explained, Restocked
  <1>2. IsList(Eligible[c])
    BY <1>1, EngineAssumption DEF IsList
  <1>3. samples[c] = Sample(Lines(c), rules, Eligible[c]) /\ split[c] = SplitCountry(qty[c], samples[c], Eligible[c])
    BY DEF EngineInv, ItemInv
  <1>4. IsSample(Lines(c))
    BY <1>1, LinesAreSample
  <1>5. /\ Splittable(samples[c], Len(Eligible[c]))
        /\ samples[c].matched + samples[c].unknown = Sum(Units(Lines(c)), DOMAIN Lines(c))
    BY <1>2, <1>3, <1>4, SampleFacts
  <1>6. Sold(c, 30) = Sum(Units(Lines(c)), DOMAIN Lines(c))
    BY <1>1, SoldGrows
  <1>7. SplitOK(qty[c], samples[c], Len(Eligible[c]), split[c])
    BY <1>1, <1>2, <1>3, <1>5, SplitFacts
  <1> QED
    BY <1>2, <1>5, <1>6, <1>7

\* For any number of orders, warehouses, rules and countries: the quantities of the
\* warehouses add up to the country's, and follow the orders when their warehouses are known
\* (explain_country_qty_split).
THEOREM SplitFollows == Spec => []SplitFollowsOrders
  <1>1. EngineInv => SplitFollowsOrders
    <2> SUFFICES ASSUME EngineInv, phase = "item", NEW c \in Restocked
                 PROVE  /\ Eligible[c] # <<>> => Total(split[c].to) = qty[c]
                        /\ split[c].mode = "matched" =>
                              \A k \in DOMAIN Eligible[c] :
                                 /\ split[c].to[k] * Total(samples[c].counts)
                                      < qty[c] * samples[c].counts[k] + Total(samples[c].counts)
                                 /\ split[c].to[k] * Total(samples[c].counts)
                                      > qty[c] * samples[c].counts[k] - Total(samples[c].counts)
      BY DEF SplitFollowsOrders
    <2>1. SplitOK(qty[c], samples[c], Len(Eligible[c]), split[c]) /\ IsList(Eligible[c])
      BY ItemFacts
    <2>2. Eligible[c] # <<>> => Len(Eligible[c]) > 0
      BY SMT, <2>1 DEF IsList
    <2> QED
      BY <2>1, <2>2 DEF SplitOK, IsList
  <1> QED
    BY <1>1, EngineInvariant, PTL

\* Step 5 splits by the units step 1 has computed the velocity from, unless an
\* order sync has committed in between (run_step1, load_all_sku_country_orders).
THEOREM SampleMatchesVelocity == Spec => []SampleIsVelocity
  <1>1. EngineInv => SampleIsVelocity
    <2> SUFFICES ASSUME EngineInv, phase = "item", synced = "no", NEW c \in Restocked
                 PROVE  /\ 14 * (samples[c].matched + samples[c].unknown) <= velocity[c]
                        /\ velocity[c] <= 209 * (samples[c].matched + samples[c].unknown)
      BY DEF SampleIsVelocity
    <2>1. samples[c].matched + samples[c].unknown = Sold(c, 30)
      BY ItemFacts
    <2>2. orders \in Seq(OrderLines) /\ velocity[c] = Speed(c)
      BY DEF EngineInv, SalesInv, Restocked
    <2>3. /\ Sold(c, 7) \in Nat /\ Sold(c, 14) \in Nat /\ Sold(c, 30) \in Nat
          /\ Sold(c, 7) <= Sold(c, 14) /\ Sold(c, 14) <= Sold(c, 30)
      BY <2>2, SoldGrows
    <2>4. 14 * Sold(c, 30) <= Speed(c) /\ Speed(c) <= 209 * Sold(c, 30)
      BY SMT, <2>3 DEF Speed
    <2> QED
      BY <2>1, <2>2, <2>4
  <1> QED
    BY <1>1, EngineInvariant, PTL

\* No country that sells is left out without a reason that is recorded
\* (compute_country_qty, _missing_inventory_countries_by_sku).
THEOREM CountriesExplained == Spec => []EveryCountryExplained
  <1>1. EngineInv => EveryCountryExplained
    BY EngineAssumption DEF EngineInv, QtyInv, Explained, EveryCountryExplained
  <1> QED
    BY <1>1, EngineInvariant, PTL

\* A restocked country reaches the target days and is over it by less than a unit
\* (compute_country_qty).
THEOREM RestockIsEnough == Spec => []RestockReachesTarget
  <1>1. EngineInv => RestockReachesTarget
    BY DEF EngineInv, QtyInv, Explained, RestockReachesTarget, Restocked
  <1> QED
    BY <1>1, EngineInvariant, PTL

\* Commodities that share components are not promised the same component twice
\* (compute_mapped_stock_by_country).
THEOREM ComponentsAreConserved == Spec => []ComponentsConserved
  <1>1. EngineInv => ComponentsConserved
    <2> SUFFICES ASSUME EngineInv, phase \notin {"start", "velocity"}, ~Overlapping(mapping.rules),
                        NEW key \in DOMAIN mapping.stock,
                        NEW used, used = Used(mapping.rules, mapping.stock, Weight(mapping), key[1], key[2])
                 PROVE  used <= mapping.stock[key] \/ used = 0
      BY DEF ComponentsConserved
    <2>1. Shareable(mapping.rules, mapping.stock, Weight(mapping))
      BY Shares DEF EngineInv, StockInv
    <2>2. key = <<key[1], key[2]>>
      BY <2>1 DEF Shareable
    <2> DEFINE c == key[1]
               wh == key[2]
    <2>3. <<c, wh>> \in DOMAIN mapping.stock /\ mapping.stock[key] = mapping.stock[<<c, wh>>]
      BY <2>2
    <2> HIDE DEF c, wh
    <2>4. used <= mapping.stock[<<c, wh>>] \/ used = 0
      BY SMT, <2>1, <2>3, Conserves DEF c, wh
    <2> QED
      BY <2>3, <2>4
  <1> QED
    BY <1>1, EngineInvariant, PTL
=============================================================================
