-------------------------- MODULE AllocationProofs --------------------------
(***************************************************************************)
(* Sums over finite sets, and how the engine shares a quantity out: for    *)
(* any number of weights, the method of largest remainders that the        *)
(* warehouse split (_allocate_by_weights) and the sharing of components    *)
(* between commodities (_allocate_integer_quantity) both use gives out     *)
(* every unit, and no share is off by a unit.  Inductions over the size of *)
(* a set look for a smallest counterexample.                               *)
(***************************************************************************)
EXTENDS WarehouseSplit, StockMapping, FiniteSetTheorems, TLAPS

\* Sets of subsets of a finite set have a minimal member: the inductions over the
\* size of a set below look for a minimal counterexample.
LEMMA SubLeast ==
    ASSUME NEW S, IsFiniteSet(S), NEW T, T \subseteq SUBSET S, T # {}
    PROVE \E x \in T : \A y \in T : ~(y \subseteq x /\ y # x)
  <1>0. FiniteSubsetsOf(S) = SUBSET S
    BY FS_FiniteSubsetsOfFinite
  <1>1. PICK x \in T : \A y \in T : ~(<<y, x>> \in StrictSubsetOrdering(S))
    BY <1>0, FS_StrictSubsetOrderingWellFounded, WFMin
  <1> QED
    BY <1>1 DEF StrictSubsetOrdering

\* How a fold takes a set apart.
First(s) == CHOOSE x \in s : TRUE
Rest(s) == s \ {First(s)}
Fold(o, base, f, s, g) == IF s = {} THEN base ELSE o[f[First(s)]][g[Rest(s)]]
\* g is the function a fold of f with the operation o, given as a function, applies.
Folds(o, base, f, S, g) == g = [s \in SUBSET S |-> Fold(o, base, f, s, g)]

\* The first element of a set is one of it.
LEMMA FirstIn ==
    ASSUME NEW s, s # {}
    PROVE  First(s) \in s /\ Rest(s) \subseteq s /\ Rest(s) # s
  BY DEF First, Rest

\* Folds over a set and over a larger one agree.
LEMMA FoldsAgree ==
    ASSUME NEW o, NEW base, NEW f, NEW S, IsFiniteSet(S), NEW T, T \subseteq S,
           NEW g, Folds(o, base, f, S, g), NEW h, Folds(o, base, f, T, h)
    PROVE  g[T] = h[T]
  <1> DEFINE Bad == {s \in SUBSET T : g[s] # h[s]}
  <1> SUFFICES ASSUME Bad # {} PROVE FALSE
    OBVIOUS
  <1>1. PICK s \in Bad : \A t \in Bad : ~(t \subseteq s /\ t # s)
    <2>1. IsFiniteSet(T)
      BY FS_Subset
    <2>2. Bad \subseteq SUBSET T
      OBVIOUS
    <2> HIDE DEF Bad
    <2> QED
      BY <2>1, <2>2, SubLeast
  <1>2. g[s] = Fold(o, base, f, s, g) /\ h[s] = Fold(o, base, f, s, h)
    BY DEF Folds
  <1>3. CASE s = {}
    BY <1>2, <1>3 DEF Fold
  <1>4. CASE s # {}
    <2>1. Rest(s) \subseteq s /\ Rest(s) # s
      BY <1>4, FirstIn
    <2>2. g[Rest(s)] = h[Rest(s)]
      BY <1>1, <2>1
    <2> QED
      BY <1>2, <1>4, <2>2 DEF Fold
  <1> QED
    BY <1>3, <1>4

\* A finite set can be folded.
LEMMA FoldsExist ==
    ASSUME NEW o, NEW base, NEW f, NEW S, IsFiniteSet(S)
    PROVE  \E g : Folds(o, base, f, S, g)
  <1> DEFINE Bad == {t \in SUBSET S : ~\E g : Folds(o, base, f, t, g)}
  <1> SUFFICES ASSUME Bad # {} PROVE FALSE
    OBVIOUS
  <1>1. PICK s \in Bad : \A t \in Bad : ~(t \subseteq s /\ t # s)
    <2>1. Bad \subseteq SUBSET S
      OBVIOUS
    <2> HIDE DEF Bad
    <2> QED
      BY <2>1, SubLeast
  <1> DEFINE G(t) == CHOOSE g : Folds(o, base, f, t, g)
             V(t) == IF t = {} THEN base ELSE o[f[First(t)]][G(Rest(t))[Rest(t)]]
             h == [t \in SUBSET s |-> V(t)]
  <1>2. \A t \in SUBSET S : t \subseteq s /\ t # s => Folds(o, base, f, t, G(t))
    BY <1>1
  <1>3. ASSUME NEW t \in SUBSET s, t # {}
        PROVE  h[Rest(t)] = G(Rest(t))[Rest(t)]
    <2> DEFINE u == Rest(t)
    <2>1. u \in SUBSET S /\ u \subseteq s /\ u # s
      BY <1>3, FirstIn
    <2>2. Folds(o, base, f, u, G(u))
      BY <1>2, <2>1
    <2>3. G(u)[u] = Fold(o, base, f, u, G(u))
      BY <2>2 DEF Folds
    <2>4. h[u] = V(u)
      BY <2>1
    <2>5. CASE u = {}
      BY <2>3, <2>4, <2>5 DEF Fold
    <2>6. CASE u # {}
      <3> DEFINE w == Rest(u)
      <3>1. w \subseteq u /\ w \in SUBSET S /\ w \subseteq s /\ w # s
        BY <2>1, <2>6, FirstIn
      <3>2. Folds(o, base, f, w, G(w))
        BY <1>2, <3>1
      <3>3. IsFiniteSet(u)
        BY <2>1, FS_Subset
      <3>4. G(u)[w] = G(w)[w]
        <4> HIDE DEF u, w, G
        <4> QED
        BY <2>2, <3>1, <3>2, <3>3, FoldsAgree
      <3> QED
        BY <2>3, <2>4, <2>6, <3>4 DEF Fold
    <2> QED
      BY <2>5, <2>6
  <1>4. \A t \in SUBSET s : h[t] = Fold(o, base, f, t, h)
    <2> TAKE t \in SUBSET s
    <2>1. h[t] = V(t)
      OBVIOUS
    <2> HIDE DEF h
    <2> QED
    BY <1>3, <2>1 DEF Fold
  <1>5. Folds(o, base, f, s, h)
    <2>1. h = [t \in SUBSET s |-> h[t]]
      OBVIOUS
    <2> HIDE DEF h
    <2> QED
      BY <1>4, <2>1 DEF Folds
  <1> QED
    BY <1>1, <1>5

\* The fold of f over S.
Acc(o, base, f, S) == (CHOOSE g : Folds(o, base, f, S, g))[S]

\* o is associative and commutative on V, with the neutral element base.
Monoid(o, base, V) ==
      /\ base \in V
      /\ \A a, b \in V : o[a][b] \in V /\ o[a][b] = o[b][a]
      /\ \A a, b, c \in V : o[a][o[b][c]] = o[o[a][b]][c]

\* Two operands can change places.
LEMMA MonoidSwap ==
    ASSUME NEW V, NEW o, NEW base, Monoid(o, base, V), NEW a \in V, NEW b \in V, NEW c \in V
    PROVE  o[a][b] \in V /\ o[a][o[b][c]] = o[b][o[a][c]]
  <1>1. o[a][o[b][c]] = o[o[a][b]][c] /\ o[b][o[a][c]] = o[o[b][a]][c]
    BY DEF Monoid
  <1>2. o[a][b] \in V /\ o[a][b] = o[b][a]
    BY DEF Monoid
  <1> QED
    BY <1>1, <1>2

\* The fold over nothing.
LEMMA AccEmpty ==
    ASSUME NEW o, NEW base, NEW f
    PROVE  Acc(o, base, f, {}) = base
  <1> DEFINE g == CHOOSE k : Folds(o, base, f, {}, k)
  <1>1. Folds(o, base, f, {}, g)
    BY FoldsExist, FS_EmptySet
  <1>2. g[{}] = base
    <2> HIDE DEF g
    <2> QED
      BY <1>1 DEF Folds, Fold
  <1> QED
    BY <1>2 DEF Acc

\* A fold takes the first element and goes on with the rest.
LEMMA AccFirst ==
    ASSUME NEW o, NEW base, NEW f, NEW S, IsFiniteSet(S), S # {}
    PROVE  Acc(o, base, f, S) = o[f[First(S)]][Acc(o, base, f, Rest(S))]
  <1> DEFINE g == CHOOSE k : Folds(o, base, f, S, k)
             h == CHOOSE k : Folds(o, base, f, Rest(S), k)
  <1>1. Folds(o, base, f, S, g)
    BY FoldsExist
  <1>2. g[S] = Fold(o, base, f, S, g)
    BY <1>1 DEF Folds
  <1>3. Acc(o, base, f, S) = g[S]
    BY DEF Acc
  <1>4. g[Rest(S)] = h[Rest(S)]
    <2>1. Rest(S) \subseteq S
      BY FirstIn
    <2>2. IsFiniteSet(Rest(S))
      BY <2>1, FS_Subset
    <2>3. Folds(o, base, f, Rest(S), h)
      BY <2>2, FoldsExist
    <2> HIDE DEF g, h
    <2> QED
      BY <1>1, <2>1, <2>3, FoldsAgree
  <1>5. Acc(o, base, f, Rest(S)) = h[Rest(S)]
    BY DEF Acc
  <1> HIDE DEF g, h
  <1> QED
    BY <1>2, <1>3, <1>4, <1>5 DEF Fold

\* The fold of values of V is in V.
LEMMA AccTyped ==
    ASSUME NEW V, NEW o, NEW base, Monoid(o, base, V),
           NEW f, NEW S, IsFiniteSet(S), \A x \in S : f[x] \in V
    PROVE  Acc(o, base, f, S) \in V
  <1> DEFINE Bad == {t \in SUBSET S : Acc(o, base, f, t) \notin V}
  <1> SUFFICES ASSUME Bad # {} PROVE FALSE
    OBVIOUS
  <1>1. PICK s \in Bad : \A t \in Bad : ~(t \subseteq s /\ t # s)
    <2>1. Bad \subseteq SUBSET S
      OBVIOUS
    <2> HIDE DEF Bad
    <2> QED
      BY <2>1, SubLeast
  <1>2. IsFiniteSet(s)
    BY FS_Subset
  <1>3. CASE s = {}
    <2>1. Acc(o, base, f, s) = base
      BY <1>3, AccEmpty
    <2> QED
      BY <2>1 DEF Monoid
  <1>4. CASE s # {}
    <2>1. First(s) \in s /\ Rest(s) \subseteq s /\ Rest(s) # s
      BY <1>4, FirstIn
    <2>2. Acc(o, base, f, Rest(s)) \in V
      BY <1>1, <2>1
    <2>3. f[First(s)] \in V
      BY <2>1
    <2>4. Acc(o, base, f, s) = o[f[First(s)]][Acc(o, base, f, Rest(s))]
      BY <1>2, <1>4, AccFirst
    <2>5. o[f[First(s)]][Acc(o, base, f, Rest(s))] \in V
      BY <2>2, <2>3, MonoidSwap
    <2> QED
      BY <2>4, <2>5
  <1> QED
    BY <1>3, <1>4

\* Any element can be taken out of a fold, not only the first.
LEMMA AccRemove ==
    ASSUME NEW V, NEW o, NEW base, Monoid(o, base, V),
           NEW f, NEW S, IsFiniteSet(S), \A x \in S : f[x] \in V, NEW x \in S
    PROVE  Acc(o, base, f, S) = o[f[x]][Acc(o, base, f, S \ {x})]
  <1> DEFINE A(s) == Acc(o, base, f, s)
             Good(s) == \A y \in s : A(s) = o[f[y]][A(s \ {y})]
             Bad == {t \in SUBSET S : ~Good(t)}
  <1> SUFFICES ASSUME Bad # {} PROVE FALSE
    OBVIOUS
  <1>1. PICK s \in Bad : \A t \in Bad : ~(t \subseteq s /\ t # s)
    <2>1. Bad \subseteq SUBSET S
      OBVIOUS
    <2> HIDE DEF Bad
    <2> QED
      BY <2>1, SubLeast
  <1>2. PICK y \in s : A(s) # o[f[y]][A(s \ {y})]
    OBVIOUS
  <1>3. IsFiniteSet(s) /\ s # {}
    BY FS_Subset
  <1> DEFINE c == First(s)
  <1>4. c \in s /\ s \ {c} = Rest(s)
    BY <1>3, FirstIn DEF Rest
  <1>5. A(s) = o[f[c]][A(s \ {c})]
    <2>1. Acc(o, base, f, s) = o[f[First(s)]][Acc(o, base, f, Rest(s))]
      BY <1>3, AccFirst
    <2> QED
      BY <1>4, <2>1
  <1>6. y # c
    BY <1>2, <1>5
  <1>7. Good(s \ {c}) /\ Good(s \ {y})
    BY <1>1, <1>4
  <1>8. A(s \ {c}) = o[f[y]][A((s \ {c}) \ {y})]
    BY <1>6, <1>7
  <1>9. A(s \ {y}) = o[f[c]][A((s \ {y}) \ {c})]
    BY <1>4, <1>6, <1>7
  <1> DEFINE z == A((s \ {c}) \ {y})
  <1>10. (s \ {y}) \ {c} = (s \ {c}) \ {y}
    OBVIOUS
  <1>11. z \in V
    <2>1. IsFiniteSet((s \ {c}) \ {y})
      BY <1>3, FS_Subset
    <2> QED
      BY <2>1, AccTyped
  <1>12. f[c] \in V /\ f[y] \in V
    BY <1>4
  <1>13. A(s) = o[f[c]][o[f[y]][z]] /\ o[f[y]][A(s \ {y})] = o[f[y]][o[f[c]][z]]
    BY <1>5, <1>8, <1>9, <1>10
  <1> HIDE DEF z, A, c
  <1>14. o[f[c]][o[f[y]][z]] = o[f[y]][o[f[c]][z]]
    <2>1. \A a, b, d \in V : o[a][o[b][d]] = o[b][o[a][d]]
      BY MonoidSwap
    <2> QED
      BY <1>11, <1>12, <2>1
  <1> QED
    BY <1>2, <1>13, <1>14

-----------------------------------------------------------------------------
(* Sums *)

\* Addition and multiplication as functions.
Plus == [a \in Int |-> [b \in Int |-> a + b]]
Times == [a \in Int |-> [b \in Int |-> a * b]]

\* Addition can be folded in any order.
LEMMA PlusMonoid == Monoid(Plus, 0, Int) /\ Monoid(Plus, 0, Nat)
  <1>1. \A a, b \in Int : Plus[a][b] = a + b
    BY DEF Plus
  <1>2. ASSUME NEW V, V = Int \/ V = Nat
        PROVE  Monoid(Plus, 0, V)
    <2>1. 0 \in V /\ \A a, b \in V : Plus[a][b] \in V /\ Plus[a][b] = Plus[b][a]
      BY <1>1, <1>2
    <2>2. \A a, b, c \in V : Plus[a][Plus[b][c]] = Plus[Plus[a][b]][c]
      <3> TAKE a, b, c \in V
      <3>1. a \in Int /\ b \in Int /\ c \in Int /\ a + b \in Int /\ b + c \in Int
        BY <1>2
      <3>2. Plus[b][c] = b + c /\ Plus[a][b] = a + b
        BY <1>1, <3>1
      <3>3. Plus[a][b + c] = a + (b + c) /\ Plus[a + b][c] = (a + b) + c
        BY <1>1, <3>1
      <3> QED
        BY <3>1, <3>2, <3>3
    <2> QED
      BY <2>1, <2>2 DEF Monoid
  <1> QED
    BY <1>2

\* g is the function FoldFunction applies for a sum.
Adds(f, D, g) == g = [s \in SUBSET D |-> IF s = {} THEN 0 ELSE f[First(s)] + g[Rest(s)]]

\* There is one such function.
LEMMA AddsAgree ==
    ASSUME NEW f, NEW D, IsFiniteSet(D), NEW g, Adds(f, D, g), NEW h, Adds(f, D, h)
    PROVE  g[D] = h[D]
  <1> DEFINE Bad == {s \in SUBSET D : g[s] # h[s]}
  <1> SUFFICES ASSUME Bad # {} PROVE FALSE
    OBVIOUS
  <1>1. PICK s \in Bad : \A t \in Bad : ~(t \subseteq s /\ t # s)
    <2>2. Bad \subseteq SUBSET D
      OBVIOUS
    <2> HIDE DEF Bad
    <2> QED
      BY <2>2, SubLeast
  <1>2. /\ g[s] = IF s = {} THEN 0 ELSE f[First(s)] + g[Rest(s)]
        /\ h[s] = IF s = {} THEN 0 ELSE f[First(s)] + h[Rest(s)]
    BY DEF Adds
  <1>3. s # {}
    BY <1>2
  <1>4. Rest(s) \subseteq s /\ Rest(s) # s
    BY <1>3, FirstIn
  <1>5. g[Rest(s)] = h[Rest(s)]
    BY <1>1, <1>4
  <1> QED
    BY <1>2, <1>5

\* FoldFunction with + is the fold of addition.
LEMMA TotalAcc ==
    ASSUME NEW f, IsFiniteSet(DOMAIN f), \A x \in DOMAIN f : f[x] \in Int
    PROVE  Total(f) = Acc(Plus, 0, f, DOMAIN f)
  <1> DEFINE D == DOMAIN f
             G == [s \in SUBSET D |-> Acc(Plus, 0, f, s)]
             iter == CHOOSE g : Adds(f, D, g)
  <1>1. Adds(f, D, G)
    <2> SUFFICES ASSUME NEW s \in SUBSET D
                 PROVE  G[s] = IF s = {} THEN 0 ELSE f[First(s)] + G[Rest(s)]
      BY DEF Adds
    <2>1. CASE s = {}
      BY <2>1, AccEmpty
    <2>2. CASE s # {}
      <3>1. First(s) \in s /\ Rest(s) \subseteq s
        BY <2>2, FirstIn
      <3>2. IsFiniteSet(s) /\ IsFiniteSet(Rest(s))
        BY <3>1, FS_Subset
      <3>3. Acc(Plus, 0, f, s) = Plus[f[First(s)]][Acc(Plus, 0, f, Rest(s))]
        BY <2>2, <3>2, AccFirst
      <3>4. Acc(Plus, 0, f, Rest(s)) \in Int
        BY <3>1, <3>2, AccTyped, PlusMonoid
      <3>5. f[First(s)] \in Int
        BY <3>1
      <3> QED
        BY <2>2, <3>1, <3>3, <3>4, <3>5 DEF Plus
    <2> QED
      BY <2>1, <2>2
  <1>2. Adds(f, D, iter)
    BY <1>1
  <1>3. iter[D] = G[D]
    <2> HIDE DEF iter, G, D
    <2> QED
      BY <1>1, <1>2, AddsAgree DEF D
  <1>4. Total(f) = iter[D]
    BY DEF Total, FoldFunction, FoldFunctionOnSet, MapThenFoldSet, Adds, First, Rest
  <1> QED
    BY <1>3, <1>4

\* The sum of f over S.
Sum(f, S) == Acc(Plus, 0, f, S)

\* Total, which the engine computes with, is the sum over the domain.
LEMMA TotalIsSum ==
    ASSUME NEW f, IsFiniteSet(DOMAIN f), \A x \in DOMAIN f : f[x] \in Int
    PROVE  Total(f) = Sum(f, DOMAIN f)
  BY TotalAcc DEF Sum

\* The sum of nothing.
LEMMA SumEmpty == ASSUME NEW f PROVE Sum(f, {}) = 0
  BY AccEmpty DEF Sum

\* A sum of integers is an integer.
LEMMA SumInt ==
    ASSUME NEW f, NEW S, IsFiniteSet(S), \A x \in S : f[x] \in Int
    PROVE  Sum(f, S) \in Int
  BY AccTyped, PlusMonoid DEF Sum

\* A sum of naturals is a natural.
LEMMA SumNat ==
    ASSUME NEW f, NEW S, IsFiniteSet(S), \A x \in S : f[x] \in Nat
    PROVE  Sum(f, S) \in Nat
  BY AccTyped, PlusMonoid DEF Sum

\* A term can be taken out of a sum.
LEMMA SumRemove ==
    ASSUME NEW f, NEW S, IsFiniteSet(S), \A x \in S : f[x] \in Int, NEW x \in S
    PROVE  Sum(f, S) = f[x] + Sum(f, S \ {x})
  <1>1. Sum(f, S) = Plus[f[x]][Sum(f, S \ {x})]
    BY AccRemove, PlusMonoid DEF Sum
  <1>2. Sum(f, S \ {x}) \in Int
    <2>1. IsFiniteSet(S \ {x})
      BY FS_RemoveElement
    <2> QED
      BY <2>1, SumInt
  <1>3. \A a, b \in Int : Plus[a][b] = a + b
    BY DEF Plus
  <1> QED
    BY <1>1, <1>2, <1>3

\* Multiplication distributes over addition.
LEMMA Distributes == \A a, b, c \in Int : a * (b + c) = a * b + a * c /\ a * b \in Int
  OBVIOUS

\* Sums are linear.
LEMMA SumLinear ==
    ASSUME NEW S, IsFiniteSet(S), NEW f, NEW g, NEW h, NEW k \in Int,
           \A x \in S : f[x] \in Int /\ g[x] \in Int /\ h[x] = k * f[x] + g[x]
    PROVE  Sum(h, S) = k * Sum(f, S) + Sum(g, S)
  <1> DEFINE Bad == {t \in SUBSET S : Sum(h, t) # k * Sum(f, t) + Sum(g, t)}
  <1> SUFFICES ASSUME Bad # {} PROVE FALSE
    OBVIOUS
  <1>1. PICK s \in Bad : \A t \in Bad : ~(t \subseteq s /\ t # s)
    <2>1. Bad \subseteq SUBSET S
      OBVIOUS
    <2> HIDE DEF Bad
    <2> QED
      BY <2>1, SubLeast
  <1>2. IsFiniteSet(s) /\ s \subseteq S
    BY FS_Subset
  <1>3. s # {}
    <2> SUFFICES ASSUME s = {} PROVE FALSE
      OBVIOUS
    <2>1. Sum(h, s) = 0 /\ Sum(f, s) = 0 /\ Sum(g, s) = 0
      BY SumEmpty
    <2> QED
      BY <2>1
  <1>4. PICK x \in s : TRUE
    BY <1>3
  <1> DEFINE r == s \ {x}
  <1>5. IsFiniteSet(r) /\ r \subseteq s /\ r # s /\ r \in SUBSET S
    BY <1>2, FS_Subset
  <1>6. \A y \in s : f[y] \in Int /\ g[y] \in Int /\ h[y] \in Int /\ h[y] = k * f[y] + g[y]
    BY <1>2
  <1>7. Sum(f, r) \in Int /\ Sum(g, r) \in Int
    BY <1>5, <1>6, SumInt
  <1>8. Sum(f, s) = f[x] + Sum(f, r)
    BY <1>2, <1>6, SumRemove
  <1>9. Sum(g, s) = g[x] + Sum(g, r)
    BY <1>2, <1>6, SumRemove
  <1>10. Sum(h, s) = h[x] + Sum(h, r)
    BY <1>2, <1>6, SumRemove
  <1>11. Sum(h, r) = k * Sum(f, r) + Sum(g, r)
    BY <1>1, <1>5
  <1>12. Sum(h, s) # k * Sum(f, s) + Sum(g, s)
    OBVIOUS
  <1>13. h[x] = k * f[x] + g[x] /\ f[x] \in Int /\ g[x] \in Int
    BY <1>6
  <1>14. k * (f[x] + Sum(f, r)) = k * f[x] + k * Sum(f, r) /\ k * f[x] \in Int /\ k * Sum(f, r) \in Int
    BY <1>7, <1>13, Distributes
  <1> HIDE DEF Bad, r
  <1> QED
    BY <1>7, <1>8, <1>9, <1>10, <1>11, <1>12, <1>13, <1>14

\* Terms that are zero can be left out.
LEMMA SumSupport ==
    ASSUME NEW S, IsFiniteSet(S), NEW T, T \subseteq S, NEW f,
           \A x \in S : f[x] \in Int, \A x \in S \ T : f[x] = 0
    PROVE  Sum(f, S) = Sum(f, T)
  <1> DEFINE Bad == {t \in SUBSET S : T \subseteq t /\ Sum(f, t) # Sum(f, T)}
  <1> SUFFICES ASSUME Bad # {} PROVE FALSE
    OBVIOUS
  <1>1. PICK s \in Bad : \A t \in Bad : ~(t \subseteq s /\ t # s)
    <2>1. Bad \subseteq SUBSET S
      OBVIOUS
    <2> HIDE DEF Bad
    <2> QED
      BY <2>1, SubLeast
  <1>2. IsFiniteSet(s) /\ s \subseteq S /\ T \subseteq s
    BY FS_Subset
  <1>3. PICK x \in s \ T : TRUE
    BY <1>2
  <1> DEFINE r == s \ {x}
  <1>4. Sum(f, r) = Sum(f, T)
    BY <1>1, <1>2
  <1>5. Sum(f, s) = f[x] + Sum(f, r)
    BY <1>2, SumRemove
  <1>6. IsFiniteSet(r) /\ \A y \in r : f[y] \in Int
    BY <1>2, FS_Subset
  <1>7. Sum(f, r) \in Int
    BY <1>6, SumInt
  <1>8. f[x] = 0
    BY <1>2
  <1> QED
    BY <1>4, <1>5, <1>7, <1>8

\* A sum of ones counts.
LEMMA SumCount ==
    ASSUME NEW S, IsFiniteSet(S), NEW f, \A x \in S : f[x] = 1
    PROVE  Sum(f, S) = Cardinality(S)
  <1> DEFINE Bad == {t \in SUBSET S : Sum(f, t) # Cardinality(t)}
  <1> SUFFICES ASSUME Bad # {} PROVE FALSE
    OBVIOUS
  <1>1. PICK s \in Bad : \A t \in Bad : ~(t \subseteq s /\ t # s)
    <2>1. Bad \subseteq SUBSET S
      OBVIOUS
    <2> HIDE DEF Bad
    <2> QED
      BY <2>1, SubLeast
  <1>2. IsFiniteSet(s) /\ s \subseteq S
    BY FS_Subset
  <1>3. s # {}
    BY SumEmpty, FS_EmptySet
  <1>4. PICK x \in s : TRUE
    BY <1>3
  <1> DEFINE r == s \ {x}
  <1>5. Sum(f, r) = Cardinality(r)
    BY <1>1
  <1>6. Sum(f, s) = f[x] + Sum(f, r)
    BY <1>2, SumRemove
  <1>7. Cardinality(r) = Cardinality(s) - 1 /\ Cardinality(s) \in Nat
    BY <1>2, FS_RemoveElement, FS_CardinalityType
  <1> QED
    BY <1>2, <1>5, <1>6, <1>7

\* The sum of sums.
LEMMA SumAdd ==
    ASSUME NEW S, IsFiniteSet(S), NEW f, NEW g, NEW h,
           \A x \in S : f[x] \in Int /\ g[x] \in Int /\ h[x] = f[x] + g[x]
    PROVE  Sum(h, S) = Sum(f, S) + Sum(g, S)
  <1> DEFINE k == 1
  <1>1. k \in Int /\ \A x \in S : f[x] \in Int /\ g[x] \in Int /\ h[x] = k * f[x] + g[x]
    OBVIOUS
  <1>2. Sum(h, S) = k * Sum(f, S) + Sum(g, S)
    <2> HIDE DEF k
    <2> QED
      BY <1>1, SumLinear
  <1>3. Sum(f, S) \in Int
    BY SumInt
  <1> QED
    BY <1>2, <1>3

\* A sum of zeros is zero.
LEMMA SumZero ==
    ASSUME NEW S, IsFiniteSet(S), NEW f, \A x \in S : f[x] = 0
    PROVE  Sum(f, S) = 0
  <1>1. Sum(f, S) = Sum(f, {})
    BY SumSupport
  <1> QED
    BY <1>1, SumEmpty

\* Equal terms have equal sums.
LEMMA SumSame ==
    ASSUME NEW S, IsFiniteSet(S), NEW f, NEW g, \A x \in S : f[x] \in Int /\ g[x] = f[x]
    PROVE  Sum(g, S) = Sum(f, S)
  <1>1. Sum(g, S) = 0 * Sum(f, S) + Sum(f, S)
    <2>1. \A x \in S : f[x] \in Int /\ g[x] = (0 * f[x]) + f[x]
      OBVIOUS
    <2> QED
      BY <2>1, SumLinear
  <1>2. Sum(f, S) \in Int
    BY SumInt
  <1> QED
    BY <1>1, <1>2

\* A common factor can be taken out of a sum.
LEMMA SumScale ==
    ASSUME NEW S, IsFiniteSet(S), NEW f, NEW h, NEW k \in Int,
           \A x \in S : f[x] \in Int /\ h[x] = k * f[x]
    PROVE  Sum(h, S) = k * Sum(f, S)
  <1> DEFINE z == [x \in S |-> 0]
  <1>1. Sum(h, S) = k * Sum(f, S) + Sum(z, S)
    <2>1. \A x \in S : f[x] \in Int /\ z[x] \in Int /\ h[x] = k * f[x] + z[x]
      OBVIOUS
    <2> HIDE DEF z
    <2> QED
      BY <2>1, SumLinear
  <1>2. Sum(z, S) = 0
    BY SumZero
  <1>3. Sum(f, S) \in Int
    BY SumInt
  <1>4. k * Sum(f, S) \in Int
    BY <1>3, Distributes
  <1> HIDE DEF z
  <1> QED
    BY <1>1, <1>2, <1>4

\* Larger terms have larger sums.
LEMMA SumAtMost ==
    ASSUME NEW S, IsFiniteSet(S), NEW f, NEW g,
           \A x \in S : f[x] \in Int /\ g[x] \in Int /\ f[x] <= g[x]
    PROVE  Sum(f, S) <= Sum(g, S)
  <1> DEFINE d == [x \in S |-> g[x] - f[x]]
  <1>1. \A x \in S : d[x] \in Nat /\ d[x] \in Int
    OBVIOUS
  <1>2. \A x \in S : f[x] \in Int /\ d[x] \in Int /\ g[x] = 1 * f[x] + d[x]
    OBVIOUS
  <1> HIDE DEF d
  <1>3. Sum(g, S) = 1 * Sum(f, S) + Sum(d, S)
    BY <1>2, SumLinear
  <1>4. Sum(d, S) \in Nat
    BY <1>1, SumNat
  <1>5. Sum(f, S) \in Int
    BY SumInt
  <1> QED
    BY <1>3, <1>4, <1>5

\* The sum of an indicator function counts its set.
LEMMA SumIndicator ==
    ASSUME NEW S, IsFiniteSet(S), NEW T, T \subseteq S, NEW f,
           \A x \in S : f[x] = IF x \in T THEN 1 ELSE 0
    PROVE  Sum(f, S) = Cardinality(T)
  <1>1. Sum(f, S) = Sum(f, T)
    <2>1. \A x \in S : f[x] \in Int
      OBVIOUS
    <2>2. \A x \in S \ T : f[x] = 0
      OBVIOUS
    <2> QED
      BY <2>1, <2>2, SumSupport
  <1>2. IsFiniteSet(T) /\ \A x \in T : f[x] = 1
    BY FS_Subset
  <1> QED
    BY <1>1, <1>2, SumCount

-----------------------------------------------------------------------------
(* Largest remainders *)

\* Division with remainder.
LEMMA Division ==
    ASSUME NEW a \in Nat, NEW d \in Nat, d > 0
    PROVE  a \div d \in Nat /\ a % d \in Nat /\ a % d <= d - 1 /\ a = (d * (a \div d)) + (a % d)
  OBVIOUS

\* The rank of i in D by the order R: how many come before it.
Rank(R, D, i) == Cardinality({j \in D : <<j, i>> \in R})
\* R is a strict total order of D.
StrictOrder(R, D) ==
    /\ \A i \in D : <<i, i>> \notin R
    /\ \A i, j \in D : i = j \/ <<i, j>> \in R \/ <<j, i>> \in R
    /\ \A i, j, k \in D : <<i, j>> \in R /\ <<j, k>> \in R => <<i, k>> \in R

\* Ranks lie below the size of the set and grow with the order.
LEMMA RankOf ==
    ASSUME NEW R, NEW D, IsFiniteSet(D), StrictOrder(R, D), NEW i \in D, NEW j \in D
    PROVE  /\ Rank(R, D, i) \in 0 .. Cardinality(D) - 1
           /\ <<i, j>> \in R => Rank(R, D, i) < Rank(R, D, j)
  <1> DEFINE A(x) == {y \in D : <<y, x>> \in R}
  <1>1. ASSUME NEW S, S \subseteq D, S # D
        PROVE  Cardinality(S) \in Nat /\ Cardinality(S) < Cardinality(D) /\ Cardinality(D) \in Nat
    <2>1. IsFiniteSet(S) /\ Cardinality(S) <= Cardinality(D) /\ Cardinality(S) # Cardinality(D)
      BY <1>1, FS_Subset
    <2> QED
      BY <2>1, FS_CardinalityType
  <1>2. Rank(R, D, i) \in 0 .. Cardinality(D) - 1
    <2>1. A(i) \subseteq D /\ A(i) # D
      BY DEF StrictOrder
    <2>2. Cardinality(A(i)) \in Nat /\ Cardinality(A(i)) < Cardinality(D) /\ Cardinality(D) \in Nat
      BY <1>1, <2>1
    <2> QED
      BY <2>2 DEF Rank
  <1>3. ASSUME <<i, j>> \in R
        PROVE  Rank(R, D, i) < Rank(R, D, j)
    <2>1. A(i) \subseteq A(j) /\ i \in A(j) /\ i \notin A(i)
      BY <1>3 DEF StrictOrder
    <2>2. IsFiniteSet(A(j))
      BY FS_Subset
    <2>3. IsFiniteSet(A(i)) /\ Cardinality(A(i)) <= Cardinality(A(j)) /\ Cardinality(A(i)) # Cardinality(A(j))
      <3> HIDE DEF A
      <3> QED
        BY <2>1, <2>2, FS_Subset
    <2>4. Cardinality(A(i)) \in Nat /\ Cardinality(A(j)) \in Nat
      BY <2>2, <2>3, FS_CardinalityType
    <2> QED
      BY <2>3, <2>4 DEF Rank
  <1> QED
    BY <1>2, <1>3

\* The first k ranks are those of k elements.
LEMMA RankCount ==
    ASSUME NEW R, NEW D, IsFiniteSet(D), StrictOrder(R, D), NEW k \in Nat, k <= Cardinality(D)
    PROVE  Cardinality({i \in D : Rank(R, D, i) < k}) = k
  <1> DEFINE n == Cardinality(D)
             rank == [i \in D |-> Rank(R, D, i)]
             S == {i \in D : Rank(R, D, i) < k}
             low == [i \in S |-> Rank(R, D, i)]
  <1>1. n \in Nat
    BY FS_CardinalityType
  <1>2. rank \in [D -> 0 .. n - 1]
    BY RankOf
  <1>3. \A i, j \in D : rank[i] = rank[j] => i = j
    <2> SUFFICES ASSUME NEW i \in D, NEW j \in D, Rank(R, D, i) = Rank(R, D, j), i # j
                 PROVE  FALSE
      OBVIOUS
    <2>1. <<i, j>> \in R \/ <<j, i>> \in R
      BY DEF StrictOrder
    <2>2. rank[i] \in Int /\ rank[j] \in Int
      BY <1>1, <1>2
    <2>3. Rank(R, D, i) < Rank(R, D, j) \/ Rank(R, D, j) < Rank(R, D, i)
      BY <2>1, RankOf
    <2> QED
      BY <2>2, <2>3
  <1>4. rank \in Injection(D, 0 .. n - 1)
    BY <1>2, <1>3 DEF Injection, IsInjective
  <1>5. IsFiniteSet(0 .. n - 1) /\ Cardinality(0 .. n - 1) = n
    <2>1. 0 \in Int /\ n - 1 \in Int /\ (n - 1) - 0 + 1 = n /\ (0 > n - 1 => n = 0)
      BY <1>1
    <2> HIDE DEF n
    <2> QED
      BY <1>1, <2>1, FS_Interval
  <1>6. rank \in Surjection(D, 0 .. n - 1)
    BY <1>4, <1>5, FS_Injection
  <1>7. low \in Bijection(S, 0 .. k - 1)
    <2>1. low \in [S -> 0 .. k - 1]
      <3>1. \A i \in S : Rank(R, D, i) \in 0 .. n - 1 /\ Rank(R, D, i) < k
        BY RankOf
      <3> QED
        BY <1>1, <3>1
    <2>2. \A i, j \in S : low[i] = low[j] => i = j
      BY <1>3
    <2>3. \A m \in 0 .. k - 1 : \E i \in S : low[i] = m
      <3> TAKE m \in 0 .. k - 1
      <3>1. m \in 0 .. n - 1
        BY <1>1
      <3>2. PICK i \in D : rank[i] = m
        BY <1>6, <3>1 DEF Surjection
      <3>3. i \in S /\ low[i] = m
        BY <3>2
      <3> QED
        BY <3>3
    <2> HIDE DEF low, S
    <2> QED
      BY <2>1, <2>2, <2>3 DEF Bijection, Injection, Surjection, IsInjective
  <1>8. IsFiniteSet(S)
    BY FS_Subset
  <1>9. Cardinality(0 .. k - 1) = Cardinality(S)
    <2>1. ExistsBijection(S, 0 .. k - 1)
      BY <1>7 DEF ExistsBijection
    <2> HIDE DEF S
    <2> QED
      BY <1>8, <2>1, FS_Bijection
  <1>10. Cardinality(0 .. k - 1) = k
    BY FS_Interval
  <1> QED
    BY <1>9, <1>10

\* Products of integers.
LEMMA Products ==
    /\ \A a, b \in Nat : a * b \in Nat
    /\ \A a \in Nat, b \in Int : a > 0 /\ a * b >= 0 => b >= 0
    /\ \A a, b, c \in Int : a * (b - c) = (a * b) - (a * c) /\ a * b = b * a
    /\ \A a, b, c \in Nat : b <= c => a * b <= a * c
  OBVIOUS

\* What is left of the share of i when it is rounded down, in units of 1/W.
Remainder(q, w, W, i) == (q * w[i]) % W
\* Those that get a unit that is left over before i does: larger remainders first,
\* and of equal ones the earlier (_allocate_by_weights, _allocate_integer_quantity).
Ahead(q, w, W, D, i) ==
    {j \in D : \/ Remainder(q, w, W, j) > Remainder(q, w, W, i)
               \/ Remainder(q, w, W, j) = Remainder(q, w, W, i) /\ j < i}

\* Those whose share is not whole.
Odd(q, w, W, D) == {i \in D : Remainder(q, w, W, i) > 0}

\* q units are shared out by the weights w, in sum W, and every share is rounded down.
Floors(q, w, D, W, base) ==
    /\ q \in Nat /\ IsFiniteSet(D) /\ D \subseteq Int /\ \A i \in D : w[i] \in Nat
    /\ W = Sum(w, D) /\ W > 0
    /\ \A i \in D : base[i] = (q * w[i]) \div W

\* What rounding down leaves over: fewer units than there are shares that are not
\* whole.
Leaves(q, w, D, W, base) ==
    /\ W \in Nat
    /\ Sum(base, D) \in Nat
    /\ q - Sum(base, D) \in Nat
    /\ \A i \in D : /\ base[i] \in Nat /\ Remainder(q, w, W, i) \in Nat
                    /\ Remainder(q, w, W, i) <= W - 1
                    /\ q * w[i] = (W * base[i]) + Remainder(q, w, W, i)
    /\ IsFiniteSet(Odd(q, w, W, D)) /\ Cardinality(Odd(q, w, W, D)) \in Nat
    /\ q - Sum(base, D) > 0 => q - Sum(base, D) < Cardinality(Odd(q, w, W, D))

\* Rounding down leaves over less than a unit for each share that is not whole.
LEMMA LeftOver ==
    ASSUME NEW q, NEW w, NEW D, NEW W, NEW base, Floors(q, w, D, W, base)
    PROVE  Leaves(q, w, D, W, base)
  <1> DEFINE rest == [i \in D |-> Remainder(q, w, W, i)]
             qw == [i \in D |-> q * w[i]]
             P == {i \in D : Remainder(q, w, W, i) > 0}
             B == Sum(base, D)
             k == q - B
  <1> USE DEF Floors
  <1>1. W \in Nat
    BY SumNat
  <1>2. ASSUME NEW i \in D
        PROVE  /\ base[i] \in Nat /\ Remainder(q, w, W, i) \in Nat
               /\ Remainder(q, w, W, i) <= W - 1
               /\ q * w[i] = (W * base[i]) + Remainder(q, w, W, i)
    <2>1. q * w[i] \in Nat
      BY Products
    <2> QED
      BY <1>1, <2>1, Division DEF Remainder
  <1>3. B \in Nat
    BY <1>2, SumNat
  <1>4. Sum(rest, D) \in Nat
    <2>1. \A i \in D : rest[i] \in Nat
      BY <1>2
    <2> HIDE DEF rest
    <2> QED
      BY <2>1, SumNat
  <1>5. Sum(qw, D) = q * W
    <2>1. \A i \in D : w[i] \in Int /\ qw[i] = q * w[i]
      OBVIOUS
    <2>2. q \in Int /\ IsFiniteSet(D) /\ W = Sum(w, D)
      OBVIOUS
    <2> HIDE DEF qw, Floors
    <2> QED
      BY <2>1, <2>2, SumScale
  <1>6. Sum(qw, D) = W * B + Sum(rest, D)
    <2>1. \A i \in D : base[i] \in Int /\ rest[i] \in Int /\ qw[i] = (W * base[i]) + rest[i]
      BY <1>2
    <2>2. W \in Int /\ IsFiniteSet(D)
      BY <1>1
    <2> HIDE DEF qw, rest, Floors
    <2> QED
      BY <2>1, <2>2, SumLinear
  <1>7. W * k = Sum(rest, D)
    <2>1. W * (q - B) = (W * q) - (W * B) /\ W * q = q * W /\ W * B \in Nat /\ W * q \in Nat
      BY <1>1, <1>3, Products
    <2> HIDE DEF qw, rest, B
    <2> QED
      BY <1>4, <1>5, <1>6, <2>1
  <1>8. k \in Nat
    <2>1. k \in Int
      BY <1>3
    <2> HIDE DEF k, rest
    <2> QED
      BY <1>1, <1>4, <1>7, <2>1, Products
  <1>9. IsFiniteSet(P) /\ Cardinality(P) \in Nat
    BY FS_Subset, FS_CardinalityType
  <1>10. Sum(rest, D) <= (W - 1) * Cardinality(P)
    <2> DEFINE one == [i \in D |-> IF i \in P THEN 1 ELSE 0]
               top == [i \in D |-> (W - 1) * one[i]]
    <2>1. Sum(one, D) = Cardinality(P)
      <3>1. P \subseteq D /\ \A i \in D : one[i] = IF i \in P THEN 1 ELSE 0
        OBVIOUS
      <3> HIDE DEF one, P
      <3> QED
        BY <3>1, SumIndicator
    <2>2. Sum(top, D) = (W - 1) * Sum(one, D)
      <3>1. W - 1 \in Int /\ \A i \in D : one[i] \in Int /\ top[i] = (W - 1) * one[i]
        BY <1>1
      <3> HIDE DEF one, top
      <3> QED
        BY <3>1, SumScale
    <2>3. Sum(rest, D) <= Sum(top, D)
      <3>1. ASSUME NEW i \in D
            PROVE  rest[i] \in Int /\ top[i] \in Int /\ rest[i] <= top[i]
        <4>1. rest[i] \in Nat /\ rest[i] <= W - 1
          BY <1>2
        <4>2. CASE i \in P
          <5>1. top[i] = W - 1
            BY <1>1, <4>2
          <5> QED
            BY <1>1, <4>1, <5>1
        <4>3. CASE i \notin P
          <5>1. top[i] = 0 /\ rest[i] = 0
            BY <1>1, <4>1, <4>3
          <5> QED
            BY <5>1
        <4> QED
          BY <4>2, <4>3
      <3> HIDE DEF rest, top
      <3> QED
        BY <3>1, SumAtMost
    <2> QED
      BY <2>1, <2>2, <2>3
  <1>11. ASSUME k > 0
         PROVE  k < Cardinality(P)
    <2> DEFINE p == Cardinality(P)
    <2> SUFFICES ASSUME p <= k PROVE FALSE
      BY <1>8, <1>9
    <2>1. (W - 1) * p <= (W - 1) * k /\ (W - 1) * k = (W * k) - k
      <3>1. W - 1 \in Nat
        BY <1>1
      <3> HIDE DEF k, p
      <3>2. (W - 1) * p <= (W - 1) * k
        BY <1>8, <1>9, <3>1, Products DEF p
      <3>3. (W - 1) * k = (W * k) - k
        BY <1>1, <1>8
      <3> QED
        BY <3>2, <3>3
    <2>2. W * k \in Nat /\ (W - 1) * p \in Int
      <3>1. W - 1 \in Nat
        BY <1>1
      <3> HIDE DEF k, p
      <3> QED
        BY <1>1, <1>8, <1>9, <3>1, Products DEF p
    <2> HIDE DEF k, rest
    <2> QED
      BY <1>7, <1>8, <1>10, <1>11, <2>1, <2>2
  <1> QED
    BY <1>1, <1>2, <1>3, <1>8, <1>9, <1>11 DEF Odd, Leaves

\* The units left over go to the largest remainders, one each.
HandsOut(q, w, D, W, base, to) ==
    \A i \in D : to[i] = base[i] +
       IF Cardinality(Ahead(q, w, W, D, i)) < q - Sum(base, D) THEN 1 ELSE 0

\* Every share is proportional but for less than a unit, and together they are q.
Proportional(q, w, D, W, to) ==
    /\ \A i \in D : /\ to[i] \in Nat
                    /\ to[i] * W < q * w[i] + W
                    /\ to[i] * W > q * w[i] - W
    /\ Sum(to, D) = q

\* The method of the largest remainders, which the warehouse split and the
\* sharing of components both use, hands out every unit and no more, and gives no one a
\* whole unit more or less than the proportional share: because at most the shares that are
\* not whole are rounded up.
THEOREM LargestRemainders ==
    ASSUME NEW q, NEW w, NEW D, NEW W, NEW base, Floors(q, w, D, W, base),
           NEW to, HandsOut(q, w, D, W, base, to)
    PROVE  Proportional(q, w, D, W, to)
  <1> DEFINE R == {x \in D \X D : x[1] \in Ahead(q, w, W, D, x[2])}
             B == Sum(base, D)
             k == q - B
             P == Odd(q, w, W, D)
             more == [i \in D |-> IF Cardinality(Ahead(q, w, W, D, i)) < k THEN 1 ELSE 0]
             lucky == {i \in D : Rank(R, D, i) < k}
  <1>0. q \in Nat /\ IsFiniteSet(D) /\ D \subseteq Int
    BY DEF Floors
  <1>a. \A i \in D : to[i] = base[i] + IF Cardinality(Ahead(q, w, W, D, i)) < k THEN 1 ELSE 0
    BY DEF HandsOut
  <1>1. /\ W \in Nat /\ B \in Nat /\ k \in Nat
        /\ IsFiniteSet(P) /\ Cardinality(P) \in Nat
        /\ k > 0 => k < Cardinality(P)
    <2>1. Leaves(q, w, D, W, base)
      BY LeftOver
    <2> QED
      BY <2>1 DEF Leaves
  <1>b. \A i \in D : /\ base[i] \in Nat /\ Remainder(q, w, W, i) \in Nat
                     /\ Remainder(q, w, W, i) <= W - 1
                     /\ q * w[i] = (W * base[i]) + Remainder(q, w, W, i)
    <2>1. Leaves(q, w, D, W, base)
      BY LeftOver
    <2> QED
      BY <2>1 DEF Leaves
  <1>2. StrictOrder(R, D)
    <2>1. \A i, j \in D : <<j, i>> \in R <=> \/ Remainder(q, w, W, j) > Remainder(q, w, W, i)
                                             \/ Remainder(q, w, W, j) = Remainder(q, w, W, i) /\ j < i
      BY DEF Ahead
    <2>2. \A i \in D : Remainder(q, w, W, i) \in Int /\ i \in Int
      BY <1>0, <1>b
    <2> HIDE DEF R
    <2> QED
      BY <1>0, <2>1, <2>2 DEF StrictOrder
  <1>3. \A i \in D : Rank(R, D, i) = Cardinality(Ahead(q, w, W, D, i))
    <2> TAKE i \in D
    <2>1. {j \in D : <<j, i>> \in R} = Ahead(q, w, W, D, i)
      BY DEF Ahead
    <2> QED
      BY <2>1 DEF Rank
  <1>4. k <= Cardinality(D)
    <2>1. Cardinality(P) <= Cardinality(D) /\ Cardinality(D) \in Nat
      BY <1>0, FS_Subset, FS_CardinalityType DEF Odd
    <2> HIDE DEF k, P
    <2> QED
      BY <1>1, <2>1
  <1>5. Cardinality(lucky) = k
    <2> HIDE DEF R, k
    <2> QED
      BY <1>0, <1>1, <1>2, <1>4, RankCount
  <1>6. \A i \in D : more[i] = IF i \in lucky THEN 1 ELSE 0
    <2> HIDE DEF k, R
    <2> QED
      BY <1>3
  <1>7. Sum(more, D) = k
    <2>1. lucky \subseteq D
      OBVIOUS
    <2> HIDE DEF lucky, more, k
    <2> QED
      BY <1>0, <1>5, <1>6, <2>1, SumIndicator
  <1>8. Sum(to, D) = q
    <2>1. \A i \in D : base[i] \in Int /\ more[i] \in Int /\ to[i] = base[i] + more[i]
      <3> HIDE DEF k
      <3> QED
        BY <1>a, <1>b
    <2>2. Sum(to, D) = B + Sum(more, D)
      <3> HIDE DEF more
      <3> QED
        BY <1>0, <2>1, SumAdd
    <2> HIDE DEF more, B
    <2> QED
      BY <1>0, <1>1, <1>7, <2>2
  <1>9. ASSUME NEW i \in D
        PROVE  /\ to[i] \in Nat /\ to[i] * W < q * w[i] + W /\ to[i] * W > q * w[i] - W
    <2> DEFINE r == Remainder(q, w, W, i)
               b == base[i]
               m == W * b
               t == q * w[i]
               g == to[i] * W
    <2>1. r \in Nat /\ b \in Nat /\ r <= W - 1 /\ t = m + r
      BY <1>b
    <2>2. m \in Nat /\ b * W = m /\ (b + 1) * W = m + W
      <3>1. W \in Nat /\ b \in Nat
        BY <1>1, <2>1
      <3> HIDE DEF b
      <3> QED
        BY <3>1, Products
    <2>3. CASE to[i] = b
      <3>1. g = m
        <4> HIDE DEF b, m
        <4> QED
          BY <2>2, <2>3
      <3>2. to[i] \in Nat
        BY <2>1, <2>3
      <3>3. g < t + W /\ g > t - W
        <4> HIDE DEF b, r, m, t, g
        <4> QED
          BY <1>1, <2>1, <2>2, <3>1
      <3> QED
        BY <3>2, <3>3
    <2>4. CASE to[i] = b + 1 /\ Cardinality(Ahead(q, w, W, D, i)) < k
      <3>1. r # 0
        <4> SUFFICES ASSUME r = 0 PROVE FALSE
          OBVIOUS
        <4>1. P \subseteq Ahead(q, w, W, D, i) /\ Ahead(q, w, W, D, i) \subseteq D
          BY DEF Ahead, Odd
        <4>2. IsFiniteSet(Ahead(q, w, W, D, i))
          BY <1>0, <4>1, FS_Subset
        <4>3. Cardinality(P) <= Cardinality(Ahead(q, w, W, D, i)) /\ Cardinality(Ahead(q, w, W, D, i)) \in Nat
          <5> HIDE DEF P
          <5> QED
            BY <4>1, <4>2, FS_Subset, FS_CardinalityType
        <4> HIDE DEF P, k
        <4> QED
          BY <1>1, <2>4, <4>3
      <3>2. g = m + W
        <4> HIDE DEF b, m
        <4> QED
          BY <2>2, <2>4
      <3>3. to[i] \in Nat
        <4> HIDE DEF b
        <4> QED
          BY <2>1, <2>4
      <3>4. g < t + W /\ g > t - W
        <4> HIDE DEF b, r, m, t, g
        <4> QED
          BY <1>1, <2>1, <2>2, <3>1, <3>2
      <3> QED
        BY <3>3, <3>4
    <2>5. to[i] = b \/ (to[i] = b + 1 /\ Cardinality(Ahead(q, w, W, D, i)) < k)
      <3> HIDE DEF k
      <3> QED
        BY <1>a, <2>1
    <2> QED
      BY <2>3, <2>4, <2>5
  <1> QED
    BY <1>8, <1>9 DEF Proportional

-----------------------------------------------------------------------------
(* What the engine sums, multiplies and shares out *)

\* StockMapping's sum is the same.
LEMMA SumOfTotal == ASSUME NEW f PROVE SumOf(f) = Total(f)
  BY DEF SumOf, Total

\* The first n numbers.
LEMMA IntervalFinite ==
    ASSUME NEW n \in Nat
    PROVE  IsFiniteSet(1 .. n) /\ Cardinality(1 .. n) = n /\ 1 .. n \subseteq Int
  <1>1. IsFiniteSet(1 .. n) /\ Cardinality(1 .. n) = IF 1 > n THEN 0 ELSE n - 1 + 1
    BY FS_Interval
  <1> QED
    BY <1>1

\* A sum is at least each of its terms.
LEMMA SumTerm ==
    ASSUME NEW S, IsFiniteSet(S), NEW f, \A x \in S : f[x] \in Nat, NEW y \in S
    PROVE  Sum(f, S) >= f[y]
  <1>1. Sum(f, S) = f[y] + Sum(f, S \ {y})
    <2>1. \A x \in S : f[x] \in Int
      OBVIOUS
    <2> QED
      BY <2>1, SumRemove
  <1>2. IsFiniteSet(S \ {y}) /\ \A x \in S \ {y} : f[x] \in Nat
    BY FS_RemoveElement
  <1>3. Sum(f, S \ {y}) \in Nat
    BY <1>2, SumNat
  <1> QED
    BY <1>1, <1>3

\* A sum over a set is the sum over a part and over the others.
LEMMA SumPart ==
    ASSUME NEW S, IsFiniteSet(S), NEW T, T \subseteq S, NEW f, \A x \in S : f[x] \in Int
    PROVE  Sum(f, S) = Sum(f, T) + Sum(f, S \ T)
  <1> DEFINE in == [x \in S |-> IF x \in T THEN f[x] ELSE 0]
             out == [x \in S |-> IF x \in T THEN 0 ELSE f[x]]
  <1>1. /\ \A x \in S : in[x] \in Int /\ out[x] \in Int /\ f[x] = in[x] + out[x]
        /\ \A x \in S \ T : in[x] = 0
        /\ \A x \in S \ (S \ T) : out[x] = 0
        /\ \A x \in T : f[x] \in Int /\ in[x] = f[x]
        /\ \A x \in S \ T : f[x] \in Int /\ out[x] = f[x]
    OBVIOUS
  <1> HIDE DEF in, out
  <1>2. Sum(f, S) = Sum(in, S) + Sum(out, S)
    BY <1>1, SumAdd
  <1>3. Sum(in, S) = Sum(in, T)
    BY <1>1, SumSupport
  <1>4. Sum(out, S) = Sum(out, S \ T)
    <2>1. S \ T \subseteq S /\ \A x \in S : out[x] \in Int
      BY <1>1
    <2> QED
      BY <1>1, <2>1, SumSupport
  <1>5. IsFiniteSet(T) /\ IsFiniteSet(S \ T)
    BY FS_Subset
  <1>6. Sum(in, T) = Sum(f, T)
    BY <1>1, <1>5, SumSame
  <1>7. Sum(out, S \ T) = Sum(f, S \ T)
    BY <1>1, <1>5, SumSame
  <1> QED
    BY <1>2, <1>3, <1>4, <1>6, <1>7

\* Multiplication can be folded in any order.
LEMMA TimesMonoid == Monoid(Times, 1, Nat \ {0})
  <1> DEFINE V == Nat \ {0}
  <1>1. \A a, b \in Int : Times[a][b] = a * b
    BY DEF Times
  <1>2. \A a, b \in V : a \in Int /\ b \in Int /\ a * b \in V /\ a * b = b * a
    OBVIOUS
  <1>3. 1 \in V /\ \A a, b \in V : Times[a][b] \in V /\ Times[a][b] = Times[b][a]
    <2>1. ASSUME NEW a \in V, NEW b \in V
          PROVE  Times[a][b] \in V /\ Times[a][b] = Times[b][a]
      <3>1. a * b \in V /\ a * b = b * a
        OBVIOUS
      <3>2. Times[a][b] = a * b /\ Times[b][a] = b * a
        BY DEF Times
      <3> QED
        BY <3>1, <3>2
    <2> QED
      BY <2>1
  <1>4. \A a, b, c \in V : Times[a][Times[b][c]] = Times[Times[a][b]][c]
    <2> TAKE a, b, c \in V
    <2>1. a \in Int /\ b \in Int /\ c \in Int /\ a * b \in Int /\ b * c \in Int
      BY <1>2
    <2>2. Times[b][c] = b * c /\ Times[a][b] = a * b
      BY <1>1, <2>1
    <2>3. Times[a][b * c] = a * (b * c) /\ Times[a * b][c] = (a * b) * c
      <3> DEFINE x == b * c
                 y == a * b
      <3>1. x \in Int /\ y \in Int
        BY <2>1
      <3> HIDE DEF x, y
      <3>2. Times[a][x] = a * x /\ Times[y][c] = y * c
        BY <1>1, <2>1, <3>1
      <3> QED
        BY <3>2 DEF x, y
    <2>4. a * (b * c) = (a * b) * c
      BY <2>1
    <2> QED
      BY <2>2, <2>3, <2>4
  <1> QED
    BY <1>3, <1>4 DEF Monoid

\* g is the function FoldFunction applies for a product.
Multiplies(f, D, g) == g = [s \in SUBSET D |-> IF s = {} THEN 1 ELSE f[First(s)] * g[Rest(s)]]

\* The product that Sample takes for a common denominator.
Product(f) == FoldFunction(LAMBDA a, b : a * b, 1, f)

\* There is one such function.
LEMMA MultipliesAgree ==
    ASSUME NEW f, NEW D, IsFiniteSet(D), NEW g, Multiplies(f, D, g), NEW h, Multiplies(f, D, h)
    PROVE  g[D] = h[D]
  <1> DEFINE Bad == {s \in SUBSET D : g[s] # h[s]}
  <1> SUFFICES ASSUME Bad # {} PROVE FALSE
    OBVIOUS
  <1>1. PICK s \in Bad : \A t \in Bad : ~(t \subseteq s /\ t # s)
    <2>2. Bad \subseteq SUBSET D
      OBVIOUS
    <2> HIDE DEF Bad
    <2> QED
      BY <2>2, SubLeast
  <1>2. /\ g[s] = IF s = {} THEN 1 ELSE f[First(s)] * g[Rest(s)]
        /\ h[s] = IF s = {} THEN 1 ELSE f[First(s)] * h[Rest(s)]
    BY DEF Multiplies
  <1>3. s # {}
    BY <1>2
  <1>4. Rest(s) \subseteq s /\ Rest(s) # s
    BY <1>3, FirstIn
  <1>5. g[Rest(s)] = h[Rest(s)]
    BY <1>1, <1>4
  <1> QED
    BY <1>2, <1>5

\* FoldFunction with a product is the fold of multiplication.
LEMMA ProductAcc ==
    ASSUME NEW f, IsFiniteSet(DOMAIN f), \A x \in DOMAIN f : f[x] \in Nat \ {0}
    PROVE  Product(f) = Acc(Times, 1, f, DOMAIN f)
  <1> DEFINE D == DOMAIN f
             G == [s \in SUBSET D |-> Acc(Times, 1, f, s)]
             iter == CHOOSE g : Multiplies(f, D, g)
  <1>1. Multiplies(f, D, G)
    <2> SUFFICES ASSUME NEW s \in SUBSET D
                 PROVE  G[s] = IF s = {} THEN 1 ELSE f[First(s)] * G[Rest(s)]
      BY DEF Multiplies
    <2>1. CASE s = {}
      BY <2>1, AccEmpty
    <2>2. CASE s # {}
      <3>1. First(s) \in s /\ Rest(s) \subseteq s
        BY <2>2, FirstIn
      <3>2. IsFiniteSet(s) /\ IsFiniteSet(Rest(s))
        BY <3>1, FS_Subset
      <3>3. Acc(Times, 1, f, s) = Times[f[First(s)]][Acc(Times, 1, f, Rest(s))]
        BY <2>2, <3>2, AccFirst
      <3>4. Acc(Times, 1, f, Rest(s)) \in Nat \ {0}
        BY <3>1, <3>2, AccTyped, TimesMonoid
      <3>5. f[First(s)] \in Int
        BY <3>1
      <3>6. ASSUME NEW a \in Int, NEW b \in Int PROVE Times[a][b] = a * b
        BY DEF Times
      <3> DEFINE a == f[First(s)]
                 b == Acc(Times, 1, f, Rest(s))
      <3>7. Acc(Times, 1, f, s) = a * b
        <4>1. a \in Int /\ b \in Int /\ Acc(Times, 1, f, s) = Times[a][b]
          BY <3>3, <3>4, <3>5
        <4> HIDE DEF a, b
        <4>2. Times[a][b] = a * b
          BY <3>6, <4>1
        <4> QED
          BY <4>1, <4>2
      <3> QED
        BY <2>2, <3>1, <3>7
    <2> QED
      BY <2>1, <2>2
  <1>2. Multiplies(f, D, iter)
    BY <1>1
  <1>3. iter[D] = G[D]
    <2> HIDE DEF iter, G, D
    <2> QED
      BY <1>1, <1>2, MultipliesAgree DEF D
  <1>4. Product(f) = iter[D]
    BY DEF Product, FoldFunction, FoldFunctionOnSet, MapThenFoldSet, Multiplies, First, Rest
  <1> QED
    BY <1>3, <1>4

\* The common denominator of the shares of an order is no less than n.
LEMMA ScaleBounds ==
    ASSUME NEW n \in Nat
    PROVE  Product([k \in 1 .. n |-> k]) \in Nat /\ Product([k \in 1 .. n |-> k]) >= n
  <1> DEFINE f == [k \in 1 .. n |-> k]
  <1>1. IsFiniteSet(DOMAIN f) /\ DOMAIN f = 1 .. n /\ \A x \in 1 .. n : f[x] \in Nat \ {0} /\ f[x] = x
    BY IntervalFinite
  <1> HIDE DEF f
  <1>2. Product(f) = Acc(Times, 1, f, 1 .. n)
    BY <1>1, ProductAcc
  <1>3. Acc(Times, 1, f, 1 .. n) \in Nat \ {0}
    BY <1>1, AccTyped, TimesMonoid
  <1>4. CASE n > 0
    <2>1. n \in 1 .. n
      BY <1>4
    <2>2. Acc(Times, 1, f, 1 .. n) = Times[f[n]][Acc(Times, 1, f, (1 .. n) \ {n})]
      BY <1>1, <2>1, AccRemove, TimesMonoid
    <2>3. Acc(Times, 1, f, (1 .. n) \ {n}) \in Nat \ {0}
      <3>1. IsFiniteSet((1 .. n) \ {n})
        BY <1>1, FS_RemoveElement
      <3> QED
        BY <1>1, <3>1, AccTyped, TimesMonoid
    <2>4. f[n] = n
      BY <1>1, <2>1
    <2> DEFINE z == Acc(Times, 1, f, (1 .. n) \ {n})
    <2>5. Times[n][z] = n * z
      <3>1. z \in Int
        BY <2>3
      <3> HIDE DEF z
      <3> QED
        BY <3>1 DEF Times
    <2>6. \A x \in Nat \ {0} : n * x >= n
      OBVIOUS
    <2>7. n * z >= n
      <3>1. z \in Nat \ {0}
        BY <2>3
      <3> HIDE DEF z
      <3> QED
        BY <2>6, <3>1
    <2>8. Product(f) = n * z
      BY <1>2, <2>2, <2>4, <2>5
    <2> HIDE DEF z
    <2> QED
      BY <1>2, <1>3, <2>7, <2>8 DEF f
  <1>5. CASE n = 0
    BY <1>2, <1>3, <1>5 DEF f
  <1> QED
    BY <1>4, <1>5

\* to hands out q units in proportion to the weights w, all of them.
Shared(q, w, to) ==
    /\ DOMAIN to = DOMAIN w
    /\ \A i \in DOMAIN w : /\ to[i] \in Nat
                           /\ to[i] * Total(w) < q * w[i] + Total(w)
                           /\ to[i] * Total(w) > q * w[i] - Total(w)
    /\ Sum(to, DOMAIN w) = q

\* Weights by position.
Weights(w) ==
    IsFiniteSet(DOMAIN w) /\ DOMAIN w \subseteq Int /\ \A i \in DOMAIN w : w[i] \in Nat

\* Their total.
LEMMA WeightsSum ==
    ASSUME NEW w, Weights(w)
    PROVE  Total(w) = Sum(w, DOMAIN w) /\ Total(w) \in Nat
  <1>1. IsFiniteSet(DOMAIN w) /\ \A i \in DOMAIN w : w[i] \in Nat /\ w[i] \in Int
    BY DEF Weights
  <1>2. Total(w) = Sum(w, DOMAIN w)
    BY <1>1, TotalIsSum
  <1>3. Sum(w, DOMAIN w) \in Nat
    BY <1>1, SumNat
  <1> QED
    BY <1>2, <1>3

\* _allocate_by_weights hands out the quantity in proportion, whenever there is a
\* weight.
LEMMA ByWeights ==
    ASSUME NEW q \in Nat, NEW w, Weights(w), Total(w) > 0
    PROVE  Shared(q, w, AllocateByWeights(q, w))
  <1> DEFINE D == DOMAIN w
             W == Total(w)
             base == [i \in DOMAIN w |-> (q * w[i]) \div Total(w)]
             to == AllocateByWeights(q, w)
  <1>1. IsFiniteSet(D) /\ D \subseteq Int /\ \A i \in D : w[i] \in Nat /\ w[i] \in Int
    BY DEF Weights
  <1>2. W = Sum(w, D) /\ W \in Nat
    BY WeightsSum
  <1>3. w # <<>>
    <2> SUFFICES ASSUME w = <<>> PROVE FALSE
      OBVIOUS
    <2>1. D = {}
      OBVIOUS
    <2>2. Sum(w, D) = 0
      BY <2>1, SumEmpty
    <2> QED
      BY <1>2, <2>2
  <1>4. CASE q = 0
    <2>1. to = [i \in DOMAIN w |-> 0]
      BY <1>4 DEF AllocateByWeights
    <2>2. DOMAIN to = D /\ \A i \in D : to[i] = 0
      BY <2>1
    <2> HIDE DEF to
    <2>3. Sum(to, D) = 0
      BY <1>1, <2>2, SumZero
    <2>4. ASSUME NEW i \in D
          PROVE  to[i] \in Nat /\ to[i] * W < q * w[i] + W /\ to[i] * W > q * w[i] - W
      <3> HIDE DEF W
      <3>1. to[i] * W = 0 /\ q * w[i] = 0
        BY <1>1, <1>2, <1>4, <2>2
      <3>2. W > 0
        BY DEF W
      <3> QED
        BY <1>2, <2>2, <3>1, <3>2
    <2> QED
      BY <1>4, <2>2, <2>3, <2>4 DEF Shared, to
  <1>5. CASE q > 0
    <2>1. /\ IsFiniteSet(DOMAIN base) /\ DOMAIN base = D
          /\ \A i \in D : base[i] = (q * w[i]) \div W /\ base[i] \in Int
      <3>1. DOMAIN base = D /\ \A i \in D : base[i] = (q * w[i]) \div W
        OBVIOUS
      <3>2. ASSUME NEW i \in D PROVE (q * w[i]) \div W \in Int
        <4>1. q * w[i] \in Nat
          BY <1>1, Products
        <4> QED
          BY <1>2, <4>1, Division
      <3> QED
        BY <1>1, <3>1, <3>2
    <2>2. Total(base) = Sum(base, D)
      <3> HIDE DEF base
      <3> QED
        BY <2>1, TotalIsSum
    <2>3. Floors(q, w, D, W, base)
      <3>1. W = Sum(w, D) /\ W > 0
        BY <1>2
      <3> HIDE DEF base, W
      <3> QED
        BY <1>1, <2>1, <3>1 DEF Floors
    <2>4. /\ DOMAIN to = D
          /\ \A i \in D : to[i] = base[i] +
                IF Cardinality(Ahead(q, w, W, D, i)) < q - Sum(base, D) THEN 1 ELSE 0
      <3> DEFINE rest == [i \in DOMAIN w |-> (q * w[i]) % Total(w)]
                 ahead(i) == {j \in DOMAIN w : rest[j] > rest[i] \/ (rest[j] = rest[i] /\ j < i)}
      <3>1. to = [i \in DOMAIN w |->
                     base[i] + IF Cardinality(ahead(i)) < q - Total(base) THEN 1 ELSE 0]
        <4>1. ~(q <= 0 \/ w = <<>> \/ Total(w) <= 0)
          BY <1>2, <1>3, <1>5
        <4> QED
          BY <4>1 DEF AllocateByWeights
      <3>2. \A i \in D : ahead(i) = Ahead(q, w, W, D, i)
        BY DEF Ahead, Remainder
      <3> HIDE DEF base, ahead, to
      <3> QED
        BY <2>2, <3>1, <3>2
    <2>5. /\ \A i \in D : /\ to[i] \in Nat
                          /\ to[i] * W < q * w[i] + W
                          /\ to[i] * W > q * w[i] - W
          /\ Sum(to, D) = q
      <3>1. HandsOut(q, w, D, W, base, to)
        BY <2>4 DEF HandsOut
      <3> HIDE DEF base, to, W, D
      <3>2. Proportional(q, w, D, W, to)
        BY <2>3, <3>1, LargestRemainders
      <3> QED
        BY <3>2 DEF Proportional
    <2> QED
      BY <2>4, <2>5 DEF Shared
  <1> QED
    BY <1>4, <1>5

\* Two positions.
LEMMA TwoFinite == IsFiniteSet({1, 2})
  <1>1. 1 .. 2 = {1, 2}
    OBVIOUS
  <1>2. IsFiniteSet(1 .. 2)
    BY IntervalFinite
  <1> QED
    BY <1>1, <1>2

\* A sum of two terms.
LEMMA SumOfTwo ==
    ASSUME NEW f, f[1] \in Int, f[2] \in Int
    PROVE  Sum(f, {1, 2}) = f[1] + f[2]
  <1>1. IsFiniteSet({1, 2}) /\ \A x \in {1, 2} : f[x] \in Int
    BY TwoFinite
  <1>2. Sum(f, {1, 2}) = f[1] + Sum(f, {1, 2} \ {1})
    BY <1>1, SumRemove
  <1>4. Sum(f, {2}) = f[2] + Sum(f, {2} \ {2})
    <2>1. IsFiniteSet({2}) /\ \A x \in {2} : f[x] \in Int
      BY FS_Singleton
    <2> QED
      BY <2>1, SumRemove
  <1>5. Sum(f, {1, 2} \ {1}) = Sum(f, {2}) /\ Sum(f, {2} \ {2}) = Sum(f, {})
    <2>1. {1, 2} \ {1} = {2} /\ {2} \ {2} = {}
      OBVIOUS
    <2> QED
      BY <2>1
  <1>6. Sum(f, {}) = 0
    BY SumEmpty
  <1> QED
    BY <1>2, <1>4, <1>5, <1>6

\* The quantity is divided between the orders with a known and with an unknown
\* warehouse; all of it is for the known ones when there are no others.
LEMMA Buckets ==
    ASSUME NEW q \in Nat, NEW a \in Nat, NEW b \in Nat, a > 0,
           NEW bucket, bucket = AllocateByWeights(q, <<a, b>>)
    PROVE  /\ bucket[1] \in Nat /\ bucket[2] \in Nat /\ bucket[1] + bucket[2] = q
           /\ b = 0 => bucket[1] = q /\ bucket[2] = 0
  <1> DEFINE w == <<a, b>>
  <1>1. DOMAIN w = {1, 2} /\ w[1] = a /\ w[2] = b
    OBVIOUS
  <1>2. Weights(w)
    <2>1. IsFiniteSet({1, 2})
      BY TwoFinite
    <2> HIDE DEF w
    <2> QED
      BY <1>1, <2>1 DEF Weights
  <1> HIDE DEF w
  <1>3. Total(w) = a + b
    <2>1. w[1] \in Int /\ w[2] \in Int
      BY <1>1
    <2>2. Sum(w, {1, 2}) = w[1] + w[2]
      BY <2>1, SumOfTwo
    <2> QED
      BY <1>1, <1>2, <2>2, WeightsSum
  <1>4. Shared(q, w, bucket)
    <2>1. Total(w) > 0
      BY <1>3
    <2> QED
      BY <1>2, <2>1, ByWeights DEF w
  <1>5. bucket[1] \in Nat /\ bucket[2] \in Nat /\ Sum(bucket, {1, 2}) = q
    BY <1>1, <1>4 DEF Shared
  <1>6. bucket[1] + bucket[2] = q
    <2>1. bucket[1] \in Int /\ bucket[2] \in Int
      BY <1>5
    <2>2. Sum(bucket, {1, 2}) = bucket[1] + bucket[2]
      BY <2>1, SumOfTwo
    <2> QED
      BY <1>5, <2>2
  <1>7. ASSUME b = 0 PROVE bucket[2] = 0
    <2>1. bucket[2] * (a + b) < q * b + (a + b)
      BY <1>1, <1>3, <1>4 DEF Shared
    <2>2. q * b = 0
      BY <1>7
    <2>3. bucket[2] * a < a
      BY <1>7, <2>1, <2>2
    <2>4. ASSUME NEW x \in Nat, x * a < a PROVE x = 0
      BY <2>4
    <2> QED
      BY <1>5, <2>3, <2>4
  <1> QED
    BY <1>5, <1>6, <1>7

\* _allocate_even hands out the whole quantity.
LEMMA Evenly ==
    ASSUME NEW q \in Nat, NEW n \in Nat, NEW to, to = AllocateEven(q, n)
    PROVE  /\ DOMAIN to = 1 .. n
           /\ \A i \in 1 .. n : to[i] \in Nat /\ (q = 0 => to[i] = 0)
           /\ n > 0 => Sum(to, 1 .. n) = q
  <1> DEFINE D == 1 .. n
             b == q \div n
             r == q - b * n
             one == [i \in D |-> 1]
             more == [i \in D |-> IF i \in 1 .. r THEN 1 ELSE 0]
             base == [i \in D |-> b * one[i]]
  <1>0. IsFiniteSet(D) /\ Cardinality(D) = n
    BY IntervalFinite
  <1>1. DOMAIN to = D
    BY DEF AllocateEven
  <1>2. CASE n = 0
    BY <1>1, <1>2
  <1>3. CASE n > 0 /\ q = 0
    <2>1. \A i \in D : to[i] = 0
      BY <1>3 DEF AllocateEven
    <2>2. Sum(to, D) = 0
      BY <1>0, <2>1, SumZero
    <2> QED
      BY <1>1, <1>3, <2>1, <2>2
  <1>4. CASE n > 0 /\ q > 0
    <2>1. b \in Nat /\ r \in Nat /\ r <= n /\ b * n \in Nat /\ b * n + r = q
      <3>1. b \in Nat /\ (q % n) \in Nat /\ q % n <= n - 1 /\ q = (n * b) + (q % n)
        BY <1>4, Division
      <3>2. n * b = b * n /\ n * b \in Nat
        <4> HIDE DEF b
        <4> QED
          BY <3>1, Products
      <3> HIDE DEF b
      <3> QED
        BY <3>1, <3>2
    <2>2. \A i \in D : to[i] = b + (IF i <= r THEN 1 ELSE 0)
      <3>1. ~(q <= 0)
        BY <1>4
      <3> QED
        BY <3>1 DEF AllocateEven
    <2> HIDE DEF b, r
    <2>3. ASSUME NEW i \in D
          PROVE  one[i] \in Int /\ base[i] = b * one[i] /\ base[i] \in Int /\ more[i] \in Int
                 /\ to[i] = base[i] + more[i] /\ to[i] \in Nat
      <3>1. i \in Nat /\ i >= 1 /\ one[i] = 1
        OBVIOUS
      <3>2. base[i] = b
        BY <2>1, <3>1
      <3>3. more[i] = IF i <= r THEN 1 ELSE 0
        BY <2>1, <3>1
      <3> QED
        BY <2>1, <2>2, <3>1, <3>2, <3>3
    <2>4. Sum(to, D) = Sum(base, D) + Sum(more, D)
      <3>1. \A i \in D : base[i] \in Int /\ more[i] \in Int /\ to[i] = base[i] + more[i]
        BY <2>3
      <3> HIDE DEF base, more, D
      <3> QED
        BY <1>0, <3>1, SumAdd
    <2>5. Sum(one, D) = n
      <3>1. \A i \in D : one[i] = 1
        OBVIOUS
      <3> HIDE DEF one, D
      <3> QED
        BY <1>0, <3>1, SumCount
    <2>6. Sum(base, D) = b * Sum(one, D)
      <3>1. b \in Int /\ \A i \in D : one[i] \in Int /\ base[i] = b * one[i]
        BY <2>1
      <3> HIDE DEF one, base, D
      <3> QED
        BY <1>0, <3>1, SumScale
    <2>7. Sum(more, D) = r
      <3>1. 1 .. r \subseteq D /\ Cardinality(1 .. r) = r
        BY <2>1, IntervalFinite
      <3>2. \A i \in D : more[i] = IF i \in 1 .. r THEN 1 ELSE 0
        OBVIOUS
      <3> HIDE DEF more, D
      <3> QED
        BY <1>0, <3>1, <3>2, SumIndicator
    <2>8. Sum(to, D) = q
      <3> HIDE DEF one, base, more, D
      <3> QED
        BY <2>1, <2>4, <2>5, <2>6, <2>7
    <2> QED
      BY <1>1, <1>4, <2>3, <2>8
  <1> QED
    BY <1>2, <1>3, <1>4
=============================================================================
