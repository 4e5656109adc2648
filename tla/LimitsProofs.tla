---------------------------- MODULE LimitsProofs ----------------------------
(***************************************************************************)
(* The rate limits, whatever the sizes of their tables are, however many   *)
(* clients there are, and whatever they send.                              *)
(*                                                                         *)
(* The arguments count what a table's entries are worth.  The few facts    *)
(* about finite sets they rest on, FiniteFacts, are proved at the end of   *)
(* the module, from the library's theorems.                                *)
(***************************************************************************)
EXTENDS QueryLimits, TLAPS

USE SMTT(60), SMTT(90)   \* a second try, should the machine be busy

----------------------------------------------------------------------------
(* The sum of u[d] over the finite set D is the number of pairs of a d and  *)
(* one of its u[d] units.                                                   *)

Units(D, u) == UNION {{d} \X (1..u[d]) : d \in D}

Sum(D, u) == Cardinality(Units(D, u))

Sizeable(D, u) == IsFiniteSet(D) /\ \A d \in D : u[d] \in Nat

\* What is to be known of finite sets.
FiniteFacts ==
  /\ \A S : IsFiniteSet(S) => Cardinality(S) \in Nat
  /\ IsFiniteSet({}) /\ Cardinality({}) = 0
  /\ \A S, x : IsFiniteSet(S) /\ x \notin S =>
       IsFiniteSet(S \cup {x}) /\ Cardinality(S \cup {x}) = Cardinality(S) + 1
  /\ \A S, T : IsFiniteSet(S) /\ T \subseteq S => IsFiniteSet(T) /\ Cardinality(T) <= Cardinality(S)
  /\ \A S, T : IsFiniteSet(S) /\ IsFiniteSet(T) =>
       /\ IsFiniteSet(S \cup T)
       /\ Cardinality(S \cup T) = Cardinality(S) + Cardinality(T) - Cardinality(S \cap T)
  /\ \A S, T : IsFiniteSet(S) /\ IsFiniteSet(T) =>
       IsFiniteSet(S \X T) /\ Cardinality(S \X T) = Cardinality(S) * Cardinality(T)
  /\ \A n \in Nat : IsFiniteSet(1..n) /\ Cardinality(1..n) = n
  /\ \A S, T, f :
       IsFiniteSet(T) /\ (\A p \in S : f[p] \in T) /\ (\A p, q \in S : f[p] = f[q] => p = q) =>
         IsFiniteSet(S) /\ Cardinality(S) <= Cardinality(T)
  /\ \A D, u : Sizeable(D, u) => IsFiniteSet(Units(D, u))

\* The facts, one by one: a cardinality is a number.
LEMMA FinCard ==
  ASSUME FiniteFacts, NEW S, IsFiniteSet(S)
  PROVE  Cardinality(S) \in Nat
  BY Zenon DEF FiniteFacts

\* The empty set.
LEMMA FinEmpty ==
  ASSUME FiniteFacts
  PROVE  IsFiniteSet({}) /\ Cardinality({}) = 0
  BY Zenon DEF FiniteFacts

\* A set of one.
LEMMA FinOne ==
  ASSUME FiniteFacts, NEW x
  PROVE  IsFiniteSet({x}) /\ Cardinality({x}) = 1
  <1>1. IsFiniteSet({} \cup {x}) /\ Cardinality({} \cup {x}) = Cardinality({}) + 1 /\ Cardinality({}) = 0
    BY Zenon DEF FiniteFacts
  <1>2. {} \cup {x} = {x}
    BY Zenon
  <1> QED BY <1>1, <1>2

\* One element more.
LEMMA FinAdded ==
  ASSUME FiniteFacts, NEW S, NEW x, IsFiniteSet(S), x \notin S
  PROVE  IsFiniteSet(S \cup {x}) /\ Cardinality(S \cup {x}) = Cardinality(S) + 1
  BY Zenon DEF FiniteFacts

\* A part of a set.
LEMMA FinSubset ==
  ASSUME FiniteFacts, NEW S, NEW T, IsFiniteSet(S), T \subseteq S
  PROVE  IsFiniteSet(T) /\ Cardinality(T) <= Cardinality(S)
  BY Zenon DEF FiniteFacts

\* Two sets.
LEMMA FinUnion ==
  ASSUME FiniteFacts, NEW S, NEW T, IsFiniteSet(S), IsFiniteSet(T)
  PROVE  /\ IsFiniteSet(S \cup T)
         /\ Cardinality(S \cup T) = Cardinality(S) + Cardinality(T) - Cardinality(S \cap T)
  BY Zenon DEF FiniteFacts

\* Pairs.
LEMMA FinProduct ==
  ASSUME FiniteFacts, NEW S, NEW T, IsFiniteSet(S), IsFiniteSet(T)
  PROVE  IsFiniteSet(S \X T) /\ Cardinality(S \X T) = Cardinality(S) * Cardinality(T)
  BY Zenon DEF FiniteFacts

\* The first n numbers.
LEMMA FinInterval ==
  ASSUME FiniteFacts, NEW n \in Nat
  PROVE  IsFiniteSet(1..n) /\ Cardinality(1..n) = n
  BY Zenon DEF FiniteFacts

\* A set that can be put into another.
LEMMA FinInjection ==
  ASSUME FiniteFacts, NEW S, NEW T, NEW f, IsFiniteSet(T),
         \A p \in S : f[p] \in T, \A p, q \in S : f[p] = f[q] => p = q
  PROVE  IsFiniteSet(S) /\ Cardinality(S) <= Cardinality(T)
  BY Zenon DEF FiniteFacts

\* The units of one element.
LEMMA UnitsIn ==
  ASSUME NEW D, NEW u, NEW p
  PROVE  p \in Units(D, u) <=> \E d \in D : \E n \in 1..u[d] : p = <<d, n>>
  BY DEF Units

\* A sum of natural numbers is one.
LEMMA SumType ==
  ASSUME FiniteFacts, NEW D, NEW u, Sizeable(D, u)
  PROVE  IsFiniteSet(Units(D, u)) /\ Sum(D, u) \in Nat
  <1>1. IsFiniteSet(Units(D, u))
    BY Zenon DEF FiniteFacts
  <1> QED BY <1>1, FinCard, Zenon DEF Sum

\* Two functions that agree on a set have one sum over it.
LEMMA SumSame ==
  ASSUME NEW D, NEW u, NEW v, \A d \in D : u[d] = v[d]
  PROVE  Sum(D, u) = Sum(D, v)
  <1>1. ASSUME NEW p PROVE p \in Units(D, u) <=> p \in Units(D, v)
    <2>1. p \in Units(D, u) <=> \E d \in D : \E n \in 1..u[d] : p = <<d, n>>
      BY UnitsIn
    <2>2. p \in Units(D, v) <=> \E d \in D : \E n \in 1..v[d] : p = <<d, n>>
      BY UnitsIn
    <2>3. (\E d \in D : \E n \in 1..u[d] : p = <<d, n>>) <=> \E d \in D : \E n \in 1..v[d] : p = <<d, n>>
      OBVIOUS
    <2> QED BY <2>1, <2>2, <2>3, Zenon
  <1>2. Units(D, u) = Units(D, v)
    BY <1>1, Zenon
  <1> QED BY <1>2, Zenon DEF Sum

\* The sum over two disjoint sets is the sum of the sums.
LEMMA SumSplit ==
  ASSUME FiniteFacts, NEW D, NEW E, NEW u, Sizeable(D, u), Sizeable(E, u), D \cap E = {}
  PROVE  Sum(D \cup E, u) = Sum(D, u) + Sum(E, u)
  <1>1. Units(D \cup E, u) = Units(D, u) \cup Units(E, u)
    BY Zenon DEF Units
  <1>2. Units(D, u) \cap Units(E, u) = {}
    <2> SUFFICES ASSUME NEW p, p \in Units(D, u), p \in Units(E, u) PROVE FALSE
      BY Zenon
    <2>1. PICK d \in D : \E n \in 1..u[d] : p = <<d, n>>
      BY UnitsIn
    <2>2. PICK e \in E : \E n \in 1..u[e] : p = <<e, n>>
      BY UnitsIn
    <2>3. d = e
      BY <2>1, <2>2
    <2> QED BY <2>3, Zenon
  <1>3. Cardinality(Units(D \cup E, u)) = Sum(D, u) + Sum(E, u) - Cardinality({})
    <2>1. IsFiniteSet(Units(D, u)) /\ IsFiniteSet(Units(E, u))
      BY SumType, Zenon
    <2>2. Cardinality(Units(D, u) \cup Units(E, u)) =
            Cardinality(Units(D, u)) + Cardinality(Units(E, u)) - Cardinality(Units(D, u) \cap Units(E, u))
      BY <2>1, FinUnion, Zenon
    <2> QED BY <1>1, <1>2, <2>2 DEF Sum
  <1>4. Cardinality({}) = 0 /\ Sum(D, u) \in Nat /\ Sum(E, u) \in Nat
    BY FinEmpty, SumType, Zenon
  <1> QED BY <1>3, <1>4 DEF Sum

\* The sum over one element.
LEMMA SumOne ==
  ASSUME FiniteFacts, NEW d, NEW u, u[d] \in Nat
  PROVE  Sum({d}, u) = u[d]
  <1>1. Units({d}, u) = {d} \X (1..u[d])
    BY Zenon DEF Units
  <1>2. /\ IsFiniteSet({d}) /\ Cardinality({d}) = 1
        /\ IsFiniteSet(1..u[d]) /\ Cardinality(1..u[d]) = u[d]
    BY FinOne, FinInterval, Zenon
  <1>3. Cardinality({d} \X (1..u[d])) = 1 * u[d]
    <2>1. Cardinality({d} \X (1..u[d])) = Cardinality({d}) * Cardinality(1..u[d])
      BY <1>2, FinProduct, Zenon
    <2> QED BY <1>2, <2>1
  <1>4. 1 * u[d] = u[d]
    OBVIOUS
  <1> QED BY <1>1, <1>3, <1>4, Zenon DEF Sum

\* One element's share of a sum.
LEMMA SumRemove ==
  ASSUME FiniteFacts, NEW D, NEW u, Sizeable(D, u), NEW d \in D
  PROVE  Sizeable(D \ {d}, u) /\ Sum(D, u) = Sum(D \ {d}, u) + u[d]
  <1>1. Sizeable(D \ {d}, u) /\ Sizeable({d}, u)
    <2>1. D \ {d} \subseteq D
      BY Zenon
    <2> QED BY <2>1, FinSubset, FinOne, Zenon DEF Sizeable
  <1>2. (D \ {d}) \cap {d} = {}
    BY Zenon
  <1>3. Sum((D \ {d}) \cup {d}, u) = Sum(D \ {d}, u) + Sum({d}, u)
    BY <1>1, <1>2, SumSplit
  <1>4. Sum({d}, u) = u[d]
    BY SumOne, Zenon DEF Sizeable
  <1>5. (D \ {d}) \cup {d} = D
    BY Zenon
  <1> QED BY <1>1, <1>3, <1>4, <1>5, Zenon

\* A sum of numbers none of which is over m.
LEMMA SumAtMost ==
  ASSUME FiniteFacts, NEW D, NEW u, NEW m \in Nat, Sizeable(D, u), \A d \in D : u[d] <= m
  PROVE  Sum(D, u) <= Cardinality(D) * m
  <1>1. Units(D, u) \subseteq D \X (1..m)
    <2> SUFFICES ASSUME NEW p \in Units(D, u) PROVE p \in D \X (1..m)
      OBVIOUS
    <2>1. PICK d \in D : \E n \in 1..u[d] : p = <<d, n>>
      BY UnitsIn
    <2> QED BY <2>1 DEF Sizeable
  <1>2. IsFiniteSet(1..m) /\ Cardinality(1..m) = m
    BY FinInterval, Zenon
  <1>3. IsFiniteSet(D \X (1..m)) /\ Cardinality(D \X (1..m)) = Cardinality(D) * m
    BY <1>2, FinProduct, Zenon DEF Sizeable
  <1> QED BY <1>1, <1>3, FinSubset DEF Sum

\* A sum of numbers none of which is under m.
LEMMA SumAtLeast ==
  ASSUME FiniteFacts, NEW D, NEW u, NEW m \in Nat, Sizeable(D, u), \A d \in D : u[d] >= m
  PROVE  Cardinality(D) * m <= Sum(D, u)
  <1>1. D \X (1..m) \subseteq Units(D, u)
    <2> SUFFICES ASSUME NEW d \in D, NEW n \in 1..m PROVE <<d, n>> \in Units(D, u)
      OBVIOUS
    <2>1. n \in 1..u[d]
      BY DEF Sizeable
    <2> QED BY <2>1, UnitsIn, Zenon
  <1>2. IsFiniteSet(1..m) /\ Cardinality(1..m) = m
    BY FinInterval, Zenon
  <1>3. Cardinality(D \X (1..m)) = Cardinality(D) * m
    BY <1>2, FinProduct, Zenon DEF Sizeable
  <1> QED BY <1>1, <1>3, SumType, FinSubset DEF Sum

\* A sum of numbers each of which grew by at most m.
LEMMA SumGrows ==
  ASSUME FiniteFacts, NEW D, NEW u, NEW v, NEW m \in Nat, Sizeable(D, u), Sizeable(D, v),
         \A d \in D : v[d] <= u[d] + m
  PROVE  Sum(D, v) <= Sum(D, u) + Cardinality(D) * m
  <1> DEFINE more == [d \in D |-> u[d] + m]
             new == Units(D, more) \ Units(D, u)
             f == [p \in new |-> <<p[1], p[2] - u[p[1]]>>]
  <1>1. Sizeable(D, more)
    BY DEF Sizeable
  <1>2. Units(D, v) \subseteq Units(D, more)
    <2> SUFFICES ASSUME NEW p \in Units(D, v) PROVE p \in Units(D, more)
      OBVIOUS
    <2>1. PICK d \in D : \E n \in 1..v[d] : p = <<d, n>>
      BY UnitsIn
    <2>2. PICK n \in 1..v[d] : p = <<d, n>>
      BY <2>1
    <2>3. n \in 1..more[d]
      BY DEF Sizeable
    <2> QED BY <2>2, <2>3, UnitsIn, Zenon
  <1>3. Sum(D, v) <= Sum(D, more)
    BY <1>1, <1>2, SumType, FinSubset, Zenon DEF Sum
  <1>4. /\ \A p \in new : f[p] \in D \X (1..m)
        /\ \A p, q \in new : f[p] = f[q] => p = q
    <2>1. ASSUME NEW p \in new
          PROVE  \E d \in D : \E n \in Int : p = <<d, n>> /\ u[d] < n /\ n <= u[d] + m
      <3>1. PICK d \in D : \E n \in 1..more[d] : p = <<d, n>>
        BY UnitsIn
      <3>2. PICK n \in 1..more[d] : p = <<d, n>>
        BY <3>1
      <3>3. n \notin 1..u[d]
        BY <3>2, UnitsIn, Zenon
      <3>4. u[d] < n /\ n <= u[d] + m /\ n \in Int
        BY <3>3, <1>1 DEF Sizeable
      <3> QED BY <3>2, <3>4
    <2>2. ASSUME NEW p \in new PROVE f[p] \in D \X (1..m)
      <3>1. PICK d \in D, n \in Int : p = <<d, n>> /\ u[d] < n /\ n <= u[d] + m
        BY <2>1
      <3> HIDE DEF new
      <3> QED BY <3>1 DEF Sizeable
    <2>3. ASSUME NEW p \in new, NEW q \in new, f[p] = f[q] PROVE p = q
      <3>1. PICK d \in D, n \in Int : p = <<d, n>> /\ u[d] < n /\ n <= u[d] + m
        BY <2>1
      <3>2. PICK e \in D, k \in Int : q = <<e, k>> /\ u[e] < k /\ k <= u[e] + m
        BY <2>1
      <3> HIDE DEF new
      <3>3. d = e /\ n - u[d] = k - u[e]
        BY <2>3, <3>1, <3>2
      <3> QED BY <3>1, <3>2, <3>3 DEF Sizeable
    <2> HIDE DEF new
    <2> QED BY <2>2, <2>3, Zenon
  <1>5. IsFiniteSet(new) /\ Cardinality(new) <= Cardinality(D) * m
    <2>1. IsFiniteSet(1..m) /\ Cardinality(1..m) = m
      BY FinInterval, Zenon
    <2>3. IsFiniteSet(D \X (1..m)) /\ Cardinality(D \X (1..m)) = Cardinality(D) * m
      BY <2>1, FinProduct, Zenon DEF Sizeable
    <2> HIDE DEF new
    <2> HIDE DEF f
    <2>2. IsFiniteSet(new) /\ Cardinality(new) <= Cardinality(D \X (1..m))
      BY <1>4, <2>3, FinInjection, Zenon
    <2> QED BY <2>2, <2>3, Zenon
  <1>6. Units(D, more) = Units(D, u) \cup new /\ Units(D, u) \cap new = {}
    <2>1. Units(D, u) \subseteq Units(D, more)
      <3> SUFFICES ASSUME NEW p \in Units(D, u) PROVE p \in Units(D, more)
        OBVIOUS
      <3>1. PICK d \in D : \E n \in 1..u[d] : p = <<d, n>>
        BY UnitsIn
      <3>2. PICK n \in 1..u[d] : p = <<d, n>>
        BY <3>1
      <3>3. n \in 1..more[d]
        BY DEF Sizeable
      <3> QED BY <3>2, <3>3, UnitsIn, Zenon
    <2> HIDE DEF more
    <2> QED BY <2>1, Zenon
  <1>7. Sum(D, more) = Sum(D, u) + Cardinality(new) - Cardinality({})
    <2> HIDE DEF new, more
    <2>1. IsFiniteSet(Units(D, u))
      BY SumType, Zenon
    <2> QED BY <1>5, <1>6, <2>1, FinUnion DEF Sum
  <1>8. /\ Sum(D, v) \in Nat /\ Sum(D, u) \in Nat /\ Sum(D, more) \in Nat
        /\ Cardinality(new) \in Nat /\ Cardinality(D) \in Nat /\ Cardinality({}) = 0
    <2> HIDE DEF new, more
    <2> QED BY <1>1, <1>5, SumType, FinCard, FinEmpty, Zenon DEF Sizeable
  <1> HIDE DEF new, more
  <1> QED BY <1>3, <1>5, <1>7, <1>8

\* The least of two numbers.
LEMMA MinTwo ==
  ASSUME NEW a \in Int, NEW b \in Int
  PROVE  Min({a, b}) = IF a <= b THEN a ELSE b
  <1>1. \E x \in {a, b} : \A y \in {a, b} : x =< y
    OBVIOUS
  <1> QED BY <1>1 DEF Min

\* Rounding down.
LEMMA DivIs ==
  ASSUME NEW a \in Nat, NEW b \in Nat \ {0}
  PROVE  a \div b \in Nat /\ b * (a \div b) <= a /\ a < b * (a \div b) + b
  OBVIOUS

----------------------------------------------------------------------------
(* Tables *)

\* What a table with room for m entries is worth, if it has D, entry d is worth u[d],
\* and a free place w.
Worth(D, u, w, m) == Sum(D, u) + (m - Cardinality(D)) * w

Room(D, u, w, m) == Sizeable(D, u) /\ Cardinality(D) <= m /\ w \in Nat /\ m \in Nat

Agree(D, u, v) == \A d \in D : v[d] = u[d]

TableLaws ==
  /\ \A D, u, w, m : Room(D, u, w, m) => Worth(D, u, w, m) \in Nat /\ Cardinality(D) \in Nat
  /\ \A D, u, v, w, m : \A d \in D :
       Room(D, u, w, m) /\ Room(D, v, w, m) /\ Agree(D \ {d}, u, v) =>
         Worth(D, v, w, m) = Worth(D, u, w, m) - u[d] + v[d]
  /\ \A D, u, v, w, m, d :
       Room(D, u, w, m) /\ d \notin D /\ Cardinality(D) < m /\ v[d] \in Nat /\ Agree(D, u, v) =>
         /\ Room(D \cup {d}, v, w, m)
         /\ Worth(D \cup {d}, v, w, m) = Worth(D, u, w, m) - w + v[d]
  /\ \A D, E, u, v, w, m :
       Room(D, u, w, m) /\ E \subseteq D /\ Agree(E, u, v) =>
         /\ Room(E, v, w, m)
         /\ (\A d \in D \ E : u[d] <= w) => Worth(D, u, w, m) <= Worth(E, v, w, m)
         /\ (\A d \in D \ E : w <= u[d]) => Worth(E, v, w, m) <= Worth(D, u, w, m)
  /\ \A D, u, v, w, m : \A n \in Nat :
       Room(D, u, w, m) /\ Room(D, v, w, m) /\ (\A d \in D : v[d] <= u[d] + n) =>
         Worth(D, v, w, m) <= Worth(D, u, w, m) + m * n
  /\ \A D, u, w, m : \A n \in Nat :
       Room(D, u, w, m) /\ Room(D, u, n, m) /\ w <= n => Worth(D, u, w, m) <= Worth(D, u, n, m)
  /\ \A D, u, w, m : \A n \in Nat :
       Room(D, u, w, m) /\ w <= n /\ (\A d \in D : u[d] <= n) => Worth(D, u, w, m) <= m * n
  /\ \A u : \A w, m \in Nat : Room({}, u, w, m) /\ Worth({}, u, w, m) = m * w

\* The worth of a table, in numbers.
LEMMA WorthIs ==
  ASSUME FiniteFacts, NEW D, NEW u, NEW w, NEW m, Room(D, u, w, m)
  PROVE  /\ Sizeable(D, u) /\ Sum(D, u) \in Nat /\ Cardinality(D) \in Nat /\ Cardinality(D) <= m
         /\ w \in Nat /\ m \in Nat
         /\ (m - Cardinality(D)) * w \in Nat /\ Worth(D, u, w, m) = Sum(D, u) + (m - Cardinality(D)) * w
         /\ Cardinality(D) * w \in Nat /\ (m - Cardinality(D)) * w = m * w - Cardinality(D) * w
  <1>1. /\ Sizeable(D, u) /\ Cardinality(D) <= m /\ w \in Nat /\ m \in Nat
        /\ Worth(D, u, w, m) = Sum(D, u) + (m - Cardinality(D)) * w
    BY Zenon DEF Room, Worth
  <1>2. Sum(D, u) \in Nat /\ Cardinality(D) \in Nat
    BY <1>1, SumType, FinCard, Zenon DEF Sizeable
  <1>3. PICK k : k = Cardinality(D)
    OBVIOUS
  <1>4. /\ k \in Nat /\ k <= m => (m - k) * w \in Nat /\ k * w \in Nat /\ (m - k) * w = m * w - k * w
    BY <1>1, <1>2, <1>3
  <1> QED BY <1>1, <1>2, <1>3, <1>4

\* One entry changes.
LEMMA ChangedLaw ==
  ASSUME FiniteFacts, NEW D, NEW u, NEW v, NEW w, NEW m, NEW d \in D,
         Room(D, u, w, m), Room(D, v, w, m), Agree(D \ {d}, u, v)
  PROVE  Worth(D, v, w, m) = Worth(D, u, w, m) - u[d] + v[d]
  <1>1. /\ Sizeable(D \ {d}, u) /\ Sum(D, u) = Sum(D \ {d}, u) + u[d]
        /\ Sizeable(D \ {d}, v) /\ Sum(D, v) = Sum(D \ {d}, v) + v[d]
    BY WorthIs, SumRemove, Zenon
  <1>2. Sum(D \ {d}, v) = Sum(D \ {d}, u)
    BY SumSame, Zenon DEF Agree
  <1>3. Sum(D \ {d}, u) \in Nat /\ u[d] \in Nat /\ v[d] \in Nat
    BY <1>1, SumType, Zenon DEF Room, Sizeable
  <1>4. /\ Worth(D, u, w, m) = Sum(D, u) + (m - Cardinality(D)) * w
        /\ Worth(D, v, w, m) = Sum(D, v) + (m - Cardinality(D)) * w
        /\ (m - Cardinality(D)) * w \in Nat
    BY WorthIs, Zenon
  <1>5. PICK k : k = (m - Cardinality(D)) * w
    BY Zenon
  <1> QED BY <1>1, <1>2, <1>3, <1>4, <1>5

\* An entry is added.
LEMMA AddedLaw ==
  ASSUME FiniteFacts, NEW D, NEW u, NEW v, NEW w, NEW m, NEW d, d \notin D,
         Room(D, u, w, m), Cardinality(D) < m, v[d] \in Nat, Agree(D, u, v)
  PROVE  /\ Room(D \cup {d}, v, w, m)
         /\ Worth(D \cup {d}, v, w, m) = Worth(D, u, w, m) - w + v[d]
  <1>1. /\ IsFiniteSet(D \cup {d}) /\ Cardinality(D \cup {d}) = Cardinality(D) + 1
    BY FinAdded, Zenon DEF Room, Sizeable
  <1>2. Sizeable(D, v) /\ Sizeable({d}, v) /\ Sizeable(D \cup {d}, v)
    <2>1. \A e \in D : v[e] \in Nat
      BY Zenon DEF Room, Sizeable, Agree
    <2> QED BY <1>1, <2>1, FinOne, Zenon DEF Sizeable, Room
  <1>3. Sum(D \cup {d}, v) = Sum(D, v) + Sum({d}, v)
    <2>1. D \cap {d} = {}
      BY Zenon
    <2> QED BY <1>2, <2>1, SumSplit
  <1>4. Sum({d}, v) = v[d] /\ Sum(D, v) = Sum(D, u)
    BY SumOne, SumSame, Zenon DEF Agree
  <1>5. /\ Sum(D, u) \in Nat /\ Cardinality(D) \in Nat /\ w \in Nat /\ m \in Nat
        /\ Worth(D, u, w, m) = Sum(D, u) + (m - Cardinality(D)) * w
    BY WorthIs, Zenon
  <1>6. Room(D \cup {d}, v, w, m)
    <2>1. Cardinality(D \cup {d}) <= m
      BY <1>1, <1>5
    <2> QED BY <1>2, <1>5, <2>1, Zenon DEF Room
  <1>7. Worth(D \cup {d}, v, w, m) = Sum(D \cup {d}, v) + (m - Cardinality(D \cup {d})) * w
    BY Zenon DEF Worth
  <1>8. PICK k, p, q : k = Cardinality(D) /\ p = (m - k) * w /\ q = (m - (k + 1)) * w
    BY Zenon
  <1>9. p \in Int /\ q \in Int /\ q = p - w
    BY <1>5, <1>8
  <1>10. Worth(D, u, w, m) = Sum(D, u) + p /\ Worth(D \cup {d}, v, w, m) = (Sum(D, u) + v[d]) + q
    BY <1>1, <1>3, <1>4, <1>5, <1>7, <1>8
  <1>11. Worth(D \cup {d}, v, w, m) = Worth(D, u, w, m) - w + v[d]
    BY <1>5, <1>9, <1>10
  <1> QED BY <1>6, <1>11, Zenon

\* Entries are forgotten.
LEMMA ForgottenLaw ==
  ASSUME FiniteFacts, NEW D, NEW E, NEW u, NEW v, NEW w, NEW m,
         Room(D, u, w, m), E \subseteq D, Agree(E, u, v)
  PROVE  /\ Room(E, v, w, m)
         /\ (\A d \in D \ E : u[d] <= w) => Worth(D, u, w, m) <= Worth(E, v, w, m)
         /\ (\A d \in D \ E : w <= u[d]) => Worth(E, v, w, m) <= Worth(D, u, w, m)
  <1>1. /\ IsFiniteSet(E) /\ IsFiniteSet(D \ E) /\ E \cup (D \ E) = D /\ E \cap (D \ E) = {}
        /\ Cardinality(E) \in Nat /\ Cardinality(D \ E) \in Nat
    BY FinSubset, FinCard, Zenon DEF Room, Sizeable
  <1>2. Cardinality(D) = Cardinality(E) + Cardinality(D \ E)
    <2>1. Cardinality(E \cup (D \ E)) = Cardinality(E) + Cardinality(D \ E) - Cardinality(E \cap (D \ E))
      BY <1>1, FinUnion, Zenon
    <2>2. Cardinality(D) = Cardinality(E) + Cardinality(D \ E) - Cardinality({})
      BY <1>1, <2>1, Zenon
    <2>3. Cardinality({}) = 0
      BY FinEmpty, Zenon
    <2> QED BY <1>1, <2>2, <2>3
  <1>3. Sizeable(E, u) /\ Sizeable(D \ E, u) /\ Sizeable(E, v)
    BY <1>1, Zenon DEF Room, Sizeable, Agree
  <1>4. Sum(D, u) = Sum(E, u) + Sum(D \ E, u)
    BY <1>1, <1>3, SumSplit
  <1>5. Sum(E, v) = Sum(E, u) /\ Sum(E, u) \in Nat /\ Sum(D \ E, u) \in Nat
    BY <1>3, SumSame, SumType, Zenon DEF Agree
  <1>6. w \in Nat /\ m \in Nat /\ Cardinality(D) <= m
    BY Zenon DEF Room
  <1>7. Room(E, v, w, m)
    <2>1. Cardinality(E) <= m
      BY <1>1, <1>2, <1>6
    <2> QED BY <1>3, <1>6, <2>1, Zenon DEF Room
  <1>8. PICK j, k, p : j = Cardinality(E) /\ k = Cardinality(D \ E) /\ p = k * w
    BY Zenon
  <1>9. (m - j) * w = (m - (j + k)) * w + p /\ (m - (j + k)) * w \in Int /\ p \in Int
    BY <1>1, <1>6, <1>8
  <1>10. PICK q : q = (m - (j + k)) * w
    BY Zenon
  <1>11. Worth(D, u, w, m) = (Sum(E, u) + Sum(D \ E, u)) + q /\ Worth(E, v, w, m) = Sum(E, u) + (q + p)
    BY <1>2, <1>4, <1>5, <1>8, <1>9, <1>10 DEF Worth
  <1>12. (\A d \in D \ E : u[d] <= w) => Sum(D \ E, u) <= p
    BY <1>3, <1>6, <1>8, SumAtMost, Zenon
  <1>13. (\A d \in D \ E : w <= u[d]) => p <= Sum(D \ E, u)
    <2>1. ASSUME \A d \in D \ E : w <= u[d] PROVE \A d \in D \ E : u[d] >= w
      BY <1>3, <1>6, <2>1 DEF Sizeable
    <2> QED BY <1>3, <1>6, <1>8, <2>1, SumAtLeast, Zenon
  <1>14. q \in Int /\ p \in Int
    BY <1>9, <1>10
  <1>15. (\A d \in D \ E : u[d] <= w) => Worth(D, u, w, m) <= Worth(E, v, w, m)
    BY <1>5, <1>11, <1>12, <1>14
  <1>16. (\A d \in D \ E : w <= u[d]) => Worth(E, v, w, m) <= Worth(D, u, w, m)
    BY <1>5, <1>11, <1>13, <1>14
  <1> QED BY <1>7, <1>15, <1>16, Zenon

\* Every entry grows.
LEMMA GrowsLaw ==
  ASSUME FiniteFacts, NEW D, NEW u, NEW v, NEW w, NEW m, NEW n \in Nat,
         Room(D, u, w, m), Room(D, v, w, m), \A d \in D : v[d] <= u[d] + n
  PROVE  Worth(D, v, w, m) <= Worth(D, u, w, m) + m * n
  <1>1. Sum(D, v) <= Sum(D, u) + Cardinality(D) * n
    BY WorthIs, SumGrows, Zenon
  <1>2. /\ Sum(D, u) \in Nat /\ Sum(D, v) \in Nat /\ Cardinality(D) \in Nat /\ m \in Nat /\ Cardinality(D) <= m
        /\ (m - Cardinality(D)) * w \in Nat
        /\ Worth(D, u, w, m) = Sum(D, u) + (m - Cardinality(D)) * w
        /\ Worth(D, v, w, m) = Sum(D, v) + (m - Cardinality(D)) * w
    BY WorthIs, Zenon
  <1>3. PICK k, q, p : k = Cardinality(D) /\ p = k * n /\ q = (m - Cardinality(D)) * w
    BY Zenon
  <1>4. p \in Nat /\ m * n \in Nat /\ p <= m * n
    BY <1>2, <1>3
  <1> QED BY <1>1, <1>2, <1>3, <1>4

\* A free place grows.
LEMMA PlacesLaw ==
  ASSUME FiniteFacts, NEW D, NEW u, NEW w, NEW m, NEW n \in Nat, Room(D, u, w, m), Room(D, u, n, m), w <= n
  PROVE  Worth(D, u, w, m) <= Worth(D, u, n, m)
  <1>1. /\ Sum(D, u) \in Nat /\ Cardinality(D) \in Nat /\ m \in Nat /\ Cardinality(D) <= m /\ w \in Nat
        /\ Worth(D, u, w, m) = Sum(D, u) + (m - Cardinality(D)) * w
        /\ Worth(D, u, n, m) = Sum(D, u) + (m - Cardinality(D)) * n
    BY WorthIs, Zenon
  <1>2. PICK k : k = m - Cardinality(D)
    OBVIOUS
  <1>3. k \in Nat
    BY <1>1, <1>2
  <1>4. k * w <= k * n /\ k * w \in Int /\ k * n \in Int
    BY <1>1, <1>3
  <1> QED BY <1>1, <1>2, <1>4

\* No entry and no free place is worth more than n.
LEMMA AtMostLaw ==
  ASSUME FiniteFacts, NEW D, NEW u, NEW w, NEW m, NEW n \in Nat, Room(D, u, w, m), w <= n, \A d \in D : u[d] <= n
  PROVE  Worth(D, u, w, m) <= m * n
  <1>1. /\ Sum(D, u) \in Nat /\ Cardinality(D) \in Nat /\ m \in Nat /\ Cardinality(D) <= m /\ w \in Nat
        /\ Worth(D, u, w, m) = Sum(D, u) + (m - Cardinality(D)) * w /\ Sizeable(D, u)
    BY WorthIs, Zenon
  <1>2. Sum(D, u) <= Cardinality(D) * n
    BY <1>1, SumAtMost, Zenon
  <1>3. PICK k : k = Cardinality(D)
    OBVIOUS
  <1>4. (m - k) * w <= (m - k) * n /\ k * n + (m - k) * n = m * n /\ k * n \in Nat /\ (m - k) * n \in Nat /\ (m - k) * w \in Nat
    BY <1>1, <1>3
  <1> QED BY <1>1, <1>2, <1>3, <1>4

\* An empty table.
LEMMA EmptyLaw ==
  ASSUME FiniteFacts, NEW u, NEW w \in Nat, NEW m \in Nat
  PROVE  Room({}, u, w, m) /\ Worth({}, u, w, m) = m * w
  <1>1. IsFiniteSet({}) /\ Cardinality({}) = 0
    BY FinEmpty, Zenon
  <1>2. Sizeable({}, u)
    BY <1>1, Zenon DEF Sizeable
  <1>3. Room({}, u, w, m)
    BY <1>1, <1>2 DEF Room
  <1>4. Units({}, u) = {}
    BY Zenon DEF Units
  <1>5. (m - 0) * w = m * w /\ m * w \in Nat
    OBVIOUS
  <1>6. Worth({}, u, w, m) = 0 + (m - 0) * w
    BY <1>1, <1>4, Zenon DEF Worth, Sum
  <1> QED BY <1>3, <1>5, <1>6

\* The laws the lemmas above assume.
LEMMA TableLawsHold ==
  ASSUME FiniteFacts
  PROVE  TableLaws
  <1>1. ASSUME NEW D, NEW u, NEW w, NEW m, Room(D, u, w, m)
        PROVE  Worth(D, u, w, m) \in Nat /\ Cardinality(D) \in Nat
    BY <1>1, WorthIs
  <1>2. \A D, u, v, w, m : \A d \in D :
          Room(D, u, w, m) /\ Room(D, v, w, m) /\ Agree(D \ {d}, u, v) =>
            Worth(D, v, w, m) = Worth(D, u, w, m) - u[d] + v[d]
    BY ChangedLaw
  <1>3. \A D, u, v, w, m, d :
          Room(D, u, w, m) /\ d \notin D /\ Cardinality(D) < m /\ v[d] \in Nat /\ Agree(D, u, v) =>
            /\ Room(D \cup {d}, v, w, m)
            /\ Worth(D \cup {d}, v, w, m) = Worth(D, u, w, m) - w + v[d]
    BY AddedLaw
  <1>4. \A D, E, u, v, w, m :
          Room(D, u, w, m) /\ E \subseteq D /\ Agree(E, u, v) =>
            /\ Room(E, v, w, m)
            /\ (\A d \in D \ E : u[d] <= w) => Worth(D, u, w, m) <= Worth(E, v, w, m)
            /\ (\A d \in D \ E : w <= u[d]) => Worth(E, v, w, m) <= Worth(D, u, w, m)
    <2> TAKE D, E, u, v, w, m
    <2> HAVE Room(D, u, w, m) /\ E \subseteq D /\ Agree(E, u, v)
    <2> QED BY ForgottenLaw, Zenon
  <1>5. \A D, u, v, w, m : \A n \in Nat :
          Room(D, u, w, m) /\ Room(D, v, w, m) /\ (\A d \in D : v[d] <= u[d] + n) =>
            Worth(D, v, w, m) <= Worth(D, u, w, m) + m * n
    BY GrowsLaw, Zenon
  <1>6. \A D, u, w, m : \A n \in Nat :
          Room(D, u, w, m) /\ Room(D, u, n, m) /\ w <= n => Worth(D, u, w, m) <= Worth(D, u, n, m)
    BY PlacesLaw, Zenon
  <1>7. \A D, u, w, m : \A n \in Nat :
          Room(D, u, w, m) /\ w <= n /\ (\A d \in D : u[d] <= n) => Worth(D, u, w, m) <= m * n
    BY AtMostLaw, Zenon
  <1>8. \A u : \A w, m \in Nat : Room({}, u, w, m) /\ Worth({}, u, w, m) = m * w
    BY EmptyLaw, Zenon
  <1> QED BY <1>1, <1>2, <1>3, <1>4, <1>5, <1>6, <1>7, <1>8, Zenon DEF TableLaws

\* The laws, one by one: what a table is worth is a number.
LEMMA WorthTyped ==
  ASSUME TableLaws, NEW D, NEW u, NEW w, NEW m, Room(D, u, w, m)
  PROVE  Worth(D, u, w, m) \in Nat /\ Cardinality(D) \in Nat
  BY Zenon DEF TableLaws

\* One entry changes.
LEMMA WorthChanged ==
  ASSUME TableLaws, NEW D, NEW u, NEW v, NEW w, NEW m, NEW d \in D,
         Room(D, u, w, m), Room(D, v, w, m), Agree(D \ {d}, u, v)
  PROVE  Worth(D, v, w, m) = Worth(D, u, w, m) - u[d] + v[d]
  BY DEF TableLaws

\* An entry is added.
LEMMA WorthAdded ==
  ASSUME TableLaws, NEW D, NEW u, NEW v, NEW w, NEW m, NEW d, d \notin D,
         Room(D, u, w, m), Cardinality(D) < m, v[d] \in Nat, Agree(D, u, v)
  PROVE  /\ Room(D \cup {d}, v, w, m)
         /\ Worth(D \cup {d}, v, w, m) = Worth(D, u, w, m) - w + v[d]
  BY DEF TableLaws

\* Entries are forgotten: a table is worth as much if they were worth as much as a
\* free place.
LEMMA WorthForgotten ==
  ASSUME TableLaws, NEW D, NEW E, NEW u, NEW v, NEW w, NEW m,
         Room(D, u, w, m), E \subseteq D, Agree(E, u, v)
  PROVE  /\ Room(E, v, w, m)
         /\ (\A d \in D \ E : u[d] <= w) => Worth(D, u, w, m) <= Worth(E, v, w, m)
         /\ (\A d \in D \ E : w <= u[d]) => Worth(E, v, w, m) <= Worth(D, u, w, m)
  BY Zenon DEF TableLaws

\* Every entry grows.
LEMMA WorthGrows ==
  ASSUME TableLaws, NEW D, NEW u, NEW v, NEW w, NEW m, NEW n \in Nat,
         Room(D, u, w, m), Room(D, v, w, m), \A d \in D : v[d] <= u[d] + n
  PROVE  Worth(D, v, w, m) <= Worth(D, u, w, m) + m * n
  BY Zenon DEF TableLaws

\* A free place grows.
LEMMA PlacesGrow ==
  ASSUME TableLaws, NEW D, NEW u, NEW w, NEW m, NEW n \in Nat,
         Room(D, u, w, m), Room(D, u, n, m), w <= n
  PROVE  Worth(D, u, w, m) <= Worth(D, u, n, m)
  BY Zenon DEF TableLaws

\* No entry and no free place is worth more than n.
LEMMA WorthAtMost ==
  ASSUME TableLaws, NEW D, NEW u, NEW w, NEW m, NEW n \in Nat,
         Room(D, u, w, m), w <= n, \A d \in D : u[d] <= n
  PROVE  Worth(D, u, w, m) <= m * n
  BY Zenon DEF TableLaws

\* An empty table.
LEMMA WorthEmpty ==
  ASSUME TableLaws, NEW u, NEW w \in Nat, NEW m \in Nat
  PROVE  Room({}, u, w, m) /\ Worth({}, u, w, m) = m * w
  BY Zenon DEF TableLaws

----------------------------------------------------------------------------
(* The rate limiter's buckets, at a time t *)

LevelAt(b, t) == Min({Limiter!Capacity, b.tokens + (t - b.last) * PartsPerTick})

TakenAt(b, t) ==
  [tokens |-> IF LevelAt(b, t) >= PartsPerToken THEN LevelAt(b, t) - PartsPerToken ELSE LevelAt(b, t),
   last |-> t]

BucketAt(b, t) == b \in Limiter!Bucket /\ t \in 0..MaxClock /\ b.last <= t

\* The limiter and RRL use the same library operators.
LEMMA SameOperators ==
  ASSUME NEW S
  PROVE  /\ Limiter!Cardinality(S) = Cardinality(S) /\ RRL!Cardinality(S) = Cardinality(S)
         /\ Limiter!Min(S) = Min(S)
  BY Zenon DEF Limiter!Cardinality, RRL!Cardinality, Cardinality, Limiter!Min, Min

\* What the limits' constants are.
LEMMA LimiterConstants ==
  ASSUME LimitsConstants
  PROVE  /\ PartsPerToken \in Nat \ {0} /\ PartsPerTick \in Nat \ {0} /\ burst \in Nat \ {0}
         /\ max_clients \in Nat /\ MaxClock \in Nat /\ Second \in Nat \ {0} /\ Second <= MaxClock
         /\ Limiter!Capacity \in Nat /\ PartsPerToken <= Limiter!Capacity
  <1>1. /\ PartsPerToken \in Nat \ {0} /\ PartsPerTick \in Nat \ {0} /\ burst \in Nat \ {0}
        /\ max_clients \in Nat /\ MaxClock \in Nat /\ Second \in Nat \ {0} /\ Second <= MaxClock
    BY DEF LimitsConstants
  <1>2. burst * PartsPerToken \in Nat /\ PartsPerToken <= burst * PartsPerToken
    BY <1>1
  <1> QED BY <1>1, <1>2 DEF Limiter!Capacity

\* A bucket's level, from what it had and the time since.
LEMMA LevelIs ==
  ASSUME LimitsConstants, NEW b, NEW t, BucketAt(b, t)
  PROVE  /\ b.tokens \in Nat /\ (t - b.last) * PartsPerTick \in Nat
         /\ LevelAt(b, t) = IF Limiter!Capacity <= b.tokens + (t - b.last) * PartsPerTick
                              THEN Limiter!Capacity ELSE b.tokens + (t - b.last) * PartsPerTick
         /\ LevelAt(b, t) \in 0..Limiter!Capacity
  <1>1. b.tokens \in Nat /\ t - b.last \in Nat
    BY LimiterConstants DEF BucketAt, Limiter!Bucket
  <1>2. (t - b.last) * PartsPerTick \in Nat
    BY <1>1, LimiterConstants
  <1>3. b.tokens + (t - b.last) * PartsPerTick \in Int /\ Limiter!Capacity \in Int
    BY <1>1, <1>2, LimiterConstants
  <1>4. LevelAt(b, t) = IF Limiter!Capacity <= b.tokens + (t - b.last) * PartsPerTick
                          THEN Limiter!Capacity ELSE b.tokens + (t - b.last) * PartsPerTick
    BY <1>3, MinTwo, Zenon DEF LevelAt
  <1> QED BY <1>1, <1>2, <1>4, LimiterConstants

\* A tick refills a bucket by PartsPerTick, or up to its capacity.
LEMMA LevelNext ==
  ASSUME LimitsConstants, NEW b, NEW t, BucketAt(b, t), t < MaxClock
  PROVE  /\ BucketAt(b, t + 1)
         /\ LevelAt(b, t + 1) = IF Limiter!Capacity <= LevelAt(b, t) + PartsPerTick
                                  THEN Limiter!Capacity ELSE LevelAt(b, t) + PartsPerTick
  <1>1. BucketAt(b, t + 1)
    BY LimiterConstants DEF BucketAt, Limiter!Bucket
  <1>2. ((t + 1) - b.last) * PartsPerTick = (t - b.last) * PartsPerTick + PartsPerTick
    BY LimiterConstants DEF BucketAt, Limiter!Bucket
  <1>3. PICK m, n : m = (t - b.last) * PartsPerTick /\ n = ((t + 1) - b.last) * PartsPerTick
    OBVIOUS
  <1>4. /\ b.tokens \in Nat /\ m \in Nat
        /\ LevelAt(b, t) = IF Limiter!Capacity <= b.tokens + m THEN Limiter!Capacity ELSE b.tokens + m
    BY <1>3, LevelIs, Zenon
  <1>5. LevelAt(b, t + 1) = IF Limiter!Capacity <= b.tokens + n THEN Limiter!Capacity ELSE b.tokens + n
    BY <1>1, <1>3, LevelIs, Zenon
  <1>6. n = m + PartsPerTick
    BY <1>2, <1>3, Zenon
  <1> QED BY <1>1, <1>4, <1>5, <1>6, LimiterConstants

\* take() lowers the level by a token, if there is one.
LEMMA LevelTaken ==
  ASSUME LimitsConstants, NEW b, NEW t, BucketAt(b, t)
  PROVE  /\ BucketAt(TakenAt(b, t), t)
         /\ LevelAt(TakenAt(b, t), t) = IF LevelAt(b, t) >= PartsPerToken
                                          THEN LevelAt(b, t) - PartsPerToken ELSE LevelAt(b, t)
  <1>1. TakenAt(b, t).last = t /\ TakenAt(b, t).tokens \in 0..Limiter!Capacity
        /\ TakenAt(b, t).tokens = IF LevelAt(b, t) >= PartsPerToken
                                    THEN LevelAt(b, t) - PartsPerToken ELSE LevelAt(b, t)
    BY LevelIs, LimiterConstants DEF TakenAt
  <1>2. BucketAt(TakenAt(b, t), t)
    BY <1>1 DEF BucketAt, Limiter!Bucket, TakenAt
  <1>3. (t - t) * PartsPerTick = 0
    BY LimiterConstants DEF BucketAt
  <1> QED BY <1>1, <1>2, <1>3, LevelIs, LimiterConstants

\* A new bucket is full.
LEMMA LevelFull ==
  ASSUME LimitsConstants, NEW t \in 0..MaxClock
  PROVE  BucketAt(Limiter!Full(t), t) /\ LevelAt(Limiter!Full(t), t) = Limiter!Capacity
  <1>1. BucketAt(Limiter!Full(t), t)
    BY LimiterConstants DEF Limiter!Full, BucketAt, Limiter!Bucket
  <1>2. (t - t) * PartsPerTick = 0
    BY LimiterConstants
  <1>3. Limiter!Full(t).tokens = Limiter!Capacity /\ Limiter!Full(t).last = t
    BY DEF Limiter!Full
  <1> QED BY <1>1, <1>2, <1>3, LevelIs, LimiterConstants

----------------------------------------------------------------------------
(* The rate limiter's table: what its buckets hold, those not in it full *)

TableAt(f, t) ==
  /\ IsFiniteSet(DOMAIN f) /\ Cardinality(DOMAIN f) <= max_clients
  /\ \A c \in DOMAIN f : BucketAt(f[c], t)

Levels(f, t) == [c \in DOMAIN f |-> LevelAt(f[c], t)]

Held(f, t) == Worth(DOMAIN f, Levels(f, t), Limiter!Capacity, max_clients)

\* The levels can be summed.
LEMMA LevelsRoom ==
  ASSUME LimitsConstants, NEW f, NEW t, TableAt(f, t)
  PROVE  Room(DOMAIN f, Levels(f, t), Limiter!Capacity, max_clients)
  <1>1. ASSUME NEW c \in DOMAIN f PROVE Levels(f, t)[c] \in Nat
    <2>1. LevelAt(f[c], t) \in 0..Limiter!Capacity
      BY LevelIs, Zenon DEF TableAt
    <2> QED BY <2>1, LimiterConstants DEF Levels
  <1> QED BY <1>1, LimiterConstants, Zenon DEF Room, Sizeable, TableAt

\* A tick refills the table by PartsPerTick a bucket, at most.
LEMMA HeldNext ==
  ASSUME TableLaws, LimitsConstants, NEW f, NEW t, TableAt(f, t), t < MaxClock
  PROVE  /\ TableAt(f, t + 1)
         /\ Held(f, t + 1) <= Held(f, t) + max_clients * PartsPerTick
         /\ Held(f, t) \in Nat /\ Held(f, t + 1) \in Nat
  <1>1. TableAt(f, t + 1)
    BY LevelNext, Zenon DEF TableAt
  <1>2. ASSUME NEW c \in DOMAIN f PROVE Levels(f, t + 1)[c] <= Levels(f, t)[c] + PartsPerTick
    <2>1. /\ LevelAt(f[c], t) \in 0..Limiter!Capacity
          /\ LevelAt(f[c], t + 1) = IF Limiter!Capacity <= LevelAt(f[c], t) + PartsPerTick
                                      THEN Limiter!Capacity ELSE LevelAt(f[c], t) + PartsPerTick
      BY LevelIs, LevelNext, Zenon DEF TableAt
    <2> QED BY <2>1, LimiterConstants DEF Levels
  <1>3. PartsPerTick \in Nat
    BY LimiterConstants
  <1> QED BY <1>1, <1>2, <1>3, LevelsRoom, WorthGrows, WorthTyped, Zenon DEF Held

\* A token taken from a tracked client's bucket is taken from the table.
LEMMA HeldTaken ==
  ASSUME TableLaws, LimitsConstants, NEW f, NEW t, TableAt(f, t), NEW c \in DOMAIN f
  PROVE  LET g == Limiter!With(f, c, TakenAt(f[c], t)) IN
         /\ DOMAIN g = DOMAIN f /\ TableAt(g, t)
         /\ Held(g, t) = Held(f, t) - LevelAt(f[c], t) + LevelAt(TakenAt(f[c], t), t)
  <1> DEFINE g == Limiter!With(f, c, TakenAt(f[c], t))
  <1>1. /\ DOMAIN g = DOMAIN f /\ g[c] = TakenAt(f[c], t)
        /\ \A d \in DOMAIN f \ {c} : g[d] = f[d]
    BY Zenon DEF Limiter!With
  <1> HIDE DEF g
  <1>2. TableAt(g, t)
    <2>1. \A d \in DOMAIN g : BucketAt(g[d], t)
      BY <1>1, LevelTaken, Zenon DEF TableAt
    <2> QED BY <1>1, <2>1, Zenon DEF TableAt
  <1>3. /\ Agree(DOMAIN f \ {c}, Levels(f, t), Levels(g, t))
        /\ Levels(f, t)[c] = LevelAt(f[c], t) /\ Levels(g, t)[c] = LevelAt(TakenAt(f[c], t), t)
    BY <1>1, Zenon DEF Levels, Agree
  <1>4. /\ Room(DOMAIN f, Levels(f, t), Limiter!Capacity, max_clients)
        /\ Room(DOMAIN f, Levels(g, t), Limiter!Capacity, max_clients)
    BY <1>1, <1>2, LevelsRoom
  <1>5. Held(g, t) = Held(f, t) - Levels(f, t)[c] + Levels(g, t)[c]
    <2>1. Worth(DOMAIN f, Levels(g, t), Limiter!Capacity, max_clients)
            = Worth(DOMAIN f, Levels(f, t), Limiter!Capacity, max_clients) - Levels(f, t)[c] + Levels(g, t)[c]
      BY <1>3, <1>4, WorthChanged
    <2> QED BY <1>1, <2>1 DEF Held
  <1> QED BY <1>1, <1>2, <1>3, <1>5, Zenon DEF g

\* A new client's bucket was full as long as it was not in the table.
LEMMA HeldNew ==
  ASSUME TableLaws, LimitsConstants, NEW f, NEW t, TableAt(f, t),
         NEW c, c \notin DOMAIN f, Cardinality(DOMAIN f) < max_clients, NEW b, BucketAt(b, t)
  PROVE  LET g == Limiter!With(f, c, b) IN
         /\ DOMAIN g = DOMAIN f \cup {c} /\ TableAt(g, t)
         /\ Held(g, t) = Held(f, t) - Limiter!Capacity + LevelAt(b, t)
  <1> DEFINE g == Limiter!With(f, c, b)
  <1>1. /\ DOMAIN g = DOMAIN f \cup {c} /\ g[c] = b
        /\ \A d \in DOMAIN f : g[d] = f[d]
    BY Zenon DEF Limiter!With
  <1> HIDE DEF g
  <1>2. /\ Agree(DOMAIN f, Levels(f, t), Levels(g, t)) /\ Levels(g, t)[c] = LevelAt(b, t)
    BY <1>1, Zenon DEF Levels, Agree
  <1>3. Levels(g, t)[c] \in Nat
    <2>1. LevelAt(b, t) \in 0..Limiter!Capacity
      BY LevelIs, Zenon
    <2> QED BY <1>2, <2>1, LimiterConstants
  <1>4. /\ Room(DOMAIN f \cup {c}, Levels(g, t), Limiter!Capacity, max_clients)
        /\ Worth(DOMAIN f \cup {c}, Levels(g, t), Limiter!Capacity, max_clients)
             = Held(f, t) - Limiter!Capacity + Levels(g, t)[c]
    BY <1>2, <1>3, LevelsRoom, WorthAdded DEF Held
  <1>5. TableAt(g, t)
    <2>1. \A d \in DOMAIN g : BucketAt(g[d], t)
      BY <1>1, Zenon DEF TableAt
    <2> QED BY <1>1, <1>4, <2>1 DEF TableAt, Room, Sizeable
  <1> QED BY <1>1, <1>2, <1>4, <1>5 DEF g, Held

\* forget_idle(), at the time t.
Forgotten(f, t) ==
  [c \in {d \in DOMAIN f : f[d].tokens + (t - f[d].last) * PartsPerTick < Limiter!Capacity} |-> f[c]]

\* Only full buckets are forgotten: nothing the table holds is lost.
LEMMA HeldForgotten ==
  ASSUME TableLaws, LimitsConstants, NEW f, NEW t, TableAt(f, t)
  PROVE  LET g == Forgotten(f, t) IN
         /\ DOMAIN g \subseteq DOMAIN f /\ TableAt(g, t)
         /\ \A c \in DOMAIN g : g[c] = f[c]
         /\ \A c \in DOMAIN f \ DOMAIN g : LevelAt(f[c], t) = Limiter!Capacity
         /\ Held(g, t) <= Held(f, t)
  <1> DEFINE g == Forgotten(f, t)
  <1>1. DOMAIN g \subseteq DOMAIN f /\ \A c \in DOMAIN g : g[c] = f[c]
    BY DEF Forgotten
  <1>2. ASSUME NEW c \in DOMAIN f \ DOMAIN g PROVE LevelAt(f[c], t) = Limiter!Capacity
    <2>1. ~(f[c].tokens + (t - f[c].last) * PartsPerTick < Limiter!Capacity)
      BY DEF Forgotten
    <2>2. BucketAt(f[c], t)
      BY DEF TableAt
    <2>3. /\ f[c].tokens \in Nat /\ (t - f[c].last) * PartsPerTick \in Nat
          /\ LevelAt(f[c], t) = IF Limiter!Capacity <= f[c].tokens + (t - f[c].last) * PartsPerTick
                                  THEN Limiter!Capacity ELSE f[c].tokens + (t - f[c].last) * PartsPerTick
      BY <2>2, LevelIs, Zenon
    <2> HIDE DEF g
    <2> QED BY <2>1, <2>3, LimiterConstants
  <1> HIDE DEF g
  <1>3. Agree(DOMAIN g, Levels(f, t), Levels(g, t))
    BY <1>1, Zenon DEF Levels, Agree
  <1>4. \A c \in DOMAIN f \ DOMAIN g : Limiter!Capacity <= Levels(f, t)[c]
    BY <1>2, LimiterConstants DEF Levels
  <1>5. /\ Room(DOMAIN g, Levels(g, t), Limiter!Capacity, max_clients)
        /\ Held(g, t) <= Held(f, t)
    BY <1>1, <1>3, <1>4, LevelsRoom, WorthForgotten, Zenon DEF Held
  <1>6. TableAt(g, t)
    BY <1>1, <1>5, Zenon DEF TableAt, Room, Sizeable
  <1> QED BY <1>1, <1>2, <1>5, <1>6, Zenon DEF g

----------------------------------------------------------------------------
(* The rate limiter *)

\* Every client's bucket, ideally kept, is as full as the table says.
SameLevels(f, i, t) ==
  \A c \in Clients : LevelAt(i[c], t) = IF c \in DOMAIN f THEN LevelAt(f[c], t) ELSE Limiter!Capacity

\* What has been granted and what is left, the shared bucket's o included, is no more
\* than full buckets and what they were refilled by.
Affordable(f, o, n, t) ==
  n * PartsPerToken + Held(f, t) + LevelAt(o, t)
    <= (max_clients + 1) * (Limiter!Capacity + (t - Second) * PartsPerTick)

SharedBucket == IF overflow_used_ THEN overflow_ ELSE Limiter!Full(clock)

LimiterInv ==
  /\ clock \in Second..MaxClock
  /\ TableAt(buckets_, clock) /\ BucketAt(overflow_, clock)
  /\ overflow_used_ \in BOOLEAN /\ last_sweep_ \in 0..clock /\ granted \in Nat
  /\ idealBuckets = [c \in Clients |-> idealBuckets[c]]
  /\ \A c \in Clients : BucketAt(idealBuckets[c], clock)
  /\ SameLevels(buckets_, idealBuckets, clock)
  /\ Affordable(buckets_, SharedBucket, granted, clock)

\* What the table and the shared bucket hold are numbers.
LEMMA HoldingsTyped ==
  ASSUME TableLaws, LimitsConstants, LimiterInv
  PROVE  /\ BucketAt(SharedBucket, clock) /\ LevelAt(SharedBucket, clock) \in 0..Limiter!Capacity
         /\ LevelAt(SharedBucket, clock) \in Int
         /\ Held(buckets_, clock) \in Nat /\ Held(buckets_, clock) \in Int
  <1>1. BucketAt(SharedBucket, clock)
    <2>1. clock \in 0..MaxClock
      BY LimiterConstants DEF LimiterInv
    <2> QED BY <2>1, LevelFull, Zenon DEF LimiterInv, SharedBucket
  <1>2. LevelAt(SharedBucket, clock) \in 0..Limiter!Capacity
    BY <1>1, LevelIs, Zenon
  <1>3. Held(buckets_, clock) \in Nat
    BY LevelsRoom, WorthTyped, Zenon DEF LimiterInv, Held
  <1> QED BY <1>1, <1>2, <1>3

\* The invariant says how large the rate limiter's table gets and what it grants.
LEMMA LimiterInvImplies ==
  ASSUME TableLaws, LimitsConstants, LimiterInv
  PROVE  Limiter!Typed /\ Limiter!WithinLimit
  <1>1. Limiter!Typed
    BY SameOperators DEF LimiterInv, TableAt, BucketAt, Limiter!Typed
  <1>2. Limiter!WithinLimit
    <2>2. LevelAt(SharedBucket, clock) \in 0..Limiter!Capacity /\ Held(buckets_, clock) \in Nat
      BY HoldingsTyped, Zenon
    <2>4. granted * PartsPerToken \in Nat
      BY LimiterConstants DEF LimiterInv
    <2>5. (max_clients + 1) * (Limiter!Capacity + (clock - Second) * PartsPerTick) \in Int
      BY LimiterConstants DEF LimiterInv
    <2>6. granted * PartsPerToken + Held(buckets_, clock) + LevelAt(SharedBucket, clock)
            <= (max_clients + 1) * (Limiter!Capacity + (clock - Second) * PartsPerTick)
      BY Zenon DEF LimiterInv, Affordable
    <2>7. granted * PartsPerToken <= (max_clients + 1) * (Limiter!Capacity + (clock - Second) * PartsPerTick)
      BY <2>2, <2>4, <2>5, <2>6, LimiterConstants
    <2> QED BY <2>7, Zenon DEF Limiter!WithinLimit
  <1> QED BY <1>1, <1>2

\* What the limiter's operators are at the present.
LEMMA LimiterNow ==
  /\ \A b : Limiter!Taken(b) = TakenAt(b, clock)
  /\ \A f : Limiter!forget_idle(f) = Forgotten(f, clock)
  /\ \A f : Limiter!TableFull(f) <=> Cardinality(DOMAIN f) >= max_clients
  /\ \A b : Limiter!Count(b) =>
       granted' = IF LevelAt(b, clock) >= PartsPerToken THEN granted + 1 ELSE granted
  /\ Limiter!Overflow = SharedBucket
  <1>1. \A b : Limiter!Level(b) = LevelAt(b, clock)
    BY SameOperators, Zenon DEF Limiter!Level, LevelAt
  <1>2. \A b : Limiter!Taken(b) = TakenAt(b, clock)
    BY <1>1, Zenon DEF Limiter!Taken, Limiter!HasToken, TakenAt
  <1>3. \A f : Limiter!forget_idle(f) = Forgotten(f, clock)
    BY Zenon DEF Limiter!forget_idle, Forgotten
  <1>4. \A f : Limiter!TableFull(f) <=> Cardinality(DOMAIN f) >= max_clients
    BY SameOperators, Zenon DEF Limiter!TableFull
  <1>5. \A b : Limiter!Count(b) =>
          granted' = IF LevelAt(b, clock) >= PartsPerToken THEN granted + 1 ELSE granted
    BY <1>1, Zenon DEF Limiter!Count, Limiter!HasToken
  <1>6. Limiter!Overflow = SharedBucket
    BY Zenon DEF Limiter!Overflow, SharedBucket
  <1> QED BY <1>2, <1>3, <1>4, <1>5, <1>6, Zenon

\* An empty table holds max_clients full buckets.
LEMMA LimiterInitial ==
  ASSUME TableLaws, LimitsConstants, LimitsInit
  PROVE  LimiterInv
  <1>1. /\ clock = Second /\ buckets_ = [c \in {} |-> Limiter!Full(clock)]
        /\ overflow_ = Limiter!Full(clock) /\ overflow_used_ = FALSE
        /\ last_sweep_ = 0 /\ granted = 0
        /\ idealBuckets = [c \in Clients |-> Limiter!Full(clock)]
    BY Zenon DEF LimitsInit, Limiter!Init
  <1>2. clock \in Second..MaxClock /\ clock \in 0..MaxClock /\ last_sweep_ \in 0..clock /\ granted \in Nat
    BY <1>1, LimiterConstants
  <1>3. /\ BucketAt(Limiter!Full(clock), clock)
        /\ LevelAt(Limiter!Full(clock), clock) = Limiter!Capacity
    BY <1>2, LevelFull, Zenon
  <1>4. DOMAIN buckets_ = {}
    BY <1>1, Zenon
  <1>5. /\ TableAt(buckets_, clock)
        /\ Held(buckets_, clock) = max_clients * Limiter!Capacity
    <2>1. /\ Room({}, Levels(buckets_, clock), Limiter!Capacity, max_clients)
          /\ Worth({}, Levels(buckets_, clock), Limiter!Capacity, max_clients) = max_clients * Limiter!Capacity
      BY WorthEmpty, LimiterConstants, Zenon
    <2> QED BY <1>4, <2>1, Zenon DEF TableAt, Room, Sizeable, Held
  <1>6. SameLevels(buckets_, idealBuckets, clock)
    BY <1>1, <1>3, <1>4, Zenon DEF SameLevels
  <1>8. Affordable(buckets_, SharedBucket, granted, clock)
    <2>1. LevelAt(SharedBucket, clock) = Limiter!Capacity
      BY <1>1, <1>3, Zenon DEF SharedBucket
    <2>2. /\ granted * PartsPerToken = 0 /\ (clock - Second) * PartsPerTick = 0
          /\ (max_clients + 1) * (Limiter!Capacity + 0) = max_clients * Limiter!Capacity + Limiter!Capacity
          /\ max_clients * Limiter!Capacity \in Nat
      BY <1>1, LimiterConstants
    <2> QED BY <1>5, <2>1, <2>2, LimiterConstants DEF Affordable
  <1> QED BY <1>1, <1>2, <1>3, <1>5, <1>6, <1>8, Zenon DEF LimiterInv

\* A tick refills max_clients buckets and the shared one, at most.
LEMMA LimiterTicks ==
  ASSUME TableLaws, LimitsConstants, LimiterInv, ClockTicks
  PROVE  LimiterInv'
  <1>1. /\ clock' = clock + 1 /\ clock < MaxClock
        /\ UNCHANGED <<buckets_, overflow_, overflow_used_, last_sweep_, idealBuckets, granted>>
    BY Zenon DEF ClockTicks, limiter
  <1>2. /\ clock' \in Second..MaxClock /\ clock' \in 0..MaxClock /\ clock \in 0..MaxClock
        /\ last_sweep_ \in 0..clock'
    BY <1>1, LimiterConstants DEF LimiterInv
  <1>3. /\ TableAt(buckets_, clock')
        /\ Held(buckets_, clock') <= Held(buckets_, clock) + max_clients * PartsPerTick
        /\ Held(buckets_, clock) \in Nat /\ Held(buckets_, clock') \in Nat
    BY <1>1, HeldNext, Zenon DEF LimiterInv
  <1>4. /\ BucketAt(overflow_, clock')
        /\ \A c \in Clients : BucketAt(idealBuckets[c], clock')
    BY <1>1, LevelNext, Zenon DEF LimiterInv
  <1>5. SameLevels(buckets_, idealBuckets, clock')
    <2> SUFFICES ASSUME NEW c \in Clients
                 PROVE  LevelAt(idealBuckets[c], clock') =
                          IF c \in DOMAIN buckets_ THEN LevelAt(buckets_[c], clock') ELSE Limiter!Capacity
      BY Zenon DEF SameLevels
    <2>1. LevelAt(idealBuckets[c], clock) =
            IF c \in DOMAIN buckets_ THEN LevelAt(buckets_[c], clock) ELSE Limiter!Capacity
      BY Zenon DEF LimiterInv, SameLevels
    <2>2. LevelAt(idealBuckets[c], clock') =
            IF Limiter!Capacity <= LevelAt(idealBuckets[c], clock) + PartsPerTick
              THEN Limiter!Capacity ELSE LevelAt(idealBuckets[c], clock) + PartsPerTick
      BY <1>1, LevelNext, Zenon DEF LimiterInv
    <2>3. CASE c \in DOMAIN buckets_
      <3>1. LevelAt(buckets_[c], clock') =
              IF Limiter!Capacity <= LevelAt(buckets_[c], clock) + PartsPerTick
                THEN Limiter!Capacity ELSE LevelAt(buckets_[c], clock) + PartsPerTick
        BY <1>1, <2>3, LevelNext, Zenon DEF LimiterInv, TableAt
      <3> QED BY <2>1, <2>2, <2>3, <3>1, Zenon
    <2>4. CASE c \notin DOMAIN buckets_
      <3>1. Limiter!Capacity <= Limiter!Capacity + PartsPerTick
        BY LimiterConstants
      <3> QED BY <2>1, <2>2, <2>4, <3>1, Zenon
    <2> QED BY <2>3, <2>4, Zenon
  <1>6. /\ LevelAt(SharedBucket', clock') <= LevelAt(SharedBucket, clock) + PartsPerTick
        /\ LevelAt(SharedBucket, clock) \in Int /\ LevelAt(SharedBucket', clock') \in Int
    <2>1. CASE overflow_used_
      <3>1. SharedBucket = overflow_ /\ SharedBucket' = overflow_
        BY <1>1, <2>1, Zenon DEF SharedBucket
      <3>2. /\ LevelAt(overflow_, clock) \in 0..Limiter!Capacity
            /\ LevelAt(overflow_, clock') = IF Limiter!Capacity <= LevelAt(overflow_, clock) + PartsPerTick
                 THEN Limiter!Capacity ELSE LevelAt(overflow_, clock) + PartsPerTick
        BY <1>1, LevelIs, LevelNext, Zenon DEF LimiterInv
      <3> QED BY <3>1, <3>2, LimiterConstants
    <2>2. CASE ~overflow_used_
      <3>1. SharedBucket = Limiter!Full(clock) /\ SharedBucket' = Limiter!Full(clock')
        BY <1>1, <2>2, Zenon DEF SharedBucket, Limiter!Full
      <3>2. /\ LevelAt(Limiter!Full(clock), clock) = Limiter!Capacity
            /\ LevelAt(Limiter!Full(clock'), clock') = Limiter!Capacity
        BY <1>2, LevelFull, Zenon
      <3> QED BY <3>1, <3>2, LimiterConstants
    <2> QED BY <2>1, <2>2, Zenon
  <1>7. Affordable(buckets_, SharedBucket', granted, clock')
    <2>1. PICK n, r, h, k : n = granted * PartsPerToken /\ r = (clock - Second) * PartsPerTick
                            /\ h = max_clients * PartsPerTick /\ k = (max_clients + 1) * (Limiter!Capacity + r)
      BY Zenon
    <2>2. n \in Int /\ r \in Int /\ h \in Int /\ k \in Int
      BY <2>1, LimiterConstants DEF LimiterInv
    <2>3. (clock' - Second) * PartsPerTick = r + PartsPerTick
      BY <1>1, <2>1, LimiterConstants DEF LimiterInv
    <2>4. (max_clients + 1) * (Limiter!Capacity + (r + PartsPerTick)) = k + h + PartsPerTick
      BY <2>1, <2>2, LimiterConstants
    <2>5. n + Held(buckets_, clock) + LevelAt(SharedBucket, clock) <= k
      BY <2>1, Zenon DEF LimiterInv, Affordable
    <2>6. n + Held(buckets_, clock') + LevelAt(SharedBucket', clock') <= k + h + PartsPerTick
      BY <1>3, <1>6, <2>1, <2>2, <2>5, LimiterConstants
    <2> QED BY <2>1, <2>3, <2>4, <2>6, Zenon DEF Affordable
  <1>8. overflow_used_ \in BOOLEAN /\ granted \in Nat /\ idealBuckets = [c \in Clients |-> idealBuckets[c]]
    BY Zenon DEF LimiterInv
  <1> QED BY <1>1, <1>2, <1>3, <1>4, <1>5, <1>7, <1>8 DEF LimiterInv

\* A client with a bucket of its own takes from it, and its ideal bucket follows.
LEMMA AllowTrackedKeeps ==
  ASSUME TableLaws, LimitsConstants, LimiterInv, NEW c \in Clients, Limiter!AllowTracked(c), UNCHANGED clock
  PROVE  LimiterInv'
  <1> DEFINE b == buckets_[c]
             g == Limiter!With(buckets_, c, TakenAt(b, clock))
  <1>1. /\ c \in DOMAIN buckets_ /\ buckets_' = g
        /\ idealBuckets' = [idealBuckets EXCEPT ![c] = TakenAt(idealBuckets[c], clock)]
        /\ granted' = IF LevelAt(b, clock) >= PartsPerToken THEN granted + 1 ELSE granted
        /\ UNCHANGED <<overflow_, overflow_used_, last_sweep_, clock>>
    BY LimiterNow, Zenon DEF Limiter!AllowTracked
  <1>2. clock \in Second..MaxClock /\ clock \in 0..MaxClock
    BY LimiterConstants DEF LimiterInv
  <1>3. BucketAt(b, clock) /\ BucketAt(idealBuckets[c], clock)
    BY <1>1, Zenon DEF LimiterInv, TableAt
  <1>4. /\ DOMAIN g = DOMAIN buckets_ /\ TableAt(g, clock)
        /\ Held(g, clock) = Held(buckets_, clock) - LevelAt(b, clock) + LevelAt(TakenAt(b, clock), clock)
    BY <1>1, HeldTaken, Zenon DEF LimiterInv
  <1>5. /\ LevelAt(b, clock) \in 0..Limiter!Capacity
        /\ LevelAt(TakenAt(b, clock), clock) =
             IF LevelAt(b, clock) >= PartsPerToken THEN LevelAt(b, clock) - PartsPerToken ELSE LevelAt(b, clock)
        /\ LevelAt(TakenAt(idealBuckets[c], clock), clock) =
             IF LevelAt(idealBuckets[c], clock) >= PartsPerToken
               THEN LevelAt(idealBuckets[c], clock) - PartsPerToken ELSE LevelAt(idealBuckets[c], clock)
        /\ BucketAt(TakenAt(idealBuckets[c], clock), clock)
    BY <1>3, LevelIs, LevelTaken, Zenon
  <1>6. /\ idealBuckets' = [d \in Clients |-> idealBuckets'[d]]
        /\ idealBuckets'[c] = TakenAt(idealBuckets[c], clock)
        /\ \A d \in Clients \ {c} : idealBuckets'[d] = idealBuckets[d]
    BY <1>1 DEF LimiterInv
  <1>7. SameLevels(g, idealBuckets', clock)
    <2>1. g[c] = TakenAt(b, clock) /\ \A d \in DOMAIN buckets_ \ {c} : g[d] = buckets_[d]
      BY <1>1, Zenon DEF Limiter!With
    <2>2. LevelAt(idealBuckets[c], clock) = LevelAt(b, clock)
      BY <1>1, Zenon DEF LimiterInv, SameLevels
    <2> HIDE DEF g, b
    <2>3. LevelAt(idealBuckets'[c], clock) = LevelAt(g[c], clock)
      <3>1. LevelAt(TakenAt(idealBuckets[c], clock), clock) = LevelAt(TakenAt(b, clock), clock)
        BY <1>5, <2>2
      <3> QED BY <1>6, <2>1, <3>1
    <2> SUFFICES ASSUME NEW d \in Clients
                 PROVE  LevelAt(idealBuckets'[d], clock) =
                          IF d \in DOMAIN g THEN LevelAt(g[d], clock) ELSE Limiter!Capacity
      BY Zenon DEF SameLevels
    <2>4. CASE d = c
      BY <1>1, <1>4, <2>3, <2>4, Zenon
    <2>5. CASE d # c
      BY <1>4, <1>6, <2>1, <2>5, Zenon DEF LimiterInv, SameLevels
    <2> QED BY <2>4, <2>5, Zenon
  <1>8. granted' \in Nat /\ Affordable(g, SharedBucket, granted', clock)
    <2>1. PICK n, k : n = granted * PartsPerToken
                      /\ k = (max_clients + 1) * (Limiter!Capacity + (clock - Second) * PartsPerTick)
      BY Zenon
    <2>2. n + Held(buckets_, clock) + LevelAt(SharedBucket, clock) <= k
      BY <2>1, Zenon DEF LimiterInv, Affordable
    <2>3. /\ n \in Int /\ k \in Int /\ (granted + 1) * PartsPerToken = n + PartsPerToken
          /\ granted \in Nat /\ PartsPerToken \in Nat
      BY <1>2, <2>1, LimiterConstants DEF LimiterInv
    <2>4. Held(buckets_, clock) \in Int /\ LevelAt(SharedBucket, clock) \in Int
      BY HoldingsTyped, Zenon
    <2>5. granted' * PartsPerToken + Held(g, clock) = n + Held(buckets_, clock)
      <3> HIDE DEF g, b
      <3>1. CASE LevelAt(b, clock) >= PartsPerToken
        BY <1>1, <1>4, <1>5, <2>3, <2>4, <3>1
      <3>2. CASE ~(LevelAt(b, clock) >= PartsPerToken)
        BY <1>1, <1>4, <1>5, <2>1, <2>3, <2>4, <3>2
      <3> QED BY <3>1, <3>2, Zenon
    <2>6. granted' \in Nat
      BY <1>1, <2>3
    <2>7. granted' * PartsPerToken + Held(g, clock) + LevelAt(SharedBucket, clock) <= k
      BY <2>2, <2>5, Zenon
    <2> QED BY <2>1, <2>6, <2>7, Zenon DEF Affordable
  <1>9. SharedBucket' = SharedBucket
    BY <1>1, Zenon DEF SharedBucket, Limiter!Full
  <1>10. \A d \in Clients : BucketAt(idealBuckets'[d], clock)
    BY <1>5, <1>6, Zenon DEF LimiterInv
  <1>11. /\ BucketAt(overflow_, clock) /\ overflow_used_ \in BOOLEAN /\ last_sweep_ \in 0..clock
    BY Zenon DEF LimiterInv
  <1> HIDE DEF g
  <1> QED BY <1>1, <1>2, <1>4, <1>6, <1>7, <1>8, <1>9, <1>10, <1>11 DEF LimiterInv

\* What is left of the table when a new client comes, refilled buckets forgotten if a
\* sweep is due, holds as much, and says as much of every client.
LEMMA SweepKeeps ==
  ASSUME TableLaws, LimitsConstants, LimiterInv, NEW g, g = Forgotten(buckets_, clock) \/ g = buckets_
  PROVE  /\ DOMAIN g \subseteq DOMAIN buckets_ /\ TableAt(g, clock)
         /\ Held(g, clock) <= Held(buckets_, clock)
         /\ SameLevels(g, idealBuckets, clock)
  <1>1. /\ DOMAIN g \subseteq DOMAIN buckets_ /\ TableAt(g, clock)
        /\ \A c \in DOMAIN g : g[c] = buckets_[c]
        /\ \A c \in DOMAIN buckets_ \ DOMAIN g : LevelAt(buckets_[c], clock) = Limiter!Capacity
        /\ Held(g, clock) <= Held(buckets_, clock)
    <2>1. CASE g = buckets_
      BY <2>1, HoldingsTyped DEF LimiterInv
    <2>2. CASE g = Forgotten(buckets_, clock)
      <3>1. TableAt(buckets_, clock)
        BY Zenon DEF LimiterInv
      <3> QED BY <2>2, <3>1, HeldForgotten, Zenon
    <2> QED BY <2>1, <2>2, Zenon
  <1>2. SameLevels(g, idealBuckets, clock)
    <2> SUFFICES ASSUME NEW c \in Clients
                 PROVE  LevelAt(idealBuckets[c], clock) =
                          IF c \in DOMAIN g THEN LevelAt(g[c], clock) ELSE Limiter!Capacity
      BY Zenon DEF SameLevels
    <2>1. LevelAt(idealBuckets[c], clock) =
            IF c \in DOMAIN buckets_ THEN LevelAt(buckets_[c], clock) ELSE Limiter!Capacity
      BY Zenon DEF LimiterInv, SameLevels
    <2> QED BY <1>1, <2>1, Zenon
  <1> QED BY <1>1, <1>2, Zenon

\* A new client finds room, and a full bucket, or takes from the shared one.
LEMMA AllowNewKeeps ==
  ASSUME TableLaws, LimitsConstants, LimiterInv, NEW c \in Clients, Limiter!AllowNew(c), UNCHANGED clock
  PROVE  LimiterInv'
  <1>1. PICK g, o :
          /\ g = Forgotten(buckets_, clock) \/ g = buckets_
          /\ o = IF Cardinality(DOMAIN g) >= max_clients THEN SharedBucket ELSE Limiter!Full(clock)
          /\ c \notin DOMAIN buckets_
          /\ last_sweep_' = clock \/ last_sweep_' = last_sweep_
          /\ granted' = IF LevelAt(o, clock) >= PartsPerToken THEN granted + 1 ELSE granted
          /\ IF Cardinality(DOMAIN g) >= max_clients
               THEN /\ buckets_' = g /\ idealBuckets' = idealBuckets
                    /\ overflow_' = TakenAt(o, clock) /\ overflow_used_' = TRUE
               ELSE /\ buckets_' = Limiter!With(g, c, TakenAt(o, clock))
                    /\ idealBuckets' = [idealBuckets EXCEPT ![c] = TakenAt(idealBuckets[c], clock)]
                    /\ UNCHANGED <<overflow_, overflow_used_>>
    <2>1. PICK g : /\ g = IF Limiter!SweepDue THEN Forgotten(buckets_, clock) ELSE buckets_
                   /\ c \notin DOMAIN buckets_
                   /\ last_sweep_' = IF Limiter!SweepDue THEN clock ELSE last_sweep_
                   /\ IF Cardinality(DOMAIN g) >= max_clients
                        THEN /\ buckets_' = g
                             /\ overflow_' = TakenAt(SharedBucket, clock) /\ overflow_used_' = TRUE
                             /\ Limiter!Count(SharedBucket)
                             /\ UNCHANGED idealBuckets
                        ELSE /\ buckets_' = Limiter!With(g, c, TakenAt(Limiter!Full(clock), clock))
                             /\ idealBuckets' = [idealBuckets EXCEPT ![c] = TakenAt(idealBuckets[c], clock)]
                             /\ Limiter!Count(Limiter!Full(clock))
                             /\ UNCHANGED <<overflow_, overflow_used_>>
      BY LimiterNow, Zenon DEF Limiter!AllowNew, Limiter!Kept
    <2>2. CASE Cardinality(DOMAIN g) >= max_clients
      BY <2>1, <2>2, LimiterNow, Zenon
    <2>3. CASE ~(Cardinality(DOMAIN g) >= max_clients)
      BY <2>1, <2>3, LimiterNow, Zenon
    <2> QED BY <2>2, <2>3, Zenon
  <1>2. /\ clock \in Second..MaxClock /\ clock \in 0..MaxClock /\ clock' = clock
        /\ last_sweep_' \in 0..clock
    BY <1>1, LimiterConstants DEF LimiterInv
  <1>3. /\ DOMAIN g \subseteq DOMAIN buckets_ /\ TableAt(g, clock)
        /\ Held(g, clock) <= Held(buckets_, clock)
        /\ SameLevels(g, idealBuckets, clock)
    BY <1>1, SweepKeeps, Zenon
  <1>4. BucketAt(o, clock)
    BY <1>1, <1>2, HoldingsTyped, LevelFull, Zenon
  <1>5. /\ BucketAt(TakenAt(o, clock), clock)
        /\ LevelAt(o, clock) \in 0..Limiter!Capacity
        /\ LevelAt(TakenAt(o, clock), clock) =
             IF LevelAt(o, clock) >= PartsPerToken THEN LevelAt(o, clock) - PartsPerToken ELSE LevelAt(o, clock)
    BY <1>4, LevelIs, LevelTaken, Zenon
  <1>6. PICK n, k : n = granted * PartsPerToken
                    /\ k = (max_clients + 1) * (Limiter!Capacity + (clock - Second) * PartsPerTick)
    BY Zenon
  <1>7. /\ n \in Int /\ k \in Int /\ (granted + 1) * PartsPerToken = n + PartsPerToken
        /\ granted \in Nat /\ granted' \in Nat /\ PartsPerToken \in Nat
    <2>1. granted \in Nat /\ clock \in Int /\ Second \in Int
      BY <1>2, LimiterConstants DEF LimiterInv
    <2>2. granted' \in Nat
      BY <1>1, <2>1
    <2> QED BY <1>6, <2>1, <2>2, LimiterConstants
  <1>8. /\ n + Held(g, clock) + LevelAt(SharedBucket, clock) <= k
        /\ Held(g, clock) \in Int /\ LevelAt(SharedBucket, clock) \in Int
    <2>1. n + Held(buckets_, clock) + LevelAt(SharedBucket, clock) <= k
      BY <1>6, Zenon DEF LimiterInv, Affordable
    <2>2. Held(g, clock) \in Nat
      BY <1>3, LevelsRoom, WorthTyped, Zenon DEF Held
    <2> QED BY <1>3, <1>7, <2>1, <2>2, HoldingsTyped
  <1>9. granted' * PartsPerToken = n + (LevelAt(o, clock) - LevelAt(TakenAt(o, clock), clock))
    <2>1. CASE LevelAt(o, clock) >= PartsPerToken
      BY <1>1, <1>5, <1>7, <2>1
    <2>2. CASE ~(LevelAt(o, clock) >= PartsPerToken)
      BY <1>1, <1>5, <1>6, <1>7, <2>2
    <2> QED BY <2>1, <2>2, Zenon
  <1>10. /\ BucketAt(overflow_, clock) /\ overflow_used_ \in BOOLEAN
         /\ idealBuckets = [d \in Clients |-> idealBuckets[d]]
         /\ \A d \in Clients : BucketAt(idealBuckets[d], clock)
    BY Zenon DEF LimiterInv
  <1>11. CASE Cardinality(DOMAIN g) >= max_clients
    <2>1. /\ o = SharedBucket /\ buckets_' = g /\ idealBuckets' = idealBuckets
          /\ overflow_' = TakenAt(o, clock) /\ overflow_used_' = TRUE /\ overflow_used_' \in BOOLEAN
      BY <1>1, <1>11, Zenon
    <2>2. SharedBucket' = TakenAt(o, clock)
      BY <2>1, Zenon DEF SharedBucket
    <2>3. granted' * PartsPerToken + Held(g, clock) + LevelAt(TakenAt(o, clock), clock) <= k
      BY <1>5, <1>7, <1>8, <1>9, <2>1
    <2>4. Affordable(g, SharedBucket', granted', clock)
      BY <1>6, <2>2, <2>3, Zenon DEF Affordable
    <2> QED BY <1>2, <1>3, <1>5, <1>7, <1>10, <2>1, <2>4 DEF LimiterInv
  <1>12. CASE ~(Cardinality(DOMAIN g) >= max_clients)
    <2> DEFINE h == Limiter!With(g, c, TakenAt(o, clock))
    <2>1. /\ o = Limiter!Full(clock) /\ buckets_' = h
          /\ idealBuckets' = [idealBuckets EXCEPT ![c] = TakenAt(idealBuckets[c], clock)]
          /\ UNCHANGED <<overflow_, overflow_used_>>
      BY <1>1, <1>12, Zenon
    <2>2. LevelAt(o, clock) = Limiter!Capacity
      BY <1>2, <2>1, LevelFull, Zenon
    <2>3. c \notin DOMAIN g /\ Cardinality(DOMAIN g) < max_clients
      <3>1. Cardinality(DOMAIN g) \in Nat /\ max_clients \in Nat
        BY <1>3, LevelsRoom, WorthTyped, LimiterConstants, Zenon
      <3>2. Cardinality(DOMAIN g) < max_clients
        BY <1>12, <3>1
      <3> QED BY <1>1, <1>3, <3>2, Zenon
    <2>4. /\ DOMAIN h = DOMAIN g \cup {c} /\ TableAt(h, clock)
          /\ Held(h, clock) = Held(g, clock) - Limiter!Capacity + LevelAt(TakenAt(o, clock), clock)
      BY <1>3, <1>5, <2>3, HeldNew
    <2>5. h[c] = TakenAt(o, clock) /\ \A d \in DOMAIN g : d # c => h[d] = g[d]
      BY Zenon DEF Limiter!With
    <2> HIDE DEF h
    <2>6. granted' * PartsPerToken + Held(h, clock) + LevelAt(SharedBucket, clock) <= k
      BY <1>5, <1>7, <1>8, <1>9, <2>2, <2>4, LimiterConstants
    <2>7. SharedBucket' = SharedBucket
      BY <1>2, <2>1, Zenon DEF SharedBucket, Limiter!Full
    <2>8. Affordable(h, SharedBucket, granted', clock)
      BY <1>6, <2>6, Zenon DEF Affordable
    <2>9. /\ idealBuckets' = [d \in Clients |-> idealBuckets'[d]]
          /\ idealBuckets'[c] = TakenAt(idealBuckets[c], clock)
          /\ \A d \in Clients \ {c} : idealBuckets'[d] = idealBuckets[d]
      BY <1>10, <2>1
    <2>10. LevelAt(idealBuckets[c], clock) = LevelAt(o, clock)
      BY <1>3, <2>2, <2>3, Zenon DEF SameLevels
    <2>11. /\ BucketAt(TakenAt(idealBuckets[c], clock), clock)
           /\ LevelAt(TakenAt(idealBuckets[c], clock), clock) =
                IF LevelAt(idealBuckets[c], clock) >= PartsPerToken
                  THEN LevelAt(idealBuckets[c], clock) - PartsPerToken ELSE LevelAt(idealBuckets[c], clock)
      BY <1>10, LevelTaken, Zenon
    <2>12. LevelAt(TakenAt(idealBuckets[c], clock), clock) = LevelAt(TakenAt(o, clock), clock)
      BY <1>5, <2>10, <2>11
    <2>13. LevelAt(idealBuckets'[c], clock) = LevelAt(h[c], clock)
      BY <2>5, <2>9, <2>12
    <2>14. SameLevels(h, idealBuckets', clock)
      <3> SUFFICES ASSUME NEW d \in Clients
                   PROVE  LevelAt(idealBuckets'[d], clock) =
                            IF d \in DOMAIN h THEN LevelAt(h[d], clock) ELSE Limiter!Capacity
        BY Zenon DEF SameLevels
      <3>1. CASE d = c
        BY <2>4, <2>13, <3>1, Zenon
      <3>2. CASE d # c
        <4>1. LevelAt(idealBuckets[d], clock) = IF d \in DOMAIN g THEN LevelAt(g[d], clock) ELSE Limiter!Capacity
          BY <1>3, Zenon DEF SameLevels
        <4> QED BY <2>4, <2>5, <2>9, <3>2, <4>1, Zenon
      <3> QED BY <3>1, <3>2, Zenon
    <2>15. \A d \in Clients : BucketAt(idealBuckets'[d], clock)
      BY <1>10, <2>9, <2>11, Zenon
    <2> QED BY <1>2, <1>7, <1>10, <2>1, <2>4, <2>7, <2>8, <2>9, <2>14, <2>15 DEF LimiterInv
  <1> QED BY <1>11, <1>12, Zenon

----------------------------------------------------------------------------
(* What a sweep of the rate limiter's table leaves *)

\* The bucket is short of a token, and was at the time t.
ShortAt(b, t) ==
  b.tokens < Limiter!Capacity /\ b.tokens + (t - b.last) * PartsPerTick < Limiter!Capacity

\* Nobody in the table had a full bucket when it was last swept.
LimiterSwept == \A d \in DOMAIN buckets_ : ShortAt(buckets_[d], last_sweep_)

\* Who has just been to take() is short.
LEMMA TakenShort ==
  ASSUME LimitsConstants, NEW b, NEW t, BucketAt(b, t), NEW s \in 0..t
  PROVE  ShortAt(TakenAt(b, t), s)
  <1>1. /\ TakenAt(b, t).last = t /\ TakenAt(b, t).tokens \in Nat
        /\ TakenAt(b, t).tokens < Limiter!Capacity
    BY LevelIs, LimiterConstants DEF TakenAt
  <1>2. (s - t) * PartsPerTick \in Int /\ (s - t) * PartsPerTick <= 0
    BY LimiterConstants DEF BucketAt
  <1> QED BY <1>1, <1>2, LimiterConstants DEF ShortAt

\* Who is short now was at any time before.
LEMMA ShortBefore ==
  ASSUME LimitsConstants, NEW b, NEW t, BucketAt(b, t), NEW s \in Int, NEW r \in Int, r <= s, ShortAt(b, s)
  PROVE  ShortAt(b, r)
  <1>1. b.tokens \in Nat /\ b.last \in Int
    BY LimiterConstants DEF BucketAt, Limiter!Bucket
  <1>2. /\ (r - b.last) * PartsPerTick \in Int /\ (s - b.last) * PartsPerTick \in Int
        /\ (r - b.last) * PartsPerTick <= (s - b.last) * PartsPerTick
    BY <1>1, LimiterConstants
  <1> QED BY <1>1, <1>2, LimiterConstants DEF ShortAt

\* Those a new client meets in the table are short, at the time of the last sweep.
LEMMA KeptShort ==
  ASSUME LimitsConstants, LimiterInv, LimiterSwept,
         NEW s, s = IF Limiter!SweepDue THEN clock ELSE last_sweep_,
         NEW d \in DOMAIN Limiter!Kept
  PROVE  BucketAt(Limiter!Kept[d], clock) /\ ShortAt(Limiter!Kept[d], s)
  <1>1. ASSUME NEW e \in DOMAIN buckets_ PROVE BucketAt(buckets_[e], clock)
    BY Zenon DEF LimiterInv, TableAt
  <1>2. CASE Limiter!SweepDue
    <2>1. Limiter!Kept = Forgotten(buckets_, clock) /\ s = clock
      BY <1>2, LimiterNow, Zenon DEF Limiter!Kept
    <2>2. /\ d \in DOMAIN buckets_ /\ Limiter!Kept[d] = buckets_[d]
          /\ buckets_[d].tokens + (clock - buckets_[d].last) * PartsPerTick < Limiter!Capacity
      BY <2>1, Zenon DEF Forgotten
    <2>3. buckets_[d].tokens \in Nat /\ (clock - buckets_[d].last) * PartsPerTick \in Nat
      BY <1>1, <2>2, LevelIs, Zenon
    <2>4. buckets_[d].tokens < Limiter!Capacity
      BY <2>2, <2>3, LimiterConstants
    <2> QED BY <1>1, <2>1, <2>2, <2>4, Zenon DEF ShortAt
  <1>3. CASE ~Limiter!SweepDue
    <2>1. Limiter!Kept = buckets_ /\ s = last_sweep_
      BY <1>3, Zenon DEF Limiter!Kept
    <2> QED BY <1>1, <2>1, Zenon DEF LimiterSwept
  <1> QED BY <1>2, <1>3, Zenon

\* allow() leaves none in the table that had a full bucket at the last sweep.
LEMMA AllowSweeps ==
  ASSUME LimitsConstants, LimiterInv, LimiterSwept, NEW c \in Clients, Limiter!allow(c), UNCHANGED clock
  PROVE  LimiterSwept'
  <1>1. clock \in 0..MaxClock /\ clock \in 0..clock /\ last_sweep_ \in 0..clock
    BY LimiterConstants DEF LimiterInv
  <1>2. CASE Limiter!AllowTracked(c)
    <2>1. /\ c \in DOMAIN buckets_ /\ last_sweep_' = last_sweep_
          /\ buckets_' = Limiter!With(buckets_, c, TakenAt(buckets_[c], clock))
      BY <1>2, LimiterNow, Zenon DEF Limiter!AllowTracked
    <2>2. ShortAt(TakenAt(buckets_[c], clock), last_sweep_)
      BY <1>1, <2>1, TakenShort, Zenon DEF LimiterInv, TableAt
    <2> SUFFICES ASSUME NEW d \in DOMAIN buckets_' PROVE ShortAt(buckets_'[d], last_sweep_)
      BY <2>1, Zenon DEF LimiterSwept
    <2> QED BY <2>1, <2>2, Zenon DEF Limiter!With, LimiterSwept
  <1>3. CASE Limiter!AllowNew(c)
    <2>1. PICK s : s = IF Limiter!SweepDue THEN clock ELSE last_sweep_
      OBVIOUS
    <2>2. /\ last_sweep_' = s /\ s \in 0..clock
          /\ \/ buckets_' = Limiter!Kept
             \/ buckets_' = Limiter!With(Limiter!Kept, c, TakenAt(Limiter!Full(clock), clock))
      BY <1>1, <1>3, <2>1, LimiterNow, Zenon DEF Limiter!AllowNew
    <2>3. ShortAt(TakenAt(Limiter!Full(clock), clock), s)
      BY <1>1, <2>2, TakenShort, LevelFull, Zenon
    <2>4. \A d \in DOMAIN Limiter!Kept : ShortAt(Limiter!Kept[d], s)
      BY <2>1, KeptShort, Zenon
    <2> SUFFICES ASSUME NEW d \in DOMAIN buckets_' PROVE ShortAt(buckets_'[d], s)
      BY <2>2, Zenon DEF LimiterSwept
    <2>5. CASE buckets_' = Limiter!Kept
      BY <2>4, <2>5, Zenon
    <2>6. CASE buckets_' = Limiter!With(Limiter!Kept, c, TakenAt(Limiter!Full(clock), clock))
      <3>1. /\ d \in DOMAIN Limiter!Kept \cup {c}
            /\ buckets_'[d] = IF d = c THEN TakenAt(Limiter!Full(clock), clock) ELSE Limiter!Kept[d]
        BY <2>6, Zenon DEF Limiter!With
      <3> QED BY <2>3, <2>4, <3>1, Zenon
    <2> QED BY <2>2, <2>5, <2>6, Zenon
  <1> QED BY <1>2, <1>3, Zenon DEF Limiter!allow

\* Who shares has nothing to make up for, and shares because a table swept less than a
\* second ago is full; everyone else finds what there would be in a bucket kept.
LEMMA LimiterRemembers ==
  ASSUME LimitsConstants, LimiterInv, LimiterSwept
  PROVE  Limiter!NothingForgotten
  <1>1. \A b : Limiter!Level(b) = LevelAt(b, clock)
    BY SameOperators, Zenon DEF Limiter!Level, LevelAt
  <1>2. clock \in 0..MaxClock /\ clock \in Int /\ last_sweep_ \in Int /\ Second \in Int /\ clock - Second \in Int
        /\ clock - Second <= clock
    BY LimiterConstants DEF LimiterInv
  <1>3. ASSUME NEW c \in Clients
        PROVE  LevelAt(idealBuckets[c], clock) =
                 IF c \in DOMAIN buckets_ THEN LevelAt(buckets_[c], clock) ELSE Limiter!Capacity
    BY Zenon DEF LimiterInv, SameLevels
  <1>4. ASSUME NEW c \in Clients, ~Limiter!Shares(c)
        PROVE  LevelAt(idealBuckets[c], clock) = LevelAt(Limiter!Own(c), clock)
    BY <1>2, <1>3, LevelFull, Zenon DEF Limiter!Own
  <1>5. ASSUME NEW c \in Clients, Limiter!Shares(c) PROVE Limiter!Crowded
    <2>1. PICK s : s = IF Limiter!SweepDue THEN clock ELSE last_sweep_
      OBVIOUS
    <2>2. s \in Int /\ clock - Second <= s
      <3>1. CASE Limiter!SweepDue
        BY <1>2, <2>1, <3>1
      <3>2. CASE ~Limiter!SweepDue
        <4>1. Limiter!TableFull(buckets_)
          BY <1>5, <3>2, Zenon DEF Limiter!Shares, Limiter!Kept
        <4>2. ~(clock - last_sweep_ >= Second)
          BY <3>2, <4>1, Zenon DEF Limiter!SweepDue
        <4> QED BY <1>2, <2>1, <3>2, <4>2
      <3> QED BY <3>1, <3>2, Zenon
    <2> SUFFICES ASSUME NEW d \in DOMAIN Limiter!Kept
                 PROVE  Limiter!Kept[d].tokens + (clock - Second - Limiter!Kept[d].last) * PartsPerTick
                          < Limiter!Capacity
      BY Zenon DEF Limiter!Crowded
    <2>3. BucketAt(Limiter!Kept[d], clock) /\ ShortAt(Limiter!Kept[d], s)
      BY <2>1, KeptShort, Zenon
    <2>4. ShortAt(Limiter!Kept[d], clock - Second)
      BY <1>2, <2>2, <2>3, ShortBefore, Zenon
    <2> QED BY <2>4, Zenon DEF ShortAt
  <1>6. ASSUME NEW c \in Clients, Limiter!Shares(c) PROVE LevelAt(idealBuckets[c], clock) = Limiter!Capacity
    BY <1>3, <1>6, Zenon DEF Limiter!Shares
  <1> QED BY <1>1, <1>4, <1>5, <1>6, Zenon DEF Limiter!NothingForgotten

----------------------------------------------------------------------------
(* The entries of response rate limiting, at a time t *)

\* The windows that have passed.
Windows(t) == (t - Second) \div window_

\* What an entry has let through, had every window before its own let Cap through.
Paid(e) == Cap * Windows(e.window_start) + (IF e.sent < Cap THEN e.sent ELSE Cap)

CurrentAt(e, t) == IF t - e.window_start >= window_ THEN RRL!New(t) ELSE e

OneMore(c) ==
  IF c.sent < Cap THEN [c EXCEPT !.sent = @ + 1]
  ELSE [window_start |-> c.window_start, sent |-> Cap + 1,
        excess |-> IF slip = 0 THEN 0 ELSE (c.excess + 1) % slip]

CountedAt(e, t) == OneMore(CurrentAt(e, t))

EntryAt(e, t) == e \in RRL!Entry /\ t \in Second..MaxClock /\ e.window_start \in Second..t

\* What the limits' constants are.
LEMMA RrlConstants ==
  ASSUME LimitsConstants
  PROVE  /\ Cap \in Nat \ {0} /\ window_ \in Nat \ {0} /\ slip \in Nat /\ max_entries \in Nat
         /\ Second \in Nat \ {0} /\ MaxClock \in Nat /\ Second <= MaxClock
  BY DEF LimitsConstants

\* Windows pass in time, one at least in the time of one.
LEMMA WindowsPass ==
  ASSUME LimitsConstants, NEW s \in Second..MaxClock, NEW t \in s..MaxClock
  PROVE  /\ Windows(s) \in Nat /\ Windows(t) \in Nat /\ Windows(s) <= Windows(t)
         /\ t - s >= window_ => Windows(s) + 1 <= Windows(t)
  <1>1. /\ s - Second \in Nat /\ t - Second \in Nat /\ window_ \in Nat \ {0}
        /\ s \in Nat /\ t \in Nat /\ s <= t /\ Second \in Nat
    BY RrlConstants
  <1>2. PICK p, q : p = Windows(s) /\ q = Windows(t)
    OBVIOUS
  <1>3. p \in Nat /\ window_ * p <= s - Second /\ s - Second < window_ * p + window_
    BY <1>1, <1>2, DivIs DEF Windows
  <1>4. q \in Nat /\ window_ * q <= t - Second /\ t - Second < window_ * q + window_
    BY <1>1, <1>2, DivIs DEF Windows
  <1>5. ASSUME NEW n \in Nat, window_ * n < window_ * q + window_ PROVE n <= q
    BY <1>1, <1>4, <1>5
  <1>6. p <= q
    <2>1. window_ * p < window_ * q + window_
      BY <1>1, <1>3, <1>4
    <2> QED BY <1>3, <1>5, <2>1
  <1>7. ASSUME t - s >= window_ PROVE p + 1 <= q
    <2>1. window_ * (p + 1) = window_ * p + window_
      BY <1>1, <1>3
    <2>2. window_ * (p + 1) < window_ * q + window_
      BY <1>1, <1>3, <1>4, <1>7, <2>1
    <2>3. p + 1 \in Nat
      BY <1>3
    <2> QED BY <1>5, <2>2, <2>3
  <1> QED BY <1>2, <1>3, <1>4, <1>6, <1>7, Zenon

\* What an entry has let through: no more than a full window more than those before.
LEMMA PaidIs ==
  ASSUME LimitsConstants, NEW e, NEW t, EntryAt(e, t)
  PROVE  /\ Paid(e) \in Nat /\ Cap * Windows(t) \in Nat
         /\ Paid(e) <= Cap * Windows(t) + Cap
         /\ t - e.window_start >= window_ => Paid(e) <= Cap * Windows(t)
  <1>1. /\ e.window_start \in Second..MaxClock /\ t \in e.window_start..MaxClock
        /\ e.sent \in Nat
    BY RrlConstants DEF EntryAt, RRL!Entry
  <1>2. PICK p, q : p = Windows(e.window_start) /\ q = Windows(t)
    OBVIOUS
  <1>3. p \in Nat /\ q \in Nat /\ p <= q /\ (t - e.window_start >= window_ => p + 1 <= q)
    BY <1>1, <1>2, WindowsPass
  <1>4. /\ Cap * p \in Nat /\ Cap * q \in Nat /\ Cap * p <= Cap * q
        /\ p + 1 <= q => Cap * p + Cap <= Cap * q
    <2>1. ASSUME p + 1 <= q PROVE Cap * p + Cap <= Cap * q
      <3>1. Cap * (p + 1) <= Cap * q
        BY <1>3, <2>1, RrlConstants
      <3>2. Cap * (p + 1) = Cap * p + Cap
        BY <1>3, RrlConstants
      <3> QED BY <3>1, <3>2
    <2>2. Cap * p \in Nat /\ Cap * q \in Nat /\ Cap * p <= Cap * q
      BY <1>3, RrlConstants
    <2> QED BY <2>1, <2>2
  <1>5. Paid(e) = Cap * p + IF e.sent < Cap THEN e.sent ELSE Cap
    BY <1>2, Zenon DEF Paid
  <1> QED BY <1>1, <1>2, <1>3, <1>4, <1>5, RrlConstants

\* A new entry has let nothing through but what the windows before its own might have.
LEMMA NewEntry ==
  ASSUME LimitsConstants, NEW t \in Second..MaxClock
  PROVE  /\ EntryAt(RRL!New(t), t) /\ CurrentAt(RRL!New(t), t) = RRL!New(t)
         /\ Paid(RRL!New(t)) = Cap * Windows(t)
  <1>1. /\ RRL!New(t).window_start = t /\ RRL!New(t).sent = 0
        /\ EntryAt(RRL!New(t), t)
    BY RrlConstants DEF RRL!New, EntryAt, RRL!Entry
  <1>2. CurrentAt(RRL!New(t), t) = RRL!New(t)
    <2>1. ~(t - t >= window_)
      BY RrlConstants
    <2> QED BY <1>1, <2>1, Zenon DEF CurrentAt
  <1>3. Paid(RRL!New(t)) = Cap * Windows(t)
    <2>1. Cap * Windows(t) \in Nat
      BY <1>1, PaidIs, Zenon
    <2>2. Paid(RRL!New(t)) = Cap * Windows(t) + IF 0 < Cap THEN 0 ELSE Cap
      BY <1>1, Zenon DEF Paid
    <2> QED BY <2>1, <2>2, RrlConstants
  <1> QED BY <1>1, <1>2, <1>3, Zenon

\* The window that counts now is worth no less than the entry was.
LEMMA CurrentIs ==
  ASSUME LimitsConstants, NEW e, NEW t, EntryAt(e, t)
  PROVE  EntryAt(CurrentAt(e, t), t) /\ Paid(e) <= Paid(CurrentAt(e, t))
  <1>1. t \in Second..MaxClock
    BY Zenon DEF EntryAt
  <1>2. CASE t - e.window_start >= window_
    <2>1. CurrentAt(e, t) = RRL!New(t)
      BY <1>2, Zenon DEF CurrentAt
    <2> QED BY <1>1, <1>2, <2>1, PaidIs, NewEntry
  <1>3. CASE ~(t - e.window_start >= window_)
    <2>1. CurrentAt(e, t) = e
      BY <1>3, Zenon DEF CurrentAt
    <2>2. Paid(e) \in Nat
      BY PaidIs, Zenon
    <2> QED BY <2>1, <2>2
  <1> QED BY <1>2, <1>3, Zenon

\* Counting a response that goes out whole adds one to what the entry has let through,
\* any other takes nothing from it.
LEMMA CountedIs ==
  ASSUME LimitsConstants, NEW e, NEW t, EntryAt(e, t)
  PROVE  /\ EntryAt(CountedAt(e, t), t)
         /\ CurrentAt(e, t).sent < Cap => Paid(e) + 1 <= Paid(CountedAt(e, t))
         /\ Paid(e) <= Paid(CountedAt(e, t))
  <1>1. PICK c : c = CurrentAt(e, t)
    OBVIOUS
  <1>2. EntryAt(c, t) /\ Paid(e) <= Paid(c) /\ Paid(e) \in Nat /\ Paid(c) \in Nat
    BY <1>1, CurrentIs, PaidIs
  <1>3. /\ c \in [window_start : 0..MaxClock, sent : 0..(Cap + 1), excess : 0..slip]
        /\ c.sent \in Nat /\ Cap \in Nat /\ Cap # 0
    BY <1>2, RrlConstants DEF EntryAt, RRL!Entry
  <1>4. PICK p : p = Cap * Windows(c.window_start)
    OBVIOUS
  <1>5. p \in Nat
    <2>1. c.window_start \in Second..MaxClock /\ c.window_start \in c.window_start..MaxClock
      BY <1>2, RrlConstants DEF EntryAt
    <2>2. Windows(c.window_start) \in Nat
      BY <2>1, WindowsPass
    <2> QED BY <1>4, <2>2, RrlConstants
  <1>6. CASE c.sent < Cap
    <2>1. PICK d : d = [c EXCEPT !.sent = @ + 1]
      BY Zenon
    <2>2. OneMore(c) = d
      BY <1>6, <2>1 DEF OneMore
    <2>3. /\ d \in [window_start : 0..MaxClock, sent : 0..(Cap + 1), excess : 0..slip]
          /\ d.sent = c.sent + 1 /\ d.window_start = c.window_start
      BY <1>3, <1>6, <2>1
    <2>4. EntryAt(d, t)
      BY <1>2, <2>3, Zenon DEF EntryAt, RRL!Entry
    <2>5. Paid(c) = p + c.sent
      BY <1>4, <1>6, Zenon DEF Paid
    <2>6. Paid(d) = p + IF c.sent + 1 < Cap THEN c.sent + 1 ELSE Cap
      BY <1>4, <2>3, Zenon DEF Paid
    <2>7. Paid(d) = Paid(c) + 1
      BY <1>3, <1>5, <1>6, <2>5, <2>6
    <2> QED BY <1>1, <1>2, <2>2, <2>4, <2>7 DEF CountedAt
  <1>7. CASE ~(c.sent < Cap)
    <2>1. PICK d : d = [window_start |-> c.window_start, sent |-> Cap + 1,
                        excess |-> IF slip = 0 THEN 0 ELSE (c.excess + 1) % slip]
      BY Zenon
    <2>2. OneMore(c) = d
      BY <1>7, <2>1, Zenon DEF OneMore
    <2>3. (IF slip = 0 THEN 0 ELSE (c.excess + 1) % slip) \in 0..slip
      BY <1>3, RrlConstants
    <2>5. /\ d \in [window_start : 0..MaxClock, sent : 0..(Cap + 1), excess : 0..slip]
          /\ d.sent = Cap + 1 /\ d.window_start = c.window_start
      BY <1>3, <2>1, <2>3
    <2>6. EntryAt(d, t)
      BY <1>2, <2>5, Zenon DEF EntryAt, RRL!Entry
    <2>7. Paid(c) = p + Cap
      BY <1>4, <1>7, Zenon DEF Paid
    <2>8. Paid(d) = p + IF Cap + 1 < Cap THEN Cap + 1 ELSE Cap
      BY <1>4, <2>5, Zenon DEF Paid
    <2>9. Paid(d) = Paid(c)
      BY <1>3, <1>5, <2>7, <2>8
    <2> QED BY <1>1, <1>2, <1>7, <2>2, <2>6, <2>9 DEF CountedAt
  <1> QED BY <1>6, <1>7, Zenon

----------------------------------------------------------------------------
(* Response rate limiting *)

EntriesAt(f, t) ==
  /\ IsFiniteSet(DOMAIN f) /\ Cardinality(DOMAIN f) <= max_entries
  /\ \A x \in DOMAIN f : EntryAt(f[x], t)

Payments(f) == [x \in DOMAIN f |-> Paid(f[x])]

\* What the table's entries have let through, and what a free place might have.
Passed(f, t) == Worth(DOMAIN f, Payments(f), Cap * Windows(t), max_entries)

SharedEntry == IF rrlOverflowUsed THEN rrlOverflow ELSE RRL!New(clock)

\* An entry that was forgotten, or never made, would have expired.
Remembered(f, i, t) ==
  \A x \in Fingerprints :
    IF x \in DOMAIN f THEN i[x] = f[x] ELSE i[x].window_start \in Int /\ t - i[x].window_start >= window_

RrlInv ==
  /\ clock \in Second..MaxClock
  /\ EntriesAt(entries_, clock) /\ EntryAt(rrlOverflow, clock)
  /\ rrlOverflowUsed \in BOOLEAN /\ rrlLastSweep \in 0..clock /\ total \in Nat
  /\ idealEntries = [x \in Fingerprints |-> idealEntries[x]]
  /\ Remembered(entries_, idealEntries, clock)
  /\ total <= Passed(entries_, clock) + Paid(SharedEntry)

\* A table's worth, before and after an entry worth more took the place of one.
Exchanged(before, after, old, new) == after = before - old + new

\* What the entries have let through can be summed.
LEMMA PaymentsRoom ==
  ASSUME LimitsConstants, NEW f, NEW t \in Second..MaxClock, EntriesAt(f, t)
  PROVE  Room(DOMAIN f, Payments(f), Cap * Windows(t), max_entries)
  <1>1. \A x \in DOMAIN f : Payments(f)[x] \in Nat
    BY PaidIs, Zenon DEF Payments, EntriesAt
  <1>2. Cap * Windows(t) \in Nat
    BY NewEntry, PaidIs, Zenon
  <1> QED BY <1>1, <1>2, RrlConstants, Zenon DEF Room, Sizeable, EntriesAt

\* The shared entry is an entry.
LEMMA SharedEntryTyped ==
  ASSUME LimitsConstants, RrlInv
  PROVE  EntryAt(SharedEntry, clock) /\ Paid(SharedEntry) \in Nat
  <1>1. EntryAt(SharedEntry, clock)
    BY NewEntry, Zenon DEF RrlInv, SharedEntry
  <1> QED BY <1>1, PaidIs, Zenon

\* What RRL's operators are at the present.
LEMMA RrlNow ==
  /\ \A e : RRL!Current(e) = CurrentAt(e, clock) /\ RRL!Counted(e) = CountedAt(e, clock)
  /\ \A e : RRL!Expired(e) <=> clock - e.window_start >= window_
  /\ \A f : RRL!TableFull(f) <=> Cardinality(DOMAIN f) >= max_entries
  /\ \A e : RRL!verdict(e) =
       CASE CurrentAt(e, clock).sent < Cap -> "Send"
         [] CurrentAt(e, clock).sent >= Cap /\ slip > 0 /\ CountedAt(e, clock).excess = 0 -> "Slip"
         [] OTHER -> "Drop"
  /\ RRL!Overflow = SharedEntry
  <1>1. \A e : RRL!Current(e) = CurrentAt(e, clock)
    BY Zenon DEF RRL!Current, RRL!Expired, CurrentAt
  <1>2. \A e : RRL!Counted(e) = CountedAt(e, clock)
    BY <1>1, Zenon DEF RRL!Counted, CountedAt, OneMore
  <1>3. \A e : RRL!verdict(e) =
          CASE CurrentAt(e, clock).sent < Cap -> "Send"
            [] CurrentAt(e, clock).sent >= Cap /\ slip > 0 /\ CountedAt(e, clock).excess = 0 -> "Slip"
            [] OTHER -> "Drop"
    BY <1>1, <1>2, Zenon DEF RRL!verdict
  <1>4. RRL!Overflow = SharedEntry /\ \A e : RRL!Expired(e) <=> clock - e.window_start >= window_
    BY Zenon DEF RRL!Overflow, SharedEntry, RRL!Expired
  <1>5. \A f : RRL!TableFull(f) <=> Cardinality(DOMAIN f) >= max_entries
    BY SameOperators, Zenon DEF RRL!TableFull
  <1> QED BY <1>1, <1>2, <1>3, <1>4, <1>5, Zenon

\* A response that goes out whole is paid for by the entry it is counted in.
LEMMA CountPays ==
  ASSUME LimitsConstants, NEW e, EntryAt(e, clock), RRL!Total(e), total \in Nat
  PROVE  /\ EntryAt(CountedAt(e, clock), clock) /\ total' \in Nat
         /\ total' + Paid(e) <= total + Paid(CountedAt(e, clock))
  <1>1. /\ EntryAt(CountedAt(e, clock), clock)
        /\ CurrentAt(e, clock).sent < Cap => Paid(e) + 1 <= Paid(CountedAt(e, clock))
        /\ Paid(e) <= Paid(CountedAt(e, clock))
    BY CountedIs, Zenon
  <1>2. Paid(e) \in Nat /\ Paid(CountedAt(e, clock)) \in Nat
    BY <1>1, PaidIs, Zenon
  <1>3. CASE CurrentAt(e, clock).sent < Cap
    <2>1. total' = total + 1 \/ total' = total
      BY Zenon DEF RRL!Total
    <2> QED BY <1>1, <1>2, <1>3, <2>1
  <1>4. CASE ~(CurrentAt(e, clock).sent < Cap)
    <2>1. RRL!verdict(e) # "Send"
      BY <1>4, RrlNow
    <2>2. total' = total
      BY <2>1, Zenon DEF RRL!Total
    <2> QED BY <1>1, <1>2, <2>2
  <1> QED BY <1>3, <1>4, Zenon

\* Another entry for a tracked fingerprint.
LEMMA PassedChanged ==
  ASSUME TableLaws, LimitsConstants, NEW f, NEW t \in Second..MaxClock, EntriesAt(f, t),
         NEW x \in DOMAIN f, NEW e, EntryAt(e, t),
         NEW g, g = RRL!With(f, x, e)
  PROVE  /\ DOMAIN g = DOMAIN f /\ EntriesAt(g, t)
         /\ Exchanged(Passed(f, t), Passed(g, t), Paid(f[x]), Paid(e))
  <1>1. /\ DOMAIN g = DOMAIN f /\ g[x] = e
        /\ \A y \in DOMAIN f \ {x} : g[y] = f[y]
    BY DEF RRL!With
  <1>2. EntriesAt(g, t)
    <2>1. \A y \in DOMAIN g : EntryAt(g[y], t)
      BY <1>1, Zenon DEF EntriesAt
    <2> QED BY <1>1, <2>1, Zenon DEF EntriesAt
  <1>3. /\ Agree(DOMAIN f \ {x}, Payments(f), Payments(g))
        /\ Payments(f)[x] = Paid(f[x]) /\ Payments(g)[x] = Paid(e)
    BY <1>1, Zenon DEF Payments, Agree
  <1>4. PICK w : w = Cap * Windows(t)
    BY Zenon
  <1>5. Room(DOMAIN f, Payments(f), w, max_entries) /\ Room(DOMAIN f, Payments(g), w, max_entries)
    BY <1>1, <1>2, <1>4, PaymentsRoom, Zenon
  <1>6. Worth(DOMAIN f, Payments(g), w, max_entries)
          = Worth(DOMAIN f, Payments(f), w, max_entries) - Payments(f)[x] + Payments(g)[x]
    <2>1. PICK D, u, v : D = DOMAIN f /\ u = Payments(f) /\ v = Payments(g)
      BY Zenon
    <2>2. x \in D /\ Room(D, u, w, max_entries) /\ Room(D, v, w, max_entries) /\ Agree(D \ {x}, u, v)
      BY <1>3, <1>5, <2>1
    <2>3. Worth(D, v, w, max_entries) = Worth(D, u, w, max_entries) - u[x] + v[x]
      BY <2>2, WorthChanged
    <2> QED BY <2>1, <2>3
  <1> QED BY <1>1, <1>2, <1>3, <1>4, <1>6 DEF Passed, Exchanged

\* An entry for a new fingerprint.
LEMMA PassedNew ==
  ASSUME TableLaws, LimitsConstants, NEW f, NEW t \in Second..MaxClock, EntriesAt(f, t),
         NEW x, x \notin DOMAIN f, Cardinality(DOMAIN f) < max_entries, NEW e, EntryAt(e, t),
         NEW g, g = RRL!With(f, x, e)
  PROVE  /\ DOMAIN g = DOMAIN f \cup {x} /\ EntriesAt(g, t)
         /\ Exchanged(Passed(f, t), Passed(g, t), Paid(RRL!New(t)), Paid(e))
  <1>1. /\ DOMAIN g = DOMAIN f \cup {x} /\ g[x] = e
        /\ \A y \in DOMAIN f : g[y] = f[y]
    BY Zenon DEF RRL!With
  <1>2. Agree(DOMAIN f, Payments(f), Payments(g)) /\ Payments(g)[x] = Paid(e) /\ Payments(g)[x] \in Nat
    BY <1>1, PaidIs, Zenon DEF Payments, Agree
  <1>3. PICK w : w = Cap * Windows(t) /\ w = Paid(RRL!New(t))
    BY NewEntry, Zenon
  <1>4. Room(DOMAIN f, Payments(f), w, max_entries)
    BY <1>3, PaymentsRoom, Zenon
  <1>5. /\ Room(DOMAIN f \cup {x}, Payments(g), w, max_entries)
        /\ Worth(DOMAIN f \cup {x}, Payments(g), w, max_entries)
             = Worth(DOMAIN f, Payments(f), w, max_entries) - w + Payments(g)[x]
    <2>1. PICK D, u, v : D = DOMAIN f /\ u = Payments(f) /\ v = Payments(g)
      BY Zenon
    <2>2. x \notin D /\ Cardinality(D) < max_entries /\ Room(D, u, w, max_entries) /\ Agree(D, u, v) /\ v[x] \in Nat
      BY <1>2, <1>4, <2>1
    <2>3. /\ Room(D \cup {x}, v, w, max_entries)
          /\ Worth(D \cup {x}, v, w, max_entries) = Worth(D, u, w, max_entries) - w + v[x]
      BY <2>2, WorthAdded
    <2> QED BY <2>1, <2>3
  <1>6. EntriesAt(g, t)
    <2>1. \A y \in DOMAIN g : EntryAt(g[y], t)
      BY <1>1, Zenon DEF EntriesAt
    <2> QED BY <1>1, <1>5, <2>1 DEF EntriesAt, Room, Sizeable
  <1> QED BY <1>1, <1>2, <1>3, <1>5, <1>6 DEF Passed, Exchanged

\* forget_expired(), at the time t.
Unforgotten(f, t) == [x \in {y \in DOMAIN f : ~(t - f[y].window_start >= window_)} |-> f[x]]

\* Only expired entries are forgotten: a free place is worth as much.
LEMMA PassedForgotten ==
  ASSUME TableLaws, LimitsConstants, NEW f, NEW t \in Second..MaxClock, EntriesAt(f, t)
  PROVE  LET g == Unforgotten(f, t) IN
         /\ DOMAIN g \subseteq DOMAIN f /\ EntriesAt(g, t)
         /\ \A x \in DOMAIN g : g[x] = f[x]
         /\ \A x \in DOMAIN f \ DOMAIN g : t - f[x].window_start >= window_
         /\ Passed(f, t) <= Passed(g, t)
  <1> DEFINE g == Unforgotten(f, t)
  <1>1. /\ DOMAIN g \subseteq DOMAIN f /\ \A x \in DOMAIN g : g[x] = f[x]
        /\ \A x \in DOMAIN f \ DOMAIN g : t - f[x].window_start >= window_
    BY Zenon DEF Unforgotten
  <1> HIDE DEF g
  <1>2. /\ Agree(DOMAIN g, Payments(f), Payments(g))
        /\ \A x \in DOMAIN f \ DOMAIN g : Payments(f)[x] <= Cap * Windows(t)
    BY <1>1, PaidIs, Zenon DEF Payments, Agree, EntriesAt
  <1>3. /\ Room(DOMAIN g, Payments(g), Cap * Windows(t), max_entries)
        /\ Worth(DOMAIN f, Payments(f), Cap * Windows(t), max_entries)
             <= Worth(DOMAIN g, Payments(g), Cap * Windows(t), max_entries)
    BY <1>1, <1>2, PaymentsRoom, WorthForgotten, Zenon
  <1>4. EntriesAt(g, t)
    <2>1. \A y \in DOMAIN g : EntryAt(g[y], t)
      BY <1>1, Zenon DEF EntriesAt
    <2> QED BY <1>3, <2>1, Zenon DEF EntriesAt, Room, Sizeable
  <1> QED BY <1>1, <1>3, <1>4 DEF g, Passed

\* The invariant says how large RRL's table gets and what goes out whole.
LEMMA RrlInvImplies ==
  ASSUME TableLaws, LimitsConstants, RrlInv
  PROVE  RRL!Typed /\ RRL!WithinLimit
  <1>1. RRL!Typed
    BY SameOperators DEF RrlInv, EntriesAt, EntryAt, RRL!Typed
  <1>2. RRL!WithinLimit
    <2>1. PICK q : q = Cap * Windows(clock)
      OBVIOUS
    <2>2. /\ Windows(clock) \in Nat /\ q \in Nat /\ q + Cap \in Nat /\ q <= q + Cap
          /\ q + Cap = Cap * (Windows(clock) + 1)
      <3>1. clock \in Second..MaxClock /\ clock \in clock..MaxClock
        BY RrlConstants DEF RrlInv
      <3>2. Windows(clock) \in Nat
        BY <3>1, WindowsPass
      <3> QED BY <2>1, <3>2, RrlConstants
    <2>3. Paid(SharedEntry) <= q + Cap /\ Paid(SharedEntry) \in Nat
      BY <2>1, SharedEntryTyped, PaidIs, Zenon
    <2>4. \A x \in DOMAIN entries_ : Payments(entries_)[x] <= q + Cap
      BY <2>1, PaidIs, Zenon DEF RrlInv, EntriesAt, Payments
    <2>5. Room(DOMAIN entries_, Payments(entries_), q, max_entries)
      BY <2>1, PaymentsRoom, Zenon DEF RrlInv
    <2>6. Passed(entries_, clock) <= max_entries * (q + Cap) /\ Passed(entries_, clock) \in Nat
      BY <2>1, <2>2, <2>4, <2>5, WorthAtMost, WorthTyped, Zenon DEF Passed
    <2>7. max_entries * (q + Cap) \in Nat /\ max_entries * (q + Cap) + (q + Cap) = (max_entries + 1) * (q + Cap)
      BY <2>2, RrlConstants
    <2>8. total <= (max_entries + 1) * (q + Cap)
      BY <2>2, <2>3, <2>6, <2>7 DEF RrlInv
    <2>9. (max_entries + 1) * (q + Cap) = (max_entries + 1) * Cap * (Windows(clock) + 1)
      BY <2>2, RrlConstants
    <2> QED BY <2>8, <2>9 DEF RRL!WithinLimit, Windows
  <1> QED BY <1>1, <1>2, Zenon

\* Nothing has been sent at first.
LEMMA RrlInitial ==
  ASSUME TableLaws, LimitsConstants, LimitsInit
  PROVE  RrlInv
  <1>1. /\ clock = Second /\ entries_ = [x \in {} |-> RRL!New(clock)]
        /\ rrlOverflow = RRL!New(clock) /\ rrlOverflowUsed = FALSE
        /\ rrlLastSweep = 0 /\ total = 0
        /\ idealEntries = [x \in Fingerprints |-> RRL!New(clock - window_)]
    BY Zenon DEF LimitsInit, RRL!Init
  <1>2. clock \in Second..MaxClock /\ rrlLastSweep \in 0..clock /\ total \in Nat
    BY <1>1, RrlConstants
  <1>3. EntryAt(RRL!New(clock), clock) /\ Paid(RRL!New(clock)) \in Nat /\ Cap * Windows(clock) \in Nat
    BY <1>2, NewEntry, PaidIs, Zenon
  <1>4. DOMAIN entries_ = {}
    BY <1>1, Zenon
  <1>5. /\ Room({}, Payments(entries_), Cap * Windows(clock), max_entries)
        /\ Worth({}, Payments(entries_), Cap * Windows(clock), max_entries) \in Nat
    BY <1>3, WorthEmpty, WorthTyped, RrlConstants, Zenon
  <1>6. EntriesAt(entries_, clock) /\ Passed(entries_, clock) \in Nat
    BY <1>4, <1>5, Zenon DEF EntriesAt, Room, Sizeable, Passed
  <1>7. Remembered(entries_, idealEntries, clock)
    <2> SUFFICES ASSUME NEW x \in Fingerprints
                 PROVE  idealEntries[x].window_start \in Int /\ clock - idealEntries[x].window_start >= window_
      BY <1>4, Zenon DEF Remembered
    <2>1. idealEntries[x].window_start = clock - window_
      BY <1>1 DEF RRL!New
    <2> QED BY <1>2, <2>1, RrlConstants
  <1>8. total <= Passed(entries_, clock) + Paid(SharedEntry)
    BY <1>1, <1>3, <1>6 DEF SharedEntry
  <1> QED BY <1>1, <1>2, <1>3, <1>6, <1>7, <1>8, Zenon DEF RrlInv

\* Time makes a free place worth more, and no entry less.
LEMMA RrlTicks ==
  ASSUME TableLaws, LimitsConstants, RrlInv, ClockTicks
  PROVE  RrlInv'
  <1>1. /\ clock' = clock + 1 /\ clock < MaxClock
        /\ UNCHANGED <<entries_, rrlOverflow, rrlOverflowUsed, rrlLastSweep, idealEntries, total>>
    BY Zenon DEF ClockTicks, rrl
  <1>2. /\ clock' \in Second..MaxClock /\ rrlLastSweep \in 0..clock'
        /\ clock \in Second..MaxClock /\ clock' \in clock..MaxClock
    BY <1>1, RrlConstants DEF RrlInv
  <1>3. ASSUME NEW e, EntryAt(e, clock) PROVE EntryAt(e, clock')
    BY <1>1, <1>2, <1>3, RrlConstants DEF EntryAt
  <1>4. EntriesAt(entries_, clock') /\ EntryAt(rrlOverflow, clock')
    BY <1>3, Zenon DEF RrlInv, EntriesAt
  <1>5. Cap * Windows(clock) <= Cap * Windows(clock') /\ Cap * Windows(clock) \in Nat /\ Cap * Windows(clock') \in Nat
    <2>1. Windows(clock) \in Nat /\ Windows(clock') \in Nat /\ Windows(clock) <= Windows(clock')
      BY <1>2, WindowsPass
    <2> QED BY <2>1, RrlConstants
  <1>6. Passed(entries_, clock) <= Passed(entries_, clock')
    BY <1>2, <1>4, <1>5, PaymentsRoom, PlacesGrow, Zenon DEF Passed, RrlInv
  <1>7. Passed(entries_, clock) \in Nat /\ Passed(entries_, clock') \in Nat
    BY <1>2, <1>4, PaymentsRoom, WorthTyped, Zenon DEF Passed, RrlInv
  <1>8. Paid(SharedEntry) <= Paid(SharedEntry') /\ Paid(SharedEntry) \in Nat /\ Paid(SharedEntry') \in Nat
    <2>1. CASE rrlOverflowUsed
      <3>1. SharedEntry = rrlOverflow /\ SharedEntry' = rrlOverflow
        BY <1>1, <2>1, Zenon DEF SharedEntry
      <3>2. Paid(rrlOverflow) \in Nat
        BY PaidIs, Zenon DEF RrlInv
      <3> QED BY <3>1, <3>2
    <2>2. CASE ~rrlOverflowUsed
      <3>1. SharedEntry = RRL!New(clock) /\ SharedEntry' = RRL!New(clock')
        BY <1>1, <2>2, Zenon DEF SharedEntry, RRL!New
      <3>2. Paid(RRL!New(clock)) = Cap * Windows(clock) /\ Paid(RRL!New(clock')) = Cap * Windows(clock')
        BY <1>2, NewEntry, Zenon
      <3> QED BY <1>5, <3>1, <3>2, Zenon
    <2> QED BY <2>1, <2>2, Zenon
  <1>9. Remembered(entries_, idealEntries, clock')
    <2> SUFFICES ASSUME NEW x \in Fingerprints, x \notin DOMAIN entries_
                 PROVE  idealEntries[x].window_start \in Int /\ clock' - idealEntries[x].window_start >= window_
      BY Zenon DEF RrlInv, Remembered
    <2>1. idealEntries[x].window_start \in Int /\ clock - idealEntries[x].window_start >= window_
      BY Zenon DEF RrlInv, Remembered
    <2> QED BY <1>1, <1>2, <2>1, RrlConstants
  <1>10. /\ total <= Passed(entries_, clock) + Paid(SharedEntry) /\ total \in Nat
         /\ rrlOverflowUsed \in BOOLEAN /\ idealEntries = [x \in Fingerprints |-> idealEntries[x]]
    BY Zenon DEF RrlInv
  <1>11. total <= Passed(entries_, clock') + Paid(SharedEntry')
    BY <1>6, <1>7, <1>8, <1>10
  <1> QED BY <1>1, <1>2, <1>4, <1>9, <1>10, <1>11 DEF RrlInv

\* The entries that are left when a new fingerprint comes, expired ones forgotten if a
\* sweep is due, stand for as much, and say as much of every fingerprint.
LEMMA ExpiredForgotten ==
  ASSUME TableLaws, LimitsConstants, RrlInv, NEW g, g = Unforgotten(entries_, clock) \/ g = entries_
  PROVE  /\ DOMAIN g \subseteq DOMAIN entries_ /\ EntriesAt(g, clock)
         /\ Passed(g, clock) \in Nat
         /\ total <= Passed(g, clock) + Paid(SharedEntry)
         /\ Remembered(g, idealEntries, clock)
  <1>1. /\ clock \in Second..MaxClock /\ EntriesAt(entries_, clock) /\ total \in Nat
        /\ total <= Passed(entries_, clock) + Paid(SharedEntry)
        /\ Remembered(entries_, idealEntries, clock)
    BY Zenon DEF RrlInv
  <1>2. CASE g = entries_
    BY <1>1, <1>2, PaymentsRoom, WorthTyped, Zenon DEF Passed
  <1>3. CASE g = Unforgotten(entries_, clock)
    <2>1. /\ DOMAIN g \subseteq DOMAIN entries_ /\ EntriesAt(g, clock)
          /\ \A x \in DOMAIN g : g[x] = entries_[x]
          /\ \A x \in DOMAIN entries_ \ DOMAIN g : clock - entries_[x].window_start >= window_
          /\ Passed(entries_, clock) <= Passed(g, clock)
      BY <1>1, <1>3, PassedForgotten, Zenon
    <2>2. Passed(entries_, clock) \in Nat /\ Passed(g, clock) \in Nat /\ Paid(SharedEntry) \in Nat
      BY <1>1, <2>1, PaymentsRoom, WorthTyped, SharedEntryTyped, Zenon DEF Passed
    <2>3. total <= Passed(g, clock) + Paid(SharedEntry)
      BY <1>1, <2>1, <2>2
    <2>4. \A x \in DOMAIN entries_ : entries_[x].window_start \in Int
      <3> SUFFICES ASSUME NEW x \in DOMAIN entries_ PROVE entries_[x].window_start \in Int
        OBVIOUS
      <3>1. EntryAt(entries_[x], clock)
        BY <1>1, Zenon DEF EntriesAt
      <3> QED BY <3>1, RrlConstants DEF EntryAt
    <2>5. Remembered(g, idealEntries, clock)
      BY <1>1, <2>1, <2>4, Zenon DEF Remembered
    <2> QED BY <2>1, <2>2, <2>3, <2>5, Zenon
  <1> QED BY <1>2, <1>3, Zenon

\* The ideal entry of fingerprint x is counted in as its entry is.
LEMMA RememberedCounted ==
  ASSUME LimitsConstants, clock \in Second..MaxClock,
         NEW g, NEW h, NEW x \in Fingerprints, NEW e,
         e = IF x \in DOMAIN g THEN g[x] ELSE RRL!New(clock),
         h = RRL!With(g, x, CountedAt(e, clock)),
         Remembered(g, idealEntries, clock),
         idealEntries = [y \in Fingerprints |-> idealEntries[y]],
         idealEntries' = [idealEntries EXCEPT ![x] = CountedAt(idealEntries[x], clock)]
  PROVE  /\ idealEntries' = [y \in Fingerprints |-> idealEntries'[y]]
         /\ Remembered(h, idealEntries', clock)
  <1>1. /\ idealEntries' = [y \in Fingerprints |-> idealEntries'[y]]
        /\ idealEntries'[x] = CountedAt(idealEntries[x], clock)
        /\ \A y \in Fingerprints \ {x} : idealEntries'[y] = idealEntries[y]
    OBVIOUS
  <1>2. /\ DOMAIN h = DOMAIN g \cup {x} /\ h[x] = CountedAt(e, clock)
        /\ \A y \in DOMAIN g \ {x} : h[y] = g[y]
    BY DEF RRL!With
  <1>3. CountedAt(idealEntries[x], clock) = CountedAt(e, clock)
    <2>1. CASE x \in DOMAIN g
      BY <2>1, Zenon DEF Remembered
    <2>2. CASE x \notin DOMAIN g
      <3>1. CurrentAt(idealEntries[x], clock) = RRL!New(clock)
        BY <2>2, Zenon DEF Remembered, CurrentAt
      <3>2. CurrentAt(e, clock) = RRL!New(clock)
        BY <2>2, NewEntry, Zenon
      <3> QED BY <3>1, <3>2, Zenon DEF CountedAt
    <2> QED BY <2>1, <2>2, Zenon
  <1>4. Remembered(h, idealEntries', clock)
    BY <1>1, <1>2, <1>3, Zenon DEF Remembered
  <1> QED BY <1>1, <1>4, Zenon

\* A response is counted in the entry of its fingerprint.
LEMMA CheckTrackedKeeps ==
  ASSUME TableLaws, LimitsConstants, RrlInv, NEW x \in Fingerprints, RRL!CheckTracked(x), UNCHANGED clock
  PROVE  RrlInv'
  <1>1. PICK e, g :
          /\ e = entries_[x] /\ g = RRL!With(entries_, x, CountedAt(e, clock))
          /\ x \in DOMAIN entries_ /\ entries_' = g
          /\ idealEntries' = [idealEntries EXCEPT ![x] = CountedAt(idealEntries[x], clock)]
          /\ RRL!Total(e)
          /\ UNCHANGED <<rrlOverflow, rrlOverflowUsed, rrlLastSweep, clock>>
    BY RrlNow, Zenon DEF RRL!CheckTracked, RRL!CountsOwn
  <1>2. /\ clock \in Second..MaxClock /\ EntriesAt(entries_, clock) /\ EntryAt(rrlOverflow, clock)
        /\ rrlOverflowUsed \in BOOLEAN /\ rrlLastSweep \in 0..clock /\ total \in Nat
        /\ idealEntries = [y \in Fingerprints |-> idealEntries[y]]
        /\ Remembered(entries_, idealEntries, clock)
        /\ total <= Passed(entries_, clock) + Paid(SharedEntry)
    BY Zenon DEF RrlInv
  <1>3. /\ EntryAt(e, clock) /\ EntryAt(CountedAt(e, clock), clock) /\ total' \in Nat
        /\ total' + Paid(e) <= total + Paid(CountedAt(e, clock))
        /\ Paid(e) \in Nat /\ Paid(CountedAt(e, clock)) \in Nat
    BY <1>1, <1>2, CountPays, PaidIs, Zenon DEF EntriesAt
  <1>4. /\ EntriesAt(g, clock)
        /\ Passed(g, clock) = Passed(entries_, clock) - Paid(e) + Paid(CountedAt(e, clock))
    <2>1. /\ EntriesAt(g, clock)
          /\ Exchanged(Passed(entries_, clock), Passed(g, clock), Paid(e), Paid(CountedAt(e, clock)))
      BY <1>1, <1>2, <1>3, PassedChanged, Zenon
    <2> QED BY <2>1, Zenon DEF Exchanged
  <1>5. /\ idealEntries' = [y \in Fingerprints |-> idealEntries'[y]]
        /\ Remembered(g, idealEntries', clock)
    BY <1>1, <1>2, RememberedCounted, Zenon
  <1>6. SharedEntry' = SharedEntry
    BY <1>1, Zenon DEF SharedEntry, RRL!New
  <1>7. total' <= Passed(g, clock) + Paid(SharedEntry)
    <2>1. Passed(entries_, clock) \in Nat /\ Paid(SharedEntry) \in Nat
      BY <1>2, PaymentsRoom, WorthTyped, SharedEntryTyped, Zenon DEF Passed
    <2> QED BY <1>2, <1>3, <1>4, <2>1
  <1> QED BY <1>1, <1>2, <1>3, <1>4, <1>5, <1>6, <1>7 DEF RrlInv

\* A new fingerprint finds room, and a new entry, or is counted in the shared one.
LEMMA CheckNewKeeps ==
  ASSUME TableLaws, LimitsConstants, RrlInv, NEW x \in Fingerprints, RRL!CheckNew(x), UNCHANGED clock
  PROVE  RrlInv'
  <1>1. PICK g, e :
          /\ g = Unforgotten(entries_, clock) \/ g = entries_
          /\ e = IF Cardinality(DOMAIN g) >= max_entries THEN SharedEntry ELSE RRL!New(clock)
          /\ x \notin DOMAIN entries_ /\ RRL!Total(e)
          /\ rrlLastSweep' = clock \/ rrlLastSweep' = rrlLastSweep
          /\ IF Cardinality(DOMAIN g) >= max_entries
               THEN /\ entries_' = g /\ idealEntries' = idealEntries
                    /\ rrlOverflow' = CountedAt(e, clock) /\ rrlOverflowUsed' = TRUE
               ELSE /\ entries_' = RRL!With(g, x, CountedAt(e, clock))
                    /\ idealEntries' = [idealEntries EXCEPT ![x] = CountedAt(idealEntries[x], clock)]
                    /\ UNCHANGED <<rrlOverflow, rrlOverflowUsed>>
    <2>1. RRL!forget_expired(entries_) = Unforgotten(entries_, clock)
      BY RrlNow, Zenon DEF RRL!forget_expired, Unforgotten
    <2>2. PICK g : /\ g = IF RRL!SweepDue THEN Unforgotten(entries_, clock) ELSE entries_
                   /\ x \notin DOMAIN entries_
                   /\ rrlLastSweep' = IF RRL!SweepDue THEN clock ELSE rrlLastSweep
                   /\ IF Cardinality(DOMAIN g) >= max_entries
                        THEN /\ entries_' = g
                             /\ rrlOverflow' = CountedAt(SharedEntry, clock) /\ rrlOverflowUsed' = TRUE
                             /\ RRL!Total(SharedEntry)
                             /\ UNCHANGED idealEntries
                        ELSE /\ entries_' = RRL!With(g, x, CountedAt(RRL!New(clock), clock))
                             /\ idealEntries' = [idealEntries EXCEPT ![x] = CountedAt(idealEntries[x], clock)]
                             /\ RRL!Total(RRL!New(clock))
                             /\ UNCHANGED <<rrlOverflow, rrlOverflowUsed>>
      BY <2>1, RrlNow, Zenon DEF RRL!CheckNew, RRL!Kept, RRL!CountsOwn
    <2>3. CASE Cardinality(DOMAIN g) >= max_entries
      BY <2>2, <2>3, Zenon
    <2>4. CASE ~(Cardinality(DOMAIN g) >= max_entries)
      BY <2>2, <2>4, Zenon
    <2> QED BY <2>3, <2>4, Zenon
  <1>2. /\ clock \in Second..MaxClock /\ clock' = clock /\ rrlLastSweep' \in 0..clock
        /\ EntryAt(rrlOverflow, clock) /\ rrlOverflowUsed \in BOOLEAN /\ total \in Nat
        /\ idealEntries = [y \in Fingerprints |-> idealEntries[y]]
    BY <1>1, RrlConstants DEF RrlInv
  <1>3. /\ DOMAIN g \subseteq DOMAIN entries_ /\ EntriesAt(g, clock) /\ Passed(g, clock) \in Nat
        /\ total <= Passed(g, clock) + Paid(SharedEntry)
        /\ Remembered(g, idealEntries, clock)
    BY <1>1, ExpiredForgotten, Zenon
  <1>4. /\ EntryAt(SharedEntry, clock) /\ Paid(SharedEntry) \in Nat /\ EntryAt(e, clock)
        /\ Paid(RRL!New(clock)) = Cap * Windows(clock)
    BY <1>1, <1>2, SharedEntryTyped, NewEntry, Zenon
  <1>5. /\ EntryAt(CountedAt(e, clock), clock) /\ total' \in Nat
        /\ total' + Paid(e) <= total + Paid(CountedAt(e, clock))
        /\ Paid(e) \in Nat /\ Paid(CountedAt(e, clock)) \in Nat
    BY <1>1, <1>2, <1>4, CountPays, PaidIs, Zenon
  <1>6. CASE Cardinality(DOMAIN g) >= max_entries
    <2>1. /\ e = SharedEntry /\ entries_' = g /\ idealEntries' = idealEntries
          /\ rrlOverflow' = CountedAt(e, clock) /\ rrlOverflowUsed' = TRUE /\ rrlOverflowUsed' \in BOOLEAN
      BY <1>1, <1>6, Zenon
    <2>2. SharedEntry' = CountedAt(e, clock)
      BY <2>1, Zenon DEF SharedEntry
    <2>3. total' <= Passed(g, clock) + Paid(CountedAt(e, clock))
      BY <1>2, <1>3, <1>5, <2>1
    <2> QED BY <1>2, <1>3, <1>5, <2>1, <2>2, <2>3 DEF RrlInv
  <1>7. CASE ~(Cardinality(DOMAIN g) >= max_entries)
    <2>1. PICK h : /\ h = RRL!With(g, x, CountedAt(e, clock))
                   /\ e = RRL!New(clock) /\ entries_' = h
                   /\ idealEntries' = [idealEntries EXCEPT ![x] = CountedAt(idealEntries[x], clock)]
                   /\ UNCHANGED <<rrlOverflow, rrlOverflowUsed>>
      BY <1>1, <1>7, Zenon
    <2>2. x \notin DOMAIN g /\ Cardinality(DOMAIN g) < max_entries
      <3>1. Cardinality(DOMAIN g) \in Nat /\ max_entries \in Nat
        BY <1>2, <1>3, PaymentsRoom, WorthTyped, RrlConstants, Zenon
      <3>2. Cardinality(DOMAIN g) < max_entries
        BY <1>7, <3>1
      <3> QED BY <1>1, <1>3, <3>2, Zenon
    <2>3. /\ EntriesAt(h, clock)
          /\ Passed(h, clock) = Passed(g, clock) - Paid(e) + Paid(CountedAt(e, clock))
      <3>1. EntriesAt(h, clock) /\ Exchanged(Passed(g, clock), Passed(h, clock), Paid(e), Paid(CountedAt(e, clock)))
        BY <1>2, <1>3, <1>5, <2>1, <2>2, PassedNew, Zenon
      <3> QED BY <3>1, Zenon DEF Exchanged
    <2>4. /\ idealEntries' = [y \in Fingerprints |-> idealEntries'[y]]
          /\ Remembered(h, idealEntries', clock)
      BY <1>2, <1>3, <2>1, <2>2, RememberedCounted, Zenon
    <2>5. SharedEntry' = SharedEntry
      BY <1>2, <2>1, Zenon DEF SharedEntry, RRL!New
    <2>6. total' <= Passed(h, clock) + Paid(SharedEntry)
      BY <1>2, <1>3, <1>4, <1>5, <2>1, <2>3
    <2> QED BY <1>2, <1>5, <2>1, <2>3, <2>4, <2>5, <2>6 DEF RrlInv
  <1> QED BY <1>6, <1>7, Zenon

----------------------------------------------------------------------------
(* What a sweep of RRL's table leaves *)

\* No window in the table had ended when it was last swept.
RrlSwept == \A y \in DOMAIN entries_ : rrlLastSweep - entries_[y].window_start < window_

\* The window a response has just been counted in began after any sweep it outlived.
LEMMA CountedOpen ==
  ASSUME LimitsConstants, NEW e, NEW t, EntryAt(e, t), NEW s \in 0..t, s - e.window_start < window_
  PROVE  s - CountedAt(e, t).window_start < window_
  <1>1. e.window_start \in Int /\ t \in Int
    BY RrlConstants DEF EntryAt
  <1>2. CountedAt(e, t).window_start = CurrentAt(e, t).window_start
    BY CurrentIs DEF EntryAt, RRL!Entry, CountedAt, OneMore
  <1>3. CurrentAt(e, t).window_start = t \/ CurrentAt(e, t) = e
    BY DEF CurrentAt, RRL!New
  <1> QED BY <1>1, <1>2, <1>3, RrlConstants

\* The windows a new fingerprint meets in the table had not ended at the last sweep.
LEMMA KeptOpen ==
  ASSUME LimitsConstants, RrlInv, RrlSwept,
         NEW s, s = IF RRL!SweepDue THEN clock ELSE rrlLastSweep,
         NEW y \in DOMAIN RRL!Kept
  PROVE  RRL!Kept[y].window_start \in Int /\ s - RRL!Kept[y].window_start < window_
  <1>1. ASSUME NEW z \in DOMAIN entries_ PROVE entries_[z].window_start \in Int
    <2>1. EntryAt(entries_[z], clock)
      BY Zenon DEF RrlInv, EntriesAt
    <2> QED BY <2>1, RrlConstants DEF EntryAt
  <1>2. CASE RRL!SweepDue
    <2>1. RRL!Kept = RRL!forget_expired(entries_) /\ s = clock
      BY <1>2, Zenon DEF RRL!Kept
    <2>2. /\ y \in DOMAIN entries_ /\ RRL!Kept[y] = entries_[y]
          /\ ~(clock - entries_[y].window_start >= window_)
      BY <2>1, RrlNow, Zenon DEF RRL!forget_expired
    <2>3. clock - entries_[y].window_start < window_
      BY <1>1, <2>2, RrlConstants DEF RrlInv
    <2> QED BY <1>1, <2>1, <2>2, <2>3, Zenon
  <1>3. CASE ~RRL!SweepDue
    <2>1. RRL!Kept = entries_ /\ s = rrlLastSweep
      BY <1>3, Zenon DEF RRL!Kept
    <2> QED BY <1>1, <2>1, Zenon DEF RrlSwept
  <1> QED BY <1>2, <1>3, Zenon

\* check() leaves no window in the table that had ended at the last sweep.
LEMMA CheckSweeps ==
  ASSUME LimitsConstants, RrlInv, RrlSwept, NEW x \in Fingerprints, RRL!check(x), UNCHANGED clock
  PROVE  RrlSwept'
  <1>1. clock \in Second..MaxClock /\ clock \in 0..clock /\ rrlLastSweep \in 0..clock
    BY RrlConstants DEF RrlInv
  <1>2. CASE RRL!CheckTracked(x)
    <2>1. /\ x \in DOMAIN entries_ /\ rrlLastSweep' = rrlLastSweep
          /\ entries_' = RRL!With(entries_, x, CountedAt(entries_[x], clock))
      BY <1>2, RrlNow, Zenon DEF RRL!CheckTracked
    <2>2. rrlLastSweep - CountedAt(entries_[x], clock).window_start < window_
      BY <1>1, <2>1, CountedOpen, Zenon DEF RrlInv, EntriesAt, RrlSwept
    <2> SUFFICES ASSUME NEW y \in DOMAIN entries_'
                 PROVE  rrlLastSweep - entries_'[y].window_start < window_
      BY <2>1, Zenon DEF RrlSwept
    <2> QED BY <2>1, <2>2, Zenon DEF RRL!With, RrlSwept
  <1>3. CASE RRL!CheckNew(x)
    <2>1. PICK s : s = IF RRL!SweepDue THEN clock ELSE rrlLastSweep
      OBVIOUS
    <2>2. /\ rrlLastSweep' = s /\ s \in 0..clock
          /\ \/ entries_' = RRL!Kept
             \/ entries_' = RRL!With(RRL!Kept, x, CountedAt(RRL!New(clock), clock))
      BY <1>1, <1>3, <2>1, RrlNow, Zenon DEF RRL!CheckNew
    <2>3. s - CountedAt(RRL!New(clock), clock).window_start < window_
      <3>1. EntryAt(RRL!New(clock), clock)
        BY <1>1, NewEntry, Zenon
      <3>2. s - RRL!New(clock).window_start < window_
        BY <1>1, <2>2, RrlConstants DEF RRL!New
      <3> QED BY <2>2, <3>1, <3>2, CountedOpen, Zenon
    <2>4. \A y \in DOMAIN RRL!Kept : s - RRL!Kept[y].window_start < window_
      BY <2>1, KeptOpen, Zenon
    <2> SUFFICES ASSUME NEW y \in DOMAIN entries_' PROVE s - entries_'[y].window_start < window_
      BY <2>2, Zenon DEF RrlSwept
    <2>5. CASE entries_' = RRL!Kept
      BY <2>4, <2>5, Zenon
    <2>6. CASE entries_' = RRL!With(RRL!Kept, x, CountedAt(RRL!New(clock), clock))
      <3>1. /\ y \in DOMAIN RRL!Kept \cup {x}
            /\ entries_'[y] = IF y = x THEN CountedAt(RRL!New(clock), clock) ELSE RRL!Kept[y]
        BY <2>6, Zenon DEF RRL!With
      <3> QED BY <2>3, <2>4, <3>1, Zenon
    <2> QED BY <2>2, <2>5, <2>6, Zenon
  <1> QED BY <1>2, <1>3, Zenon DEF RRL!check

\* A response counted in the shared entry has no window of its own, and shares because
\* a table swept less than a second ago is full; any other meets the same verdict.
LEMMA RrlRemembers ==
  ASSUME LimitsConstants, RrlInv, RrlSwept
  PROVE  RRL!NothingForgotten
  <1>1. clock \in Int /\ rrlLastSweep \in Int /\ Second \in Nat /\ clock \in Second..MaxClock /\ window_ \in Int
    BY RrlConstants DEF RrlInv
  <1>2. ASSUME NEW x \in Fingerprints, x \notin DOMAIN entries_
        PROVE  RRL!Expired(idealEntries[x]) /\ RRL!verdict(idealEntries[x]) = RRL!verdict(RRL!New(clock))
    <2>1. clock - idealEntries[x].window_start >= window_
      BY <1>2, Zenon DEF RrlInv, Remembered
    <2>2. CurrentAt(idealEntries[x], clock) = RRL!New(clock)
      BY <2>1, Zenon DEF CurrentAt
    <2>3. CurrentAt(RRL!New(clock), clock) = RRL!New(clock)
      BY <1>1, NewEntry, Zenon
    <2>4. CountedAt(idealEntries[x], clock) = CountedAt(RRL!New(clock), clock)
      BY <2>2, <2>3, Zenon DEF CountedAt
    <2> QED BY <2>1, <2>2, <2>3, <2>4, RrlNow, Zenon
  <1>3. ASSUME NEW x \in Fingerprints, ~RRL!Shares(x)
        PROVE  RRL!verdict(idealEntries[x]) = RRL!verdict(RRL!Own(x))
    BY <1>2, Zenon DEF RrlInv, Remembered, RRL!Own
  <1>4. ASSUME NEW x \in Fingerprints, RRL!Shares(x) PROVE RRL!Crowded
    <2>1. PICK s : s = IF RRL!SweepDue THEN clock ELSE rrlLastSweep
      OBVIOUS
    <2>2. s \in Int /\ clock - Second <= s
      <3>1. CASE RRL!SweepDue
        BY <1>1, <2>1, <3>1
      <3>2. CASE ~RRL!SweepDue
        <4>1. RRL!TableFull(entries_)
          BY <1>4, <3>2, Zenon DEF RRL!Shares, RRL!Kept
        <4>2. ~(clock - rrlLastSweep >= Second)
          BY <3>2, <4>1, Zenon DEF RRL!SweepDue
        <4> QED BY <1>1, <2>1, <3>2, <4>2
      <3> QED BY <3>1, <3>2, Zenon
    <2> SUFFICES ASSUME NEW y \in DOMAIN RRL!Kept PROVE clock - Second - RRL!Kept[y].window_start < window_
      BY Zenon DEF RRL!Crowded
    <2>3. RRL!Kept[y].window_start \in Int /\ s - RRL!Kept[y].window_start < window_
      BY <2>1, KeptOpen, Zenon
    <2> QED BY <1>1, <2>2, <2>3
  <1>5. ASSUME NEW x \in Fingerprints, RRL!Shares(x) PROVE RRL!Expired(idealEntries[x])
    BY <1>2, <1>5, Zenon DEF RRL!Shares
  <1> QED BY <1>3, <1>4, <1>5, Zenon DEF RRL!NothingForgotten

----------------------------------------------------------------------------
(* The two limits, as queries are handled *)

LimitsInv == LimiterInv /\ RrlInv /\ LimiterSwept /\ RrlSwept

\* The invariants hold whatever is not touched.
LEMMA LimitsUntouched ==
  /\ LimiterInv /\ UNCHANGED <<clock, limiter>> => LimiterInv'
  /\ RrlInv /\ UNCHANGED <<clock, rrl>> => RrlInv'
  /\ LimiterSwept /\ UNCHANGED limiter => LimiterSwept'
  /\ RrlSwept /\ UNCHANGED rrl => RrlSwept'
  <1>1. ASSUME LimiterInv, UNCHANGED <<clock, limiter>> PROVE LimiterInv'
    <2>1. /\ clock' = clock /\ buckets_' = buckets_ /\ overflow_' = overflow_ /\ overflow_used_' = overflow_used_
          /\ last_sweep_' = last_sweep_ /\ idealBuckets' = idealBuckets /\ granted' = granted
      BY <1>1, Zenon DEF limiter
    <2>2. SharedBucket' = SharedBucket
      BY <2>1, Zenon DEF SharedBucket, Limiter!Full
    <2> QED BY <1>1, <2>1, <2>2, Zenon DEF LimiterInv
  <1>2. ASSUME RrlInv, UNCHANGED <<clock, rrl>> PROVE RrlInv'
    <2>1. /\ clock' = clock /\ entries_' = entries_ /\ rrlOverflow' = rrlOverflow /\ rrlOverflowUsed' = rrlOverflowUsed
          /\ rrlLastSweep' = rrlLastSweep /\ idealEntries' = idealEntries /\ total' = total
      BY <1>2, Zenon DEF rrl
    <2>2. SharedEntry' = SharedEntry
      BY <2>1, Zenon DEF SharedEntry, RRL!New
    <2> QED BY <1>2, <2>1, <2>2, Zenon DEF RrlInv
  <1>3. LimiterSwept /\ UNCHANGED limiter => LimiterSwept'
    BY Zenon DEF limiter, LimiterSwept
  <1>4. RrlSwept /\ UNCHANGED rrl => RrlSwept'
    BY Zenon DEF rrl, RrlSwept
  <1> QED BY <1>1, <1>2, <1>3, <1>4, Zenon

\* A query that comes, an answer that goes out, a tick: both invariants are kept.
LEMMA LimitsStep ==
  ASSUME TableLaws, LimitsConstants, LimitsInv, [LimitsNext]_limitsVars
  PROVE  LimitsInv'
  <1>1. LimiterInv /\ RrlInv /\ LimiterSwept /\ RrlSwept
    BY Zenon DEF LimitsInv
  <1>2. ASSUME NEW x \in Fingerprints, RRL!check(x), UNCHANGED clock PROVE RrlInv' /\ RrlSwept'
    BY <1>1, <1>2, CheckTrackedKeeps, CheckNewKeeps, CheckSweeps, Zenon DEF RRL!check
  <1>3. ASSUME NEW c \in Clients, handle(c) PROVE LimitsInv'
    <2>1. Limiter!allow(c) /\ UNCHANGED clock /\ (UNCHANGED rrl \/ RRL!check(<<c, "REFUSED">>))
      BY <1>3, Zenon DEF handle, Refuse
    <2>2. LimiterInv' /\ LimiterSwept'
      BY <1>1, <2>1, AllowTrackedKeeps, AllowNewKeeps, AllowSweeps, Zenon DEF Limiter!allow
    <2>3. RrlInv' /\ RrlSwept'
      <3>1. <<c, "REFUSED">> \in Fingerprints
        BY DEF Fingerprints
      <3>2. UNCHANGED rrl => UNCHANGED <<clock, rrl>>
        BY <2>1, Zenon
      <3> QED BY <1>1, <1>2, <2>1, <3>1, <3>2, LimitsUntouched, Zenon
    <2> QED BY <2>2, <2>3, Zenon DEF LimitsInv
  <1>4. ASSUME NEW c \in Clients, Answer(c) PROVE LimitsInv'
    <2>1. /\ RRL!check(<<c, "answer">>)
          /\ UNCHANGED <<clock, limiter>> /\ UNCHANGED limiter /\ UNCHANGED clock
      BY <1>4, Zenon DEF Answer
    <2>2. <<c, "answer">> \in Fingerprints
      BY DEF Fingerprints
    <2> QED BY <1>1, <1>2, <2>1, <2>2, LimitsUntouched, Zenon DEF LimitsInv
  <1>5. ASSUME ClockTicks PROVE LimitsInv'
    <2>1. UNCHANGED limiter /\ UNCHANGED rrl
      BY <1>5, Zenon DEF ClockTicks
    <2> QED BY <1>1, <1>5, <2>1, LimiterTicks, RrlTicks, LimitsUntouched, Zenon DEF LimitsInv
  <1>6. ASSUME UNCHANGED limitsVars PROVE LimitsInv'
    <2>1. UNCHANGED <<clock, limiter>> /\ UNCHANGED <<clock, rrl>> /\ UNCHANGED limiter /\ UNCHANGED rrl
      BY <1>6, Zenon DEF limitsVars
    <2> QED BY <1>1, <2>1, LimitsUntouched, Zenon DEF LimitsInv
  <1> QED BY <1>3, <1>4, <1>5, <1>6, Zenon DEF LimitsNext

\* What the invariants say of the limits.
LEMMA LimitsInvImplies ==
  ASSUME TableLaws, LimitsConstants, LimitsInv
  PROVE  ForgettingInvisible /\ FloodBounded
  BY LimiterInvImplies, LimiterRemembers, RrlInvImplies, RrlRemembers, Zenon
  DEF LimitsInv, ForgettingInvisible, FloodBounded

\* The invariant of the limits is one, and says what is to be shown of them.
LEMMA LimitsKept ==
  ASSUME FiniteFacts, LimitsConstants
  PROVE  /\ LimitsInit => LimitsInv
         /\ LimitsInv /\ [LimitsNext]_limitsVars => LimitsInv'
         /\ LimitsInv => ForgettingInvisible /\ FloodBounded
  <1>1. TableLaws
    BY TableLawsHold, Zenon
  <1>2. LimitsInit => LimiterSwept /\ RrlSwept
    BY Zenon DEF LimitsInit, Limiter!Init, RRL!Init, LimiterSwept, RrlSwept
  <1> QED BY <1>1, <1>2, LimiterInitial, RrlInitial, LimitsStep, LimitsInvImplies, Zenon DEF LimitsInv

----------------------------------------------------------------------------
(* The facts about finite sets *)

INSTANCE FiniteSetTheorems

\* The facts the lemmas above assume.
LEMMA FiniteFactsHold == FiniteFacts
  <1>1. \A S : IsFiniteSet(S) => Cardinality(S) \in Nat
    BY FS_CardinalityType, Zenon
  <1>2. IsFiniteSet({}) /\ Cardinality({}) = 0
    BY FS_EmptySet, Zenon
  <1>3. \A S, x : IsFiniteSet(S) /\ x \notin S =>
          IsFiniteSet(S \cup {x}) /\ Cardinality(S \cup {x}) = Cardinality(S) + 1
    BY FS_AddElement, Zenon
  <1>4. \A S, T : IsFiniteSet(S) /\ T \subseteq S => IsFiniteSet(T) /\ Cardinality(T) <= Cardinality(S)
    BY FS_Subset, Zenon
  <1>5. \A S, T : IsFiniteSet(S) /\ IsFiniteSet(T) =>
          /\ IsFiniteSet(S \cup T)
          /\ Cardinality(S \cup T) = Cardinality(S) + Cardinality(T) - Cardinality(S \cap T)
    BY FS_Union, Zenon
  <1>6. \A S, T : IsFiniteSet(S) /\ IsFiniteSet(T) =>
          IsFiniteSet(S \X T) /\ Cardinality(S \X T) = Cardinality(S) * Cardinality(T)
    BY FS_Product, Zenon
  <1>7. ASSUME NEW n \in Nat PROVE IsFiniteSet(1..n) /\ Cardinality(1..n) = n
    <2>1. IsFiniteSet(1..n) /\ Cardinality(1..n) = IF 1 > n THEN 0 ELSE n - 1 + 1
      BY FS_Interval
    <2> QED BY <2>1
  <1>8. ASSUME NEW S, NEW T, NEW f, IsFiniteSet(T),
               \A p \in S : f[p] \in T, \A p, q \in S : f[p] = f[q] => p = q
        PROVE  IsFiniteSet(S) /\ Cardinality(S) <= Cardinality(T)
    <2>1. [p \in S |-> f[p]] \in Injection(S, T)
      BY <1>8 DEF Injection, IsInjective
    <2> QED BY <1>8, <2>1, FS_Injection, Zenon
  <1>9. ASSUME NEW D, NEW u, Sizeable(D, u) PROVE IsFiniteSet(Units(D, u))
    <2> DEFINE S == {{d} \X (1..u[d]) : d \in D}
               f == [d \in D |-> {d} \X (1..u[d])]
    <2>1. f \in Surjection(D, S)
      BY Zenon DEF Surjection
    <2>2. IsFiniteSet(S)
      BY <1>9, <2>1, FS_Surjection, Zenon DEF Sizeable
    <2>3. ASSUME NEW T \in S PROVE IsFiniteSet(T)
      <3>1. PICK d \in D : T = {d} \X (1..u[d])
        OBVIOUS
      <3>2. IsFiniteSet({d}) /\ IsFiniteSet(1..u[d])
        BY <1>7, <1>9, FS_Singleton, Zenon DEF Sizeable
      <3> QED BY <3>1, <3>2, FS_Product, Zenon
    <2> HIDE DEF S
    <2>4. IsFiniteSet(UNION S)
      BY <2>2, <2>3, FS_UNION, Zenon
    <2> QED BY <2>4, Zenon DEF S, Units
  <1> QED BY <1>1, <1>2, <1>3, <1>4, <1>5, <1>6, <1>7, <1>8, <1>9, Zenon DEF FiniteFacts

----------------------------------------------------------------------------
(* The theorems *)

\* Whatever the limits, the sizes of the tables and the clients: an entry of one's own
\* that allow() or check() decides by is as good as one that was never swept from its
\* table.  The shared entry, by which they may decide otherwise, is only for those
\* without an account to settle, while the table is full of others that had one a
\* second ago.
THEOREM LimitsForgettingInvisible == LimitsSpec => []ForgettingInvisible
  <1>1. /\ LimitsInit => LimitsInv
        /\ LimitsInv /\ [LimitsNext]_limitsVars => LimitsInv'
        /\ LimitsInv => ForgettingInvisible
    BY LimitsAssumption, FiniteFactsHold, LimitsKept, Zenon
  <1> QED BY <1>1, PTL DEF LimitsSpec

\* And a flood gets no more, from however many addresses, than full tables and one
\* client more could: what the overflow bucket and the overflow entry are for.
THEOREM LimitsFloodBounded == LimitsSpec => []FloodBounded
  <1>1. /\ LimitsInit => LimitsInv
        /\ LimitsInv /\ [LimitsNext]_limitsVars => LimitsInv'
        /\ LimitsInv => FloodBounded
    BY LimitsAssumption, FiniteFactsHold, LimitsKept, Zenon
  <1> QED BY <1>1, PTL DEF LimitsSpec
=============================================================================
