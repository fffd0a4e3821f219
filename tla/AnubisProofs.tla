---------------------------- MODULE AnubisProofs ----------------------------
(***************************************************************************)
(* What holds of the Anubis engine for every set of symbols, every chain,  *)
(* every capacity and number of workers, and any number of ends of the     *)
(* process.                                                                *)
(***************************************************************************)
EXTENDS Anubis, SumProofs, SequenceTheorems

-----------------------------------------------------------------------------
(* What FlattenSeq returns: the recursive function it defines exists, and  *)
(* so a sequence of sequences can be flattened in two parts.               *)

FlatStep(ss, f, i) == IF i = 1 THEN ss[i] ELSE f[i - 1] \o ss[i]

IsFlat(ss, n, f) == f = [i \in 1..n |-> FlatStep(ss, f, i)]

LEMMA FlatExists ==
  ASSUME NEW ss, NEW n \in Nat
  PROVE  \E f : IsFlat(ss, n, f)
<1> USE DEF IsFlat
<1> DEFINE Has(m) == \E f : f = [i \in 1..m |-> FlatStep(ss, f, i)]
           T == {m \in Nat : ~Has(m)}
<1>1. SUFFICES ASSUME T # {} PROVE FALSE
  OBVIOUS
<1>2. PICK m \in T : \A k \in T : m <= k
  <2> HIDE DEF Has
  <2>1. T \in SUBSET Nat
    OBVIOUS
  <2> HIDE DEF T
  <2>2. QED
    BY <1>1, <2>1, LeastNumber
<1>3. m \in Nat /\ ~Has(m)
  OBVIOUS
<1>4. CASE m = 0
  <2> DEFINE f == [i \in 1..0 |-> {}]
  <2>1. f = [i \in 1..0 |-> FlatStep(ss, f, i)]
    OBVIOUS
  <2> HIDE DEF f
  <2>2. Has(0)
    BY <2>1
  <2>3. QED
    BY <1>3, <1>4, <2>2
<1>5. CASE m # 0
  <2>1. m - 1 \in Nat /\ m - 1 < m /\ 1..m = (1..(m - 1)) \cup {m}
    BY <1>3, <1>5
  <2>2. Has(m - 1)
    <3> HIDE DEF Has
    <3>1. QED
      BY <1>2, <1>3, <2>1
  <2>3. PICK g : g = [i \in 1..(m - 1) |-> FlatStep(ss, g, i)]
    BY <2>2
  <2> DEFINE f == [i \in 1..m |-> IF i = m THEN FlatStep(ss, g, m) ELSE g[i]]
  <2>4. \A i \in 1..m : f[i] = FlatStep(ss, f, i)
    <3>1. SUFFICES ASSUME NEW i \in 1..m PROVE f[i] = FlatStep(ss, f, i)
      OBVIOUS
    <3>2. f[i] = FlatStep(ss, g, i)
      BY <1>3, <2>3
    <3>3. i # 1 => f[i - 1] = g[i - 1]
      BY <1>3
    <3> HIDE DEF f
    <3>4. QED
      BY <3>2, <3>3 DEF FlatStep
  <2>5. f = [i \in 1..m |-> f[i]]
    OBVIOUS
  <2> HIDE DEF f
  <2>6. f = [i \in 1..m |-> FlatStep(ss, f, i)]
    BY <2>4, <2>5
  <2>7. Has(m)
    BY <2>6
  <2>8. QED
    BY <1>3, <2>7
<1>6. QED
  BY <1>4, <1>5

LEMMA FlatAt ==
  ASSUME NEW ss, NEW n \in Nat, NEW f, IsFlat(ss, n, f), NEW i \in 1..n
  PROVE  f[i] = FlatStep(ss, f, i)
BY DEF IsFlat

LEMMA FlatAfter ==
  ASSUME NEW ss, NEW n \in Nat, NEW f, IsFlat(ss, n, f), NEW k \in Nat \ {0}, n = k + 1
  PROVE  f[n] = f[k] \o ss[n]
<1>1. n \in 1..n /\ n # 1 /\ n - 1 = k
  OBVIOUS
<1>2. f[n] = FlatStep(ss, f, n)
  BY <1>1, FlatAt
<1>3. QED
  BY <1>1, <1>2 DEF FlatStep

Agree(f, g, n) == \A i \in 1..n : f[i] = g[i]

LEMMA FlatAgrees ==
  ASSUME NEW ss, NEW rr, NEW n \in Nat, NEW m \in Nat, m <= n,
         NEW f, IsFlat(ss, n, f), NEW g, IsFlat(rr, m, g), Agree(ss, rr, m)
  PROVE  Agree(f, g, m)
<1> DEFINE T == {i \in 1..m : f[i] # g[i]}
<1>1. SUFFICES ASSUME T # {} PROVE FALSE
  BY DEF Agree
<1>2. PICK i \in T : \A k \in T : i <= k
  <2>1. T \in SUBSET Nat
    OBVIOUS
  <2> HIDE DEF T
  <2>2. QED
    BY <1>1, <2>1, LeastNumber
<1>3. i \in 1..m /\ i \in 1..n /\ f[i] # g[i]
  OBVIOUS
<1>4. f[i] = FlatStep(ss, f, i) /\ g[i] = FlatStep(rr, g, i)
  BY <1>3, FlatAt
<1>5. i # 1 => f[i - 1] = g[i - 1]
  <2>1. SUFFICES ASSUME i # 1 PROVE i - 1 \in 1..m /\ i - 1 \notin T
    OBVIOUS
  <2>2. i - 1 \in 1..m /\ ~(i <= i - 1)
    BY <1>3, <2>1
  <2> HIDE DEF T
  <2>3. QED
    BY <1>2, <2>2
<1>6. QED
  BY <1>3, <1>4, <1>5 DEF FlatStep, Agree

LEMMA FlattenIs ==
  ASSUME NEW ss, NEW n \in Nat \ {0}, Len(ss) = n,
         NEW f, IsFlat(ss, n, f)
  PROVE  FlattenSeq(ss) = f[n]
<1> DEFINE g == CHOOSE g : g = [i \in 1..n |-> FlatStep(ss, g, i)]
<1>1. IsFlat(ss, n, g)
  BY FlatExists DEF IsFlat
<1>2. FlattenSeq(ss) = g[n]
  BY DEF FlattenSeq, FlatStep
<1> HIDE DEF g
<1>3. Agree(f, g, n)
  <2>1. n \in Nat /\ n <= n /\ Agree(ss, ss, n)
    BY DEF Agree
  <2>2. QED
    BY <1>1, <2>1, FlatAgrees
<1>4. QED
  BY <1>2, <1>3 DEF Agree

(* The sequence of the first n of D, flattened.                            *)
Flat(D, n) == FlattenSeq([i \in 1..n |-> D[i]])

LEMMA FlatNone ==
  ASSUME NEW D
  PROVE  Flat(D, 0) = <<>>
<1> DEFINE e == [i \in 1..0 |-> D[i]]
<1>1. e = <<>>
  OBVIOUS
<1>2. Len(e) = 0
  BY <1>1
<1> HIDE DEF e
<1>3. FlattenSeq(e) = e
  BY <1>2 DEF FlattenSeq
<1>4. QED
  BY <1>1, <1>3 DEF Flat, e

LEMMA FunctionIsSeq ==
  ASSUME NEW S, NEW n \in Nat, NEW f \in [1..n -> S]
  PROVE  f \in Seq(S) /\ Len(f) = n
<1>1. f \in Seq(S)
  BY SeqDef
<1>2. Len(f) \in Nat /\ 1..Len(f) = 1..n
  BY <1>1, LenProperties
<1>3. Len(f) = n
  BY <1>2
<1>4. QED
  BY <1>1, <1>3

LEMMA FlatNext ==
  ASSUME NEW X, NEW n \in Nat, NEW D, \A i \in 1..(n + 1) : D[i] \in Seq(X)
  PROVE  Flat(D, n + 1) = Flat(D, n) \o D[n + 1]
<1> DEFINE long == [i \in 1..(n + 1) |-> D[i]]
           part == [i \in 1..n |-> D[i]]
<1>1. /\ Len(long) = n + 1 /\ Len(part) = n
      /\ \A i \in 1..n : long[i] = part[i]
      /\ long[n + 1] = D[n + 1]
  <2>1. long \in [1..(n + 1) -> Seq(X)] /\ part \in [1..n -> Seq(X)]
    OBVIOUS
  <2>2. n + 1 \in Nat /\ n + 1 \in 1..(n + 1) /\ \A i \in 1..n : i \in 1..(n + 1)
    OBVIOUS
  <2>3. long[n + 1] = D[n + 1] /\ \A i \in 1..n : long[i] = part[i]
    BY <2>2
  <2> HIDE DEF long, part
  <2>4. QED
    BY <2>1, <2>2, <2>3, FunctionIsSeq
<1> HIDE DEF long, part
<1>2. PICK f : IsFlat(long, n + 1, f)
  <2>1. n + 1 \in Nat
    OBVIOUS
  <2>2. QED
    BY <2>1, FlatExists
<1>3. PICK g : IsFlat(part, n, g)
  BY FlatExists
<1>4. Flat(D, n + 1) = f[n + 1]
  <2>1. n + 1 \in Nat \ {0}
    OBVIOUS
  <2>2. QED
    BY <1>1, <1>2, <2>1, FlattenIs DEF Flat, long
<1>5. n # 0 => f[n + 1] = f[n] \o long[n + 1]
  <2>1. n + 1 \in Nat
    OBVIOUS
  <2>2. QED
    BY <1>2, <2>1, FlatAfter
<1>6. CASE n = 0
  <2>1. Flat(D, 1) = D[1]
    <3>1. 1 \in 1..(0 + 1) /\ 0 + 1 \in Nat /\ 0 + 1 = 1
      OBVIOUS
    <3>2. f[1] = FlatStep(long, f, 1)
      BY <1>2, <1>6, <3>1, FlatAt
    <3>3. QED
      BY <1>1, <1>4, <1>6, <3>1, <3>2 DEF FlatStep
  <2>2. Flat(D, 0) = <<>>
    BY FlatNone
  <2>3. QED
    BY <1>6, <2>1, <2>2
<1>7. CASE n # 0
  <2>1. Agree(f, g, n)
    <3>1. n + 1 \in Nat /\ n <= n + 1
      OBVIOUS
    <3>2. /\ IsFlat(long, n + 1, f) /\ IsFlat(part, n, g)
          /\ Agree(long, part, n)
      BY <1>1, <1>2, <1>3 DEF Agree
    <3>3. QED
      BY <3>1, <3>2, FlatAgrees
  <2>2. Flat(D, n) = g[n]
    BY <1>1, <1>3, <1>7, FlattenIs DEF Flat, part
  <2>3. f[n] = g[n]
    BY <1>7, <2>1 DEF Agree
  <2>4. QED
    BY <1>1, <1>4, <1>5, <1>7, <2>2, <2>3
<1>8. QED
  BY <1>6, <1>7

LEMMA FlatType ==
  ASSUME NEW X, NEW n \in Nat, NEW D, \A i \in 1..n : D[i] \in Seq(X)
  PROVE  Flat(D, n) \in Seq(X)
<1> DEFINE T == {m \in Nat : m <= n /\ Flat(D, m) \notin Seq(X)}
<1>1. SUFFICES ASSUME T # {} PROVE FALSE
  OBVIOUS
<1>2. PICK m \in T : \A k \in T : m <= k
  <2>1. T \in SUBSET Nat
    OBVIOUS
  <2> HIDE DEF T
  <2>2. QED
    BY <1>1, <2>1, LeastNumber
<1>3. m \in Nat /\ m <= n /\ Flat(D, m) \notin Seq(X)
  OBVIOUS
<1>4. m # 0
  <2>1. Flat(D, 0) = <<>> /\ <<>> \in Seq(X)
    BY FlatNone
  <2>2. QED
    BY <1>3, <2>1
<1>5. /\ m - 1 \in Nat /\ m - 1 <= n /\ ~(m <= m - 1) /\ m - 1 + 1 = m
      /\ \A i \in 1..m : i \in 1..n
  BY <1>3, <1>4
<1>6. Flat(D, m - 1) \in Seq(X)
  <2>1. m - 1 \notin T
    <3> HIDE DEF T
    <3>1. QED
      BY <1>2, <1>5
  <2>2. QED
    BY <1>5, <2>1
<1>7. Flat(D, m) = Flat(D, m - 1) \o D[m]
  <2>1. \A i \in 1..(m - 1 + 1) : D[i] \in Seq(X)
    BY <1>5
  <2>2. Flat(D, m - 1 + 1) = Flat(D, m - 1) \o D[m - 1 + 1]
    BY <1>5, <2>1, FlatNext
  <2>3. QED
    BY <1>5, <2>2
<1>8. D[m] \in Seq(X)
  BY <1>3, <1>4
<1>9. QED
  BY <1>3, <1>6, <1>7, <1>8

(* A sequence is flattened in two parts.                                   *)
Shifted(R, D, n, k) == \A i \in 1..k : R[i] = D[n + i]

AllSeqs(X, D, n) == \A i \in 1..n : D[i] \in Seq(X)

IsSum(l, n, k) == l = n + k

InTwoParts(R, D, n, k, l) == Flat(D, l) = Flat(D, n) \o Flat(R, k)

LEMMA FlatJoin ==
  ASSUME NEW X, NEW n \in Nat, NEW k \in Nat, NEW l, IsSum(l, n, k),
         NEW D, AllSeqs(X, D, l), NEW R, Shifted(R, D, n, k)
  PROVE  InTwoParts(R, D, n, k, l)
<1>1. /\ n + k \in Nat /\ \A i \in 1..(n + k) : D[i] \in Seq(X)
      /\ \A i \in 1..k : R[i] = D[n + i]
  BY DEF Shifted, AllSeqs, IsSum
<1> DEFINE T == {m \in Nat : m <= k /\ Flat(D, n + m) # Flat(D, n) \o Flat(R, m)}
<1>2. SUFFICES ASSUME T # {} PROVE FALSE
  <2>1. k \in Nat /\ k <= k /\ l = n + k
    BY DEF IsSum
  <2>2. QED
    BY <2>1 DEF InTwoParts
<1>3. PICK m \in T : \A j \in T : m <= j
  <2>1. T \in SUBSET Nat
    OBVIOUS
  <2> HIDE DEF T
  <2>2. QED
    BY <1>2, <2>1, LeastNumber
<1>4. m \in Nat /\ m <= k /\ Flat(D, n + m) # Flat(D, n) \o Flat(R, m)
  OBVIOUS
<1>5. \A i \in 1..k : R[i] = D[n + i] /\ R[i] \in Seq(X)
  <2>1. \A i \in 1..k : n + i \in 1..(n + k)
    OBVIOUS
  <2>2. QED
    BY <1>1, <2>1
<1>6. Flat(D, n) \in Seq(X)
  <2>1. \A i \in 1..n : D[i] \in Seq(X)
    BY <1>1
  <2>2. QED
    BY <2>1, FlatType
<1>7. m # 0
  <2>1. Flat(D, n) \o <<>> = Flat(D, n)
    BY <1>6
  <2>2. Flat(R, 0) = <<>>
    BY FlatNone
  <2>3. n + 0 = n
    OBVIOUS
  <2>4. QED
    BY <1>4, <2>1, <2>2, <2>3
<1> DEFINE j == m - 1
<1>8. /\ j \in Nat /\ j <= k /\ ~(m <= j) /\ j + 1 = m /\ n + j \in Nat
      /\ n + j + 1 = n + m /\ m \in 1..k
      /\ \A i \in 1..(n + j + 1) : i \in 1..(n + k)
      /\ \A i \in 1..(j + 1) : i \in 1..k
      /\ \A i \in 1..j : i \in 1..k
  BY <1>4, <1>7
<1> HIDE DEF j
<1>9. Flat(D, n + j) = Flat(D, n) \o Flat(R, j)
  <2>1. j \notin T
    <3> HIDE DEF T
    <3>1. QED
      BY <1>3, <1>8
  <2>2. QED
    BY <1>8, <2>1
<1>10. Flat(D, n + j + 1) = Flat(D, n + j) \o D[n + j + 1]
  <2>1. \A i \in 1..(n + j + 1) : D[i] \in Seq(X)
    BY <1>1, <1>8
  <2>2. QED
    BY <1>8, <2>1, FlatNext
<1>11. Flat(R, j + 1) = Flat(R, j) \o R[j + 1]
  <2>1. \A i \in 1..(j + 1) : R[i] \in Seq(X)
    BY <1>5, <1>8
  <2>2. QED
    BY <1>8, <2>1, FlatNext
<1>12. Flat(R, j) \in Seq(X) /\ R[m] \in Seq(X) /\ R[m] = D[n + m]
  <2>1. \A i \in 1..j : R[i] \in Seq(X)
    BY <1>5, <1>8
  <2>2. QED
    BY <1>5, <1>8, <2>1, FlatType
<1>13. (Flat(D, n) \o Flat(R, j)) \o R[m] = Flat(D, n) \o (Flat(R, j) \o R[m])
  <2>1. /\ Flat(D, n) \in Seq(X) /\ Flat(R, j) \in Seq(X) /\ R[m] \in Seq(X)
    BY <1>6, <1>12
  <2> HIDE DEF T
  <2>2. QED
    <3>1. \A a, b, c \in Seq(X) : (a \o b) \o c = a \o (b \o c)
      BY ConcatAssociative
    <3>2. QED
      BY <2>1, <3>1, Zenon
<1>14. l = n + k
  BY DEF IsSum
<1>15. QED
  BY <1>4, <1>8, <1>9, <1>10, <1>11, <1>12, <1>13, <1>14

-----------------------------------------------------------------------------
(* The orders of a chain, read in parts.                                   *)

Logs == Nat \X Nat

LogOf(c, b, k) == IF c[b][k] = "order" THEN <<<<b, k>>>> ELSE <<>>

OrdersOf(c, b) == FlattenSeq([k \in DOMAIN c[b] |-> LogOf(c, b, k)])

UpTo(c, n) == FlattenSeq([b \in 1..n |-> OrdersOf(c, b)])

Between(c, from, to) == FlattenSeq([b \in 1..(to - from) |-> OrdersOf(c, from + b)])

LEMMA OrdersType ==
  ASSUME NEW c \in Seq(Blocks), NEW b \in 1..Len(c)
  PROVE  OrdersOf(c, b) \in Seq(Logs)
<1>1. c[b] \in Seq({"order", "short"})
  <2>1. c[b] \in Blocks
    BY ElementOfSeq
  <2>2. QED
    BY <2>1, SubscriberAssumption
<1>2. Len(c[b]) \in Nat /\ DOMAIN c[b] = 1..Len(c[b])
  BY <1>1, LenProperties
<1> DEFINE n == Len(c[b])
           D == [k \in 1..n |-> LogOf(c, b, k)]
<1>3. b \in Nat /\ \A k \in 1..n : <<b, k>> \in Logs
  BY <1>2 DEF Logs
<1>4. \A k \in 1..n : LogOf(c, b, k) \in Seq(Logs)
  BY <1>3 DEF LogOf
<1>5. \A k \in 1..n : D[k] = LogOf(c, b, k)
  OBVIOUS
<1>6. [k \in 1..n |-> D[k]] = [k \in DOMAIN c[b] |-> LogOf(c, b, k)]
  BY <1>2, <1>5
<1>7. OrdersOf(c, b) = Flat(D, n)
  BY <1>6 DEF OrdersOf, Flat
<1> HIDE DEF D
<1>8. \A k \in 1..n : D[k] \in Seq(Logs)
  BY <1>4, <1>5
<1>9. QED
  BY <1>2, <1>7, <1>8, FlatType

LEMMA UpToIsFlat ==
  ASSUME NEW c, NEW D, NEW n, \A b \in 1..n : D[b] = OrdersOf(c, b)
  PROVE  UpTo(c, n) = Flat(D, n)
<1>1. [b \in 1..n |-> D[b]] = [b \in 1..n |-> OrdersOf(c, b)]
  OBVIOUS
<1>2. QED
  BY <1>1 DEF UpTo, Flat

LEMMA UpToJoin ==
  ASSUME NEW c \in Seq(Blocks), NEW n \in Nat, NEW m \in Nat, n <= m, m <= Len(c)
  PROVE  /\ UpTo(c, n) \in Seq(Logs) /\ Between(c, n, m) \in Seq(Logs)
         /\ UpTo(c, m) = UpTo(c, n) \o Between(c, n, m)
<1>1. PICK k \in Nat : k = m - n /\ n + k = m
  OBVIOUS
<1> DEFINE D == [b \in 1..m |-> OrdersOf(c, b)]
           R == [i \in 1..k |-> D[n + i]]
<1>2. /\ k \in Nat /\ n + k = m /\ Len(c) \in Nat
      /\ \A b \in 1..m : b \in 1..Len(c)
      /\ \A b \in 1..n : b \in 1..m
      /\ \A i \in 1..k : n + i \in 1..m
  BY <1>1, LenProperties
<1>3. \A b \in 1..m : D[b] = OrdersOf(c, b) /\ D[b] \in Seq(Logs)
  BY <1>2, OrdersType
<1>4. \A i \in 1..k : R[i] = OrdersOf(c, n + i) /\ R[i] \in Seq(Logs)
  <2>1. \A i \in 1..k : R[i] = D[n + i]
    OBVIOUS
  <2> HIDE DEF D, R
  <2>2. QED
    BY <1>2, <1>3, <2>1
<1>5. Flat(D, n + k) = Flat(D, n) \o Flat(R, k)
  <2>1. \A b \in 1..(n + k) : D[b] \in Seq(Logs)
    BY <1>2, <1>3
  <2>2. \A i \in 1..k : R[i] = D[n + i]
    BY <1>2
  <2>3. IsSum(m, n, k)
    BY <1>1 DEF IsSum
  <2>4. Shifted(R, D, n, k) /\ AllSeqs(Logs, D, m)
    BY <1>3, <2>2 DEF Shifted, AllSeqs
  <2> HIDE DEF D, R
  <2>5. InTwoParts(R, D, n, k, m)
    BY <2>3, <2>4, FlatJoin, Zenon
  <2>6. QED
    BY <1>1, <2>5 DEF InTwoParts
<1>6. Between(c, n, m) = Flat(R, k)
  <2>1. [i \in 1..k |-> R[i]] = [b \in 1..(m - n) |-> OrdersOf(c, n + b)]
    <3> HIDE DEF R
    <3>1. QED
      BY <1>1, <1>4
  <2>2. QED
    BY <2>1 DEF Between, Flat
<1> HIDE DEF D, R
<1>7. UpTo(c, m) = Flat(D, m) /\ UpTo(c, n) = Flat(D, n)
  BY <1>2, <1>3, UpToIsFlat
<1>8. Flat(D, n) \in Seq(Logs) /\ Flat(R, k) \in Seq(Logs)
  <2>1. \A b \in 1..n : D[b] \in Seq(Logs)
    BY <1>2, <1>3
  <2>2. QED
    BY <1>2, <1>4, <2>1, FlatType
<1>9. QED
  BY <1>2, <1>5, <1>6, <1>7, <1>8

(* A block that is mined changes nothing before it.                        *)
LEMMA UpToMined ==
  ASSUME NEW c \in Seq(Blocks), NEW x \in Blocks, NEW n \in Nat, n <= Len(c)
  PROVE  UpTo(Append(c, x), n) = UpTo(c, n)
<1>1. Len(c) \in Nat /\ \A b \in 1..n : b \in 1..Len(c)
  BY LenProperties
<1>2. \A b \in 1..n : Append(c, x)[b] = c[b]
  BY <1>1
<1>3. \A b \in 1..n : OrdersOf(Append(c, x), b) = OrdersOf(c, b)
  BY <1>2 DEF OrdersOf, LogOf
<1>4. QED
  BY <1>3 DEF UpTo

LEMMA UpToNone ==
  ASSUME NEW c
  PROVE  UpTo(c, 0) = <<>>
<1> DEFINE D == [b \in 1..0 |-> OrdersOf(c, b)]
<1>1. UpTo(c, 0) = Flat(D, 0)
  BY UpToIsFlat
<1>2. QED
  BY <1>1, FlatNone

-----------------------------------------------------------------------------
(* An event loop, the orders it has sent, and the chain.                   *)

Loops == [at : {"poll", "logs", "send", "done"}, last : Nat, latest : Nat,
          batch : Seq(Logs)]

Reached(l) == IF l.at = "send" THEN l.latest ELSE l.last

Owed(l) == IF l.at = "send" THEN l.batch ELSE <<>>

InChain(l, c) ==
  /\ l.last <= Len(c) /\ l.latest <= Len(c)
  /\ l.at \in {"logs", "send"} => l.last <= l.latest

Whole(l, sq, c) == l.at # "done" => sq \o Owed(l) = UpTo(c, Reached(l))

LoopInv(l, sq, c) ==
  l \in Loops /\ sq \in Seq(Logs) /\ InChain(l, c) /\ Whole(l, sq, c)

LEMMA LoopFields ==
  ASSUME NEW l \in Loops
  PROVE  /\ l.at \in {"poll", "logs", "send", "done"}
         /\ l.last \in Nat /\ l.latest \in Nat /\ l.batch \in Seq(Logs)
BY DEF Loops

LEMMA NothingOwed ==
  ASSUME NEW l, NEW sq, NEW c, LoopInv(l, sq, c)
  PROVE  /\ l.at \in {"poll", "logs"} => sq = UpTo(c, l.last)
         /\ l.at = "send" => sq \o l.batch = UpTo(c, l.latest)
<1>1. sq \o <<>> = sq
  BY DEF LoopInv
<1>2. QED
  BY <1>1 DEF LoopInv, Whole, Owed, Reached

LEMMA NewLoopInv ==
  ASSUME NEW c \in Seq(Blocks)
  PROVE  LoopInv(NewLoop, <<>>, c)
<1>1. NewLoop \in Loops /\ NewLoop.at = "poll" /\ NewLoop.last = 0 /\ NewLoop.latest = 0
  BY DEF NewLoop, Loops
<1>2. Len(c) \in Nat
  BY LenProperties
<1>3. <<>> \o <<>> = UpTo(c, 0)
  BY UpToNone
<1>4. QED
  BY <1>1, <1>2, <1>3 DEF LoopInv, InChain, Whole, Owed, Reached

LEMMA Polled ==
  ASSUME NEW l, NEW sq, NEW c \in Seq(Blocks), LoopInv(l, sq, c),
         l.at = "poll", Len(c) > l.last
  PROVE  LoopInv([l EXCEPT !.at = "logs", !.latest = Len(c)], sq, c)
<1> DEFINE r == [l EXCEPT !.at = "logs", !.latest = Len(c)]
<1>1. l \in Loops /\ Len(c) \in Nat
  BY LenProperties DEF LoopInv
<1>2. /\ r \in Loops /\ r.at = "logs" /\ r.latest = Len(c)
      /\ r.last = l.last /\ r.batch = l.batch
  BY <1>1 DEF Loops
<1>3. l.last \in Nat
  BY <1>1 DEF Loops
<1> HIDE DEF r
<1>4. InChain(r, c)
  BY <1>1, <1>2, <1>3 DEF InChain
<1>5. sq \o <<>> = sq /\ sq \in Seq(Logs) /\ sq = UpTo(c, l.last)
  BY NothingOwed DEF LoopInv
<1>6. Whole(r, sq, c)
  BY <1>2, <1>5 DEF Whole, Owed, Reached
<1>7. QED
  BY <1>2, <1>4, <1>5, <1>6 DEF LoopInv, r

LEMMA Fetched ==
  ASSUME NEW l, NEW sq, NEW c \in Seq(Blocks), LoopInv(l, sq, c), l.at = "logs"
  PROVE  LoopInv([l EXCEPT !.at = "send", !.batch = Between(c, l.last, l.latest)], sq, c)
<1> DEFINE b == Between(c, l.last, l.latest)
           r == [l EXCEPT !.at = "send", !.batch = b]
<1>1. /\ l \in Loops /\ l.last \in Nat /\ l.latest \in Nat
      /\ l.last <= l.latest /\ l.latest <= Len(c) /\ l.last <= Len(c)
  BY LoopFields DEF LoopInv, InChain
<1>2. b \in Seq(Logs) /\ UpTo(c, l.latest) = UpTo(c, l.last) \o b
  BY <1>1, UpToJoin
<1> HIDE DEF b
<1>3. /\ r \in Loops /\ r.at = "send" /\ r.latest = l.latest
      /\ r.last = l.last /\ r.batch = b
  BY <1>1, <1>2 DEF Loops
<1> HIDE DEF r
<1>4. InChain(r, c)
  BY <1>1, <1>3 DEF InChain
<1>5. sq \in Seq(Logs) /\ sq = UpTo(c, l.last)
  BY NothingOwed DEF LoopInv
<1>6. Whole(r, sq, c)
  BY <1>2, <1>3, <1>5 DEF Whole, Owed, Reached
<1>7. QED
  BY <1>3, <1>4, <1>5, <1>6 DEF LoopInv, r, b

LEMMA Failed ==
  ASSUME NEW l, NEW sq, NEW c \in Seq(Blocks), LoopInv(l, sq, c), l.at = "logs"
  PROVE  LoopInv(AfterError(l), sq, c)
<1> DEFINE r == [l EXCEPT !.at = "poll"]
<1>1. l \in Loops
  BY DEF LoopInv
<1>2. /\ r \in Loops /\ r.at = "poll" /\ r.latest = l.latest
      /\ r.last = l.last /\ r.batch = l.batch
  BY <1>1 DEF Loops
<1> HIDE DEF r
<1>3. InChain(r, c)
  BY <1>2 DEF InChain, LoopInv
<1>4. sq \in Seq(Logs) /\ sq \o <<>> = sq /\ sq = UpTo(c, l.last)
  BY NothingOwed DEF LoopInv
<1>5. Whole(r, sq, c)
  BY <1>2, <1>4 DEF Whole, Owed, Reached
<1>6. QED
  BY <1>2, <1>3, <1>4, <1>5 DEF LoopInv, r, AfterError

LEMMA HeadThenTail ==
  ASSUME NEW X, NEW sq \in Seq(X), NEW b \in Seq(X), b # <<>>
  PROVE  /\ Head(b) \in X /\ Tail(b) \in Seq(X) /\ Append(sq, Head(b)) \in Seq(X)
         /\ Append(sq, Head(b)) \o Tail(b) = sq \o b
<1>1. Head(b) \in X /\ Tail(b) \in Seq(X) /\ Append(sq, Head(b)) \in Seq(X)
  BY HeadTailProperties
<1>2. Len(b) \in Nat /\ Len(b) # 0 /\ Len(Tail(b)) = Len(b) - 1 /\ Len(sq) \in Nat
  BY HeadTailProperties, EmptySeq, LenProperties
<1>3. /\ Len(Append(sq, Head(b)) \o Tail(b)) = Len(sq \o b)
      /\ \A i \in 1..Len(sq \o b) : (Append(sq, Head(b)) \o Tail(b))[i] = (sq \o b)[i]
  BY <1>1, <1>2
<1>4. Append(sq, Head(b)) \o Tail(b) \in Seq(X) /\ sq \o b \in Seq(X)
  BY <1>1
<1>5. QED
  BY <1>3, <1>4, SeqEqual

LEMMA Sent ==
  ASSUME NEW l, NEW sq, NEW c \in Seq(Blocks), LoopInv(l, sq, c),
         l.at = "send", l.batch # <<>>
  PROVE  LoopInv([l EXCEPT !.batch = Tail(@)], Append(sq, Head(l.batch)), c)
<1> DEFINE b == l.batch
           r == [l EXCEPT !.batch = Tail(b)]
           q == Append(sq, Head(b))
<1>1. l \in Loops /\ b \in Seq(Logs) /\ sq \in Seq(Logs)
  BY LoopFields DEF LoopInv
<1>2. Tail(b) \in Seq(Logs) /\ q \in Seq(Logs) /\ q \o Tail(b) = sq \o b
  BY <1>1, HeadThenTail
<1>3. /\ r \in Loops /\ r.at = "send" /\ r.latest = l.latest
      /\ r.last = l.last /\ r.batch = Tail(b)
  BY <1>1, <1>2 DEF Loops
<1>4. InChain(r, c)
  <2> HIDE DEF r
  <2>1. QED
    BY <1>3 DEF InChain, LoopInv
<1>5. Whole(r, q, c)
  <2> HIDE DEF r, q
  <2>1. sq \o b = UpTo(c, l.latest)
    BY NothingOwed
  <2>2. QED
    BY <1>2, <1>3, <2>1 DEF Whole, Owed, Reached
<1>6. QED
  BY <1>2, <1>3, <1>4, <1>5 DEF LoopInv

LEMMA Moved ==
  ASSUME NEW l, NEW sq, NEW c \in Seq(Blocks), LoopInv(l, sq, c),
         l.at = "send", l.batch = <<>>
  PROVE  LoopInv([l EXCEPT !.at = "poll", !.last = l.latest], sq, c)
<1> DEFINE r == [l EXCEPT !.at = "poll", !.last = l.latest]
<1>1. l \in Loops /\ l.latest \in Nat
  BY LoopFields DEF LoopInv
<1>2. /\ r \in Loops /\ r.at = "poll" /\ r.latest = l.latest
      /\ r.last = l.latest /\ r.batch = l.batch
  BY <1>1 DEF Loops
<1> HIDE DEF r
<1>3. InChain(r, c)
  BY <1>2 DEF InChain, LoopInv
<1>4. sq \in Seq(Logs) /\ sq \o <<>> = UpTo(c, l.latest)
  BY NothingOwed DEF LoopInv
<1>5. Whole(r, sq, c)
  BY <1>2, <1>4 DEF Whole, Owed, Reached
<1>6. QED
  BY <1>2, <1>3, <1>4, <1>5 DEF LoopInv, r

LEMMA LoopEnded ==
  ASSUME NEW l, NEW sq, NEW c \in Seq(Blocks), LoopInv(l, sq, c)
  PROVE  LoopInv([NewLoop EXCEPT !.at = "done"], sq, c)
<1> DEFINE r == [NewLoop EXCEPT !.at = "done"]
<1>1. r \in Loops /\ r.at = "done" /\ r.last = 0 /\ r.latest = 0
  <2>1. NewLoop \in Loops /\ NewLoop.last = 0 /\ NewLoop.latest = 0
    BY DEF Loops, NewLoop
  <2> HIDE DEF NewLoop
  <2>2. QED
    BY <2>1 DEF Loops
<1> HIDE DEF r
<1>2. Len(c) \in Nat
  BY LenProperties
<1>3. InChain(r, c) /\ Whole(r, sq, c)
  BY <1>1, <1>2 DEF InChain, Whole
<1>4. QED
  BY <1>1, <1>3 DEF LoopInv, r

LEMMA Mined ==
  ASSUME NEW l, NEW sq, NEW c \in Seq(Blocks), NEW x \in Blocks, LoopInv(l, sq, c)
  PROVE  LoopInv(l, sq, Append(c, x))
<1>1. Len(c) \in Nat /\ Len(Append(c, x)) = Len(c) + 1
  BY LenProperties
<1>2. l \in Loops /\ l.last \in Nat /\ l.latest \in Nat /\ InChain(l, c)
  BY LoopFields DEF LoopInv
<1>3. InChain(l, Append(c, x))
  BY <1>1, <1>2 DEF InChain
<1>4. Reached(l) \in Nat /\ Reached(l) <= Len(c)
  BY <1>2 DEF Reached, InChain
<1>5. UpTo(Append(c, x), Reached(l)) = UpTo(c, Reached(l))
  BY <1>4, UpToMined
<1>6. QED
  BY <1>3, <1>5 DEF LoopInv, Whole

-----------------------------------------------------------------------------
(* The orders of every symbol: none is skipped and none repeated.          *)

SourceInv ==
  /\ chain \in Seq(Blocks)
  /\ DOMAIN loop = Symbols /\ loop = [s \in Symbols |-> loop[s]]
  /\ DOMAIN sent = Symbols /\ sent = [s \in Symbols |-> sent[s]]
  /\ \A s \in Symbols : LoopInv(loop[s], sent[s], chain)

(* A step of one event loop.                                               *)
LEMMA OneLoopSteps ==
  ASSUME SourceInv, NEW s \in Symbols, NEW l, NEW sq, LoopInv(l, sq, chain),
         UNCHANGED chain, loop' = [loop EXCEPT ![s] = l], sent' = [sent EXCEPT ![s] = sq]
  PROVE  SourceInv'
<1>1. \A t \in Symbols : LoopInv(loop'[t], sent'[t], chain)
  BY DEF SourceInv
<1>2. QED
  BY <1>1 DEF SourceInv

LEMMA OneLoopGoesOn ==
  ASSUME SourceInv, NEW s \in Symbols, NEW l, LoopInv(l, sent[s], chain),
         UNCHANGED <<chain, sent>>, loop' = [loop EXCEPT ![s] = l]
  PROVE  SourceInv'
<1>1. \A t \in Symbols : LoopInv(loop'[t], sent'[t], chain)
  BY DEF SourceInv
<1>2. QED
  BY <1>1 DEF SourceInv

LEMMA SourceStays ==
  ASSUME SourceInv, UNCHANGED <<chain, loop, sent>>
  PROVE  SourceInv'
BY DEF SourceInv

LEMMA BetweenIsLogs ==
  ASSUME NEW from, NEW to
  PROVE  LogsBetween(from, to) = Between(chain, from, to)
BY DEF LogsBetween, Between, Decoded, DecodedLog, OrdersOf, LogOf

LEMMA EventLoopKeeps ==
  ASSUME SourceInv, NEW s \in Symbols, EventLoop(s) \/ GetLogsFails(s)
  PROVE  SourceInv'
<1> DEFINE l == loop[s]
<1>1. LoopInv(l, sent[s], chain) /\ chain \in Seq(Blocks)
  BY DEF SourceInv
<1>2. CASE BlockNumber(s)
  <2> DEFINE r == [l EXCEPT !.at = "logs", !.latest = Len(chain)]
  <2>1. /\ l.at = "poll" /\ Len(chain) > l.last /\ UNCHANGED <<chain, sent>>
        /\ loop' = [loop EXCEPT ![s] = r]
    BY <1>2 DEF BlockNumber, At, SourceInv
  <2>2. LoopInv(r, sent[s], chain)
    <3> HIDE DEF l
    <3>1. QED
      BY <1>1, <2>1, Polled
  <2> HIDE DEF l, r
  <2>3. QED
    BY <2>1, <2>2, OneLoopGoesOn
<1>3. CASE GetLogs(s)
  <2> DEFINE b == Between(chain, l.last, l.latest)
             r == [l EXCEPT !.at = "send", !.batch = b]
  <2>1. b = LogsBetween(loop[s].last, loop[s].latest)
    BY BetweenIsLogs
  <2>2. /\ l.at = "logs" /\ UNCHANGED <<chain, sent>>
        /\ loop' = [loop EXCEPT ![s] = r]
    <3> HIDE DEF b
    <3>1. QED
      BY <1>3, <2>1 DEF GetLogs, At, SourceInv
  <2>3. LoopInv(r, sent[s], chain)
    <3> HIDE DEF l
    <3>1. QED
      BY <1>1, <2>2, Fetched
  <2> HIDE DEF l, r
  <2>4. QED
    BY <2>2, <2>3, OneLoopGoesOn
<1>4. CASE GetLogsFails(s)
  <2>1. /\ l.at = "logs" /\ UNCHANGED <<chain, sent>>
        /\ loop' = [loop EXCEPT ![s] = AfterError(l)]
    BY <1>4 DEF GetLogsFails, At, SourceInv
  <2> HIDE DEF l
  <2>2. LoopInv(AfterError(l), sent[s], chain)
    BY <1>1, <2>1, Failed
  <2>3. QED
    BY <2>1, <2>2, OneLoopGoesOn
<1>5. CASE SendOrder(s)
  <2> DEFINE r == [l EXCEPT !.batch = Tail(@)]
             q == Append(sent[s], Head(l.batch))
  <2>1. /\ l.at = "send" /\ l.batch # <<>> /\ UNCHANGED chain
        /\ loop' = [loop EXCEPT ![s] = r] /\ sent' = [sent EXCEPT ![s] = q]
    BY <1>5 DEF SendOrder, At, SourceInv
  <2>2. LoopInv(r, q, chain)
    <3> HIDE DEF l
    <3>1. QED
      BY <1>1, <2>1, Sent
  <2> HIDE DEF l, r, q
  <2>3. QED
    BY <2>1, <2>2, OneLoopSteps
<1>6. CASE Advance(s)
  <2> DEFINE r == [l EXCEPT !.at = "poll", !.last = l.latest]
  <2>1. /\ l.at = "send" /\ l.batch = <<>> /\ UNCHANGED <<chain, sent>>
        /\ loop' = [loop EXCEPT ![s] = r]
    BY <1>6 DEF Advance, At, SourceInv
  <2>2. LoopInv(r, sent[s], chain)
    <3> HIDE DEF l
    <3>1. QED
      BY <1>1, <2>1, Moved
  <2> HIDE DEF l, r
  <2>3. QED
    BY <2>1, <2>2, OneLoopGoesOn
<1>7. CASE LoopEnds(s)
  <2> DEFINE r == [NewLoop EXCEPT !.at = "done"]
  <2>1. UNCHANGED <<chain, sent>> /\ loop' = [loop EXCEPT ![s] = r]
    BY <1>7 DEF LoopEnds
  <2>2. LoopInv(r, sent[s], chain)
    <3> HIDE DEF l
    <3>1. QED
      BY <1>1, LoopEnded
  <2> HIDE DEF l, r
  <2>3. QED
    BY <2>1, <2>2, OneLoopGoesOn
<1>8. QED
  BY <1>2, <1>3, <1>4, <1>5, <1>6, <1>7 DEF EventLoop

LEMMA MineKeeps ==
  ASSUME SourceInv, Mine
  PROVE  SourceInv'
<1>1. PICK b \in Blocks : chain' = Append(chain, b)
  BY DEF Mine
<1>2. UNCHANGED <<loop, sent>>
  BY DEF Mine
<1>3. Append(chain, b) \in Seq(Blocks)
  BY DEF SourceInv
<1>4. \A s \in Symbols : LoopInv(loop[s], sent[s], Append(chain, b))
  BY Mined DEF SourceInv
<1>5. QED
  BY <1>1, <1>2, <1>3, <1>4 DEF SourceInv

LEMMA StartKeeps ==
  ASSUME SourceInv, SourceStart, UNCHANGED chain
  PROVE  SourceInv'
<1>1. LoopInv(NewLoop, <<>>, chain)
  BY NewLoopInv DEF SourceInv
<1> HIDE DEF NewLoop
<1>2. QED
  BY <1>1 DEF SourceInv, SourceStart

LEMMA InitSource ==
  ASSUME Init
  PROVE  SourceInv
<1>1. chain \in Seq(Blocks)
  BY DEF Init, SourceInit
<1>2. LoopInv(NewLoop, <<>>, chain)
  BY <1>1, NewLoopInv
<1> HIDE DEF NewLoop
<1>3. QED
  BY <1>1, <1>2 DEF SourceInv, Init, SourceInit

LEMMA NextSource ==
  ASSUME SourceInv, [Next]_vars
  PROVE  SourceInv'
<1>1. CASE Mine
  BY <1>1, MineKeeps
<1>2. ASSUME NEW s \in Symbols, EventLoop(s) \/ GetLogsFails(s)
      PROVE  SourceInv'
  BY <1>2, EventLoopKeeps
<1>3. CASE Restart
  BY <1>3, StartKeeps DEF Restart
<1>4. ASSUME NEW s \in Symbols, Match(s) \/ MatchNil(s) \/ EndSubscription(s)
      PROVE  SourceInv'
  BY <1>4, SourceStays DEF Match, MatchNil, EndSubscription, Unsubscribe, sourceVars
<1>5. CASE Crash
  BY <1>5, SourceStays DEF Crash, sourceVars
<1>6. CASE Deferred
  BY <1>6, SourceStays DEF Deferred, sourceVars, CancelSource, CloseChannels
<1>7. CASE UNCHANGED sourceVars
  BY <1>7, SourceStays DEF sourceVars
<1>8. QED
  BY <1>1, <1>2, <1>3, <1>4, <1>5, <1>6, <1>7 DEF Next, Source, Sink, vars

(* Whatever request fails, whatever is mined in between and however often  *)
(* the process starts again, a loop has sent exactly the orders of the     *)
(* blocks up to its cursor (subscriber.go:111-147).                        *)
LEMMA SourceGivesNoGap ==
  ASSUME SourceInv
  PROVE  NoGapNoRepeat
<1>1. SUFFICES ASSUME NEW s \in Symbols, ~At(s, "done")
               PROVE  sent[s] \o Owed(loop[s]) = UpTo(chain, Reached(loop[s]))
  BY DEF NoGapNoRepeat, Owed, Reached, At, UpTo, Decoded, DecodedLog, OrdersOf, LogOf
<1>2. QED
  BY <1>1 DEF SourceInv, LoopInv, Whole, At

THEOREM NoOrderSkippedOrRepeated == Spec => []NoGapNoRepeat
<1>1. Init => SourceInv
  BY InitSource
<1>2. SourceInv /\ [Next]_vars => SourceInv'
  BY NextSource
<1>3. SourceInv => NoGapNoRepeat
  BY SourceGivesNoGap
<1>4. QED
  BY <1>1, <1>2, <1>3, PTL DEF Spec

-----------------------------------------------------------------------------
(* Batches of results: how many of a symbol they hold, and which.          *)

Batches == [symbol : Symbols, mrs : Seq(Logs)]

AnyBatch == Batches \cup {NoBatch, Gone}

Counts(s, bs) == [p \in DOMAIN bs |-> Len(Results(s, bs[p]))]

LEMMA ResultsType ==
  ASSUME NEW s, NEW b \in AnyBatch
  PROVE  /\ Results(s, b) \in Seq(Logs) /\ Len(Results(s, b)) \in Nat
         /\ Range(Results(s, b)) \subseteq Logs
<1>1. b.mrs \in Seq(Logs)
  <2>1. NoBatch.mrs = <<>> /\ Gone.mrs = <<>>
    BY DEF NoBatch, Gone
  <2>2. CASE b \in Batches
    BY <2>2 DEF Batches
  <2>3. CASE b = NoBatch \/ b = Gone
    <3> HIDE DEF NoBatch, Gone
    <3>1. b.mrs = <<>>
      BY <2>1, <2>3
    <3>2. QED
      BY <3>1
  <2>4. QED
    BY <2>2, <2>3 DEF AnyBatch
<1>2. Results(s, b) \in Seq(Logs)
  BY <1>1 DEF Results
<1>3. QED
  BY <1>2, LenProperties, ElementOfSeq DEF Range

LEMMA ResultsOfNone ==
  ASSUME NEW s
  PROVE  Results(s, NoBatch) = <<>> /\ Results(s, Gone) = <<>>
BY DEF Results, NoBatch, Gone

LEMMA RangeOfNone == Range(<<>>) = {} /\ Len(<<>>) = 0
BY DEF Range

LEMMA HowManyIs ==
  ASSUME NEW s, NEW bs, IsFiniteSet(DOMAIN bs), \A p \in DOMAIN bs : bs[p] \in AnyBatch
  PROVE  /\ HowMany(s, bs) = Total(Counts(s, bs), DOMAIN bs)
         /\ Counts(s, bs) \in [DOMAIN bs -> Nat]
<1> DEFINE S == DOMAIN bs
           f == [p \in S |-> Len(Results(s, bs[p]))]
           x(r) == CHOOSE p \in r : TRUE
           it == CHOOSE it : it = [r \in SUBSET S |->
                   IF r = {} THEN 0 ELSE Len(Results(s, bs[x(r)])) + it[r \ {x(r)}]]
           t == [r \in SUBSET S |-> Total(f, r)]
<1>1. f \in [S -> Nat]
  <2>1. \A p \in S : Len(Results(s, bs[p])) \in Nat
    BY ResultsType
  <2>2. QED
    BY <2>1
<1>2. \A r \in SUBSET S : r # {} => x(r) \in S /\ f[x(r)] = Len(Results(s, bs[x(r)]))
  OBVIOUS
<1>3. t = [r \in SUBSET S |-> SumStep(f, t, r)]
  <2>1. IsFold(f, S, Totals(f, S))
    <3> HIDE DEF f
    <3>1. QED
      BY <1>1, TotalIsAFold
  <2>2. QED
    BY <2>1 DEF IsFold, Totals
<1>4. t = [r \in SUBSET S |->
             IF r = {} THEN 0 ELSE Len(Results(s, bs[x(r)])) + t[r \ {x(r)}]]
  <2> HIDE DEF f, t
  <2>1. \A r \in SUBSET S : SumStep(f, t, r) =
          IF r = {} THEN 0 ELSE Len(Results(s, bs[x(r)])) + t[r \ {x(r)}]
    BY <1>2 DEF SumStep
  <2>2. QED
    BY <1>3, <2>1
<1>5. it = [r \in SUBSET S |->
              IF r = {} THEN 0 ELSE Len(Results(s, bs[x(r)])) + it[r \ {x(r)}]]
  <2> HIDE DEF t
  <2>1. QED
    BY <1>4
<1>6. HowMany(s, bs) = it[S]
  BY DEF HowMany, MapThenSumSet, MapThenFoldSet
<1>7. it = [r \in SUBSET S |-> SumStep(f, it, r)]
  <2> HIDE DEF f, it
  <2>1. \A r \in SUBSET S : SumStep(f, it, r) =
          IF r = {} THEN 0 ELSE Len(Results(s, bs[x(r)])) + it[r \ {x(r)}]
    BY <1>2 DEF SumStep
  <2>2. QED
    BY <1>5, <2>1
<1>8. it[S] = Total(f, S)
  <2>1. IsFold(f, S, it)
    BY <1>7 DEF IsFold
  <2> HIDE DEF f, it
  <2>2. QED
    BY <1>1, <2>1, FoldIsTotal
<1>9. QED
  BY <1>1, <1>6, <1>8 DEF Counts

(* One of the holders changes what it holds.                               *)
Swap(bs, x, b) == [bs EXCEPT ![x] = b]

LEMMA HowManySet ==
  ASSUME NEW s, NEW S, IsFiniteSet(S), NEW bs \in [S -> AnyBatch],
         NEW x \in S, NEW b \in AnyBatch
  PROVE  HowMany(s, Swap(bs, x, b)) + Len(Results(s, bs[x]))
           = HowMany(s, bs) + Len(Results(s, b))
<1> DEFINE r == [bs EXCEPT ![x] = b]
           f == Counts(s, bs)
           g == Counts(s, r)
<1>1. DOMAIN bs = S /\ DOMAIN r = S /\ r \in [S -> AnyBatch]
  OBVIOUS
<1>2. /\ r[x] = b /\ \A y \in S \ {x} : r[y] = bs[y]
  OBVIOUS
<1> HIDE DEF r
<1>3. /\ HowMany(s, bs) = Total(f, S) /\ f \in [S -> Nat]
      /\ HowMany(s, r) = Total(g, S) /\ g \in [S -> Nat]
  BY <1>1, HowManyIs
<1>4. /\ f[x] = Len(Results(s, bs[x])) /\ g[x] = Len(Results(s, b))
      /\ \A y \in S \ {x} : f[y] = g[y]
  BY <1>1, <1>2 DEF Counts
<1> HIDE DEF f, g
<1>5. S \in SUBSET S /\ S \ {x} \in SUBSET S
  OBVIOUS
<1>6. Total(f, S) = f[x] + Total(f, S \ {x}) /\ Total(g, S) = g[x] + Total(g, S \ {x})
  BY <1>3, <1>5, TotalWithout
<1>7. Total(f, S \ {x}) = Total(g, S \ {x}) /\ Total(f, S \ {x}) \in Nat
  BY <1>3, <1>4, <1>5, TotalOfPart, TotalDependsOnValues
<1>8. f[x] \in Nat /\ g[x] \in Nat
  BY <1>3
<1>9. QED
  BY <1>3, <1>4, <1>6, <1>7, <1>8 DEF r, Swap

Exchanged(new, old, in, out) == new \cup out = old \cup in

LEMMA WhichSet ==
  ASSUME NEW s, NEW S, NEW bs \in [S -> AnyBatch], NEW x \in S, NEW b \in AnyBatch
  PROVE  Exchanged(Which(s, Swap(bs, x, b)), Which(s, bs),
                   Range(Results(s, b)), Range(Results(s, bs[x])))
<1> DEFINE r == [bs EXCEPT ![x] = b]
           Rest == UNION {Range(Results(s, bs[p])) : p \in S \ {x}}
<1>1. DOMAIN bs = S /\ DOMAIN r = S
  OBVIOUS
<1>2. r[x] = b /\ \A y \in S \ {x} : r[y] = bs[y]
  OBVIOUS
<1> HIDE DEF r
<1>3. Which(s, bs) = Rest \cup Range(Results(s, bs[x]))
  BY <1>1 DEF Which
<1>4. Which(s, r) = Rest \cup Range(Results(s, b))
  BY <1>1, <1>2 DEF Which
<1>5. QED
  BY <1>3, <1>4 DEF r, Swap, Exchanged

LEMMA AnyBatches ==
  ASSUME NEW bs \in Seq(AnyBatch)
  PROVE  /\ Len(bs) \in Nat /\ DOMAIN bs = 1..Len(bs) /\ IsFiniteSet(DOMAIN bs)
         /\ bs \in [DOMAIN bs -> AnyBatch]
<1>1. Len(bs) \in Nat /\ DOMAIN bs = 1..Len(bs) /\ bs \in [1..Len(bs) -> AnyBatch]
  BY LenProperties
<1>2. IsFiniteSet(1..Len(bs))
  BY <1>1, FS_Interval
<1>3. QED
  BY <1>1, <1>2

LEMMA HowManyAppend ==
  ASSUME NEW s, NEW bs \in Seq(AnyBatch), NEW b \in AnyBatch
  PROVE  HowMany(s, Append(bs, b)) = HowMany(s, bs) + Len(Results(s, b))
<1> DEFINE r == Append(bs, b)
           S == DOMAIN bs
           T == DOMAIN r
           n == Len(bs) + 1
           f == Counts(s, bs)
           g == Counts(s, r)
<1>1. r \in Seq(AnyBatch) /\ Len(r) = n
  OBVIOUS
<1>2. Len(bs) \in Nat /\ S = 1..Len(bs) /\ IsFiniteSet(S) /\ bs \in [S -> AnyBatch]
  BY AnyBatches
<1>3. r[n] = b /\ \A p \in S : r[p] = bs[p]
  BY <1>2
<1> HIDE DEF r
<1>4. T = 1..n /\ IsFiniteSet(T) /\ r \in [T -> AnyBatch]
  BY <1>1, AnyBatches
<1>5. n \notin S /\ n \in T /\ T = S \cup {n}
  BY <1>2, <1>4
<1>6. /\ HowMany(s, bs) = Total(f, S) /\ f \in [S -> Nat]
      /\ HowMany(s, r) = Total(g, T) /\ g \in [T -> Nat]
  BY <1>2, <1>4, HowManyIs
<1>7. g[n] = Len(Results(s, b)) /\ \A p \in S : g[p] = f[p]
  <2> HIDE DEF n
  <2>1. QED
    BY <1>3, <1>5 DEF Counts
<1> HIDE DEF S, T, n, f, g
<1>8. Total(g, T) = Total(f, S) + g[n]
  <2>1. /\ IsFiniteSet(S) /\ n \notin S /\ T = S \cup {n}
        /\ f \in [S -> Nat] /\ g \in [T -> Nat] /\ \A p \in S : g[p] = f[p]
    BY <1>2, <1>5, <1>6, <1>7
  <2>2. QED
    BY <2>1, TotalWithOneMore
<1>9. QED
  BY <1>6, <1>7, <1>8 DEF r

LEMMA TailOfBatches ==
  ASSUME NEW bs \in Seq(AnyBatch), bs # <<>>
  PROVE  /\ Tail(bs) \in Seq(AnyBatch) /\ Head(bs) = bs[1] /\ Head(bs) \in AnyBatch
         /\ 1 \in DOMAIN bs
         /\ \A p \in DOMAIN Tail(bs) : p + 1 \in DOMAIN bs \ {1} /\ Tail(bs)[p] = bs[p + 1]
         /\ \A p \in DOMAIN bs \ {1} : p - 1 \in DOMAIN Tail(bs) /\ (p - 1) + 1 = p
<1>1. Tail(bs) \in Seq(AnyBatch) /\ Head(bs) = bs[1] /\ Head(bs) \in AnyBatch
  BY HeadTailProperties
<1>2. Len(bs) \in Nat /\ Len(bs) # 0 /\ Len(Tail(bs)) = Len(bs) - 1
  BY HeadTailProperties, EmptySeq, LenProperties
<1>3. DOMAIN bs = 1..Len(bs) /\ DOMAIN Tail(bs) = 1..(Len(bs) - 1)
  BY <1>1, <1>2, LenProperties
<1>4. \A p \in 1..(Len(bs) - 1) : Tail(bs)[p] = bs[p + 1]
  BY <1>2, HeadTailProperties
<1>5. QED
  BY <1>1, <1>2, <1>3, <1>4

LEMMA HowManyTail ==
  ASSUME NEW s, NEW bs \in Seq(AnyBatch), bs # <<>>
  PROVE  HowMany(s, bs) = HowMany(s, Tail(bs)) + Len(Results(s, Head(bs)))
<1> DEFINE r == Tail(bs)
           S == DOMAIN r
           T == DOMAIN bs
           f == Counts(s, r)
           g == Counts(s, bs)
           h == [p \in S |-> p + 1]
<1>1. /\ r \in Seq(AnyBatch) /\ Head(bs) = bs[1] /\ 1 \in T
      /\ \A p \in S : p + 1 \in T \ {1} /\ r[p] = bs[p + 1]
      /\ \A p \in T \ {1} : p - 1 \in S /\ (p - 1) + 1 = p
  BY TailOfBatches
<1> HIDE DEF r
<1>2. /\ S = 1..Len(r) /\ Len(r) \in Nat /\ IsFiniteSet(S) /\ r \in [S -> AnyBatch]
      /\ IsFiniteSet(T) /\ bs \in [T -> AnyBatch]
  BY <1>1, AnyBatches
<1>3. /\ HowMany(s, r) = Total(f, S) /\ f \in [S -> Nat]
      /\ HowMany(s, bs) = Total(g, T) /\ g \in [T -> Nat]
  BY <1>2, HowManyIs
<1>4. h \in Bijection(S, T \ {1})
  <2>1. h \in [S -> T \ {1}]
    BY <1>1
  <2>2. \A p, q \in S : h[p] = h[q] => p = q
    BY <1>2
  <2>3. \A q \in T \ {1} : \E p \in S : h[p] = q
    BY <1>1
  <2> HIDE DEF h
  <2>4. QED
    BY <2>1, <2>2, <2>3 DEF Bijection, Injection, Surjection, IsInjective
<1>5. /\ \A p \in S : f[p] = g[h[p]]
      /\ g[1] = Len(Results(s, Head(bs)))
  BY <1>1 DEF Counts
<1> HIDE DEF S, T, f, g, h
<1>6. Total(f, S) = Total(g, T \ {1})
  <2>1. /\ IsFiniteSet(S) /\ f \in [S -> Nat] /\ h \in Bijection(S, T \ {1})
        /\ \A p \in S : f[p] = g[h[p]]
    BY <1>2, <1>3, <1>4, <1>5
  <2>2. QED
    BY <2>1, TotalOfRenamed
<1>7. Total(g, T) = g[1] + Total(g, T \ {1})
  <2>1. /\ IsFiniteSet(T) /\ g \in [T -> Nat] /\ T \in SUBSET T /\ 1 \in T
    BY <1>1, <1>2, <1>3
  <2>2. QED
    BY <2>1, TotalWithout
<1>8. Total(f, S) \in Nat /\ g[1] \in Nat
  <2>1. S \in SUBSET S
    OBVIOUS
  <2>2. QED
    BY <1>1, <1>2, <1>3, <2>1, TotalOfPart
<1>9. QED
  BY <1>3, <1>5, <1>6, <1>7, <1>8 DEF r

LEMMA WhichAppend ==
  ASSUME NEW s, NEW bs \in Seq(AnyBatch), NEW b \in AnyBatch
  PROVE  Which(s, Append(bs, b)) = Which(s, bs) \cup Range(Results(s, b))
<1> DEFINE r == Append(bs, b)
           n == Len(bs) + 1
<1>1. r \in Seq(AnyBatch) /\ Len(r) = n
  OBVIOUS
<1>2. Len(bs) \in Nat /\ DOMAIN bs = 1..Len(bs)
  BY AnyBatches
<1>3. r[n] = b /\ \A p \in DOMAIN bs : r[p] = bs[p]
  BY <1>2
<1> HIDE DEF r
<1>4. DOMAIN r = 1..n
  BY <1>1, AnyBatches
<1>5. DOMAIN r = DOMAIN bs \cup {n}
  BY <1>2, <1>4
<1> HIDE DEF n
<1>6. Which(s, r) = Which(s, bs) \cup Range(Results(s, b))
  BY <1>3, <1>5 DEF Which
<1>7. QED
  BY <1>6 DEF r

LEMMA WhichTail ==
  ASSUME NEW s, NEW bs \in Seq(AnyBatch), bs # <<>>
  PROVE  Which(s, bs) = Which(s, Tail(bs)) \cup Range(Results(s, Head(bs)))
<1> DEFINE r == Tail(bs)
<1>1. /\ Head(bs) = bs[1] /\ 1 \in DOMAIN bs
      /\ \A p \in DOMAIN r : p + 1 \in DOMAIN bs \ {1} /\ r[p] = bs[p + 1]
      /\ \A p \in DOMAIN bs \ {1} : p - 1 \in DOMAIN r /\ (p - 1) + 1 = p
  BY TailOfBatches
<1> HIDE DEF r
<1>2. ASSUME NEW x \in Which(s, bs)
      PROVE  x \in Which(s, r) \cup Range(Results(s, Head(bs)))
  <2>1. PICK p \in DOMAIN bs : x \in Range(Results(s, bs[p]))
    BY DEF Which
  <2>2. CASE p = 1
    BY <1>1, <2>1, <2>2
  <2>3. CASE p # 1
    <3>1. PICK q \in DOMAIN r : r[q] = bs[p]
      BY <1>1, <2>3
    <3>2. QED
      BY <2>1, <3>1 DEF Which
  <2>4. QED
    BY <2>2, <2>3
<1>3. ASSUME NEW x \in Which(s, r) \cup Range(Results(s, Head(bs)))
      PROVE  x \in Which(s, bs)
  <2>1. CASE x \in Range(Results(s, Head(bs)))
    BY <1>1, <2>1 DEF Which
  <2>2. CASE x \in Which(s, r)
    <3>1. PICK p \in DOMAIN r : x \in Range(Results(s, r[p]))
      BY <2>2 DEF Which
    <3>2. PICK q \in DOMAIN bs : r[p] = bs[q]
      BY <1>1
    <3>3. QED
      BY <3>1, <3>2 DEF Which
  <2>3. QED
    BY <1>3, <2>1, <2>2
<1>4. QED
  BY <1>2, <1>3 DEF r

(* Holders that hold nothing.                                              *)
LEMMA NothingHeld ==
  ASSUME NEW s, NEW S, IsFiniteSet(S), NEW bs \in [S -> AnyBatch],
         \A p \in S : Results(s, bs[p]) = <<>>
  PROVE  HowMany(s, bs) = 0 /\ Which(s, bs) = {}
<1> DEFINE f == Counts(s, bs)
<1>1. DOMAIN bs = S
  OBVIOUS
<1>2. HowMany(s, bs) = Total(f, S)
  BY <1>1, HowManyIs
<1>3. \A p \in S : f[p] = 0
  BY <1>1, RangeOfNone DEF Counts
<1> HIDE DEF f
<1>4. Units(f, S) = {}
  BY <1>3 DEF Units
<1>5. Total(f, S) = 0
  BY <1>4, FS_EmptySet DEF Total
<1>6. Which(s, bs) = {}
  BY <1>1, RangeOfNone DEF Which
<1>7. QED
  BY <1>2, <1>5, <1>6

-----------------------------------------------------------------------------
(* What is put somewhere is what was taken elsewhere.                      *)

LEMMA LenAndRange ==
  ASSUME NEW a \in Seq(Logs), NEW b \in Seq(Logs)
  PROVE  /\ a \o b \in Seq(Logs) /\ Len(a \o b) = Len(a) + Len(b)
         /\ Range(a \o b) = Range(a) \cup Range(b)
<1>1. /\ a \o b \in Seq(Logs) /\ Len(a \o b) = Len(a) + Len(b)
      /\ Len(a) \in Nat /\ Len(b) \in Nat
  BY ConcatProperties, LenProperties
<1>2. DOMAIN a = 1..Len(a) /\ DOMAIN b = 1..Len(b) /\ DOMAIN (a \o b) = 1..(Len(a) + Len(b))
  BY <1>1, LenProperties
<1>3. /\ \A i \in 1..Len(a) : (a \o b)[i] = a[i]
      /\ \A i \in 1..Len(b) : (a \o b)[Len(a) + i] = b[i]
  BY <1>1
<1>4. ASSUME NEW x \in Range(a \o b) PROVE x \in Range(a) \cup Range(b)
  <2>1. PICK i \in 1..(Len(a) + Len(b)) : x = (a \o b)[i]
    BY <1>2 DEF Range
  <2>2. CASE i <= Len(a)
    <3>1. i \in 1..Len(a)
      BY <1>1, <2>2
    <3>2. QED
      BY <1>2, <1>3, <2>1, <3>1 DEF Range
  <2>3. CASE ~(i <= Len(a))
    <3>1. PICK j \in 1..Len(b) : i = Len(a) + j
      <4>1. i - Len(a) \in 1..Len(b) /\ i = Len(a) + (i - Len(a))
        BY <1>1, <2>3
      <4>2. QED
        BY <4>1
    <3>2. x = b[j]
      BY <1>3, <2>1, <3>1
    <3>3. QED
      BY <1>2, <3>2 DEF Range
  <2>4. QED
    BY <2>2, <2>3
<1>5. Range(a) \subseteq Range(a \o b)
  <2>1. \A i \in 1..Len(a) : i \in 1..(Len(a) + Len(b))
    BY <1>1
  <2>2. QED
    BY <1>2, <1>3, <2>1 DEF Range
<1>6. Range(b) \subseteq Range(a \o b)
  <2>1. \A i \in 1..Len(b) : Len(a) + i \in 1..(Len(a) + Len(b))
    BY <1>1
  <2>2. QED
    BY <1>2, <1>3, <2>1 DEF Range
<1>7. QED
  BY <1>1, <1>4, <1>5, <1>6

Sequences == [Symbols -> Seq(Logs)]

(* One more batch, for the results of s.                                   *)
OneMore(s, r, e, b) ==
  /\ Len(r[s]) = Len(e[s]) + Len(Results(s, b))
  /\ Range(r[s]) = Range(e[s]) \cup Range(Results(s, b))

PutInto(e, b) == [e EXCEPT ![b.symbol] = @ \o b.mrs]

LEMMA PutIn ==
  ASSUME NEW e \in Sequences, NEW b \in Batches, NEW s \in Symbols,
         NEW r, r = PutInto(e, b)
  PROVE  r \in Sequences /\ OneMore(s, r, e, b)
<1>1. b.symbol \in Symbols /\ b.mrs \in Seq(Logs) /\ b \in AnyBatch
  BY DEF Batches, AnyBatch
<1>2. e[s] \in Seq(Logs) /\ e[b.symbol] \in Seq(Logs) /\ Len(e[s]) \in Nat
  BY <1>1, LenProperties DEF PutInto, Sequences
<1>3. e[b.symbol] \o b.mrs \in Seq(Logs)
  BY <1>1, <1>2, LenAndRange
<1>4. r \in Sequences
  BY <1>3 DEF PutInto, Sequences
<1>5. CASE b.symbol = s
  <2>1. r[s] = e[s] \o b.mrs /\ Results(s, b) = b.mrs
    BY <1>5 DEF PutInto, Sequences, Results
  <2>2. QED
    BY <1>1, <1>2, <1>4, <2>1, LenAndRange DEF OneMore
<1>6. CASE b.symbol # s
  <2>1. r[s] = e[s] /\ Results(s, b) = <<>>
    BY <1>6 DEF PutInto, Sequences, Results
  <2>2. Len(Results(s, b)) = 0 /\ Range(Results(s, b)) = {}
    BY <2>1, RangeOfNone
  <2>3. Len(r[s]) = Len(e[s]) + Len(Results(s, b))
    <3>1. Len(r[s]) = Len(e[s])
      BY <2>1
    <3>2. Len(e[s]) + 0 = Len(e[s])
      BY <1>2
    <3>3. QED
      BY <2>2, <3>1, <3>2, Zenon
  <2>4. Range(r[s]) = Range(e[s]) \cup Range(Results(s, b))
    <3>1. Range(r[s]) = Range(e[s])
      BY <2>1
    <3>2. QED
      BY <2>2, <3>1
  <2>5. QED
    BY <1>4, <2>3, <2>4 DEF OneMore
<1>7. QED
  BY <1>5, <1>6

(* The batch a flusher makes of what waits for a symbol.                   *)
BatchOf(p, t) == IF p[t] = <<>> THEN NoBatch ELSE [symbol |-> t, mrs |-> p[t]]

Emptied(p, t) == [p EXCEPT ![t] = <<>>]

LEMMA TakeOut ==
  ASSUME NEW p \in Sequences, NEW t \in Symbols, NEW s \in Symbols,
         NEW r, r = Emptied(p, t), NEW b, b = BatchOf(p, t)
  PROVE  /\ r \in Sequences /\ b \in Batches \cup {NoBatch}
         /\ OneMore(s, p, r, b)
<1>1. p[t] \in Seq(Logs) /\ p[s] \in Seq(Logs) /\ Len(p[s]) \in Nat
  BY LenProperties DEF Sequences
<1>2. r \in Sequences
  BY DEF Sequences, Emptied
<1>3. CASE p[t] = <<>>
  <2>1. b = NoBatch /\ r = p
    BY <1>3 DEF BatchOf, Sequences, Emptied
  <2> HIDE DEF NoBatch
  <2>2. QED
    BY <1>1, <1>2, <2>1, ResultsOfNone, RangeOfNone DEF OneMore
<1>4. CASE p[t] # <<>>
  <2>1. b = [symbol |-> t, mrs |-> p[t]]
    BY <1>4 DEF BatchOf
  <2>2. b \in Batches /\ b.symbol = t /\ b.mrs = p[t]
    BY <1>1, <2>1 DEF Batches
  <2>3. CASE s = t
    <3>1. Results(s, b) = p[s] /\ r[s] = <<>>
      BY <2>2, <2>3 DEF Results, Sequences, Emptied
    <3>2. QED
      BY <1>1, <1>2, <2>2, <3>1, RangeOfNone DEF OneMore
  <2>4. CASE s # t
    <3>1. Results(s, b) = <<>> /\ r[s] = p[s]
      BY <2>2, <2>4 DEF Results, Sequences, Emptied
    <3>2. QED
      BY <1>1, <1>2, <2>2, <3>1, RangeOfNone DEF OneMore
  <2>5. QED
    BY <2>3, <2>4
<1>5. QED
  BY <1>3, <1>4

LEMMA HowManyType ==
  ASSUME NEW s, NEW S, IsFiniteSet(S), NEW bs \in [S -> AnyBatch]
  PROVE  HowMany(s, bs) \in Nat
<1>1. DOMAIN bs = S /\ \A p \in S : bs[p] \in AnyBatch
  OBVIOUS
<1>2. HowMany(s, bs) = Total(Counts(s, bs), S) /\ Counts(s, bs) \in [S -> Nat]
  BY <1>1, HowManyIs
<1>3. S \in SUBSET S
  OBVIOUS
<1>4. QED
  BY <1>2, <1>3, TotalOfPart

-----------------------------------------------------------------------------
(* The orders of a symbol that its matcher has taken.                      *)

Given(sq, q) == SubSeq(sq, 1, Len(sq) - Len(q))

Backlog(sq, q) == q \in Seq(Logs) /\ \E m \in Seq(Logs) : sq = m \o q

LEMMA GivenIs ==
  ASSUME NEW m \in Seq(Logs), NEW q \in Seq(Logs)
  PROVE  Given(m \o q, q) = m
<1>1. Len(m) \in Nat /\ Len(q) \in Nat /\ Len(m \o q) = Len(m) + Len(q)
  BY LenProperties, ConcatProperties
<1>2. Len(m \o q) - Len(q) = Len(m)
  BY <1>1
<1>3. SubSeq(m \o q, 1, Len(m)) = m
  BY <1>1
<1>4. QED
  BY <1>2, <1>3 DEF Given

LEMMA BacklogGrows ==
  ASSUME NEW sq, NEW q, Backlog(sq, q), NEW x \in Logs
  PROVE  Backlog(Append(sq, x), Append(q, x)) /\ Given(Append(sq, x), Append(q, x)) = Given(sq, q)
<1>1. PICK m \in Seq(Logs) : sq = m \o q
  BY DEF Backlog
<1>2. q \in Seq(Logs) /\ Append(q, x) \in Seq(Logs)
  BY DEF Backlog
<1>3. Append(sq, x) = m \o Append(q, x)
  <2>1. Append(m \o q, x) = (m \o q) \o <<x>> /\ Append(q, x) = q \o <<x>>
    BY <1>2, AppendIsConcat, ConcatProperties
  <2>2. \A a, b, c \in Seq(Logs) : (a \o b) \o c = a \o (b \o c)
    BY ConcatAssociative
  <2>3. <<x>> \in Seq(Logs)
    OBVIOUS
  <2>4. (m \o q) \o <<x>> = m \o (q \o <<x>>)
    BY <1>2, <2>2, <2>3, Zenon
  <2>5. QED
    BY <1>1, <2>1, <2>4
<1>4. Given(sq, q) = m /\ Given(Append(sq, x), Append(q, x)) = m
  <2>1. Given(m \o q, q) = m /\ Given(m \o Append(q, x), Append(q, x)) = m
    BY <1>2, GivenIs
  <2>2. QED
    BY <1>1, <1>3, <2>1
<1>5. QED
  BY <1>1, <1>2, <1>3, <1>4 DEF Backlog

LEMMA BacklogShrinks ==
  ASSUME NEW sq, NEW q, Backlog(sq, q), q # <<>>
  PROVE  /\ Backlog(sq, Tail(q)) /\ Given(sq, q) \in Seq(Logs) /\ Head(q) \in Logs
         /\ Given(sq, Tail(q)) = Given(sq, q) \o <<Head(q)>>
<1>1. PICK m \in Seq(Logs) : sq = m \o q
  BY DEF Backlog
<1>2. q \in Seq(Logs)
  BY DEF Backlog
<1>3. /\ Head(q) \in Logs /\ Tail(q) \in Seq(Logs) /\ Append(m, Head(q)) \in Seq(Logs)
      /\ Append(m, Head(q)) \o Tail(q) = m \o q
  BY <1>2, HeadThenTail
<1>4. Append(m, Head(q)) = m \o <<Head(q)>>
  BY <1>3, AppendIsConcat
<1>5. Given(sq, q) = m /\ Given(sq, Tail(q)) = Append(m, Head(q))
  <2>1. Given(m \o q, q) = m
    BY <1>2, GivenIs
  <2>2. Given(Append(m, Head(q)) \o Tail(q), Tail(q)) = Append(m, Head(q))
    BY <1>3, GivenIs
  <2>3. QED
    BY <1>1, <1>3, <2>1, <2>2
<1>6. QED
  BY <1>1, <1>3, <1>4, <1>5 DEF Backlog

-----------------------------------------------------------------------------
(* What the settlement holds.                                              *)

Inputs == [todo : SUBSET Symbols, batch : Batches \cup {NoBatch}]

SinkTypes ==
  /\ pending \in Sequences /\ ended \in Sequences
  /\ flusher \in [Flushers -> Inputs]
  /\ submitCh \in Seq(Batches) /\ worker \in [Workers -> AnyBatch]

Hands(fl) == [f \in Flushers |-> fl[f].batch]

LEMMA FlushersAreFinite == IsFiniteSet(Flushers) /\ IsFiniteSet(Workers)
<1>1. IsFiniteSet({"timer"}) /\ IsFiniteSet({"timer"} \cup {"shutdown"})
  BY FS_Singleton, FS_AddElement
<1>2. {"timer"} \cup {"shutdown"} = {"timer", "shutdown"}
  OBVIOUS
<1>3. IsFiniteSet(Symbols \cup {"timer", "shutdown"})
  BY <1>1, <1>2, FS_Union, SettlementAssumption
<1>4. QED
  BY <1>3, SettlementAssumption DEF Flushers

LEMMA HandTypes ==
  ASSUME NEW fl \in [Flushers -> Inputs]
  PROVE  Hands(fl) \in [Flushers -> AnyBatch]
<1>1. \A f \in Flushers : fl[f].batch \in AnyBatch
  BY DEF Inputs, AnyBatch
<1>2. QED
  BY <1>1 DEF Hands

LEMMA SeqOfBatches ==
  ASSUME NEW ch \in Seq(Batches)
  PROVE  ch \in Seq(AnyBatch)
<1>1. ch \in [1..Len(ch) -> Batches] /\ Len(ch) \in Nat
  BY LenProperties
<1>2. ch \in [1..Len(ch) -> AnyBatch]
  BY <1>1 DEF AnyBatch
<1>3. QED
  BY <1>1, <1>2, FunctionIsSeq

(* The counts of a settlement are numbers.                                 *)
LEMMA CountsAreNumbers ==
  ASSUME NEW s \in Symbols, NEW e \in Sequences, NEW p \in Sequences,
         NEW ch \in Seq(Batches), NEW fl \in [Flushers -> Inputs],
         NEW wk \in [Workers -> AnyBatch]
  PROVE  /\ Len(e[s]) \in Nat /\ Len(p[s]) \in Nat
         /\ HowMany(s, ch) \in Nat /\ HowMany(s, Hands(fl)) \in Nat
         /\ HowMany(s, wk) \in Nat
<1>1. Len(e[s]) \in Nat /\ Len(p[s]) \in Nat
  BY LenProperties DEF Sequences
<1>2. HowMany(s, ch) \in Nat
  BY SeqOfBatches, AnyBatches, HowManyType
<1>3. HowMany(s, Hands(fl)) \in Nat /\ HowMany(s, wk) \in Nat
  BY HandTypes, FlushersAreFinite, HowManyType
<1>4. QED
  BY <1>1, <1>2, <1>3

(* A flusher has another batch in hand.                                    *)
InHandNow(s, r, fl, new, old) ==
  /\ HowMany(s, Hands(r)) + Len(Results(s, old))
       = HowMany(s, Hands(fl)) + Len(Results(s, new))
  /\ Which(s, Hands(r)) \cup Range(Results(s, old))
       = Which(s, Hands(fl)) \cup Range(Results(s, new))

LEMMA HandChanges ==
  ASSUME NEW s \in Symbols, NEW fl \in [Flushers -> Inputs], NEW f \in Flushers,
         NEW i \in Inputs, NEW r, r = Swap(fl, f, i)
  PROVE  r \in [Flushers -> Inputs] /\ InHandNow(s, r, fl, i.batch, fl[f].batch)
<1> DEFINE h == Hands(fl)
           b == i.batch
<1>1. r \in [Flushers -> Inputs] /\ r[f] = i /\ \A g \in Flushers \ {f} : r[g] = fl[g]
  BY DEF Swap
<1>2. Hands(r) = Swap(h, f, b)
  BY <1>1 DEF Hands, Swap
<1>3. h \in [Flushers -> AnyBatch] /\ h[f] = fl[f].batch
  BY HandTypes DEF Hands
<1>4. b \in AnyBatch /\ IsFiniteSet(Flushers)
  BY FlushersAreFinite DEF Inputs, AnyBatch
<1> HIDE DEF h, b
<1>5. HowMany(s, Swap(h, f, b)) + Len(Results(s, h[f]))
        = HowMany(s, h) + Len(Results(s, b))
  BY <1>3, <1>4, HowManySet
<1>6. Exchanged(Which(s, Swap(h, f, b)), Which(s, h),
                Range(Results(s, b)), Range(Results(s, h[f])))
  <2>1. h \in [Flushers -> AnyBatch] /\ f \in Flushers /\ b \in AnyBatch
    BY <1>3, <1>4
  <2>2. QED
    BY <2>1, WhichSet, Zenon
<1>7. QED
  BY <1>1, <1>2, <1>3, <1>5, <1>6 DEF h, b, Exchanged, InHandNow

(* A worker has another batch.                                             *)
AtWorkNow(s, r, wk, new, old) ==
  /\ HowMany(s, r) + Len(Results(s, old)) = HowMany(s, wk) + Len(Results(s, new))
  /\ Which(s, r) \cup Range(Results(s, old)) = Which(s, wk) \cup Range(Results(s, new))

LEMMA WorkerChanges ==
  ASSUME NEW s \in Symbols, NEW wk \in [Workers -> AnyBatch], NEW w \in Workers,
         NEW b \in AnyBatch, NEW r, r = Swap(wk, w, b)
  PROVE  r \in [Workers -> AnyBatch] /\ AtWorkNow(s, r, wk, b, wk[w])
<1>1. r \in [Workers -> AnyBatch] /\ r = Swap(wk, w, b)
  BY DEF Swap
<1>2. HowMany(s, Swap(wk, w, b)) + Len(Results(s, wk[w]))
        = HowMany(s, wk) + Len(Results(s, b))
  BY FlushersAreFinite, HowManySet
<1>3. Exchanged(Which(s, Swap(wk, w, b)), Which(s, wk),
                Range(Results(s, b)), Range(Results(s, wk[w])))
  BY WhichSet
<1>4. QED
  BY <1>1, <1>2, <1>3 DEF Exchanged, AtWorkNow

(* Only the work of a flusher changes.                                     *)
WithTodo(fl, f, x) == [fl EXCEPT ![f].todo = x]

LEMMA TodoChanges ==
  ASSUME NEW fl \in [Flushers -> Inputs], NEW f \in Flushers, NEW x \in SUBSET Symbols,
         NEW r, r = WithTodo(fl, f, x)
  PROVE  r \in [Flushers -> Inputs] /\ Hands(r) = Hands(fl)
<1>1. /\ [fl[f] EXCEPT !.todo = x] \in Inputs
      /\ [fl[f] EXCEPT !.todo = x].batch = fl[f].batch
  BY DEF Inputs
<1>2. \A g \in Flushers : r[g] \in Inputs /\ r[g].batch = fl[g].batch
  BY <1>1 DEF WithTodo
<1>3. r \in [Flushers -> Inputs]
  BY <1>1 DEF WithTodo
<1>4. QED
  BY <1>2, <1>3 DEF Hands

LEMMA InputFields ==
  ASSUME NEW i \in Inputs
  PROVE  /\ i.todo \in SUBSET Symbols
         /\ i.batch # NoBatch => i.batch \in Batches
         /\ i.batch \in AnyBatch
BY DEF Inputs, AnyBatch

LEMMA NewBatch ==
  ASSUME NEW i \in Inputs, NEW b \in Batches \cup {NoBatch}
  PROVE  /\ [i EXCEPT !.batch = b] \in Inputs
         /\ [i EXCEPT !.batch = b].batch = b
BY DEF Inputs

-----------------------------------------------------------------------------
(* The steps of the settlement: it holds what it held.                     *)

Many(s, e, p, ch, fl, wk) ==
  Len(e[s]) + Len(p[s]) + HowMany(s, ch) + HowMany(s, Hands(fl)) + HowMany(s, wk)

Those(s, e, p, ch, fl, wk) ==
  Range(e[s]) \cup Range(p[s]) \cup
    Which(s, ch) \cup Which(s, Hands(fl)) \cup Which(s, wk)

HeldSame(s) ==
  /\ Many(s, ended', pending', submitCh', flusher', worker')
       = Many(s, ended, pending, submitCh, flusher, worker)
  /\ Those(s, ended', pending', submitCh', flusher', worker')
       = Those(s, ended, pending, submitCh, flusher, worker)

Keeps == SinkTypes' /\ \A s \in Symbols : HeldSame(s)

LEMMA TodoKeeps ==
  ASSUME SinkTypes, NEW f \in Flushers, NEW x \in SUBSET Symbols,
         flusher' = [flusher EXCEPT ![f].todo = x],
         UNCHANGED <<pending, submitCh, worker, ended>>
  PROVE  Keeps
<1>1. flusher \in [Flushers -> Inputs] /\ flusher' = WithTodo(flusher, f, x)
  BY DEF SinkTypes, WithTodo
<1>2. flusher' \in [Flushers -> Inputs] /\ Hands(flusher') = Hands(flusher)
  BY <1>1, TodoChanges
<1>3. SinkTypes'
  BY <1>2 DEF SinkTypes
<1>4. \A s \in Symbols : HeldSame(s)
  BY <1>2 DEF HeldSame, Many, Those
<1>5. QED
  BY <1>3, <1>4 DEF Keeps

LEMMA FlushKeeps ==
  ASSUME SinkTypes, NEW f \in Flushers, Flush(f)
  PROVE  Keeps
<1> DEFINE h == flusher[f]
<1>1. h \in Inputs /\ h.batch = NoBatch
  BY DEF Flush, SinkTypes
<1>2. PICK t \in h.todo :
        /\ flusher' = [flusher EXCEPT
             ![f].todo = @ \ {t},
             ![f].batch = IF pending[t] = <<>> THEN NoBatch
                          ELSE [symbol |-> t, mrs |-> pending[t]]]
        /\ pending' = [pending EXCEPT ![t] = Left(t)]
  BY DEF Flush
<1>3. t \in Symbols /\ UNCHANGED <<submitCh, worker, ended>>
  BY <1>1, <1>2, InputFields DEF Flush
<1> DEFINE b == BatchOf(pending, t)
           i == [h EXCEPT !.todo = @ \ {t}, !.batch = b]
<1>4. pending' = Emptied(pending, t) /\ pending \in Sequences
  BY <1>2 DEF Left, Emptied, SinkTypes
<1>5. flusher' = Swap(flusher, f, i) /\ flusher \in [Flushers -> Inputs]
  BY <1>2 DEF BatchOf, SinkTypes, Swap
<1>6. pending' \in Sequences /\ b \in Batches \cup {NoBatch} /\ b = BatchOf(pending, t)
  <2> HIDE DEF b
  <2>1. QED
    BY <1>3, <1>4, TakeOut DEF b
<1> HIDE DEF b
<1>7. i \in Inputs /\ i.batch = b
  BY <1>1, <1>6 DEF Inputs
<1> HIDE DEF i
<1>8. flusher' \in [Flushers -> Inputs]
  BY <1>5, <1>7 DEF Swap
<1>9. SinkTypes'
  BY <1>3, <1>6, <1>8 DEF SinkTypes
<1>10. ASSUME NEW s \in Symbols PROVE HeldSame(s)
  <2>1. OneMore(s, pending, pending', b)
    BY <1>3, <1>4, <1>6, TakeOut
  <2>2. InHandNow(s, flusher', flusher, b, h.batch)
    <3>1. InHandNow(s, flusher', flusher, i.batch, flusher[f].batch)
      BY <1>5, <1>7, HandChanges
    <3>2. QED
      BY <1>7, <3>1
  <2>3. Len(Results(s, h.batch)) = 0 /\ Range(Results(s, h.batch)) = {}
    BY <1>1, ResultsOfNone, RangeOfNone
  <2>4. /\ HowMany(s, Hands(flusher)) \in Nat /\ HowMany(s, Hands(flusher')) \in Nat
        /\ Len(pending[s]) \in Nat /\ Len(pending'[s]) \in Nat /\ Len(ended[s]) \in Nat
        /\ HowMany(s, submitCh) \in Nat /\ HowMany(s, worker) \in Nat
        /\ Len(Results(s, b)) \in Nat
    BY <1>4, <1>6, <1>8, CountsAreNumbers, ResultsType DEF SinkTypes, AnyBatch
  <2>5. Many(s, ended', pending', submitCh', flusher', worker')
          = Many(s, ended, pending, submitCh, flusher, worker)
    <3>1. Many(s, ended', pending', submitCh', flusher', worker')
            = Many(s, ended, pending', submitCh, flusher', worker)
      BY <1>3
    <3>2. PICK a, c, w, x, y, j, k, r \in Nat :
            /\ a = Len(ended[s]) /\ c = HowMany(s, submitCh) /\ w = HowMany(s, worker)
            /\ x = Len(pending[s]) /\ y = Len(pending'[s])
            /\ j = HowMany(s, Hands(flusher)) /\ k = HowMany(s, Hands(flusher'))
            /\ r = Len(Results(s, b))
      BY <2>4
    <3>3. /\ Many(s, ended, pending', submitCh, flusher', worker) = a + y + c + k + w
          /\ Many(s, ended, pending, submitCh, flusher, worker) = a + x + c + j + w
      BY <3>2 DEF Many
    <3>4. x = y + r /\ k + 0 = j + r
      BY <2>1, <2>2, <2>3, <3>2 DEF OneMore, InHandNow
    <3>5. a + y + c + k + w = a + x + c + j + w
      BY <3>4
    <3>6. QED
      BY <3>1, <3>3, <3>5
  <2>6. Those(s, ended', pending', submitCh', flusher', worker')
          = Those(s, ended, pending, submitCh, flusher, worker)
    BY <1>3, <2>1, <2>2, <2>3 DEF Those, OneMore, InHandNow
  <2>7. QED
    BY <2>5, <2>6 DEF HeldSame
<1>11. QED
  BY <1>9, <1>10 DEF Keeps

(* The channel of batches.                                                 *)
OneMoreBatch(s, r, ch, b) ==
  /\ HowMany(s, r) = HowMany(s, ch) + Len(Results(s, b))
  /\ Which(s, r) = Which(s, ch) \cup Range(Results(s, b))

LEMMA ChannelGrows ==
  ASSUME NEW s, NEW ch \in Seq(Batches), NEW b \in Batches
  PROVE  Append(ch, b) \in Seq(Batches) /\ OneMoreBatch(s, Append(ch, b), ch, b)
<1>1. ch \in Seq(AnyBatch) /\ b \in AnyBatch
  BY SeqOfBatches DEF AnyBatch
<1>2. QED
  BY <1>1, HowManyAppend, WhichAppend DEF OneMoreBatch

LEMMA ChannelShrinks ==
  ASSUME NEW s, NEW ch \in Seq(Batches), ch # <<>>
  PROVE  /\ Tail(ch) \in Seq(Batches) /\ Head(ch) \in Batches
         /\ OneMoreBatch(s, ch, Tail(ch), Head(ch))
<1>1. ch \in Seq(AnyBatch)
  BY SeqOfBatches
<1>2. Tail(ch) \in Seq(Batches) /\ Head(ch) \in Batches
  BY HeadTailProperties
<1>3. QED
  BY <1>1, <1>2, HowManyTail, WhichTail DEF OneMoreBatch

LEMMA PutKeeps ==
  ASSUME SinkTypes, NEW f \in Flushers, Put(f)
  PROVE  Keeps
<1> DEFINE h == flusher[f]
           b == h.batch
           i == [h EXCEPT !.batch = NoBatch]
<1>1. h \in Inputs /\ b \in Batches
  BY InputFields DEF Put, SinkTypes
<1>2. /\ submitCh' = Append(submitCh, b) /\ flusher' = Swap(flusher, f, i)
      /\ UNCHANGED <<pending, worker, ended>>
  BY DEF Put, Swap, SinkTypes
<1>3. i \in Inputs /\ i.batch = NoBatch
  BY <1>1, NewBatch
<1> HIDE DEF i
<1>4. flusher \in [Flushers -> Inputs] /\ flusher' \in [Flushers -> Inputs]
  BY <1>2, <1>3 DEF SinkTypes, Swap
<1>5. submitCh \in Seq(Batches) /\ submitCh' \in Seq(Batches)
  BY <1>1, <1>2, ChannelGrows DEF SinkTypes
<1>6. SinkTypes'
  BY <1>2, <1>4, <1>5 DEF SinkTypes
<1>7. ASSUME NEW s \in Symbols PROVE HeldSame(s)
  <2>1. OneMoreBatch(s, submitCh', submitCh, b)
    BY <1>1, <1>2, <1>5, ChannelGrows
  <2>2. InHandNow(s, flusher', flusher, NoBatch, b)
    <3>1. InHandNow(s, flusher', flusher, i.batch, flusher[f].batch)
      BY <1>2, <1>3, <1>4, HandChanges
    <3>2. QED
      BY <1>3, <3>1
  <2>3. Len(Results(s, NoBatch)) = 0 /\ Range(Results(s, NoBatch)) = {}
    BY ResultsOfNone, RangeOfNone
  <2>4. Many(s, ended', pending', submitCh', flusher', worker')
          = Many(s, ended, pending, submitCh, flusher, worker)
    <3>1. Many(s, ended', pending', submitCh', flusher', worker')
            = Many(s, ended, pending, submitCh', flusher', worker)
      BY <1>2
    <3>2. PICK a, p, w, x, y, j, k, r \in Nat :
            /\ a = Len(ended[s]) /\ p = Len(pending[s]) /\ w = HowMany(s, worker)
            /\ x = HowMany(s, submitCh) /\ y = HowMany(s, submitCh')
            /\ j = HowMany(s, Hands(flusher)) /\ k = HowMany(s, Hands(flusher'))
            /\ r = Len(Results(s, b))
      BY <1>1, <1>4, <1>5, CountsAreNumbers, ResultsType DEF SinkTypes, AnyBatch
    <3>3. /\ Many(s, ended, pending, submitCh', flusher', worker) = a + p + y + k + w
          /\ Many(s, ended, pending, submitCh, flusher, worker) = a + p + x + j + w
      BY <3>2 DEF Many
    <3>4. y = x + r /\ k + r = j + 0
      BY <2>1, <2>2, <2>3, <3>2 DEF OneMoreBatch, InHandNow
    <3>5. a + p + y + k + w = a + p + x + j + w
      BY <3>4
    <3>6. QED
      BY <3>1, <3>3, <3>5
  <2>5. Those(s, ended', pending', submitCh', flusher', worker')
          = Those(s, ended, pending, submitCh, flusher, worker)
    BY <1>2, <2>1, <2>2, <2>3 DEF Those, OneMoreBatch, InHandNow
  <2>6. QED
    BY <2>4, <2>5 DEF HeldSame
<1>8. QED
  BY <1>6, <1>7 DEF Keeps

LEMMA DropKeeps ==
  ASSUME SinkTypes, NEW f \in Flushers, Drop(f)
  PROVE  Keeps
<1> DEFINE h == flusher[f]
           b == h.batch
           i == [h EXCEPT !.batch = NoBatch]
<1>1. h \in Inputs /\ b \in Batches
  BY InputFields DEF Drop, SinkTypes
<1>2. /\ ended' = PutInto(ended, b) /\ flusher' = Swap(flusher, f, i)
      /\ UNCHANGED <<pending, submitCh, worker>>
  BY DEF Drop, Ended, PutInto, Swap, SinkTypes
<1>3. i \in Inputs /\ i.batch = NoBatch
  BY <1>1, NewBatch
<1> HIDE DEF i
<1>4. flusher \in [Flushers -> Inputs] /\ flusher' \in [Flushers -> Inputs]
  BY <1>2, <1>3 DEF SinkTypes, Swap
<1>5. /\ ended \in Sequences /\ ended' \in Sequences
      /\ \A s \in Symbols : OneMore(s, ended', ended, b)
  <2>1. ended \in Sequences
    BY DEF SinkTypes
  <2>2. \A s \in Symbols : ended' \in Sequences /\ OneMore(s, ended', ended, b)
    BY <1>1, <1>2, <2>1, PutIn
  <2>3. b.symbol \in Symbols
    BY <1>1 DEF Batches
  <2>4. QED
    BY <2>1, <2>2, <2>3
<1>6. SinkTypes'
  BY <1>2, <1>4, <1>5 DEF SinkTypes
<1>7. ASSUME NEW s \in Symbols PROVE HeldSame(s)
  <2>1. OneMore(s, ended', ended, b)
    BY <1>5
  <2>2. InHandNow(s, flusher', flusher, NoBatch, b)
    <3>1. InHandNow(s, flusher', flusher, i.batch, flusher[f].batch)
      BY <1>2, <1>3, <1>4, HandChanges
    <3>2. QED
      BY <1>3, <3>1
  <2>3. Len(Results(s, NoBatch)) = 0 /\ Range(Results(s, NoBatch)) = {}
    BY ResultsOfNone, RangeOfNone
  <2>4. Many(s, ended', pending', submitCh', flusher', worker')
          = Many(s, ended, pending, submitCh, flusher, worker)
    <3>1. Many(s, ended', pending', submitCh', flusher', worker')
            = Many(s, ended', pending, submitCh, flusher', worker)
      BY <1>2
    <3>2. PICK p, c, w, x, y, j, k, r \in Nat :
            /\ p = Len(pending[s]) /\ c = HowMany(s, submitCh) /\ w = HowMany(s, worker)
            /\ x = Len(ended[s]) /\ y = Len(ended'[s])
            /\ j = HowMany(s, Hands(flusher)) /\ k = HowMany(s, Hands(flusher'))
            /\ r = Len(Results(s, b))
      BY <1>1, <1>4, <1>5, CountsAreNumbers, ResultsType DEF SinkTypes, AnyBatch
    <3>3. /\ Many(s, ended', pending, submitCh, flusher', worker) = y + p + c + k + w
          /\ Many(s, ended, pending, submitCh, flusher, worker) = x + p + c + j + w
      BY <3>2 DEF Many
    <3>4. y = x + r /\ k + r = j + 0
      BY <2>1, <2>2, <2>3, <3>2 DEF OneMore, InHandNow
    <3>5. y + p + c + k + w = x + p + c + j + w
      BY <3>4
    <3>6. QED
      BY <3>1, <3>3, <3>5
  <2>5. Those(s, ended', pending', submitCh', flusher', worker')
          = Those(s, ended, pending, submitCh, flusher, worker)
    BY <1>2, <2>1, <2>2, <2>3 DEF Those, OneMore, InHandNow
  <2>6. QED
    BY <2>4, <2>5 DEF HeldSame
<1>8. QED
  BY <1>6, <1>7 DEF Keeps

LEMMA TakeBatchKeeps ==
  ASSUME SinkTypes, NEW w \in Workers, TakeBatch(w)
  PROVE  Keeps
<1> DEFINE b == Head(submitCh)
<1>1. /\ submitCh # <<>> /\ submitCh' = Tail(submitCh) /\ worker[w] = NoBatch
      /\ worker' = Swap(worker, w, b) /\ UNCHANGED <<pending, flusher, ended>>
  BY DEF TakeBatch, Swap
<1>2. /\ submitCh \in Seq(Batches) /\ submitCh' \in Seq(Batches) /\ b \in Batches
      /\ \A s \in Symbols : OneMoreBatch(s, submitCh, submitCh', b)
  <2>1. submitCh \in Seq(Batches)
    BY DEF SinkTypes
  <2>2. /\ Tail(submitCh) \in Seq(Batches) /\ b \in Batches
        /\ \A s : OneMoreBatch(s, submitCh, Tail(submitCh), Head(submitCh))
    BY <1>1, <2>1, ChannelShrinks
  <2>3. QED
    BY <1>1, <2>1, <2>2
<1> HIDE DEF b
<1>3. worker \in [Workers -> AnyBatch] /\ worker' \in [Workers -> AnyBatch] /\ b \in AnyBatch
  BY <1>1, <1>2 DEF SinkTypes, Swap, AnyBatch
<1>4. SinkTypes'
  BY <1>1, <1>2, <1>3 DEF SinkTypes
<1>5. ASSUME NEW s \in Symbols PROVE HeldSame(s)
  <2>1. OneMoreBatch(s, submitCh, submitCh', b)
    BY <1>2
  <2>2. AtWorkNow(s, worker', worker, b, NoBatch)
    <3>1. AtWorkNow(s, worker', worker, b, worker[w])
      BY <1>1, <1>3, WorkerChanges
    <3>2. QED
      BY <1>1, <3>1
  <2>3. Len(Results(s, NoBatch)) = 0 /\ Range(Results(s, NoBatch)) = {}
    BY ResultsOfNone, RangeOfNone
  <2>4. Many(s, ended', pending', submitCh', flusher', worker')
          = Many(s, ended, pending, submitCh, flusher, worker)
    <3>1. Many(s, ended', pending', submitCh', flusher', worker')
            = Many(s, ended, pending, submitCh', flusher, worker')
      BY <1>1
    <3>2. PICK a, p, h, x, y, j, k, r \in Nat :
            /\ a = Len(ended[s]) /\ p = Len(pending[s]) /\ h = HowMany(s, Hands(flusher))
            /\ x = HowMany(s, submitCh) /\ y = HowMany(s, submitCh')
            /\ j = HowMany(s, worker) /\ k = HowMany(s, worker')
            /\ r = Len(Results(s, b))
      BY <1>2, <1>3, CountsAreNumbers, ResultsType DEF SinkTypes
    <3>3. /\ Many(s, ended, pending, submitCh', flusher, worker') = a + p + y + h + k
          /\ Many(s, ended, pending, submitCh, flusher, worker) = a + p + x + h + j
      BY <3>2 DEF Many
    <3>4. x = y + r /\ k + 0 = j + r
      BY <2>1, <2>2, <2>3, <3>2 DEF OneMoreBatch, AtWorkNow
    <3>5. a + p + y + h + k = a + p + x + h + j
      BY <3>4
    <3>6. QED
      BY <3>1, <3>3, <3>5
  <2>5. Those(s, ended', pending', submitCh', flusher', worker')
          = Those(s, ended, pending, submitCh, flusher, worker)
    BY <1>1, <2>1, <2>2, <2>3 DEF Those, OneMoreBatch, AtWorkNow
  <2>6. QED
    BY <2>4, <2>5 DEF HeldSame
<1>6. QED
  BY <1>4, <1>5 DEF Keeps

LEMMA SubmitKeeps ==
  ASSUME SinkTypes, NEW w \in Workers, SubmitToChain(w)
  PROVE  Keeps
<1> DEFINE b == worker[w]
<1>1. b \in Batches /\ b \in AnyBatch /\ worker \in [Workers -> AnyBatch]
  BY DEF SubmitToChain, Working, SinkTypes, AnyBatch
<1>2. /\ ended' = PutInto(ended, b) /\ worker' = Swap(worker, w, NoBatch)
      /\ UNCHANGED <<pending, flusher, submitCh>>
  BY DEF SubmitToChain, Ended, PutInto, Swap
<1>3. NoBatch \in AnyBatch
  BY DEF AnyBatch
<1>4. worker' \in [Workers -> AnyBatch]
  BY <1>1, <1>2, <1>3 DEF Swap
<1>5. /\ ended \in Sequences /\ ended' \in Sequences
      /\ \A s \in Symbols : OneMore(s, ended', ended, b)
  <2>1. ended \in Sequences
    BY DEF SinkTypes
  <2>2. \A s \in Symbols : ended' \in Sequences /\ OneMore(s, ended', ended, b)
    BY <1>1, <1>2, <2>1, PutIn
  <2>3. b.symbol \in Symbols
    BY <1>1 DEF Batches
  <2>4. QED
    BY <2>1, <2>2, <2>3
<1>6. SinkTypes'
  BY <1>2, <1>4, <1>5 DEF SinkTypes
<1>7. ASSUME NEW s \in Symbols PROVE HeldSame(s)
  <2>1. OneMore(s, ended', ended, b)
    BY <1>5
  <2>2. AtWorkNow(s, worker', worker, NoBatch, b)
    BY <1>1, <1>2, <1>3, WorkerChanges
  <2>3. Len(Results(s, NoBatch)) = 0 /\ Range(Results(s, NoBatch)) = {}
    BY ResultsOfNone, RangeOfNone
  <2>4. Many(s, ended', pending', submitCh', flusher', worker')
          = Many(s, ended, pending, submitCh, flusher, worker)
    <3>1. Many(s, ended', pending', submitCh', flusher', worker')
            = Many(s, ended', pending, submitCh, flusher, worker')
      BY <1>2
    <3>2. PICK p, c, h, x, y, j, k, r \in Nat :
            /\ p = Len(pending[s]) /\ c = HowMany(s, submitCh) /\ h = HowMany(s, Hands(flusher))
            /\ x = Len(ended[s]) /\ y = Len(ended'[s])
            /\ j = HowMany(s, worker) /\ k = HowMany(s, worker')
            /\ r = Len(Results(s, b))
      BY <1>1, <1>4, <1>5, CountsAreNumbers, ResultsType DEF SinkTypes
    <3>3. /\ Many(s, ended', pending, submitCh, flusher, worker') = y + p + c + h + k
          /\ Many(s, ended, pending, submitCh, flusher, worker) = x + p + c + h + j
      BY <3>2 DEF Many
    <3>4. y = x + r /\ k + r = j + 0
      BY <2>1, <2>2, <2>3, <3>2 DEF OneMore, AtWorkNow
    <3>5. y + p + c + h + k = x + p + c + h + j
      BY <3>4
    <3>6. QED
      BY <3>1, <3>3, <3>5
  <2>5. Those(s, ended', pending', submitCh', flusher', worker')
          = Those(s, ended, pending, submitCh, flusher, worker)
    BY <1>2, <2>1, <2>2, <2>3 DEF Those, OneMore, AtWorkNow
  <2>6. QED
    BY <2>4, <2>5 DEF HeldSame
<1>8. QED
  BY <1>6, <1>7 DEF Keeps

LEMMA WorkerEndsKeeps ==
  ASSUME SinkTypes, NEW w \in Workers, WorkerEnds(w)
  PROVE  Keeps
<1>1. /\ worker \in [Workers -> AnyBatch] /\ worker[w] = NoBatch
      /\ worker' = Swap(worker, w, Gone) /\ UNCHANGED <<pending, flusher, submitCh, ended>>
  BY DEF WorkerEnds, Swap, SinkTypes
<1>2. Gone \in AnyBatch
  BY DEF AnyBatch
<1>3. worker' \in [Workers -> AnyBatch]
  BY <1>1, <1>2 DEF Swap
<1>4. SinkTypes'
  BY <1>1, <1>3 DEF SinkTypes
<1>5. ASSUME NEW s \in Symbols PROVE HeldSame(s)
  <2>1. AtWorkNow(s, worker', worker, Gone, NoBatch)
    <3>1. AtWorkNow(s, worker', worker, Gone, worker[w])
      BY <1>1, <1>2, WorkerChanges
    <3>2. QED
      BY <1>1, <3>1
  <2>2. /\ Len(Results(s, NoBatch)) = 0 /\ Range(Results(s, NoBatch)) = {}
        /\ Len(Results(s, Gone)) = 0 /\ Range(Results(s, Gone)) = {}
    BY ResultsOfNone, RangeOfNone
  <2>3. HowMany(s, worker') = HowMany(s, worker)
    <3>1. HowMany(s, worker') \in Nat /\ HowMany(s, worker) \in Nat
      BY <1>1, <1>3, FlushersAreFinite, HowManyType
    <3>2. HowMany(s, worker') + 0 = HowMany(s, worker) + 0
      BY <2>1, <2>2 DEF AtWorkNow
    <3>3. QED
      BY <3>1, <3>2
  <2>4. Which(s, worker') = Which(s, worker)
    BY <2>1, <2>2 DEF AtWorkNow
  <2>5. QED
    BY <1>1, <2>3, <2>4 DEF HeldSame, Many, Those
<1>6. QED
  BY <1>4, <1>5 DEF Keeps

-----------------------------------------------------------------------------
(* Every result in one place.                                              *)

QueueInv == queue \in Sequences /\ \A s \in Symbols : Backlog(sent[s], queue[s])

AsGiven(s, e, p, ch, fl, wk, sq, q) ==
  /\ Many(s, e, p, ch, fl, wk) = Len(Given(sq, q))
  /\ Those(s, e, p, ch, fl, wk) = Range(Given(sq, q))

HeldInv ==
  \A s \in Symbols :
    AsGiven(s, ended, pending, submitCh, flusher, worker, sent[s], queue[s])

SinkInv == SinkTypes /\ QueueInv /\ HeldInv

LEMMA HeldMeans ==
  ASSUME HeldInv
  PROVE  ResultsInOnePlace
BY DEF HeldInv, AsGiven, ResultsInOnePlace, Many, Those, Given, Matched,
       HowManyHeld, WhichHeld, InHand, Hands

LEMMA SinkKeeps ==
  ASSUME SinkInv, Keeps, UNCHANGED <<queue, sent>>
  PROVE  SinkInv'
<1>1. SinkTypes' /\ QueueInv'
  BY DEF SinkInv, Keeps, QueueInv
<1>2. HeldInv'
  BY DEF SinkInv, Keeps, HeldInv, HeldSame, AsGiven
<1>3. QED
  BY <1>1, <1>2 DEF SinkInv

LEMMA SinkStays ==
  ASSUME SinkInv, UNCHANGED <<pending, flusher, submitCh, worker, ended, queue, sent>>
  PROVE  SinkInv'
<1>1. SinkTypes' /\ QueueInv' /\ HeldInv'
  BY DEF SinkInv, SinkTypes, QueueInv, HeldInv
<1>2. QED
  BY <1>1 DEF SinkInv

(* An event loop sends an order: the settlement is not given it yet.       *)
LEMMA SendKeepsSink ==
  ASSUME SourceInv, SinkInv, NEW s \in Symbols, SendOrder(s), UNCHANGED sinkVars
  PROVE  SinkInv'
<1> DEFINE x == Head(loop[s].batch)
<1>1. x \in Logs
  <2>1. loop[s].batch \in Seq(Logs) /\ loop[s].batch # <<>>
    BY LoopFields DEF SourceInv, LoopInv, SendOrder
  <2>2. QED
    BY <2>1
<1>2. /\ queue' = [queue EXCEPT ![s] = Append(queue[s], x)]
      /\ sent' = [sent EXCEPT ![s] = Append(sent[s], x)]
  BY DEF SendOrder
<1> HIDE DEF x
<1>3. /\ queue \in Sequences /\ DOMAIN sent = Symbols
      /\ \A t \in Symbols : Backlog(sent[t], queue[t])
  BY DEF SinkInv, QueueInv, SourceInv
<1>4. /\ queue'[s] = Append(queue[s], x) /\ sent'[s] = Append(sent[s], x)
      /\ \A t \in Symbols \ {s} : queue'[t] = queue[t] /\ sent'[t] = sent[t]
  BY <1>2, <1>3 DEF Sequences
<1>5. /\ Backlog(sent'[s], queue'[s])
      /\ Given(sent'[s], queue'[s]) = Given(sent[s], queue[s])
  <2>1. Backlog(sent[s], queue[s])
    BY <1>3
  <2>2. /\ Backlog(Append(sent[s], x), Append(queue[s], x))
        /\ Given(Append(sent[s], x), Append(queue[s], x)) = Given(sent[s], queue[s])
    BY <1>1, <2>1, BacklogGrows
  <2>3. QED
    BY <1>4, <2>2
<1>6. \A t \in Symbols : /\ Backlog(sent'[t], queue'[t])
                         /\ Given(sent'[t], queue'[t]) = Given(sent[t], queue[t])
  BY <1>3, <1>4, <1>5
<1>7. queue' \in Sequences
  <2>1. queue'[s] \in Seq(Logs)
    BY <1>5 DEF Backlog
  <2>2. QED
    BY <1>2, <1>3, <1>4, <2>1 DEF Sequences
<1>8. SinkTypes' /\ QueueInv'
  BY <1>6, <1>7 DEF QueueInv, SinkInv, SinkTypes, sinkVars
<1>9. HeldInv'
  BY <1>6 DEF SinkInv, HeldInv, AsGiven, sinkVars
<1>10. QED
  BY <1>8, <1>9 DEF SinkInv

(* A matcher hands the result of an order to the settlement.               *)
LEMMA MatchKeepsSink ==
  ASSUME SinkInv, NEW s \in Symbols, Match(s)
  PROVE  SinkInv'
<1> DEFINE x == Head(queue[s])
           b == [symbol |-> s, mrs |-> <<x>>]
<1>1. /\ queue \in Sequences /\ \A t \in Symbols : Backlog(sent[t], queue[t])
      /\ pending \in Sequences /\ flusher \in [Flushers -> Inputs]
  BY DEF SinkInv, QueueInv, SinkTypes
<1>2. /\ queue[s] # <<>> /\ queue' = [queue EXCEPT ![s] = Tail(queue[s])]
      /\ UNCHANGED <<sent, submitCh, worker, ended>>
  BY DEF Match, SubmitBatch
<1>3. /\ Backlog(sent[s], Tail(queue[s])) /\ x \in Logs
      /\ Given(sent[s], queue[s]) \in Seq(Logs)
      /\ Given(sent[s], Tail(queue[s])) = Given(sent[s], queue[s]) \o <<x>>
  BY <1>1, <1>2, BacklogShrinks
<1>4. b \in Batches /\ b.symbol = s /\ b.mrs = <<x>>
  <2> HIDE DEF x
  <2>1. QED
    BY <1>3 DEF Batches
<1>5. pending' = PutInto(pending, b)
  BY DEF Match, SubmitBatch, PutInto
<1>6. PICK todo \in SUBSET Symbols : flusher' = WithTodo(flusher, s, todo)
  <2>1. flusher' = [flusher EXCEPT ![s].todo =
                      IF Len(pending'[s]) >= BatchSize THEN {s} ELSE {}]
    BY DEF Match, SubmitBatch
  <2>2. QED
    BY <2>1 DEF WithTodo
<1> HIDE DEF b, x
<1>7. flusher' \in [Flushers -> Inputs] /\ Hands(flusher') = Hands(flusher)
  <2>1. s \in Flushers
    BY DEF Flushers
  <2>2. QED
    BY <1>1, <1>6, <2>1, TodoChanges
<1>8. pending' \in Sequences /\ \A t \in Symbols : OneMore(t, pending', pending, b)
  <2>1. \A t \in Symbols : pending' \in Sequences /\ OneMore(t, pending', pending, b)
    BY <1>1, <1>4, <1>5, PutIn
  <2>2. QED
    BY <2>1
<1>9. /\ queue'[s] = Tail(queue[s])
      /\ \A t \in Symbols \ {s} : queue'[t] = queue[t]
  BY <1>1, <1>2 DEF Sequences
<1>10. queue' \in Sequences
  <2>1. Tail(queue[s]) \in Seq(Logs)
    BY <1>3 DEF Backlog
  <2>2. QED
    BY <1>1, <1>2, <2>1 DEF Sequences
<1>11. SinkTypes' /\ QueueInv'
  <2>1. \A t \in Symbols : Backlog(sent'[t], queue'[t])
    BY <1>1, <1>2, <1>3, <1>9
  <2>2. QED
    BY <1>2, <1>7, <1>8, <1>10, <2>1 DEF SinkInv, SinkTypes, QueueInv
<1>12. ASSUME NEW t \in Symbols
       PROVE  AsGiven(t, ended', pending', submitCh', flusher', worker', sent'[t], queue'[t])
  <2> DEFINE g == Given(sent[t], queue[t])
             r == Results(t, b)
  <2>1. /\ Given(sent'[t], queue'[t]) = g \o r /\ g \in Seq(Logs) /\ r \in Seq(Logs)
    <3>1. CASE t = s
      <4>1. r = <<x>>
        BY <1>4, <3>1 DEF Results
      <4>2. QED
        BY <1>2, <1>3, <1>9, <3>1, <4>1
    <3>2. CASE t # s
      <4>1. r = <<>>
        BY <1>4, <3>2 DEF Results
      <4>2. g \in Seq(Logs)
        <5>1. PICK m \in Seq(Logs) : sent[t] = m \o queue[t]
          BY <1>1 DEF Backlog
        <5>2. queue[t] \in Seq(Logs)
          BY <1>1 DEF Sequences
        <5>3. QED
          BY <5>1, <5>2, GivenIs
      <4>3. Given(sent'[t], queue'[t]) = g
        BY <1>2, <1>9, <3>2
      <4> HIDE DEF g, r
      <4>4. QED
        BY <4>1, <4>2, <4>3
    <3>3. QED
      BY <3>1, <3>2
  <2>2. /\ Many(t, ended, pending, submitCh, flusher, worker) = Len(g)
        /\ Those(t, ended, pending, submitCh, flusher, worker) = Range(g)
    BY DEF SinkInv, HeldInv, AsGiven
  <2>3. OneMore(t, pending', pending, b)
    BY <1>8
  <2>4. /\ Many(t, ended', pending', submitCh', flusher', worker')
             = Many(t, ended, pending', submitCh, flusher, worker)
        /\ Those(t, ended', pending', submitCh', flusher', worker')
             = Those(t, ended, pending', submitCh, flusher, worker)
    BY <1>2, <1>7 DEF Many, Those
  <2> HIDE DEF g
  <2>5. Len(g \o r) = Len(g) + Len(r) /\ Range(g \o r) = Range(g) \cup Range(r)
    BY <2>1, LenAndRange
  <2> HIDE DEF r
  <2>6. Many(t, ended, pending', submitCh, flusher, worker)
          = Many(t, ended, pending, submitCh, flusher, worker) + Len(r)
    <3>1. PICK a, c, h, w, p, q, k \in Nat :
            /\ a = Len(ended[t]) /\ c = HowMany(t, submitCh)
            /\ h = HowMany(t, Hands(flusher)) /\ w = HowMany(t, worker)
            /\ p = Len(pending[t]) /\ q = Len(pending'[t]) /\ k = Len(r)
      BY <1>1, <1>8, <2>1, CountsAreNumbers, LenProperties DEF SinkInv, SinkTypes
    <3>2. /\ Many(t, ended, pending', submitCh, flusher, worker) = a + q + c + h + w
          /\ Many(t, ended, pending, submitCh, flusher, worker) = a + p + c + h + w
      BY <3>1 DEF Many
    <3>3. q = p + k
      BY <2>3, <3>1 DEF OneMore, r
    <3>4. a + q + c + h + w = a + p + c + h + w + k
      BY <3>3
    <3>5. QED
      BY <3>1, <3>2, <3>4
  <2>7. Those(t, ended, pending', submitCh, flusher, worker)
          = Those(t, ended, pending, submitCh, flusher, worker) \cup Range(r)
    BY <2>3 DEF Those, OneMore, r
  <2>8. QED
    BY <2>1, <2>2, <2>4, <2>5, <2>6, <2>7 DEF AsGiven
<1>13. HeldInv'
  BY <1>12 DEF HeldInv
<1>14. QED
  BY <1>11, <1>13 DEF SinkInv

(* A start of the process: nothing is held and nothing was given.          *)
Nothing == [s \in Symbols |-> <<>>]

LEMMA StartHolds ==
  ASSUME NEW e, NEW p, NEW fl, NEW ch, NEW wk, NEW sq, NEW q,
         e = Nothing, p = Nothing, sq = Nothing, q = Nothing, ch = <<>>,
         fl = [f \in Flushers |-> Idle], wk = [w \in Workers |-> NoBatch]
  PROVE  /\ e \in Sequences /\ p \in Sequences /\ q \in Sequences
         /\ ch \in Seq(Batches)
         /\ fl \in [Flushers -> Inputs] /\ wk \in [Workers -> AnyBatch]
         /\ \A s \in Symbols : Backlog(sq[s], q[s]) /\ AsGiven(s, e, p, ch, fl, wk, sq[s], q[s])
<1>1. Nothing \in Sequences
  BY DEF Nothing, Sequences
<1>2. Idle \in Inputs /\ Idle.batch = NoBatch /\ NoBatch \in AnyBatch
  <2>1. NoBatch \in AnyBatch
    BY DEF AnyBatch
  <2> HIDE DEF NoBatch
  <2>2. QED
    BY <2>1 DEF Idle, Inputs
<1>3. ch \in Seq(Batches)
  OBVIOUS
<1>4. fl \in [Flushers -> Inputs] /\ wk \in [Workers -> AnyBatch]
  <2> HIDE DEF Idle, NoBatch
  <2>1. QED
    BY <1>2
<1>5. ASSUME NEW s \in Symbols
      PROVE  Backlog(sq[s], q[s]) /\ AsGiven(s, e, p, ch, fl, wk, sq[s], q[s])
  <2>1. e[s] = <<>> /\ p[s] = <<>> /\ q[s] = <<>> /\ sq[s] = <<>>
    BY DEF Nothing
  <2>2. <<>> = <<>> \o <<>> /\ <<>> \in Seq(Logs)
    OBVIOUS
  <2>3. Backlog(<<>>, <<>>) /\ Given(<<>>, <<>>) = <<>>
    <3>1. Given(<<>> \o <<>>, <<>>) = <<>>
      BY <2>2, GivenIs
    <3>2. QED
      BY <2>2, <3>1 DEF Backlog
  <2>4. HowMany(s, ch) = 0 /\ Which(s, ch) = {}
    <3>1. ch \in Seq(AnyBatch) /\ DOMAIN ch = {}
      BY <1>3, SeqOfBatches
    <3>2. IsFiniteSet(DOMAIN ch) /\ ch \in [DOMAIN ch -> AnyBatch]
      BY <3>1, AnyBatches
    <3>3. \A i \in DOMAIN ch : Results(s, ch[i]) = <<>>
      BY <3>1
    <3>4. QED
      BY <3>2, <3>3, NothingHeld
  <2>5. HowMany(s, wk) = 0 /\ Which(s, wk) = {}
    <3>1. \A w \in Workers : Results(s, wk[w]) = <<>>
      BY ResultsOfNone
    <3>2. QED
      BY <1>4, <3>1, FlushersAreFinite, NothingHeld
  <2>6. HowMany(s, Hands(fl)) = 0 /\ Which(s, Hands(fl)) = {}
    <3>1. \A f \in Flushers : Hands(fl)[f] = NoBatch
      BY <1>2 DEF Hands
    <3>2. \A f \in Flushers : Results(s, Hands(fl)[f]) = <<>>
      BY <3>1, ResultsOfNone
    <3>3. QED
      BY <1>4, <3>2, HandTypes, FlushersAreFinite, NothingHeld
  <2>7. Many(s, e, p, ch, fl, wk) = 0 /\ Those(s, e, p, ch, fl, wk) = {}
    BY <2>1, <2>4, <2>5, <2>6, RangeOfNone DEF Many, Those
  <2>8. QED
    BY <2>1, <2>3, <2>7, RangeOfNone DEF AsGiven
<1>6. QED
  BY <1>1, <1>3, <1>4, <1>5

LEMMA InitSink ==
  ASSUME Init
  PROVE  SinkInv
<1>1. /\ ended = Nothing /\ pending = Nothing /\ sent = Nothing /\ queue = Nothing
      /\ submitCh = <<>> /\ flusher = [f \in Flushers |-> Idle]
      /\ worker = [w \in Workers |-> NoBatch]
  BY DEF Init, SinkInit, SourceInit, Nothing
<1>2. QED
  BY <1>1, StartHolds DEF SinkInv, SinkTypes, QueueInv, HeldInv

LEMMA RestartKeepsSink ==
  ASSUME SinkInv, Restart
  PROVE  SinkInv'
<1>1. /\ ended' = Nothing /\ pending' = Nothing /\ sent' = Nothing /\ queue' = Nothing
      /\ submitCh' = <<>> /\ flusher' = [f \in Flushers |-> Idle]
      /\ worker' = [w \in Workers |-> NoBatch]
  BY DEF Restart, SinkStart, SourceStart, Nothing
<1>2. QED
  BY <1>1, StartHolds DEF SinkInv, SinkTypes, QueueInv, HeldInv

LEMMA NextSink ==
  ASSUME SourceInv, SinkInv, [Next]_vars
  PROVE  SinkInv'
<1>1. SinkTypes
  BY DEF SinkInv
<1>2. CASE Mine /\ UNCHANGED sinkVars
  BY <1>2, SinkStays DEF Mine, sinkVars
<1>3. ASSUME NEW s \in Symbols, EventLoop(s) \/ GetLogsFails(s), UNCHANGED sinkVars
      PROVE  SinkInv'
  <2>1. CASE SendOrder(s)
    BY <1>3, <2>1, SendKeepsSink
  <2>2. CASE ~SendOrder(s)
    <3>1. UNCHANGED <<queue, sent>>
      BY <1>3, <2>2 DEF EventLoop, BlockNumber, GetLogs, GetLogsFails, Advance, LoopEnds
    <3>2. QED
      BY <1>3, <3>1, SinkStays DEF sinkVars
  <2>3. QED
    BY <2>1, <2>2
<1>4. ASSUME NEW s \in Symbols, Match(s)
      PROVE  SinkInv'
  BY <1>4, MatchKeepsSink
<1>5. ASSUME NEW s \in Symbols, MatchNil(s) \/ EndSubscription(s)
      PROVE  SinkInv'
  BY <1>5, SinkStays DEF MatchNil, EndSubscription, Unsubscribe, sourceVars, sinkVars
<1>6. CASE Sink(Tick)
  <2>1. /\ flusher' = [flusher EXCEPT !["timer"].todo = Waiting]
        /\ UNCHANGED <<pending, submitCh, worker, ended>>
    BY <1>6 DEF Sink, Tick
  <2>2. "timer" \in Flushers /\ Waiting \in SUBSET Symbols
    BY DEF Flushers, Waiting
  <2>3. Keeps
    BY <1>1, <2>1, <2>2, TodoKeeps
  <2>4. QED
    BY <1>6, <2>3, SinkKeeps DEF Sink, sourceVars
<1>7. ASSUME NEW f \in Flushers, Sink(Flusher(f))
      PROVE  SinkInv'
  <2>1. Keeps
    BY <1>1, <1>7, FlushKeeps, PutKeeps, DropKeeps DEF Sink, Flusher
  <2>2. QED
    BY <1>7, <2>1, SinkKeeps DEF Sink, sourceVars
<1>8. ASSUME NEW w \in Workers, Sink(Worker(w))
      PROVE  SinkInv'
  <2>1. Keeps
    BY <1>1, <1>8, TakeBatchKeeps, SubmitKeeps, WorkerEndsKeeps DEF Sink, Worker
  <2>2. QED
    BY <1>8, <2>1, SinkKeeps DEF Sink, sourceVars
<1>9. CASE Crash
  BY <1>9, SinkStays DEF Crash, sourceVars, sinkVars
<1>10. CASE Deferred
  <2>1. CASE CollectAll
    <3>1. /\ flusher' = [flusher EXCEPT !["shutdown"].todo = Symbols]
          /\ UNCHANGED <<pending, submitCh, worker, ended>>
      BY <2>1 DEF CollectAll
    <3>2. "shutdown" \in Flushers /\ Symbols \in SUBSET Symbols
      BY DEF Flushers
    <3>3. Keeps
      BY <1>1, <3>1, <3>2, TodoKeeps
    <3>4. UNCHANGED <<queue, sent>>
      BY <1>10, <2>1 DEF Deferred, CancelSource, CloseChannels, sourceVars
    <3>5. QED
      BY <3>3, <3>4, SinkKeeps
  <2>2. CASE ~CollectAll
    <3>1. UNCHANGED <<pending, flusher, submitCh, worker, ended, queue, sent>>
      BY <1>10, <2>2 DEF Deferred, CancelSource, CloseChannels, CancelSink, sourceVars, sinkVars
    <3>2. QED
      BY <3>1, SinkStays
  <2>3. QED
    BY <2>1, <2>2
<1>11. CASE Restart
  BY <1>11, RestartKeepsSink
<1>12. CASE UNCHANGED vars
  BY <1>12, SinkStays DEF vars, sourceVars, sinkVars
<1>13. QED
  BY <1>2, <1>3, <1>4, <1>5, <1>6, <1>7, <1>8, <1>9, <1>10, <1>11, <1>12
     DEF Next, Source

(* No result is lost or given twice while the process runs: the matchers,  *)
(* the timer and Shutdown flush the same symbols at the same time          *)
(* (settlement.go:75-134, 179-191).                                        *)
THEOREM EveryResultInOnePlace == Spec => []ResultsInOnePlace
<1>1. Init => SourceInv /\ SinkInv
  BY InitSource, InitSink
<1>2. SourceInv /\ SinkInv /\ [Next]_vars => (SourceInv /\ SinkInv)'
  BY NextSource, NextSink
<1>3. SourceInv /\ SinkInv => ResultsInOnePlace
  BY HeldMeans DEF SinkInv
<1>4. QED
  BY <1>1, <1>2, <1>3, PTL DEF Spec
=============================================================================
