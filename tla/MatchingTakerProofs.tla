------------------------- MODULE MatchingTakerProofs -------------------------
(***************************************************************************)
(* What holds of the order being matched, for every set of ids, users and  *)
(* requests: it gets what its makers give, a market or FOK order trades    *)
(* within the circuit of its first trade, and a FOK order is filled whole  *)
(* within its price limit or not at all.                                   *)
(***************************************************************************)
EXTENDS MatchingProofs, SumProofs

-----------------------------------------------------------------------------
(* The sums of the model are totals.                                       *)

LEMMA UnfilledTotal ==
  ASSUME NEW g, NEW S, IsFiniteSet(S), \A m \in S : g[m].unfilled \in Nat
  PROVE  UnfilledOf(g, S) = Total([m \in S |-> g[m].unfilled], S)
<1> DEFINE f == [m \in S |-> g[m].unfilled]
           x(s) == CHOOSE m \in s : TRUE
           it == CHOOSE it : it = [s \in SUBSET S |->
                   IF s = {} THEN 0 ELSE g[x(s)].unfilled + it[s \ {x(s)}]]
           t == [s \in SUBSET S |-> Total(f, s)]
<1>1. f \in [S -> Nat]
  OBVIOUS
<1>2. \A s \in SUBSET S : s # {} => x(s) \in S /\ f[x(s)] = g[x(s)].unfilled
  OBVIOUS
<1>3. t = [s \in SUBSET S |-> SumStep(f, t, s)]
  <2>1. IsFold(f, S, Totals(f, S))
    <3> HIDE DEF f
    <3>1. QED
      BY <1>1, TotalIsAFold
  <2>2. QED
    BY <2>1 DEF IsFold, Totals
<1>4. t = [s \in SUBSET S |->
             IF s = {} THEN 0 ELSE g[x(s)].unfilled + t[s \ {x(s)}]]
  <2> HIDE DEF f, t
  <2>1. \A s \in SUBSET S : SumStep(f, t, s) =
          IF s = {} THEN 0 ELSE g[x(s)].unfilled + t[s \ {x(s)}]
    BY <1>2 DEF SumStep
  <2>2. QED
    BY <1>3, <2>1
<1>5. it = [s \in SUBSET S |->
              IF s = {} THEN 0 ELSE g[x(s)].unfilled + it[s \ {x(s)}]]
  <2> HIDE DEF t
  <2>1. QED
    BY <1>4
<1>6. UnfilledOf(g, S) = it[S]
  BY DEF UnfilledOf, MapThenSumSet, MapThenFoldSet
<1>7. it = [s \in SUBSET S |-> SumStep(f, it, s)]
  <2> HIDE DEF f, it
  <2>1. \A s \in SUBSET S : SumStep(f, it, s) =
          IF s = {} THEN 0 ELSE g[x(s)].unfilled + it[s \ {x(s)}]
    BY <1>2 DEF SumStep
  <2>2. QED
    BY <1>5, <2>1
<1>8. it[S] = Total(f, S)
  <2>1. IsFold(f, S, it)
    BY <1>7 DEF IsFold
  <2> HIDE DEF f, it
  <2>2. QED
    BY <1>1, <2>1, FoldIsTotal
<1>9. QED
  BY <1>6, <1>8
LEMMA AmountTotal ==
  ASSUME NEW g, NEW S, IsFiniteSet(S), \A m \in S : g[m].amount \in Nat
  PROVE  AmountOf(g, S) = Total([m \in S |-> g[m].amount], S)
<1> DEFINE f == [m \in S |-> g[m].amount]
           x(s) == CHOOSE m \in s : TRUE
           it == CHOOSE it : it = [s \in SUBSET S |->
                   IF s = {} THEN 0 ELSE g[x(s)].amount + it[s \ {x(s)}]]
           t == [s \in SUBSET S |-> Total(f, s)]
<1>1. f \in [S -> Nat]
  OBVIOUS
<1>2. \A s \in SUBSET S : s # {} => x(s) \in S /\ f[x(s)] = g[x(s)].amount
  OBVIOUS
<1>3. t = [s \in SUBSET S |-> SumStep(f, t, s)]
  <2>1. IsFold(f, S, Totals(f, S))
    <3> HIDE DEF f
    <3>1. QED
      BY <1>1, TotalIsAFold
  <2>2. QED
    BY <2>1 DEF IsFold, Totals
<1>4. t = [s \in SUBSET S |->
             IF s = {} THEN 0 ELSE g[x(s)].amount + t[s \ {x(s)}]]
  <2> HIDE DEF f, t
  <2>1. \A s \in SUBSET S : SumStep(f, t, s) =
          IF s = {} THEN 0 ELSE g[x(s)].amount + t[s \ {x(s)}]
    BY <1>2 DEF SumStep
  <2>2. QED
    BY <1>3, <2>1
<1>5. it = [s \in SUBSET S |->
              IF s = {} THEN 0 ELSE g[x(s)].amount + it[s \ {x(s)}]]
  <2> HIDE DEF t
  <2>1. QED
    BY <1>4
<1>6. AmountOf(g, S) = it[S]
  BY DEF AmountOf, MapThenSumSet, MapThenFoldSet
<1>7. it = [s \in SUBSET S |-> SumStep(f, it, s)]
  <2> HIDE DEF f, it
  <2>1. \A s \in SUBSET S : SumStep(f, it, s) =
          IF s = {} THEN 0 ELSE g[x(s)].amount + it[s \ {x(s)}]
    BY <1>2 DEF SumStep
  <2>2. QED
    BY <1>5, <2>1
<1>8. it[S] = Total(f, S)
  <2>1. IsFold(f, S, it)
    BY <1>7 DEF IsFold
  <2> HIDE DEF f, it
  <2>2. QED
    BY <1>1, <2>1, FoldIsTotal
<1>9. QED
  BY <1>6, <1>8
LEMMA ValueTotal ==
  ASSUME NEW g, NEW S, IsFiniteSet(S), \A m \in S : g[m].amount * g[m].price \in Nat
  PROVE  ValueOf(g, S) = Total([m \in S |-> g[m].amount * g[m].price], S)
<1> DEFINE f == [m \in S |-> g[m].amount * g[m].price]
           x(s) == CHOOSE m \in s : TRUE
           it == CHOOSE it : it = [s \in SUBSET S |->
                   IF s = {} THEN 0 ELSE g[x(s)].amount * g[x(s)].price + it[s \ {x(s)}]]
           t == [s \in SUBSET S |-> Total(f, s)]
<1>1. f \in [S -> Nat]
  OBVIOUS
<1>2. \A s \in SUBSET S : s # {} => x(s) \in S /\ f[x(s)] = g[x(s)].amount * g[x(s)].price
  OBVIOUS
<1>3. t = [s \in SUBSET S |-> SumStep(f, t, s)]
  <2>1. IsFold(f, S, Totals(f, S))
    <3> HIDE DEF f
    <3>1. QED
      BY <1>1, TotalIsAFold
  <2>2. QED
    BY <2>1 DEF IsFold, Totals
<1>4. t = [s \in SUBSET S |->
             IF s = {} THEN 0 ELSE g[x(s)].amount * g[x(s)].price + t[s \ {x(s)}]]
  <2> HIDE DEF f, t
  <2>1. \A s \in SUBSET S : SumStep(f, t, s) =
          IF s = {} THEN 0 ELSE g[x(s)].amount * g[x(s)].price + t[s \ {x(s)}]
    BY <1>2 DEF SumStep
  <2>2. QED
    BY <1>3, <2>1
<1>5. it = [s \in SUBSET S |->
              IF s = {} THEN 0 ELSE g[x(s)].amount * g[x(s)].price + it[s \ {x(s)}]]
  <2> HIDE DEF t
  <2>1. QED
    BY <1>4
<1>6. ValueOf(g, S) = it[S]
  BY DEF ValueOf, MapThenSumSet, MapThenFoldSet
<1>7. it = [s \in SUBSET S |-> SumStep(f, it, s)]
  <2> HIDE DEF f, it
  <2>1. \A s \in SUBSET S : SumStep(f, it, s) =
          IF s = {} THEN 0 ELSE g[x(s)].amount * g[x(s)].price + it[s \ {x(s)}]
    BY <1>2 DEF SumStep
  <2>2. QED
    BY <1>5, <2>1
<1>8. it[S] = Total(f, S)
  <2>1. IsFold(f, S, it)
    BY <1>7 DEF IsFold
  <2> HIDE DEF f, it
  <2>2. QED
    BY <1>1, <2>1, FoldIsTotal
<1>9. QED
  BY <1>6, <1>8

-----------------------------------------------------------------------------
(* The results of the current order.                                       *)

LEMMA ItemsAreTyped ==
  ASSUME items \in Seq(Item)
  PROVE  /\ Len(items) \in Nat /\ DOMAIN items = 1 .. Len(items)
         /\ IsFiniteSet(FillItems) /\ FillItems \subseteq DOMAIN items
         /\ \A k \in DOMAIN items : /\ items[k] \in Item
                                    /\ items[k].amount \in Nat /\ items[k].price \in Nat
                                    /\ items[k].amount * items[k].price \in Nat
<1>1. /\ Len(items) \in Nat /\ DOMAIN items = 1 .. Len(items)
      /\ \A k \in DOMAIN items : items[k] \in Item
  OBVIOUS
<1>2. FillItems \subseteq DOMAIN items
  BY DEF FillItems
<1>3. IsFiniteSet(DOMAIN items)
  BY <1>1, FS_Interval
<1>4. IsFiniteSet(FillItems)
  BY <1>2, <1>3, FS_Subset
<1>5. \A k \in DOMAIN items : items[k].amount \in Nat /\ items[k].price \in Nat
  BY <1>1 DEF Item
<1>6. QED
  BY <1>1, <1>2, <1>4, <1>5, ProductIsNat

IsFill(item) == item.role = "maker" /\ item.state \in {"filled", "partial-filled"}

LEMMA AppendedItem ==
  ASSUME items \in Seq(Item), NEW item \in Item, items' = Append(items, item)
  PROVE  /\ Len(items) + 1 \notin DOMAIN items
         /\ DOMAIN items' = DOMAIN items \cup {Len(items) + 1}
         /\ \A k \in DOMAIN items : items'[k] = items[k]
         /\ items'[Len(items) + 1] = item
         /\ IsFill(item) => FillItems' = FillItems \cup {Len(items) + 1}
         /\ ~IsFill(item) => FillItems' = FillItems
<1>1. /\ Len(items) + 1 \notin DOMAIN items
      /\ DOMAIN items' = DOMAIN items \cup {Len(items) + 1}
      /\ \A k \in DOMAIN items : items'[k] = items[k]
      /\ items'[Len(items) + 1] = item
  OBVIOUS
<1>2. FillItems' = {k \in DOMAIN items' : IsFill(items'[k])}
  BY DEF FillItems, IsFill
<1>3. FillItems = {k \in DOMAIN items : IsFill(items[k])}
  BY DEF FillItems, IsFill
<1>4. QED
  BY <1>1, <1>2, <1>3, Zenon

AmountFilled == AmountOf(items, FillItems)
ValueFilled == ValueOf(items, FillItems)

(* A fill adds its amount and its value to those sums.                     *)
LEMMA FillAddsItsAmount ==
  ASSUME items \in Seq(Item), NEW item \in Item, items' = Append(items, item),
         items' \in Seq(Item), IsFill(item)
  PROVE  /\ AmountFilled \in Nat /\ ValueFilled \in Nat
         /\ AmountFilled' = AmountFilled + item.amount
         /\ ValueFilled' = ValueFilled + item.amount * item.price
<1> DEFINE n == Len(items) + 1
           S == FillItems
           T == FillItems'
           a == [k \in S |-> items[k].amount]
           b == [k \in T |-> items'[k].amount]
           c == [k \in S |-> items[k].amount * items[k].price]
           d == [k \in T |-> items'[k].amount * items'[k].price]
<1>1. /\ IsFiniteSet(S) /\ S \subseteq DOMAIN items
      /\ \A k \in DOMAIN items : /\ items[k].amount \in Nat /\ items[k].price \in Nat
                                 /\ items[k].amount * items[k].price \in Nat
  BY ItemsAreTyped
<1>2. /\ n \notin S /\ T = S \cup {n}
      /\ \A k \in S : items'[k] = items[k]
      /\ items'[n] = item
  BY <1>1, AppendedItem
<1>3. /\ item.amount \in Nat /\ item.price \in Nat /\ item.amount * item.price \in Nat
  BY ProductIsNat DEF Item
<1>4. IsFiniteSet(T)
  BY <1>1, <1>2, FS_AddElement
<1>5. AmountFilled = Total(a, S) /\ ValueFilled = Total(c, S)
  BY <1>1, AmountTotal, ValueTotal DEF AmountFilled, ValueFilled
<1>6. AmountFilled' = Total(b, T) /\ ValueFilled' = Total(d, T)
  <2> DEFINE g == items'
  <2>1. /\ \A k \in T : g[k].amount \in Nat
        /\ \A k \in T : g[k].amount * g[k].price \in Nat
    BY <1>1, <1>2, <1>3
  <2> HIDE DEF S
  <2>2. /\ AmountOf(g, T) = Total([k \in T |-> g[k].amount], T)
        /\ ValueOf(g, T) = Total([k \in T |-> g[k].amount * g[k].price], T)
    <3> HIDE DEF g, T
    <3>1. QED
      BY <1>4, <2>1, AmountTotal, ValueTotal
  <2>3. QED
    BY <2>2 DEF AmountFilled, ValueFilled
<1>7. /\ a \in [S -> Nat] /\ c \in [S -> Nat]
      /\ b \in [T -> Nat] /\ d \in [T -> Nat]
      /\ b[n] = item.amount /\ d[n] = item.amount * item.price
      /\ \A k \in S : b[k] = a[k] /\ d[k] = c[k]
  BY <1>1, <1>2, <1>3
<1>8. /\ Total(b, T) = Total(a, S) + b[n]
      /\ Total(d, T) = Total(c, S) + d[n]
  <2>1. IsFiniteSet(S) /\ n \notin S /\ T = S \cup {n}
    BY <1>1, <1>2
  <2> HIDE DEF S, T, n, a, b, c, d
  <2>2. a \in [S -> Nat] /\ b \in [T -> Nat] /\ \A k \in S : b[k] = a[k]
    BY <1>7
  <2>3. c \in [S -> Nat] /\ d \in [T -> Nat] /\ \A k \in S : d[k] = c[k]
    BY <1>7
  <2>4. Total(b, T) = Total(a, S) + b[n]
    BY <2>1, <2>2, TotalWithOneMore
  <2>5. Total(d, T) = Total(c, S) + d[n]
    BY <2>1, <2>3, TotalWithOneMore
  <2>6. QED
    BY <2>4, <2>5
<1>9. Total(a, S) \in Nat /\ Total(c, S) \in Nat
  <2> HIDE DEF S, a, c
  <2>1. QED
    BY <1>1, <1>7, TotalOfPart
<1>10. QED
  BY <1>2, <1>5, <1>6, <1>7, <1>8, <1>9

-----------------------------------------------------------------------------
(* The makers an order meets, in the order in which it meets them.         *)

LEMMA HeadIsNoWorse ==
  ASSUME IInv, taker # None, NEW m \in book, IsHead(m, OppoSet(taker))
  PROVE  /\ Req(m).price \in Nat /\ Req(m).price > 0
         /\ \A n \in OppoSet(taker) :
              /\ n \in book /\ Req(n).price \in Nat /\ Req(n).price > 0
              /\ NoBetter(Req(taker).side, Req(m).price, Req(n).price)
<1>1. /\ taker \in DOMAIN orders /\ orders[taker] \in Order
      /\ Req(taker).side \in Sides
  BY OrdersAreSound, OrderFields DEF IInv, TypeOK, Req
<1>2. ASSUME NEW n \in book
      PROVE  Req(n).price \in Nat /\ Req(n).price > 0
  <2>1. n \in DOMAIN orders /\ Req(n).type = "Limit"
    BY DEF IInv, TypeOK, RestingIsLive
  <2>2. Req(n) \in Requests /\ Req(n).price \in Nat
    BY <2>1, OrdersAreSound, OrderFields DEF Req
  <2>3. QED
    BY <2>1, <2>2, MatchingAssumption
<1>3. m \in OppoSet(taker)
  BY DEF IsHead
<1>4. ASSUME NEW n \in OppoSet(taker)
      PROVE  NoBetter(Req(taker).side, Req(m).price, Req(n).price)
  <2>1. /\ n \in book /\ (n = m \/ Precedes(m, n))
        /\ Req(n).side = OppoSide(Req(taker).side)
        /\ Req(m).side = OppoSide(Req(taker).side)
    BY <1>3, <1>4 DEF IsHead, OppoSet, OrderSet
  <2>2. IF Req(m).side = "Buy" THEN Req(m).price >= Req(n).price
                               ELSE Req(m).price <= Req(n).price
    BY <2>1, HeadHasBestPrice
  <2>3. QED
    BY <1>1, <2>1, <2>2 DEF OppoSide, NoBetter, Sides
<1>5. \A n \in OppoSet(taker) : n \in book
  BY DEF OppoSet, OrderSet
<1>6. QED
  BY <1>2, <1>4, <1>5

(* After a meeting the same order is matched, against no more makers.      *)
LEMMA AfterMet ==
  ASSUME IInv, taker # None, NEW m \in book, NEW t \in Order, NEW o \in Order,
         NEW item \in Item, t.req = Req(taker), o.req = Req(m),
         Met(m, t, o, item)
  PROVE  /\ taker \in DOMAIN orders /\ m \in DOMAIN orders /\ m # taker
         /\ taker' = taker /\ checked' = checked
         /\ DOMAIN orders' = DOMAIN orders
         /\ orders'[taker] = t
         /\ orders'[m].req = Req(m) /\ orders'[m].unfilled = o.unfilled
         /\ orders'[m].acc = o.acc /\ orders'[m].value = o.value
         /\ \A i \in DOMAIN orders \ {taker, m} : orders'[i] = orders[i]
         /\ \A i \in DOMAIN orders : orders'[i].req = Req(i)
         /\ book' = IF Finished(o) THEN book \ {m} ELSE book
         /\ OppoSet(taker)' = OppoSet(taker) \cap book'
         /\ items' = Append(items, item)
<1>1. /\ taker \in DOMAIN orders /\ m \in DOMAIN orders /\ m # taker
      /\ item.state \in ResultStates
  BY DEF IInv, TypeOK, TakerIsOpen, Item
<1>2. /\ taker' = taker /\ checked' = checked
      /\ items' = Append(items, item)
      /\ book' = IF Finished(o) THEN book \ {m} ELSE book
      /\ orders' = [orders EXCEPT ![taker] = t, ![m] = [o EXCEPT !.told = item.state]]
  BY DEF Met
<1>3. /\ DOMAIN orders' = DOMAIN orders
      /\ orders'[taker] = t /\ orders'[m] = [o EXCEPT !.told = item.state]
      /\ \A i \in DOMAIN orders \ {taker, m} : orders'[i] = orders[i]
  BY <1>1, <1>2
<1>4. /\ orders'[m].req = Req(m) /\ orders'[m].unfilled = o.unfilled
      /\ orders'[m].acc = o.acc /\ orders'[m].value = o.value
  BY <1>1, <1>3, WithToldType
<1>5. \A i \in DOMAIN orders : orders'[i].req = Req(i)
  BY <1>3, <1>4 DEF Req
<1>6. book \subseteq DOMAIN orders /\ book' \subseteq book
  BY <1>2 DEF IInv, TypeOK
<1>7. OppoSet(taker)' = OppoSet(taker) \cap book'
  BY <1>1, <1>2, <1>5, <1>6 DEF OppoSet, OrderSet, Req
<1>8. QED
  BY <1>1, <1>2, <1>3, <1>4, <1>5, <1>7

(* A meeting adds the result of the head, whose price comes after those of *)
(* the results so far and before those of the orders left.                 *)
LEMMA MetKeepsTheOrder ==
  ASSUME IInv, MetInOrder, NEW m \in book, Meets(m),
         NEW t \in Order, NEW o \in Order,
         NEW item \in Item, t.req = Req(taker), o.req = Req(m),
         item.role = "maker", item.price = Req(m).price,
         Req(taker).stp = "AST" => IsFill(item),
         Met(m, t, o, item)
  PROVE  MetInOrder'
<1> DEFINE r == Req(taker)
           n == Len(items) + 1
<1>1. /\ taker # None /\ IsHead(m, OppoSet(taker))
      /\ r.type # "Limit" => ~OutOfCircuit(taker, m)
  BY DEF Meets, AtHead, InLoop
<1>2. /\ taker' = taker /\ OppoSet(taker)' \subseteq OppoSet(taker)
      /\ \A i \in DOMAIN orders : orders'[i].req = Req(i)
      /\ taker \in DOMAIN orders /\ items' = Append(items, item)
      /\ OppoSet(taker) \subseteq DOMAIN orders
  BY <1>1, AfterMet DEF OppoSet, OrderSet, IInv, TypeOK
<1>3. items \in Seq(Item)
  BY DEF IInv, TypeOK
<1>4. /\ n \notin DOMAIN items /\ DOMAIN items' = DOMAIN items \cup {n}
      /\ \A k \in DOMAIN items : items'[k] = items[k]
      /\ items'[n] = item
      /\ IsFill(item) => FillItems' = FillItems \cup {n}
  BY <1>2, <1>3, AppendedItem
<1>5. /\ Len(items) \in Nat /\ DOMAIN items = 1 .. Len(items)
      /\ \A k \in DOMAIN items : items[k].price \in Nat
  BY <1>3, ItemsAreTyped
<1>6. /\ Req(m).price \in Nat /\ Req(m).price > 0
      /\ \A q \in OppoSet(taker) :
           /\ Req(q).price \in Nat
           /\ NoBetter(r.side, Req(m).price, Req(q).price)
  BY <1>1, HeadIsNoWorse
<1>7. m \in OppoSet(taker)
  BY <1>1 DEF IsHead
<1>8. ASSUME NEW k \in DOMAIN items
      PROVE  /\ items[k].role = "maker" /\ items[k].price > 0
             /\ \A q \in OppoSet(taker) : NoBetter(r.side, items[k].price, Req(q).price)
             /\ \A j \in 1 .. k : NoBetter(r.side, items[j].price, items[k].price)
             /\ (k > 1 /\ r.type # "Limit" /\ r.rate # 0) =>
                  /\ ~BelowCircuit(r.rate, items[1].price, items[k].price)
                  /\ ~AboveCircuit(r.rate, items[1].price, items[k].price)
  BY <1>1, <1>8 DEF MetInOrder
<1>9. \A k \in DOMAIN items : NoBetter(r.side, items[k].price, item.price)
  BY <1>7, <1>8
<1>10. NoBetter(r.side, item.price, item.price)
  BY <1>6 DEF NoBetter
<1>11. (n > 1 /\ r.type # "Limit" /\ r.rate # 0) =>
          /\ ~BelowCircuit(r.rate, items[1].price, item.price)
          /\ ~AboveCircuit(r.rate, items[1].price, item.price)
  <2>1. n > 1 => items # <<>>
    BY <1>5
  <2>2. QED
    BY <1>1, <2>1 DEF OutOfCircuit
<1>12. ASSUME NEW k \in DOMAIN items'
       PROVE  /\ items'[k].role = "maker" /\ items'[k].price > 0
              /\ \A q \in OppoSet(taker) : NoBetter(r.side, items'[k].price, Req(q).price)
              /\ \A j \in 1 .. k : NoBetter(r.side, items'[j].price, items'[k].price)
              /\ (k > 1 /\ r.type # "Limit" /\ r.rate # 0) =>
                   /\ ~BelowCircuit(r.rate, items'[1].price, items'[k].price)
                   /\ ~AboveCircuit(r.rate, items'[1].price, items'[k].price)
  <2>1. CASE k \in DOMAIN items
    <3>1. items'[k] = items[k] /\ k \in 1 .. Len(items)
      BY <1>4, <1>5, <2>1
    <3>2. \A j \in 1 .. k : items'[j] = items[j]
      BY <1>4, <1>5, <3>1
    <3>3. items'[1] = items[1]
      BY <1>5, <3>1, <3>2
    <3>4. QED
      BY <1>8, <2>1, <3>1, <3>2, <3>3
  <2>2. CASE k = n
    <3>1. items'[k] = item
      BY <1>4, <2>2
    <3>2. \A j \in 1 .. k : (j \in DOMAIN items /\ items'[j] = items[j])
                          \/ items'[j] = item
      BY <1>4, <1>5, <2>2
    <3>3. \A j \in 1 .. k : NoBetter(r.side, items'[j].price, item.price)
      BY <1>9, <1>10, <3>2
    <3>4. k > 1 => items'[1] = items[1]
      BY <1>4, <1>5, <2>2
    <3>5. QED
      BY <1>6, <1>11, <2>2, <3>1, <3>3, <3>4
  <2>3. QED
    BY <1>4, <2>1, <2>2
<1>13. r.stp = "AST" => FillItems' = DOMAIN items'
  BY <1>1, <1>4 DEF MetInOrder
<1>14. /\ \A q \in OppoSet(taker)' : q \in OppoSet(taker) /\ orders'[q].req = Req(q)
       /\ orders'[taker'].req = r
  BY <1>2
<1>15. QED
  <2> HIDE DEF r, n
  <2>1. QED
    BY <1>2, <1>12, <1>13, <1>14 DEF MetInOrder, Req

-----------------------------------------------------------------------------
(* The circuit: the fraction r / RateUnit on both sides of a price.        *)

CircuitFacts(rate, p) ==
  /\ RateUnit \in Nat /\ RateUnit > 0
  /\ RateUnit * p \in Nat /\ rate * p \in Nat
  /\ (RateUnit + rate) * p = RateUnit * p + rate * p
  /\ (RateUnit - rate) * p = RateUnit * p - rate * p
  /\ p > 0 => RateUnit * p > 0
  /\ (p > 0 /\ rate > 0) => rate * p > 0

LEMMA CircuitProducts ==
  ASSUME NEW rate \in Nat, NEW p \in Nat
  PROVE  CircuitFacts(rate, p)
<1>1. RateUnit \in Nat /\ RateUnit > 0
  BY MatchingAssumption
<1>2. RateUnit * p \in Nat /\ rate * p \in Nat
  BY <1>1, ProductIsNat
<1>3. (RateUnit + rate) * p = RateUnit * p + rate * p
  BY <1>1, AddToProduct
<1>4. (RateUnit - rate) * p = RateUnit * p - rate * p
  BY <1>1, SMT
<1>5. p > 0 => RateUnit * p > 0
  BY <1>1, SMT
<1>6. p > 0 /\ rate > 0 => rate * p > 0
  BY SMT
<1>7. QED
  BY <1>1, <1>2, <1>3, <1>4, <1>5, <1>6 DEF CircuitFacts

(* A price nearer to the reference is within the circuit when a farther    *)
(* one is.                                                                 *)
LEMMA CircuitIsMonotone ==
  ASSUME NEW rate \in Nat, NEW ref \in Nat, NEW p \in Nat, NEW q \in Nat, p <= q
  PROVE  /\ ~BelowCircuit(rate, ref, p) => ~BelowCircuit(rate, ref, q)
         /\ ~AboveCircuit(rate, ref, q) => ~AboveCircuit(rate, ref, p)
<1>1. RateUnit * p <= RateUnit * q
  BY MatchingAssumption, ProductIsMonotone
<1>2. /\ (RateUnit - rate) * ref \in Int /\ (RateUnit + rate) * ref \in Int
      /\ RateUnit * p \in Int /\ RateUnit * q \in Int
  <2>1. CircuitFacts(rate, ref) /\ CircuitFacts(rate, p) /\ CircuitFacts(rate, q)
    BY CircuitProducts
  <2>2. QED
    BY <2>1 DEF CircuitFacts
<1>3. QED
  BY <1>1, <1>2 DEF BelowCircuit, AboveCircuit

(* A price on one side of the reference is not out on the other.           *)
LEMMA CircuitHasTwoSides ==
  ASSUME NEW rate \in Nat \ {0}, NEW ref \in Nat \ {0}, NEW p \in Nat
  PROVE  /\ p <= ref => ~AboveCircuit(rate, ref, p)
         /\ p >= ref => ~BelowCircuit(rate, ref, p)
<1>1. /\ p <= ref => RateUnit * p <= RateUnit * ref
      /\ p >= ref => RateUnit * p >= RateUnit * ref
  BY MatchingAssumption, ProductIsMonotone
<1>2. /\ (RateUnit - rate) * ref = RateUnit * ref - rate * ref
      /\ (RateUnit + rate) * ref = RateUnit * ref + rate * ref
      /\ rate * ref > 0 /\ rate * ref \in Int
      /\ RateUnit * p \in Int /\ RateUnit * ref \in Int
  <2>1. CircuitFacts(rate, ref) /\ CircuitFacts(rate, p)
    BY CircuitProducts
  <2>2. QED
    BY <2>1 DEF CircuitFacts
<1>3. QED
  BY <1>1, <1>2 DEF BelowCircuit, AboveCircuit

(* A reference nearer to a price keeps it within.                          *)
LEMMA CircuitFollowsThePrice ==
  ASSUME NEW rate \in Nat, NEW ref \in Nat, NEW near \in Nat, NEW p \in Nat \ {0}
  PROVE  /\ (ref <= near /\ ~AboveCircuit(rate, ref, p)) => ~AboveCircuit(rate, near, p)
         /\ (ref >= near /\ ~BelowCircuit(rate, ref, p)) => ~BelowCircuit(rate, near, p)
<1>1. /\ RateUnit \in Nat /\ RateUnit * p \in Nat /\ RateUnit * p > 0
      /\ (RateUnit - rate) * ref \in Int /\ (RateUnit + rate) * ref \in Int
      /\ (RateUnit - rate) * near \in Int /\ (RateUnit + rate) * near \in Int
  <2>1. CircuitFacts(rate, ref) /\ CircuitFacts(rate, near) /\ CircuitFacts(rate, p)
    BY CircuitProducts
  <2>2. QED
    BY <2>1 DEF CircuitFacts
<1>2. ref <= near => (RateUnit + rate) * ref <= (RateUnit + rate) * near
  BY <1>1, ProductIsMonotone
<1>3. CASE rate <= RateUnit
  <2>1. near <= ref => (RateUnit - rate) * near <= (RateUnit - rate) * ref
    BY <1>1, <1>3, ProductIsMonotone
  <2>2. QED
    BY <1>1, <1>2, <2>1 DEF BelowCircuit, AboveCircuit
<1>4. CASE rate > RateUnit
  <2>1. (RateUnit - rate) * near <= 0
    BY <1>1, <1>4, SMT
  <2>2. QED
    BY <1>1, <1>2, <2>1 DEF BelowCircuit, AboveCircuit
<1>5. QED
  BY <1>1, <1>3, <1>4

LEMMA CircuitIsKept ==
  ASSUME IInv, MetInOrder
  PROVE  CircuitBound
<1> DEFINE r == Req(taker)
<1>1. SUFFICES ASSUME taker # None, r.rate # 0, r.type # "Limit",
                      NEW j \in FillItems, NEW k \in FillItems, j < k
               PROVE  /\ ~BelowCircuit(r.rate, items[j].price, items[k].price)
                      /\ ~AboveCircuit(r.rate, items[j].price, items[k].price)
  BY DEF CircuitBound
<1>2. taker \in DOMAIN orders /\ r.rate \in Nat \ {0} /\ r.side \in Sides
  BY <1>1, OrdersAreSound, OrderFields DEF IInv, TypeOK, Req
<1>3. /\ j \in DOMAIN items /\ k \in DOMAIN items /\ j \in 1 .. k /\ 1 \in DOMAIN items
      /\ 1 \in 1 .. j /\ k > 1
      /\ \A l \in DOMAIN items : items[l].price \in Nat
  BY <1>1, ItemsAreTyped DEF IInv, TypeOK
<1> DEFINE a == items[1].price
           b == items[j].price
           c == items[k].price
<1>4. /\ NoBetter(r.side, a, b) /\ NoBetter(r.side, b, c)
      /\ a > 0 /\ b > 0 /\ c > 0 /\ a \in Nat /\ b \in Nat /\ c \in Nat
      /\ ~BelowCircuit(r.rate, a, c) /\ ~AboveCircuit(r.rate, a, c)
  BY <1>1, <1>3 DEF MetInOrder
<1> HIDE DEF a, b, c, r
<1>5. CASE r.side = "Buy"
  <2>1. a <= b /\ b <= c
    BY <1>4, <1>5 DEF NoBetter
  <2>2. ~AboveCircuit(r.rate, b, c)
    BY <1>2, <1>4, <2>1, CircuitFollowsThePrice
  <2>3. ~BelowCircuit(r.rate, b, c)
    BY <1>2, <1>4, <2>1, CircuitHasTwoSides
  <2>4. QED
    BY <2>2, <2>3 DEF b, c
<1>6. CASE r.side = "Sell"
  <2>1. a >= b /\ b >= c
    BY <1>4, <1>6 DEF NoBetter
  <2>2. ~BelowCircuit(r.rate, b, c)
    BY <1>2, <1>4, <2>1, CircuitFollowsThePrice
  <2>3. ~AboveCircuit(r.rate, b, c)
    BY <1>2, <1>4, <2>1, CircuitHasTwoSides
  <2>4. QED
    BY <2>2, <2>3 DEF b, c
<1>7. QED
  BY <1>2, <1>5, <1>6 DEF Sides

-----------------------------------------------------------------------------
(* What canFilledFokOrder adds up.                                         *)

LEMMA WithinIsFinite ==
  ASSUME IInv, IsFiniteSet(DOMAIN orders), NEW i, NEW ref
  PROVE  /\ Within(i, ref) \subseteq OppoSet(i)
         /\ Within(i, ref) \subseteq book /\ Within(i, ref) \subseteq DOMAIN orders
         /\ IsFiniteSet(Within(i, ref))
         /\ \A m \in Within(i, ref) : orders[m].unfilled \in Nat
<1>1. Within(i, ref) \subseteq OppoSet(i) /\ Within(i, ref) \subseteq book
  BY DEF Within, OppoSet, OrderSet
<1>2. Within(i, ref) \subseteq DOMAIN orders
  BY <1>1 DEF IInv, TypeOK
<1>3. IsFiniteSet(Within(i, ref))
  BY <1>2, FS_Subset
<1>4. \A m \in Within(i, ref) : orders[m].unfilled \in Nat
  BY <1>2, OrdersAreSound, OrderFields
<1>5. QED
  BY <1>1, <1>2, <1>3, <1>4

LEMMA CoverIsNotEmpty ==
  ASSUME IInv, IsFiniteSet(DOMAIN orders), NEW i, orders[i].unfilled \in Nat,
         orders[i].unfilled > 0, NEW ref, Covered(i, ref)
  PROVE  Within(i, ref) # {}
<1> DEFINE W == Within(i, ref)
<1>1. SUFFICES ASSUME W = {} PROVE FALSE
  OBVIOUS
<1>2. IsFiniteSet(W) /\ \A m \in W : orders[m].unfilled \in Nat
  BY WithinIsFinite
<1>3. UnfilledOf(orders, W) = Total([m \in W |-> orders[m].unfilled], W)
  <2> HIDE DEF W
  <2>1. QED
    BY <1>2, UnfilledTotal
<1>4. UnfilledOf(orders, W) = 0
  BY <1>1, <1>3, TotalOfNone
<1>5. QED
  BY <1>4 DEF Covered

(* The head of the other side is within the limits when any order is.      *)
LEMMA HeadIsWithin ==
  ASSUME IInv, taker # None, NEW m \in book, IsHead(m, OppoSet(taker)),
         NEW ref \in Nat, NEW n \in Within(taker, ref)
  PROVE  m \in Within(taker, ref)
<1> DEFINE r == Req(taker)
           p == Req(m).price
           q == Req(n).price
<1>1. n \in OppoSet(taker) /\ m \in OppoSet(taker)
  BY DEF Within, IsHead
<1>2. p \in Nat /\ q \in Nat /\ NoBetter(r.side, p, q)
  BY <1>1, HeadIsNoWorse
<1>3. r.rate \in Nat /\ r.price \in Nat /\ r.side \in Sides
  BY OrdersAreSound, OrderFields DEF IInv, TypeOK, Req
<1>4. IF r.side = "Sell"
      THEN q >= r.price /\ (r.rate # 0 => ~BelowCircuit(r.rate, ref, q))
      ELSE q <= r.price /\ (r.rate # 0 => ~AboveCircuit(r.rate, ref, q))
  BY DEF Within
<1> HIDE DEF r, p, q
<1>5. IF r.side = "Sell"
      THEN p >= r.price /\ (r.rate # 0 => ~BelowCircuit(r.rate, ref, p))
      ELSE p <= r.price /\ (r.rate # 0 => ~AboveCircuit(r.rate, ref, p))
  <2>1. CASE r.side = "Sell"
    <3>1. q <= p /\ p >= r.price
      BY <1>2, <1>3, <1>4, <2>1 DEF NoBetter
    <3>2. QED
      BY <1>2, <1>3, <1>4, <2>1, <3>1, CircuitIsMonotone
  <2>2. CASE r.side # "Sell"
    <3>1. p <= q /\ p <= r.price
      BY <1>2, <1>3, <1>4, <2>2 DEF NoBetter, Sides
    <3>2. QED
      BY <1>2, <1>3, <1>4, <2>2, <3>1, CircuitIsMonotone
  <2>3. QED
    BY <2>1, <2>2
<1>6. QED
  BY <1>1, <1>5 DEF Within, r, p

(* The price whose circuit bounds the FOK order that meets m.              *)
FokRef(m) == IF items = <<>> THEN Req(m).price ELSE items[1].price

(* While something is left of an accepted FOK order, the head of the other *)
(* side is within its price limit and within its circuit.                  *)
LEMMA FokMeetsWithin ==
  ASSUME IInv, IsFiniteSet(DOMAIN orders), MetInOrder, FokCovered,
         taker # None, Req(taker).type = "Fok", checked,
         orders[taker].state # "Filled",
         NEW m \in book, IsHead(m, OppoSet(taker))
  PROVE  /\ FokRef(m) \in Nat /\ Covered(taker, FokRef(m))
         /\ m \in Within(taker, FokRef(m)) /\ ~OutOfCircuit(taker, m)
<1> DEFINE r == Req(taker)
           p == Req(m).price
           ref == FokRef(m)
           S == OppoSet(taker)
           h == CHOOSE h \in S : IsHead(h, S)
<1>1. /\ taker \in DOMAIN orders /\ r.rate \in Nat /\ r.side \in Sides
      /\ orders[taker].unfilled \in Nat
  BY OrdersAreSound, OrderFields DEF IInv, TypeOK, Req
<1>2. orders[taker].unfilled > 0
  BY DEF FokCovered
<1>3. m \in S /\ p \in Nat /\ p > 0
  BY HeadIsNoWorse DEF IsHead
<1>4. h \in S /\ IsHead(h, S) /\ h \in book
  <2>1. h \in S /\ IsHead(h, S)
    BY <1>3
  <2>2. QED
    BY <2>1 DEF OppoSet, OrderSet
<1>5. Req(h).price = p
  <2>1. /\ NoBetter(r.side, p, Req(h).price) /\ NoBetter(r.side, Req(h).price, p)
        /\ Req(h).price \in Nat
    <3> HIDE DEF h
    <3>1. QED
      BY <1>3, <1>4, HeadIsNoWorse
  <2>2. QED
    BY <1>3, <2>1 DEF NoBetter
<1>6. Covered(taker, ref)
  <2>1. CASE items = <<>>
    <3>1. FokFillable(taker)
      BY <2>1 DEF FokCovered
    <3>2. Covered(taker, Req(h).price)
      BY <3>1 DEF FokFillable
    <3>3. QED
      BY <1>5, <2>1, <3>2 DEF FokRef
  <2>2. CASE items # <<>>
    BY <2>2 DEF FokCovered, FokRef
  <2>3. QED
    BY <2>1, <2>2
<1>7. items # <<>> => 1 \in DOMAIN items /\ items[1].price \in Nat
  BY ItemsAreTyped DEF IInv, TypeOK
<1>8. ref \in Nat /\ ref > 0 /\ NoBetter(r.side, ref, p)
  <2>1. CASE items = <<>>
    BY <1>3, <2>1 DEF FokRef, NoBetter
  <2>2. CASE items # <<>>
    BY <1>3, <1>7, <2>2 DEF FokRef, MetInOrder
  <2>3. QED
    BY <2>1, <2>2
<1> HIDE DEF ref
<1>9. m \in Within(taker, ref)
  <2>1. PICK n \in Within(taker, ref) : TRUE
    BY <1>1, <1>2, <1>6, CoverIsNotEmpty
  <2>2. QED
    BY <1>8, <2>1, HeadIsWithin
<1>10. r.rate # 0 => ~BelowCircuit(r.rate, ref, p) /\ ~AboveCircuit(r.rate, ref, p)
  <2>1. SUFFICES ASSUME r.rate # 0
                 PROVE  ~BelowCircuit(r.rate, ref, p) /\ ~AboveCircuit(r.rate, ref, p)
    OBVIOUS
  <2>2. /\ r.side = "Sell" => ~BelowCircuit(r.rate, ref, p)
        /\ r.side # "Sell" => ~AboveCircuit(r.rate, ref, p)
    BY <1>9, <2>1 DEF Within
  <2>3. /\ p <= ref => ~AboveCircuit(r.rate, ref, p)
        /\ p >= ref => ~BelowCircuit(r.rate, ref, p)
    BY <1>1, <1>3, <1>8, <2>1, CircuitHasTwoSides
  <2>4. QED
    BY <1>1, <1>3, <1>8, <2>2, <2>3 DEF NoBetter, Sides
<1>11. ~OutOfCircuit(taker, m)
  BY <1>10 DEF OutOfCircuit, FokRef, ref
<1>12. QED
  BY <1>6, <1>8, <1>9, <1>11 DEF ref

(* A fill takes as much from the orders within the limits as from what is  *)
(* left of the taker.                                                      *)
LEMMA FillTakesFromTheCover ==
  ASSUME NEW os, NEW os2, NEW W, IsFiniteSet(W), NEW m \in W, NEW V,
         NEW amount \in Nat,
         \A n \in W : os[n].unfilled \in Nat,
         amount <= os[m].unfilled,
         os2[m].unfilled = os[m].unfilled - amount,
         \A n \in W \ {m} : os2[n].unfilled = os[n].unfilled,
         V = W \/ (V = W \ {m} /\ amount = os[m].unfilled)
  PROVE  /\ UnfilledOf(os, W) \in Nat
         /\ UnfilledOf(os2, V) = UnfilledOf(os, W) - amount
<1> DEFINE f == [n \in W |-> os[n].unfilled]
           g == [n \in W |-> os2[n].unfilled]
           h == [n \in V |-> os2[n].unfilled]
           R == W \ {m}
<1>1. /\ f \in [W -> Nat] /\ g \in [W -> Nat] /\ m \in W
      /\ R \in SUBSET W /\ V \in SUBSET W /\ W \in SUBSET W
      /\ f[m] = os[m].unfilled /\ g[m] = os[m].unfilled - amount
      /\ \A n \in R : g[n] = f[n]
      /\ \A n \in V : h[n] = g[n] /\ os2[n].unfilled \in Nat
  OBVIOUS
<1>2. IsFiniteSet(V)
  BY <1>1, FS_Subset
<1>3. UnfilledOf(os, W) = Total(f, W)
  BY UnfilledTotal
<1>4. UnfilledOf(os2, V) = Total(h, V)
  BY <1>1, <1>2, UnfilledTotal
<1> HIDE DEF f, g, h, R
<1>5. Total(h, V) = Total(g, V)
  BY <1>1, TotalDependsOnValues
<1>6. Total(g, R) = Total(f, R)
  BY <1>1, TotalDependsOnValues
<1>7. Total(f, W) = f[m] + Total(f, R)
  BY <1>1, TotalWithout DEF R
<1>8. Total(g, W) = g[m] + Total(g, R)
  BY <1>1, TotalWithout DEF R
<1>9. Total(f, R) \in Nat /\ Total(f, W) \in Nat
  BY <1>1, TotalOfPart
<1>10. CASE V = W
  BY <1>1, <1>3, <1>4, <1>5, <1>6, <1>7, <1>8, <1>9, <1>10
<1>11. CASE V = R /\ amount = os[m].unfilled
  BY <1>1, <1>3, <1>4, <1>5, <1>6, <1>7, <1>9, <1>11
<1>12. QED
  BY <1>10, <1>11 DEF R

LEMMA FillKeepsTheCover ==
  ASSUME IInv, IsFiniteSet(DOMAIN orders), MetInOrder, FokCovered,
         NEW m \in book, Fill(m), Req(taker).type = "Fok"
  PROVE  /\ items' # <<>>
         /\ UnfilledOf(orders', Within(taker, items[1].price)')
              >= orders[taker].unfilled - MatchAmount(taker, m)
<1> DEFINE amount == MatchAmount(taker, m)
           cost == TakerAmount(taker, m)
           pr == Req(m).price
           t == Filled(orders[taker], cost, pr)
           o == Filled(orders[m], amount, pr)
           item == FillItem(m, o, amount)
           ref == FokRef(m)
           W == Within(taker, ref)
           V == Within(taker, items[1].price)'
<1>1. /\ Meets(m) /\ Asserted(m) /\ ~TooPrecise(m) /\ Met(m, t, o, item)
  BY DEF Fill
<1>2. /\ taker # None /\ taker \in DOMAIN orders /\ m \in DOMAIN orders
      /\ orders[taker] \in Order /\ orders[m] \in Order /\ m \in Ids
      /\ checked /\ orders[taker].state # "Filled"
      /\ amount \in Nat /\ amount <= orders[m].unfilled
      /\ cost \in Nat /\ cost <= orders[taker].unfilled
  BY <1>1, MeetingFacts DEF OpenStates
<1>3. IsHead(m, OppoSet(taker))
  BY <1>1 DEF Meets, AtHead
<1>4. /\ ref \in Nat /\ Covered(taker, ref) /\ m \in W
  BY <1>2, <1>3, FokMeetsWithin
<1>5. /\ pr \in Nat /\ orders[taker].unfilled \in Nat /\ orders[m].unfilled \in Nat
  BY <1>2, OrderFields DEF Req
<1> HIDE DEF amount, cost, pr
<1>6. t \in Order /\ t.req = Req(taker)
  <2>1. /\ cost \in Nat /\ cost <= orders[taker].unfilled /\ orders[taker] \in Order
        /\ pr \in Nat
    BY <1>2, <1>5
  <2>2. t \in Order /\ t.req = orders[taker].req
    BY <2>1, FilledType
  <2>3. QED
    BY <2>2 DEF Req
<1>7. /\ o \in Order /\ o.req = Req(m) /\ o.unfilled = orders[m].unfilled - amount
      /\ o.state = IF orders[m].unfilled = amount THEN "Filled" ELSE "PartialFilled"
  <2>1. /\ amount \in Nat /\ amount <= orders[m].unfilled /\ orders[m] \in Order
        /\ pr \in Nat
    BY <1>2, <1>5
  <2> HIDE DEF t, o, item, ref, W, V
  <2>2. /\ Filled(orders[m], amount, pr) \in Order
        /\ Filled(orders[m], amount, pr).req = orders[m].req
        /\ Filled(orders[m], amount, pr).unfilled = orders[m].unfilled - amount
        /\ Filled(orders[m], amount, pr).state
             = IF orders[m].unfilled = amount THEN "Filled" ELSE "PartialFilled"
    <3>1. \A q \in Order : amount <= q.unfilled =>
            /\ Filled(q, amount, pr) \in Order
            /\ Filled(q, amount, pr).req = q.req
            /\ Filled(q, amount, pr).unfilled = q.unfilled - amount
            /\ Filled(q, amount, pr).state
                 = IF q.unfilled = amount THEN "Filled" ELSE "PartialFilled"
      BY <2>1, FilledType
    <3>2. QED
      BY <2>1, <3>1, Zenon
  <2>3. QED
    BY <2>2 DEF Req, o
<1> HIDE DEF t, o
<1>8. item \in Item /\ item.price = pr
  BY <1>2, <1>7, FillItemType DEF FillItem, pr
<1> HIDE DEF item
<1>9. /\ taker' = taker /\ orders'[m].unfilled = o.unfilled
      /\ \A i \in DOMAIN orders \ {taker, m} : orders'[i] = orders[i]
      /\ \A i \in DOMAIN orders : orders'[i].req = Req(i)
      /\ book' = IF Finished(o) THEN book \ {m} ELSE book
      /\ OppoSet(taker)' = OppoSet(taker) \cap book'
      /\ items' = Append(items, item)
  <2>1. /\ taker # None /\ t \in Order /\ o \in Order /\ item \in Item
        /\ t.req = Req(taker) /\ o.req = Req(m) /\ Met(m, t, o, item)
    BY <1>1, <1>2, <1>6, <1>7, <1>8
  <2> HIDE DEF ref, W, V
  <2>2. QED
    BY <2>1, AfterMet
<1>10. items \in Seq(Item)
  BY DEF IInv, TypeOK
<1>11. items' # <<>> /\ items'[1].price = ref
  <2>1. CASE items = <<>>
    BY <1>8, <1>9, <1>10, <2>1 DEF FokRef, pr
  <2>2. CASE items # <<>>
    BY <1>8, <1>9, <1>10, <2>2 DEF FokRef
  <2>3. QED
    BY <2>1, <2>2
<1>12. /\ IsFiniteSet(W) /\ W \subseteq OppoSet(taker) /\ W \subseteq book
       /\ W \subseteq DOMAIN orders /\ OppoSet(taker) \subseteq DOMAIN orders
       /\ \A n \in W : orders[n].unfilled \in Nat
  BY <1>2, WithinIsFinite DEF IInv, TypeOK, OppoSet, OrderSet
<1>13. V = W \cap book'
  <2>1. \A n \in OppoSet(taker) : orders'[n].req = orders[n].req
    BY <1>9, <1>12 DEF Req
  <2>2. orders'[taker'].req = orders[taker].req
    BY <1>2, <1>9 DEF Req
  <2> HIDE DEF ref
  <2>3. QED
    BY <1>9, <1>11, <2>1, <2>2 DEF Within, Req
<1>14. Finished(o) <=> amount = orders[m].unfilled
  BY <1>7 DEF Finished
<1>15. V = W \/ (V = W \ {m} /\ amount = orders[m].unfilled)
  BY <1>9, <1>12, <1>13, <1>14
<1>16. taker \notin W
  BY <1>2, <1>12 DEF IInv, TakerIsOpen
<1>17. \A n \in W \ {m} : orders'[n].unfilled = orders[n].unfilled
  BY <1>9, <1>12, <1>16
<1> HIDE DEF V, W, ref
<1>18. /\ UnfilledOf(orders, W) \in Nat
       /\ UnfilledOf(orders', V) = UnfilledOf(orders, W) - amount
  <2>1. orders'[m].unfilled = orders[m].unfilled - amount
    BY <1>7, <1>9
  <2>2. amount <= orders[m].unfilled /\ amount \in Nat
    BY <1>2
  <2>3. QED
    BY <1>4, <1>12, <1>15, <1>17, <2>1, <2>2, FillTakesFromTheCover
<1>19. UnfilledOf(orders, W) >= orders[taker].unfilled
  BY <1>4 DEF Covered, W
<1>20. QED
  BY <1>2, <1>5, <1>11, <1>18, <1>19 DEF V, amount

-----------------------------------------------------------------------------
(* What the taker gets.                                                    *)

LEMMA NoFillAddsNothing ==
  ASSUME items \in Seq(Item), NEW item \in Item, items' = Append(items, item),
         ~IsFill(item)
  PROVE  AmountFilled' = AmountFilled /\ ValueFilled' = ValueFilled
<1> DEFINE S == FillItems
           g == items'
<1>1. /\ IsFiniteSet(S) /\ S \subseteq DOMAIN items
      /\ \A k \in DOMAIN items : /\ items[k].amount \in Nat
                                 /\ items[k].amount * items[k].price \in Nat
  BY ItemsAreTyped
<1>2. FillItems' = S /\ \A k \in S : g[k] = items[k]
  BY <1>1, AppendedItem
<1>3. AmountFilled' = AmountOf(g, S) /\ ValueFilled' = ValueOf(g, S)
  BY <1>2 DEF AmountFilled, ValueFilled
<1>4. /\ [k \in S |-> g[k].amount] = [k \in S |-> items[k].amount]
      /\ [k \in S |-> g[k].amount * g[k].price]
           = [k \in S |-> items[k].amount * items[k].price]
  BY <1>2
<1>5. \A k \in S : /\ items[k].amount \in Nat /\ items[k].amount * items[k].price \in Nat
                   /\ g[k].amount \in Nat /\ g[k].amount * g[k].price \in Nat
  BY <1>1, <1>2
<1> HIDE DEF S, g
<1>6. AmountOf(g, S) = AmountOf(items, S)
  <2>1. AmountOf(g, S) = Total([k \in S |-> g[k].amount], S)
    BY <1>1, <1>5, AmountTotal
  <2>2. AmountOf(items, S) = Total([k \in S |-> items[k].amount], S)
    BY <1>1, <1>5, AmountTotal
  <2>3. QED
    BY <1>4, <2>1, <2>2
<1>7. ValueOf(g, S) = ValueOf(items, S)
  <2>1. ValueOf(g, S) = Total([k \in S |-> g[k].amount * g[k].price], S)
    BY <1>1, <1>5, ValueTotal
  <2>2. ValueOf(items, S) = Total([k \in S |-> items[k].amount * items[k].price], S)
    BY <1>1, <1>5, ValueTotal
  <2>3. QED
    BY <1>4, <2>1, <2>2
<1>8. QED
  BY <1>3, <1>6, <1>7 DEF AmountFilled, ValueFilled, S

(* An order without a result has got nothing.                              *)
LEMMA NoItemsNoAmount ==
  ASSUME items' = <<>>
  PROVE  FillItems' = {} /\ AmountFilled' = 0 /\ ValueFilled' = 0
<1> DEFINE g == items'
<1>1. FillItems' = {}
  BY DEF FillItems
<1>2. AmountFilled' = AmountOf(g, {}) /\ ValueFilled' = ValueOf(g, {})
  BY <1>1 DEF AmountFilled, ValueFilled
<1>3. IsFiniteSet({})
  BY FS_EmptySet
<1> HIDE DEF g
<1>4. AmountOf(g, {}) = 0
  BY <1>3, AmountTotal, TotalOfNone
<1>5. ValueOf(g, {}) = 0
  BY <1>3, ValueTotal, TotalOfNone
<1>6. QED
  BY <1>1, <1>2, <1>4, <1>5

(* What TakerGetsWhatMakersGive says of an order.                          *)
Gets(o, amount, value) ==
  IF o.req.type = "Market" /\ o.req.side = "Buy"
  THEN o.acc = value
  ELSE o.acc = amount /\ o.value = value

LEMMA TakerGets ==
  /\ TakerGetsWhatMakersGive
       <=> (taker # None => Gets(orders[taker], AmountFilled, ValueFilled))
  /\ TakerGetsWhatMakersGive'
       <=> (taker' # None => Gets(orders'[taker'], AmountFilled', ValueFilled'))
<1>1. TakerGetsWhatMakersGive
       <=> (taker # None => Gets(orders[taker], AmountFilled, ValueFilled))
  BY DEF TakerGetsWhatMakersGive, Gets, AmountFilled, ValueFilled, CashBased, Req
<1>2. TakerGetsWhatMakersGive'
       <=> (taker' # None => Gets(orders'[taker'], AmountFilled', ValueFilled'))
  BY DEF TakerGetsWhatMakersGive, Gets, AmountFilled, ValueFilled, CashBased, Req
<1>3. QED
  BY <1>1, <1>2

-----------------------------------------------------------------------------
(* The steps that leave the taker with its results.                        *)

FokInv == FokCovered /\ FokAllOrNothing /\ FokPriceRespected

(* What the FOK properties say of an order.                                *)
FokWhole(o) == o.req.type = "Fok" => o.acc \in {0, o.req.amount}
FokPriced(o) ==
  o.req.type = "Fok" =>
    IF o.req.side = "Buy" THEN o.value <= o.acc * o.req.price
                          ELSE o.value >= o.acc * o.req.price

LEMMA FokByOrder ==
  /\ FokAllOrNothing <=> \A i \in DOMAIN orders \ {taker} : FokWhole(orders[i])
  /\ FokAllOrNothing' <=> \A i \in DOMAIN orders' \ {taker'} : FokWhole(orders'[i])
  /\ FokPriceRespected <=> \A i \in DOMAIN orders : FokPriced(orders[i])
  /\ FokPriceRespected' <=> \A i \in DOMAIN orders' : FokPriced(orders'[i])
<1>1. FokAllOrNothing <=> \A i \in DOMAIN orders \ {taker} : FokWhole(orders[i])
  BY DEF FokAllOrNothing, FokWhole, Req
<1>2. FokAllOrNothing' <=> \A i \in DOMAIN orders' \ {taker'} : FokWhole(orders'[i])
  BY DEF FokAllOrNothing, FokWhole, Req
<1>3. FokPriceRespected <=> \A i \in DOMAIN orders : FokPriced(orders[i])
  BY DEF FokPriceRespected, FokPriced
<1>4. FokPriceRespected' <=> \A i \in DOMAIN orders' : FokPriced(orders'[i])
  BY DEF FokPriceRespected, FokPriced
<1>5. QED
  BY <1>1, <1>2, <1>3, <1>4

LEMMA FillableIsKept ==
  ASSUME UNCHANGED <<orders, book, taker, items>>
  PROVE  FokFillable(taker)' <=> FokFillable(taker)
BY DEF FokFillable, Covered, Within, OppoSet, OrderSet, Req, IsHead, Precedes

LEMMA CoverIsKept ==
  ASSUME UNCHANGED <<orders, book, taker, items>>
  PROVE  Covered(taker, items[1].price)' <=> Covered(taker, items[1].price)
BY DEF Covered, Within, OppoSet, OrderSet, Req

LEMMA FokCoverIsKept ==
  ASSUME FokCovered, UNCHANGED <<orders, book, taker, items>>,
         \/ checked' = checked
         \/ /\ checked' = TRUE /\ ~checked /\ FokFillable(taker)
            /\ taker # None /\ Req(taker).type = "Fok"
  PROVE  FokCovered'
<1> DEFINE o == orders[taker]
           A == FokFillable(taker)
           B == Covered(taker, items[1].price)
<1>1. (A' <=> A) /\ (B' <=> B)
  BY FillableIsKept, CoverIsKept
<1>2. /\ checked => taker # None /\ o.req.type = "Fok"
      /\ (taker # None /\ o.req.type = "Fok") =>
           /\ o.decreased = 0
           /\ o.state = "Filled" => o.unfilled = 0
           /\ o.state # "Filled" => o.state \in {"Submitted", "PartialFilled"} /\ o.unfilled > 0
           /\ ~checked => o.acc = 0 /\ items = <<>>
           /\ checked /\ o.state # "Filled" => IF items = <<>> THEN A ELSE B
  BY DEF FokCovered, Req
<1>3. /\ orders'[taker'] = o /\ taker' = taker /\ items' = items
      /\ \/ checked' = checked
         \/ checked' = TRUE /\ ~checked /\ A /\ taker # None /\ o.req.type = "Fok"
  BY DEF Req
<1> DEFINE A2 == A'
           B2 == B'
<1>4. (A2 <=> A) /\ (B2 <=> B)
  BY <1>1
<1>5. FokCovered' <=>
      /\ checked' => taker' # None /\ orders'[taker'].req.type = "Fok"
      /\ (taker' # None /\ orders'[taker'].req.type = "Fok") =>
           /\ orders'[taker'].decreased = 0
           /\ orders'[taker'].state = "Filled" => orders'[taker'].unfilled = 0
           /\ orders'[taker'].state # "Filled" =>
                /\ orders'[taker'].state \in {"Submitted", "PartialFilled"}
                /\ orders'[taker'].unfilled > 0
           /\ ~checked' => orders'[taker'].acc = 0 /\ items' = <<>>
           /\ checked' /\ orders'[taker'].state # "Filled" =>
                IF items' = <<>> THEN A2 ELSE B2
  BY DEF FokCovered, Req
<1> HIDE DEF A, B, A2, B2, o
<1>6. QED
  BY <1>2, <1>3, <1>4, <1>5, Zenon

LEMMA TakerIsKept ==
  ASSUME TakerInv, UNCHANGED <<orders, book, taker, items>>,
         \/ checked' = checked
         \/ /\ checked' = TRUE /\ ~checked /\ FokFillable(taker)
            /\ taker # None /\ Req(taker).type = "Fok"
  PROVE  TakerInv'
<1>1. MetInOrder'
  BY DEF TakerInv, MetInOrder, FillItems, OppoSet, OrderSet, Req
<1>2. TakerGetsWhatMakersGive'
  <2>1. AmountFilled' = AmountFilled /\ ValueFilled' = ValueFilled
    BY DEF AmountFilled, ValueFilled, FillItems
  <2>2. QED
    BY <2>1, TakerGets DEF TakerInv
<1>3. FokWithoutStp => FokCovered' /\ FokAllOrNothing' /\ FokPriceRespected'
  BY FokCoverIsKept, FokByOrder DEF TakerInv
<1>4. QED
  BY <1>1, <1>2, <1>3 DEF TakerInv

-----------------------------------------------------------------------------
(* The steps that close a match.                                           *)

LEMMA NoTakerNoItems ==
  ASSUME taker' = None
  PROVE  MetInOrder' /\ TakerGetsWhatMakersGive'
BY DEF MetInOrder, TakerGetsWhatMakersGive

LEMMA NoTakerNoCover ==
  ASSUME taker' = None, checked' = FALSE
  PROVE  FokCovered'
BY DEF FokCovered

(* An order that got the same is as whole and as well paid.                *)
LEMMA SameFok ==
  ASSUME NEW o, NEW p, p.req = o.req, p.acc = o.acc, p.value = o.value
  PROVE  (FokWhole(o) => FokWhole(p)) /\ (FokPriced(o) => FokPriced(p))
BY DEF FokWhole, FokPriced

LEMMA FinalizeKeeps ==
  ASSUME IInv, TakerInv, taker # None, NEW o \in Order, o.req = Req(taker),
         o.acc = orders[taker].acc, o.value = orders[taker].value,
         FokWithoutStp => FokWhole(o), Finalize(o)
  PROVE  TakerInv'
<1> DEFINE t == TakerState(o.req.type, o.state)
           n == [o EXCEPT !.told = t]
<1>1. taker \in DOMAIN orders
  BY DEF IInv, TypeOK
<1>2. /\ orders' = [orders EXCEPT ![taker] = n]
      /\ taker' = None /\ checked' = FALSE
  BY DEF Finalize
<1>3. n.req = orders[taker].req /\ n.acc = orders[taker].acc /\ n.value = orders[taker].value
      /\ n.req = o.req /\ n.acc = o.acc /\ n.value = o.value
  <2>1. t \in ResultStates
    BY OrderFields, TakerStateType
  <2> HIDE DEF t
  <2>2. QED
    BY <2>1, WithToldType DEF Req
<1> HIDE DEF n
<1>4. /\ DOMAIN orders' = DOMAIN orders /\ orders'[taker] = n
      /\ \A i \in DOMAIN orders \ {taker} : orders'[i] = orders[i]
  BY <1>1, <1>2
<1>5. MetInOrder' /\ TakerGetsWhatMakersGive' /\ FokCovered'
  BY <1>2, NoTakerNoItems, NoTakerNoCover
<1>6. SUFFICES ASSUME FokWithoutStp PROVE FokAllOrNothing' /\ FokPriceRespected'
  BY <1>4, <1>5 DEF TakerInv
<1>7. /\ \A i \in DOMAIN orders \ {taker} : FokWhole(orders[i])
      /\ \A i \in DOMAIN orders : FokPriced(orders[i])
  BY <1>6, FokByOrder DEF TakerInv
<1>8. FokWhole(n) /\ FokPriced(n)
  BY <1>1, <1>3, <1>6, <1>7, SameFok
<1>9. QED
  BY <1>4, <1>7, <1>8, FokByOrder

LEMMA FokCheckKeeps ==
  ASSUME IInv, TakerInv, FokCheck
  PROVE  TakerInv'
<1> DEFINE o == orders[taker]
<1>1. taker # None /\ Req(taker).type = "Fok" /\ ~checked
  BY DEF FokCheck
<1>2. o \in Order /\ o.req = Req(taker)
  BY <1>1, OrdersAreSound DEF IInv, TypeOK, Req
<1>3. CASE FokFillable(taker)
  <2>1. UNCHANGED <<orders, book, taker, items>> /\ checked' = TRUE
    BY <1>3 DEF FokCheck
  <2>2. QED
    BY <1>1, <1>3, <2>1, TakerIsKept
<1>4. CASE ~FokFillable(taker)
  <2>1. Finalize(o)
    BY <1>4 DEF FokCheck
  <2>2. FokWithoutStp => FokWhole(o)
    BY <1>1 DEF TakerInv, FokCovered, FokWhole
  <2>3. QED
    BY <1>1, <1>2, <2>1, <2>2, FinalizeKeeps
<1>5. QED
  BY <1>3, <1>4

LEMMA TakerFinishedKeeps ==
  ASSUME IInv, TakerInv, TakerFinished
  PROVE  TakerInv'
<1> DEFINE o == orders[taker]
<1>1. taker # None /\ Finished(o) /\ Finalize(o)
  BY DEF TakerFinished, InLoop
<1>2. o \in Order /\ o.req = Req(taker) /\ Sound(o)
  BY <1>1, OrdersAreSound DEF IInv, TypeOK, Req
<1>3. FokWithoutStp => FokWhole(o)
  <2>1. SUFFICES ASSUME FokWithoutStp, o.req.type = "Fok"
                 PROVE  o.acc = o.req.amount
    BY DEF FokWhole
  <2>2. o.decreased = 0 /\ o.unfilled = 0
    BY <1>1, <1>2, <2>1 DEF TakerInv, FokCovered, Finished, Req
  <2>3. o.acc \in Nat /\ o.req.amount \in Nat
    BY <1>2, OrderFields
  <2> HIDE DEF o
  <2>4. QED
    BY <1>2, <2>2, <2>3 DEF Sound
<1>4. QED
  BY <1>1, <1>2, <1>3, FinalizeKeeps

(* An order that is no FOK order may stop in any state.                    *)
LEMMA StopKeeps ==
  ASSUME IInv, TakerInv, taker # None, NEW s \in OrderStates,
         FokWithoutStp => Req(taker).type # "Fok",
         Finalize([orders[taker] EXCEPT !.state = s])
  PROVE  TakerInv'
<1> DEFINE o == [orders[taker] EXCEPT !.state = s]
<1>1. orders[taker] \in Order
  BY OrdersAreSound DEF IInv, TypeOK
<1>2. /\ o \in Order /\ o.req = Req(taker)
      /\ o.acc = orders[taker].acc /\ o.value = orders[taker].value
  BY <1>1, WithStateType DEF Req
<1>3. Finalize(o)
  OBVIOUS
<1> HIDE DEF o
<1>4. FokWithoutStp => FokWhole(o)
  BY <1>2 DEF FokWhole
<1>5. QED
  BY <1>2, <1>3, <1>4, FinalizeKeeps

(* An accepted FOK order that is not done finds the other side open.       *)
LEMMA FokNeverExhausted ==
  ASSUME IInv, TakerInv, FokWithoutStp, InLoop, Req(taker).type = "Fok",
         ~Finished(orders[taker]), OppoSet(taker) = {}
  PROVE  FALSE
<1> DEFINE h == CHOOSE h \in OppoSet(taker) : IsHead(h, OppoSet(taker))
<1>1. taker # None /\ checked /\ orders[taker].state # "Filled"
  BY DEF InLoop, Finished
<1>2. /\ orders[taker].unfilled > 0
      /\ IF items = <<>> THEN FokFillable(taker)
                         ELSE Covered(taker, items[1].price)
  BY <1>1 DEF TakerInv, FokCovered
<1>3. orders[taker].unfilled \in Nat
  BY <1>1, OrdersAreSound, OrderFields DEF IInv, TypeOK
<1>4. PICK ref : Covered(taker, ref)
  <2>1. CASE items = <<>>
    <3>1. Covered(taker, Req(h).price)
      BY <1>2, <2>1 DEF FokFillable
    <3>2. QED
      BY <3>1
  <2>2. CASE items # <<>>
    BY <1>2, <2>2
  <2>3. QED
    BY <2>1, <2>2
<1>5. IsFiniteSet(DOMAIN orders)
  BY DEF TakerInv
<1>6. Within(taker, ref) # {}
  BY <1>2, <1>3, <1>4, <1>5, CoverIsNotEmpty
<1>7. QED
  BY <1>5, <1>6, WithinIsFinite

LEMMA ExhaustedKeeps ==
  ASSUME IInv, TakerInv, Exhausted
  PROVE  TakerInv'
<1> DEFINE o == orders[taker]
<1>1. /\ taker # None /\ InLoop /\ ~Finished(o) /\ OppoSet(taker) = {}
      /\ Req(taker).type \in {"Market", "Fok"}
  BY DEF Exhausted, InLoop
<1>2. CASE Req(taker).type = "Fok"
  <2>1. Finalize([o EXCEPT !.state = "Canceled"])
    BY <1>2 DEF Exhausted
  <2>2. "Canceled" \in OrderStates
    BY DEF OrderStates
  <2>3. ~FokWithoutStp
    BY <1>1, <1>2, FokNeverExhausted
  <2>4. QED
    BY <1>1, <2>1, <2>2, <2>3, StopKeeps
<1>3. CASE Req(taker).type = "Market"
  <2>1. Finalize(o)
    BY <1>3 DEF Exhausted
  <2>2. o \in Order /\ o.req = Req(taker)
    BY <1>1, OrdersAreSound DEF IInv, TypeOK, Req
  <2>3. FokWhole(o)
    BY <1>3, <2>2 DEF FokWhole
  <2>4. QED
    BY <1>1, <2>1, <2>2, <2>3, FinalizeKeeps
<1>4. QED
  BY <1>1, <1>2, <1>3

LEMMA CircuitBreakKeeps ==
  ASSUME IInv, TakerInv, NEW m \in book, CircuitBreak(m)
  PROVE  TakerInv'
<1>1. /\ taker # None /\ InLoop /\ ~Finished(orders[taker])
      /\ IsHead(m, OppoSet(taker)) /\ OutOfCircuit(taker, m)
      /\ Finalize([orders[taker] EXCEPT !.state = "CircuitCanceled"])
  BY DEF CircuitBreak, AtHead, InLoop
<1>2. "CircuitCanceled" \in OrderStates
  BY DEF OrderStates
<1>3. FokWithoutStp => Req(taker).type # "Fok"
  <2>1. SUFFICES ASSUME FokWithoutStp, Req(taker).type = "Fok" PROVE FALSE
    OBVIOUS
  <2>2. checked /\ orders[taker].state # "Filled"
    BY <1>1, <2>1 DEF InLoop, Finished
  <2>3. IsFiniteSet(DOMAIN orders) /\ MetInOrder /\ FokCovered
    BY <2>1 DEF TakerInv
  <2>4. QED
    BY <1>1, <2>1, <2>2, <2>3, FokMeetsWithin
<1>4. QED
  BY <1>1, <1>2, <1>3, StopKeeps

LEMMA PrecisionCancelKeeps ==
  ASSUME IInv, TakerInv, NEW m \in book, PrecisionCancel(m)
  PROVE  TakerInv'
<1>1. /\ taker # None /\ TooPrecise(m)
      /\ Finalize([orders[taker] EXCEPT !.state = "PrecisionCanceled"])
  BY DEF PrecisionCancel, Meets, AtHead, InLoop
<1>2. "PrecisionCanceled" \in OrderStates
  BY DEF OrderStates
<1>3. Req(taker).type # "Fok"
  BY <1>1 DEF TooPrecise, CashBased
<1>4. QED
  BY <1>1, <1>2, <1>3, StopKeeps

LEMMA EnqueueKeeps ==
  ASSUME IInv, TakerInv, Enqueue
  PROVE  TakerInv'
<1> DEFINE o == orders[taker]
<1>1. taker # None /\ Req(taker).type = "Limit" /\ Finalize(o)
  BY DEF Enqueue, InLoop
<1>2. o \in Order /\ o.req = Req(taker)
  BY <1>1, OrdersAreSound DEF IInv, TypeOK, Req
<1>3. FokWhole(o)
  BY <1>1, <1>2 DEF FokWhole
<1>4. QED
  BY <1>1, <1>2, <1>3, FinalizeKeeps

-----------------------------------------------------------------------------
(* The commands: a new order has no results, and a cancellation changes    *)
(* what is told of the orders it finds, when none is being matched.        *)

LEMMA NewTaker ==
  ASSUME NEW r \in Requests, NEW i, i \in DOMAIN orders', orders'[i] = Incoming(r),
         taker' = i, items' = <<>>
  PROVE  MetInOrder' /\ TakerGetsWhatMakersGive'
<1>1. DOMAIN items' = {} /\ FillItems' = {} /\ AmountFilled' = 0 /\ ValueFilled' = 0
  BY NoItemsNoAmount
<1>2. MetInOrder'
  BY <1>1 DEF MetInOrder
<1>3. Incoming(r).acc = 0 /\ Incoming(r).value = 0
  BY DEF Incoming
<1>4. TakerGetsWhatMakersGive'
  BY <1>1, <1>3, TakerGets DEF Gets
<1>5. QED
  BY <1>2, <1>4

LEMMA RecordKeeps ==
  ASSUME IInv, TakerInv, Idle, NEW i \in Ids, FreshSeq(i), NEW r \in Requests,
         NEW o, o.req = r, o.acc = 0, o.value = 0, Record(i, o), checked' = checked,
         \/ taker' = None
         \/ taker' = i /\ items' = <<>> /\ o = Incoming(r)
  PROVE  TakerInv'
<1>1. /\ taker = None /\ i \notin DOMAIN orders /\ i # None
      /\ DOMAIN orders' = DOMAIN orders \cup {i} /\ orders'[i] = o
      /\ \A j \in DOMAIN orders : orders'[j] = orders[j]
  BY MatchingAssumption DEF Idle, FreshSeq, Record, None
<1>2. IsFiniteSet(DOMAIN orders')
  BY <1>1, FS_AddElement DEF TakerInv
<1>3. MetInOrder' /\ TakerGetsWhatMakersGive'
  BY <1>1, NewTaker, NoTakerNoItems
<1>4. SUFFICES ASSUME FokWithoutStp
               PROVE  FokCovered' /\ FokAllOrNothing' /\ FokPriceRespected'
  BY <1>2, <1>3 DEF TakerInv
<1>5. ~checked' /\ checked' \in BOOLEAN
  BY <1>1, <1>4 DEF TakerInv, FokCovered, IInv, TypeOK
<1>6. FokCovered'
  <2>1. CASE taker' = None
    BY <1>5, <2>1, NoTakerNoCover
  <2>2. CASE taker' = i /\ items' = <<>> /\ o = Incoming(r)
    <3>1. o.state = "Submitted" /\ o.unfilled > 0
      BY <2>2, IncomingIsSound
    <3>2. o.decreased = 0 /\ o.acc = 0
      <4>1. Incoming(r).decreased = 0
        BY DEF Incoming
      <4>2. QED
        BY <2>2, <4>1
    <3>3. QED
      BY <1>1, <1>5, <2>2, <3>1, <3>2 DEF FokCovered, Req
  <2>3. QED
    BY <2>1, <2>2
<1>7. /\ \A j \in DOMAIN orders : FokWhole(orders[j])
      /\ \A j \in DOMAIN orders : FokPriced(orders[j])
  <2>1. None \notin DOMAIN orders
    BY MatchingAssumption DEF None, IInv, TypeOK
  <2>2. QED
    BY <1>1, <1>4, <2>1, FokByOrder DEF TakerInv
<1>8. r.price \in Nat
  BY MatchingAssumption DEF Request
<1>9. FokWhole(o) /\ FokPriced(o)
  BY <1>8 DEF FokWhole, FokPriced
<1>10. QED
  BY <1>1, <1>6, <1>7, <1>9, FokByOrder

LEMMA ReceiveOrderKeeps ==
  ASSUME IInv, TakerInv, NEW i \in Ids, NEW r \in Requests, ReceiveOrder(i, r)
  PROVE  TakerInv'
<1> DEFINE o == Incoming(r)
<1>1. /\ Idle /\ FreshSeq(i) /\ Record(i, o) /\ checked' = checked
      /\ taker' = i /\ items' = <<>>
  BY DEF ReceiveOrder, StartMatching
<1>2. o.req = r /\ o.acc = 0 /\ o.value = 0
  BY DEF Incoming
<1>3. QED
  BY <1>1, <1>2, RecordKeeps

LEMMA ReceiveUnsupportedKeeps ==
  ASSUME IInv, TakerInv, NEW i \in Ids, NEW r \in Requests, ReceiveUnsupported(i, r)
  PROVE  TakerInv'
<1> DEFINE o == Incoming(r)
<1>1. /\ Idle /\ FreshSeq(i) /\ Record(i, o) /\ checked' = checked /\ taker' = None
  BY DEF ReceiveUnsupported, Idle
<1>2. o.req = r /\ o.acc = 0 /\ o.value = 0
  BY DEF Incoming
<1>3. QED
  BY <1>1, <1>2, RecordKeeps

LEMMA SystemCancelKeeps ==
  ASSUME IInv, TakerInv, NEW i \in Ids, NEW r \in Requests, SystemCancel(i, r)
  PROVE  TakerInv'
<1> DEFINE o == [Incoming(r) EXCEPT !.told = "canceled"]
<1>1. /\ Idle /\ FreshSeq(i) /\ Record(i, o) /\ checked' = checked /\ taker' = None
  BY DEF SystemCancel, Idle
<1>2. o.req = r /\ o.acc = 0 /\ o.value = 0
  BY DEF Incoming
<1> HIDE DEF o
<1>3. QED
  BY <1>1, <1>2, RecordKeeps

(* Orders that got the same, when no order is being matched.               *)
LEMMA IdleKeeps ==
  ASSUME IInv, TakerInv, taker = None, taker' = None, checked' = checked,
         DOMAIN orders' = DOMAIN orders,
         \A i \in DOMAIN orders : /\ orders'[i].req = orders[i].req
                                  /\ orders'[i].acc = orders[i].acc
                                  /\ orders'[i].value = orders[i].value
  PROVE  TakerInv'
<1>1. MetInOrder' /\ TakerGetsWhatMakersGive'
  BY NoTakerNoItems
<1>2. SUFFICES ASSUME FokWithoutStp
               PROVE  FokCovered' /\ FokAllOrNothing' /\ FokPriceRespected'
  BY <1>1 DEF TakerInv
<1>3. checked' = FALSE
  BY <1>2 DEF TakerInv, FokCovered, IInv, TypeOK
<1>4. FokCovered'
  BY <1>3, NoTakerNoCover
<1>5. /\ \A i \in DOMAIN orders \ {taker} : FokWhole(orders[i])
      /\ \A i \in DOMAIN orders : FokPriced(orders[i])
  BY <1>2, FokByOrder DEF TakerInv
<1>6. \A i \in DOMAIN orders : /\ FokWhole(orders[i]) => FokWhole(orders'[i])
                               /\ FokPriced(orders[i]) => FokPriced(orders'[i])
  BY SameFok
<1>7. QED
  BY <1>4, <1>5, <1>6, FokByOrder

LEMMA CancelKeeps ==
  ASSUME IInv, TakerInv, NEW s \in CancelSeqs, NEW i \in Ids, Cancel(s, i)
  PROVE  TakerInv'
<1> DEFINE n == [orders[i] EXCEPT !.told = CancelState(orders[i].state)]
<1>1. /\ taker = None /\ taker' = None /\ checked' = checked
      /\ orders' = IF i \in book THEN [orders EXCEPT ![i] = n] ELSE orders
  BY DEF Cancel, Idle
<1>2. CASE i \notin book
  BY <1>1, <1>2, IdleKeeps
<1>3. CASE i \in book
  <2>1. i \in DOMAIN orders
    BY <1>3 DEF IInv, TypeOK
  <2>2. orders[i] \in Order /\ CancelState(orders[i].state) \in ResultStates
    BY <2>1, OrdersAreSound, CancelStateType
  <2>3. n.req = orders[i].req /\ n.acc = orders[i].acc /\ n.value = orders[i].value
    BY <2>2, WithToldType
  <2> HIDE DEF n
  <2>4. /\ DOMAIN orders' = DOMAIN orders
        /\ \A j \in DOMAIN orders : orders'[j] = IF j = i THEN n ELSE orders[j]
    BY <1>1, <1>3, <2>1
  <2>5. QED
    BY <1>1, <2>3, <2>4, IdleKeeps
<1>4. QED
  BY <1>2, <1>3

LEMMA BatchCancelKeeps ==
  ASSUME IInv, TakerInv, NEW s \in CancelSeqs, NEW list \in BatchLists,
         BatchCancel(s, list)
  PROVE  TakerInv'
<1> DEFINE S == book \cap {list[k] : k \in 1 .. Len(list)}
           told(i) == CancelState(orders[i].state)
<1>1. /\ taker = None /\ taker' = None /\ checked' = checked
      /\ DOMAIN orders' = DOMAIN orders
      /\ \A i \in DOMAIN orders :
           orders'[i] = IF i \in S THEN [orders[i] EXCEPT !.told = told(i)] ELSE orders[i]
  BY DEF BatchCancel, Idle
<1> HIDE DEF S
<1>2. ASSUME NEW i \in DOMAIN orders
      PROVE  /\ orders'[i].req = orders[i].req /\ orders'[i].acc = orders[i].acc
             /\ orders'[i].value = orders[i].value
  <2> DEFINE n == [orders[i] EXCEPT !.told = told(i)]
  <2>1. orders[i] \in Order /\ told(i) \in ResultStates
    BY OrdersAreSound, CancelStateType
  <2> HIDE DEF told
  <2>2. n.req = orders[i].req /\ n.acc = orders[i].acc /\ n.value = orders[i].value
    BY <2>1, WithToldType
  <2>3. orders'[i] = IF i \in S THEN n ELSE orders[i]
    BY <1>1
  <2> HIDE DEF n
  <2>4. QED
    BY <2>2, <2>3
<1>3. QED
  BY <1>1, <1>2, IdleKeeps

-----------------------------------------------------------------------------
(* The meetings.                                                           *)

(* A self-trade gives nothing, and is none of a FOK order that does not    *)
(* ask for its prevention.                                                 *)
LEMMA SelfTradeKeeps ==
  ASSUME IInv, TakerInv, NEW m \in book, Meets(m), SelfTrading(m),
         NEW t \in Order, t.req = Req(taker), t.acc = orders[taker].acc,
         t.value = orders[taker].value,
         NEW o \in Order, o.req = Req(m), o.acc = orders[m].acc,
         o.value = orders[m].value,
         NEW item \in Item, item.role = "maker", item.price = Req(m).price,
         ~IsFill(item), Met(m, t, o, item)
  PROVE  TakerInv'
<1>1. taker # None
  BY DEF Meets, AtHead, InLoop
<1>2. /\ taker \in DOMAIN orders /\ m \in DOMAIN orders /\ m # taker
      /\ taker' = taker /\ checked' = checked
      /\ DOMAIN orders' = DOMAIN orders
      /\ orders'[taker] = t /\ orders'[m].req = Req(m)
      /\ orders'[m].acc = o.acc /\ orders'[m].value = o.value
      /\ \A i \in DOMAIN orders \ {taker, m} : orders'[i] = orders[i]
      /\ \A i \in DOMAIN orders : orders'[i].req = Req(i)
      /\ items' = Append(items, item)
  BY <1>1, AfterMet
<1>3. IsFiniteSet(DOMAIN orders')
  BY <1>2 DEF TakerInv
<1>4. MetInOrder'
  <2>1. MetInOrder /\ Req(taker).stp # "AST"
    BY DEF SelfTrading, TakerInv
  <2>2. QED
    BY <2>1, MetKeepsTheOrder
<1>5. TakerGetsWhatMakersGive'
  <2>1. AmountFilled' = AmountFilled /\ ValueFilled' = ValueFilled
    BY <1>2, NoFillAddsNothing DEF IInv, TypeOK
  <2>2. Gets(orders[taker], AmountFilled, ValueFilled)
    BY <1>1, TakerGets DEF TakerInv
  <2>3. Gets(t, AmountFilled, ValueFilled)
    BY <2>2 DEF Gets, Req
  <2>4. QED
    BY <1>2, <2>1, <2>3, TakerGets
<1>6. SUFFICES ASSUME FokWithoutStp
               PROVE  FokCovered' /\ FokAllOrNothing' /\ FokPriceRespected'
  BY <1>3, <1>4, <1>5 DEF TakerInv
<1>7. Req(taker).type # "Fok"
  <2>1. Req(taker) \in Requests
    BY <1>2, OrdersAreSound, OrderFields DEF Req
  <2>2. QED
    BY <1>6, <2>1 DEF FokWithoutStp, SelfTrading
<1>8. FokCovered'
  <2>1. ~checked
    BY <1>6, <1>7 DEF TakerInv, FokCovered
  <2>2. orders'[taker'].req.type # "Fok"
    BY <1>2, <1>7
  <2>3. QED
    BY <1>2, <2>1, <2>2 DEF FokCovered, Req
<1>9. /\ \A i \in DOMAIN orders \ {taker} : FokWhole(orders[i])
      /\ \A i \in DOMAIN orders : FokPriced(orders[i])
  BY <1>6, FokByOrder DEF TakerInv
<1>10. \A i \in DOMAIN orders : /\ orders'[i].req = orders[i].req
                                /\ orders'[i].acc = orders[i].acc
                                /\ orders'[i].value = orders[i].value
  BY <1>2 DEF Req
<1>11. \A i \in DOMAIN orders : /\ FokWhole(orders[i]) => FokWhole(orders'[i])
                                /\ FokPriced(orders[i]) => FokPriced(orders'[i])
  BY <1>10, SameFok
<1>12. QED
  BY <1>2, <1>8, <1>9, <1>11, FokByOrder

(* What a self-trade publishes of the maker.                               *)
LEMMA SelfTradeIsNoFill ==
  ASSUME NEW m \in Ids, NEW o \in Order, NEW amount \in Nat,
         o.state \in {"SelfTradeCanceled", "SelfTradePartialCanceled", "SelfTradeDecreased"}
  PROVE  LET item == SelfTradeItem(m, o, amount) IN
         /\ item \in Item /\ item.role = "maker" /\ item.price = o.req.price
         /\ ~IsFill(item)
<1> DEFINE item == SelfTradeItem(m, o, amount)
<1>1. item \in Item /\ item.state = StateName[o.state]
  BY SelfTradeItemType
<1>2. item.role = "maker" /\ item.price = o.req.price
  BY DEF SelfTradeItem, FillItem
<1>3. StateName[o.state] \notin {"filled", "partial-filled"}
  BY DEF StateName
<1> HIDE DEF item
<1>4. QED
  BY <1>1, <1>2, <1>3 DEF IsFill, item

LEMMA CanceledState ==
  ASSUME NEW o \in Order, o.state \in OpenStates
  PROVE  SelfTradeCancel(o).state \in {"SelfTradeCanceled", "SelfTradePartialCanceled"}
BY SelfTradeCancelType DEF SelfTradeState, OpenStates

LEMMA CancelBothKeeps ==
  ASSUME IInv, TakerInv, NEW m \in book, CancelBoth(m)
  PROVE  TakerInv'
<1> DEFINE t == SelfTradeCancel(orders[taker])
           o == SelfTradeCancel(orders[m])
           item == SelfTradeItem(m, o, o.unfilled)
<1>1. /\ Meets(m) /\ Asserted(m) /\ ~TooPrecise(m) /\ SelfTrading(m)
      /\ Met(m, t, o, item)
  BY DEF CancelBoth, SelfTrade
<1>2. /\ orders[taker] \in Order /\ orders[m] \in Order /\ m \in Ids
      /\ orders[m].state \in OpenStates
  BY <1>1, MeetingFacts
<1>3. /\ t \in Order /\ t.req = Req(taker) /\ t.acc = orders[taker].acc
      /\ t.value = orders[taker].value
  BY <1>2, SelfTradeCancelType DEF Req
<1>4. /\ o \in Order /\ o.req = Req(m) /\ o.acc = orders[m].acc
      /\ o.value = orders[m].value /\ o.unfilled \in Nat
      /\ o.state \in {"SelfTradeCanceled", "SelfTradePartialCanceled"}
  BY <1>2, SelfTradeCancelType, CanceledState, OrderFields DEF Req
<1> HIDE DEF t, o
<1>5. item \in Item /\ item.role = "maker" /\ item.price = Req(m).price /\ ~IsFill(item)
  BY <1>2, <1>4, SelfTradeIsNoFill
<1> HIDE DEF item
<1>6. QED
  BY <1>1, <1>3, <1>4, <1>5, SelfTradeKeeps

LEMMA CancelOldKeeps ==
  ASSUME IInv, TakerInv, NEW m \in book, CancelOld(m)
  PROVE  TakerInv'
<1> DEFINE t == orders[taker]
           o == SelfTradeCancel(orders[m])
           item == SelfTradeItem(m, o, o.unfilled)
<1>1. /\ Meets(m) /\ Asserted(m) /\ ~TooPrecise(m) /\ SelfTrading(m)
      /\ Met(m, t, o, item)
  BY DEF CancelOld, SelfTrade
<1>2. /\ t \in Order /\ orders[m] \in Order /\ m \in Ids
      /\ orders[m].state \in OpenStates
  BY <1>1, MeetingFacts
<1>3. /\ t.req = Req(taker) /\ t.acc = orders[taker].acc
      /\ t.value = orders[taker].value
  BY DEF Req
<1>4. /\ o \in Order /\ o.req = Req(m) /\ o.acc = orders[m].acc
      /\ o.value = orders[m].value /\ o.unfilled \in Nat
      /\ o.state \in {"SelfTradeCanceled", "SelfTradePartialCanceled"}
  BY <1>2, SelfTradeCancelType, CanceledState, OrderFields DEF Req
<1> HIDE DEF t, o
<1>5. item \in Item /\ item.role = "maker" /\ item.price = Req(m).price /\ ~IsFill(item)
  BY <1>2, <1>4, SelfTradeIsNoFill
<1> HIDE DEF item
<1>6. QED
  BY <1>1, <1>2, <1>3, <1>4, <1>5, SelfTradeKeeps

LEMMA DecreaseCancelKeeps ==
  ASSUME IInv, TakerInv, NEW m \in book, DecreaseCancel(m)
  PROVE  TakerInv'
<1> DEFINE amount == MatchAmount(taker, m)
           cost == TakerAmount(taker, m)
<1>1. Meets(m) /\ Asserted(m) /\ ~TooPrecise(m) /\ SelfTrading(m)
  BY DEF DecreaseCancel, SelfTrade
<1>2. \E t \in {SelfTradeCancel(orders[taker]), SelfTradeDecrease(orders[taker], cost)},
         o \in {SelfTradeCancel(orders[m]), SelfTradeDecrease(orders[m], amount)} :
           Met(m, t, o, SelfTradeItem(m, o, amount))
  BY DEF DecreaseCancel
<1>3. PICK t \in {SelfTradeCancel(orders[taker]), SelfTradeDecrease(orders[taker], cost)},
           o \in {SelfTradeCancel(orders[m]), SelfTradeDecrease(orders[m], amount)} :
             Met(m, t, o, SelfTradeItem(m, o, amount))
  BY <1>2
<1>4. /\ orders[taker] \in Order /\ orders[m] \in Order /\ m \in Ids
      /\ orders[m].state \in OpenStates
      /\ amount \in Nat /\ amount <= orders[m].unfilled
      /\ cost \in Nat /\ cost <= orders[taker].unfilled
  BY <1>1, MeetingFacts
<1> HIDE DEF amount, cost
<1>5. /\ t \in Order /\ t.req = Req(taker) /\ t.acc = orders[taker].acc
      /\ t.value = orders[taker].value
  BY <1>3, <1>4, SelfTradeCancelType, SelfTradeDecreaseType DEF Req
<1>6. /\ o \in Order /\ o.req = Req(m) /\ o.acc = orders[m].acc
      /\ o.value = orders[m].value
      /\ o.state \in {"SelfTradeCanceled", "SelfTradePartialCanceled", "SelfTradeDecreased"}
  <2>1. CASE o = SelfTradeCancel(orders[m])
    BY <1>4, <2>1, SelfTradeCancelType, CanceledState DEF Req
  <2>2. CASE o = SelfTradeDecrease(orders[m], amount)
    BY <1>4, <2>2, SelfTradeDecreaseType DEF Req
  <2>3. QED
    BY <1>3, <2>1, <2>2
<1> DEFINE item == SelfTradeItem(m, o, amount)
<1>7. item \in Item /\ item.role = "maker" /\ item.price = Req(m).price /\ ~IsFill(item)
  BY <1>4, <1>6, SelfTradeIsNoFill
<1>8. Met(m, t, o, item)
  BY <1>3
<1> HIDE DEF item
<1>9. QED
  BY <1>1, <1>5, <1>6, <1>7, <1>8, SelfTradeKeeps

LEMMA CancelNewKeeps ==
  ASSUME IInv, TakerInv, NEW m \in book, CancelNew(m)
  PROVE  TakerInv'
<1> DEFINE t == SelfTradeCancel(orders[taker])
<1>1. /\ Meets(m) /\ Asserted(m) /\ ~TooPrecise(m) /\ SelfTrading(m)
      /\ orders' = [orders EXCEPT ![taker] = t]
      /\ book' = book /\ taker' = taker /\ checked' = checked /\ items' = items
  BY DEF CancelNew, SelfTrade
<1>2. /\ taker # None /\ taker \in DOMAIN orders /\ orders[taker] \in Order
  BY <1>1, MeetingFacts
<1>3. t.req = orders[taker].req /\ t.acc = orders[taker].acc /\ t.value = orders[taker].value
  BY <1>2, SelfTradeCancelType
<1> HIDE DEF t
<1>4. /\ DOMAIN orders' = DOMAIN orders /\ orders'[taker] = t
      /\ \A i \in DOMAIN orders \ {taker} : orders'[i] = orders[i]
  BY <1>1, <1>2
<1>5. \A i \in DOMAIN orders : /\ orders'[i].req = orders[i].req
                               /\ orders'[i].acc = orders[i].acc
                               /\ orders'[i].value = orders[i].value
  BY <1>3, <1>4
<1>6. MetInOrder'
  <2>1. FillItems' = FillItems
    BY <1>1 DEF FillItems
  <2>2. \A i \in DOMAIN orders : orders'[i].req = orders[i].req
    BY <1>5
  <2>3. OppoSet(taker)' = OppoSet(taker) /\ OppoSet(taker) \subseteq DOMAIN orders
    BY <1>1, <1>2, <2>2 DEF OppoSet, OrderSet, Req, IInv, TypeOK
  <2>4. MetInOrder
    BY DEF TakerInv
  <2>5. QED
    BY <1>1, <1>2, <2>1, <2>2, <2>3, <2>4 DEF MetInOrder, Req
<1>7. TakerGetsWhatMakersGive'
  <2>1. AmountFilled' = AmountFilled /\ ValueFilled' = ValueFilled
    BY <1>1 DEF AmountFilled, ValueFilled, FillItems
  <2>2. Gets(orders[taker], AmountFilled, ValueFilled)
    BY <1>2, TakerGets DEF TakerInv
  <2>3. Gets(t, AmountFilled, ValueFilled)
    BY <1>3, <2>2 DEF Gets
  <2>4. QED
    BY <1>1, <1>4, <2>1, <2>3, TakerGets
<1>8. SUFFICES ASSUME FokWithoutStp
               PROVE  FokCovered' /\ FokAllOrNothing' /\ FokPriceRespected'
  BY <1>4, <1>6, <1>7 DEF TakerInv
<1>9. Req(taker).type # "Fok"
  <2>1. Req(taker) \in Requests
    BY <1>2, OrdersAreSound, OrderFields DEF Req
  <2>2. QED
    BY <1>1, <1>8, <2>1 DEF FokWithoutStp, SelfTrading
<1>10. FokCovered'
  <2>1. ~checked
    BY <1>8, <1>9 DEF TakerInv, FokCovered
  <2>2. orders'[taker'].req.type # "Fok"
    BY <1>1, <1>3, <1>4, <1>9 DEF Req
  <2>3. QED
    BY <1>1, <2>1, <2>2 DEF FokCovered, Req
<1>11. /\ \A i \in DOMAIN orders \ {taker} : FokWhole(orders[i])
       /\ \A i \in DOMAIN orders : FokPriced(orders[i])
  BY <1>8, FokByOrder DEF TakerInv
<1>12. \A i \in DOMAIN orders : /\ FokWhole(orders[i]) => FokWhole(orders'[i])
                                /\ FokPriced(orders[i]) => FokPriced(orders'[i])
  BY <1>5, SameFok
<1>13. QED
  BY <1>1, <1>4, <1>10, <1>11, <1>12, FokByOrder

(* A fill within its price limit keeps a FOK order well paid.              *)
LEMMA FilledIsPriced ==
  ASSUME NEW o \in Order, NEW amount \in Nat, NEW p \in Nat,
         amount <= o.unfilled, FokPriced(o),
         o.req.type = "Fok" => IF o.req.side = "Buy" THEN p <= o.req.price
                                                     ELSE p >= o.req.price
  PROVE  FokPriced(Filled(o, amount, p))
<1> DEFINE f == Filled(o, amount, p)
<1>1. f.req = o.req /\ f.acc = o.acc + amount /\ f.value = o.value + amount * p
  BY FilledType
<1>2. o.req.price \in Nat /\ o.acc \in Nat /\ o.value \in Nat
  BY OrderFields
<1>3. (o.acc + amount) * o.req.price = o.acc * o.req.price + amount * o.req.price
  BY <1>2, AddToProduct
<1>4. /\ o.acc * o.req.price \in Nat /\ amount * o.req.price \in Nat
      /\ amount * p \in Nat
  BY <1>2, ProductIsNat
<1> HIDE DEF f
<1>5. CASE o.req.type = "Fok" /\ o.req.side = "Buy"
  <2>1. amount * p <= amount * o.req.price
    BY <1>2, <1>5, ProductIsMonotone
  <2>2. f.value <= f.acc * f.req.price
    BY <1>1, <1>2, <1>3, <1>4, <1>5, <2>1 DEF FokPriced
  <2>3. QED
    BY <1>1, <1>5, <2>2 DEF FokPriced, f
<1>6. CASE o.req.type = "Fok" /\ o.req.side # "Buy"
  <2>1. amount * p >= amount * o.req.price
    BY <1>2, <1>6, ProductIsMonotone
  <2>2. f.value >= f.acc * f.req.price
    BY <1>1, <1>2, <1>3, <1>4, <1>6, <2>1 DEF FokPriced
  <2>3. QED
    BY <1>1, <1>6, <2>2 DEF FokPriced, f
<1>7. CASE o.req.type # "Fok"
  BY <1>1, <1>7 DEF FokPriced, f
<1>8. QED
  BY <1>5, <1>6, <1>7

LEMMA FillKeeps ==
  ASSUME IInv, TakerInv, NEW m \in book, Fill(m)
  PROVE  TakerInv'
<1> DEFINE amount == MatchAmount(taker, m)
           cost == TakerAmount(taker, m)
           p == Req(m).price
           t == Filled(orders[taker], cost, p)
           o == Filled(orders[m], amount, p)
           item == FillItem(m, o, amount)
<1>1. /\ Meets(m) /\ Asserted(m) /\ ~TooPrecise(m) /\ Met(m, t, o, item)
      /\ IsHead(m, OppoSet(taker)) /\ ~Finished(orders[taker])
  BY DEF Fill, Meets, AtHead
<1>2. /\ taker # None /\ taker \in DOMAIN orders /\ m \in DOMAIN orders
      /\ orders[taker] \in Order /\ orders[m] \in Order /\ m \in Ids
      /\ Req(taker).type = "Fok" => checked
      /\ amount \in Nat /\ amount <= orders[m].unfilled
      /\ cost \in Nat /\ cost <= orders[taker].unfilled
  BY <1>1, MeetingFacts
<1>3. /\ p \in Nat /\ orders[taker].unfilled \in Nat /\ orders[taker].acc \in Nat
      /\ orders[taker].value \in Nat
  BY <1>2, OrderFields DEF Req
<1>4. Req(m).type = "Limit"
  BY DEF IInv, RestingIsLive
<1>5. /\ ~CashBased(taker) => cost = amount
      /\ CashBased(taker) => cost = amount * p
  BY DEF TakerAmount
<1>6. ASSUME FokWithoutStp, Req(taker).type = "Fok"
      PROVE  /\ items' # <<>> /\ m \in Within(taker, FokRef(m))
             /\ UnfilledOf(orders', Within(taker, items[1].price)')
                  >= orders[taker].unfilled - amount
  <2>1. FokCovered /\ MetInOrder /\ IsFiniteSet(DOMAIN orders)
    BY <1>6 DEF TakerInv
  <2>2. checked /\ orders[taker].state # "Filled"
    BY <1>1, <1>2, <1>6 DEF Finished
  <2>3. /\ items' # <<>>
        /\ UnfilledOf(orders', Within(taker, items[1].price)')
             >= orders[taker].unfilled - amount
    BY <1>6, <2>1, FillKeepsTheCover
  <2>4. m \in Within(taker, FokRef(m))
    BY <1>1, <1>2, <1>6, <2>1, <2>2, FokMeetsWithin
  <2>5. QED
    BY <2>3, <2>4
<1>7. FokWithoutStp => FokPriced(orders[taker]) /\ FokPriced(orders[m])
  BY <1>2, FokByOrder DEF TakerInv
<1> HIDE DEF amount, cost, p
<1>8. /\ t \in Order /\ t.req = Req(taker)
      /\ t.unfilled = orders[taker].unfilled - cost
      /\ t.acc = orders[taker].acc + cost
      /\ t.value = orders[taker].value + cost * p
      /\ t.decreased = orders[taker].decreased
      /\ t.state = IF orders[taker].unfilled = cost THEN "Filled" ELSE "PartialFilled"
  BY <1>2, <1>3, FilledType DEF Req
<1>9. /\ o \in Order /\ o.req = Req(m)
      /\ o.state \in {"Filled", "PartialFilled"}
  <2>1. /\ orders[m] \in Order /\ amount \in Nat /\ p \in Nat
        /\ amount <= orders[m].unfilled
    BY <1>2, <1>3
  <2> HIDE DEF t, o
  <2>2. \A q \in Order : amount <= q.unfilled =>
          /\ Filled(q, amount, p) \in Order
          /\ Filled(q, amount, p).req = q.req
          /\ Filled(q, amount, p).state \in {"Filled", "PartialFilled"}
    BY <2>1, FilledType
  <2>3. /\ Filled(orders[m], amount, p) \in Order
        /\ Filled(orders[m], amount, p).req = orders[m].req
        /\ Filled(orders[m], amount, p).state \in {"Filled", "PartialFilled"}
    BY <2>1, <2>2, Zenon
  <2>4. QED
    BY <2>3 DEF Req, o
<1>10. FokWithoutStp => FokPriced(t)
  <2>1. SUFFICES ASSUME FokWithoutStp PROVE FokPriced(t)
    OBVIOUS
  <2>2. orders[taker].req.type = "Fok" =>
          IF orders[taker].req.side = "Buy" THEN p <= orders[taker].req.price
                                            ELSE p >= orders[taker].req.price
    <3>1. SUFFICES ASSUME Req(taker).type = "Fok"
                   PROVE  IF Req(taker).side = "Buy" THEN p <= Req(taker).price
                                                     ELSE p >= Req(taker).price
      BY DEF Req
    <3>2. m \in Within(taker, FokRef(m))
      BY <1>6, <2>1, <3>1
    <3>3. Req(taker).side = "Buy" => Req(taker).side # "Sell"
      OBVIOUS
    <3>4. Req(taker).side \in Sides
      BY <1>2, OrderFields DEF Req
    <3>5. QED
      BY <3>2, <3>4 DEF Within, Sides, p
  <2>3. QED
    BY <1>2, <1>3, <1>7, <2>1, <2>2, FilledIsPriced
<1> HIDE DEF t, o
<1>11. /\ item \in Item /\ item.role = "maker" /\ item.amount = amount /\ item.price = p
       /\ IsFill(item)
  <2>1. item \in Item /\ item.state = StateName[o.state]
    BY <1>2, <1>9, FillItemType
  <2>2. item.role = "maker" /\ item.amount = amount /\ item.price = p
    BY <1>9 DEF FillItem, p
  <2>3. StateName[o.state] \in {"filled", "partial-filled"}
    BY <1>9 DEF StateName
  <2> HIDE DEF item
  <2>4. QED
    BY <2>1, <2>2, <2>3 DEF IsFill
<1> HIDE DEF item
<1>12. /\ m # taker /\ taker' = taker /\ checked' = checked
       /\ DOMAIN orders' = DOMAIN orders
       /\ orders'[taker] = t /\ orders'[m].req = Req(m)
       /\ \A i \in DOMAIN orders \ {taker, m} : orders'[i] = orders[i]
       /\ items' = Append(items, item)
  BY <1>1, <1>2, <1>8, <1>9, <1>11, AfterMet
<1>13. MetInOrder'
  <2>1. MetInOrder /\ item.price = Req(m).price
    BY <1>11 DEF TakerInv, p
  <2>2. QED
    BY <1>1, <1>8, <1>9, <1>11, <2>1, MetKeepsTheOrder
<1>14. TakerGetsWhatMakersGive'
  <2>1. items \in Seq(Item) /\ items' \in Seq(Item)
    BY <1>11, <1>12 DEF IInv, TypeOK
  <2>2. /\ AmountFilled \in Nat /\ ValueFilled \in Nat
        /\ AmountFilled' = AmountFilled + amount
        /\ ValueFilled' = ValueFilled + amount * p
    BY <1>11, <1>12, <2>1, FillAddsItsAmount
  <2>3. Gets(orders[taker], AmountFilled, ValueFilled)
    BY <1>2, TakerGets DEF TakerInv
  <2>4. t.req = orders[taker].req
    BY <1>8 DEF Req
  <2>5. CashBased(taker) <=> (t.req.type = "Market" /\ t.req.side = "Buy")
    BY <1>8 DEF CashBased
  <2>6. Gets(t, AmountFilled + amount, ValueFilled + amount * p)
    <3>1. CASE CashBased(taker)
      BY <1>5, <1>8, <2>3, <2>4, <2>5, <3>1 DEF Gets
    <3>2. CASE ~CashBased(taker)
      BY <1>5, <1>8, <2>3, <2>4, <2>5, <3>2 DEF Gets
    <3>3. QED
      BY <3>1, <3>2
  <2>7. QED
    BY <1>12, <2>2, <2>6, TakerGets
<1>15. SUFFICES ASSUME FokWithoutStp
                PROVE  FokCovered' /\ FokAllOrNothing' /\ FokPriceRespected'
  BY <1>12, <1>13, <1>14 DEF TakerInv
<1>16. FokCovered'
  <2>1. CASE Req(taker).type # "Fok"
    <3>1. ~checked
      BY <1>15, <2>1 DEF TakerInv, FokCovered
    <3>2. orders'[taker'].req.type # "Fok"
      BY <1>8, <1>12, <2>1
    <3>3. QED
      BY <1>12, <3>1, <3>2 DEF FokCovered, Req
  <2>2. CASE Req(taker).type = "Fok"
    <3>1. /\ items' # <<>> /\ checked' /\ taker' # None
          /\ UnfilledOf(orders', Within(taker, items[1].price)')
               >= orders[taker].unfilled - amount
      BY <1>2, <1>6, <1>12, <1>15, <2>2
    <3>2. cost = amount
      BY <1>5, <2>2 DEF CashBased
    <3>3. Covered(taker, items[1].price)'
      BY <1>8, <1>12, <3>1, <3>2 DEF Covered
    <3>4. t.decreased = 0
      BY <1>2, <1>8, <1>15, <2>2 DEF TakerInv, FokCovered
    <3>5. /\ t.state = "Filled" => t.unfilled = 0
          /\ t.state # "Filled" => t.state \in {"Submitted", "PartialFilled"} /\ t.unfilled > 0
      BY <1>2, <1>3, <1>8
    <3>6. orders'[taker'] = t
      BY <1>12
    <3>7. orders'[taker'].req.type = "Fok"
      BY <1>8, <1>12, <2>2
    <3> DEFINE B == Covered(taker, items[1].price)'
    <3>8. B
      BY <3>3
    <3> HIDE DEF B
    <3>9. QED
      BY <3>1, <3>4, <3>5, <3>6, <3>7, <3>8 DEF FokCovered, Req, B
  <2>3. QED
    BY <2>1, <2>2
<1>17. FokAllOrNothing'
  <2>1. \A i \in DOMAIN orders \ {taker} : FokWhole(orders[i])
    BY <1>15, FokByOrder DEF TakerInv
  <2>2. FokWhole(orders'[m])
    BY <1>4, <1>12 DEF FokWhole
  <2>3. QED
    BY <1>12, <2>1, <2>2, FokByOrder
<1>18. FokPriceRespected'
  <2>1. \A i \in DOMAIN orders : FokPriced(orders[i])
    BY <1>15, FokByOrder DEF TakerInv
  <2>2. FokPriced(orders'[m])
    BY <1>4, <1>12 DEF FokPriced
  <2>3. QED
    BY <1>10, <1>12, <1>15, <2>1, <2>2, FokByOrder
<1>19. QED
  BY <1>16, <1>17, <1>18

-----------------------------------------------------------------------------
(* The invariant of every state.                                           *)

LEMMA InitTakerInv ==
  ASSUME Init
  PROVE  TakerInv
<1>1. /\ DOMAIN orders = {} /\ taker = None /\ checked = FALSE
  BY DEF Init
<1>2. IsFiniteSet(DOMAIN orders)
  BY <1>1, FS_EmptySet
<1>3. MetInOrder /\ TakerGetsWhatMakersGive
  BY <1>1 DEF MetInOrder, TakerGetsWhatMakersGive
<1>4. FokCovered /\ FokAllOrNothing /\ FokPriceRespected
  BY <1>1 DEF FokCovered, FokAllOrNothing, FokPriceRespected
<1>5. QED
  BY <1>2, <1>3, <1>4 DEF TakerInv

LEMMA NextTakerInv ==
  ASSUME IInv, TakerInv, [Next]_vars
  PROVE  TakerInv'
<1>1. ASSUME NEW i \in Ids, NEW r \in Requests,
             ReceiveOrder(i, r) \/ ReceiveUnsupported(i, r) \/ SystemCancel(i, r)
      PROVE  TakerInv'
  BY <1>1, ReceiveOrderKeeps, ReceiveUnsupportedKeeps, SystemCancelKeeps
<1>2. ASSUME NEW s \in CancelSeqs, NEW i \in Ids, Cancel(s, i) PROVE TakerInv'
  BY <1>2, CancelKeeps
<1>3. ASSUME NEW s \in CancelSeqs, NEW list \in BatchLists, BatchCancel(s, list)
      PROVE  TakerInv'
  BY <1>3, BatchCancelKeeps
<1>4. CASE FokCheck \/ TakerFinished \/ Exhausted \/ Enqueue
  BY <1>4, FokCheckKeeps, TakerFinishedKeeps, ExhaustedKeeps, EnqueueKeeps
<1>5. ASSUME NEW m \in book, CircuitBreak(m) \/ PrecisionCancel(m) PROVE TakerInv'
  BY <1>5, CircuitBreakKeeps, PrecisionCancelKeeps
<1>6. ASSUME NEW m \in book, AssertionFails(m) PROVE TakerInv'
  BY <1>6, TakerIsKept DEF AssertionFails
<1>7. ASSUME NEW m \in book, Fill(m) PROVE TakerInv'
  BY <1>7, FillKeeps
<1>8. ASSUME NEW m \in book,
             CancelBoth(m) \/ CancelOld(m) \/ CancelNew(m) \/ DecreaseCancel(m)
      PROVE  TakerInv'
  BY <1>8, CancelBothKeeps, CancelOldKeeps, CancelNewKeeps, DecreaseCancelKeeps
<1>9. CASE UNCHANGED vars
  BY <1>9, TakerIsKept DEF vars
<1>10. CASE Command
  BY <1>1, <1>2, <1>3, <1>10 DEF Command
<1>11. CASE Meeting
  BY <1>5, <1>6, <1>7, <1>8, <1>11 DEF Meeting
<1>12. QED
  BY <1>4, <1>9, <1>10, <1>11 DEF Next, MatchStep

(* What is known of the order being matched holds in every state reached:  *)
(* its results are in order, it gets what they give, and an accepted FOK   *)
(* order stays covered.                                                    *)
THEOREM TakerInvariant == Spec => []TakerInv
<1>1. Init => TakerInv
  BY InitTakerInv
<1>2. IInv /\ TakerInv /\ [Next]_vars => TakerInv'
  BY NextTakerInv
<1>3. QED
  BY <1>1, <1>2, Invariant, PTL DEF Spec

(* fillAmount gives the taker, in amount and in value, exactly what the    *)
(* published results take from the makers, whatever mix of fills and       *)
(* self-trades they came from.                                             *)
THEOREM TakerGetsWhatIsGiven == Spec => []TakerGetsWhatMakersGive
<1>1. TakerInv => TakerGetsWhatMakersGive
  BY DEF TakerInv
<1>2. QED
  BY <1>1, TakerInvariant, PTL

(* matchMarket and matchFok never trade out of the circuit around an       *)
(* earlier trade of the same order.                                        *)
THEOREM CircuitRespected == Spec => []CircuitBound
<1>1. IInv /\ TakerInv => CircuitBound
  BY CircuitIsKept DEF TakerInv
<1>2. QED
  BY <1>1, Invariant, TakerInvariant, PTL

(* Without self-trade prevention, canFilledFokOrder decides right: a FOK   *)
(* order it accepts is filled whole, and one it refuses not at all.        *)
THEOREM FokWhollyOrNotAtAll ==
  ASSUME FokWithoutStp
  PROVE  Spec => []FokAllOrNothing
<1>1. TakerInv => FokAllOrNothing
  BY FokWithoutStp DEF TakerInv
<1>2. QED
  BY <1>1, TakerInvariant, PTL

(* The price test of canFilledFokOrder suffices for the loop of matchFok,  *)
(* which has none: a FOK order trades within its price limit.              *)
THEOREM FokPriceHonoured ==
  ASSUME FokWithoutStp
  PROVE  Spec => []FokPriceRespected
<1>1. TakerInv => FokPriceRespected
  BY FokWithoutStp DEF TakerInv
<1>2. QED
  BY <1>1, TakerInvariant, PTL
=============================================================================
