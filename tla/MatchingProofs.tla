--------------------------- MODULE MatchingProofs ---------------------------
(***************************************************************************)
(* What holds of Matching for every set of ids, users and requests.        *)
(***************************************************************************)
EXTENDS Matching, TLAPS

-----------------------------------------------------------------------------
(* Types of the records the engine builds.                                 *)

LEMMA OrderFields ==
  ASSUME NEW o \in Order
  PROVE  /\ o.req \in Requests /\ o.req \in Request
         /\ o.req.side \in Sides /\ o.req.type \in OrderTypes
         /\ o.req.price \in Nat /\ o.req.amount \in Nat /\ o.req.rate \in Nat
         /\ o.unfilled \in Nat /\ o.acc \in Nat /\ o.value \in Nat
         /\ o.decreased \in Nat
         /\ o.state \in OrderStates /\ o.told \in ResultStates
BY MatchingAssumption DEF Order, Request

LEMMA ProductIsNat ==
  ASSUME NEW a \in Nat, NEW b \in Nat
  PROVE  a * b \in Nat
BY SMT

LEMMA FilledType ==
  ASSUME NEW o \in Order, NEW amount \in Nat, NEW p \in Nat,
         amount <= o.unfilled
  PROVE  /\ Filled(o, amount, p) \in Order
         /\ Filled(o, amount, p).req = o.req
         /\ Filled(o, amount, p).unfilled = o.unfilled - amount
         /\ Filled(o, amount, p).acc = o.acc + amount
         /\ Filled(o, amount, p).value = o.value + amount * p
         /\ Filled(o, amount, p).decreased = o.decreased
         /\ Filled(o, amount, p).state
              = IF o.unfilled = amount THEN "Filled" ELSE "PartialFilled"
         /\ Filled(o, amount, p).told = o.told
<1>1. amount * p \in Nat
  BY ProductIsNat
<1>2. o.unfilled - amount \in Nat /\ o.acc + amount \in Nat /\ o.value + amount * p \in Nat
  BY <1>1, OrderFields
<1>3. QED
  BY <1>2, OrderFields DEF Filled, Order, OrderStates

LEMMA SelfTradeCancelType ==
  ASSUME NEW o \in Order
  PROVE  /\ SelfTradeCancel(o) \in Order
         /\ SelfTradeCancel(o).req = o.req
         /\ SelfTradeCancel(o).unfilled = o.unfilled
         /\ SelfTradeCancel(o).acc = o.acc
         /\ SelfTradeCancel(o).value = o.value
         /\ SelfTradeCancel(o).decreased = o.decreased
         /\ SelfTradeCancel(o).state = SelfTradeState(o.state)
         /\ SelfTradeCancel(o).told = o.told
<1>1. SelfTradeState(o.state) \in OrderStates
  BY OrderFields DEF SelfTradeState, OrderStates
<1>2. QED
  BY <1>1 DEF SelfTradeCancel, Order

LEMMA SelfTradeDecreaseType ==
  ASSUME NEW o \in Order, NEW amount \in Nat, amount <= o.unfilled
  PROVE  /\ SelfTradeDecrease(o, amount) \in Order
         /\ SelfTradeDecrease(o, amount).req = o.req
         /\ SelfTradeDecrease(o, amount).unfilled = o.unfilled - amount
         /\ SelfTradeDecrease(o, amount).acc = o.acc
         /\ SelfTradeDecrease(o, amount).value = o.value
         /\ SelfTradeDecrease(o, amount).decreased = o.decreased + amount
         /\ SelfTradeDecrease(o, amount).state = "SelfTradeDecreased"
         /\ SelfTradeDecrease(o, amount).told = o.told
<1>1. o.unfilled - amount \in Nat /\ o.decreased + amount \in Nat
  BY OrderFields
<1>2. QED
  BY <1>1, OrderFields DEF SelfTradeDecrease, Order, OrderStates

LEMMA WithStateType ==
  ASSUME NEW o \in Order, NEW s \in OrderStates
  PROVE  /\ [o EXCEPT !.state = s] \in Order
         /\ [o EXCEPT !.state = s].req = o.req
         /\ [o EXCEPT !.state = s].unfilled = o.unfilled
         /\ [o EXCEPT !.state = s].acc = o.acc
         /\ [o EXCEPT !.state = s].value = o.value
         /\ [o EXCEPT !.state = s].decreased = o.decreased
         /\ [o EXCEPT !.state = s].state = s
BY DEF Order

LEMMA WithToldType ==
  ASSUME NEW o \in Order, NEW t \in ResultStates
  PROVE  /\ [o EXCEPT !.told = t] \in Order
         /\ [o EXCEPT !.told = t].req = o.req
         /\ [o EXCEPT !.told = t].unfilled = o.unfilled
         /\ [o EXCEPT !.told = t].acc = o.acc
         /\ [o EXCEPT !.told = t].value = o.value
         /\ [o EXCEPT !.told = t].decreased = o.decreased
         /\ [o EXCEPT !.told = t].state = o.state
         /\ [o EXCEPT !.told = t].told = t
BY DEF Order

LEMMA StateNameType ==
  ASSUME NEW s \in OrderStates
  PROVE  StateName[s] \in ResultStates
<1>1. /\ StateName["Submitted"] = "submitted"
      /\ StateName["PartialFilled"] = "partial-filled"
      /\ StateName["Filled"] = "filled"
      /\ StateName["Canceled"] = "canceled"
      /\ StateName["CircuitCanceled"] = "circuit-canceled"
  BY DEF StateName
<1>2. /\ StateName["PrecisionCanceled"] = "precision-canceled"
      /\ StateName["SelfTradeCanceled"] = "self-trade-canceled"
      /\ StateName["SelfTradePartialCanceled"] = "self-trade-partial-canceled"
      /\ StateName["SelfTradeDecreased"] = "self-trade-decreased"
  BY DEF StateName
<1>3. QED
  BY <1>1, <1>2 DEF OrderStates, ResultStates

LEMMA TakerStateType ==
  ASSUME NEW s \in OrderStates, NEW type
  PROVE  TakerState(type, s) \in ResultStates
BY StateNameType DEF TakerState, OrderStates, ResultStates

LEMMA CancelStateType ==
  ASSUME NEW s
  PROVE  CancelState(s) \in ResultStates
BY DEF CancelState, ResultStates

LEMMA TakerItemType ==
  ASSUME NEW i \in Ids, NEW o \in Order
  PROVE  TakerItem(i, o) \in Item
BY OrderFields, TakerStateType DEF TakerItem, Item

LEMMA FillItemType ==
  ASSUME NEW m \in Ids, NEW o \in Order, NEW amount \in Nat
  PROVE  /\ FillItem(m, o, amount) \in Item
         /\ FillItem(m, o, amount).state = StateName[o.state]
BY OrderFields, StateNameType DEF FillItem, Item

LEMMA SelfTradeItemType ==
  ASSUME NEW m \in Ids, NEW o \in Order, NEW amount \in Nat
  PROVE  /\ SelfTradeItem(m, o, amount) \in Item
         /\ SelfTradeItem(m, o, amount).state = StateName[o.state]
<1>1. /\ FillItem(m, o, amount) \in Item
      /\ FillItem(m, o, amount).state = StateName[o.state]
  BY FillItemType
<1>2. QED
  BY <1>1 DEF SelfTradeItem, Item

-----------------------------------------------------------------------------
(* The invariants of a single order: AmountConserved and                   *)
(* LimitPriceRespected say Sound of every order.                           *)

Sound(o) ==
  /\ o.unfilled + o.acc + o.decreased = o.req.amount
  /\ o.req.type = "Limit" =>
       IF o.req.side = "Buy" THEN o.value <= o.acc * o.req.price
                             ELSE o.value >= o.acc * o.req.price

LEMMA OrdersAreSound ==
  ASSUME IInv, NEW i \in DOMAIN orders
  PROVE  /\ orders[i] \in Order /\ i \in Ids
         /\ Sound(orders[i])
BY DEF IInv, TypeOK, AmountConserved, LimitPriceRespected, Sound

(* Publishing a state changes nothing that Sound speaks of.                *)
LEMMA ToldIsSound ==
  ASSUME NEW o \in Order, NEW t \in ResultStates, Sound(o)
  PROVE  Sound([o EXCEPT !.told = t])
<1> DEFINE n == [o EXCEPT !.told = t]
<1>1. /\ n.req = o.req /\ n.unfilled = o.unfilled /\ n.acc = o.acc
      /\ n.value = o.value /\ n.decreased = o.decreased
  BY WithToldType
<1> HIDE DEF n
<1>2. Sound(n)
  BY <1>1 DEF Sound
<1>3. QED
  BY <1>2 DEF n

LEMMA AddToProduct ==
  ASSUME NEW a \in Nat, NEW b \in Nat, NEW c \in Nat
  PROVE  (a + b) * c = a * c + b * c
BY SMT

LEMMA ProductIsMonotone ==
  ASSUME NEW a \in Nat, NEW b \in Nat, NEW c \in Nat, b <= c
  PROVE  a * b <= a * c
BY SMT

(* A fill at a price no worse than the order's own keeps it sound.         *)
LEMMA FilledIsSound ==
  ASSUME NEW o \in Order, NEW amount \in Nat, NEW p \in Nat,
         amount <= o.unfilled, Sound(o),
         o.req.type = "Limit" => IF o.req.side = "Buy" THEN p <= o.req.price
                                                       ELSE p >= o.req.price
  PROVE  Sound(Filled(o, amount, p))
<1> DEFINE f == Filled(o, amount, p)
<1>1. /\ f.req = o.req /\ f.unfilled = o.unfilled - amount
      /\ f.acc = o.acc + amount /\ f.value = o.value + amount * p
      /\ f.decreased = o.decreased
  BY FilledType
<1>2. /\ o.req.price \in Nat /\ o.acc \in Nat /\ o.unfilled \in Nat
      /\ o.decreased \in Nat /\ o.value \in Nat /\ o.req.amount \in Nat
  BY OrderFields
<1>3. f.unfilled + f.acc + f.decreased = f.req.amount
  BY <1>1, <1>2 DEF Sound
<1>4. (o.acc + amount) * o.req.price = o.acc * o.req.price + amount * o.req.price
  BY <1>2, AddToProduct
<1>5. /\ o.acc * o.req.price \in Nat /\ amount * o.req.price \in Nat
      /\ amount * p \in Nat
  BY <1>2, ProductIsNat
<1>6. CASE o.req.type = "Limit" /\ o.req.side = "Buy"
  <2>1. amount * p <= amount * o.req.price
    BY <1>2, <1>6, ProductIsMonotone
  <2>2. f.value <= f.acc * f.req.price
    BY <1>1, <1>2, <1>4, <1>5, <1>6, <2>1 DEF Sound
  <2>3. QED
    BY <1>1, <1>3, <1>6, <2>2 DEF Sound
<1>7. CASE o.req.type = "Limit" /\ o.req.side # "Buy"
  <2>1. amount * p >= amount * o.req.price
    BY <1>2, <1>7, ProductIsMonotone
  <2>2. f.value >= f.acc * f.req.price
    BY <1>1, <1>2, <1>4, <1>5, <1>7, <2>1 DEF Sound
  <2>3. QED
    BY <1>1, <1>3, <1>7, <2>2 DEF Sound
<1>8. CASE o.req.type # "Limit"
  BY <1>1, <1>3, <1>8 DEF Sound
<1>9. QED
  BY <1>6, <1>7, <1>8

LEMMA SelfTradeCancelIsSound ==
  ASSUME NEW o \in Order, Sound(o)
  PROVE  Sound(SelfTradeCancel(o))
BY SelfTradeCancelType DEF Sound

LEMMA SelfTradeDecreaseIsSound ==
  ASSUME NEW o \in Order, NEW amount \in Nat, amount <= o.unfilled, Sound(o)
  PROVE  Sound(SelfTradeDecrease(o, amount))
<1>1. /\ o.acc \in Nat /\ o.unfilled \in Nat /\ o.decreased \in Nat
      /\ o.req.amount \in Nat
  BY OrderFields
<1>2. QED
  BY <1>1, SelfTradeDecreaseType DEF Sound

-----------------------------------------------------------------------------
(* What is published of an order in each state.                            *)

LEMMA StateNameValues ==
  /\ \A s \in OpenStates : StateName[s] \in OpenResults
  /\ \A s \in OrderStates \ OpenStates : StateName[s] \notin OpenResults
<1>1. /\ StateName["Submitted"] = "submitted"
      /\ StateName["PartialFilled"] = "partial-filled"
      /\ StateName["Filled"] = "filled"
      /\ StateName["Canceled"] = "canceled"
      /\ StateName["CircuitCanceled"] = "circuit-canceled"
  BY DEF StateName
<1>2. /\ StateName["PrecisionCanceled"] = "precision-canceled"
      /\ StateName["SelfTradeCanceled"] = "self-trade-canceled"
      /\ StateName["SelfTradePartialCanceled"] = "self-trade-partial-canceled"
      /\ StateName["SelfTradeDecreased"] = "self-trade-decreased"
  BY DEF StateName
<1>3. QED
  BY <1>1, <1>2 DEF OpenStates, OpenResults, OrderStates

LEMMA ClosedTakerState ==
  ASSUME NEW type, NEW s \in OrderStates,
         \/ s \notin OpenStates
         \/ type = "Market"
         \/ type = "Fok" /\ s = "Submitted"
  PROVE  TakerState(type, s) \notin OpenResults
BY StateNameValues DEF TakerState, OpenStates, OpenResults

LEMMA ClosedCancelState ==
  ASSUME NEW s
  PROVE  CancelState(s) \notin OpenResults
BY DEF CancelState, OpenResults

LEMMA OpenTakerState ==
  ASSUME NEW s \in OpenStates
  PROVE  TakerState("Limit", s) \in OpenResults
BY StateNameValues DEF TakerState

-----------------------------------------------------------------------------
(* The steps that close a match: FokCheck, TakerFinished, Exhausted,       *)
(* CircuitBreak and PrecisionCancel finalize the taker off the book.       *)

LEMMA FinalizeStep ==
  ASSUME IInv, taker # None, NEW o \in Order, o.req = Req(taker), Sound(o),
         TakerState(o.req.type, o.state) \notin OpenResults,
         Finalize(o), UNCHANGED book
  PROVE  IInv'
<1> DEFINE t == TakerState(o.req.type, o.state)
           n == [o EXCEPT !.told = t]
<1>1. taker \in DOMAIN orders /\ taker \in Ids
  BY DEF IInv, TypeOK
<1>2. t \in ResultStates
  BY OrderFields, TakerStateType
<1>3. /\ n \in Order /\ n.req = o.req /\ n.unfilled = o.unfilled
      /\ n.acc = o.acc /\ n.value = o.value /\ n.decreased = o.decreased
      /\ n.told = t
  BY <1>2, WithToldType
<1>4. orders' = [orders EXCEPT ![taker] = n]
  BY DEF Finalize
<1>5. /\ DOMAIN orders' = DOMAIN orders
      /\ orders'[taker] = n
      /\ \A i \in DOMAIN orders \ {taker} : orders'[i] = orders[i]
  BY <1>1, <1>4
<1>6. /\ taker' = None /\ checked' = FALSE /\ book' = book
      /\ fromId' = fromId /\ price' = price /\ halted' = halted
      /\ items' = Append(items, TakerItem(taker, o))
  BY DEF Finalize
<1>7. \A i \in DOMAIN orders' : /\ orders'[i] \in Order
                                /\ Sound(orders'[i])
                                /\ orders'[i].req = Req(i)
  <2>1. /\ n \in Order /\ Sound(n) /\ n.req = Req(taker)
    BY <1>3 DEF Sound
  <2>2. \A i \in DOMAIN orders : orders[i] \in Order /\ Sound(orders[i])
    BY OrdersAreSound
  <2> HIDE DEF n
  <2>3. \A i \in DOMAIN orders \ {taker} : /\ orders'[i] \in Order
                                          /\ Sound(orders'[i])
                                          /\ orders'[i].req = orders[i].req
    BY <1>5, <2>2
  <2>4. QED
    BY <1>5, <2>1, <2>3 DEF Req
<1>8. taker \notin book
  BY DEF IInv, TakerIsOpen
<1>9. \A i \in book : i \in DOMAIN orders /\ orders'[i] = orders[i]
  BY <1>5, <1>8 DEF IInv, TypeOK
<1>10. TypeOK'
  <2>1. items' \in Seq(Item)
    BY <1>1, <1>6, TakerItemType DEF IInv, TypeOK
  <2>2. orders' \in [DOMAIN orders' -> Order]
    BY <1>4, <1>3, <1>1 DEF IInv, TypeOK
  <2>3. QED
    BY <1>5, <1>6, <2>1, <2>2 DEF IInv, TypeOK
<1>11. RestingIsLive'
  BY <1>6, <1>9 DEF IInv, RestingIsLive, Req
<1>12. BookNotCrossed'
  BY <1>6, <1>9 DEF IInv, BookNotCrossed, OrderSet, Req
<1>13. BookIsWhatWasTold'
  BY <1>3, <1>5, <1>6, <1>8 DEF IInv, BookIsWhatWasTold
<1>14. AmountConserved' /\ LimitPriceRespected'
  BY <1>7 DEF AmountConserved, LimitPriceRespected, Sound
<1>15. SeqOrder' /\ TakerIsOpen'
  BY <1>5, <1>6 DEF IInv, SeqOrder, TakerIsOpen
<1>16. QED
  BY <1>10, <1>11, <1>12, <1>13, <1>14, <1>15 DEF IInv

-----------------------------------------------------------------------------
(* A limit order that is not done and meets nothing rests.                 *)

(* In the order of Precedes the head has the best price of its side.       *)
LEMMA HeadHasBestPrice ==
  ASSUME IInv, NEW m \in book, NEW n \in book,
         Req(n).side = Req(m).side, n = m \/ Precedes(m, n)
  PROVE  IF Req(m).side = "Buy" THEN Req(m).price >= Req(n).price
                                ELSE Req(m).price <= Req(n).price
<1>1. m \in DOMAIN orders /\ n \in DOMAIN orders
  BY DEF IInv, TypeOK
<1>2. /\ Req(m).price \in Nat /\ Req(n).price \in Nat
      /\ Req(m).side \in Sides /\ Req(n).side \in Sides
  BY <1>1, OrdersAreSound, OrderFields DEF Req
<1>3. QED
  BY <1>2 DEF Precedes, Sides

(* With one sequence every resting order is older than the taker.          *)
LEMMA TakerIsYoungest ==
  ASSUME IInv, MonotoneSeq, taker # None, NEW m \in book
  PROVE  taker > m
<1>1. /\ m \in DOMAIN orders /\ m \in Ids /\ taker \in Ids /\ m # taker
  BY DEF IInv, TypeOK, TakerIsOpen
<1>2. m <= taker
  BY <1>1 DEF IInv, SeqOrder
<1>3. m \in Nat /\ taker \in Nat
  BY <1>1, MatchingAssumption
<1>4. QED
  BY <1>1, <1>2, <1>3

LEMMA EnqueueStep ==
  ASSUME IInv, Enqueue
  PROVE  IInv'
<1> DEFINE o == orders[taker]
           t == TakerState(o.req.type, o.state)
           n == [o EXCEPT !.told = t]
<1>1. /\ taker # None /\ ~Finished(o) /\ Req(taker).type = "Limit"
      /\ book' = book \cup {taker} /\ Finalize(o)
  BY DEF Enqueue, InLoop
<1>2. taker \in DOMAIN orders /\ taker \in Ids /\ o \in Order /\ Sound(o)
  BY <1>1, OrdersAreSound DEF IInv, TypeOK
<1>3. o.state \in OpenStates /\ o.unfilled > 0
  BY <1>1 DEF IInv, TakerIsOpen, Req
<1>4. t \in ResultStates /\ t \in OpenResults
  <2>1. t \in ResultStates
    BY <1>2, OrderFields, TakerStateType
  <2>2. o.req.type = "Limit"
    BY <1>1 DEF Req
  <2>3. QED
    BY <1>3, <2>1, <2>2, OpenTakerState
<1>5. /\ n \in Order /\ n.req = o.req /\ n.unfilled = o.unfilled
      /\ n.acc = o.acc /\ n.value = o.value /\ n.decreased = o.decreased
      /\ n.state = o.state /\ n.told = t
  BY <1>2, <1>4, WithToldType
<1>6. orders' = [orders EXCEPT ![taker] = n]
  BY <1>1 DEF Finalize
<1>7. /\ DOMAIN orders' = DOMAIN orders
      /\ orders'[taker] = n
      /\ \A i \in DOMAIN orders \ {taker} : orders'[i] = orders[i]
  BY <1>2, <1>6
<1>8. /\ taker' = None /\ checked' = FALSE
      /\ fromId' = fromId /\ price' = price /\ halted' = halted
      /\ items' = Append(items, TakerItem(taker, o))
  BY <1>1 DEF Finalize
<1>9. \A i \in DOMAIN orders' : /\ orders'[i] \in Order
                                /\ Sound(orders'[i])
                                /\ orders'[i].req = Req(i)
  <2>1. Sound(n)
    BY <1>2, <1>4, ToldIsSound
  <2>2. /\ orders'[taker] \in Order /\ Sound(orders'[taker])
        /\ orders'[taker].req = Req(taker)
    BY <1>5, <1>7, <2>1 DEF Req
  <2>3. QED
    BY <1>7, <2>2, OrdersAreSound DEF Req
<1>10. taker \notin book
  BY <1>1 DEF IInv, TakerIsOpen
<1>11. \A i \in book : i \in DOMAIN orders /\ orders'[i] = orders[i]
  BY <1>7, <1>10 DEF IInv, TypeOK
<1>12. TypeOK'
  <2>1. items' \in Seq(Item)
    BY <1>2, <1>8, TakerItemType DEF IInv, TypeOK
  <2>2. orders' \in [DOMAIN orders' -> Order]
    BY <1>6, <1>5, <1>2 DEF IInv, TypeOK
  <2>3. QED
    BY <1>1, <1>2, <1>7, <1>8, <2>1, <2>2 DEF IInv, TypeOK
<1>13. RestingIsLive'
  BY <1>1, <1>3, <1>5, <1>7, <1>11 DEF IInv, RestingIsLive, Req
<1>14. BookNotCrossed'
  <2>1. SUFFICES ASSUME MonotoneSeq,
                        NEW b \in book', NEW a \in book',
                        orders'[b].req.side = "Buy", orders'[a].req.side = "Sell"
                 PROVE  orders'[b].req.price < orders'[a].req.price
    BY DEF BookNotCrossed, OrderSet, Req
  <2>2. /\ Req(b).side = "Buy" /\ Req(a).side = "Sell"
        /\ orders'[b].req = Req(b) /\ orders'[a].req = Req(a)
        /\ Req(b).price \in Nat /\ Req(a).price \in Nat
    BY <1>1, <1>2, <1>7, <1>9, <1>11, <2>1, OrderFields, OrdersAreSound DEF Req
  <2>3. CASE b \in book /\ a \in book
    BY <2>1, <2>2, <2>3 DEF IInv, BookNotCrossed, OrderSet
  <2>4. CASE b = taker /\ a = taker
    BY <2>2, <2>4
  <2>5. CASE b = taker /\ a \in book
    <3>1. a \in OppoSet(taker)
      BY <2>2, <2>5 DEF OppoSet, OrderSet, OppoSide
    <3>2. PICK m \in OppoSet(taker) : /\ IsHead(m, OppoSet(taker))
                                      /\ ~MatchAble(taker, m)
      BY <3>1 DEF Enqueue
    <3>3. m \in book /\ Req(m).side = "Sell" /\ (a = m \/ Precedes(m, a))
      BY <2>2, <2>5, <3>1, <3>2 DEF OppoSet, OrderSet, OppoSide, IsHead
    <3>4. taker > m
      BY <1>1, <2>1, <3>3, TakerIsYoungest
    <3>5. Req(m).price \in Nat /\ Req(m).price <= Req(a).price
      BY <2>2, <2>5, <3>3, HeadHasBestPrice, OrdersAreSound, OrderFields, <1>11 DEF Req
    <3>6. ~(Req(taker).price >= Req(m).price)
      BY <2>2, <2>5, <3>2, <3>4 DEF MatchAble
    <3>7. QED
      BY <2>2, <2>5, <3>5, <3>6
  <2>6. CASE a = taker /\ b \in book
    <3>1. b \in OppoSet(taker)
      BY <2>2, <2>6 DEF OppoSet, OrderSet, OppoSide
    <3>2. PICK m \in OppoSet(taker) : /\ IsHead(m, OppoSet(taker))
                                      /\ ~MatchAble(taker, m)
      BY <3>1 DEF Enqueue
    <3>3. m \in book /\ Req(m).side = "Buy" /\ (b = m \/ Precedes(m, b))
      BY <2>2, <2>6, <3>1, <3>2 DEF OppoSet, OrderSet, OppoSide, IsHead
    <3>4. taker > m
      BY <1>1, <2>1, <3>3, TakerIsYoungest
    <3>5. Req(m).price \in Nat /\ Req(m).price >= Req(b).price
      BY <2>2, <2>6, <3>3, HeadHasBestPrice, OrdersAreSound, OrderFields, <1>11 DEF Req
    <3>6. ~(Req(taker).price <= Req(m).price)
      BY <2>2, <2>6, <3>2, <3>4 DEF MatchAble
    <3>7. QED
      BY <2>2, <2>6, <3>5, <3>6
  <2>7. QED
    BY <1>1, <2>1, <2>3, <2>4, <2>5, <2>6
<1>15. BookIsWhatWasTold'
  <2>1. SUFFICES ASSUME NEW i \in DOMAIN orders
                 PROVE  i \in book' <=> orders'[i].told \in OpenResults
    BY <1>7, <1>8 DEF BookIsWhatWasTold
  <2>2. CASE i = taker
    BY <1>1, <1>4, <1>5, <1>7, <2>2
  <2>3. CASE i # taker
    <3>1. orders'[i] = orders[i] /\ (i \in book' <=> i \in book)
      BY <1>1, <1>7, <2>3
    <3>2. i \in book <=> orders[i].told \in OpenResults
      BY <2>3 DEF IInv, BookIsWhatWasTold
    <3>3. QED
      BY <3>1, <3>2
  <2>4. QED
    BY <2>2, <2>3
<1>16. AmountConserved' /\ LimitPriceRespected'
  BY <1>9 DEF AmountConserved, LimitPriceRespected, Sound
<1>17. SeqOrder' /\ TakerIsOpen'
  BY <1>7, <1>8 DEF IInv, SeqOrder, TakerIsOpen
<1>18. QED
  BY <1>12, <1>13, <1>14, <1>15, <1>16, <1>17 DEF IInv

-----------------------------------------------------------------------------
(* A meeting that changes both orders: Fill, CancelBoth, CancelOld and     *)
(* DecreaseCancel.                                                         *)

LEMMA MetStep ==
  ASSUME IInv, taker # None, NEW m \in book, NEW t \in Order, NEW o \in Order,
         NEW item \in Item,
         t.req = Req(taker), Sound(t), t.state \in OpenStates \/ Finished(t),
         t.req.type = "Limit" /\ t.state \in OpenStates => t.unfilled > 0,
         t.req.type = "Fok" => checked,
         o.req = Req(m), Sound(o),
         (o.state \in OpenStates /\ o.unfilled > 0) \/ Finished(o),
         item.state = StateName[o.state],
         Met(m, t, o, item), price' \in Nat
  PROVE  IInv'
<1> DEFINE n == [o EXCEPT !.told = item.state]
<1>1. /\ taker \in DOMAIN orders /\ taker \in Ids
      /\ m \in DOMAIN orders /\ m \in Ids /\ m # taker /\ taker \notin book
  BY DEF IInv, TypeOK, TakerIsOpen
<1>2. item.state \in ResultStates
  BY DEF Item
<1>3. /\ n \in Order /\ n.req = o.req /\ n.unfilled = o.unfilled
      /\ n.acc = o.acc /\ n.value = o.value /\ n.decreased = o.decreased
      /\ n.state = o.state /\ n.told = item.state
  BY <1>2, WithToldType
<1>4. orders' = [orders EXCEPT ![taker] = t, ![m] = n]
  BY DEF Met
<1>5. /\ DOMAIN orders' = DOMAIN orders
      /\ orders'[taker] = t /\ orders'[m] = n
      /\ \A i \in DOMAIN orders \ {taker, m} : orders'[i] = orders[i]
  BY <1>1, <1>4
<1>6. /\ taker' = taker /\ checked' = checked /\ fromId' = fromId
      /\ halted' = halted /\ items' = Append(items, item)
      /\ book' = IF Finished(o) THEN book \ {m} ELSE book
  BY DEF Met
<1>7. \A i \in DOMAIN orders' : /\ orders'[i] \in Order
                                /\ Sound(orders'[i])
                                /\ orders'[i].req = Req(i)
  <2>1. Sound(n)
    BY <1>2, ToldIsSound
  <2>2. /\ orders'[taker] \in Order /\ Sound(orders'[taker])
        /\ orders'[taker].req = Req(taker)
    BY <1>5
  <2>3. /\ orders'[m] \in Order /\ Sound(orders'[m]) /\ orders'[m].req = Req(m)
    BY <1>3, <1>5, <2>1
  <2>4. QED
    BY <1>5, <2>2, <2>3, OrdersAreSound DEF Req
<1>8. \A i \in book \ {m} : i \in DOMAIN orders /\ orders'[i] = orders[i]
  BY <1>1, <1>5 DEF IInv, TypeOK
<1>9. TypeOK'
  <2>1. items' \in Seq(Item)
    BY <1>6 DEF IInv, TypeOK
  <2>2. orders' \in [DOMAIN orders' -> Order]
    BY <1>4, <1>3, <1>1 DEF IInv, TypeOK
  <2>3. QED
    BY <1>5, <1>6, <2>1, <2>2 DEF IInv, TypeOK
<1>10. RestingIsLive'
  <2>1. SUFFICES ASSUME NEW i \in book'
                 PROVE  /\ orders'[i].req.type = "Limit"
                        /\ orders'[i].state \in OpenStates
                        /\ orders'[i].unfilled > 0
    BY DEF RestingIsLive, Req
  <2>2. CASE i = m
    <3>1. ~Finished(o)
      BY <1>6, <2>1, <2>2
    <3>2. o.req.type = "Limit"
      BY DEF IInv, RestingIsLive
    <3>3. QED
      BY <1>3, <1>5, <2>2, <3>1, <3>2
  <2>3. CASE i # m
    BY <1>6, <1>8, <2>1, <2>3 DEF IInv, RestingIsLive, Req
  <2>4. QED
    BY <2>2, <2>3
<1>11. BookNotCrossed'
  BY <1>5, <1>6, <1>7 DEF IInv, TypeOK, BookNotCrossed, OrderSet, Req
<1>12. BookIsWhatWasTold'
  <2>1. o.state \in OrderStates
    BY OrderFields
  <2>2. item.state \in OpenResults <=> o.state \in OpenStates
    BY <2>1, StateNameValues
  <2>3. o.state \in OpenStates <=> ~Finished(o)
    BY DEF Finished, OpenStates
  <2>4. m \in book' <=> n.told \in OpenResults
    BY <1>3, <1>6, <2>2, <2>3
  <2>5. QED
    BY <1>5, <1>6, <2>4 DEF IInv, BookIsWhatWasTold
<1>13. AmountConserved' /\ LimitPriceRespected'
  BY <1>7 DEF AmountConserved, LimitPriceRespected, Sound
<1>14. SeqOrder'
  BY <1>5, <1>6 DEF IInv, SeqOrder
<1>15. TakerIsOpen'
  BY <1>1, <1>5, <1>6 DEF IInv, TakerIsOpen, Req, Finished
<1>16. QED
  BY <1>9, <1>10, <1>11, <1>12, <1>13, <1>14, <1>15 DEF IInv

-----------------------------------------------------------------------------
(* The amounts of a meeting.                                               *)

LEMMA LotsAreNat ==
  ASSUME NEW a \in Nat, NEW b \in Nat \ {0}
  PROVE  a \div b \in Nat
BY SMT

LEMMA MeetingTypes ==
  ASSUME IInv, NEW m \in book, Meets(m)
  PROVE  /\ taker # None /\ taker \in DOMAIN orders /\ m \in DOMAIN orders
         /\ orders[taker] \in Order /\ Sound(orders[taker])
         /\ orders[m] \in Order /\ Sound(orders[m]) /\ m \in Ids
         /\ orders[taker].state \in OpenStates
         /\ orders[m].state \in OpenStates /\ orders[m].unfilled > 0
         /\ orders[taker].unfilled \in Nat /\ orders[m].unfilled \in Nat
         /\ Req(m).price \in Nat /\ UnitPrice(m) \in Nat \ {0}
         /\ Req(taker).type = "Fok" => checked
         /\ Req(taker).type = "Limit" => MatchAble(taker, m)
         /\ Affordable(taker, m) \in Nat
         /\ MatchAmount(taker, m) \in Nat
         /\ TakerAmount(taker, m) \in Nat
<1>1. /\ taker # None /\ ~Finished(orders[taker])
      /\ Req(taker).type = "Fok" => checked
      /\ Req(taker).type = "Limit" => MatchAble(taker, m)
  BY DEF Meets, AtHead, InLoop
<1>2. taker \in DOMAIN orders /\ m \in DOMAIN orders
  BY <1>1 DEF IInv, TypeOK
<1>3. /\ orders[taker] \in Order /\ Sound(orders[taker])
      /\ orders[m] \in Order /\ Sound(orders[m]) /\ m \in Ids
  BY <1>2, OrdersAreSound
<1>4. /\ orders[taker].state \in OpenStates
      /\ orders[m].state \in OpenStates /\ orders[m].unfilled > 0
      /\ Req(m).type = "Limit"
  BY <1>1 DEF IInv, TakerIsOpen, RestingIsLive
<1>5. /\ orders[taker].unfilled \in Nat /\ orders[m].unfilled \in Nat
      /\ Req(m).price \in Nat
  BY <1>3, OrderFields DEF Req
<1>6. UnitPrice(m) \in Nat \ {0}
  <2>1. Req(m) \in Requests
    BY <1>3, OrderFields DEF Req
  <2>2. Req(m).price > 0
    BY <1>4, <2>1, MatchingAssumption
  <2>3. Lot \in Nat /\ Lot > 0
    BY MatchingAssumption
  <2>4. Lot * Req(m).price > 0
    BY <1>5, <2>2, <2>3
  <2>5. QED
    BY <1>5, <2>3, <2>4, ProductIsNat DEF UnitPrice
<1>7. Affordable(taker, m) \in Nat
  <2>1. orders[taker].unfilled \div UnitPrice(m) \in Nat
    BY <1>5, <1>6, LotsAreNat
  <2>2. (orders[taker].unfilled \div UnitPrice(m)) * Lot \in Nat
    BY <2>1, ProductIsNat, MatchingAssumption
  <2>3. QED
    BY <1>5, <2>2 DEF Affordable
<1>8. MatchAmount(taker, m) \in Nat
  BY <1>5, <1>7 DEF MatchAmount, Smaller
<1>9. TakerAmount(taker, m) \in Nat
  BY <1>5, <1>8, ProductIsNat DEF TakerAmount
<1>10. QED
  BY <1>1, <1>2, <1>3, <1>4, <1>5, <1>6, <1>7, <1>8, <1>9

LEMMA MeetingFacts ==
  ASSUME IInv, NEW m \in book, Meets(m), Asserted(m), ~TooPrecise(m)
  PROVE  /\ taker # None /\ taker \in DOMAIN orders /\ m \in DOMAIN orders
         /\ orders[taker] \in Order /\ Sound(orders[taker])
         /\ orders[m] \in Order /\ Sound(orders[m]) /\ m \in Ids
         /\ orders[taker].state \in OpenStates
         /\ orders[m].state \in OpenStates /\ orders[m].unfilled > 0
         /\ Req(taker).type = "Fok" => checked
         /\ Req(taker).type = "Limit" => MatchAble(taker, m)
         /\ Affordable(taker, m) \in Nat
         /\ MatchAmount(taker, m) \in Nat
         /\ MatchAmount(taker, m) <= orders[m].unfilled
         /\ TakerAmount(taker, m) \in Nat
         /\ TakerAmount(taker, m) <= orders[taker].unfilled
<1>1. /\ MatchAmount(taker, m) <= orders[m].unfilled
      /\ TakerAmount(taker, m) <= orders[taker].unfilled
  BY DEF Asserted
<1>2. QED
  BY <1>1, MeetingTypes

(* A limit order trades base amount against base amount.                   *)
LEMMA LimitTakerAmount ==
  ASSUME NEW m, Req(taker).type = "Limit"
  PROVE  /\ TakerAmount(taker, m) = MatchAmount(taker, m)
         /\ Affordable(taker, m) = orders[taker].unfilled
BY DEF TakerAmount, CashBased, Affordable

LEMMA FillStep ==
  ASSUME IInv, NEW m \in book, Fill(m)
  PROVE  IInv'
<1> DEFINE amount == MatchAmount(taker, m)
           cost == TakerAmount(taker, m)
           p == Req(m).price
           t == Filled(orders[taker], cost, p)
           o == Filled(orders[m], amount, p)
<1>1. /\ Meets(m) /\ Asserted(m) /\ ~TooPrecise(m)
      /\ Met(m, t, o, FillItem(m, o, amount)) /\ price' = p
  BY DEF Fill
<1>2. /\ taker # None /\ taker \in DOMAIN orders /\ m \in DOMAIN orders
      /\ orders[taker] \in Order /\ Sound(orders[taker])
      /\ orders[m] \in Order /\ Sound(orders[m]) /\ m \in Ids
      /\ Req(taker).type = "Fok" => checked
      /\ Req(taker).type = "Limit" => MatchAble(taker, m)
      /\ amount \in Nat /\ amount <= orders[m].unfilled
      /\ cost \in Nat /\ cost <= orders[taker].unfilled
  BY <1>1, MeetingFacts
<1>3. /\ p \in Nat /\ Req(taker).price \in Nat
      /\ orders[taker].unfilled \in Nat /\ orders[m].unfilled \in Nat
  BY <1>2, OrderFields DEF Req
<1> HIDE DEF amount, cost, p
<1>4. /\ t \in Order /\ t.req = Req(taker)
      /\ t.unfilled = orders[taker].unfilled - cost
      /\ t.state = IF orders[taker].unfilled = cost THEN "Filled" ELSE "PartialFilled"
  BY <1>2, <1>3, FilledType DEF Req
<1>5. /\ o \in Order /\ o.req = Req(m)
      /\ o.unfilled = orders[m].unfilled - amount
      /\ o.state = IF orders[m].unfilled = amount THEN "Filled" ELSE "PartialFilled"
  <2>1. /\ orders[m] \in Order /\ amount \in Nat /\ p \in Nat
        /\ amount <= orders[m].unfilled
    BY <1>2, <1>3
  <2>2. QED
    BY <2>1, FilledType DEF Req
<1>6. Sound(t)
  BY <1>2, <1>3, FilledIsSound DEF Req, MatchAble, p
<1>7. Sound(o)
  BY <1>2, <1>3, FilledIsSound DEF Req, p
<1> HIDE DEF t, o
<1>8. t.state \in OpenStates \/ Finished(t)
  BY <1>4 DEF OpenStates, Finished
<1>9. t.req.type = "Limit" /\ t.state \in OpenStates => t.unfilled > 0
  BY <1>2, <1>3, <1>4 DEF OpenStates
<1>10. (o.state \in OpenStates /\ o.unfilled > 0) \/ Finished(o)
  BY <1>2, <1>3, <1>5 DEF OpenStates, Finished
<1>11. FillItem(m, o, amount) \in Item /\ FillItem(m, o, amount).state = StateName[o.state]
  BY <1>2, <1>5, FillItemType
<1>12. QED
  BY <1>1, <1>2, <1>3, <1>4, <1>5, <1>6, <1>7, <1>8, <1>9, <1>10, <1>11, MetStep

-----------------------------------------------------------------------------
(* Self-trade prevention.                                                  *)

LEMMA SelfTradeCancelFinishes ==
  ASSUME NEW o \in Order, o.state \in OpenStates
  PROVE  Finished(SelfTradeCancel(o))
<1>1. SelfTradeState(o.state) \in {"SelfTradeCanceled", "SelfTradePartialCanceled"}
  BY DEF SelfTradeState, OpenStates
<1>2. QED
  BY <1>1, SelfTradeCancelType DEF Finished

LEMMA CancelBothStep ==
  ASSUME IInv, NEW m \in book, CancelBoth(m)
  PROVE  IInv'
<1> DEFINE t == SelfTradeCancel(orders[taker])
           o == SelfTradeCancel(orders[m])
<1>1. /\ Meets(m) /\ Asserted(m) /\ ~TooPrecise(m) /\ price' = price
      /\ Met(m, t, o, SelfTradeItem(m, o, o.unfilled))
  BY DEF CancelBoth, SelfTrade
<1>2. /\ taker # None /\ orders[taker] \in Order /\ Sound(orders[taker])
      /\ orders[m] \in Order /\ Sound(orders[m]) /\ m \in Ids
      /\ Req(taker).type = "Fok" => checked
      /\ orders[taker].state \in OpenStates /\ orders[m].state \in OpenStates
  BY <1>1, MeetingFacts
<1>3. t \in Order /\ t.req = Req(taker) /\ Sound(t) /\ Finished(t)
  BY <1>2, SelfTradeCancelType, SelfTradeCancelIsSound, SelfTradeCancelFinishes DEF Req
<1>4. o \in Order /\ o.req = Req(m) /\ Sound(o) /\ Finished(o) /\ o.unfilled \in Nat
  BY <1>2, SelfTradeCancelType, SelfTradeCancelIsSound, SelfTradeCancelFinishes,
     OrderFields DEF Req
<1> HIDE DEF t, o
<1>5. /\ SelfTradeItem(m, o, o.unfilled) \in Item
      /\ SelfTradeItem(m, o, o.unfilled).state = StateName[o.state]
  BY <1>2, <1>4, SelfTradeItemType
<1>6. t.state \notin OpenStates /\ price' \in Nat
  BY <1>1, <1>3 DEF Finished, OpenStates, IInv, TypeOK
<1>7. QED
  BY <1>1, <1>2, <1>3, <1>4, <1>5, <1>6, MetStep

LEMMA CancelOldStep ==
  ASSUME IInv, NEW m \in book, CancelOld(m)
  PROVE  IInv'
<1> DEFINE t == orders[taker]
           o == SelfTradeCancel(orders[m])
<1>1. /\ Meets(m) /\ Asserted(m) /\ ~TooPrecise(m) /\ price' = price
      /\ Met(m, t, o, SelfTradeItem(m, o, o.unfilled))
  BY DEF CancelOld, SelfTrade
<1>2. /\ taker # None /\ t \in Order /\ Sound(t) /\ t.req = Req(taker)
      /\ orders[m] \in Order /\ Sound(orders[m]) /\ m \in Ids
      /\ Req(taker).type = "Fok" => checked
      /\ t.state \in OpenStates /\ orders[m].state \in OpenStates
  BY <1>1, MeetingFacts DEF Req
<1>3. t.req.type = "Limit" => t.unfilled > 0
  BY <1>2 DEF IInv, TakerIsOpen
<1>4. o \in Order /\ o.req = Req(m) /\ Sound(o) /\ Finished(o) /\ o.unfilled \in Nat
  BY <1>2, SelfTradeCancelType, SelfTradeCancelIsSound, SelfTradeCancelFinishes,
     OrderFields DEF Req
<1> HIDE DEF t, o
<1>5. /\ SelfTradeItem(m, o, o.unfilled) \in Item
      /\ SelfTradeItem(m, o, o.unfilled).state = StateName[o.state]
  BY <1>2, <1>4, SelfTradeItemType
<1>6. price' \in Nat
  BY <1>1 DEF IInv, TypeOK
<1>7. QED
  BY <1>1, <1>2, <1>3, <1>4, <1>5, <1>6, MetStep

LEMMA DecreaseCancelStep ==
  ASSUME IInv, NEW m \in book, DecreaseCancel(m)
  PROVE  IInv'
<1> DEFINE amount == MatchAmount(taker, m)
           cost == TakerAmount(taker, m)
           cap == Affordable(taker, m)
           size == orders[m].unfilled
           left == orders[taker].unfilled > cost
           oldCanceled == SelfTradeCancel(orders[m])
           oldDecreased == SelfTradeDecrease(orders[m], amount)
           newCanceled == SelfTradeCancel(orders[taker])
           newDecreased == SelfTradeDecrease(orders[taker], cost)
<1>1. Meets(m) /\ Asserted(m) /\ ~TooPrecise(m) /\ price' = price
  BY DEF DecreaseCancel, SelfTrade
<1>2. /\ taker # None /\ orders[taker] \in Order /\ Sound(orders[taker])
      /\ orders[m] \in Order /\ Sound(orders[m]) /\ m \in Ids
      /\ Req(taker).type = "Fok" => checked
      /\ orders[taker].state \in OpenStates /\ orders[m].state \in OpenStates
      /\ cap \in Nat /\ amount \in Nat /\ amount <= size
      /\ cost \in Nat /\ cost <= orders[taker].unfilled
  BY <1>1, MeetingFacts
<1>3. size \in Nat /\ orders[taker].unfilled \in Nat /\ price' \in Nat
  BY <1>1, <1>2, OrderFields DEF IInv, TypeOK
<1>4. amount = IF cap <= size THEN cap ELSE size
  BY DEF MatchAmount, Smaller
<1>5. Req(taker).type = "Limit" => cost = amount /\ cap = orders[taker].unfilled
  BY LimitTakerAmount
<1>6. \/ /\ cap > size \/ (cap = size /\ left)
         /\ Met(m, newDecreased, oldCanceled, SelfTradeItem(m, oldCanceled, amount))
      \/ /\ cap = size
         /\ Met(m, newCanceled, oldCanceled, SelfTradeItem(m, oldCanceled, amount))
      \/ /\ cap < size
         /\ Met(m, newCanceled, oldDecreased, SelfTradeItem(m, oldDecreased, amount))
  BY DEF DecreaseCancel
<1> HIDE DEF amount, cost, cap
<1>7. /\ newCanceled \in Order /\ newCanceled.req = Req(taker)
      /\ Sound(newCanceled) /\ Finished(newCanceled)
  BY <1>2, SelfTradeCancelType, SelfTradeCancelIsSound, SelfTradeCancelFinishes DEF Req
<1>8. /\ oldCanceled \in Order /\ oldCanceled.req = Req(m)
      /\ Sound(oldCanceled) /\ Finished(oldCanceled)
  BY <1>2, SelfTradeCancelType, SelfTradeCancelIsSound, SelfTradeCancelFinishes DEF Req
<1>9. /\ newDecreased \in Order /\ newDecreased.req = Req(taker)
      /\ Sound(newDecreased) /\ newDecreased.state = "SelfTradeDecreased"
      /\ newDecreased.unfilled = orders[taker].unfilled - cost
  BY <1>2, SelfTradeDecreaseType, SelfTradeDecreaseIsSound DEF Req
<1>10. /\ oldDecreased \in Order /\ oldDecreased.req = Req(m)
       /\ Sound(oldDecreased) /\ oldDecreased.state = "SelfTradeDecreased"
       /\ oldDecreased.unfilled = size - amount
  BY <1>2, SelfTradeDecreaseType, SelfTradeDecreaseIsSound DEF Req
<1> HIDE DEF newCanceled, oldCanceled, newDecreased, oldDecreased
<1>11. /\ SelfTradeItem(m, oldCanceled, amount) \in Item
       /\ SelfTradeItem(m, oldCanceled, amount).state = StateName[oldCanceled.state]
       /\ SelfTradeItem(m, oldDecreased, amount) \in Item
       /\ SelfTradeItem(m, oldDecreased, amount).state = StateName[oldDecreased.state]
  BY <1>2, <1>8, <1>10, SelfTradeItemType
<1>12. newCanceled.state \notin OpenStates
  BY <1>7 DEF Finished, OpenStates
<1>13. ASSUME cap > size \/ (cap = size /\ left),
              Met(m, newDecreased, oldCanceled, SelfTradeItem(m, oldCanceled, amount))
       PROVE  IInv'
  <2>1. Req(taker).type = "Limit" => newDecreased.unfilled > 0
    BY <1>2, <1>3, <1>4, <1>5, <1>9, <1>13
  <2>2. newDecreased.state \in OpenStates
    BY <1>9 DEF OpenStates
  <2>3. QED
    BY <1>2, <1>3, <1>8, <1>9, <1>11, <1>13, <2>1, <2>2, MetStep
<1>14. ASSUME Met(m, newCanceled, oldCanceled, SelfTradeItem(m, oldCanceled, amount))
       PROVE  IInv'
  BY <1>2, <1>3, <1>7, <1>8, <1>11, <1>12, <1>14, MetStep
<1>15. ASSUME cap < size,
              Met(m, newCanceled, oldDecreased, SelfTradeItem(m, oldDecreased, amount))
       PROVE  IInv'
  <2>1. oldDecreased.unfilled > 0
    BY <1>2, <1>3, <1>4, <1>10, <1>15
  <2>2. oldDecreased.state \in OpenStates
    BY <1>10 DEF OpenStates
  <2>3. QED
    BY <1>2, <1>3, <1>7, <1>10, <1>11, <1>12, <1>15, <2>1, <2>2, MetStep
<1>16. QED
  BY <1>6, <1>13, <1>14, <1>15

(* Only the taker changes, and nothing is published for the maker.         *)
LEMMA CancelNewStep ==
  ASSUME IInv, NEW m \in book, CancelNew(m)
  PROVE  IInv'
<1> DEFINE t == SelfTradeCancel(orders[taker])
<1>1. /\ Meets(m) /\ Asserted(m) /\ ~TooPrecise(m) /\ price' = price
      /\ orders' = [orders EXCEPT ![taker] = t]
      /\ book' = book /\ fromId' = fromId /\ taker' = taker
      /\ checked' = checked /\ items' = items /\ halted' = halted
  BY DEF CancelNew, SelfTrade
<1>2. /\ taker # None /\ taker \in DOMAIN orders
      /\ orders[taker] \in Order /\ Sound(orders[taker])
      /\ Req(taker).type = "Fok" => checked
      /\ orders[taker].state \in OpenStates
  BY <1>1, MeetingFacts
<1>3. t \in Order /\ t.req = Req(taker) /\ Sound(t) /\ Finished(t)
  BY <1>2, SelfTradeCancelType, SelfTradeCancelIsSound, SelfTradeCancelFinishes DEF Req
<1> HIDE DEF t
<1>4. t.state \notin OpenStates
  BY <1>3 DEF Finished, OpenStates
<1>5. /\ DOMAIN orders' = DOMAIN orders
      /\ orders'[taker] = t
      /\ \A i \in DOMAIN orders \ {taker} : orders'[i] = orders[i]
  BY <1>1, <1>2
<1>6. \A i \in DOMAIN orders' : orders'[i] \in Order /\ Sound(orders'[i])
  BY <1>3, <1>5, OrdersAreSound
<1>7. taker \notin book /\ \A i \in book : i \in DOMAIN orders /\ orders'[i] = orders[i]
  BY <1>2, <1>5 DEF IInv, TypeOK, TakerIsOpen
<1>8. TypeOK'
  <2>1. orders' \in [DOMAIN orders' -> Order]
    BY <1>1, <1>2, <1>3 DEF IInv, TypeOK
  <2>2. QED
    BY <1>1, <1>5, <2>1 DEF IInv, TypeOK
<1>9. RestingIsLive' /\ BookNotCrossed'
  BY <1>1, <1>7 DEF IInv, RestingIsLive, BookNotCrossed, OrderSet, Req
<1>10. BookIsWhatWasTold'
  BY <1>1, <1>5 DEF IInv, BookIsWhatWasTold
<1>11. AmountConserved' /\ LimitPriceRespected'
  BY <1>6 DEF AmountConserved, LimitPriceRespected, Sound
<1>12. SeqOrder'
  BY <1>1, <1>5 DEF IInv, SeqOrder
<1>13. TakerIsOpen'
  BY <1>1, <1>2, <1>3, <1>4, <1>5, <1>7 DEF IInv, TakerIsOpen, Req, Finished
<1>14. QED
  BY <1>8, <1>9, <1>10, <1>11, <1>12, <1>13 DEF IInv

-----------------------------------------------------------------------------
(* The steps that close a match, one by one.                               *)

LEMMA FokCheckStep ==
  ASSUME IInv, FokCheck
  PROVE  IInv'
<1> DEFINE o == orders[taker]
<1>1. taker # None /\ Req(taker).type = "Fok" /\ ~checked
  BY DEF FokCheck
<1>2. taker \in DOMAIN orders /\ o \in Order /\ Sound(o) /\ o.req = Req(taker)
  BY <1>1, OrdersAreSound DEF IInv, TypeOK, Req
<1>3. o.state = "Submitted"
  BY <1>1 DEF IInv, TakerIsOpen, Req
<1>4. CASE FokFillable(taker)
  <2>1. /\ checked' = TRUE
        /\ UNCHANGED <<orders, book, fromId, taker, items, price, halted>>
    BY <1>4 DEF FokCheck
  <2>2. TypeOK'
    BY <2>1 DEF IInv, TypeOK
  <2>3. RestingIsLive' /\ BookNotCrossed'
    BY <2>1 DEF IInv, RestingIsLive, BookNotCrossed, OrderSet, Req
  <2>4. BookIsWhatWasTold' /\ AmountConserved' /\ LimitPriceRespected' /\ SeqOrder'
    BY <2>1 DEF IInv, BookIsWhatWasTold, AmountConserved, LimitPriceRespected, SeqOrder
  <2>5. TakerIsOpen'
    BY <2>1 DEF IInv, TakerIsOpen, Finished
  <2>6. QED
    BY <2>2, <2>3, <2>4, <2>5 DEF IInv
<1>5. CASE ~FokFillable(taker)
  <2>1. Finalize(o) /\ UNCHANGED book
    BY <1>5 DEF FokCheck
  <2>2. TakerState(o.req.type, o.state) \notin OpenResults
    BY <1>1, <1>2, <1>3, ClosedTakerState, OrderFields
  <2>3. QED
    BY <1>1, <1>2, <2>1, <2>2, FinalizeStep
<1>6. QED
  BY <1>4, <1>5

LEMMA TakerFinishedStep ==
  ASSUME IInv, TakerFinished
  PROVE  IInv'
<1> DEFINE o == orders[taker]
<1>1. taker # None /\ Finished(o) /\ Finalize(o) /\ UNCHANGED book
  BY DEF TakerFinished, InLoop
<1>2. taker \in DOMAIN orders /\ o \in Order /\ Sound(o) /\ o.req = Req(taker)
  BY <1>1, OrdersAreSound DEF IInv, TypeOK, Req
<1>3. o.state \in OrderStates /\ o.state \notin OpenStates
  BY <1>1, <1>2, OrderFields DEF Finished, OpenStates
<1>4. TakerState(o.req.type, o.state) \notin OpenResults
  BY <1>3, ClosedTakerState
<1>5. QED
  BY <1>1, <1>2, <1>4, FinalizeStep

(* A taker that stops with a state of its own: CircuitCanceled,            *)
(* PrecisionCanceled or Canceled.                                          *)
LEMMA StopStep ==
  ASSUME IInv, taker # None, NEW s \in OrderStates \ OpenStates,
         Finalize([orders[taker] EXCEPT !.state = s]), UNCHANGED book
  PROVE  IInv'
<1> DEFINE o == [orders[taker] EXCEPT !.state = s]
<1>1. taker \in DOMAIN orders /\ orders[taker] \in Order /\ Sound(orders[taker])
  BY OrdersAreSound DEF IInv, TypeOK
<1>2. /\ o \in Order /\ o.req = Req(taker) /\ o.state = s
      /\ o.unfilled = orders[taker].unfilled /\ o.acc = orders[taker].acc
      /\ o.value = orders[taker].value /\ o.decreased = orders[taker].decreased
  BY <1>1, WithStateType DEF Req
<1>3. Finalize(o)
  OBVIOUS
<1> HIDE DEF o
<1>4. Sound(o)
  BY <1>1, <1>2 DEF Sound, Req
<1>5. TakerState(o.req.type, o.state) \notin OpenResults
  BY <1>2, ClosedTakerState
<1>6. QED
  BY <1>2, <1>3, <1>4, <1>5, FinalizeStep

LEMMA ExhaustedStep ==
  ASSUME IInv, Exhausted
  PROVE  IInv'
<1> DEFINE o == orders[taker]
<1>1. taker # None /\ ~Finished(o) /\ Req(taker).type \in {"Market", "Fok"}
      /\ UNCHANGED book
  BY DEF Exhausted, InLoop
<1>2. CASE Req(taker).type = "Fok"
  <2>1. Finalize([o EXCEPT !.state = "Canceled"])
    BY <1>2 DEF Exhausted
  <2>2. "Canceled" \in OrderStates \ OpenStates
    BY DEF OrderStates, OpenStates
  <2>3. QED
    BY <1>1, <2>1, <2>2, StopStep
<1>3. CASE Req(taker).type = "Market"
  <2>1. Finalize(o)
    BY <1>3 DEF Exhausted
  <2>2. taker \in DOMAIN orders /\ o \in Order /\ Sound(o) /\ o.req = Req(taker)
    BY <1>1, OrdersAreSound DEF IInv, TypeOK, Req
  <2>3. TakerState(o.req.type, o.state) \notin OpenResults
    BY <1>3, <2>2, ClosedTakerState, OrderFields
  <2>4. QED
    BY <1>1, <2>1, <2>2, <2>3, FinalizeStep
<1>4. QED
  BY <1>1, <1>2, <1>3

LEMMA CircuitBreakStep ==
  ASSUME IInv, NEW m \in book, CircuitBreak(m)
  PROVE  IInv'
<1>1. /\ taker # None /\ UNCHANGED book
      /\ Finalize([orders[taker] EXCEPT !.state = "CircuitCanceled"])
  BY DEF CircuitBreak, AtHead, InLoop
<1>2. "CircuitCanceled" \in OrderStates \ OpenStates
  BY DEF OrderStates, OpenStates
<1>3. QED
  BY <1>1, <1>2, StopStep

LEMMA PrecisionCancelStep ==
  ASSUME IInv, NEW m \in book, PrecisionCancel(m)
  PROVE  IInv'
<1>1. /\ taker # None /\ UNCHANGED book
      /\ Finalize([orders[taker] EXCEPT !.state = "PrecisionCanceled"])
  BY DEF PrecisionCancel, Meets, AtHead, InLoop
<1>2. "PrecisionCanceled" \in OrderStates \ OpenStates
  BY DEF OrderStates, OpenStates
<1>3. QED
  BY <1>1, <1>2, StopStep

LEMMA HaltStep ==
  ASSUME IInv, halted' = TRUE,
         UNCHANGED <<orders, book, fromId, taker, checked, items, price>>
  PROVE  IInv'
<1>1. TypeOK'
  BY DEF IInv, TypeOK
<1>2. RestingIsLive' /\ BookNotCrossed'
  BY DEF IInv, RestingIsLive, BookNotCrossed, OrderSet, Req
<1>3. BookIsWhatWasTold' /\ AmountConserved' /\ LimitPriceRespected'
  BY DEF IInv, BookIsWhatWasTold, AmountConserved, LimitPriceRespected
<1>4. SeqOrder' /\ TakerIsOpen'
  BY DEF IInv, SeqOrder, TakerIsOpen, Finished
<1>5. QED
  BY <1>1, <1>2, <1>3, <1>4 DEF IInv

-----------------------------------------------------------------------------
(* The commands.                                                           *)

LEMMA IncomingIsSound ==
  ASSUME NEW r \in Requests
  PROVE  /\ Incoming(r) \in Order /\ Sound(Incoming(r))
         /\ Incoming(r).req = r /\ Incoming(r).unfilled > 0
         /\ Incoming(r).state = "Submitted" /\ Incoming(r).told = ""
<1>1. /\ r \in Request /\ r.amount > 0 /\ r.amount \in Nat /\ r.price \in Nat
  BY MatchingAssumption DEF Request
<1>2. /\ Incoming(r).req = r /\ Incoming(r).unfilled = r.amount
      /\ Incoming(r).acc = 0 /\ Incoming(r).value = 0
      /\ Incoming(r).decreased = 0
      /\ Incoming(r).state = "Submitted" /\ Incoming(r).told = ""
  BY DEF Incoming
<1>3. Incoming(r) \in Order
  BY <1>1 DEF Incoming, Order, OrderStates, ResultStates
<1> DEFINE o == Incoming(r)
<1> HIDE DEF o
<1>4. /\ o.req = r /\ o.unfilled = r.amount /\ o.acc = 0 /\ o.value = 0
      /\ o.decreased = 0
  BY <1>2 DEF o
<1>5. Sound(o)
  <2>1. 0 * r.price = 0
    BY <1>1, SMT
  <2>2. o.acc * o.req.price = 0
    BY <1>4, <2>1
  <2>3. o.unfilled + o.acc + o.decreased = o.req.amount
    BY <1>1, <1>4
  <2>4. QED
    BY <1>4, <2>2, <2>3 DEF Sound
<1> USE DEF o
<1>6. QED
  BY <1>1, <1>2, <1>3, <1>5

(* A new order is recorded, and is matched next or has been answered.      *)
LEMMA RecordStep ==
  ASSUME IInv, Idle, NEW i \in Ids, FreshSeq(i), NEW o \in Order, Sound(o),
         o.told \notin OpenResults, Record(i, o), fromId' = i, book' = book,
         checked' = checked,
         \/ taker' = None
         \/ /\ taker' = i /\ o.req.type \in {"Market", "Limit", "Fok"}
            /\ o.state = "Submitted" /\ o.unfilled > 0,
         items' \in Seq(Item), price' \in Nat, halted' \in BOOLEAN
  PROVE  IInv'
<1>1. /\ taker = None /\ i \notin DOMAIN orders /\ i \notin book /\ i \in Nat
      /\ i # None
  BY MatchingAssumption DEF Idle, FreshSeq, IInv, TypeOK, None
<1>2. /\ DOMAIN orders' = DOMAIN orders \cup {i}
      /\ orders'[i] = o
      /\ \A j \in DOMAIN orders : orders'[j] = orders[j]
  BY <1>1 DEF Record
<1>3. \A j \in DOMAIN orders' : orders'[j] \in Order /\ Sound(orders'[j])
  BY <1>2, OrdersAreSound
<1>4. \A j \in book : j \in DOMAIN orders /\ orders'[j] = orders[j]
  BY <1>2 DEF IInv, TypeOK
<1>5. TypeOK'
  <2>1. orders' \in [DOMAIN orders' -> Order]
    BY <1>2, <1>3 DEF Record
  <2>2. QED
    BY <1>1, <1>2, <2>1 DEF IInv, TypeOK
<1>6. RestingIsLive' /\ BookNotCrossed'
  BY <1>4 DEF IInv, RestingIsLive, BookNotCrossed, OrderSet, Req
<1>7. BookIsWhatWasTold'
  <2>1. SUFFICES ASSUME NEW j \in DOMAIN orders', j # taker'
                 PROVE  j \in book <=> orders'[j].told \in OpenResults
    BY DEF BookIsWhatWasTold
  <2>2. CASE j = i
    BY <1>1, <1>2, <2>2
  <2>3. CASE j # i
    <3>1. j \in DOMAIN orders /\ orders'[j] = orders[j] /\ j # taker
      BY <1>1, <1>2, <2>3, OrdersAreSound, MatchingAssumption DEF None
    <3>2. QED
      BY <3>1 DEF IInv, BookIsWhatWasTold
  <2>4. QED
    BY <2>2, <2>3
<1>8. AmountConserved' /\ LimitPriceRespected'
  BY <1>3 DEF AmountConserved, LimitPriceRespected, Sound
<1>9. SeqOrder'
  <2>1. SUFFICES ASSUME MonotoneSeq
                 PROVE  /\ \A j \in DOMAIN orders' : j <= i
                        /\ taker' # None => taker' = i
    BY DEF SeqOrder
  <2>2. i > fromId /\ fromId \in Nat
    BY <2>1, MatchingAssumption DEF FreshSeq, IInv, TypeOK
  <2>3. ASSUME NEW j \in DOMAIN orders PROVE j <= i
    <3>1. j <= fromId /\ j \in Nat
      BY <2>1, <2>3, OrdersAreSound, MatchingAssumption DEF IInv, SeqOrder
    <3>2. QED
      BY <1>1, <2>2, <3>1
  <2>4. QED
    BY <1>1, <1>2, <2>3
<1>10. TakerIsOpen'
  BY <1>1, <1>2 DEF TakerIsOpen, OpenStates
<1>11. QED
  BY <1>5, <1>6, <1>7, <1>8, <1>9, <1>10 DEF IInv

LEMMA ReceiveOrderStep ==
  ASSUME IInv, NEW i \in Ids, NEW r \in Requests, ReceiveOrder(i, r)
  PROVE  IInv'
<1>1. /\ Idle /\ FreshSeq(i) /\ Record(i, Incoming(r)) /\ fromId' = i
      /\ taker' = i /\ book' = book /\ checked' = checked
      /\ items' \in Seq(Item) /\ price' \in Nat /\ halted' \in BOOLEAN
      /\ r.type \in {"Market", "Limit", "Fok"}
  BY DEF ReceiveOrder, StartMatching, IInv, TypeOK
<1>2. Incoming(r).told \notin OpenResults
  BY IncomingIsSound DEF OpenResults
<1>3. QED
  BY <1>1, <1>2, IncomingIsSound, RecordStep

LEMMA ReceiveUnsupportedStep ==
  ASSUME IInv, NEW i \in Ids, NEW r \in Requests, ReceiveUnsupported(i, r)
  PROVE  IInv'
<1>1. /\ Idle /\ FreshSeq(i) /\ Record(i, Incoming(r)) /\ fromId' = i
      /\ taker' = None /\ book' = book /\ checked' = checked
      /\ items' \in Seq(Item) /\ price' \in Nat /\ halted' \in BOOLEAN
  BY DEF ReceiveUnsupported, IInv, TypeOK, Idle
<1>2. Incoming(r).told \notin OpenResults
  BY IncomingIsSound DEF OpenResults
<1>3. QED
  BY <1>1, <1>2, IncomingIsSound, RecordStep

LEMMA SystemCancelStep ==
  ASSUME IInv, NEW i \in Ids, NEW r \in Requests, SystemCancel(i, r)
  PROVE  IInv'
<1> DEFINE o == [Incoming(r) EXCEPT !.told = "canceled"]
           item == TakerItem(i, Incoming(r))
           answer == [item EXCEPT !.price = 0, !.value = 0, !.state = "canceled"]
<1>1. /\ Idle /\ FreshSeq(i) /\ Record(i, o) /\ fromId' = i
      /\ taker' = None /\ book' = book /\ checked' = checked
      /\ items' = <<answer>> /\ price' \in Nat /\ halted' \in BOOLEAN
  BY DEF SystemCancel, IInv, TypeOK, Idle
<1>2. "canceled" \in ResultStates /\ "canceled" \notin OpenResults
  BY DEF ResultStates, OpenResults
<1>3. o \in Order /\ o.told \notin OpenResults /\ Sound(o)
  <2>1. Incoming(r) \in Order /\ Sound(Incoming(r))
    BY IncomingIsSound
  <2>2. o \in Order /\ o.told = "canceled"
    BY <1>2, <2>1, WithToldType
  <2>3. Sound(o)
    BY <1>2, <2>1, ToldIsSound
  <2>4. QED
    BY <1>2, <2>2, <2>3
<1>4. item \in Item
  BY IncomingIsSound, TakerItemType
<1> HIDE DEF item
<1>5. answer \in Item
  BY <1>2, <1>4 DEF Item
<1> HIDE DEF o, answer
<1>6. items' \in Seq(Item)
  BY <1>1, <1>5
<1>7. QED
  BY <1>1, <1>3, <1>6, RecordStep

(* A cancellation takes the orders of S that rest out of the book.         *)
LEMMA RemoveStep ==
  ASSUME IInv, Idle, NEW S, NEW s \in CancelSeqs, fromId' = s,
         orders' = [i \in DOMAIN orders |->
                      IF i \in book \cap S
                      THEN [orders[i] EXCEPT !.told = CancelState(orders[i].state)]
                      ELSE orders[i]],
         book' = book \ S, items' \in Seq(Item), price' = 0,
         UNCHANGED <<taker, checked, halted>>
  PROVE  IInv'
<1> DEFINE told(i) == CancelState(orders[i].state)
<1>1. /\ DOMAIN orders' = DOMAIN orders
      /\ \A i \in DOMAIN orders : i \notin book \cap S => orders'[i] = orders[i]
      /\ \A i \in DOMAIN orders : i \in book \cap S =>
           orders'[i] = [orders[i] EXCEPT !.told = told(i)]
  OBVIOUS
<1>2. \A i \in DOMAIN orders : told(i) \in ResultStates /\ told(i) \notin OpenResults
  BY CancelStateType, ClosedCancelState
<1> HIDE DEF told
<1>3. ASSUME NEW i \in DOMAIN orders
      PROVE  orders'[i] \in Order /\ Sound(orders'[i]) /\ orders'[i].req = Req(i)
  <2>1. CASE i \in book \cap S
    <3>1. orders[i] \in Order /\ Sound(orders[i]) /\ told(i) \in ResultStates
      BY <1>2, OrdersAreSound
    <3>2. [orders[i] EXCEPT !.told = told(i)] \in Order
      BY <3>1, WithToldType
    <3>3. Sound([orders[i] EXCEPT !.told = told(i)])
      BY <3>1, ToldIsSound
    <3>4. [orders[i] EXCEPT !.told = told(i)].req = orders[i].req
      BY <3>1, WithToldType
    <3>5. orders'[i] = [orders[i] EXCEPT !.told = told(i)]
      BY <1>1, <2>1
    <3>6. QED
      BY <3>2, <3>3, <3>4, <3>5 DEF Req
  <2>2. CASE i \notin book \cap S
    BY <1>1, <2>2, OrdersAreSound DEF Req
  <2>3. QED
    BY <2>1, <2>2
<1>4. \A i \in DOMAIN orders : i \in book \cap S => orders'[i].told \notin OpenResults
  <2>1. ASSUME NEW i \in DOMAIN orders, i \in book \cap S
        PROVE  orders'[i].told \notin OpenResults
    <3>1. orders[i] \in Order
      BY OrdersAreSound
    <3>2. [orders[i] EXCEPT !.told = told(i)].told = told(i)
      BY <1>2, <3>1, WithToldType
    <3>3. QED
      BY <1>1, <1>2, <2>1, <3>2
  <2>2. QED
    BY <2>1
<1>5. taker = None
  BY DEF Idle
<1>6. s \in Ids \cup {0}
  BY DEF CancelSeqs
<1>7. book' \subseteq book /\ \A i \in book' : i \in DOMAIN orders /\ orders'[i] = orders[i]
  BY <1>1 DEF IInv, TypeOK
<1>8. TypeOK'
  <2>1. orders' \in [DOMAIN orders' -> Order]
    BY <1>1, <1>3
  <2>2. QED
    BY <1>1, <1>6, <1>7, <2>1 DEF IInv, TypeOK
<1>9. RestingIsLive' /\ BookNotCrossed'
  BY <1>7 DEF IInv, RestingIsLive, BookNotCrossed, OrderSet, Req
<1>10. BookIsWhatWasTold'
  BY <1>1, <1>4, <1>5 DEF IInv, BookIsWhatWasTold
<1>11. AmountConserved' /\ LimitPriceRespected'
  BY <1>1, <1>3 DEF AmountConserved, LimitPriceRespected, Sound
<1>12. SeqOrder'
  <2>1. SUFFICES ASSUME MonotoneSeq, NEW j \in DOMAIN orders
                 PROVE  j <= s
    BY <1>1, <1>5 DEF SeqOrder
  <2>2. s > fromId /\ s \in Ids
    BY <2>1 DEF CancelSeqs, FreshSeq
  <2>3. j <= fromId /\ j \in Ids
    BY <2>1, OrdersAreSound DEF IInv, SeqOrder
  <2>4. s \in Nat /\ j \in Nat /\ fromId \in Nat
    BY <2>2, <2>3, MatchingAssumption DEF IInv, TypeOK
  <2>5. QED
    BY <2>2, <2>3, <2>4
<1>13. TakerIsOpen'
  BY <1>5 DEF TakerIsOpen
<1>14. QED
  BY <1>8, <1>9, <1>10, <1>11, <1>12, <1>13 DEF IInv

LEMMA CancelItemType ==
  ASSUME IInv, NEW i \in Ids, NEW found \in BOOLEAN,
         found => i \in DOMAIN orders
  PROVE  CancelItem(i, found) \in Item
<1>1. CASE found
  <2>1. orders[i] \in Order /\ orders[i].unfilled \in Nat
    BY <1>1, OrdersAreSound, OrderFields
  <2>2. CancelState(orders[i].state) \in ResultStates
    BY CancelStateType
  <2>3. QED
    BY <1>1, <2>1, <2>2 DEF CancelItem, Item
<1>2. CASE ~found
  BY <1>2 DEF CancelItem, Item, ResultStates
<1>3. QED
  BY <1>1, <1>2

LEMMA CancelStep ==
  ASSUME IInv, NEW s \in CancelSeqs, NEW i \in Ids, Cancel(s, i)
  PROVE  IInv'
<1>1. /\ Idle /\ fromId' = s /\ book' = book \ {i} /\ price' = 0
      /\ items' = <<CancelItem(i, i \in book)>>
      /\ orders' = IF i \in book
                   THEN [orders EXCEPT ![i].told = CancelState(orders[i].state)]
                   ELSE orders
      /\ UNCHANGED <<taker, checked, halted>>
  BY DEF Cancel
<1>2. book \subseteq DOMAIN orders /\ orders = [j \in DOMAIN orders |-> orders[j]]
  BY DEF IInv, TypeOK
<1>3. CancelItem(i, i \in book) \in Item
  <2> DEFINE found == i \in book
  <2>1. found \in BOOLEAN /\ (found => i \in DOMAIN orders)
    BY <1>2
  <2> HIDE DEF found
  <2>2. CancelItem(i, found) \in Item
    BY <2>1, CancelItemType
  <2>3. QED
    BY <2>2 DEF found
<1>4. items' \in Seq(Item)
  BY <1>1, <1>3
<1>5. orders' = [j \in DOMAIN orders |->
                  IF j \in book \cap {i}
                  THEN [orders[j] EXCEPT !.told = CancelState(orders[j].state)]
                  ELSE orders[j]]
  BY <1>1, <1>2
<1>6. QED
  BY <1>1, <1>4, <1>5, RemoveStep

LEMMA BatchCancelStep ==
  ASSUME IInv, NEW s \in CancelSeqs, NEW list \in BatchLists, BatchCancel(s, list)
  PROVE  IInv'
<1> DEFINE found(k) == list[k] \in book /\ \A j \in 1 .. k - 1 : list[j] # list[k]
           listed == {list[k] : k \in 1 .. Len(list)}
<1>1. /\ Idle /\ fromId' = s /\ book' = book \ listed /\ price' = 0
      /\ items' = [k \in 1 .. Len(list) |-> CancelItem(list[k], found(k))]
      /\ orders' = [i \in DOMAIN orders |->
                      IF i \in book \cap listed
                      THEN [orders[i] EXCEPT !.told = CancelState(orders[i].state)]
                      ELSE orders[i]]
      /\ UNCHANGED <<taker, checked, halted>>
  BY DEF BatchCancel
<1>2. list \in Seq(Ids) /\ Len(list) \in Nat
  BY MatchingAssumption
<1>3. \A k \in 1 .. Len(list) : CancelItem(list[k], found(k)) \in Item
  <2>1. SUFFICES ASSUME NEW k \in 1 .. Len(list)
                 PROVE  CancelItem(list[k], found(k)) \in Item
    OBVIOUS
  <2>2. list[k] \in Ids
    BY <1>2
  <2>3. found(k) \in BOOLEAN /\ (found(k) => list[k] \in DOMAIN orders)
    BY DEF IInv, TypeOK
  <2>4. QED
    BY <2>2, <2>3, CancelItemType
<1> HIDE DEF found, listed
<1>4. items' \in Seq(Item)
  BY <1>1, <1>2, <1>3
<1>5. QED
  BY <1>1, <1>4, RemoveStep

-----------------------------------------------------------------------------
(* The invariant of every state.                                           *)

LEMMA InitInvariant ==
  ASSUME Init
  PROVE  IInv
<1>1. DOMAIN orders = {} /\ book = {} /\ taker = None /\ fromId = 0
  BY DEF Init
<1>2. TypeOK
  <2>1. orders \in [DOMAIN orders -> Order]
    BY <1>1 DEF Init
  <2>2. items \in Seq(Item)
    BY DEF Init
  <2>3. QED
    BY <1>1, <2>1, <2>2 DEF Init, TypeOK
<1>3. RestingIsLive /\ BookNotCrossed
  BY <1>1 DEF RestingIsLive, BookNotCrossed, OrderSet
<1>4. BookIsWhatWasTold /\ AmountConserved /\ LimitPriceRespected
  BY <1>1 DEF BookIsWhatWasTold, AmountConserved, LimitPriceRespected
<1>5. SeqOrder /\ TakerIsOpen
  BY <1>1 DEF SeqOrder, TakerIsOpen
<1>6. QED
  BY <1>2, <1>3, <1>4, <1>5 DEF IInv

LEMMA NextInvariant ==
  ASSUME IInv, [Next]_vars
  PROVE  IInv'
<1>1. ASSUME NEW i \in Ids, NEW r \in Requests, ReceiveOrder(i, r) PROVE IInv'
  BY <1>1, ReceiveOrderStep
<1>2. ASSUME NEW i \in Ids, NEW r \in Requests, ReceiveUnsupported(i, r) PROVE IInv'
  BY <1>2, ReceiveUnsupportedStep
<1>3. ASSUME NEW i \in Ids, NEW r \in Requests, SystemCancel(i, r) PROVE IInv'
  BY <1>3, SystemCancelStep
<1>4. ASSUME NEW s \in CancelSeqs, NEW i \in Ids, Cancel(s, i) PROVE IInv'
  BY <1>4, CancelStep
<1>5. ASSUME NEW s \in CancelSeqs, NEW list \in BatchLists, BatchCancel(s, list)
      PROVE  IInv'
  BY <1>5, BatchCancelStep
<1>6. CASE FokCheck
  BY <1>6, FokCheckStep
<1>7. CASE TakerFinished
  BY <1>7, TakerFinishedStep
<1>8. CASE Exhausted
  BY <1>8, ExhaustedStep
<1>9. CASE Enqueue
  BY <1>9, EnqueueStep
<1>10. ASSUME NEW m \in book, CircuitBreak(m) PROVE IInv'
  BY <1>10, CircuitBreakStep
<1>11. ASSUME NEW m \in book, AssertionFails(m) PROVE IInv'
  BY <1>11, HaltStep DEF AssertionFails
<1>12. ASSUME NEW m \in book, PrecisionCancel(m) PROVE IInv'
  BY <1>12, PrecisionCancelStep
<1>13. ASSUME NEW m \in book, Fill(m) PROVE IInv'
  BY <1>13, FillStep
<1>14. ASSUME NEW m \in book, CancelBoth(m) PROVE IInv'
  BY <1>14, CancelBothStep
<1>15. ASSUME NEW m \in book, CancelOld(m) PROVE IInv'
  BY <1>15, CancelOldStep
<1>16. ASSUME NEW m \in book, CancelNew(m) PROVE IInv'
  BY <1>16, CancelNewStep
<1>17. ASSUME NEW m \in book, DecreaseCancel(m) PROVE IInv'
  BY <1>17, DecreaseCancelStep
<1>18. CASE UNCHANGED vars
  <2>1. TypeOK' /\ RestingIsLive' /\ BookNotCrossed'
    BY <1>18 DEF vars, IInv, TypeOK, RestingIsLive, BookNotCrossed, OrderSet, Req
  <2>2. BookIsWhatWasTold' /\ AmountConserved' /\ LimitPriceRespected'
    BY <1>18 DEF vars, IInv, BookIsWhatWasTold, AmountConserved, LimitPriceRespected
  <2>3. SeqOrder' /\ TakerIsOpen'
    BY <1>18 DEF vars, IInv, SeqOrder, TakerIsOpen, Finished
  <2>4. QED
    BY <2>1, <2>2, <2>3 DEF IInv
<1>19. CASE Command
  BY <1>1, <1>2, <1>3, <1>4, <1>5, <1>19 DEF Command
<1>20. CASE Meeting
  BY <1>10, <1>11, <1>12, <1>13, <1>14, <1>15, <1>16, <1>17, <1>20 DEF Meeting
<1>21. QED
  BY <1>6, <1>7, <1>8, <1>9, <1>18, <1>19, <1>20 DEF Next, MatchStep

(* The inductive invariant holds in every reachable state.                 *)
THEOREM Invariant == Spec => []IInv
<1>1. Init => IInv
  BY InitInvariant
<1>2. IInv /\ [Next]_vars => IInv'
  BY NextInvariant
<1>3. QED
  BY <1>1, <1>2, PTL DEF Spec

(* Every variable keeps its type.                                          *)
THEOREM TypeCorrect == Spec => []TypeOK
<1>1. IInv => TypeOK
  BY DEF IInv
<1>2. QED
  BY <1>1, Invariant, PTL

(* Only live limit orders with something left rest in the book.            *)
THEOREM RestingOrdersAreLive == Spec => []RestingIsLive
<1>1. IInv => RestingIsLive
  BY DEF IInv
<1>2. QED
  BY <1>1, Invariant, PTL

(* With one sequence of SeqIds the book never rests crossed.               *)
THEOREM BookNeverCrossed == Spec => []BookNotCrossed
<1>1. IInv => BookNotCrossed
  BY DEF IInv
<1>2. QED
  BY <1>1, Invariant, PTL

(* The state last published for an order says whether it rests.            *)
THEOREM PublishedStateIsBook == Spec => []BookIsWhatWasTold
<1>1. IInv => BookIsWhatWasTold
  BY DEF IInv
<1>2. QED
  BY <1>1, Invariant, PTL

(* Unfilled, filled and self-trade-decreased amounts add up.               *)
THEOREM Conservation == Spec => []AmountConserved
<1>1. IInv => AmountConserved
  BY DEF IInv
<1>2. QED
  BY <1>1, Invariant, PTL

(* No limit order trades through its price.                                *)
THEOREM LimitPriceHonoured == Spec => []LimitPriceRespected
<1>1. IInv => LimitPriceRespected
  BY DEF IInv
<1>2. QED
  BY <1>1, Invariant, PTL

-----------------------------------------------------------------------------
(* The assertions of the engine hold for orders that come from one         *)
(* sequence and have a type that Match knows.                              *)

LEMMA WholeLotsAreAffordable ==
  ASSUME NEW a \in Nat, NEW b \in Nat \ {0}
  PROVE  (a \div b) * b <= a
BY SMT

LEMMA AssertionsHold ==
  ASSUME IInv, NEW m \in book, Meets(m), taker > m
  PROVE  Asserted(m)
<1> DEFINE u == orders[taker].unfilled
           p == Req(m).price
           amount == MatchAmount(taker, m)
           lots == u \div UnitPrice(m)
<1>1. /\ taker # None /\ u \in Nat /\ orders[m].unfilled \in Nat /\ p \in Nat
      /\ UnitPrice(m) \in Nat \ {0} /\ amount \in Nat
      /\ Affordable(taker, m) \in Nat
  BY MeetingTypes
<1>2. amount <= orders[m].unfilled /\ amount <= Affordable(taker, m)
  BY <1>1 DEF MatchAmount, Smaller
<1>3. TakerAmount(taker, m) <= u
  <2>1. CASE ~CashBased(taker)
    BY <1>2, <2>1 DEF TakerAmount, Affordable
  <2>2. CASE CashBased(taker)
    <3>1. Affordable(taker, m) = lots * Lot /\ TakerAmount(taker, m) = amount * p
      BY <2>2 DEF Affordable, TakerAmount
    <3>2. lots \in Nat /\ Lot \in Nat
      BY <1>1, LotsAreNat, MatchingAssumption
    <3>3. amount * p <= (lots * Lot) * p
      <4>1. p * amount <= p * (lots * Lot)
        BY <1>1, <1>2, <3>1, ProductIsMonotone
      <4>2. QED
        BY <1>1, <3>1, <3>2, <4>1
    <3>4. (lots * Lot) * p = lots * (Lot * p)
      BY <1>1, <3>2
    <3>5. lots * UnitPrice(m) <= u
      BY <1>1, WholeLotsAreAffordable
    <3>6. /\ amount * p \in Nat /\ lots * (Lot * p) \in Nat
      BY <1>1, <3>2, ProductIsNat
    <3>7. QED
      BY <1>1, <3>1, <3>3, <3>4, <3>5, <3>6 DEF UnitPrice
  <2>3. QED
    BY <2>1, <2>2
<1>4. QED
  BY <1>2, <1>3 DEF Asserted

SupportedOnly == \A r \in Requests : r.type \notin {"Ioc", "LimitMaker"}

(* No command brings the engine to common.Fatal.                           *)
THEOREM NeverFatal ==
  ASSUME MonotoneSeq, SupportedOnly
  PROVE  Spec => []NoFatal
<1>1. Init => NoFatal
  BY DEF Init, NoFatal
<1>2. ASSUME IInv, NoFatal, [Next]_vars PROVE NoFatal'
  <2>1. ASSUME NEW i \in Ids, NEW r \in Requests PROVE ~ReceiveUnsupported(i, r)
    BY DEF SupportedOnly, ReceiveUnsupported
  <2>2. ASSUME NEW m \in book PROVE ~AssertionFails(m)
    <3>1. SUFFICES ASSUME Meets(m) PROVE Asserted(m)
      BY DEF AssertionFails
    <3>2. taker > m
      BY <1>2, <3>1, MeetingTypes, TakerIsYoungest
    <3>3. QED
      BY <1>2, <3>1, <3>2, AssertionsHold
  <2>3. \A o : Finalize(o) => halted' = halted
    BY DEF Finalize
  <2>4. \A m, t, o, item : Met(m, t, o, item) => halted' = halted
    BY DEF Met
  <2>5. CASE Command
    BY <1>2, <2>1, <2>5 DEF Command, ReceiveOrder, StartMatching, SystemCancel, Cancel, BatchCancel,
       NoFatal
  <2>6. CASE FokCheck \/ TakerFinished \/ Exhausted \/ Enqueue
    BY <1>2, <2>3, <2>6 DEF FokCheck, TakerFinished, Exhausted, Enqueue, NoFatal
  <2>7. ASSUME NEW m \in book, \/ CircuitBreak(m) \/ PrecisionCancel(m) \/ Fill(m)
                               \/ CancelBoth(m) \/ CancelOld(m) \/ CancelNew(m)
                               \/ DecreaseCancel(m)
        PROVE  NoFatal'
    BY <1>2, <2>3, <2>4, <2>7 DEF CircuitBreak, PrecisionCancel, Fill, CancelBoth,
       CancelOld, CancelNew, DecreaseCancel, NoFatal
  <2>8. CASE Meeting
    BY <2>2, <2>7, <2>8 DEF Meeting
  <2>9. CASE UNCHANGED vars
    BY <1>2, <2>9 DEF vars, NoFatal
  <2>10. QED
    BY <1>2, <2>5, <2>6, <2>8, <2>9 DEF Next, MatchStep
<1>3. QED
  BY <1>1, <1>2, Invariant, PTL DEF Spec

(* Without MonotoneSeq the SeqId test of matchAble protects limit orders.  *)
THEOREM LimitOrdersNeverHalt == Spec => []LimitNeverHalts
<1>1. Init => LimitNeverHalts
  BY DEF Init, LimitNeverHalts
<1>2. ASSUME IInv, LimitNeverHalts, [Next]_vars PROVE LimitNeverHalts'
  <2>1. ASSUME NEW m \in book, AssertionFails(m) PROVE Req(taker).type # "Limit"
    <3>1. SUFFICES ASSUME Req(taker).type = "Limit" PROVE FALSE
      OBVIOUS
    <3>2. Meets(m)
      BY <2>1 DEF AssertionFails
    <3>3. taker > m
      BY <3>1, <3>2 DEF Meets, MatchAble
    <3>4. QED
      BY <1>2, <2>1, <3>2, <3>3, AssertionsHold DEF AssertionFails
  <2>2. CASE Command
    BY <2>2 DEF Command, ReceiveOrder, StartMatching, ReceiveUnsupported, SystemCancel, Cancel,
       BatchCancel, Idle, LimitNeverHalts
  <2>3. CASE FokCheck \/ TakerFinished \/ Exhausted \/ Enqueue
    BY <2>3 DEF FokCheck, TakerFinished, Exhausted, Enqueue, InLoop, Finalize,
       LimitNeverHalts
  <2>4. ASSUME NEW m \in book, \/ CircuitBreak(m) \/ PrecisionCancel(m) \/ Fill(m)
                               \/ CancelBoth(m) \/ CancelOld(m) \/ CancelNew(m)
                               \/ DecreaseCancel(m)
        PROVE  ~halted'
    <3>1. ~halted
      BY <2>4 DEF CircuitBreak, PrecisionCancel, Fill, CancelBoth, CancelOld, CancelNew,
         DecreaseCancel, SelfTrade, Meets, AtHead, InLoop
    <3>2. halted' = halted
      BY <2>4 DEF CircuitBreak, PrecisionCancel, Fill, CancelBoth, CancelOld, CancelNew,
         DecreaseCancel, Finalize, Met
    <3>3. QED
      BY <3>1, <3>2
  <2>5. ASSUME NEW m \in book, AssertionFails(m) PROVE LimitNeverHalts'
    BY <2>1, <2>5 DEF AssertionFails, LimitNeverHalts, Req
  <2>6. CASE Meeting
    BY <2>4, <2>5, <2>6 DEF Meeting, LimitNeverHalts
  <2>7. CASE UNCHANGED vars
    BY <1>2, <2>7 DEF vars, LimitNeverHalts, Req
  <2>8. QED
    BY <1>2, <2>2, <2>3, <2>6, <2>7 DEF Next, MatchStep
<1>3. QED
  BY <1>1, <1>2, Invariant, PTL DEF Spec
=============================================================================
