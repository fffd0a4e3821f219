------------------------------ MODULE Matching ------------------------------
(***************************************************************************)
(* The order book and the matching engine of one trading pair              *)
(* (src/internal/core/match): GenMatchResult takes one command at a time,  *)
(* a trading order or a cancellation, and matches it against the resting   *)
(* orders.  One iteration of a `for` loop of matchLimit, matchMarket or    *)
(* matchFok is one action; no command is taken while an order is matched.  *)
(*                                                                         *)
(* An order is identified by its SeqId: OrderId is unique per order and    *)
(* the engine never relates the two, so one number stands for both.        *)
(* Amounts, prices and rates are integers: multiples of the symbol's scale *)
(* (CheckOrderScale turns any other order into a SystemCancel).            *)
(*                                                                         *)
(* An operator whose name ends in _Slip is the definition after it with a  *)
(* plausible mistake.  Nothing uses it: it serves to confirm that a run    *)
(* would notice that mistake.                                              *)
(***************************************************************************)
EXTENDS Integers, Sequences, FiniteSets, FiniteSetsExt

CONSTANTS
  Ids,          \* the SeqIds (and OrderIds) commands may carry
  Users,        \* user ids
  Requests,     \* the trading orders that may be submitted, a set of records
  Lot,          \* common.LOWPRECISION: the smallest amount a market buy takes
  BatchLists,   \* the id lists a batch cancellation may carry (order.Extra)
  RateUnit,     \* a CircuitRate r stands for the fraction r / RateUnit
  MonotoneSeq   \* TRUE: SeqIds come from one sequence (the database puller);
                \* FALSE: clients choose them (the DEX order channel)

None == 0       \* no order is being matched

Sides == {"Buy", "Sell"}
StpModes == {"AST", "DC", "CO", "CN", "CB"}
OrderTypes == {"Market", "Limit", "Fok", "Ioc", "LimitMaker", "SystemCancel"}

(* What a client may ask for; AST (self trade allowed) is Stp = 0.         *)
Request == [side: Sides, type: OrderTypes, user: Users, stp: StpModes,
            rate: Nat, price: Nat, amount: Nat]

ASSUME MatchingAssumption ==
  /\ Ids \subseteq Nat \ {0}
  /\ Lot \in Nat \ {0}
  /\ RateUnit \in Nat \ {0}
  /\ MonotoneSeq \in BOOLEAN
  /\ BatchLists \subseteq Seq(Ids)
  /\ Requests \subseteq Request
  /\ \A r \in Requests : /\ r.amount > 0
                         /\ r.type # "Market" => r.price > 0

(* OrderState, and the state strings of an OrderResult.                    *)
OrderStates == {"Submitted", "PartialFilled", "Filled", "Canceled",
                "CircuitCanceled", "PrecisionCanceled", "SelfTradeCanceled",
                "SelfTradePartialCanceled", "SelfTradeDecreased"}
ResultStates == {"submitted", "partial-filled", "filled", "canceled",
                 "partial-canceled", "failed", "circuit-canceled",
                 "precision-canceled", "self-trade-canceled",
                 "self-trade-partial-canceled", "self-trade-decreased", ""}

(* An order as the engine holds it.  The last two fields only serve the    *)
(* properties: what self-trade prevention took off the unfilled amount,    *)
(* and the state last published for the order ("" before the first).       *)
Order == [req: Requests, unfilled: Nat, acc: Nat, value: Nat,
          state: OrderStates, decreased: Nat, told: ResultStates]

(* An OrderResult of a MatchResult.  For a maker, amount is FilledAmount;  *)
(* for a taker, UnfilledAmount.                                            *)
Item == [id: Ids, role: {"maker", "taker"}, amount: Nat, price: Nat,
         acc: Nat, value: Nat, state: ResultStates]

VARIABLES
  orders,   \* every trading order received so far, by id
  book,     \* the ids of the resting orders: cache, BuySet and SellSet
  fromId,   \* OrderBook.FromId
  taker,    \* the order being matched, or None
  checked,  \* a FOK taker has passed canFilledFokOrder
  items,    \* MatchResult.Items of the current or last command
  price,    \* MatchResult.Price
  halted    \* common.Fatal was called: the process has exited

vars == <<orders, book, fromId, taker, checked, items, price, halted>>

(***************************************************************************)
(* Reading the book.                                                       *)
(***************************************************************************)
Req(i) == orders[i].req

OppoSide(side) == IF side = "Buy" THEN "Sell" ELSE "Buy"

OrderSet(side) == {i \in book : Req(i).side = side}

OppoSet(i) == OrderSet(OppoSide(Req(i).side))

Precedes_DearestFirst_Slip(i, j) ==
  \/ Req(i).price > Req(j).price
  \/ Req(i).price = Req(j).price /\ i < j

(* Comparator: price first, then SeqId.                                    *)
Precedes(i, j) ==
  \/ /\ Req(i).side = "Buy"
     /\ Req(i).price > Req(j).price
  \/ /\ Req(i).side = "Sell"
     /\ Req(i).price < Req(j).price
  \/ /\ Req(i).price = Req(j).price
     /\ i < j

IsHead_AnyOrder_Slip(m, S) == m \in S

(* Peek: m is the first order of the set.                                  *)
IsHead(m, S) == m \in S /\ \A n \in S \ {m} : Precedes(m, n)

MatchAble_NoSeqGuard_Slip(i, m) ==
  IF Req(i).side = "Buy" THEN Req(i).price >= Req(m).price
                         ELSE Req(i).price <= Req(m).price

MatchAble_OneSided_Slip(i, m) == i > m /\ Req(i).price >= Req(m).price

(* matchAble: a limit order meets the head of the other side.              *)
MatchAble(i, m) ==
  /\ i > m
  /\ IF Req(i).side = "Buy" THEN Req(i).price >= Req(m).price
                            ELSE Req(i).price <= Req(m).price

(* 1 - rate and 1 + rate of the reference price, both bounds excluded.     *)
BelowCircuit(rate, ref, p) == (RateUnit - rate) * ref >= RateUnit * p
AboveCircuit(rate, ref, p) == (RateUnit + rate) * ref <= RateUnit * p

OutOfCircuit_OnlyBelow_Slip(i, m) ==
  /\ items # <<>>
  /\ Req(i).rate # 0
  /\ BelowCircuit(Req(i).rate, items[1].price, Req(m).price)

(* The circuit test of matchMarket and matchFok: against the price of the  *)
(* first result of this command, whatever that result says.                *)
OutOfCircuit(i, m) ==
  /\ items # <<>>
  /\ Req(i).rate # 0
  /\ \/ BelowCircuit(Req(i).rate, items[1].price, Req(m).price)
     \/ AboveCircuit(Req(i).rate, items[1].price, Req(m).price)

FokFillable_NoCircuit_Slip(i) ==
  LET within(m) == IF Req(i).side = "Sell" THEN Req(m).price >= Req(i).price
                                           ELSE Req(m).price <= Req(i).price
  IN  MapThenSumSet(LAMBDA m : orders[m].unfilled, {m \in OppoSet(i) : within(m)})
        >= orders[i].unfilled

FokFillable_NoPrice_Slip(i) ==
  MapThenSumSet(LAMBDA m : orders[m].unfilled, OppoSet(i)) >= orders[i].unfilled

(* canFilledFokOrder: the iterator adds up the other side from its head    *)
(* and stops at the first order outside the price limit or the circuit;    *)
(* both tests are monotone in the price, so the orders it adds up are the  *)
(* ones that pass them.                                                    *)
Within(i, best) ==
  {m \in OppoSet(i) :
     IF Req(i).side = "Sell"
     THEN /\ Req(m).price >= Req(i).price
          /\ Req(i).rate # 0 => ~BelowCircuit(Req(i).rate, best, Req(m).price)
     ELSE /\ Req(m).price <= Req(i).price
          /\ Req(i).rate # 0 => ~AboveCircuit(Req(i).rate, best, Req(m).price)}

UnfilledOf(os, S) == MapThenSumSet(LAMBDA m : os[m].unfilled, S)

Covered(i, best) == UnfilledOf(orders, Within(i, best)) >= orders[i].unfilled

FokFillable(i) ==
  LET S == OppoSet(i) IN Covered(i, Req(CHOOSE m \in S : IsHead(m, S)).price)

(***************************************************************************)
(* Amounts.  A market buy carries cash, every other order an amount.       *)
(***************************************************************************)
CashBased(i) == Req(i).type = "Market" /\ Req(i).side = "Buy"

Smaller(a, b) == IF a <= b THEN a ELSE b

UnitPrice(m) == Lot * Req(m).price

(* What the taker could take at the maker's price.                         *)
Affordable(i, m) ==
  IF CashBased(i) THEN (orders[i].unfilled \div UnitPrice(m)) * Lot
                  ELSE orders[i].unfilled

MatchAmount_TakerOnly_Slip(i, m) == Affordable(i, m)

MatchAmount(i, m) == Smaller(Affordable(i, m), orders[m].unfilled)

TakerAmount_NoCash_Slip(i, m) == MatchAmount(i, m)

(* The matched amount in the unit of the taker's UnfilledAmount.           *)
TakerAmount(i, m) ==
  IF CashBased(i) THEN MatchAmount(i, m) * Req(m).price ELSE MatchAmount(i, m)

Filled_Overwrites_Slip(o, amount, p) ==
  [o EXCEPT !.unfilled = @ - amount,
            !.acc = amount,
            !.value = amount * p,
            !.state = IF o.unfilled = amount THEN "Filled" ELSE "PartialFilled"]

(* fillAmount *)
Filled(o, amount, p) ==
  [o EXCEPT !.unfilled = @ - amount,
            !.acc = @ + amount,
            !.value = @ + amount * p,
            !.state = IF o.unfilled = amount THEN "Filled" ELSE "PartialFilled"]

(* stOrderState and stOppoOrderState *)
SelfTradeState(s) ==
  CASE s \in {"SelfTradeDecreased", "PartialFilled"} -> "SelfTradePartialCanceled"
    [] s = "Submitted" -> "SelfTradeCanceled"
    [] OTHER -> s

SelfTradeCancel(o) == [o EXCEPT !.state = SelfTradeState(@)]

SelfTradeDecrease(o, amount) ==
  [o EXCEPT !.unfilled = @ - amount,
            !.decreased = @ + amount,
            !.state = "SelfTradeDecreased"]

Finished_NoPartial_Slip(o) == o.state \in {"Filled", "SelfTradeCanceled"}

Finished(o) ==
  o.state \in {"Filled", "SelfTradeCanceled", "SelfTradePartialCanceled"}

(***************************************************************************)
(* What is published: the items of the MatchResult.                        *)
(***************************************************************************)
StateName ==
  [Submitted |-> "submitted", PartialFilled |-> "partial-filled",
   Filled |-> "filled", Canceled |-> "canceled",
   CircuitCanceled |-> "circuit-canceled",
   PrecisionCanceled |-> "precision-canceled",
   SelfTradeCanceled |-> "self-trade-canceled",
   SelfTradePartialCanceled |-> "self-trade-partial-canceled",
   SelfTradeDecreased |-> "self-trade-decreased"]

(* finalizeTakerMarket, finalizeTakerLimit, finalizeTakerFok: a state that *)
(* has no case leaves the string empty.                                    *)
TakerState(type, s) ==
  CASE type = "Market" /\ s = "Submitted" -> "canceled"
    [] type = "Market" /\ s \in {"PartialFilled", "SelfTradeDecreased"}
         -> "partial-canceled"
    [] type = "Fok" /\ s = "Submitted" -> "canceled"
    [] type = "Fok" /\ s \in {"Canceled", "CircuitCanceled", "PrecisionCanceled"}
         -> ""
    [] OTHER -> StateName[s]

(* finalizeTaker: for a buy order AccFilledAmountValue is the accumulated  *)
(* amount (the cash spent, for a market order).                            *)
TakerItem(i, o) ==
  [id |-> i, role |-> "taker", amount |-> o.unfilled,
   price |-> IF o.req.type = "Market" THEN 0 ELSE o.req.price,
   acc |-> o.acc,
   value |-> IF o.req.side = "Buy" THEN o.acc ELSE o.value,
   state |-> TakerState(o.req.type, o.state)]

FillItem(m, o, amount) ==
  [id |-> m, role |-> "maker", amount |-> amount, price |-> o.req.price,
   acc |-> o.acc, value |-> o.value, state |-> StateName[o.state]]

(* A self-trade result carries no accumulated amounts.                     *)
SelfTradeItem(m, o, amount) ==
  [FillItem(m, o, amount) EXCEPT !.acc = 0, !.value = 0]

CancelState_KeepsPartial_Slip(s) ==
  CASE s = "Submitted" -> "canceled"
    [] s = "PartialFilled" -> "partial-filled"
    [] s = "SelfTradeDecreased" -> "partial-canceled"
    [] s = "Filled" -> "filled"
    [] OTHER -> ""

(* matchCancel and matchBatchCancel *)
CancelState(s) ==
  CASE s = "Submitted" -> "canceled"
    [] s \in {"PartialFilled", "SelfTradeDecreased"} -> "partial-canceled"
    [] s = "Filled" -> "filled"
    [] OTHER -> ""

CancelItem(i, found) ==
  [id |-> i, role |-> "taker",
   amount |-> IF found THEN orders[i].unfilled ELSE 0,
   price |-> 0, acc |-> 0, value |-> 0,
   state |-> IF found THEN CancelState(orders[i].state) ELSE "failed"]

(***************************************************************************)
(* Receiving a command: GenMatchResult sets FromId and Match dispatches.   *)
(***************************************************************************)
Idle == taker = None /\ ~halted

(* The SeqId of a new order: the next of the sequence, or any new one.     *)
FreshSeq(i) ==
  /\ i \in Ids \ DOMAIN orders
  /\ MonotoneSeq => i > fromId

(* The SeqId of a cancellation: the DEX channel leaves it 0.               *)
CancelSeqs == IF MonotoneSeq THEN {s \in Ids : FreshSeq(s)} ELSE {0}

Incoming(r) ==
  [req |-> r, unfilled |-> r.amount, acc |-> 0, value |-> 0,
   state |-> "Submitted", decreased |-> 0, told |-> ""]

Record(i, o) ==
  orders' = [j \in DOMAIN orders \cup {i} |-> IF j = i THEN o ELSE orders[j]]

(* GenMatchResult and Match, whatever was received before.                 *)
StartMatching(i, r) ==
  /\ Record(i, Incoming(r))
  /\ fromId' = i
  /\ taker' = i
  /\ items' = <<>>
  /\ price' = 0
  /\ UNCHANGED <<book, checked, halted>>

ReceiveOrder(i, r) ==
  /\ Idle
  /\ FreshSeq(i)
  /\ r.type \in {"Market", "Limit", "Fok"}
  /\ StartMatching(i, r)

(* Match has no case for Ioc and LimitMaker: common.Fatal.                 *)
ReceiveUnsupported(i, r) ==
  /\ Idle
  /\ FreshSeq(i)
  /\ r.type \in {"Ioc", "LimitMaker"}
  /\ Record(i, Incoming(r))
  /\ fromId' = i
  /\ halted' = TRUE
  /\ UNCHANGED <<book, taker, checked, items, price>>

(* matchSystemCancel: the order is answered and never reaches the book.    *)
SystemCancel(i, r) ==
  /\ Idle
  /\ FreshSeq(i)
  /\ r.type = "SystemCancel"
  /\ Record(i, [Incoming(r) EXCEPT !.told = "canceled"])
  /\ fromId' = i
  /\ items' = <<[TakerItem(i, Incoming(r)) EXCEPT
                    !.price = 0, !.value = 0, !.state = "canceled"]>>
  /\ price' = 0
  /\ UNCHANGED <<book, taker, checked, halted>>

(* matchCancel *)
Cancel(s, i) ==
  /\ Idle
  /\ s \in CancelSeqs
  /\ fromId' = s
  /\ items' = <<CancelItem(i, i \in book)>>
  /\ book' = book \ {i}
  /\ orders' = IF i \in book
               THEN [orders EXCEPT ![i].told = CancelState(orders[i].state)]
               ELSE orders
  /\ price' = 0
  /\ UNCHANGED <<taker, checked, halted>>

(* matchBatchCancel: the ids of the list in turn; one that is named twice  *)
(* is no longer found the second time.                                     *)
BatchCancel(s, list) ==
  LET found(k) == list[k] \in book /\ \A j \in 1 .. k - 1 : list[j] # list[k]
      listed == {list[k] : k \in 1 .. Len(list)}
  IN  /\ Idle
      /\ s \in CancelSeqs
      /\ fromId' = s
      /\ items' = [k \in 1 .. Len(list) |-> CancelItem(list[k], found(k))]
      /\ book' = book \ listed
      /\ orders' = [i \in DOMAIN orders |->
                      IF i \in book \cap listed
                      THEN [orders[i] EXCEPT !.told = CancelState(orders[i].state)]
                      ELSE orders[i]]
      /\ price' = 0
      /\ UNCHANGED <<taker, checked, halted>>

(***************************************************************************)
(* The end of a match: the taker's own result closes the MatchResult.      *)
(***************************************************************************)
Finalize(o) ==
  /\ orders' = [orders EXCEPT ![taker] =
                  [o EXCEPT !.told = TakerState(o.req.type, o.state)]]
  /\ items' = Append(items, TakerItem(taker, o))
  /\ taker' = None
  /\ checked' = FALSE
  /\ UNCHANGED <<fromId, price, halted>>

(* canFilledFokOrder runs once, before the loop of matchFok.               *)
FokCheck ==
  /\ taker # None /\ ~halted
  /\ Req(taker).type = "Fok" /\ ~checked
  /\ IF FokFillable(taker)
     THEN /\ checked' = TRUE
          /\ UNCHANGED <<orders, book, fromId, taker, items, price, halted>>
     ELSE Finalize(orders[taker]) /\ UNCHANGED book

InLoop ==
  /\ taker # None /\ ~halted
  /\ Req(taker).type = "Fok" => checked

TakerFinished ==
  /\ InLoop
  /\ Finished(orders[taker])
  /\ Finalize(orders[taker])
  /\ UNCHANGED book

Exhausted_FokOnly_Slip ==
  /\ InLoop
  /\ ~Finished(orders[taker])
  /\ Req(taker).type = "Fok"
  /\ OppoSet(taker) = {}
  /\ Finalize([orders[taker] EXCEPT !.state = "Canceled"])
  /\ UNCHANGED book

(* A market or FOK order that has used up the other side.                  *)
Exhausted ==
  /\ InLoop
  /\ ~Finished(orders[taker])
  /\ Req(taker).type \in {"Market", "Fok"}
  /\ OppoSet(taker) = {}
  /\ Finalize(IF Req(taker).type = "Fok"
              THEN [orders[taker] EXCEPT !.state = "Canceled"]
              ELSE orders[taker])
  /\ UNCHANGED book

(* Enqueue: a limit order that meets nothing more rests.                   *)
Enqueue ==
  /\ InLoop
  /\ ~Finished(orders[taker])
  /\ Req(taker).type = "Limit"
  /\ \/ OppoSet(taker) = {}
     \/ \E m \in OppoSet(taker) : /\ IsHead(m, OppoSet(taker))
                                  /\ ~MatchAble(taker, m)
  /\ book' = book \cup {taker}
  /\ Finalize(orders[taker])

(***************************************************************************)
(* One meeting with the head of the other side.                            *)
(***************************************************************************)
AtHead(m) ==
  /\ InLoop
  /\ ~Finished(orders[taker])
  /\ IsHead(m, OppoSet(taker))

CircuitBreak(m) ==
  /\ AtHead(m)
  /\ Req(taker).type \in {"Market", "Fok"}
  /\ OutOfCircuit(taker, m)
  /\ Finalize([orders[taker] EXCEPT !.state = "CircuitCanceled"])
  /\ UNCHANGED book

(* matchOrder is called.                                                   *)
Meets(m) ==
  /\ AtHead(m)
  /\ IF Req(taker).type = "Limit" THEN MatchAble(taker, m)
                                  ELSE ~OutOfCircuit(taker, m)

SelfTrading(m) == Req(taker).user = Req(m).user /\ Req(taker).stp # "AST"

TooPrecise(m) == CashBased(taker) /\ UnitPrice(m) > orders[taker].unfilled

(* The assertions on the way to a fill: the SeqIds are in order, and the   *)
(* matched amount exceeds neither order.                                   *)
Asserted(m) ==
  /\ taker > m
  /\ ~TooPrecise(m) => /\ MatchAmount(taker, m) <= orders[m].unfilled
                       /\ TakerAmount(taker, m) <= orders[taker].unfilled

AssertionFails(m) ==
  /\ Meets(m)
  /\ ~Asserted(m)
  /\ halted' = TRUE
  /\ UNCHANGED <<orders, book, fromId, taker, checked, items, price>>

(* matchCashAmountBasedOrder: the cash left does not buy one lot.          *)
PrecisionCancel(m) ==
  /\ Meets(m) /\ Asserted(m)
  /\ TooPrecise(m)
  /\ Finalize([orders[taker] EXCEPT !.state = "PrecisionCanceled"])
  /\ UNCHANGED book

Met_NoDequeue_Slip(m, takerOrder, makerOrder, item) ==
  /\ orders' = [orders EXCEPT ![taker] = takerOrder,
                              ![m] = [makerOrder EXCEPT !.told = item.state]]
  /\ items' = Append(items, item)
  /\ UNCHANGED <<book, fromId, taker, checked, halted>>

(* Both orders after a meeting; a maker that is done leaves the book.      *)
Met(m, takerOrder, makerOrder, item) ==
  /\ orders' = [orders EXCEPT ![taker] = takerOrder,
                              ![m] = [makerOrder EXCEPT !.told = item.state]]
  /\ book' = IF Finished(makerOrder) THEN book \ {m} ELSE book
  /\ items' = Append(items, item)
  /\ UNCHANGED <<fromId, taker, checked, halted>>

(* matchAmountBasedOrder and matchCashAmountBasedOrder                     *)
Fill(m) ==
  LET amount == MatchAmount(taker, m)
      maker == Filled(orders[m], amount, Req(m).price)
  IN  /\ Meets(m) /\ Asserted(m)
      /\ ~TooPrecise(m) /\ ~SelfTrading(m)
      /\ Met(m, Filled(orders[taker], TakerAmount(taker, m), Req(m).price),
             maker, FillItem(m, maker, amount))
      /\ price' = Req(m).price

SelfTrade(m, mode) ==
  /\ Meets(m) /\ Asserted(m)
  /\ ~TooPrecise(m) /\ SelfTrading(m)
  /\ Req(taker).stp = mode
  /\ UNCHANGED price

CancelBoth(m) ==
  LET maker == SelfTradeCancel(orders[m])
  IN  /\ SelfTrade(m, "CB")
      /\ Met(m, SelfTradeCancel(orders[taker]), maker,
             SelfTradeItem(m, maker, maker.unfilled))

CancelOld(m) ==
  LET maker == SelfTradeCancel(orders[m])
  IN  /\ SelfTrade(m, "CO")
      /\ Met(m, orders[taker], maker, SelfTradeItem(m, maker, maker.unfilled))

(* The maker stays as it is and no result is published for it.             *)
CancelNew(m) ==
  /\ SelfTrade(m, "CN")
  /\ orders' = [orders EXCEPT ![taker] = SelfTradeCancel(@)]
  /\ UNCHANGED <<book, fromId, taker, checked, items, halted>>

(* DC: the smaller order is cancelled and the other decreased; two equal   *)
(* orders are both cancelled, unless cash is left on a market buy.         *)
DecreaseCancel(m) ==
  LET amount == MatchAmount(taker, m)
      cost == TakerAmount(taker, m)
      left == orders[taker].unfilled > cost
      cap == Affordable(taker, m)
      size == orders[m].unfilled
      oldCanceled == SelfTradeCancel(orders[m])
      oldDecreased == SelfTradeDecrease(orders[m], amount)
      newCanceled == SelfTradeCancel(orders[taker])
      newDecreased == SelfTradeDecrease(orders[taker], cost)
  IN  /\ SelfTrade(m, "DC")
      /\ \/ /\ cap > size \/ (cap = size /\ left)
            /\ Met(m, newDecreased, oldCanceled,
                   SelfTradeItem(m, oldCanceled, amount))
         \/ /\ cap = size /\ ~left
            /\ Met(m, newCanceled, oldCanceled,
                   SelfTradeItem(m, oldCanceled, amount))
         \/ /\ cap < size
            /\ Met(m, newCanceled, oldDecreased,
                   SelfTradeItem(m, oldDecreased, amount))

(***************************************************************************)
(* The specification.                                                      *)
(***************************************************************************)
Init ==
  /\ orders = [i \in {} |-> {}]
  /\ book = {}
  /\ fromId = 0
  /\ taker = None
  /\ checked = FALSE
  /\ items = <<>>
  /\ price = 0
  /\ halted = FALSE

Command ==
  \/ \E i \in Ids, r \in Requests : \/ ReceiveOrder(i, r)
                                    \/ ReceiveUnsupported(i, r)
                                    \/ SystemCancel(i, r)
  \/ \E s \in CancelSeqs, i \in Ids : Cancel(s, i)
  \/ \E s \in CancelSeqs, list \in BatchLists : BatchCancel(s, list)

Meeting ==
  \E m \in book : \/ CircuitBreak(m)
                  \/ AssertionFails(m)
                  \/ PrecisionCancel(m)
                  \/ Fill(m)
                  \/ CancelBoth(m)
                  \/ CancelOld(m)
                  \/ CancelNew(m)
                  \/ DecreaseCancel(m)

MatchStep == FokCheck \/ TakerFinished \/ Exhausted \/ Enqueue \/ Meeting

Next == Command \/ MatchStep

Spec == Init /\ [][Next]_vars

(* The matcher goroutine is in its loop until the command is done.         *)
FairSpec == Spec /\ WF_vars(MatchStep)

(***************************************************************************)
(* Properties.                                                             *)
(***************************************************************************)
TypeOK ==
  /\ DOMAIN orders \subseteq Ids
  /\ orders \in [DOMAIN orders -> Order]
  /\ book \subseteq DOMAIN orders
  /\ fromId \in Ids \cup {0}
  /\ taker \in DOMAIN orders \cup {None}
  /\ checked \in BOOLEAN
  /\ items \in Seq(Item)
  /\ price \in Nat
  /\ halted \in BOOLEAN

OpenStates == {"Submitted", "PartialFilled", "SelfTradeDecreased"}
OpenResults == {"submitted", "partial-filled", "self-trade-decreased"}

(* Only live limit orders rest: nothing filled, cancelled or empty stays   *)
(* in cache, BuySet or SellSet.  A spent order at the head of its side     *)
(* would be matched for nothing for ever, and stOppoOrderState and         *)
(* matchCancel have no case for its state.                                 *)
RestingIsLive ==
  \A i \in book : /\ Req(i).type = "Limit"
                  /\ orders[i].state \in OpenStates
                  /\ orders[i].unfilled > 0

(* With one sequence of SeqIds the book never rests crossed: matchLimit    *)
(* rests an order only when the head of the other side does not meet it.   *)
BookNotCrossed ==
  MonotoneSeq =>
    \A b \in OrderSet("Buy"), a \in OrderSet("Sell") : Req(b).price < Req(a).price

(* Everything downstream (the database, the market data, the settlement)   *)
(* sees an order only through its results: the state last published says   *)
(* that it rests exactly when it does.                                     *)
BookIsWhatWasTold ==
  \A i \in DOMAIN orders \ {taker} :
    i \in book <=> orders[i].told \in OpenResults

(* Whatever sequence of fills an order goes through, as taker at the       *)
(* makers' prices and then as maker at its own, it never pays more, nor    *)
(* gets less, than its limit price for what was filled.                    *)
LimitPriceRespected ==
  \A i \in DOMAIN orders :
    LET o == orders[i] IN
    o.req.type = "Limit" =>
      IF o.req.side = "Buy" THEN o.value <= o.acc * o.req.price
                            ELSE o.value >= o.acc * o.req.price

(* No amount appears or is lost: what is unfilled, what was filled and     *)
(* what self-trade prevention took off add up to what was ordered.         *)
AmountConserved ==
  \A i \in DOMAIN orders :
    LET o == orders[i] IN o.unfilled + o.acc + o.decreased = o.req.amount

FillItems == {k \in DOMAIN items : /\ items[k].role = "maker"
                                   /\ items[k].state \in {"filled", "partial-filled"}}

AmountOf(list, S) == MapThenSumSet(LAMBDA k : list[k].amount, S)
ValueOf(list, S) == MapThenSumSet(LAMBDA k : list[k].amount * list[k].price, S)

(* While an order is matched, what it got is what the published maker      *)
(* results gave, in amount and in value: fillAmount of the two orders and  *)
(* the results are written in three places.                                *)
TakerGetsWhatMakersGive ==
  taker # None =>
    LET o == orders[taker]
        amount == AmountOf(items, FillItems)
        value == ValueOf(items, FillItems)
    IN  IF CashBased(taker) THEN o.acc = value
                            ELSE o.acc = amount /\ o.value = value

(* The market and FOK orders of matchMarket and matchFok trade only within *)
(* the circuit around their first trade, whichever results came before it. *)
CircuitBound ==
  (taker # None /\ Req(taker).rate # 0 /\ Req(taker).type # "Limit") =>
    \A j, k \in FillItems :
      j < k => /\ ~BelowCircuit(Req(taker).rate, items[j].price, items[k].price)
               /\ ~AboveCircuit(Req(taker).rate, items[j].price, items[k].price)

(* A FOK order that is done was filled whole or not at all.                *)
FokAllOrNothing ==
  \A i \in DOMAIN orders \ {taker} :
    Req(i).type = "Fok" => orders[i].acc \in {0, Req(i).amount}

(* matchFok has no price test in its loop: canFilledFokOrder alone keeps a *)
(* FOK order within its price limit.                                       *)
FokPriceRespected ==
  \A i \in DOMAIN orders :
    LET o == orders[i] IN
    o.req.type = "Fok" =>
      IF o.req.side = "Buy" THEN o.value <= o.acc * o.req.price
                            ELSE o.value >= o.acc * o.req.price

(* No legal command brings the engine to one of its assertions.            *)
NoFatal == ~halted

(* Where clients choose their SeqIds an order may be older than the orders  *)
(* it finds in the book; matchAble keeps such a limit order away from the  *)
(* SeqId assertion of matchOrder, which would end the process.  Once the   *)
(* process has ended on an order being matched, it is not a limit order.   *)
LimitNeverHalts ==
  halted /\ taker # None => Req(taker).type # "Limit"

(* What the proofs add to the invariants above.  With one sequence no      *)
(* order is younger than FromId, and the taker is the youngest; the taker  *)
(* is not in the book, and a limit taker that is not done has something    *)
(* left; canFilledFokOrder comes before anything happens to a FOK order.   *)
SeqOrder ==
  MonotoneSeq => /\ \A i \in DOMAIN orders : i <= fromId
                 /\ taker # None => taker = fromId

TakerIsOpen ==
  taker # None =>
    LET o == orders[taker] IN
    /\ taker \notin book
    /\ o.req.type \in {"Market", "Limit", "Fok"}
    /\ o.state \in OpenStates \/ Finished(o)
    /\ o.req.type = "Limit" /\ o.state \in OpenStates => o.unfilled > 0
    /\ o.req.type = "Fok" /\ ~checked => o.state = "Submitted"

(* Together these are preserved by every step of the engine.               *)
IInv ==
  /\ TypeOK
  /\ RestingIsLive
  /\ BookNotCrossed
  /\ BookIsWhatWasTold
  /\ AmountConserved
  /\ LimitPriceRespected
  /\ SeqOrder
  /\ TakerIsOpen

(* What the proofs of the circuit and FOK properties add.  The results an  *)
(* order has so far are those of the makers it met, at prices that only    *)
(* get worse for it, as are those of the makers left; with a circuit, none *)
(* is out of that of the first; without self-trade prevention, each is a   *)
(* fill.                                                                   *)
NoBetter(side, p, q) == IF side = "Buy" THEN p <= q ELSE p >= q

MetInOrder ==
  taker # None =>
    LET r == Req(taker) IN
    /\ \A k \in DOMAIN items :
         /\ items[k].role = "maker" /\ items[k].price > 0
         /\ \A m \in OppoSet(taker) : NoBetter(r.side, items[k].price, Req(m).price)
         /\ \A j \in 1 .. k : NoBetter(r.side, items[j].price, items[k].price)
         /\ (k > 1 /\ r.type # "Limit" /\ r.rate # 0) =>
              /\ ~BelowCircuit(r.rate, items[1].price, items[k].price)
              /\ ~AboveCircuit(r.rate, items[1].price, items[k].price)
    /\ r.stp = "AST" => FillItems = DOMAIN items

(* Once canFilledFokOrder has accepted a FOK order, the orders left that   *)
(* are within its price limit and its circuit cover what is left of it.    *)
FokCovered ==
  /\ checked => taker # None /\ Req(taker).type = "Fok"
  /\ (taker # None /\ Req(taker).type = "Fok") =>
       LET o == orders[taker] IN
       /\ o.decreased = 0
       /\ o.state = "Filled" => o.unfilled = 0
       /\ o.state # "Filled" => o.state \in {"Submitted", "PartialFilled"} /\ o.unfilled > 0
       /\ ~checked => o.acc = 0 /\ items = <<>>
       /\ checked /\ o.state # "Filled" =>
            IF items = <<>> THEN FokFillable(taker)
                            ELSE Covered(taker, items[1].price)

(* FOK orders that do not ask for self-trade prevention.                   *)
FokWithoutStp == \A r \in Requests : r.type = "Fok" => r.stp = "AST"

TakerInv ==
  /\ IsFiniteSet(DOMAIN orders)
  /\ MetInOrder
  /\ TakerGetsWhatMakersGive
  /\ FokWithoutStp => FokCovered /\ FokAllOrNothing /\ FokPriceRespected

(* The loops end: every order taken is answered, and the next is taken.    *)
EveryOrderAnswered == (taker # None) ~> (taker = None)
=============================================================================
