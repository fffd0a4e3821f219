------------------------------ MODULE AleoDex -------------------------------
(***************************************************************************)
(* The Aleo engine as a whole: clients post and cancel orders, the event   *)
(* loop and the matcher goroutine of one pair run the matching engine,     *)
(* settlement and retry loop execute transactions on the chain.            *)
(***************************************************************************)
EXTENDS AleoCancel

vars == <<ledgerVars, poolVars, settleVars, cancelVars>>

Init == LedgerInit /\ PoolInit /\ SettlementInit /\ CancelInit

Client(i) == PostOrder(i) \/ RecordSubmit(i)

EventLoop == Receive \/ Send \/ Complete

MatcherStep == Take \/ Match \/ RecordMatch

SettleBatch == StartItem \/ SettlePair("matcher") \/ FinishItem

RetryLoop == RetryRound \/ RetryStart \/ SettlePair("retry") \/ RetryFinish

CancelHandler(i) ==
  \/ CancelRequest(i)
  \/ Refund(i)
  \/ CancelOnChain(i)
  \/ VerifyCanceled(i)
  \/ SubmitCancel(i)

Chain == \E e \in mempool : LandsLate(e)

Next ==
  \/ \E i \in Ids : Client(i) /\ UNCHANGED <<settleVars, cancelVars>>
  \/ (EventLoop \/ MatcherStep) /\ UNCHANGED <<settleVars, cancelVars>>
  \/ (SettleBatch \/ RetryLoop) /\ UNCHANGED cancelVars
  \/ \E i \in Ids : CancelHandler(i)
  \/ Chain /\ UNCHANGED <<poolVars, settleVars, cancelVars>>

Spec == Init /\ [][Next]_vars

(* The event loop and the matcher goroutine, in which SubmitBatch runs,    *)
(* are never stopped; every leo call returns.                              *)
FairSpec ==
  /\ Spec
  /\ WF_vars(EventLoop /\ UNCHANGED <<settleVars, cancelVars>>)
  /\ WF_vars(MatcherStep /\ UNCHANGED <<settleVars, cancelVars>>)
  /\ WF_vars(SettleBatch /\ UNCHANGED cancelVars)

(***************************************************************************)
(* Properties.                                                             *)
(***************************************************************************)
TypeOK == LedgerTypeOK /\ PoolTypeOK /\ SettlementTypeOK /\ CancelTypeOK

(* The pool, the event loop and the matcher goroutine use the matching     *)
(* engine only in the ways module Matching allows: an id reaches it once,  *)
(* although the engine does not look, and no order comes while one is      *)
(* matched.  What is proved of Matching so holds of the engine here.       *)
EngineIsUsedAsMatching == M!Spec

(* The status of a public order is set once, whatever transactions are     *)
(* repeated, late or racing.                                               *)
StatusIsFinal ==
  [][\A i \in Ids : ledger.status[i] # 0 =>
       ledger'.status[i] = ledger.status[i]]_vars

OrderCommands(q, i) == {k \in DOMAIN q : q[k] = [kind |-> "order", id |-> i]}

Held == IF loop.step = "send" THEN <<loop.command>> ELSE <<>>

(* An accepted order is in one place: it is not lost and not matched twice *)
(* on its way through the two channels and the event loop between them.    *)
OrderIsInOnePlace ==
  \A i \in posted :
    Cardinality(OrderCommands(pool, i)) + Cardinality(OrderCommands(Held, i))
      + Cardinality(OrderCommands(channel, i)) = IF i \in DOMAIN orders THEN 0 ELSE 1

(* What the records say of an order has happened in the engine: the record *)
(* may lag behind (RecordSubmit after RecordMatch) but never runs ahead.   *)
RecordNeverAhead ==
  \A i \in Ids :
    CASE records[i].status = "filled" -> orders[i].told = "filled"
      [] records[i].status = "partial" -> orders[i].acc > 0
      [] records[i].status = "canceled" ->
           orders[i].told \in {"canceled", "partial-canceled"}
      [] OTHER -> TRUE

(* The book lets go of a public order by a cancellation only when the      *)
(* contract has marked it canceled.                                        *)
CanceledPublicIsOnChain ==
  \A i \in DOMAIN orders :
    Public(i) /\ orders[i].told \in {"canceled", "partial-canceled"} =>
      ledger.status[i] = 2

(* The matcher and the retry loop are never both settling the same trade.  *)
OneSettlementPerTrade ==
  job["matcher"] # NoJob /\ job["retry"] # NoJob =>
    \/ job["matcher"].maker # job["retry"].maker
    \/ job["matcher"].taker # job["retry"].taker

(* What the trader of an order was sent, in either token.                  *)
Received(i) == ledger.paid[i]

(* No order is paid more than it was matched for, whatever fails and is    *)
(* settled again: a buyer gets at most the amount, a seller at most its    *)
(* value at the prices of the matches.                                     *)
PaidOnce ==
  \A i \in Ids :
    IF placed[i].side = "Buy"
    THEN Received(i).base <= IF i \in DOMAIN orders THEN orders[i].acc ELSE 0
    ELSE Received(i).quote <=
           IF i \in DOMAIN orders THEN Quote(1, orders[i].value) ELSE 0

(* An order's escrow is either returned or used for a trade.               *)
RefundedOrPaid ==
  \A i \in Ids : Received(i).base = 0 \/ Received(i).quote = 0

(* A buyer was sent the quote token, a seller the base token.              *)
Refunded(i) ==
  IF placed[i].side = "Buy" THEN Received(i).quote > 0 ELSE Received(i).base > 0

(* An order whose escrow was returned does not trade afterwards.           *)
RefundedNeverTrades ==
  [][\A i \in DOMAIN orders :
       Refunded(i) => orders'[i].acc = orders[i].acc]_vars

(* The two orders of a trade that is reported settled are settled on chain. *)
SettledMeansSettled ==
  \A k \in DOMAIN trades :
    trades[k].status = "settled" =>
      \A i \in {trades[k].maker, trades[k].taker} :
        Public(i) => ledger.status[i] = 1

(* An order the pool has accepted reaches the matching engine, however     *)
(* long the settlements before it take.                                    *)
AcceptedIsMatched == \A i \in Ids : (i \in posted) ~> (i \in DOMAIN orders)
=============================================================================
