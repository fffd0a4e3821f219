------------------------------ MODULE AleoPool ------------------------------
(***************************************************************************)
(* The order pool, the order records, the event loop and the matcher       *)
(* goroutine of one trading pair of the Aleo engine                        *)
(* (dex/chain/aleo/orderpool.go, orderrecord.go, subscriber.go and         *)
(* dex/runner), around the matching engine of module Matching.             *)
(*                                                                         *)
(* Each critical section of the pool's mutex is one action.  Orders posted *)
(* over HTTP are limit orders with SeqId = OrderId, and self-trade         *)
(* prevention is off.  A client posts an order id once.                    *)
(***************************************************************************)
EXTENDS AleoLedger, Sequences, SequencesExt

CONSTANTS
  PoolCap,      \* capacity of OrderPool.ch
  ChannelCap    \* capacity of the order channel of the trading pair

VARIABLES
  po,          \* OrderPool.orders: what is pooled under an id
  pending,     \* OrderPool.pending
  pool,        \* OrderPool.ch
  posted,      \* the orders whose Submit succeeded
  recording,   \* HandleOrder is between Submit and RecordSubmit
  records,     \* OrderPool.records
  trades,      \* OrderPool.trades
  loop,        \* where eventLoop is, and with what
  channel,     \* the order channel of the trading pair
  stage,       \* where the matcher goroutine is
  next         \* the item SubmitBatch settles next

VARIABLES orders, book, fromId, taker, checked, items, price, halted

engineVars == <<orders, book, fromId, taker, checked, items, price, halted>>
handlerVars == <<pending, pool, posted, recording, loop, channel>>
recordVars == <<po, records, trades>>
matcherVars == <<stage, next>>
poolVars == <<handlerVars, recordVars, matcherVars, engineVars>>

(* HandleOrder builds a limit order with Stp 0 (AST).                      *)
RequestOf(p) ==
  [side |-> p.side, type |-> "Limit", user |-> 0, stp |-> "AST", rate |-> 0,
   price |-> p.price, amount |-> p.amount]

M == INSTANCE Matching WITH
       Users <- {0}, Requests <- {RequestOf(f[i]) : f \in Placements, i \in Ids},
       Lot <- 1, BatchLists <- {}, RateUnit <- 1, MonotoneSeq <- FALSE

ASSUME PoolAssumption == PoolCap \in Nat \ {0} /\ ChannelCap \in Nat \ {0}

NoRecord == [status |-> "none", filled |-> 0]

RecordStatuses == {"none", "waiting", "partial", "filled", "canceled"}
SettleStatuses == {"pending", "settling", "settled", "failed"}

Command == [kind: {"order", "cancel"}, id: Ids]

Receiving == [step |-> "receive"]

Trade == [maker: Ids, taker: Ids, price: Nat, amount: Nat,
          status: SettleStatuses]

PoolInit ==
  /\ po = [i \in Ids |-> "none"]
  /\ pending = {}
  /\ pool = <<>>
  /\ posted = {}
  /\ recording = {}
  /\ records = [i \in Ids |-> NoRecord]
  /\ trades = <<>>
  /\ loop = Receiving
  /\ channel = <<>>
  /\ stage = "take"
  /\ next = 1
  /\ M!Init

(***************************************************************************)
(* POST /order.                                                            *)
(***************************************************************************)

Submitted_NoCap_Slip(kind, i) ==
  /\ i \notin pending
  /\ pending' = pending \cup {i}
  /\ po' = [po EXCEPT ![i] = kind]
  /\ pool' = Append(pool, [kind |-> kind, id |-> i])

(* OrderPool.Submit, for an order and for the Cancel order of cancel.go.   *)
Submitted(kind, i) ==
  /\ i \notin pending
  /\ Len(pool) < PoolCap
  /\ pending' = pending \cup {i}
  /\ po' = [po EXCEPT ![i] = kind]
  /\ pool' = Append(pool, [kind |-> kind, id |-> i])

(* The channel is full: the order is refused but stays in `orders`.        *)
Refused(kind, i) ==
  /\ i \notin pending
  /\ Len(pool) = PoolCap
  /\ po' = [po EXCEPT ![i] = kind]
  /\ UNCHANGED <<pending, pool>>

PostOrder(i) ==
  /\ i \notin posted
  /\ \/ /\ Submitted("order", i)
        /\ posted' = posted \cup {i}
        /\ recording' = recording \cup {i}
     \/ Refused("order", i) /\ UNCHANGED <<posted, recording>>
  /\ UNCHANGED <<records, trades, loop, channel, matcherVars, engineVars,
                 ledgerVars>>

RecordSubmit(i) ==
  /\ i \in recording
  /\ recording' = recording \ {i}
  /\ records' = [records EXCEPT ![i] = [status |-> "waiting", filled |-> 0]]
  /\ UNCHANGED <<pending, pool, posted, loop, channel, po, trades,
                 matcherVars, engineVars, ledgerVars>>

(***************************************************************************)
(* Subscriber.eventLoop: it takes an order from the pool, waits with it    *)
(* for room in the channel of the pair, and then completes it.             *)
(***************************************************************************)
Receive_Keeps_Slip ==
  /\ loop = Receiving
  /\ pool # <<>>
  /\ loop' = [step |-> "send", command |-> Head(pool)]
  /\ UNCHANGED <<pool, pending, posted, recording, channel, recordVars,
                 matcherVars, engineVars, ledgerVars>>

Receive ==
  /\ loop = Receiving
  /\ pool # <<>>
  /\ loop' = [step |-> "send", command |-> Head(pool)]
  /\ pool' = Tail(pool)
  /\ UNCHANGED <<pending, posted, recording, channel, recordVars, matcherVars,
                 engineVars, ledgerVars>>

Send_DropsWhenFull_Slip ==
  /\ loop.step = "send"
  /\ channel' = IF Len(channel) < ChannelCap THEN Append(channel, loop.command)
                                            ELSE channel
  /\ loop' = [loop EXCEPT !.step = "complete"]
  /\ UNCHANGED <<pending, pool, posted, recording, recordVars, matcherVars,
                 engineVars, ledgerVars>>

Send ==
  /\ loop.step = "send"
  /\ Len(channel) < ChannelCap
  /\ channel' = Append(channel, loop.command)
  /\ loop' = [loop EXCEPT !.step = "complete"]
  /\ UNCHANGED <<pending, pool, posted, recording, recordVars, matcherVars,
                 engineVars, ledgerVars>>

Complete ==
  /\ loop.step = "complete"
  /\ pending' = pending \ {loop.command.id}
  /\ loop' = Receiving
  /\ UNCHANGED <<pool, posted, recording, channel, recordVars, matcherVars,
                 engineVars, ledgerVars>>

(***************************************************************************)
(* The matcher goroutine: StartMatcher takes a command, GenMatchResult     *)
(* runs it, and SubmitBatch is called with its result before the next.     *)
(***************************************************************************)
Take ==
  /\ stage = "take"
  /\ channel # <<>>
  /\ channel' = Tail(channel)
  /\ LET c == Head(channel) IN
     \/ /\ c.kind = "order"
        /\ M!StartMatching(c.id, RequestOf(placed[c.id]))
        /\ stage' = "match"
     \/ /\ c.kind = "cancel"
        /\ M!Cancel(0, c.id)
        /\ stage' = "record"
  /\ UNCHANGED <<pending, pool, posted, recording, loop, recordVars, next,
                 ledgerVars>>

Match ==
  /\ stage = "match"
  /\ M!MatchStep
  /\ stage' = IF taker' = M!None THEN "record" ELSE "match"
  /\ UNCHANGED <<handlerVars, recordVars, next, ledgerVars>>

(* MatchResult.OrderId; every other item is that of a maker.               *)
Subject == Last(items).id
MakerItems == Front(items)

StatusOf_FailedCancels_Slip(state) ==
  CASE state = "filled" -> "filled"
    [] state = "partial-filled" -> "partial"
    [] state \in {"canceled", "partial-canceled", "failed"} -> "canceled"
    [] OTHER -> "waiting"

(* The switch of RecordMatch over the state of the command's own item.     *)
StatusOf(state) ==
  CASE state = "filled" -> "filled"
    [] state = "partial-filled" -> "partial"
    [] state \in {"canceled", "partial-canceled"} -> "canceled"
    [] OTHER -> "waiting"

TradeOf(item) ==
  [maker |-> item.id, taker |-> Subject, price |-> item.price,
   amount |-> item.amount, status |-> "pending"]

(* What the command's order was filled with in this match.                 *)
MatchedTotal == FoldSeq(LAMBDA item, n : item.amount + n, 0, MakerItems)

(* RecordMatch: without a record of the command's order nothing is noted.  *)
(* The filled amount of a maker is that of this match alone.               *)
RecordMatch ==
  LET made(i) == {k \in DOMAIN MakerItems : MakerItems[k].id = i}
      noted(i) ==
        CASE i = Subject ->
               [status |-> StatusOf(Last(items).state), filled |-> MatchedTotal]
          [] made(i) # {} /\ records[i] # NoRecord ->
               LET item == MakerItems[CHOOSE k \in made(i) : TRUE]
               IN  [status |-> StatusOf(item.state), filled |-> item.amount]
          [] OTHER -> records[i]
  IN  /\ stage = "record"
      /\ IF records[Subject] = NoRecord
         THEN UNCHANGED <<records, trades>>
         ELSE /\ records' = [i \in Ids |-> noted(i)]
              /\ trades' = trades \o [k \in DOMAIN MakerItems |-> TradeOf(MakerItems[k])]
      /\ stage' = IF MakerItems = <<>> THEN "take" ELSE "settle"
      /\ UNCHANGED <<handlerVars, po, next, engineVars, ledgerVars>>

(* UpdateTradeSettleStatus: every trade of the maker, whichever the taker. *)
Mark(maker, status) ==
  [k \in DOMAIN trades |->
     IF trades[k].maker = maker THEN [trades[k] EXCEPT !.status = status]
                                ELSE trades[k]]

PoolTypeOK ==
  /\ po \in [Ids -> {"none", "order", "cancel"}]
  /\ pending \subseteq Ids
  /\ pool \in Seq(Command) /\ Len(pool) <= PoolCap
  /\ posted \subseteq Ids
  /\ recording \subseteq posted
  /\ records \in [Ids -> [status: RecordStatuses, filled: Nat]]
  /\ trades \in Seq(Trade)
  /\ loop \in {Receiving} \cup [step: {"send", "complete"}, command: Command]
  /\ channel \in Seq(Command) /\ Len(channel) <= ChannelCap
  /\ stage \in {"take", "match", "record", "settle"}
  /\ next \in 1 .. Len(items) + 1
=============================================================================
