----------------------------- MODULE AleoLedger -----------------------------
(***************************************************************************)
(* The chain as the Aleo engine sees it: the contract                      *)
(* contracts/leo/src/main.leo, the token transfers the engine makes beside *)
(* it, and what becomes of a transaction that `leo execute --broadcast`    *)
(* was asked for (executeTransition).                                      *)
(*                                                                         *)
(* The four settling functions differ only in the form of the two orders,  *)
(* so one transaction "settle" stands for settle_pp, settle_vp, settle_pv  *)
(* and settle_vv; likewise "cancel" for the four cancel functions.  The    *)
(* Order record of a private order and the record of its escrow are always *)
(* inputs of the same transaction: `spent` holds for both.  Addresses are  *)
(* the ids of the orders they were given for.                              *)
(***************************************************************************)
EXTENDS Integers, FiniteSets

CONSTANTS
  Ids,        \* order ids
  Placements, \* what clients may have placed on chain: functions from Ids to Post
  Micro,      \* 1000000: units of the price in one unit of the quote token
  MaxFaults   \* bound: transactions and queries that do not go smoothly

Post == [side: {"Buy", "Sell"}, mode: {"public", "private"},
         price: Nat, amount: Nat]

ASSUME LedgerAssumption ==
  /\ Ids \subseteq Nat \ {0}
  /\ Micro \in Nat \ {0}
  /\ MaxFaults \in Nat
  /\ Placements \subseteq [Ids -> Post]
  /\ \A f \in Placements, i \in Ids : f[i].price > 0 /\ f[i].amount > 0

VARIABLES
  placed,   \* the orders placed on chain, before any is posted to the engine
  ledger,   \* the state of the contract and of the accounts
  mempool,  \* transactions that were broadcast and have not landed, numbered
  nonces,   \* the last nonce given to a Credentials record
  faults    \* how many of MaxFaults have happened

ledgerVars == <<placed, ledger, mempool, nonces, faults>>

Public(i) == placed[i].mode = "public"

Quote(p, amount) == (p * amount) \div Micro

(* public_orders[i].status, the private orders whose records are spent,    *)
(* the nonce of the operator's unspent Credentials, and what each order's  *)
(* trader received.                                                        *)
Ledger == [status: [Ids -> 0 .. 2], spent: SUBSET Ids, live: Nat,
           paid: [Ids -> [base: Nat, quote: Nat]]]

LedgerInit ==
  /\ placed \in Placements
  /\ ledger = [status |-> [i \in Ids |-> 0], spent |-> {}, live |-> 0,
               paid |-> [i \in Ids |-> [base |-> 0, quote |-> 0]]]
  /\ mempool = {}
  /\ nonces = 0
  /\ faults = 0

(***************************************************************************)
(* Transactions.                                                           *)
(***************************************************************************)
TransferTx(asset, i, amount) ==
  [fn |-> "transfer", asset |-> asset, to |-> i, amount |-> amount]

SettleTx(buy, sell, p, amount, creds, out) ==
  [fn |-> "settle", buy |-> buy, sell |-> sell, price |-> p,
   amount |-> amount, creds |-> creds, out |-> out]

CancelTx(i, creds, out) ==
  [fn |-> "cancel", id |-> i, creds |-> creds, out |-> out]

(* The orders whose state or records a transaction takes as input.         *)
Inputs(t) ==
  CASE t.fn = "transfer" -> {}
    [] t.fn = "settle" -> {t.buy, t.sell}
    [] t.fn = "cancel" -> {t.id}

(* transfer_private_with_creds is called: the buyer's escrow is a private  *)
(* token.                                                                  *)
ConsumesCredentials(t) ==
  \/ t.fn = "settle" /\ ~Public(t.buy)
  \/ t.fn = "cancel" /\ ~Public(t.id) /\ placed[t.id].side = "Buy"

Usable_NoStatus_Slip(l, i) == i \notin l.spent

Usable_NoRecord_Slip(l, i) == ~Public(i) \/ l.status[i] = 0

Usable(l, i) == IF Public(i) THEN l.status[i] = 0 ELSE i \notin l.spent

(* The assertions of the settling functions about side, price and amount.  *)
MatchesOrders(t) ==
  /\ placed[t.buy].side = "Buy"
  /\ placed[t.sell].side = "Sell"
  /\ t.price <= placed[t.buy].price
  /\ t.price >= placed[t.sell].price
  /\ t.amount <= placed[t.buy].amount
  /\ t.amount <= placed[t.sell].amount

Accepts(l, t) ==
  /\ \A i \in Inputs(t) : Usable(l, i)
  /\ t.fn = "settle" => MatchesOrders(t)
  /\ ConsumesCredentials(t) => t.creds = l.live

(* A record of the transaction is spent: the node answers "already exists". *)
InputSpent(l, t) ==
  \/ \E i \in Inputs(t) : i \in l.spent
  \/ ConsumesCredentials(t) /\ t.creds # l.live

Pay(l, i, asset, amount) == [l EXCEPT !.paid[i][asset] = @ + amount]

(* The final blocks set the status of public orders; records are consumed. *)
Close(l, S, status) ==
  [l EXCEPT !.status = [i \in Ids |-> IF i \in S /\ Public(i) THEN status ELSE @[i]],
            !.spent = @ \cup {i \in S : ~Public(i)}]

Rotate(l, t) == IF ConsumesCredentials(t) THEN [l EXCEPT !.live = t.out] ELSE l

SettlePays_WholeOrder_Slip(l, t) ==
  IF Public(t.buy) \/ Public(t.sell) THEN l
  ELSE Pay(Pay(l, t.buy, "base", placed[t.buy].amount),
           t.sell, "quote", Quote(t.price, t.amount))

(* What the settling function itself transfers; settle_pp transfers        *)
(* nothing, and settle_pv sends the ALEO to taker.trader, the seller.      *)
SettlePays(l, t) ==
  LET quote == Quote(t.price, t.amount)
      seller(k) == Pay(k, t.sell, "quote", quote)
  IN  CASE Public(t.buy) /\ Public(t.sell) -> l
        [] ~Public(t.buy) /\ Public(t.sell) -> seller(l)
        [] Public(t.buy) /\ ~Public(t.sell)
             -> seller(Pay(l, t.sell, "base", t.amount))
        [] OTHER -> seller(Pay(l, t.buy, "base", t.amount))

(* A private cancellation returns the escrow; a public one only sets the   *)
(* status, the engine has transferred the escrow before.                   *)
CancelPays(l, i) ==
  CASE Public(i) -> l
    [] placed[i].side = "Buy"
         -> Pay(l, i, "quote", Quote(placed[i].price, placed[i].amount))
    [] OTHER -> Pay(l, i, "base", placed[i].amount)

SettleEffect(l, t) == Rotate(Close(SettlePays(l, t), {t.buy, t.sell}, 1), t)

CancelEffect(l, t) == Rotate(Close(CancelPays(l, t.id), {t.id}, 2), t)

Effect(l, t) ==
  CASE t.fn = "transfer" -> Pay(l, t.to, t.asset, t.amount)
    [] t.fn = "settle" -> SettleEffect(l, t)
    [] t.fn = "cancel" -> CancelEffect(l, t)

(***************************************************************************)
(* Broadcasting.  What the engine learns of a transaction, r, is "ok",     *)
(* "exists" (the output says already exists) or "err"; what becomes of it  *)
(* is another matter: the answer may be lost, and a transaction that was   *)
(* accepted may land late or never.                                        *)
(***************************************************************************)
Fault == faults < MaxFaults /\ faults' = faults + 1

Smooth == UNCHANGED faults

Lands(t, r) ==
  /\ Accepts(ledger, t)
  /\ ledger' = Effect(ledger, t)
  /\ UNCHANGED mempool
  /\ \/ r = "ok" /\ Smooth
     \/ r = "err" /\ Fault

(* Rejected in a final block, after a broadcast that may have gone well,   *)
(* or for an input that is spent.                                          *)
Rejected(t, r) ==
  /\ ~Accepts(ledger, t)
  /\ r \in IF InputSpent(ledger, t) THEN {"exists"} ELSE {"ok", "err"}
  /\ UNCHANGED <<ledger, mempool>>
  /\ Smooth

(* An earlier transaction with a record of this one is in the mempool.     *)
Shadowed(t, r) ==
  /\ r = "exists"
  /\ \E e \in mempool :
       \/ \E i \in Inputs(t) \cap Inputs(e.tx) : ~Public(i)
       \/ ConsumesCredentials(t) /\ ConsumesCredentials(e.tx)
            /\ t.creds = e.tx.creds
  /\ UNCHANGED <<ledger, mempool>>
  /\ Smooth

Delayed(t, r) ==
  /\ r \in {"ok", "err"}
  /\ mempool' = mempool \cup {[tx |-> t, nr |-> faults]}
  /\ UNCHANGED ledger
  /\ Fault

Lost(t, r) ==
  /\ r \in {"ok", "err"}
  /\ UNCHANGED <<ledger, mempool>>
  /\ Fault

(* executeTransfer allows for a transfer that is reported as a repetition  *)
(* of an earlier one.                                                      *)
Repeated(t, r) ==
  /\ t.fn = "transfer"
  /\ ledger.paid[t.to][t.asset] > 0
  /\ r = "exists"
  /\ UNCHANGED <<ledger, mempool>>
  /\ Fault

(* executeTransition *)
Execute(t, r) ==
  /\ Lands(t, r) \/ Rejected(t, r) \/ Shadowed(t, r) \/ Delayed(t, r) \/ Lost(t, r) \/ Repeated(t, r)
  /\ nonces' = IF ConsumesCredentials(t) THEN t.out ELSE nonces
  /\ UNCHANGED placed

(* A transaction of the mempool lands, or is rejected then.                *)
LandsLate(e) ==
  /\ e \in mempool
  /\ mempool' = mempool \ {e}
  /\ ledger' = IF Accepts(ledger, e.tx) THEN Effect(ledger, e.tx) ELSE ledger
  /\ UNCHANGED <<placed, nonces, faults>>

(* verifyPublicOrderSettled and verifyPublicOrderCanceled: a query that    *)
(* fails counts as the other answer.                                       *)
Verify(i, status, answer) ==
  /\ \/ answer = (Public(i) /\ ledger.status[i] = status) /\ Smooth
     \/ answer = FALSE /\ Public(i) /\ ledger.status[i] = status /\ Fault
  /\ UNCHANGED <<placed, ledger, mempool, nonces>>

LedgerTypeOK ==
  /\ placed \in Placements
  /\ ledger \in Ledger
  /\ \A e \in mempool : Inputs(e.tx) \subseteq Ids
  /\ nonces \in Nat
  /\ faults \in 0 .. MaxFaults
=============================================================================
