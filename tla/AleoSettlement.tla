--------------------------- MODULE AleoSettlement ---------------------------
(***************************************************************************)
(* The settlement of the Aleo engine (dex/chain/aleo/settlement.go): after *)
(* every match SubmitBatch settles each maker item in the matcher          *)
(* goroutine, and the retry loop takes up the trades that failed.  Both    *)
(* run settlePair: up to two public transfers, then the settling           *)
(* transition, then a query whether the public side is settled.  Each of   *)
(* these is one action, and anything may happen in between.                *)
(***************************************************************************)
EXTENDS AleoPool

VARIABLES
  job,        \* the settlePair each of the two settlers is in
  retryList,  \* the failed trades the retry loop still has to go through
  creds       \* Settlement.credentials: the nonce it holds

settleVars == <<job, retryList, creds>>

Settlers == {"matcher", "retry"}

NoJob == [step |-> "none"]

Steps == {"base", "quote", "settle", "verify", "report"}

(* The arguments of a settlePair and how far it is.  `replaced` holds the  *)
(* orders under whose id the pool had a Cancel order when it was read:     *)
(* that has no address, no escrow and, as the zero value, the side Buy.    *)
Job == [step: Steps, maker: Ids, taker: Ids, buy: Ids, sell: Ids, price: Nat,
        amount: Nat, replaced: SUBSET Ids, creds: Nat, out: Nat, ok: BOOLEAN]

SettlementInit ==
  /\ job = [s \in Settlers |-> NoJob]
  /\ retryList = <<>>
  /\ creds = 0

(* The transfers a settlePair still has to make, by the forms of the two   *)
(* orders: both for public x public, the ALEO to a private buyer of a      *)
(* public sale, the USDCX to a private seller of a public buy, and none    *)
(* for private x private.                                                  *)
FirstStep(buy, sell) ==
  CASE Public(sell) -> "base"
    [] Public(buy) /\ ~Public(sell) -> "quote"
    [] OTHER -> "settle"

StepAfterBase(j) == IF Public(j.buy) THEN "quote" ELSE "settle"

(* The order whose status is queried: the seller's of settle_pp and        *)
(* settle_vp, the buyer's of settle_pv.                                    *)
Verified(j) == IF Public(j.sell) THEN j.sell ELSE j.buy

Verifiable(j) == Public(j.buy) \/ Public(j.sell)

NewJob(maker, taker_, p, amount) ==
  LET makerSells == po[maker] = "order" /\ placed[maker].side = "Sell"
      buy == IF makerSells THEN taker_ ELSE maker
      sell == IF makerSells THEN maker ELSE taker_
  IN  [step |-> FirstStep(buy, sell), maker |-> maker, taker |-> taker_,
       buy |-> buy, sell |-> sell, price |-> p, amount |-> amount,
       replaced |-> {i \in {buy, sell} : po[i] = "cancel"},
       creds |-> creds, out |-> 0, ok |-> FALSE]

Goto(s, step, ok) == job' = [job EXCEPT ![s].step = step, ![s].ok = ok]

At(s, step) == job[s].step = step

(* A leo call with the empty address or escrow of a Cancel order fails     *)
(* before anything is sent.                                                *)
NotSent(r) == r = "err" /\ UNCHANGED ledgerVars

(* executeTransfer: a transfer reported as already existing has succeeded. *)
Transfer(s, step, asset, to, amount, after) ==
  \E r \in {"ok", "exists", "err"} :
    /\ At(s, step)
    /\ IF to \in job[s].replaced THEN NotSent(r)
                                 ELSE Execute(TransferTx(asset, to, amount), r)
    /\ IF r = "err" THEN Goto(s, "report", FALSE) ELSE Goto(s, after, FALSE)
    /\ UNCHANGED <<retryList, creds, poolVars>>

TransferBase(s) ==
  /\ job[s] # NoJob
  /\ Transfer(s, "base", "base", job[s].buy, job[s].amount, StepAfterBase(job[s]))

TransferQuote(s) ==
  /\ job[s] # NoJob
  /\ Transfer(s, "quote", "quote", job[s].sell,
              Quote(job[s].price, job[s].amount), "settle")

(* The first half of settleTx.  Without a public side the broadcast        *)
(* decides; otherwise what it said does not matter, only its output does,  *)
(* which holds the new credentials unless leo failed before it ran.        *)
Settle(s) ==
  LET j == job[s]
      t == SettleTx(j.buy, j.sell, j.price, j.amount, j.creds, nonces + 1)
      sent == j.replaced = {}
      done(r) == ~Verifiable(j) /\ r = "ok"
      renewed(r) == IF ~sent \/ ~ConsumesCredentials(t) THEN {0}
                    ELSE IF r = "err" THEN {0, t.out} ELSE {t.out}
  IN  /\ At(s, "settle")
      /\ \E r \in {"ok", "exists", "err"} : \E out \in renewed(r) :
           /\ IF sent THEN Execute(t, r) ELSE NotSent(r)
           /\ job' = [job EXCEPT
                ![s].step = IF Verifiable(j) THEN "verify" ELSE "report",
                ![s].ok = done(r),
                ![s].out = out]
           /\ creds' = IF done(r) THEN out ELSE creds
      /\ UNCHANGED <<retryList, poolVars>>

(* The second half: the status decides, and the credentials in the output  *)
(* of this run, if it had any, become the current ones.                    *)
VerifySettled(s) ==
  /\ At(s, "verify")
  /\ \E answer \in BOOLEAN :
       /\ Verify(Verified(job[s]), 1, answer)
       /\ Goto(s, "report", answer)
       /\ creds' = IF answer /\ job[s].out # 0 THEN job[s].out ELSE creds
  /\ UNCHANGED <<retryList, poolVars>>

(***************************************************************************)
(* SubmitBatch, in the matcher goroutine.                                  *)
(***************************************************************************)
StartItem ==
  /\ stage = "settle"
  /\ job["matcher"] = NoJob
  /\ LET item == items[next] IN
     /\ job' = [job EXCEPT !["matcher"] =
                  NewJob(item.id, Subject, item.price, item.amount)]
     /\ trades' = Mark(item.id, "settling")
  /\ UNCHANGED <<retryList, creds, handlerVars, po, records, matcherVars,
                 engineVars, ledgerVars>>

FinishItem ==
  /\ At("matcher", "report")
  /\ trades' = Mark(job["matcher"].maker,
                    IF job["matcher"].ok THEN "settled" ELSE "failed")
  /\ job' = [job EXCEPT !["matcher"] = NoJob]
  /\ IF next = Len(MakerItems) THEN stage' = "take" /\ next' = 1
                               ELSE next' = next + 1 /\ UNCHANGED stage
  /\ UNCHANGED <<retryList, creds, handlerVars, po, records, engineVars,
                 ledgerVars>>

(***************************************************************************)
(* retryFailedSettlements: a round goes through the trades that were       *)
(* failed when it began, and the next begins when it is over.              *)
(***************************************************************************)
Retryable_Unsettled_Slip ==
  FoldLeft(LAMBDA out, t : IF t.status # "settled" THEN Append(out, t) ELSE out,
           <<>>, trades)

(* ListFailedTrades *)
Retryable ==
  FoldLeft(LAMBDA out, t : IF t.status = "failed" THEN Append(out, t) ELSE out,
           <<>>, trades)

RetryRound ==
  /\ retryList = <<>>
  /\ job["retry"] = NoJob
  /\ retryList' = Retryable
  /\ retryList' # <<>>
  /\ UNCHANGED <<job, creds, poolVars, ledgerVars>>

RetryStart ==
  /\ retryList # <<>>
  /\ job["retry"] = NoJob
  /\ LET t == Head(retryList) IN
     /\ job' = [job EXCEPT !["retry"] = NewJob(t.maker, t.taker, t.price, t.amount)]
     /\ trades' = Mark(t.maker, "settling")
  /\ retryList' = Tail(retryList)
  /\ UNCHANGED <<creds, handlerVars, po, records, matcherVars, engineVars,
                 ledgerVars>>

(* A retry that fails reports nothing: the trade stays in settling.        *)
RetryFinish ==
  /\ At("retry", "report")
  /\ trades' = IF job["retry"].ok THEN Mark(job["retry"].maker, "settled")
                                  ELSE trades
  /\ job' = [job EXCEPT !["retry"] = NoJob]
  /\ UNCHANGED <<retryList, creds, handlerVars, po, records, matcherVars,
                 engineVars, ledgerVars>>

SettlePair(s) ==
  TransferBase(s) \/ TransferQuote(s) \/ Settle(s) \/ VerifySettled(s)

SettlementTypeOK ==
  /\ job \in [Settlers -> Job \cup {NoJob}]
  /\ retryList \in Seq(Trade)
  /\ creds \in Nat
=============================================================================
