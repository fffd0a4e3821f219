----------------------------- MODULE AleoCancel -----------------------------
(***************************************************************************)
(* POST /order/cancel of the Aleo engine (dex/chain/aleo/cancel.go): the   *)
(* handler reads the order's record, returns the escrow on chain, and only *)
(* then sends a Cancel order to the matcher.  One handler per order at a   *)
(* time; handlers of different orders, the settlement and the matcher run  *)
(* between its steps.                                                      *)
(***************************************************************************)
EXTENDS AleoSettlement

CONSTANT MaxCancels   \* bound: cancellations begun

VARIABLES
  handler,   \* where the cancel handler of each order is
  cancels    \* how many were begun

cancelVars == <<handler, cancels>>

ASSUME CancelAssumption == MaxCancels \in Nat

CancelSteps == {"none", "refund", "cancel", "verify", "submit"}

(* branch: the case of executeCancel, by the mode and by the side of what  *)
(* the pool holds under the id, Buy when that is an earlier Cancel order.  *)
Handler == [step: CancelSteps, branch: {"Buy", "Sell"}, creds: Nat]

NoHandler == [step |-> "none", branch |-> "Buy", creds |-> 0]

CancelInit ==
  /\ handler = [i \in Ids |-> NoHandler]
  /\ cancels = 0

HandlerAt(i, step) == handler[i].step = step

Continue(i, step) ==
  handler' = [handler EXCEPT ![i] = IF step = "none" THEN NoHandler
                                    ELSE [@ EXCEPT !.step = step]]

(* Only a waiting order can be cancelled; a private one needs its escrow   *)
(* record, which a Cancel order in its place does not have.                *)
CancelRequest(i) ==
  /\ HandlerAt(i, "none")
  /\ cancels < MaxCancels
  /\ records[i].status = "waiting"
  /\ Public(i) \/ po[i] = "order"
  /\ handler' = [handler EXCEPT ![i] =
       [step |-> IF Public(i) THEN "refund" ELSE "cancel",
        branch |-> IF po[i] = "order" THEN placed[i].side ELSE "Buy",
        creds |-> creds]]
  /\ cancels' = cancels + 1
  /\ UNCHANGED <<settleVars, poolVars, ledgerVars>>

(* The public escrow is transferred back first.                            *)
Refund(i) ==
  LET buys == handler[i].branch = "Buy"
      tx == IF buys
            THEN TransferTx("quote", i, Quote(placed[i].price, placed[i].amount))
            ELSE TransferTx("base", i, placed[i].amount)
      good == IF buys THEN {"ok", "exists"} ELSE {"ok"}
  IN  /\ HandlerAt(i, "refund")
      /\ \E r \in {"ok", "exists", "err"} :
           /\ Execute(tx, r)
           /\ Continue(i, IF r \in good THEN "cancel" ELSE "none")
      /\ UNCHANGED <<cancels, settleVars, poolVars>>

(* The four cancel functions.  cancel_buy_private rotates the credentials  *)
(* only when its own broadcast succeeded.                                  *)
CancelOnChain(i) ==
  LET t == CancelTx(i, handler[i].creds, nonces + 1)
  IN  /\ HandlerAt(i, "cancel")
      /\ \E r \in {"ok", "exists", "err"} :
           /\ Execute(t, r)
           /\ Continue(i, CASE r = "err" -> "none"
                            [] Public(i) -> "verify"
                            [] OTHER -> "submit")
           /\ creds' = IF ConsumesCredentials(t) /\ r = "ok" THEN t.out ELSE creds
      /\ UNCHANGED <<cancels, job, retryList, poolVars>>

VerifyCanceled_Skipped_Slip(i) ==
  /\ HandlerAt(i, "verify")
  /\ Continue(i, "submit")
  /\ UNCHANGED <<cancels, settleVars, poolVars, ledgerVars>>

(* verifyPublicOrderCanceled *)
VerifyCanceled(i) ==
  /\ HandlerAt(i, "verify")
  /\ \E answer \in BOOLEAN :
       /\ Verify(i, 2, answer)
       /\ Continue(i, IF answer THEN "submit" ELSE "none")
  /\ UNCHANGED <<cancels, settleVars, poolVars>>

(* The Cancel order goes to the matcher through the pool, unless the order *)
(* itself is still pending there or the pool is full.                      *)
SubmitCancel(i) ==
  /\ HandlerAt(i, "submit")
  /\ \/ Submitted("cancel", i)
     \/ Refused("cancel", i)
     \/ i \in pending /\ UNCHANGED <<po, pending, pool>>
  /\ Continue(i, "none")
  /\ UNCHANGED <<cancels, settleVars, posted, recording, loop, channel,
                 records, trades, matcherVars, engineVars, ledgerVars>>

CancelTypeOK ==
  /\ handler \in [Ids -> Handler]
  /\ cancels \in 0 .. MaxCancels
=============================================================================
