-------------------------- MODULE AnubisSettlement --------------------------
(***************************************************************************)
(* The settlement of the Anubis engine (dex/chain/anubis/settlement.go):   *)
(* the matcher goroutines add results to the pending ones of their symbol, *)
(* full batches and, at every tick, all that is pending go to a bounded    *)
(* channel, and workers submit them.  A matcher goroutine, the timer and   *)
(* Shutdown flush at the same time.                                        *)
(*                                                                         *)
(* An operator whose name ends in _Slip is the definition after it with a  *)
(* plausible mistake in it; no specification uses one.                     *)
(***************************************************************************)
EXTENDS AnubisSubscriber, FiniteSetsExt, Functions

CONSTANTS
  Workers,    \* chain.anubis.settlement-workers
  BatchSize,  \* chain.anubis.settlement-batch-size
  BatchCap    \* the capacity of submitCh, 100

ASSUME SettlementAssumption ==
  /\ IsFiniteSet(Symbols) /\ IsFiniteSet(Workers)
  /\ {BatchSize, BatchCap} \subseteq Nat \ {0}

VARIABLES
  pending,   \* the results of each symbol that wait for a batch
  flusher,   \* the goroutines that flush: the symbols left, the batch in hand
  submitCh,  \* the channel of batches
  worker,    \* the batch each worker submits
  stopped,   \* the context of the settlement is cancelled
  tried,     \* history: the results submitted or refused since the first start
  ended      \* history: those and the dropped ones since the last start

sinkVars == <<pending, flusher, submitCh, worker, stopped, tried, ended>>

Flushers == Symbols \cup {"timer", "shutdown"}

NoBatch == [symbol |-> "none", mrs |-> <<>>]
Gone == [symbol |-> "gone", mrs |-> <<>>]

Idle == [todo |-> {}, batch |-> NoBatch]

(* NewSettlement.                                                          *)
SinkStart ==
  /\ pending' = [s \in Symbols |-> <<>>]
  /\ flusher' = [f \in Flushers |-> Idle]
  /\ submitCh' = <<>> /\ worker' = [w \in Workers |-> NoBatch]
  /\ stopped' = FALSE /\ ended' = [s \in Symbols |-> <<>>]
  /\ UNCHANGED tried

SinkInit ==
  /\ pending = [s \in Symbols |-> <<>>]
  /\ flusher = [f \in Flushers |-> Idle]
  /\ submitCh = <<>> /\ worker = [w \in Workers |-> NoBatch]
  /\ stopped = FALSE /\ tried = {} /\ ended = [s \in Symbols |-> <<>>]

(* SubmitBatch: a full batch is flushed by the same goroutine, which is    *)
(* the matcher of the symbol.                                              *)
SubmitBatch(s, mrs) ==
  /\ pending' = [pending EXCEPT ![s] = @ \o mrs]
  /\ flusher' = [flusher EXCEPT ![s].todo =
                   IF Len(pending'[s]) >= BatchSize THEN {s} ELSE {}]
  /\ UNCHANGED <<submitCh, worker, stopped, tried, ended>>

(* batchTimer: the symbols with something pending are collected first.     *)
(* The slip collects those with a full batch.                              *)
Waiting_Full_Slip == {s \in Symbols : Len(pending[s]) >= BatchSize}

Waiting == {s \in Symbols : pending[s] # <<>>}

Tick ==
  /\ flusher["timer"] = Idle /\ ~stopped /\ Waiting # {}
  /\ flusher' = [flusher EXCEPT !["timer"].todo = Waiting]
  /\ UNCHANGED <<pending, submitCh, worker, stopped, tried, ended>>

(* flushSymbol, up to the select: the pending results are taken under the  *)
(* lock; another flusher may have been faster.  The batch id counts the    *)
(* batches only.  The slip leaves them pending.                            *)
Left_All_Slip(s) == pending[s]

Left(s) == <<>>

Flush(f) ==
  /\ flusher[f].batch = NoBatch
  /\ \E s \in flusher[f].todo :
       /\ flusher' = [flusher EXCEPT
            ![f].todo = @ \ {s},
            ![f].batch = IF pending[s] = <<>> THEN NoBatch
                         ELSE [symbol |-> s, mrs |-> pending[s]]]
       /\ pending' = [pending EXCEPT ![s] = Left(s)]
  /\ UNCHANGED <<submitCh, worker, stopped, tried, ended>>

(* The select of flushSymbol: the channel has room.                        *)
Put(f) ==
  /\ flusher[f].batch # NoBatch /\ Len(submitCh) < BatchCap
  /\ submitCh' = Append(submitCh, flusher[f].batch)
  /\ flusher' = [flusher EXCEPT ![f].batch = NoBatch]
  /\ UNCHANGED <<pending, worker, stopped, tried, ended>>

(* The results of a batch leave the settlement.                            *)
Ended(b) == ended' = [ended EXCEPT ![b.symbol] = @ \o b.mrs]

Tried(b) == tried' = tried \cup ({b.symbol} \X Range(b.mrs))

(* The select of flushSymbol: a cancelled context drops the batch.         *)
Drop(f) ==
  /\ flusher[f].batch # NoBatch /\ stopped
  /\ Ended(flusher[f].batch)
  /\ flusher' = [flusher EXCEPT ![f].batch = NoBatch]
  /\ UNCHANGED <<pending, submitCh, worker, stopped, tried>>

Flusher(f) == Flush(f) \/ Put(f) \/ Drop(f)

(* submitWorker takes a batch.                                             *)
TakeBatch(w) ==
  /\ worker[w] = NoBatch /\ submitCh # <<>>
  /\ worker' = [worker EXCEPT ![w] = Head(submitCh)]
  /\ submitCh' = Tail(submitCh)
  /\ UNCHANGED <<pending, flusher, stopped, tried, ended>>

(* submitToChain, which sends nothing yet: the batch is done, or its proof *)
(* is refused and it is not tried again: the worker goes on in both cases. *)
Working(w) == worker[w] \notin {NoBatch, Gone}

SubmitToChain(w) ==
  /\ Working(w)
  /\ Tried(worker[w]) /\ Ended(worker[w])
  /\ worker' = [worker EXCEPT ![w] = NoBatch]
  /\ UNCHANGED <<pending, flusher, submitCh, stopped>>

(* A worker ends when the context is cancelled, even with batches left.    *)
WorkerEnds(w) ==
  /\ worker[w] = NoBatch /\ stopped
  /\ worker' = [worker EXCEPT ![w] = Gone]
  /\ UNCHANGED <<pending, flusher, submitCh, stopped, tried, ended>>

Worker(w) == TakeBatch(w) \/ SubmitToChain(w) \/ WorkerEnds(w)

(* Shutdown cancels the context, collects the symbols and flushes them.    *)
CancelSink ==
  /\ stopped' = TRUE
  /\ UNCHANGED <<pending, flusher, submitCh, worker, tried, ended>>

CollectAll ==
  /\ flusher' = [flusher EXCEPT !["shutdown"].todo = Symbols]
  /\ UNCHANGED <<pending, submitCh, worker, stopped, tried, ended>>

-----------------------------------------------------------------------------
Results(s, b) == IF b.symbol = s THEN b.mrs ELSE <<>>

(* The results of a symbol in some batches: how many, and which.           *)
HowMany(s, bs) == MapThenSumSet(LAMBDA p : Len(Results(s, bs[p])), DOMAIN bs)

Which(s, bs) == UNION {Range(Results(s, bs[p])) : p \in DOMAIN bs}

InHand == [f \in Flushers |-> flusher[f].batch]

(* Those the settlement was given, wherever they are.                      *)
HowManyHeld(s) ==
  Len(ended[s]) + Len(pending[s]) +
    HowMany(s, submitCh) + HowMany(s, InHand) + HowMany(s, worker)

WhichHeld(s) ==
  Range(ended[s]) \cup Range(pending[s]) \cup
    Which(s, submitCh) \cup Which(s, InHand) \cup Which(s, worker)
=============================================================================
