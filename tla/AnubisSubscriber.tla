-------------------------- MODULE AnubisSubscriber --------------------------
(***************************************************************************)
(* The order source of the Anubis engine (dex/chain/anubis/subscriber.go): *)
(* one event loop per symbol asks a node for the blocks after its cursor   *)
(* and sends the orders of their logs to the channel of the symbol.        *)
(*                                                                         *)
(* Only the mode without a view key is modelled: the event carries no      *)
(* ciphertext, so that with a key every order is skipped.  The nullifier   *)
(* test skips nothing: nothing in src/ calls CheckAndMarkNullifier.        *)
(*                                                                         *)
(* An operator whose name ends in _Slip is the definition after it with a  *)
(* plausible mistake in it; no specification uses one.                     *)
(***************************************************************************)
EXTENDS Integers, Sequences, FiniteSets, SequencesExt

CONSTANTS
  Symbols,    \* the symbols the engine is started with
  Blocks,     \* what a block may hold: sequences of "order" and "short" logs
  OrderCap,   \* the capacity of an order channel, 5000
  MaxBlocks   \* bound: blocks of the chain

ASSUME SubscriberAssumption ==
  /\ Blocks \subseteq Seq({"order", "short"})
  /\ OrderCap \in Nat \ {0} /\ MaxBlocks \in Nat

VARIABLES
  chain,   \* the blocks of the chain
  subs,    \* the symbols whose channel is open
  ctx,     \* "live", or "canceled" by Shutdown
  loop,    \* the event loop of each symbol
  queue,   \* the order channel of each symbol
  sent     \* history: the orders each symbol has been sent since the start

sourceVars == <<chain, subs, ctx, loop, queue, sent>>

(* decodePlainOrder drops a log with too few topics.                       *)
DecodedLog(b, k) == IF chain[b][k] = "order" THEN <<<<b, k>>>> ELSE <<>>

Decoded(b) == FlattenSeq([k \in DOMAIN chain[b] |-> DecodedLog(b, k)])

(* The orders of the blocks after one up to another.  The slip asks for    *)
(* the block of the cursor again.                                          *)
LogsBetween_Inclusive_Slip(from, to) ==
  LET low == IF from = 0 THEN 1 ELSE from
  IN  FlattenSeq([b \in 1..(to - low + 1) |-> Decoded(low + b - 1)])

LogsBetween(from, to) ==
  FlattenSeq([b \in 1..(to - from) |-> Decoded(from + b)])

NewLoop == [at |-> "poll", last |-> 0, latest |-> 0, batch |-> <<>>]

(* NewSubscriber, and Subscribe for every symbol by StartEngine: every     *)
(* loop starts at block zero.                                              *)
SourceStart ==
  /\ subs' = Symbols /\ ctx' = "live"
  /\ loop' = [s \in Symbols |-> NewLoop]
  /\ queue' = [s \in Symbols |-> <<>>] /\ sent' = [s \in Symbols |-> <<>>]

SourceInit ==
  /\ chain = <<>> /\ subs = Symbols /\ ctx = "live"
  /\ loop = [s \in Symbols |-> NewLoop]
  /\ queue = [s \in Symbols |-> <<>>] /\ sent = [s \in Symbols |-> <<>>]

Mine ==
  /\ Len(chain) < MaxBlocks
  /\ \E b \in Blocks : chain' = Append(chain, b)
  /\ UNCHANGED <<subs, ctx, loop, queue, sent>>

At(s, step) == loop[s].at = step

(* getBlockNumber; after an error or without a new block the loop waits    *)
(* for the next tick.                                                      *)
BlockNumber(s) ==
  /\ At(s, "poll") /\ ctx = "live" /\ Len(chain) > loop[s].last
  /\ loop' = [loop EXCEPT ![s].at = "logs", ![s].latest = Len(chain)]
  /\ UNCHANGED <<chain, subs, ctx, queue, sent>>

(* getLogs, and the decoding of what it returns.                           *)
GetLogs(s) ==
  /\ At(s, "logs") /\ ctx = "live"
  /\ loop' = [loop EXCEPT ![s].at = "send",
                          ![s].batch = LogsBetween(loop[s].last, loop[s].latest)]
  /\ UNCHANGED <<chain, subs, ctx, queue, sent>>

(* After an error of getLogs the cursor stays.                             *)
AfterError(l) == [l EXCEPT !.at = "poll"]

GetLogsFails(s) ==
  /\ At(s, "logs")
  /\ loop' = [loop EXCEPT ![s] = AfterError(@)]
  /\ UNCHANGED <<chain, subs, ctx, queue, sent>>

(* An order goes to the channel if there is room.                          *)
SendOrder(s) ==
  /\ At(s, "send") /\ loop[s].batch # <<>> /\ s \in subs
  /\ Len(queue[s]) < OrderCap
  /\ queue' = [queue EXCEPT ![s] = Append(@, Head(loop[s].batch))]
  /\ sent' = [sent EXCEPT ![s] = Append(@, Head(loop[s].batch))]
  /\ loop' = [loop EXCEPT ![s].batch = Tail(@)]
  /\ UNCHANGED <<chain, subs, ctx>>

(* All are sent: the cursor moves.                                         *)
Advance(s) ==
  /\ At(s, "send") /\ loop[s].batch = <<>>
  /\ loop' = [loop EXCEPT ![s].at = "poll", ![s].last = loop[s].latest]
  /\ UNCHANGED <<chain, subs, ctx, queue, sent>>

(* The loop ends when the context is cancelled, and by the panic of a send *)
(* on a channel that Unsubscribe or Shutdown has closed.                   *)
LoopEnds(s) ==
  /\ \/ At(s, "poll") /\ ctx = "canceled"
     \/ At(s, "send") /\ loop[s].batch # <<>> /\ (ctx = "canceled" \/ s \notin subs)
  /\ loop' = [loop EXCEPT ![s] = [NewLoop EXCEPT !.at = "done"]]
  /\ UNCHANGED <<chain, subs, ctx, queue, sent>>

EventLoop(s) ==
  BlockNumber(s) \/ GetLogs(s) \/ SendOrder(s) \/ Advance(s) \/ LoopEnds(s)

(* Unsubscribe closes the channel; the loop goes on.                       *)
Unsubscribe(s) ==
  /\ s \in subs /\ subs' = subs \ {s}
  /\ UNCHANGED <<chain, ctx, loop, queue, sent>>

(* Shutdown cancels the context, and then closes every channel.            *)
CancelSource == ctx' = "canceled" /\ UNCHANGED <<chain, subs, loop, queue, sent>>

CloseChannels == subs' = {} /\ UNCHANGED <<chain, ctx, loop, queue, sent>>

-----------------------------------------------------------------------------
(* Each loop has sent exactly the orders of the blocks up to its cursor,   *)
(* in the order of the chain, and those of the blocks it is at but for the *)
(* ones it still has to send: none is skipped and none repeated, whichever *)
(* request fails and whatever is mined in between (subscriber.go:111-147). *)
NoGapNoRepeat ==
  \A s \in Symbols :
    ~At(s, "done") =>
      sent[s] \o (IF At(s, "send") THEN loop[s].batch ELSE <<>>)
        = FlattenSeq([b \in 1..(IF At(s, "send") THEN loop[s].latest
                                ELSE loop[s].last) |-> Decoded(b)])
=============================================================================
