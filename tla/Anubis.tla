------------------------------- MODULE Anubis -------------------------------
(***************************************************************************)
(* The Anubis engine (cmd/engine/anubis/main.go, dex/runner): the event    *)
(* loops feed the matcher goroutines, each of which makes one result of an *)
(* order and gives it to the settlement.  The process may end at any time  *)
(* and is started again from an empty book and the first block, which is   *)
(* what chain.restore-snapshot = false makes it do.                        *)
(***************************************************************************)
EXTENDS AnubisSettlement

CONSTANTS
  MaxFaults   \* bound: how often the process ends

VARIABLES
  stage,      \* the process: "run", the steps of its deferred calls, "down"
  faults      \* how often it has been brought to an end

vars == <<sourceVars, sinkVars, stage, faults>>

Init == SourceInit /\ SinkInit /\ stage = "run" /\ faults = 0

Up == stage # "down"

Fault == faults < MaxFaults /\ faults' = faults + 1

(* StartMatcher: the goroutine takes the next order once the last one is   *)
(* handed over, the flush included.                                        *)
Match(s) ==
  /\ queue[s] # <<>> /\ flusher[s] = Idle
  /\ SubmitBatch(s, <<Head(queue[s])>>)
  /\ queue' = [queue EXCEPT ![s] = Tail(@)]
  /\ UNCHANGED <<chain, subs, ctx, loop, sent, stage, faults>>

(* A closed channel yields a nil order: the matcher panics and the process *)
(* exits (runner.go:84, Recover).                                          *)
MatchNil(s) ==
  /\ queue[s] = <<>> /\ s \notin subs /\ flusher[s] = Idle
  /\ stage' = "down" /\ UNCHANGED <<sourceVars, sinkVars, faults>>

Crash == stage' = "down" /\ Fault /\ UNCHANGED <<sourceVars, sinkVars>>

(* The start of the process, in which everything but the chain is new.     *)
Restart ==
  /\ ~Up /\ stage' = "run"
  /\ SourceStart /\ SinkStart /\ UNCHANGED <<chain, faults>>

(* A client of the source may end a subscription.                          *)
EndSubscription(s) ==
  Unsubscribe(s) /\ Fault /\ UNCHANGED <<sinkVars, stage>>

(* The deferred calls of main: Shutdown of the orders, then of the         *)
(* settlement, then the exit.                                              *)
Goto(from, to) == stage = from /\ stage' = to

Deferred ==
  \/ Goto("run", "close") /\ CancelSource /\ Fault /\ UNCHANGED sinkVars
  \/ Goto("close", "cancel") /\ CloseChannels /\ UNCHANGED <<sinkVars, faults>>
  \/ Goto("cancel", "collect") /\ CancelSink /\ UNCHANGED <<sourceVars, faults>>
  \/ Goto("collect", "flush") /\ CollectAll /\ UNCHANGED <<sourceVars, faults>>
  \/ /\ Goto("flush", "down") /\ flusher["shutdown"] = Idle
     /\ UNCHANGED <<sourceVars, sinkVars, faults>>

Source(A) == Up /\ A /\ UNCHANGED <<sinkVars, stage, faults>>
Sink(A) == Up /\ A /\ UNCHANGED <<sourceVars, stage, faults>>

Next ==
  \/ Mine /\ UNCHANGED <<sinkVars, stage, faults>>
  \/ \E s \in Symbols :
       \/ Source(EventLoop(s))
       \/ Source(GetLogsFails(s))
       \/ Up /\ (Match(s) \/ MatchNil(s) \/ EndSubscription(s))
  \/ Sink(Tick)
  \/ \E f \in Flushers : Sink(Flusher(f))
  \/ \E w \in Workers : Sink(Worker(w))
  \/ Up /\ (Crash \/ Deferred)
  \/ Restart

Spec == Init /\ [][Next]_vars

(* Every goroutine goes on, the node answers now and then, and the process *)
(* is started again.                                                       *)
FairSpec ==
  /\ Spec
  /\ \A s \in Symbols :
       /\ WF_vars(Source(BlockNumber(s))) /\ SF_vars(Source(GetLogs(s)))
       /\ WF_vars(Source(SendOrder(s) \/ Advance(s) \/ LoopEnds(s)))
       /\ WF_vars(Up /\ Match(s)) /\ WF_vars(Up /\ MatchNil(s))
  /\ WF_vars(Sink(Tick)) /\ WF_vars(Restart)
  /\ \A f \in Flushers : WF_vars(Sink(Flusher(f)))
  /\ \A w \in Workers : WF_vars(Sink(Worker(w)))
  /\ WF_vars(Up /\ stage # "run" /\ Deferred)

-----------------------------------------------------------------------------
(* The orders the matcher of a symbol has taken.                           *)
Matched(s) == SubSeq(sent[s], 1, Len(sent[s]) - Len(queue[s]))

(* The settlement holds every result it was given once: the matchers, the  *)
(* timer and Shutdown flush the same symbols at the same time, and no      *)
(* result is in two batches or in none (settlement.go:75-134, 179-191).    *)
ResultsInOnePlace ==
  \A s \in Symbols : /\ HowManyHeld(s) = Len(Matched(s))
                      /\ WhichHeld(s) = Range(Matched(s))

(* Every order of the chain is settled or refused at least once for every  *)
(* symbol, although results that wait in memory are lost when the process  *)
(* ends: the cursor starts at zero, and the orders come again              *)
(* (subscriber.go:120, settlement.go:113-161).                             *)
EveryOrderIsTried ==
  \A s \in Symbols : \A b \in 1..MaxBlocks : \A k \in 1..2 :
    (b \in DOMAIN chain /\ k \in DOMAIN chain[b] /\ chain[b][k] = "order")
      ~> (<<s, <<b, k>>>> \in tried)
=============================================================================
