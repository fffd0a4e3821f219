------------------------------ MODULE MCQuotes ------------------------------
(* Small instances of Quotes.                                              *)
EXTENDS Quotes, TLC

(* Klines of a minute and of two minutes, which stand for all the periods  *)
(* of a fixed length.                                                      *)
FixedTypes == {"1min", "2min"}
FixedStep == ("1min" :> 1) @@ ("2min" :> 2)
FixedStarts == ("1min" :> -1..3) @@ ("2min" :> {-2, 0, 2})

(* Every result fills four times; the open, close, high and low of a bar   *)
(* are then different.                                                     *)
FourFills == {<<2, 4, 1, 3>>}

(* The instance is one the theorems about the klines hold of, and both     *)
(* periods are long enough for the two windows of a snapshot.              *)
ASSUME InstanceReachesBack ==
  MemoryReachesBack /\ CacheReachesBack /\ LongPeriods = Types
=============================================================================
