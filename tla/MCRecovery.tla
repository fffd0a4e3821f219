----------------------------- MODULE MCRecovery -----------------------------
(* Small instances of Recovery.                                            *)
EXTENDS Recovery

(* Two orders over three starts with a write that fails, two orders of     *)
(* which one may come late, and three orders with enough snapshots for one *)
(* to be removed.                                                          *)
Scenarios ==
  {[ids |-> 2, starts |-> 3, ticks |-> 2, fails |-> 1, late |-> 0, chan |-> 2],
   [ids |-> 2, starts |-> 2, ticks |-> 2, fails |-> 0, late |-> 1, chan |-> 2],
   [ids |-> 3, starts |-> 2, ticks |-> 3, fails |-> 0, late |-> 0, chan |-> 1]}
=============================================================================
