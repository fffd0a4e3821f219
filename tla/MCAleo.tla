------------------------------- MODULE MCAleo -------------------------------
(* Small instances of AleoDex: what was placed on chain before the run.    *)
EXTENDS AleoDex

Placed(side, mode, amount) ==
  [side |-> side, mode |-> mode, price |-> 1, amount |-> amount]

(* Orders of every side and form.                                          *)
Pairs ==
  [Ids -> {Placed(s, m, 1) : s \in {"Buy", "Sell"}, m \in {"public", "private"}}]

PublicPair == [Ids -> {Placed(s, "public", 1) : s \in {"Buy", "Sell"}}]

(* One order of two units, `big`, and orders of one unit on the other side. *)
Split(big, side, mode) ==
  [i \in Ids |-> IF i = big THEN Placed(side, mode, 2)
                 ELSE Placed(IF side = "Buy" THEN "Sell" ELSE "Buy", mode, 1)]

PrivateSplits == {Split(1, "Buy", "private"), Split(3, "Sell", "private")}
PublicSplits == {Split(3, "Sell", "public")}
=============================================================================
