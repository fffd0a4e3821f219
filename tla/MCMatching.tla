----------------------------- MODULE MCMatching -----------------------------
(* Small instances of Matching: the requests each run submits.             *)
EXTENDS Matching, TLC

CONSTANTS u1, u2

MCUsers == {u1, u2}
MCSymmetry == Permutations(MCUsers)

Limits(users, stps, prices, amounts) ==
  [side: Sides, type: {"Limit"}, user: users, stp: stps, rate: {0},
   price: prices, amount: amounts]

Markets(sides, stps, rates, amounts) ==
  [side: sides, type: {"Market"}, user: {u1}, stp: stps, rate: rates,
   price: {0}, amount: amounts]

Foks(stps, rates, prices, amounts) ==
  [side: Sides, type: {"Fok"}, user: {u1}, stp: stps, rate: rates,
   price: prices, amount: amounts]

(* Self-trade prevention: u1 meets its own orders and those of u2.         *)
StpRequests ==
  Limits({u2}, {"AST"}, {1, 2}, {1, 2})
    \cup Limits({u1}, {"DC", "CO", "CN", "CB"}, {1, 2}, {1, 2})
    \cup Markets({"Buy"}, {"DC", "CO", "CN", "CB"}, {0}, {3})
    \cup Markets({"Sell"}, {"DC"}, {0}, {2})

(* FOK and market orders without self-trade prevention: makers on both     *)
(* sides of a spread, takers with and without a circuit of one half.       *)
Taker(type, side, rate, price_, amount) ==
  [side |-> side, type |-> type, user |-> u1, stp |-> "AST", rate |-> rate,
   price |-> price_, amount |-> amount]

FokRequests ==
  [side: {"Sell"}, type: {"Limit"}, user: {u2}, stp: {"AST"}, rate: {0},
   price: {1, 2}, amount: {1, 2}]
    \cup [side: {"Buy"}, type: {"Limit"}, user: {u2}, stp: {"AST"}, rate: {0},
          price: {1, 2}, amount: {1}]
    \cup {Taker("Fok", "Buy", 0, 2, 3), Taker("Fok", "Buy", 5, 2, 2),
          Taker("Fok", "Buy", 0, 1, 2), Taker("Fok", "Sell", 5, 1, 2),
          Taker("Fok", "Sell", 0, 2, 1),
          Taker("Market", "Buy", 5, 0, 5), Taker("Market", "Buy", 0, 0, 5),
          Taker("Market", "Sell", 5, 0, 2),
          Taker("SystemCancel", "Buy", 0, 1, 1)}

(* The DEX order channel: every order type, with and without self-trade    *)
(* prevention, from clients that choose their SeqIds.                      *)
EveryTypeRequests ==
  Limits({u1}, {"AST"}, {1, 2}, {1, 2}) \cup Markets(Sides, {"CN", "DC"}, {5}, {3})
    \cup Foks({"AST", "CO"}, {5}, {1, 2}, {2})
    \cup {Taker("Ioc", "Buy", 0, 1, 1), Taker("LimitMaker", "Sell", 0, 1, 1),
          Taker("SystemCancel", "Buy", 0, 1, 1)}

(* FOK orders that meet their owner's resting orders.                      *)
FokStpRequests ==
  Limits(MCUsers, {"AST"}, {1}, {1})
    \cup Foks({"DC", "CO", "CN", "CB"}, {0}, {1}, {2})

MCBatchLists == {<<>>, <<1, 2>>, <<2, 2>>}
=============================================================================
