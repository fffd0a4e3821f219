------------------------------ MODULE MatchLog ------------------------------
(***************************************************************************)
(* What the centralized exchange promises to those who read its results:   *)
(* every order row of a symbol has one result, computed on the book that   *)
(* the rows before it left, however often the process stops and starts.    *)
(* A result is written as the set of the orders matched before it, of      *)
(* which GenMatchResult is a function.  The promise ends with the first    *)
(* row that commits below an id the puller has passed.                     *)
(***************************************************************************)
EXTENDS Naturals

CONSTANT Ids   \* the ids of the order rows

VARIABLES
  rows,   \* the order rows committed so far
  log,    \* the results so far: an order and the book it met
  late    \* a row has committed below an id that was read already

logVars == <<rows, log, late>>

Init == rows = {} /\ log = {} /\ late = FALSE

Below(i) == {j \in rows : j < i}

Arrive(i) ==
  /\ i \notin rows
  /\ rows' = rows \cup {i}
  /\ late' \in {late, TRUE}
  /\ UNCHANGED log

(* The next row gets its result, the only one it will ever have.           *)
Answer(i) ==
  /\ i \in rows
  /\ {r.id : r \in log} = Below(i)
  /\ log' = log \cup {[id |-> i, book |-> Below(i)]}
  /\ UNCHANGED <<rows, late>>

(* After a late row nothing is promised.                                   *)
Unspecified == late /\ late' /\ rows' = rows

Next == Unspecified \/ \E i \in Ids : Arrive(i) \/ Answer(i)

Spec == Init /\ [][Next]_logVars
=============================================================================
