------------------------------ MODULE MCAnubis ------------------------------
(* Small instances of Anubis.                                              *)
EXTENDS Anubis

(* A block with a log that cannot be decoded, and one with an order only.  *)
SomeBlocks == {<<"short", "order">>, <<"order">>}
=============================================================================
