----------------------------- MODULE MCBulkWalk -----------------------------
(* A small instance of BulkWalk: two tables of two rows, and their parts.  *)
EXTENDS BulkWalk

Tables == {<<1>>, <<1, 1>>, <<1, 2>>, <<2>>, <<2, 1>>, <<2, 2>>}
=============================================================================
