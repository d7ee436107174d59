----------------------------- MODULE MCTransfers -----------------------------
(* Instance of Transfers for TLC: two sends, two prepares and two submits;   *)
(* every request but one carries the same idempotency key.                   *)
EXTENDS Transfers, TLC

CONSTANTS s1, s2, p1, p2, key, unkeyed

MCIdemKey == [t \in Payments |-> IF t = unkeyed THEN NoKey ELSE key]
MCAmount  == [t \in Payments |-> IF t = s2 THEN 2 ELSE 1]
Symmetry  == Permutations(Submits) \union Permutations(Prepares)
=============================================================================
