---------------------------- MODULE MCSessionKeys ----------------------------
(* Instance of SessionKeys for TLC: one key on a platform-custody wallet and *)
(* one on a user-custody wallet.                                             *)
EXTENDS SessionKeys

CONSTANTS kp, ku

MCCustody == [k \in Keys |-> IF k = kp THEN "platform" ELSE "user"]
=============================================================================
