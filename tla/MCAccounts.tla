----------------------------- MODULE MCAccounts -----------------------------
(* Two signups that may share an address, and one key to be created later. *)
EXTENDS Accounts, TLC

CONSTANTS g1, g2, k1, k2, k3, k4

MCMinted == [g \in Signups |->
               IF g = g1 THEN [e \in Envs |-> IF e = "test" THEN k1 ELSE k2]
                         ELSE [e \in Envs |-> IF e = "test" THEN k3 ELSE k4]]

\* Requests and addresses are interchangeable.
MCSymmetry == Permutations(Requests) \union Permutations(Emails)
=============================================================================
