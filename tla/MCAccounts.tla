----------------------------- MODULE MCAccounts -----------------------------
(* Instances of Accounts.                                                  *)
EXTENDS Accounts, TLC

MCRates == [auth |-> 1]

Symmetry ==
    Permutations(Request) \cup Permutations(Process) \cup
    Permutations(Name) \cup Permutations(Mail)
=============================================================================
