------------------------------- MODULE MCAccounts -------------------------------
(* Accounts with two usernames and a person whose handle is one of them. *)
EXTENDS Accounts, TLC

CONSTANTS ada, bob, gh

MCHandle  == gh :> ada
MCAtStart == {[register |-> TRUE, oauth |-> TRUE]}
MCPatches == {"active" :> FALSE, "active" :> TRUE @@ "admin" :> FALSE}
MCChanges == {"oauth" :> FALSE}
Symmetry  == Permutations(Slots)
================================================================================
