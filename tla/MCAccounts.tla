----------------------------- MODULE MCAccounts -----------------------------
(* Accounts on small sets of users, subjects, flows and requests.           *)
EXTENDS Accounts, TLC

Symmetry == Permutations(Users \ {Dev}) \cup Permutations(Subjects)
            \cup Permutations(Tokens) \cup Permutations(Flows) \cup Permutations(Reqs)
=============================================================================
