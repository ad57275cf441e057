----------------------------- MODULE MCAccounts -----------------------------
(* Small instances of Accounts: accounts, requests and links are           *)
(* interchangeable names.                                                  *)
EXTENDS Accounts, TLC

Names == Permutations(Users) \cup Permutations(Requests) \cup Permutations(Links)
=============================================================================
