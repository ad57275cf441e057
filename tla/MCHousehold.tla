---------------------------- MODULE MCHousehold -----------------------------
(* Small instances of Household: members, requests and tokens are names,   *)
(* the members other than the founder are interchangeable.                 *)
EXTENDS Household, TLC

CONSTANTS alice, bob, carol

Names == Permutations(People \ {Founder}) \cup Permutations(Requests)
           \cup Permutations(Tokens)
=============================================================================
