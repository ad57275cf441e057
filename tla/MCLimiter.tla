------------------------------ MODULE MCLimiter ------------------------------
(* Small instances of Limiter: keys and requests are interchangeable.      *)
EXTENDS Limiter, TLC

Names == Permutations(Keys) \cup Permutations(Requests)
=============================================================================
