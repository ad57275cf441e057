------------------------------- MODULE MCSeries -------------------------------
(* Series on a two-day week and three days, small enough for TLC. *)
EXTENDS Series, TLC

CONSTANTS u1, u2, x

MCMembers == {u1, u2}
MCShapes == {x}
MCRules == {[on |-> {}, until |-> Forever], [on |-> {0, 1}, until |-> 2]}
Perms == Permutations(MCMembers)
=============================================================================
