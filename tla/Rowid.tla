-------------------------------- MODULE Rowid --------------------------------
(***************************************************************************)
(* The ids of SQLite's INTEGER PRIMARY KEY without AUTOINCREMENT, the form *)
(* every table of the schema uses: a table is a function from ids to rows, *)
(* and an insertion takes the number after the largest one in the table.   *)
(* The id of a deleted last row is therefore handed out again.             *)
(***************************************************************************)
EXTENDS Integers

IsNextId(table, n) ==
    /\ \A i \in DOMAIN table : i < n
    /\ n = 1 \/ n - 1 \in DOMAIN table

Insert(table, n, row) ==
    [i \in DOMAIN table \cup {n} |-> IF i = n THEN row ELSE table[i]]

Without(table, ids) == [i \in DOMAIN table \ ids |-> table[i]]
=============================================================================
