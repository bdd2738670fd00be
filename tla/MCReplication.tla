--------------------------- MODULE MCReplication ---------------------------
(* Instances of Replication for TLC. *)
EXTENDS Replication

CONSTANTS n1, n2, n3, c1, c2, a, b

\* Who writes what: anybody anything, or one writer per item.
AnyWriter == [i \in Id |-> Client]
OneWriter == [i \in Id |-> IF i = b THEN {c2} ELSE {c1}]

\* Expiries: nothing expires, or the items at n2 do.
NoExpiry == [n \in Node |-> 0]
N2Expires == [n \in Node |-> IF n = n2 THEN 5 ELSE 0]

============================================================================
