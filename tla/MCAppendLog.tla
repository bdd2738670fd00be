----------------------------- MODULE MCAppendLog -----------------------------
(* Small instances of AppendLog for TLC; the .cfg files set the constants. *)
EXTENDS AppendLog

CONSTANTS n1, n2, n3

One == {n1}
Two == {n1, n2}
Three == {n1, n2, n3}
None == {}
StoreFaults == {"peer", "nase", "store"}
==============================================================================
