---------------------------- MODULE ImmutableLog ----------------------------
(***************************************************************************)
(* What an immutable keygroup promises to clients that append to it (the   *)
(* README's "existing keys cannot be updated or deleted" and "a unique and *)
(* incremental identifier is returned to you"): one log for all replicas.  *)
(* An item gets one identifier and an identifier one item, both for good,  *)
(* and a client is told of its identifier only when the item is in the     *)
(* log.                                                                    *)
(***************************************************************************)
CONSTANT Item       \* what can be appended

VARIABLES
    log,    \* pairs <<identifier, item>>
    told    \* the items whose identifier was returned

Init == log = {} /\ told = {}

\* An item appears under an identifier, neither of which is in the log.
Store(p) ==
    /\ p[2] \in Item
    /\ \A q \in log : q[1] # p[1] /\ q[2] # p[2]
    /\ log' = log \cup {p}
    /\ UNCHANGED told

Return(x) ==
    /\ \E p \in log : p[2] = x
    /\ told' = told \cup {x}
    /\ UNCHANGED log

Next == (\E x \in Item : Return(x)) \/ (\E p \in log' : Store(p))

Spec == Init /\ [][Next]_<<log, told>>

=============================================================================
