---------------------------- MODULE NameService ----------------------------
(***************************************************************************)
(* The records FReD keeps in etcd (the "NaSe", pkg/etcdnase) about ONE     *)
(* keygroup, and the queries the nodes ask of them.  One etcd key is one   *)
(* piece of state; every etcd request is atomic.  The cache some nodes put *)
(* in front of etcd is the subject of NaSeCache; here it is switched off,  *)
(* which is the default (cmd/frednode --nase-cached).                      *)
(***************************************************************************)
EXTENDS Integers, FiniteSets

CONSTANTS
    Node,       \* the FReD nodes
    Id          \* the ids of the keygroup's items

VARIABLES
    kgStatus,   \* kg|<kg>|status:  "none" (no key), "created" or "deleted"
    kgMutable,  \* kg|<kg>|mutable
    kgNode,     \* kg|<kg>|node|<n>: "none" (no key), "ok" or "removed"
    kgExpiry,   \* kg|<kg>|expiry|<n>, in seconds; a missing key reads as 0
    failnode    \* failnode|<n>|<kg>|<i>: pairs <<n, i>>, "n has missed i"

kgVars == <<kgStatus, kgMutable, kgNode, kgExpiry>>

NaSeTypeOK ==
    /\ kgStatus \in {"none", "created", "deleted"}
    /\ kgMutable \in BOOLEAN
    /\ kgNode \in [Node -> {"none", "ok", "removed"}]
    /\ kgExpiry \in [Node -> Nat]
    /\ failnode \subseteq Node \X Id

----------------------------------------------------------------------------
(* Queries on the keygroup *)

ExistsKeygroup == kgStatus = "created"

IsMutable == kgMutable

\* The members of the keygroup; a node asking to be left out is "self".
GetKeygroupMembers(self, excludeSelf) ==
    {n \in Node : kgNode[n] = "ok" /\ ~(excludeSelf /\ n = self)}

\* An expiry of 0 means "never" and ranks above every other one.
MaxInt32 == 2147483647

\* Faulty variant: 0 taken for the shortest expiry.
RankRaw(expiry) == expiry

Rank(expiry) == IF expiry = 0 THEN MaxInt32 ELSE expiry

\* The nodes GetNodeWithBiggerExpiry may return: the other members with the
\* highest expiry; which of them depends on the iteration order of a Go map.
\* Empty when there is no other member (the code returns an empty address).
GetNodeWithBiggerExpiry(self) ==
    LET others == GetKeygroupMembers(self, TRUE)
    IN  {n \in others : \A m \in others : Rank(kgExpiry[m]) <= Rank(kgExpiry[n])}

----------------------------------------------------------------------------
(* The records of missed items *)

ReportFailedNode(n, i) == failnode' = failnode \cup {<<n, i>>}

\* Faulty variant: returns the etcd keys, not the ids in them.
MissedKeys(n) == {r \in failnode : r[1] = n}

\* RequestNodeStatus first lists the records of the node ...
MissedRecords(n) == {i \in Id : <<n, i>> \in failnode}

\* ... and then removes them from etcd one after the other.
RemoveRecord(n, i) == failnode' = failnode \ {<<n, i>>}

============================================================================
