----------------------------- MODULE Keygroups -----------------------------
(***************************************************************************)
(* The life of one keygroup (pkg/fred exthandler and replicationservice,   *)
(* pkg/etcdnase/keygroups.go): creating it, deleting it, adding a replica  *)
(* node with a copy of the data and removing one, together with the        *)
(* updates of its items that go on meanwhile.  Each of these requests is a *)
(* sequence of single etcd requests, calls to other nodes and local store  *)
(* operations without any lock across nodes; a step of this module is one  *)
(* of those.  Calls between nodes are single steps here: how the handler   *)
(* of an update interleaves with its caller is the subject of Replication, *)
(* and so is the recovery of a starting node, which is one step here.      *)
(* The messages AddReplica and RemoveReplica between nodes change nothing  *)
(* at their receiver.                                                      *)
(***************************************************************************)
EXTENDS NameService

CONSTANTS
    Client,         \* the clients; each has one request open at a time
    NoNode,         \* "no node"
    Entry,          \* the nodes clients send their requests to
    Ops,            \* the requests used, out of AllOps
    Mutability,     \* what clients ask for when they create the keygroup
    Expiries,       \* the expiries clients ask for
    Remover,        \* the clients that remove replicas
    Strangers,      \* may a node that has no copy be asked to add another?
    Members,        \* the members in the beginning; {} if there is no keygroup
    MaxOps,         \* bound: requests in one behaviour
    MaxCrashes,     \* bound: crashes in one behaviour
    Sequential,     \* do clients wait for each other?
    Faults          \* which of "peer", "nase" calls may fail

AllOps == {"create", "delete", "add", "remove", "update", "getReplica"}

ASSUME KeygroupsAssumption ==
    /\ NoNode \notin Node
    /\ Entry \subseteq Node
    /\ Ops \subseteq AllOps
    /\ Mutability \subseteq BOOLEAN
    /\ Expiries \subseteq 0..MaxInt32
    /\ Remover \subseteq Client
    /\ Strangers \in BOOLEAN
    /\ Members \subseteq Node
    /\ MaxOps \in Nat
    /\ MaxCrashes \in Nat
    /\ Sequential \in BOOLEAN
    /\ Faults \subseteq {"peer", "nase"}

VARIABLES
    up,         \* up[n]: the frednode process n runs
    has,        \* has[n]: the keygroup exists in n's store
    items,      \* items[n][i]: the update whose value n stores; 0 if none
    pc,         \* pc[c]: what the goroutine serving c does next
    req,        \* req[c]: the request of c
    todo,       \* todo[c]: the nodes a loop of the request has still to call
    snap,       \* snap[c]: the items addReplica has read and not yet sent
    ops,        \* history: the number of requests so far, names updates
    crashes,    \* history: the number of crashes
    born,       \* history: the value of ops when the keygroup was created
    latest,     \* history: latest[i], the last update of i a client was told of
    failed      \* history: nodes whose membership a failed request may have left
                \* half changed; its client was told

threadVars == <<pc, req, todo, snap>>
storeVars  == <<has, items>>
histVars   == <<born, latest, failed>>
vars == <<kgVars, failnode, up, storeVars, threadVars, ops, crashes, histVars>>

NoItems == [i \in Id |-> 0]

NoReq == [op |-> "none", at |-> NoNode, target |-> NoNode, mutable |-> FALSE,
          expiry |-> 0, id |-> NoNode, no |-> 0]

Label == {"idle",
          "checkFree", "putMutable", "putExpiry", "putStatus", "clearMembers",
          "putOwn", "createStore",
          "deleteStore", "delExists", "delMembers", "delSend", "putDeleted",
          "addExists", "joinExpiry", "joinNode", "sendCreate", "addMembers",
          "tell", "snapshot", "copy",
          "rmExists", "rmMembers", "rmSend", "rmExit", "putRemoved",
          "updExists", "updMembers", "updSend", "updStore"}

TypeOK ==
    /\ NaSeTypeOK
    /\ up \in [Node -> BOOLEAN]
    /\ has \in [Node -> BOOLEAN]
    /\ items \in [Node -> [Id -> 0..MaxOps]]
    /\ pc \in [Client -> Label]
    /\ \A c \in Client : req[c].op \in AllOps \cup {"none"}
    /\ \A c \in Client : pc[c] = "idle" <=> req[c] = NoReq
    /\ todo \in [Client -> SUBSET Node]
    /\ snap \in [Client -> [Id -> 0..MaxOps]]
    /\ ops \in 0..MaxOps
    /\ crashes \in 0..MaxCrashes
    /\ latest \in [Id -> 0..MaxOps]
    /\ failed \subseteq Node

Init ==
    /\ kgStatus = IF Members = {} THEN "none" ELSE "created"
    /\ kgMutable = TRUE
    /\ kgNode = [n \in Node |-> IF n \in Members THEN "ok" ELSE "none"]
    /\ kgExpiry = [n \in Node |-> 0]
    /\ failnode = {}
    /\ up = [n \in Node |-> TRUE]
    /\ has = [n \in Node |-> n \in Members]
    /\ items = [n \in Node |-> NoItems]
    /\ pc = [c \in Client |-> "idle"]
    /\ req = [c \in Client |-> NoReq]
    /\ todo = [c \in Client |-> {}]
    /\ snap = [c \in Client |-> NoItems]
    /\ ops = 0 /\ crashes = 0 /\ born = 0
    /\ latest = NoItems
    /\ failed = {}

----------------------------------------------------------------------------
(* Helpers *)

Goto(c, label) == pc' = [pc EXCEPT ![c] = label]

At(c) == req[c].at
Target(c) == req[c].target

\* The nodes whose part in the keygroup c's request may leave half changed if
\* it fails now: none if it has changed nothing yet.
Touched(c) ==
    CASE pc[c] \in {"checkFree", "putMutable", "putExpiry", "putStatus", "deleteStore",
                    "addExists", "joinExpiry", "rmExists", "rmMembers"} -> {}
      [] req[c].op \in {"create", "delete"} -> Node
      [] req[c].op \in {"add", "remove"} -> {Target(c)}
      [] OTHER -> {}

\* Faulty variant: the request is not cleared.
ReturnKeeping(c) ==
    /\ Goto(c, "idle")
    /\ todo' = [todo EXCEPT ![c] = {}]
    /\ snap' = [snap EXCEPT ![c] = NoItems]
    /\ UNCHANGED req

\* The goroutine returns to its client, with or without an error.
Return(c) ==
    /\ Goto(c, "idle")
    /\ req' = [req EXCEPT ![c] = NoReq]
    /\ todo' = [todo EXCEPT ![c] = {}]
    /\ snap' = [snap EXCEPT ![c] = NoItems]

ReturnError(c) ==
    /\ Return(c)
    /\ failed' = failed \cup Touched(c)
    /\ UNCHANGED <<born, latest>>

\* settled: nodes whose part in the keygroup is clear again.
ReturnOk(c, settled) ==
    /\ Return(c)
    /\ failed' = failed \ settled
    /\ latest' = IF req[c].op = "update"
                 THEN [latest EXCEPT ![req[c].id] = IF req[c].no > @ THEN req[c].no ELSE @]
                 ELSE latest
    /\ UNCHANGED born

\* A request arrives at node n; ops numbers it.
Request(c, n, op, first) ==
    /\ pc[c] = "idle" /\ up[n] /\ n \in Entry /\ op \in Ops
    /\ ops < MaxOps
    /\ Sequential => \A d \in Client : pc[d] = "idle"
    /\ ops' = ops + 1
    /\ Goto(c, first)
    /\ UNCHANGED <<kgVars, failnode, up, storeVars, todo, snap, crashes, histVars>>

\* A step of the request that stays within the goroutine of c.
Inside(c) == UNCHANGED <<req, ops, crashes, histVars, up>>

\* One etcd request of the code cannot be answered: the request fails.
NaSeLabels == {"checkFree", "putMutable", "putExpiry", "putStatus", "clearMembers",
               "putOwn", "delExists", "delMembers", "delSend", "putDeleted",
               "addExists", "joinExpiry", "joinNode", "addMembers", "tell",
               "rmExists", "rmMembers", "rmExit", "putRemoved",
               "updExists", "updMembers", "updSend"}

NaSeFails(c) ==
    /\ pc[c] \in NaSeLabels /\ "nase" \in Faults
    /\ pc[c] \in {"delSend", "tell", "updSend"} => todo[c] # {}
    /\ ReturnError(c)
    /\ UNCHANGED <<kgVars, failnode, up, storeVars, ops, crashes>>

\* The guard of every relay and of the membership requests.
Exists(c, label, next) ==
    /\ pc[c] = label
    /\ \/ /\ ExistsKeygroup
          /\ Goto(c, next)
          /\ UNCHANGED <<todo, snap>> /\ Inside(c)
       \/ /\ ~ExistsKeygroup
          /\ ReturnError(c)
          /\ UNCHANGED <<up, ops, crashes>>
    /\ UNCHANGED <<kgVars, failnode, storeVars>>

\* The loops over the other members.
OtherMembers(c, label, next) ==
    /\ pc[c] = label
    /\ todo' = [todo EXCEPT ![c] = GetKeygroupMembers(At(c), TRUE)]
    /\ Goto(c, next)
    /\ Inside(c)
    /\ UNCHANGED <<kgVars, failnode, storeVars, snap>>

EndLoop(c, label, next) ==
    /\ pc[c] = label /\ todo[c] = {}
    /\ Goto(c, next)
    /\ Inside(c)
    /\ UNCHANGED <<kgVars, failnode, storeVars, todo, snap>>

----------------------------------------------------------------------------
(* exthandler.HandleCreateKeygroup *)

CreateKeygroup(c, n, mutable, expiry) ==
    /\ mutable \in Mutability /\ expiry \in Expiries
    /\ req' = [req EXCEPT ![c] = [NoReq EXCEPT !.op = "create", !.at = n,
                                  !.mutable = mutable, !.expiry = expiry]]
    /\ Request(c, n, "create", "checkFree")

\* Faulty variant: the status is not looked at.
CheckNothing(c) ==
    /\ pc[c] = "checkFree"
    /\ Goto(c, "putMutable")
    /\ Inside(c)
    /\ UNCHANGED <<kgVars, failnode, storeVars, todo, snap>>

\* Both the replication service and the name service ask for the status, one
\* right after the other; nothing happens in between that the first answer
\* could miss.
CheckFree(c) ==
    /\ pc[c] = "checkFree"
    /\ \/ /\ ~ExistsKeygroup
          /\ Goto(c, "putMutable")
          /\ UNCHANGED <<todo, snap>> /\ Inside(c)
       \/ /\ ExistsKeygroup
          /\ ReturnError(c)
          /\ UNCHANGED <<up, ops, crashes>>
    /\ UNCHANGED <<kgVars, failnode, storeVars>>

PutMutable(c) ==
    /\ pc[c] = "putMutable"
    /\ kgMutable' = req[c].mutable
    /\ Goto(c, "putExpiry")
    /\ Inside(c)
    /\ UNCHANGED <<kgStatus, kgNode, kgExpiry, failnode, storeVars, todo, snap>>

PutExpiry(c) ==
    /\ pc[c] = "putExpiry"
    /\ kgExpiry' = [kgExpiry EXCEPT ![At(c)] = req[c].expiry]
    /\ Goto(c, "putStatus")
    /\ Inside(c)
    /\ UNCHANGED <<kgStatus, kgMutable, kgNode, failnode, storeVars, todo, snap>>

PutStatus(c) ==
    /\ pc[c] = "putStatus"
    /\ kgStatus' = "created"
    /\ born' = ops
    /\ latest' = NoItems
    /\ Goto(c, "clearMembers")
    /\ UNCHANGED <<kgMutable, kgNode, kgExpiry, failnode, up, storeVars, req, todo, snap,
                   ops, crashes, failed>>

\* The members of a deleted keygroup of this name are removed ...
ClearMembers(c) ==
    /\ pc[c] = "clearMembers"
    /\ kgNode' = [n \in Node |-> "none"]
    /\ Goto(c, "putOwn")
    /\ Inside(c)
    /\ UNCHANGED <<kgStatus, kgMutable, kgExpiry, failnode, storeVars, todo, snap>>

\* ... and the node becomes the first member.
PutOwn(c) ==
    /\ pc[c] = "putOwn"
    /\ kgNode' = [kgNode EXCEPT ![At(c)] = "ok"]
    /\ Goto(c, "createStore")
    /\ Inside(c)
    /\ UNCHANGED <<kgStatus, kgMutable, kgExpiry, failnode, storeVars, todo, snap>>

\* storeservice.createKeygroup; it fails if the store has the keygroup.
CreateStore(c) ==
    /\ pc[c] = "createStore"
    /\ \/ /\ ~has[At(c)]
          /\ has' = [has EXCEPT ![At(c)] = TRUE]
          /\ ReturnOk(c, {At(c)})
       \/ /\ has[At(c)]
          /\ ReturnError(c)
          /\ UNCHANGED has
    /\ UNCHANGED <<kgVars, failnode, up, items, ops, crashes>>

CreateStep(c) ==
    \/ CheckFree(c) \/ PutMutable(c) \/ PutExpiry(c) \/ PutStatus(c)
    \/ ClearMembers(c) \/ PutOwn(c) \/ CreateStore(c)

----------------------------------------------------------------------------
(* exthandler.HandleDeleteKeygroup *)

DeleteKeygroup(c, n) ==
    /\ req' = [req EXCEPT ![c] = [NoReq EXCEPT !.op = "delete", !.at = n]]
    /\ Request(c, n, "delete", "deleteStore")

\* Faulty variant: the keygroup's entry is removed, the items are not.
DropEntryOnly(n) ==
    /\ has' = [has EXCEPT ![n] = FALSE]
    /\ UNCHANGED items

\* storeservice.deleteKeygroup: the keygroup and all its items.
Drop(n) ==
    /\ has' = [has EXCEPT ![n] = FALSE]
    /\ items' = [items EXCEPT ![n] = NoItems]

DeleteStore(c) ==
    /\ pc[c] = "deleteStore"
    /\ \/ /\ has[At(c)]
          /\ Drop(At(c))
          /\ Goto(c, "delExists")
          /\ UNCHANGED <<todo, snap>> /\ Inside(c)
       \/ /\ ~has[At(c)]
          /\ ReturnError(c)
          /\ UNCHANGED <<up, storeVars, ops, crashes>>
    /\ UNCHANGED <<kgVars, failnode>>

\* SendDeleteKeygroup to the next member.  A failed call is only logged.
SendDeleteKeygroup(c, m) ==
    /\ pc[c] = "delSend" /\ m \in todo[c]
    /\ \/ up[m] /\ has[m] /\ Drop(m)
       \/ (~up[m] \/ ~has[m] \/ "peer" \in Faults) /\ UNCHANGED storeVars
    /\ todo' = [todo EXCEPT ![c] = @ \ {m}]
    /\ Inside(c)
    /\ UNCHANGED <<kgVars, failnode, pc, snap>>

\* Faulty variant: the status is left alone.
PutNothing(c) ==
    /\ pc[c] = "putDeleted"
    /\ ReturnOk(c, {})
    /\ UNCHANGED <<kgVars, failnode, up, storeVars, ops, crashes>>

PutDeleted(c) ==
    /\ pc[c] = "putDeleted"
    /\ kgStatus' = "deleted"
    /\ ReturnOk(c, {})
    /\ UNCHANGED <<kgMutable, kgNode, kgExpiry, failnode, up, storeVars, ops, crashes>>

DeleteStep(c) ==
    \/ DeleteStore(c)
    \/ Exists(c, "delExists", "delMembers")
    \/ OtherMembers(c, "delMembers", "delSend")
    \/ \E m \in Node : SendDeleteKeygroup(c, m)
    \/ EndLoop(c, "delSend", "putDeleted")
    \/ PutDeleted(c)

----------------------------------------------------------------------------
(* replicationservice.addReplica *)

AddReplica(c, n, target, expiry) ==
    /\ expiry \in Expiries
    /\ Strangers \/ n = target \/ has[n]
    /\ req' = [req EXCEPT ![c] = [NoReq EXCEPT !.op = "add", !.at = n,
                                  !.target = target, !.expiry = expiry]]
    /\ Request(c, n, "add", "addExists")

\* JoinNodeIntoKeygroup; its own check of the status follows the first one.
JoinExpiry(c) ==
    /\ pc[c] = "joinExpiry"
    /\ kgExpiry' = [kgExpiry EXCEPT ![Target(c)] = req[c].expiry]
    /\ Goto(c, "joinNode")
    /\ Inside(c)
    /\ UNCHANGED <<kgStatus, kgMutable, kgNode, failnode, storeVars, todo, snap>>

JoinNode(c) ==
    /\ pc[c] = "joinNode"
    /\ kgNode' = [kgNode EXCEPT ![Target(c)] = "ok"]
    /\ Goto(c, "sendCreate")
    /\ Inside(c)
    /\ UNCHANGED <<kgStatus, kgMutable, kgExpiry, failnode, storeVars, todo, snap>>

\* Faulty variant: a failed call is only logged, as in the other relays.
SendCreateUnchecked(c) ==
    /\ pc[c] = "sendCreate"
    /\ \/ up[Target(c)] /\ ~has[Target(c)] /\ has' = [has EXCEPT ![Target(c)] = TRUE]
       \/ (~up[Target(c)] \/ has[Target(c)] \/ "peer" \in Faults) /\ UNCHANGED has
    /\ Goto(c, "addMembers")
    /\ Inside(c)
    /\ UNCHANGED <<kgVars, failnode, items, todo, snap>>

\* SendCreateKeygroup.  If it fails the node stays a member.
SendCreateKeygroup(c) ==
    /\ pc[c] = "sendCreate"
    /\ \/ /\ up[Target(c)] /\ ~has[Target(c)]
          /\ has' = [has EXCEPT ![Target(c)] = TRUE]
          /\ \/ /\ Goto(c, "addMembers")
                /\ failed' = failed \ {Target(c)}
                /\ UNCHANGED <<todo, snap, req, up, ops, crashes, born, latest>>
             \/ /\ "peer" \in Faults
                /\ ReturnError(c)
                /\ UNCHANGED <<up, ops, crashes>>
       \/ /\ ~up[Target(c)] \/ has[Target(c)] \/ "peer" \in Faults
          /\ ReturnError(c)
          /\ UNCHANGED <<has, up, ops, crashes>>
    /\ UNCHANGED <<kgVars, failnode, items>>

\* Both SendAddReplica calls of one round; an error ends the request.
Tell(c, m) ==
    /\ pc[c] = "tell" /\ m \in todo[c]
    /\ \/ /\ up[m] /\ up[Target(c)]
          /\ todo' = [todo EXCEPT ![c] = @ \ {m}]
          /\ UNCHANGED <<pc, snap>> /\ Inside(c)
       \/ /\ ~up[m] \/ ~up[Target(c)] \/ "peer" \in Faults
          /\ ReturnError(c)
          /\ UNCHANGED <<up, ops, crashes>>
    /\ UNCHANGED <<kgVars, failnode, storeVars>>

\* Faulty variant: the new member may be taken for a source.
SourcesWithSelf(c) ==
    IF At(c) # Target(c) THEN {At(c)} ELSE GetKeygroupMembers(NoNode, FALSE)

\* The node from which the new member gets the items: the node itself, or if
\* that is the new member, another one with the highest expiry.
Sources(c) ==
    IF At(c) # Target(c) THEN {At(c)} ELSE GetNodeWithBiggerExpiry(At(c))

\* readAll or SendGetAllItems, and then IsMutable.
ReadAll(c) ==
    /\ pc[c] = "snapshot"
    /\ \E src \in Sources(c) :
         \/ /\ up[src] /\ has[src]
            /\ snap' = [snap EXCEPT ![c] = items[src]]
            /\ Goto(c, "copy")
            /\ UNCHANGED todo /\ Inside(c)
         \/ /\ \/ ~up[src] \/ ~has[src] \/ (src # At(c) /\ "peer" \in Faults)
               \/ "nase" \in Faults
            /\ ReturnError(c)
            /\ UNCHANGED <<up, ops, crashes>>
    /\ UNCHANGED <<kgVars, failnode, storeVars>>

\* There is no other member, or the name service cannot be asked for it: the
\* new one is empty, and that is no error.
NoSource(c) ==
    /\ pc[c] = "snapshot"
    /\ Sources(c) = {} \/ (At(c) = Target(c) /\ "nase" \in Faults)
    /\ ReturnOk(c, {})
    /\ UNCHANGED <<kgVars, failnode, up, storeVars, ops, crashes>>

\* SendUpdate of item i to node m; a failed call is reported, the report's own
\* failure is only logged.
SendItem(m, i, no) ==
    \/ /\ up[m] /\ has[m]
       /\ items' = [items EXCEPT ![m][i] = no]
       /\ UNCHANGED failnode
    \/ /\ ~up[m] \/ ~has[m] \/ "peer" \in Faults
       /\ ReportFailedNode(m, i) \/ ("nase" \in Faults /\ UNCHANGED failnode)
       /\ UNCHANGED items

Copy(c, i) ==
    /\ pc[c] = "copy" /\ snap[c][i] # 0
    /\ SendItem(Target(c), i, snap[c][i])
    /\ snap' = [snap EXCEPT ![c][i] = 0]
    /\ Inside(c)
    /\ UNCHANGED <<kgVars, has, pc, todo>>

CopyDone(c) ==
    /\ pc[c] = "copy" /\ snap[c] = NoItems
    /\ ReturnOk(c, {})
    /\ UNCHANGED <<kgVars, failnode, up, storeVars, ops, crashes>>

AddStep(c) ==
    \/ Exists(c, "addExists", "joinExpiry")
    \/ JoinExpiry(c) \/ JoinNode(c) \/ SendCreateKeygroup(c)
    \/ OtherMembers(c, "addMembers", "tell")
    \/ \E m \in Node : Tell(c, m)
    \/ EndLoop(c, "tell", "snapshot")
    \/ ReadAll(c) \/ NoSource(c)
    \/ \E i \in Id : Copy(c, i)
    \/ CopyDone(c)

----------------------------------------------------------------------------
(* replicationservice.removeReplica *)

RemoveReplica(c, n, target) ==
    /\ c \in Remover
    /\ req' = [req EXCEPT ![c] = [NoReq EXCEPT !.op = "remove", !.at = n,
                                  !.target = target]]
    /\ Request(c, n, "remove", "rmExists")

\* Faulty variant: the last member may go.
RemovableAny(target) == target \in GetKeygroupMembers(NoNode, FALSE)

\* Only a member, and not the only one.
Removable(target) ==
    /\ target \in GetKeygroupMembers(NoNode, FALSE)
    /\ Cardinality(GetKeygroupMembers(NoNode, FALSE)) > 1

CheckMembers(c) ==
    /\ pc[c] = "rmMembers"
    /\ \/ /\ Removable(Target(c))
          /\ Goto(c, "rmSend")
          /\ UNCHANGED <<todo, snap>> /\ Inside(c)
       \/ /\ ~Removable(Target(c))
          /\ ReturnError(c)
          /\ UNCHANGED <<up, ops, crashes>>
    /\ UNCHANGED <<kgVars, failnode, storeVars>>

\* The node's copy is deleted first.
SendDrop(c) ==
    /\ pc[c] = "rmSend"
    /\ \/ /\ up[Target(c)] /\ has[Target(c)]
          /\ Drop(Target(c))
          /\ \/ /\ Goto(c, "rmExit")
                /\ UNCHANGED <<todo, snap>> /\ Inside(c)
             \/ /\ "peer" \in Faults
                /\ ReturnError(c)
                /\ UNCHANGED <<up, ops, crashes>>
       \/ /\ ~up[Target(c)] \/ ~has[Target(c)] \/ "peer" \in Faults
          /\ ReturnError(c)
          /\ UNCHANGED <<storeVars, up, ops, crashes>>
    /\ UNCHANGED <<kgVars, failnode>>

\* ExitOtherNodeFromKeygroup; the other members are told, which changes nothing.
PutRemoved(c) ==
    /\ pc[c] = "putRemoved"
    /\ kgNode' = [kgNode EXCEPT ![Target(c)] = "removed"]
    /\ ReturnOk(c, {Target(c)}) \/ ("nase" \in Faults /\ ReturnError(c))
    /\ UNCHANGED <<kgStatus, kgMutable, kgExpiry, failnode, up, storeVars, ops, crashes>>

RemoveStep(c) ==
    \/ Exists(c, "rmExists", "rmMembers")
    \/ CheckMembers(c) \/ SendDrop(c)
    \/ Exists(c, "rmExit", "putRemoved")
    \/ PutRemoved(c)

----------------------------------------------------------------------------
(* exthandler.HandleUpdate *)

Update(c, n, i) ==
    /\ IsMutable
    /\ req' = [req EXCEPT ![c] = [NoReq EXCEPT !.op = "update", !.at = n,
                                  !.id = i, !.no = ops + 1]]
    /\ Request(c, n, "update", "updExists")

SendUpdate(c, m) ==
    /\ pc[c] = "updSend" /\ m \in todo[c]
    /\ SendItem(m, req[c].id, req[c].no)
    /\ todo' = [todo EXCEPT ![c] = @ \ {m}]
    /\ Inside(c)
    /\ UNCHANGED <<kgVars, has, pc, snap>>

UpdateStore(c) ==
    /\ pc[c] = "updStore"
    /\ \/ /\ has[At(c)]
          /\ items' = [items EXCEPT ![At(c)][req[c].id] = req[c].no]
          /\ ReturnOk(c, {})
       \/ /\ ~has[At(c)]
          /\ ReturnError(c)
          /\ UNCHANGED items
    /\ UNCHANGED <<kgVars, failnode, up, has, ops, crashes>>

UpdateStep(c) ==
    \/ Exists(c, "updExists", "updMembers")
    \/ OtherMembers(c, "updMembers", "updSend")
    \/ \E m \in Node : SendUpdate(c, m)
    \/ EndLoop(c, "updSend", "updStore")
    \/ UpdateStore(c)

----------------------------------------------------------------------------
(* Crashes and restarts *)

\* The process of n ends; the requests it was serving fail.
Stop(n) ==
    LET lost == {c \in Client : pc[c] # "idle" /\ At(c) = n}
    IN  /\ up' = [up EXCEPT ![n] = FALSE]
        /\ pc' = [c \in Client |-> IF c \in lost THEN "idle" ELSE pc[c]]
        /\ req' = [c \in Client |-> IF c \in lost THEN NoReq ELSE req[c]]
        /\ todo' = [c \in Client |-> IF c \in lost THEN {} ELSE todo[c]]
        /\ snap' = [c \in Client |-> IF c \in lost THEN NoItems ELSE snap[c]]
        /\ failed' = failed \cup UNION {Touched(c) : c \in lost}

Crash(n) ==
    /\ up[n] /\ crashes < MaxCrashes
    /\ crashes' = crashes + 1
    /\ Stop(n)
    /\ UNCHANGED <<kgVars, failnode, storeVars, ops, born, latest>>

\* replicationservice.getReplica of a keygroup that is gone.  It converts an
\* error that is nil before it returns its own, which brings the process down.
\* (A keygroup that exists is listed, which changes nothing; nobody has the
\* permission to ask for one that never existed.)
GetReplica(n) ==
    /\ up[n] /\ n \in Entry /\ "getReplica" \in Ops /\ ops < MaxOps
    /\ Sequential => \A d \in Client : pc[d] = "idle"
    /\ kgStatus = "deleted"
    /\ ops' = ops + 1
    /\ Stop(n)
    /\ UNCHANGED <<kgVars, failnode, storeVars, crashes, born, latest>>

\* fred.New: the node's records are removed, and each item is fetched from
\* another member and stored if that is possible.
Restart(n) ==
    LET missed  == MissedRecords(n)
        sources == GetNodeWithBiggerExpiry(n)
    IN  /\ ~up[n]
        /\ up' = [up EXCEPT ![n] = TRUE]
        /\ failnode' = failnode \ ({n} \X missed)
        /\ \E src \in [missed -> IF sources = {} THEN {NoNode} ELSE sources] :
             LET fetched == {i \in missed : /\ src[i] # NoNode
                                            /\ has[n] /\ up[src[i]]
                                            /\ items[src[i]][i] # 0}
             IN  items' = [items EXCEPT ![n] =
                     [i \in Id |-> IF i \in fetched THEN items[src[i]][i] ELSE @[i]]]
        /\ UNCHANGED <<kgVars, has, threadVars, ops, crashes, histVars>>

----------------------------------------------------------------------------
Step(c) ==
    \/ CreateStep(c) \/ DeleteStep(c) \/ AddStep(c) \/ RemoveStep(c)
    \/ UpdateStep(c) \/ NaSeFails(c)

Arrive(c, n) ==
    \/ \E mutable \in BOOLEAN, e \in Expiries : CreateKeygroup(c, n, mutable, e)
    \/ DeleteKeygroup(c, n)
    \/ \E target \in Node, e \in Expiries : AddReplica(c, n, target, e)
    \/ \E target \in Node : RemoveReplica(c, n, target)
    \/ \E i \in Id : Update(c, n, i)

\* The bounds are used up: the behaviour may end here.
Finished ==
    /\ ops = MaxOps /\ \A c \in Client : pc[c] = "idle"
    /\ \A n \in Node : up[n]
    /\ UNCHANGED vars

Next ==
    \/ \E c \in Client : Step(c)
    \/ \E c \in Client, n \in Node : Arrive(c, n)
    \/ \E n \in Node : Crash(n) \/ GetReplica(n) \/ Restart(n)
    \/ Finished

Spec == Init /\ [][Next]_vars

----------------------------------------------------------------------------
(* Properties *)

Quiet == \A c \in Client : pc[c] = "idle"

Creating == \E c \in Client : pc[c] \in {"clearMembers", "putOwn"}

\* A keygroup that exists has a member (removeReplica refuses to take the last
\* one out, replicationservice.go:458-463): somebody holds its data.
NeverMemberless ==
    kgStatus = "created" /\ ~Creating => GetKeygroupMembers(NoNode, FALSE) # {}

\* When no request is open, exactly the members of a keygroup that exists have
\* a copy, and nobody has a copy of one that does not, unless a request that
\* would have changed the node's part in it has failed.
HoldersAreMembers ==
    Quiet => \A n \in Node \ failed :
                 has[n] <=> (kgStatus = "created" /\ kgNode[n] = "ok")

\* When no request is open, a member without a copy is one that a client was
\* told about, by an error.
NoSilentHole ==
    Quiet /\ kgStatus = "created" =>
        \A n \in GetKeygroupMembers(NoNode, FALSE) : has[n] \/ n \in failed

\* The configuration of a keygroup that exists never changes.
ConfigFixed ==
    [][kgStatus = "created" /\ kgStatus' = "created" => kgMutable' = kgMutable]_vars

\* A member never has an item that was written before the keygroup was created,
\* that is, an item of a deleted keygroup of the same name.
NoOldData ==
    Quiet /\ kgStatus = "created" =>
        \A n \in GetKeygroupMembers(NoNode, FALSE), i \in Id :
            items[n][i] = 0 \/ items[n][i] > born

\* When no request is open, every member that joined without an error has the
\* last update of each item a client was told of, or is recorded as missing it.
UpToSpeed ==
    Quiet /\ kgStatus = "created" =>
        \A n \in GetKeygroupMembers(NoNode, FALSE) \ failed, i \in Id :
            items[n][i] >= latest[i] \/ <<n, i>> \in failnode

============================================================================
