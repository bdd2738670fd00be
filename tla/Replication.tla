---------------------------- MODULE Replication ----------------------------
(***************************************************************************)
(* The data path of one mutable FReD keygroup (pkg/fred): a client's       *)
(* update or delete at some node (exthandler), its relay to the other      *)
(* members one peering RPC at a time (replicationservice, peering), the    *)
(* handlers at those members (inthandler), the triggers both sides call,   *)
(* the records of missed items in the name service, and the recovery a     *)
(* node runs from those records when it starts (fred.New).                 *)
(*                                                                         *)
(* A thread stands for one client and the goroutine serving its current    *)
(* request; its steps interleave with every other thread, with the peers'  *)
(* handlers, with crashes and with recoveries.  Writes are numbered in the *)
(* order in which they are accepted, and the number is the value written.  *)
(* A request the node rejects before it does anything (no permission,      *)
(* immutable keygroup, delete of an absent item) changes no state and is   *)
(* not a step.                                                             *)
(***************************************************************************)
EXTENDS NameService, Sequences

CONSTANTS
    Client,         \* the clients; each has one request open at a time
    NoNode,         \* "no RPC open"
    Entry,          \* the nodes clients send their requests to
    Writer,         \* Writer[i]: the clients that write item i
    Ops,            \* the operations used: {"update"} or {"update", "delete"}
    MaxWrites,      \* bound: writes accepted in one behaviour
    Members,        \* the nodes that are members of the keygroup
    Hosting,        \* the nodes that have the keygroup in their store
    Expiry,         \* Expiry[n]: the expiry n keeps the keygroup with
    HasTrigger,     \* the nodes with a trigger for the keygroup
    Crashable,      \* the nodes that may crash and be restarted
    BusyRestart,    \* may a node restart while requests are open?
    CrashInRecovery,\* may a node crash while it is starting?
    Faults          \* which of "peer", "nase", "trigger" calls may fail

Write == 1..MaxWrites

ASSUME ReplicationAssumption ==
    /\ NoNode \notin Node
    /\ Entry \subseteq Node
    /\ Writer \in [Id -> SUBSET Client]
    /\ Ops \subseteq {"update", "delete"}
    /\ MaxWrites \in Nat
    /\ Members \subseteq Node
    /\ Hosting \subseteq Node
    /\ Expiry \in [Node -> Nat] /\ \A n \in Node : Expiry[n] <= MaxInt32
    /\ HasTrigger \subseteq Node
    /\ Crashable \subseteq Node
    /\ BusyRestart \in BOOLEAN
    /\ CrashInRecovery \in BOOLEAN
    /\ Faults \subseteq {"peer", "nase", "trigger"}

VARIABLES
    nodeState,  \* "up", "down", or "starting": running fred.New
    has,        \* has[n]: the keygroup exists in n's store
    items,      \* items[n][i]: the write whose value n stores; 0 if none
    forgetting, \* records a starting node has listed, not yet removed
    missed,     \* items a starting node has still to fetch
    pc,         \* pc[c]: what the goroutine serving c does next
    cur,        \* cur[c]: the write c has asked for; 0 if none
    todo,       \* todo[c]: the members the relay has not called yet
    tgt,        \* tgt[c]: the member the relay is calling, or NoNode
    rpc,        \* rpc[w][m]: state of the RPC that carries w to m
    log,        \* history: the writes accepted, log[w] = [id, op, via]
    peers,      \* history: the members w was to be relayed to
    applied,    \* history: <<w, m>>, m's store has executed w
    notified,   \* history: <<w, m>>, the trigger at m has been told of w
    reported,   \* history: <<w, m>>, w has been reported as missed by m
    taken,      \* history: <<w, m>>, m has consumed the report about w
    acked       \* history: the writes reported as successful to the client

threadVars   == <<pc, cur, todo, tgt>>
nodeVars     == <<nodeState, has, items>>
recoveryVars == <<forgetting, missed>>
histVars     == <<log, peers, applied, notified, reported, taken, acked>>
vars == <<kgVars, failnode, nodeVars, recoveryVars, threadVars, rpc, histVars>>

Request == [id : Id, op : Ops, via : Entry]

RpcState == {"none", "sent", "stored", "ok", "err", "lost"}

TypeOK ==
    /\ NaSeTypeOK
    /\ nodeState \in [Node -> {"up", "down", "starting"}]
    /\ has \in [Node -> BOOLEAN]
    /\ items \in [Node -> [Id -> 0..Len(log)]]
    /\ forgetting \in [Node -> SUBSET Id]
    /\ missed \in [Node -> SUBSET Id]
    /\ pc \in [Client -> {"idle", "relay", "send", "wait", "report",
                          "store", "trigger"}]
    /\ cur \in [Client -> 0..Len(log)]
    /\ todo \in [Client -> SUBSET Node]
    /\ tgt \in [Client -> Node \cup {NoNode}]
    /\ rpc \in [Write -> [Node -> RpcState]]
    /\ log \in Seq(Request)
    /\ Len(log) <= MaxWrites
    /\ peers \in [Write -> SUBSET Node]
    /\ applied \subseteq Write \X Node
    /\ notified \subseteq Write \X Node
    /\ reported \subseteq Write \X Node
    /\ taken \subseteq Write \X Node
    /\ acked \subseteq Write

Init ==
    /\ kgStatus = "created"
    /\ kgMutable = TRUE
    /\ kgNode = [n \in Node |-> IF n \in Members THEN "ok" ELSE "none"]
    /\ kgExpiry = Expiry
    /\ failnode = {}
    /\ nodeState = [n \in Node |-> "up"]
    /\ has = [n \in Node |-> n \in Hosting]
    /\ items = [n \in Node |-> [i \in Id |-> 0]]
    /\ forgetting = [n \in Node |-> {}]
    /\ missed = [n \in Node |-> {}]
    /\ pc = [c \in Client |-> "idle"]
    /\ cur = [c \in Client |-> 0]
    /\ todo = [c \in Client |-> {}]
    /\ tgt = [c \in Client |-> NoNode]
    /\ rpc = [w \in Write |-> [m \in Node |-> "none"]]
    /\ log = <<>>
    /\ peers = [w \in Write |-> {}]
    /\ applied = {}
    /\ notified = {}
    /\ reported = {}
    /\ taken = {}
    /\ acked = {}

----------------------------------------------------------------------------
(* Helpers *)

\* The node that serves c's request, and what the request is.
At(c) == log[cur[c]].via
ReqOp(c) == log[cur[c]].op
ReqId(c) == log[cur[c]].id

\* What the store holds for an item once write w has been executed.
Val(w) == IF log[w].op = "update" THEN w ELSE 0

\* storeservice update/delete at node n: execute w on the item.
StoreWrite(n, w) ==
    /\ items' = [items EXCEPT ![n][log[w].id] = Val(w)]
    /\ applied' = applied \cup {<<w, n>>}

\* The request ends: the goroutine returns to its client.
End(c) ==
    /\ pc' = [pc EXCEPT ![c] = "idle"]
    /\ cur' = [cur EXCEPT ![c] = 0]
    /\ todo' = [todo EXCEPT ![c] = {}]
    /\ tgt' = [tgt EXCEPT ![c] = NoNode]

Goto(c, label) == pc' = [pc EXCEPT ![c] = label]

\* triggerUpdate / triggerDelete at n for write w: the keygroup is looked up in
\* the store, then its triggers are called.  A call that fails may still have
\* reached the trigger.
TriggerSucceeds(n, w) ==
    /\ has[n]
    /\ notified' = IF n \in HasTrigger THEN notified \cup {<<w, n>>} ELSE notified

TriggerFails(n, w) ==
    \/ ~has[n] /\ UNCHANGED notified
    \/ /\ has[n] /\ n \in HasTrigger /\ "trigger" \in Faults
       /\ notified' \in {notified, notified \cup {<<w, n>>}}

----------------------------------------------------------------------------
(* The client interface: exthandler.HandleUpdate and HandleDelete *)

Accept(c, n, i, op, first) ==
    /\ pc[c] = "idle"
    /\ nodeState[n] = "up"
    /\ n \in Entry /\ c \in Writer[i] /\ op \in Ops
    /\ BusyRestart \/ \A m \in Node : nodeState[m] # "starting"
    /\ Len(log) < MaxWrites
    /\ IsMutable
    /\ log' = Append(log, [id |-> i, op |-> op, via |-> n])
    /\ cur' = [cur EXCEPT ![c] = Len(log) + 1]
    /\ Goto(c, first)
    /\ UNCHANGED <<kgVars, failnode, nodeVars, recoveryVars, todo, tgt, rpc,
                   peers, applied, notified, reported, taken, acked>>

\* An update is relayed first, then stored, then the triggers are called ...
HandleUpdate(c, n, i) == Accept(c, n, i, "update", "relay")

\* ... a delete is stored first.  The item has to exist.
HandleDelete(c, n, i) == items[n][i] # 0 /\ Accept(c, n, i, "delete", "store")

AfterRelay(c) == IF ReqOp(c) = "update" THEN "store" ELSE "trigger"
AfterStore(c) == IF ReqOp(c) = "update" THEN "trigger" ELSE "relay"

\* relayUpdate, relayDelete: ask the name service for the other members.
RelayMembers(c) ==
    /\ pc[c] = "relay"
    /\ ExistsKeygroup
    /\ LET others == GetKeygroupMembers(At(c), TRUE)
       IN  /\ peers' = [peers EXCEPT ![cur[c]] = others]
           /\ todo' = [todo EXCEPT ![c] = others]
    /\ Goto(c, "send")
    /\ UNCHANGED <<kgVars, failnode, nodeVars, recoveryVars, cur, tgt, rpc,
                   log, applied, notified, reported, taken, acked>>

\* The name service does not know the keygroup, or cannot be asked: for the
\* keygroup and its members, or for the address of the next one in the loop.
\* The request fails, whatever has been relayed by then.
RelayAborts(c) ==
    /\ \/ pc[c] = "relay" /\ (~ExistsKeygroup \/ "nase" \in Faults)
       \/ pc[c] = "send" /\ todo[c] # {} /\ "nase" \in Faults
    /\ End(c)
    /\ UNCHANGED <<kgVars, failnode, nodeVars, recoveryVars, rpc, histVars>>

\* SendUpdate / SendDelete to the next member, in the order of a Go map.
Send(c, m) ==
    /\ pc[c] = "send" /\ m \in todo[c]
    /\ rpc' = [rpc EXCEPT ![cur[c]][m] = "sent"]
    /\ todo' = [todo EXCEPT ![c] = @ \ {m}]
    /\ tgt' = [tgt EXCEPT ![c] = m]
    /\ Goto(c, "wait")
    /\ UNCHANGED <<kgVars, failnode, nodeVars, recoveryVars, cur, histVars>>

\* The call has returned without an error.
SendReturns(c) ==
    /\ pc[c] = "wait" /\ rpc[cur[c]][tgt[c]] = "ok"
    /\ tgt' = [tgt EXCEPT ![c] = NoNode]
    /\ Goto(c, "send")
    /\ UNCHANGED <<kgVars, failnode, nodeVars, recoveryVars, cur, todo, rpc, histVars>>

\* Faulty variant: only an error answered by the peer counts as a failure.
SendFailsOnError(c) ==
    /\ pc[c] = "wait"
    /\ rpc[cur[c]][tgt[c]] = "err"
    /\ Goto(c, "report")
    /\ UNCHANGED <<kgVars, failnode, nodeVars, recoveryVars, cur, todo, tgt, rpc, histVars>>

\* The call has failed: the peer answered with an error, the connection broke,
\* or ("peer" faults) the request or its answer is lost; then the peer may
\* still execute the call later.
SendFails(c) ==
    /\ pc[c] = "wait"
    /\ rpc[cur[c]][tgt[c]] \in {"err", "lost"} \/ "peer" \in Faults
    /\ Goto(c, "report")
    /\ UNCHANGED <<kgVars, failnode, nodeVars, recoveryVars, cur, todo, tgt, rpc, histVars>>

\* Faulty variant: the failure is not reported.
ReportNothing(c) ==
    /\ pc[c] = "report"
    /\ tgt' = [tgt EXCEPT ![c] = NoNode]
    /\ Goto(c, "send")
    /\ UNCHANGED <<kgVars, failnode, nodeVars, recoveryVars, cur, todo, rpc, histVars>>

\* reportNodeFail: an error of the name service is logged and forgotten.
Report(c) ==
    /\ pc[c] = "report"
    /\ \/ /\ ReportFailedNode(tgt[c], ReqId(c))
          /\ reported' = reported \cup {<<cur[c], tgt[c]>>}
       \/ "nase" \in Faults /\ UNCHANGED <<failnode, reported>>
    /\ tgt' = [tgt EXCEPT ![c] = NoNode]
    /\ Goto(c, "send")
    /\ UNCHANGED <<kgVars, nodeVars, recoveryVars, cur, todo, rpc,
                   log, peers, applied, notified, taken, acked>>

RelayDone(c) ==
    /\ pc[c] = "send" /\ todo[c] = {}
    /\ Goto(c, AfterRelay(c))
    /\ UNCHANGED <<kgVars, failnode, nodeVars, recoveryVars, cur, todo, tgt, rpc, histVars>>

\* storeservice update / delete at the node itself ...
StoreLocal(c) ==
    /\ pc[c] = "store" /\ has[At(c)]
    /\ StoreWrite(At(c), cur[c])
    /\ Goto(c, AfterStore(c))
    /\ UNCHANGED <<kgVars, failnode, nodeState, has, recoveryVars, cur, todo, tgt, rpc,
                   log, peers, notified, reported, taken, acked>>

\* ... which fails when the node does not hold the keygroup, although an
\* update has been relayed to every member by then.
StoreLocalFails(c) ==
    /\ pc[c] = "store" /\ ~has[At(c)]
    /\ End(c)
    /\ UNCHANGED <<kgVars, failnode, nodeVars, recoveryVars, rpc, histVars>>

\* The triggers, and the answer to the client.
TriggerLocal(c) ==
    /\ pc[c] = "trigger"
    /\ \/ TriggerSucceeds(At(c), cur[c]) /\ acked' = acked \cup {cur[c]}
       \/ TriggerFails(At(c), cur[c]) /\ UNCHANGED acked
    /\ End(c)
    /\ UNCHANGED <<kgVars, failnode, nodeVars, recoveryVars, rpc,
                   log, peers, applied, reported, taken>>

----------------------------------------------------------------------------
(* The peering interface: inthandler.HandleUpdate and HandleDelete *)

\* The handler at m executes the write in m's store (for an update it asks the
\* name service for the expiry first) ...
RemoteStore(w, m) ==
    /\ rpc[w][m] = "sent" /\ nodeState[m] = "up"
    /\ \/ /\ has[m]
          /\ StoreWrite(m, w)
          /\ rpc' = [rpc EXCEPT ![w][m] = "stored"]
       \/ /\ ~has[m] \/ (log[w].op = "update" /\ "nase" \in Faults)
          /\ rpc' = [rpc EXCEPT ![w][m] = "err"]
          /\ UNCHANGED <<items, applied>>
    /\ UNCHANGED <<kgVars, failnode, nodeState, has, recoveryVars, threadVars,
                   log, peers, notified, reported, taken, acked>>

\* Faulty variant: the error of a trigger is dropped.
RemoteTriggerIgnored(w, m) ==
    /\ rpc[w][m] = "stored"
    /\ TriggerSucceeds(m, w) \/ TriggerFails(m, w)
    /\ rpc' = [rpc EXCEPT ![w][m] = "ok"]
    /\ UNCHANGED <<kgVars, failnode, nodeVars, recoveryVars, threadVars,
                   log, peers, applied, reported, taken, acked>>

\* ... and calls m's triggers; if that fails the caller gets an error although
\* the write is in the store.
RemoteTrigger(w, m) ==
    /\ rpc[w][m] = "stored"
    /\ \/ TriggerSucceeds(m, w) /\ rpc' = [rpc EXCEPT ![w][m] = "ok"]
       \/ TriggerFails(m, w) /\ rpc' = [rpc EXCEPT ![w][m] = "err"]
    /\ UNCHANGED <<kgVars, failnode, nodeVars, recoveryVars, threadVars,
                   log, peers, applied, reported, taken, acked>>

\* A call to a node that is not serving fails.
ConnectionRefused(w, m) ==
    /\ rpc[w][m] = "sent" /\ nodeState[m] # "up"
    /\ rpc' = [rpc EXCEPT ![w][m] = "lost"]
    /\ UNCHANGED <<kgVars, failnode, nodeVars, recoveryVars, threadVars, histVars>>

----------------------------------------------------------------------------
(* Crash, and fred.New when the node is started again *)

Idle(c) == pc[c] = "idle"

\* The threads node n is serving.
Serving(n) == {c \in Client : ~Idle(c) /\ At(c) = n}

\* The process stops between two steps: its goroutines, the calls it is
\* executing and the recovery it is running are gone, its store stays.  Calls
\* its goroutines have sent are executed nevertheless.
Crash(n) ==
    /\ n \in Crashable
    /\ nodeState[n] = "up" \/ (nodeState[n] = "starting" /\ CrashInRecovery)
    /\ nodeState' = [nodeState EXCEPT ![n] = "down"]
    /\ forgetting' = [forgetting EXCEPT ![n] = {}]
    /\ missed' = [missed EXCEPT ![n] = {}]
    /\ pc' = [c \in Client |-> IF c \in Serving(n) THEN "idle" ELSE pc[c]]
    /\ cur' = [c \in Client |-> IF c \in Serving(n) THEN 0 ELSE cur[c]]
    /\ todo' = [c \in Client |-> IF c \in Serving(n) THEN {} ELSE todo[c]]
    /\ tgt' = [c \in Client |-> IF c \in Serving(n) THEN NoNode ELSE tgt[c]]
    /\ rpc' = [w \in Write |-> [m \in Node |->
                  IF m = n /\ rpc[w][m] \in {"sent", "stored"}
                  THEN "lost" ELSE rpc[w][m]]]
    /\ UNCHANGED <<kgVars, failnode, has, items, histVars>>

\* Faulty variant: starts without asking for the records.
RestartBlind(n) ==
    /\ nodeState[n] = "down"
    /\ BusyRestart \/ \A c \in Client : Idle(c)
    /\ nodeState' = [nodeState EXCEPT ![n] = "starting"]
    /\ UNCHANGED <<kgVars, failnode, has, items, recoveryVars, threadVars, rpc, histVars>>

\* fred.New asks for the records about this node; if that fails the node
\* starts as if there were none.
Restart(n) ==
    /\ nodeState[n] = "down"
    /\ BusyRestart \/ \A c \in Client : Idle(c)
    /\ nodeState' = [nodeState EXCEPT ![n] = "starting"]
    /\ \/ forgetting' = [forgetting EXCEPT ![n] = MissedRecords(n)]
       \/ "nase" \in Faults /\ UNCHANGED forgetting
    /\ UNCHANGED <<kgVars, failnode, has, items, missed, threadVars, rpc, histVars>>

\* Faulty variant: the record is removed and the item not remembered.
ForgetOnly(n, i) ==
    /\ nodeState[n] = "starting" /\ i \in forgetting[n]
    /\ forgetting' = [forgetting EXCEPT ![n] = @ \ {i}]
    /\ RemoveRecord(n, i)
    /\ taken' = taken \cup {r \in reported : r[2] = n /\ log[r[1]].id = i}
    /\ UNCHANGED <<kgVars, nodeVars, missed, threadVars, rpc,
                   log, peers, applied, notified, reported, acked>>

\* RequestNodeStatus removes each record it has listed from the name service,
\* before any item is fetched.  A removal that fails leaves the record.
Forget(n, i) ==
    /\ nodeState[n] = "starting" /\ i \in forgetting[n]
    /\ forgetting' = [forgetting EXCEPT ![n] = @ \ {i}]
    /\ missed' = [missed EXCEPT ![n] = @ \cup {i}]
    /\ \/ /\ RemoveRecord(n, i)
          /\ taken' = taken \cup
                 {r \in reported : r[2] = n /\ log[r[1]].id = i}
       \/ "nase" \in Faults /\ UNCHANGED <<failnode, taken>>
    /\ UNCHANGED <<kgVars, nodeVars, threadVars, rpc,
                   log, peers, applied, notified, reported, acked>>

\* The item is read at the member with the biggest expiry (inthandler.HandleGet
\* there) and stored; triggers are not called.
Fetch(n, i) ==
    /\ nodeState[n] = "starting" /\ forgetting[n] = {} /\ i \in missed[n]
    /\ \E s \in GetNodeWithBiggerExpiry(n) :
          /\ nodeState[s] = "up" /\ has[s] /\ items[s][i] # 0 /\ has[n]
          /\ items' = [items EXCEPT ![n][i] = items[s][i]]
    /\ missed' = [missed EXCEPT ![n] = @ \ {i}]
    /\ UNCHANGED <<kgVars, failnode, nodeState, has, forgetting, threadVars, rpc, histVars>>

\* Faulty variant: an item that cannot be fetched is tried again and again.
FetchRetries(n, i) ==
    /\ nodeState[n] = "starting" /\ forgetting[n] = {} /\ i \in missed[n]
    /\ UNCHANGED vars

\* No member to ask, the call fails (member down, "peer" faults), or the member
\* does not have the item: the item is skipped and its record is gone.
FetchFails(n, i) ==
    /\ nodeState[n] = "starting" /\ forgetting[n] = {} /\ i \in missed[n]
    /\ \/ GetNodeWithBiggerExpiry(n) = {}
       \/ \E s \in GetNodeWithBiggerExpiry(n) :
             nodeState[s] # "up" \/ ~has[s] \/ items[s][i] = 0
       \/ ~has[n]
       \/ Faults \cap {"peer", "nase"} # {}
    /\ missed' = [missed EXCEPT ![n] = @ \ {i}]
    /\ UNCHANGED <<kgVars, failnode, nodeVars, forgetting, threadVars, rpc, histVars>>

\* fred.New returns; main starts the two servers.
Serve(n) ==
    /\ nodeState[n] = "starting" /\ forgetting[n] = {} /\ missed[n] = {}
    /\ nodeState' = [nodeState EXCEPT ![n] = "up"]
    /\ UNCHANGED <<kgVars, failnode, has, items, recoveryVars, threadVars, rpc, histVars>>

\* The store drops an item whose expiry has passed.
Expire(n, i) ==
    /\ kgExpiry[n] # 0 /\ items[n][i] # 0
    /\ items' = [items EXCEPT ![n][i] = 0]
    /\ UNCHANGED <<kgVars, failnode, nodeState, has, recoveryVars, threadVars, rpc, histVars>>

----------------------------------------------------------------------------
(* The system *)

\* Everything asked for has been done.
Done ==
    /\ Len(log) = MaxWrites \/ \A i \in Id : Writer[i] = {}
    /\ \A c \in Client : Idle(c)
    /\ UNCHANGED vars

ThreadStep(c) ==
    \/ RelayMembers(c)
    \/ RelayAborts(c)
    \/ \E m \in Node : Send(c, m)
    \/ SendReturns(c)
    \/ SendFails(c)
    \/ Report(c)
    \/ RelayDone(c)
    \/ StoreLocal(c)
    \/ StoreLocalFails(c)
    \/ TriggerLocal(c)

RemoteStep(w, m) ==
    \/ RemoteStore(w, m)
    \/ RemoteTrigger(w, m)
    \/ ConnectionRefused(w, m)

RecoveryStep(n) ==
    \/ \E i \in Id : Forget(n, i) \/ Fetch(n, i) \/ FetchFails(n, i)
    \/ Serve(n)

Next ==
    \/ \E c \in Client, n \in Node, i \in Id :
          HandleUpdate(c, n, i) \/ HandleDelete(c, n, i)
    \/ \E c \in Client : ThreadStep(c)
    \/ \E w \in Write, m \in Node : RemoteStep(w, m)
    \/ \E n \in Node : Crash(n) \/ Restart(n) \/ RecoveryStep(n)
    \/ \E n \in Node, i \in Id : Expire(n, i)
    \/ Done

Spec == Init /\ [][Next]_vars

\* Goroutines, handlers and recoveries keep running, and a broken connection
\* is noticed.  Nothing forces a client to write or a node to crash.
Fairness ==
    /\ \A c \in Client : WF_vars(ThreadStep(c))
    /\ \A w \in Write, m \in Node : WF_vars(RemoteStep(w, m))
    /\ \A n \in Node : WF_vars(RecoveryStep(n))

FairSpec == Spec /\ Fairness

\* In addition every crashed node is started again at some point.
Operated == FairSpec /\ \A n \in Node : WF_vars(Restart(n))

----------------------------------------------------------------------------
(* Properties *)

\* Replica m has been told to expect i: the record of the missed item is in the
\* name service, or m is recovering and has the item on its list.
Pending(m, i) == <<m, i>> \in failnode \/ i \in forgetting[m] \/ i \in missed[m]

\* The replicas an accepted write is for: the node that served it and the
\* members it was relayed to.
Replicas(w) == peers[w] \cup {log[w].via}

\* m stores what w, or a write to the same item accepted after w, left there.
Holds(m, w) ==
    \E v \in w..Len(log) :
        log[v].id = log[w].id /\ items[m][log[w].id] = Val(v)

\* A write reported as successful has been executed by the node that served it
\* and by every other member, except those for which the name service has, or
\* had until the member itself consumed it, a record of the missed item.  Holds
\* for every interleaving, crash, lost call and failing trigger; only failures
\* of the name service are excluded, because relayUpdate and relayDelete drop
\* the error of reportNodeFail (replicationservice.go 175-181).
AckedAccounted ==
    "nase" \notin Faults =>
        \A w \in acked : \A m \in Replicas(w) :
            \/ <<w, m>> \in applied
            \/ m # log[w].via
               /\ (<<m, log[w].id>> \in failnode \/ <<w, m>> \in taken)

\* A write reported as successful has been passed on to the triggers of every
\* member that has some, except where the member is recorded as having missed it
\* (triggerUpdate and triggerDelete failing at a member is a failed call for the
\* sender, inthandler.go 81-100, and the member is recorded).
AckedTriggered ==
    "nase" \notin Faults =>
        \A w \in acked : \A m \in Replicas(w) \cap HasTrigger :
            \/ <<w, m>> \in notified
            \/ m # log[w].via
               /\ (<<m, log[w].id>> \in failnode \/ <<w, m>> \in taken)

\* No replica is stale without knowing: where a write was reported as
\* successful, each of its replicas (without expiry) stores that write or a later
\* one, or will still be told to fetch the item.  This is what ReportFailedNode
\* promises: the node "has missed an update to a keygroup that it will get
\* another time" (etcdnase/failednodes.go:12).
NoSilentStaleness ==
    \A w \in acked : \A m \in Replicas(w) :
        kgExpiry[m] = 0 => Holds(m, w) \/ Pending(m, log[w].id)

\* No call to a peer is being sent, executed or awaited.
Settled ==
    /\ \A c \in Client : Idle(c)
    /\ \A w \in Write, m \in Node : rpc[w][m] \notin {"sent", "stored"}

\* Once no request is open the replicas without expiry that have nothing to
\* catch up with store the same items (the integration test's "all updates
\* arrive, both nodes have the same data").
SameData ==
    Settled =>
        \A m, n \in Members : \A i \in Id :
            /\ kgExpiry[m] = 0 /\ kgExpiry[n] = 0
            /\ ~Pending(m, i) /\ ~Pending(n, i)
            => items[m][i] = items[n][i]

\* Every request is answered: RPCs have no deadline (context.Background() in
\* peering/client.go), yet no goroutine waits for ever for a peer that crashed.
RequestsEnd == \A c \in Client : ~Idle(c) ~> Idle(c)

\* A node that is started again finishes its recovery, or is stopped again.
RecoveryEnds == \A n \in Node : nodeState[n] = "starting" ~> nodeState[n] # "starting"

\* Every write reported as successful reaches every replica it was relayed to,
\* also the ones that were down at the time.
Converges ==
    \A w \in Write, m \in Node :
        w \in acked /\ m \in Replicas(w) /\ kgExpiry[m] = 0 ~> Holds(m, w)

\* The circumstances under which the recovery protocol keeps its promise: no
\* call fails but those to a crashed node; an item has a single writer; clients
\* use nodes that do not crash; only one node does; restarts happen
\* while no request is open; there is a member without expiry that does not
\* crash, and none with the one expiry that ranks as high (a node could fetch
\* from it what has expired there); and either nothing is deleted or nothing
\* crashes.
QuietEnv ==
    /\ Faults = {}
    /\ ~BusyRestart /\ ~CrashInRecovery
    /\ \A i \in Id : \A c, d \in Writer[i] : c = d
    /\ Entry \cap Crashable = {}
    /\ \A m, n \in Crashable : m = n
    /\ Members \subseteq Hosting
    /\ \E m \in Members \ Crashable : Expiry[m] = 0
    /\ \A m \in Members : Expiry[m] # MaxInt32
    /\ Ops = {"update"} \/ Crashable = {}

============================================================================
