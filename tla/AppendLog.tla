------------------------------ MODULE AppendLog ------------------------------
(***************************************************************************)
(* Appends to one immutable keygroup without expiry (pkg/fred, badgerdb):  *)
(* a node draws the identifier of a new item from its own BadgerDB         *)
(* sequence, stores the item, relays it to the other members, and these    *)
(* move their own sequences past the identifier before they store it.      *)
(*                                                                         *)
(* The identifiers come from badger.Sequence objects.  An object holds a   *)
(* range of numbers it has leased from a counter in the database, and the  *)
(* part of the range it has not used is lost in a crash.  The map s.seq    *)
(* from keygroups to their objects is read and written by all goroutines   *)
(* without a lock: each access is a step of its own.  (The runtime may     *)
(* also stop the process when it notices such a race, which is a crash.)   *)
(*                                                                         *)
(* An append is a number; goroutine <<a, n>> serves append a at node n, as *)
(* the client's handler when n is the node asked and as the handler of the *)
(* peering call that relays a otherwise.                                   *)
(***************************************************************************)
EXTENDS Integers, FiniteSets

CONSTANTS
    Node,           \* the members of the keygroup
    NoNode,         \* "no node"
    Entry,          \* the nodes clients append at
    MaxAppends,     \* bound: appends in one behaviour
    Bandwidth,      \* identifiers leased at a time (100 in the code)
    Sequential,     \* do clients wait until the system is quiet?
    Crashable,      \* the nodes that may crash and be restarted
    Faults          \* which of "peer", "nase", "trigger", "store" calls may fail

AppendNo == 1..MaxAppends

ASSUME AppendAssumption ==
    /\ NoNode \notin Node
    /\ Entry \subseteq Node
    /\ MaxAppends \in Nat
    /\ Bandwidth \in Nat \ {0}
    /\ Sequential \in BOOLEAN
    /\ Crashable \subseteq Node
    /\ Faults \subseteq {"peer", "nase", "trigger", "store"}

\* A sequence object is named after the append whose goroutine made it; 0 is
\* the one made by CreateKeygroup.
SeqNo == 0..MaxAppends
NoSeq == -1
NoId == -1

VARIABLES
    nodeState,  \* "up", "down", or "starting": running fred.New
    rolling,    \* rolling[n]: the counter in n's database
    next,       \* next[n][q]: the number sequence object q gives out next
    leased,     \* leased[n][q]: the end of the range q has leased
    seqMap,     \* seqMap[n]: the object in s.seq at n, or NoSeq
    items,      \* items[n]: pairs <<identifier, append>> n stores
    missed,     \* identifiers a starting node has still to fetch
    failnode,   \* the name service's records <<node, identifier>>
    pc,         \* pc[a][n]: what goroutine <<a, n>> does next
    seq,        \* seq[a][n]: the sequence object <<a, n>> holds
    id,         \* id[a]: the identifier of append a, or NoId
    via,        \* via[a]: the node a was sent to, or NoNode
    todo,       \* todo[a]: the members the relay has not called yet
    tgt,        \* tgt[a]: the member the relay is calling, or NoNode
    before,     \* history: the identifiers returned to clients before a began
    acked       \* history: the appends whose identifier was returned

seqVars   == <<rolling, next, leased, seqMap>>
relayVars == <<todo, tgt>>
vars == <<nodeState, seqVars, items, missed, failnode, pc, seq, id, via,
          relayVars, before, acked>>

\* Where a goroutine is in the store, and where else it can be.
InStore == {"lookup", "lease", "install", "next", "set"}
Ended == {"none", "done", "failed", "ok", "err", "lost"}
Label == InStore \cup Ended \cup {"relay", "send", "wait", "report", "trigger"}

TypeOK ==
    /\ nodeState \in [Node -> {"up", "down", "starting"}]
    /\ rolling \in [Node -> Nat]
    /\ next \in [Node -> [SeqNo -> Nat]]
    /\ leased \in [Node -> [SeqNo -> Nat]]
    /\ seqMap \in [Node -> SeqNo \cup {NoSeq}]
    /\ items \in [Node -> SUBSET (Nat \X AppendNo)]
    /\ missed \in [Node -> SUBSET Nat]
    /\ failnode \subseteq Node \X Nat
    /\ pc \in [AppendNo -> [Node -> Label]]
    /\ seq \in [AppendNo -> [Node -> SeqNo \cup {NoSeq}]]
    /\ id \in [AppendNo -> Nat \cup {NoId}]
    /\ via \in [AppendNo -> Node \cup {NoNode}]
    /\ todo \in [AppendNo -> SUBSET Node]
    /\ tgt \in [AppendNo -> Node \cup {NoNode}]
    /\ before \in [AppendNo -> SUBSET Nat]
    /\ acked \subseteq AppendNo

\* Storage.CreateKeygroup has leased a first range at every member.
Init ==
    /\ nodeState = [n \in Node |-> "up"]
    /\ rolling = [n \in Node |-> Bandwidth]
    /\ next = [n \in Node |-> [q \in SeqNo |-> 0]]
    /\ leased = [n \in Node |-> [q \in SeqNo |-> IF q = 0 THEN Bandwidth ELSE 0]]
    /\ seqMap = [n \in Node |-> 0]
    /\ items = [n \in Node |-> {}]
    /\ missed = [n \in Node |-> {}]
    /\ failnode = {}
    /\ pc = [a \in AppendNo |-> [n \in Node |-> "none"]]
    /\ seq = [a \in AppendNo |-> [n \in Node |-> NoSeq]]
    /\ id = [a \in AppendNo |-> NoId]
    /\ via = [a \in AppendNo |-> NoNode]
    /\ todo = [a \in AppendNo |-> {}]
    /\ tgt = [a \in AppendNo |-> NoNode]
    /\ before = [a \in AppendNo |-> {}]
    /\ acked = {}

----------------------------------------------------------------------------
(* Helpers *)

Goto(a, n, label) == pc' = [pc EXCEPT ![a][n] = label]

\* The item of append a is put under identifier k, replacing what is there.
Set(n, k, a) ==
    items' = [items EXCEPT ![n] = {p \in @ : p[1] # k} \cup {<<k, a>>}]

\* The identifiers returned to clients so far.
Returned == {id[a] : a \in acked}

\* Every goroutine has ended, all nodes are up and nobody has missed an item.
Quiet ==
    /\ \A a \in AppendNo, n \in Node : pc[a][n] \in Ended
    /\ \A n \in Node : nodeState[n] = "up"
    /\ failnode = {}

----------------------------------------------------------------------------
(* exthandler.HandleAppend *)

\* The name service is asked for mutability and expiry, the store for the
\* keygroup; then Storage.Append begins.
HandleAppend(a, n) ==
    /\ via[a] = NoNode /\ \A b \in AppendNo : b < a => via[b] # NoNode
    /\ n \in Entry /\ nodeState[n] = "up"
    /\ Sequential => Quiet
    /\ via' = [via EXCEPT ![a] = n]
    /\ before' = [before EXCEPT ![a] = Returned]
    /\ Goto(a, n, "lookup")
    /\ UNCHANGED <<nodeState, seqVars, items, missed, failnode, seq, id,
                   relayVars, acked>>

----------------------------------------------------------------------------
(* Storage.incrementSequence, by the goroutine of a at n *)

\* The unlocked read of s.seq ...
Lookup(a, n) ==
    /\ pc[a][n] = "lookup"
    /\ seq' = [seq EXCEPT ![a][n] = seqMap[n]]
    /\ Goto(a, n, IF seqMap[n] = NoSeq THEN "lease" ELSE "next")
    /\ UNCHANGED <<nodeState, seqVars, items, missed, failnode, id, via,
                   relayVars, before, acked>>

\* Faulty variants: the counter is not read; the new lease is not written.
GetSequenceFromZero(a, n) ==
    /\ pc[a][n] = "lease"
    /\ next' = [next EXCEPT ![n][a] = 0]
    /\ leased' = [leased EXCEPT ![n][a] = Bandwidth]
    /\ rolling' = [rolling EXCEPT ![n] = Bandwidth]
    /\ seq' = [seq EXCEPT ![a][n] = a]
    /\ Goto(a, n, "install")
    /\ UNCHANGED <<nodeState, seqMap, items, missed, failnode, id, via,
                   relayVars, before, acked>>

GetSequenceUnsaved(a, n) ==
    /\ pc[a][n] = "lease"
    /\ next' = [next EXCEPT ![n][a] = rolling[n]]
    /\ leased' = [leased EXCEPT ![n][a] = rolling[n] + Bandwidth]
    /\ seq' = [seq EXCEPT ![a][n] = a]
    /\ Goto(a, n, "install")
    /\ UNCHANGED <<nodeState, rolling, seqMap, items, missed, failnode, id, via,
                   relayVars, before, acked>>

\* ... db.GetSequence when there was no object: a new one, with its range.
GetSequence(a, n) ==
    /\ pc[a][n] = "lease"
    /\ next' = [next EXCEPT ![n][a] = rolling[n]]
    /\ leased' = [leased EXCEPT ![n][a] = rolling[n] + Bandwidth]
    /\ rolling' = [rolling EXCEPT ![n] = @ + Bandwidth]
    /\ seq' = [seq EXCEPT ![a][n] = a]
    /\ Goto(a, n, "install")
    /\ UNCHANGED <<nodeState, seqMap, items, missed, failnode, id, via,
                   relayVars, before, acked>>

\* ... and the unlocked write of s.seq.
Install(a, n) ==
    /\ pc[a][n] = "install"
    /\ seqMap' = [seqMap EXCEPT ![n] = seq[a][n]]
    /\ Goto(a, n, "next")
    /\ UNCHANGED <<nodeState, rolling, next, leased, items, missed, failnode,
                   seq, id, via, relayVars, before, acked>>

\* Sequence.Next of object q: the next number of its range; an object that has
\* used up its range leases another one first.
HasLease(n, q) == next[n][q] < leased[n][q]

NextNo(n, q) == IF HasLease(n, q) THEN next[n][q] ELSE rolling[n]

Draw(n, q) ==
    /\ next' = [next EXCEPT ![n][q] = NextNo(n, q) + 1]
    /\ IF HasLease(n, q)
       THEN UNCHANGED <<rolling, leased>>
       ELSE /\ leased' = [leased EXCEPT ![n][q] = rolling[n] + Bandwidth]
            /\ rolling' = [rolling EXCEPT ![n] = @ + Bandwidth]

\* Storage.Append: the number is the new item's identifier.
NextForAppend(a, n) ==
    /\ pc[a][n] = "next" /\ via[a] = n
    /\ Draw(n, seq[a][n])
    /\ id' = [id EXCEPT ![a] = NextNo(n, seq[a][n])]
    /\ Goto(a, n, "set")
    /\ UNCHANGED <<nodeState, seqMap, items, missed, failnode, seq, via,
                   relayVars, before, acked>>

\* Faulty variant: a relayed item does not move the sequence.
UpdateWithoutSequence(a, n) ==
    /\ pc[a][n] = "next" /\ via[a] # n
    /\ Goto(a, n, "set")
    /\ UNCHANGED <<nodeState, seqVars, items, missed, failnode, seq, id, via,
                   relayVars, before, acked>>

\* Storage.Update with append set: numbers are drawn until one is not below the
\* item's identifier.
NextForUpdate(a, n) ==
    /\ pc[a][n] = "next" /\ via[a] # n
    /\ Draw(n, seq[a][n])
    /\ Goto(a, n, IF NextNo(n, seq[a][n]) < id[a] THEN "lookup" ELSE "set")
    /\ UNCHANGED <<nodeState, seqMap, items, missed, failnode, seq, id, via,
                   relayVars, before, acked>>

\* Faulty variant: a relayed item is stored under the number drawn for it here.
SetUnderOwnNumber(a, n) ==
    /\ pc[a][n] = "set"
    /\ Set(n, IF via[a] = n \/ seq[a][n] = NoSeq THEN id[a] ELSE next[n][seq[a][n]] - 1, a)
    /\ Goto(a, n, IF via[a] = n THEN "relay" ELSE "trigger")
    /\ UNCHANGED <<nodeState, seqVars, missed, failnode, seq, id, via,
                   relayVars, before, acked>>

\* The transaction that writes the item.
SetItem(a, n) ==
    /\ pc[a][n] = "set"
    /\ Set(n, id[a], a)
    /\ Goto(a, n, IF via[a] = n THEN "relay" ELSE "trigger")
    /\ UNCHANGED <<nodeState, seqVars, missed, failnode, seq, id, via,
                   relayVars, before, acked>>

\* The database reports an error: the handler returns it, except that
\* Update goes on when incrementSequence fails for identifier 0, because the
\* loop's condition is evaluated before the error is looked at.
StoreFails(a, n) ==
    /\ "store" \in Faults
    /\ pc[a][n] \in {"lease", "next", "set"}
    /\ Goto(a, n, IF via[a] = n THEN "failed"
                  ELSE IF id[a] = 0 /\ pc[a][n] # "set" THEN "set" ELSE "err")
    /\ UNCHANGED <<nodeState, seqVars, items, missed, failnode, seq, id, via,
                   relayVars, before, acked>>

StoreStep(a, n) ==
    \/ Lookup(a, n) \/ GetSequence(a, n) \/ Install(a, n)
    \/ NextForAppend(a, n) \/ NextForUpdate(a, n)
    \/ SetItem(a, n) \/ StoreFails(a, n)

----------------------------------------------------------------------------
(* replicationService.relayAppend, by the client's handler of a *)

Failed(a) == Goto(a, via[a], "failed")

\* The other members, from the name service.
RelayMembers(a) ==
    /\ via[a] # NoNode /\ pc[a][via[a]] = "relay"
    /\ todo' = [todo EXCEPT ![a] = Node \ {via[a]}]
    /\ Goto(a, via[a], "send")
    /\ UNCHANGED <<nodeState, seqVars, items, missed, failnode, seq, id, via,
                   tgt, before, acked>>

\* The name service fails, for the members or for the address of the next one.
RelayAborts(a) ==
    /\ "nase" \in Faults /\ via[a] # NoNode
    /\ \/ pc[a][via[a]] = "relay"
       \/ pc[a][via[a]] = "send" /\ todo[a] # {}
    /\ Failed(a)
    /\ UNCHANGED <<nodeState, seqVars, items, missed, failnode, seq, id, via,
                   relayVars, before, acked>>

\* SendAppend to member m; inthandler.HandleAppend begins there when the node
\* serves.
SendAppend(a, m) ==
    /\ via[a] # NoNode /\ pc[a][via[a]] = "send" /\ m \in todo[a]
    /\ todo' = [todo EXCEPT ![a] = @ \ {m}]
    /\ tgt' = [tgt EXCEPT ![a] = m]
    /\ pc' = [pc EXCEPT ![a][via[a]] = "wait",
                        ![a][m] = IF nodeState[m] = "up" THEN "lookup" ELSE "lost"]
    /\ UNCHANGED <<nodeState, seqVars, items, missed, failnode, seq, id, via,
                   before, acked>>

\* The call returns, or fails: with an error of the peer, because the peer is
\* gone, or ("peer" faults) on the way; the peer may still be executing it.
SendReturns(a) ==
    /\ via[a] # NoNode /\ pc[a][via[a]] = "wait"
    /\ \/ pc[a][tgt[a]] = "ok" /\ Goto(a, via[a], "send")
       \/ /\ pc[a][tgt[a]] \in {"err", "lost"} \/ "peer" \in Faults
          /\ Goto(a, via[a], "report")
    /\ UNCHANGED <<nodeState, seqVars, items, missed, failnode, seq, id, via,
                   relayVars, before, acked>>

\* Faulty variant: the record's node and identifier are mixed up.
ReportSwapped(a) ==
    /\ via[a] # NoNode /\ pc[a][via[a]] = "report"
    /\ \/ failnode' = failnode \cup {<<id[a], tgt[a]>>}
       \/ "nase" \in Faults /\ UNCHANGED failnode
    /\ Goto(a, via[a], "send")
    /\ UNCHANGED <<nodeState, seqVars, items, missed, seq, id, via,
                   relayVars, before, acked>>

\* reportNodeFail; its error is dropped.
Report(a) ==
    /\ via[a] # NoNode /\ pc[a][via[a]] = "report"
    /\ \/ failnode' = failnode \cup {<<tgt[a], id[a]>>}
       \/ "nase" \in Faults /\ UNCHANGED failnode
    /\ Goto(a, via[a], "send")
    /\ UNCHANGED <<nodeState, seqVars, items, missed, seq, id, via,
                   relayVars, before, acked>>

RelayDone(a) ==
    /\ via[a] # NoNode /\ pc[a][via[a]] = "send" /\ todo[a] = {}
    /\ Goto(a, via[a], "trigger")
    /\ UNCHANGED <<nodeState, seqVars, items, missed, failnode, seq, id, via,
                   relayVars, before, acked>>

\* triggerUpdate, and the answer: to the client, who gets the identifier, or to
\* the node that relays.
Trigger(a, n) ==
    /\ pc[a][n] = "trigger"
    /\ \/ /\ Goto(a, n, IF via[a] = n THEN "done" ELSE "ok")
          /\ acked' = IF via[a] = n THEN acked \cup {a} ELSE acked
       \/ /\ "trigger" \in Faults
          /\ Goto(a, n, IF via[a] = n THEN "failed" ELSE "err")
          /\ UNCHANGED acked
    /\ UNCHANGED <<nodeState, seqVars, items, missed, failnode, seq, id, via,
                   relayVars, before>>

----------------------------------------------------------------------------
(* Crash, and fred.New when the node is started again *)

\* Goroutines, sequence objects and the map are gone; the database stays.
Crash(n) ==
    /\ n \in Crashable /\ nodeState[n] # "down"
    /\ nodeState' = [nodeState EXCEPT ![n] = "down"]
    /\ pc' = [a \in AppendNo |-> [m \in Node |->
                 IF m # n \/ pc[a][m] \in Ended THEN pc[a][m]
                 ELSE IF via[a] = n THEN "failed" ELSE "lost"]]
    /\ next' = [next EXCEPT ![n] = [q \in SeqNo |-> 0]]
    /\ leased' = [leased EXCEPT ![n] = [q \in SeqNo |-> 0]]
    /\ seqMap' = [seqMap EXCEPT ![n] = NoSeq]
    /\ missed' = [missed EXCEPT ![n] = {}]
    /\ UNCHANGED <<rolling, items, failnode, seq, id, via, relayVars, before, acked>>

\* RequestNodeStatus takes the records about this node (how it can lose some
\* is the subject of module Replication).
Restart(n) ==
    /\ nodeState[n] = "down"
    /\ nodeState' = [nodeState EXCEPT ![n] = "starting"]
    /\ missed' = [missed EXCEPT ![n] = {r[2] : r \in {f \in failnode : f[1] = n}}]
    /\ failnode' = {f \in failnode : f[1] # n}
    /\ UNCHANGED <<seqVars, items, pc, seq, id, via, relayVars, before, acked>>

\* A missed item is fetched from another member and stored with append unset:
\* the sequence does not move.  An item that cannot be fetched is skipped.
Recover(n, k) ==
    /\ nodeState[n] = "starting" /\ k \in missed[n]
    /\ missed' = [missed EXCEPT ![n] = @ \ {k}]
    /\ \/ \E s \in Node \ {n} : \E p \in items[s] :
             nodeState[s] = "up" /\ p[1] = k /\ Set(n, k, p[2])
       \/ /\ \/ Faults \cap {"peer", "nase"} # {}
             \/ \E s \in Node \ {n} : nodeState[s] # "up" \/ k \notin {p[1] : p \in items[s]}
          /\ UNCHANGED items
    /\ UNCHANGED <<nodeState, seqVars, failnode, pc, seq, id, via, relayVars,
                   before, acked>>

Serve(n) ==
    /\ nodeState[n] = "starting" /\ missed[n] = {}
    /\ nodeState' = [nodeState EXCEPT ![n] = "up"]
    /\ UNCHANGED <<seqVars, items, missed, failnode, pc, seq, id, via, relayVars,
                   before, acked>>

----------------------------------------------------------------------------
(* The system *)

RelayStep(a) ==
    \/ RelayMembers(a) \/ RelayAborts(a) \/ SendReturns(a) \/ Report(a) \/ RelayDone(a)
    \/ \E m \in Node : SendAppend(a, m)

\* Everything asked for has been done.
Done ==
    /\ \A a \in AppendNo : via[a] # NoNode
    /\ \A a \in AppendNo, n \in Node : pc[a][n] \in Ended
    /\ UNCHANGED vars

Next ==
    \/ \E a \in AppendNo, n \in Node :
          HandleAppend(a, n) \/ StoreStep(a, n) \/ Trigger(a, n)
    \/ \E a \in AppendNo : RelayStep(a)
    \/ \E n \in Node : Crash(n) \/ Restart(n) \/ Serve(n)
    \/ \E n \in Node : \E k \in missed[n] : Recover(n, k)
    \/ Done

Spec == Init /\ [][Next]_vars

----------------------------------------------------------------------------
(* Properties *)

\* A node never draws the same identifier for two appends sent to it, whatever
\* the goroutines that race for s.seq, lease ranges and crash do.
LocalUniqueIds ==
    \A a, b \in AppendNo :
        a # b /\ via[a] = via[b] /\ id[a] # NoId => id[a] # id[b]

\* The README: "a unique and incremental identifier is returned to you" --
\* unique ...
UniqueIds == \A a, b \in acked : a # b => id[a] # id[b]

\* ... and larger than every identifier that had been returned to some client
\* when the append began.
IncrementalIds == \A a \in acked : \A k \in before[a] : k < id[a]

\* When all clients append at the same node, two replicas never store different
\* items under one identifier, although their sequences move independently and
\* calls are lost, late or out of order.
LogAgreement ==
    (\A m, n \in Entry : m = n) =>
        \A m, n \in Node : \A p \in items[m], r \in items[n] :
            p[1] = r[1] => p[2] = r[2]

\* An item whose identifier has been returned is in the log of the node it was
\* sent to, also after crashes.
AppendsKept ==
    (\A m, n \in Entry : m = n) =>
        \A a \in acked : <<id[a], a>> \in items[via[a]]

\* The README on immutable keygroups: "existing keys cannot be updated or
\* deleted": no step of a relay or a recovery replaces a stored item.
Immutable ==
    [][(\A m, n \in Entry : m = n) => \A m \in Node : items[m] \subseteq items'[m]]_vars

\* All replicas together, with their crashes, lost calls and recoveries, are one
\* immutable log, when all clients append at the same node.
Log == INSTANCE ImmutableLog
         WITH Item <- AppendNo, log <- UNION {items[n] : n \in Node}, told <- acked

ImplementsLog == Log!Spec

============================================================================
