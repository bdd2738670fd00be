# FReD in TLA+

FReD is a middleware for data on nodes in the fog. Clients read and write the
items of *keygroups* at one node; the node relays every write to the other
members of the keygroup, tells its trigger nodes, and leaves a record in a
naming service (etcd, the "NaSe") for members that miss a write, so that they
can fetch it when they start again. This directory models those protocols in
TLA+, checks them with TLC on small instances and proves the safety properties
of the central ones with TLAPS for instances of every size.

Paths such as `pkg/fred/exthandler.go:198` are relative to the source tree.

- [1. The system](#1-the-system)
- [2. The modules](#2-the-modules)
- [3. What TLC checks](#3-what-tlc-checks)
- [4. What is proved](#4-what-is-proved)
- [5. Where the code and its documentation disagree](#5-where-the-code-and-its-documentation-disagree)
- [6. What is not modelled](#6-what-is-not-modelled)
- [7. Plan](#7-plan)

## 1. The system

### 1.1 Inventory

| component | state | operations | interacts with |
|---|---|---|---|
| external handler (`exthandler.go`) behind the client interface (`api.go`) | none of its own; the position of each request | create and delete a keygroup, read, scan, update, append, delete, add and remove a replica, add and remove a trigger, permissions | calls every other part in a fixed order, without locks |
| internal handler (`inthandler.go`) behind the peering server | none of its own | the same operations as seen by a peer | store, triggers |
| replication service (`replicationservice.go`) | none of its own | `relayUpdate`, `relayDelete`, `relayAppend`, `createKeygroup`, `relayDeleteKeygroup`, `addReplica`, `removeReplica`, `reportNodeFail` | etcd, peers one after the other, local store |
| peering client and server | a map of connections | one gRPC call per operation, no deadline | the other nodes |
| start of a node (`fred.New`, `cmd/frednode`) | the list of missed items | take the records, fetch each item, store it, then serve | etcd, the member with the longest expiry, local store |
| name service (`pkg/etcdnase`) | entries in etcd about status, mutability, members, expiry, missed items, permissions, addresses | single `get`, `put`, `delete` requests | etcd |
| cache of the name service (`etcdnase/helper.go`) | answers by key and by prefix; one goroutine with a watch per answer | fill on a miss, drop on the node's own write and on a watched change | etcd |
| store service and BadgerDB (`storeservice.go`, `pkg/badgerdb`) | marker, items and triggers of each keygroup; a counter per keygroup in the database and a map of sequence objects in memory | create and delete a keygroup, item operations, triggers | called by all handlers concurrently |
| triggers (`trigger.go`) | configuration in the store | `triggerUpdate`, `triggerDelete`: a call to each trigger node | trigger nodes |
| permissions (`auth.go`, `roles.go`, `etcdnase/auth.go`) | one entry in etcd per user, keygroup and method | check at the start of a handler; give and take a role, one entry after the other | etcd through the cache |
| remote storage (`pkg/storageclient`, `pkg/storageserver`) | a BadgerDB in another process | the same interface, one gRPC call per method, no deadline | store service of the node or of its machines |
| DynamoDB storage (`pkg/dynamo`) | one table | the same interface with single requests and scans | DynamoDB |
| proxy (`pkg/proxy`, `cmd/fredproxy`) | connections | sends the calls about a keygroup, of clients and of peers, to the machine its name hashes to; adds the user to calls of clients | machines of a node |
| Alexandra, commands | connections | forward calls, wire the packages | nodes |

### 1.2 What is hard about it

Nothing in a node is locked across two calls, and no two nodes agree on
anything. A request is a list of etcd requests, peer calls, local transactions
and trigger calls, each of which may fail on its own; an error in one of them
either ends the request or is only written to the log, and the code decides
differently in different places. So what matters is

* the **order** of a request's steps: an update is relayed, and its missing
  members recorded, *before* the node stores it itself; an append or a delete is
  done locally first; a new member is entered in etcd before it has a copy;
* **other requests in between**: two writers of one item at two nodes, an update
  during the copy to a new replica, two removals, a deletion and a write;
* **crashes**: of the node that relays, of the peer in the middle of a call, of
  the node that recovers, of a store in the middle of a deletion;
* **calls that fail and are executed anyway**, possibly after later ones;
* **several machines and processes that make one node**: caches that do not know
  of each other, a storage server that goes on with a call its node has given up;
* **limits**: the end of a leased range of identifiers, identifier 0, an expiry
  of 0, the last member.

`PROJECT.json` lists these hazards at the lines where they bite, with the
properties that cover them.

### 1.3 What makes each part correct

* *Replication*: a write reported as successful is executed, and passed to the
  triggers, at every replica, or recorded as missed; no replica is stale without
  a record; replicas that have nothing to catch up with agree; every request is
  answered.
* *Recovery*: it ends, and leaves the node with what it had missed.
* *Append*: identifiers are unique and growing, logs agree, nothing stored is
  replaced or lost.
* *Keygroups*: exactly the members hold a copy; the copy of a new member is
  complete; a keygroup that exists has a member; a new keygroup is empty and
  keeps its configuration.
* *Store*: what a deletion found is gone for good; data is left without a
  keygroup only for a reason; reads see completed writes; numbers are not
  given out twice.
  The same is asked of every storage a node can be started with.
* *Cache*: an entry that differs from etcd goes away; a query never returns
  less than the node has seen or written.
* *Access*: nobody is let in without having had the right, or without the cache
  being behind for a known reason; a right that a node has taken is admitted by
  none of its machines; a role is given and taken as a whole; all machines of a
  node that work on a keygroup are one.

## 2. The modules

```
NameService                  ImmutableLog         KeygroupStore               NaSeCache
  ^        ^                      ^                ^         ^                    ^
Replication  Keygroups        AppendLog       RemoteStore  DynamoStore         Access
  ^            ^                  ^                ^         ^                    ^
MCReplication  MCKeygroups    MCAppendLog          NodeStorage                 MCAccess
  ^                                                    ^
MCReplicationQuiet                               MCNodeStorage

with proofs: Replication, AppendLog, Keygroups, KeygroupStore, NodeStorage, NaSeCache,
Access (module name + "Proofs"; NodeStorageProofs extends KeygroupStoreProofs)
```

An arrow means EXTENDS, except that AppendLog refers to ImmutableLog by INSTANCE.

`PROJECT.json` ("map") gives the source lines of every definition. In all
modules a step is one interaction of a goroutine with something shared: one
etcd request, one transaction, one sending of a call, its execution at the
receiver, its answer, one access to an unlocked map. Values are numbers of
writes, so that one can say which of two is newer. Definitions whose comment
starts with "Faulty variant" are not part of a specification: they are
plausible mistakes in a definition, used to make sure that a property notices.

### NameService

The entries `kg|<kg>|status`, `mutable`, `node|<n>`, `expiry|<n>` and
`failnode|<n>|<kg>|<id>`, with the queries of `keygroups.go` and
`failednodes.go`. `GetNodeWithBiggerExpiry` is the *set* of nodes the code may
return, as it iterates over a Go map.

### Replication

One mutable keygroup whose members do not change. A client has one request open
at a time, and `pc[c]` says how far the goroutine that serves it has got:

| actions | code |
|---|---|
| `HandleUpdate`, `HandleDelete` | the checks at the start of the external handler |
| `RelayMembers`, `RelayAborts` | the query for the members in `relayUpdate`/`relayDelete`, or its error |
| `Send`, `SendReturns`, `SendFails` | one call per member, in any order (Go map); the caller of a failed call does not learn whether it was executed |
| `RemoteStore`, `RemoteTrigger`, `ConnectionRefused` | the internal handler at the member: store, triggers, answer; it goes on after its caller has given up |
| `Report` | `reportNodeFail` and `ReportFailedNode`; an error is dropped |
| `StoreLocal`, `StoreLocalFails`, `TriggerLocal`, `RelayDone` | the rest of the external handler; an update is relayed first and then stored, a delete the other way round |
| `Crash`, `Restart` | the process ends and is started again; the database and etcd stay |
| `Forget`, `Fetch`, `FetchFails`, `Serve` | `RequestNodeStatus` and the loop of `fred.New`: remove each record, fetch and store each item, then serve |
| `Expire` | BadgerDB drops an item whose time is over |

Histories (`log`, `peers`, `applied`, `notified`, `reported`, `taken`, `acked`)
record what happened and are read only by properties and by the numbering of
writes.

### AppendLog

One immutable keygroup without expiry. Goroutine `<<a, n>>` serves append `a` at
node `n`. The sequence objects of BadgerDB and the unlocked map `s.seq` are
modelled step by step: look up, lease, install, draw; a peer that gets a relayed
append draws numbers until it has passed the identifier and then stores the
item under it. Recovery stores a missed item without moving the sequence, as
`fred.go:109` does.

### ImmutableLog

What an immutable keygroup promises: one log in which an item gets one identifier
and an identifier one item, for good, and a client is told of the identifier only
when the item is in the log. `ImplementsLog` in AppendLog is the refinement: the
log is the union of what all replicas store, `told` the appends that were
answered.

### Keygroups

One keygroup over its whole life: `create`, `delete`, `add`, `remove`, `update`
and `getReplica` (reading the list of replicas) as step-by-step handlers over the entries in etcd and the
copies at the nodes. Calls between nodes are single steps here, because their
interleavings are the subject of Replication. `failed` is a history of the nodes
whose membership some request with an error may have left half changed.

### KeygroupStore

The store of one node for one keygroup: `MaxCalls` calls of the methods of
`storeService`, all possibly at the same time. `DeleteKeygroup` is eight steps:
the marker, the list of items, their removal in any number of transactions, the
same for triggers, and the release of the sequence. A transaction may fail, and
the process may stop anywhere.

### RemoteStore

The same `storeService` in a node whose storage is a server. `view[c]` is what
the node knows of a call, `pc[c]` what the server does with it; the two drift
apart when a connection breaks (`Unavailable`), when a machine of the node stops
(`MachineCrash`) or when the server does (`ServerCrash`). A request that was sent
may be executed at any later time; one that was not sent is lost. Of
the questions `Exists` and `ExistsKeygroup` an error is the answer "no".

### DynamoStore

The same `storeService` on one DynamoDB table. Every method is one request or a
scan followed by requests; `DeleteKeygroup` removes what its scan found item by
item, the marker in any place. Reads do not ask for consistency: each sees
the table with or without the last change (`prev`). A request may fail before or
after its effect. An item is written with the time at which it expires, which is the
time of the write if the keygroup has no expiry (`dynamo.go:426`), and the README asks for a
table that removes items by it (lines 232-238): `TimeToLive` takes away any item at
any time, and the history `expired` records which. `Append` computes an identifier
from a scan and stores the item under the bare identifier (`stray`), where no other
method looks.

### NodeStorage

`cmd/frednode` starts a node with one of four storages; `adaptor` is the choice,
and the properties are stated for all of them. The storage in memory has no crash
of its own: after a restart it is empty, which is an initial state.

### NaSeCache

The cache of `etcdnase/helper.go`: query, answer, fill, start of the watch,
registration of the watch, notification, removal; the node's own writes,
which drop the key and its prefix before they go to etcd; queries of nodes without
a cache; and restarts, which lose cache and watches. A cache may be warm from the
start.

### Access

One keygroup, the machines of several FReD nodes, and users. A right of a user is a key in the etcd of
NaSeCache, `Prefix(u)` the query `isAllowed` makes.

| definitions | code |
|---|---|
| `Route`, `APIProxy`, `PeeringProxy`, `addUserHeader` | which machine the proxy sends a call to, and as whom |
| `CheckCert`, `UserAt`, `PeerArrives` | who a machine takes the caller for; only calls from its own proxy if it has one |
| `Needs`, with one table for each group of handlers | the method a handler asks `isAllowed` about |
| `Receive`, `ReceivePeer`, `CreateKeygroup` | a call arrives and its handler begins |
| `IsAllowedCached`, `IsAllowedAsks`, `IsAllowedGet`, `IsAllowedAnswer`, `IsAllowedUncached`, `Decide` | `isAllowed` over the steps of NaSeCache |
| `EditLocal`, `EditEtcd`, `Settle`, `EditDone` | `addRoles` and `revokeRoles`, one right after the other; an error ends the loop |
| `Operate` | what the handler does then, as far as it concerns the rights |
| `Crash` | a machine stops and is started again |

Every action is written as an action of NaSeCache or leaves its variables alone, so
that what is proved about NaSeCache holds in Access. The histories are read only by
properties: `was`, the rights that were in etcd at some time since a request came in;
`clash`, whether an edit has met another one of the same role; `gone`, the rights a
FReD node has taken and nobody has given again; `ordered`, what the last edit has
made of a role.

### Assumptions about code outside the repository

* A request to etcd is atomic. One that returns an error has no effect; the case
  in which etcd executes it after the timeout is left for later (see the plan).
* A BadgerDB transaction is atomic and transactions are serialised; a
  `WriteBatch` may be split. A failed lease has no effect. `Release` returns
  numbers only if the counter still equals the end of the object's own range.
  Data survives the end of the process.
* gRPC delivers a call at most once. The caller of a broken connection gets an
  error, and cannot tell whether the call was executed.
* A trigger node answers or the call fails.
* DynamoDB applies changes of a table in one order, and a read that does not ask for
  consistency sees all of them or all but the last. A filter that compares
  attributes an item does not have passes nothing (`ReadSome`). Scans fit on one page.
  An item whose time is over is removed at any time after that, and can be read until
  then.
* Other nodes call a FReD node at the address it has registered, which is the proxy's if
  it has one (`PeerArrives`). The peering server of a machine does not enforce this.
* A certificate that was verified names its owner, and the hash of a name is the
  same at every proxy.

## 3. What TLC checks

All runs finish within a few minutes on two workers.

| run | instance | shows |
|---|---|---|
| `replication_concurrent` | 2 nodes that both serve clients and both crash and restart, also during recovery; 2 clients, 1 item, 2 writes of any kind; failing peer and trigger calls | `TypeOK`, `AckedAccounted`, `AckedTriggered` |
| `recovery_quiet` | 3 nodes, of which one crashes and restarts, one has expiring items; 2 items with a writer each; 2 updates; restarts happen between requests (`QuietEnv`) | `NoSilentStaleness`, `SameData`, `Converges` |
| `replication_liveness` | 2 nodes, one crashes, also during recovery; one member does not have the keygroup; etcd and triggers fail; a call to a peer fails only because the peer crashes or refuses it | `RequestsEnd`, `RecoveryEnds` |
| `recovery_busy_restart` (violated) | 2 nodes, 1 client; a restart during a request | `NoSilentStaleness` does not hold |
| `append_in_turn` | 3 nodes, 3 appends at any of them one after the other, across the ends of leased ranges | `IncrementalIds` (and with it that identifiers are unique) |
| `append_failures` | 2 nodes, both crash; 2 concurrent appends at one; failing peers, etcd and database | `TypeOK`, `LocalUniqueIds`, `LogAgreement`, `AppendsKept`, `Immutable`, `ImplementsLog` |
| `append_two_entries` (violated) | 2 nodes, 2 concurrent appends at different nodes | `UniqueIds` does not hold |
| `keygroup_in_turn` | 3 nodes, 5 requests of every kind one after the other, both mutabilities, two expiries | `TypeOK`, `HoldersAreMembers`, `NoOldData`, `UpToSpeed`, `ConfigFixed` |
| `keygroup_churn` | 2 nodes, 2 clients, 3 concurrent requests, 1 crash, failing peers and etcd, requests at nodes without a copy; one client does the removing | `NeverMemberless`, `NoSilentHole` |
| `keygroup_last_member` (violated) | 2 clients each remove one of 2 members | `NeverMemberless` does not hold |
| `storage_lifecycle` | up to 3 concurrent calls on each of the four storages, 1 crash (of the node, of one of its machines or of the storage server), failing transactions and requests, lost calls and answers, ranges of 2 numbers | `TypeOK`, `DeletedForGood`, `LeftoversExplained`, `StorageReadsSee`, `IdsNotReused` |
| `access_rights` | a node of 2 machines behind a proxy (one with a cache, one without) and a node of one machine; 1 user with 3 of 4 rights at the start, 2 requests (create, update, delete an item, give and take a role, a peer's call), 1 crash, failing etcd requests | `TypeOK`, `StaleIsExplained`, `RolesAsOrdered`, `BoundToOneMachine`, `ReadsGoForward`, `StaleIsDropped`, `AdmittedForAReason`, `TakenStaysTaken` |

### Why these bounds

* Two nodes and two writes are what it takes for one write to overtake another,
  for a call to be executed after it was given up, and for a record to be taken
  while it is made again. A third node is there where a source has to be chosen
  (`recovery_quiet`) or where a member joins while another one watches
  (`keygroup_in_turn`).
* `Bandwidth` is 1 or 2 instead of 100, so that ranges run out and the next
  lease begins in the middle of a behaviour.
* Three calls of the store cover writer, deletion and re-creation or read.
  `OpsOfCalls` (MCNodeStorage) says which methods each call may be: with BadgerDB
  and DynamoDB the first call writes, the second is any method, and the third
  deletes, appends or reads; with the storage server the three are updates, reads,
  deletions and new triggers, as the methods of the server are those of BadgerDB
  and only lost and late calls are new. BadgerDB alone was also explored with
  three calls of any method, and with four of `{create, delete, append}` and of
  `{create, delete, update, read}` without failures.
* `MachineCrash` stops any set of calls, so that one instance stands for every way
  to spread the calls over machines. In DynamoStore at most one change is on its
  way to the replicas of the table.
* Two requests are enough for an edit of a role and a check, or two edits, to
  meet at two machines; each edit writes up to four rights, and each write may
  fail or be followed by a crash. `Methods` are four of the eleven methods with a
  right: two of one role, so that a role can be half there, and the two that
  allow an edit. The user holds `Update` and the two that allow an edit from the start,
  and a cache may be warm, so that one request can take a right and the other ask for it,
  at the same machine or at the other node, before, during or after; `Delete` is not
  held, so that one can give it and the other ask.
* `keygroup_in_turn` has five requests because the shortest behaviour in which
  data of a former keygroup could show up is create, update, delete, create, add.
* No variable grows without a bound: the number of writes, appends, requests,
  crashes and watches is a constant of each module.

The instances in which a property is checked are the ones in which the code
keeps it, and the constants say where that ends: `QuietEnv` in Replication,
`Sequential` and `Entry` in AppendLog, `Sequential`, `Remover` and `Strangers` in
Keygroups, one goroutine per machine in `access_rights`, `adaptor` in
NodeStorage. Section 5 lists what happens
beyond.

### Fairness

* Replication, `FairSpec`: weak fairness of each request's own steps, of each
  handler at a peer and of each recovery. These are goroutines that are runnable
  or wait for a network call that ends: connections to a stopped process break,
  etcd requests have a timeout (`etcdnase` passes a context with one), and the Go
  scheduler does not starve a goroutine. Clients need not send anything and
  nodes need not crash.
* `Operated` adds that a node that was stopped is started again some time, which
  is what an operator or a container runtime does. Only `Converges` needs it.
* NaSeCache, `FairSpec`, and Access, `FairAccessSpec`: weak fairness of the
  goroutines, of the registration of a watch and of its notification (etcd
  delivers events to a live watch). Nobody has to call, and machines need not crash.

## 4. What is proved

The proofs are for all values of the constants that satisfy the modules'
assumptions: any number of nodes, clients, items, writes and crashes, and any
combination of failures. Where a property holds only in certain circumstances the
theorem assumes them (`ASSUME QuietEnv`, `InTurn`, ...), and section 5 says what
the code does beyond. Every inductive invariant was an invariant of a TLC run
before it was proved.

### ReplicationProofs

* `TypeCorrect`: `Spec => []TypeOK`.
* `Accounted`: `Spec => []AckedAccounted`.
* `Triggered`: `Spec => []AckedTriggered`.
* `NobodySilentlyStale`: `ASSUME QuietEnv PROVE Spec => []NoSilentStaleness`.
* `ReplicasAgree`: `ASSUME QuietEnv PROVE Spec => []SameData`.

The argument: `AckedAccounted` says nothing about open requests, so it is
strengthened by what each request has established so far (`IInv`). `ThreadsOK` ties the
position of a request to its write and to the member it calls; `CallsOK` says
what each state of a call means (a call with the answer "ok" was executed and
passed to the triggers; one that is not open belongs to nobody); `ReportsOK`
says that a report stays in etcd until its node takes it; `ProgressOK` says that
every member that is not in `todo[c]` any more, other than the one being called,
is accounted for, that is, has executed the write or was reported;
`PeersOK` says that the members a request calls are those it found; `AckedOK` is
the property itself in terms of `reported`. A relay ends with `todo` empty, so
that all members are accounted for when the client is answered. The step that
needs care is the report: `relayUpdate` drops its error, which is why failures
of the name service are excluded in the property.

For the recovery (`QuietInv`) it is not enough to know who was reported; the
values have to be followed too. `NodesOK` says that only the node that may crash is
ever down, and that nothing is written while it starts; `CalledOK` that every call
being executed is awaited by the request it belongs to, so that no call is
executed late; `ServedOK` that an open request is the last one about its item (its
writer is the only one) and is for all members. Hence whatever is executed,
locally or at a peer, is the last write of the item, and replaces nothing newer:
`ValuesOK`, what a node has executed it holds, or something later, and what was
reported it holds or has still to fetch. `ClosedOK` says that a closed request has
been executed by or reported for every member. When a node fetches, all requests
are closed, its source is never one that crashed, so the source has executed
every write, and the fetched value is the last one. `SameData` follows because a
settled member holds the last write of every item (`LastOK`).

### AppendLogProofs

* `TypeCorrect`: `Spec => []TypeOK`.
* `NoIdTwice`: `Spec => []LocalUniqueIds`.
* `Agreement`: `Spec => []LogAgreement`.
* `NothingReplaced`: `Spec => [][...]` for `Immutable`.
* `Kept`: `Spec => []AppendsKept`.
* `LogImplemented`: `SingleEntry => (Spec => ImplementsLog)`, where `SingleEntry`
  says that all clients append at one node.
* `IdsUnique`: `ASSUME InTurn PROVE Spec => []UniqueIds`.
* `IdsGrow`: `ASSUME InTurn PROVE Spec => []IncrementalIds`.

The argument: `RangesOK` says that the ranges of a node's sequence objects are
disjoint and lie below the counter in its database, also after a crash, when
objects are gone but the counter stays; `IssuedOK` that an identifier that was
drawn lies below the counter and outside of what is left of every range. Hence a
number drawn next is new (`LocalUniqueIds`). `NamedOK` says that an item
anywhere is stored under the identifier of its append; with one entry node and
unique identifiers this gives agreement and immutability. `KeptOK` follows the
append from its identifier to its local store. For the refinement, a step that
changes the union of the replicas' items stores one item (`SetLog`) whose
identifier is new or already names it (`FreshPair`, from the four parts above), which
is `Store` or a stutter; an answer to a client needs the item to be stored at the
entry node (`KeptOK`), which is `Return`.

With several entry nodes identifiers are unique only if appends come one after the
other, no node crashes and neither the databases nor the name service fail
(`InTurn`). Calls to triggers may fail, and calls to peers, but a peer that has
missed an append makes the clients wait (`Quiet`). The invariant `TurnInv` says
that whatever was returned before an append began lies below the next number of
every node (`BeforeOK`); during an append, that the members called so far have
moved past its identifier or were reported (`RelayOK`); that one append is open at
a time (`OneOpen`); and that no sequence object was lost (`UndisturbedOK`). The excluded
failures are those after which the code does give an identifier out again (section 5).

### KeygroupsProofs

* `TypeCorrect`: `Spec => []TypeOK`.
* `HolesTold`: `Spec => []NoSilentHole`.
* `LastMemberStays`: `ASSUME OneRemover, "create" \notin Ops, Members # {} PROVE
  Spec => []NeverMemberless` (a keygroup being created has no member for a moment).
* `ConfigStays`: `ASSUME Sequential PROVE` the action property `ConfigFixed`.
* `CopiesWhereMembers`, `NothingFromBefore`: `ASSUME InTurn PROVE Spec =>
  []HoldersAreMembers`, `[]NoOldData`.
* `MembersUpToSpeed`: `ASSUME Calm PROVE Spec => []UpToSpeed`.

`HolesCovered` says of every member without a copy that a request is running that
will give it one or end its membership, unless a request that returned an error
has left it so (`failed`). For `NeverMemberless`, `MembersKept` says what a removal in
progress has seen and that no other request takes members away; with two
removers it is false (run `keygroup_last_member`), so `OneRemover` is needed. The others need that clients wait for each other
(`Single`: one request is open): `TurnInv` says what the open request has
established about members and copies, step by step;
`DataInv` adds which generation of the keygroup every stored item belongs to, and
`CalmInv` that the copy given to a new member is that of a node that has every
update. `InTurn` is `Sequential` without crashes, without `getReplica` (which stops
the process for a deleted keygroup) and without lost peer calls; `Calm` excludes
failures altogether, because a failed query lets `addReplica` skip the copy
without an error, and requests at nodes without a copy.

### KeygroupStoreProofs

* `TypeCorrect`: `Spec => []TypeOK`.
* `Gone`: `Spec => []DeletedForGood`.
* `Explained`: `Spec => []LeftoversExplained`.
* `NoReuse`: `Spec => []NoIdReused`.
* `WritesSeen`: `Spec => []ReadsSee`.

The argument for deletions (`DeleteInv`): `DeletedForGood` speaks of deletions
that have ended, so `GoneOK` says what a running one has achieved: once it has
listed the items, whatever was there when it began is on its list until it is
removed, and nothing written before it began can come back, because a write that
has returned never stores again (`BeforeOK`, `EntriesOK`). `SeenOK` says why a
call may write although the marker is gone: a deletion that had not ended when the
call began has removed it. So what such a call leaves overlaps with a deletion
(`LeftoversExplained`); and when a deletion ends, whatever is left was not
written before it, and overlaps with it. The argument for numbers (`NumberInv`)
is that of AppendLog with one step more: `Release` lowers the counter to the next
number of the object, which is safe because it only does so when no other
range was leased since, and then all other open ranges and all numbers given out
lie below.

For reads (`ReadInv`), call a write settled when it has succeeded and nothing that
may undo it has been called. `StoredOK` says that what a settled write has stored
is there, and so is the keygroup; `FoundOK` that a read which was to find it has. A
write that succeeds finds the keygroup still there: by `SeenOK` only a deletion that
had not ended before it could have removed it, and then the write would not be
settled. A step of another call takes away only what it may undo (`Touches`).

The lemmas about deletions and reads are stated for any step that is `Working(c)`
(call `c` moves on, stores only when it returns, removes only what it may, and, if it
is a deletion, keeps to its list) or `Losing(L)` (calls are lost), so that they
serve for every storage.

### NodeStorageProofs

With `StorageSpec`, that is, whichever storage the node was started with:

* `StorageTypes`: `[]TypeOK`; `StorageDeletes`: `[]DeletedForGood`;
  `StorageLeftovers`: `[]LeftoversExplained`; `StorageFinds`: `[]StorageReadsSee`;
  `StorageNumbers`: `[]IdsNotReused`.

`StorageReadsSee` is `ReadsSee` for every storage but DynamoDB. With DynamoDB it says less:
a trigger is found for good, an item as long as the table has not removed it, which
may be right after it was written, also in a keygroup without expiry.

For BadgerDB in the node or at a server, every step is a new call, a step of the
BadgerDB, a loss of calls, or nothing (`Usual`), and the invariants of
KeygroupStoreProofs hold (`LocalInv`). What is new with a server is that the calls
known to have ended are not all that have, and that a call the node has given up goes
on: `ViewOK` says that a call with an answer has ended and that a call given up has
begun, so that a request that is never delivered is a lost call (`UndeliveredLoses`).

For DynamoDB (`DynamoInv`) the steps are different, but each is `Working`. That needs
two facts about the replicas of the table. `LateOK`: a replica that is behind
lacks only what the last call to change the table has written, and has a marker too
much only if that call is a deletion; and the calls counted as ended are in all
replicas. So a scan of a deletion finds what it must in either replica, a writer
that finds the keygroup in a replica that is behind overlaps with the deletion that removed it,
and a read finds what was settled before it. `TableOK`: among the numbers of the
items there is a largest, so that the identifier `Append` computes is a number;
`Bounded` says it without counting, as a set of entries has no size in a proof.

### NaSeCacheProofs

* `TypeCorrect`: `Spec => []TypeOK`.
* `Explained`: `Spec => []StaleIsExplained`.
* `NodeGoesForward`: `ASSUME OneAtATime PROVE` the action property
  `ReadsGoForward`.

The argument (`StaleInv`): `GuardedOK` says that an entry that was not hit (that
is, for which etcd did not change while the answer was unprotected) is current and has a watch
that is starting or registered, or has a watch that has fired; `CurrentOK` that an
answer on its way into the cache is current or hit. A change of etcd turns
every registered watch into a fired one and hits what is not yet registered, so
the invariant survives it, and a restart clears all of it together. The proof is for any number of goroutines per node,
while the run has one.

`NodeGoesForward` needs that what is cached or on its way into the cache is never
behind what the node has seen or written (`SeenInv`). That is so only if a
node's goroutines use the name service one at a time: of two, one may store an
older answer over a newer one, or fill the cache between the other's drop and its
write.

### AccessProofs

* `RequestsKeepTypes`: `[]TypeOK`; `StaleRightsExplained`: `[]StaleIsExplained`;
  `ASSUME OneAtATime PROVE` `MachineGoesForward`: `ReadsGoForward`. These carry what is
  proved of NaSeCache over to `AccessSpec`.
* `OneMachineServes`: `[]BoundToOneMachine`.
* `RolesStayWhole`: `[]RolesAsOrdered`.
* `AdmissionHasReason`: the action property `AdmittedForAReason`.
* `SiteForgetsTaken`: `ASSUME OneAtATime PROVE` the action property `TakenStaysTaken`.

`RequestInv` ties the position of a request to the machine that serves it and to
what the cache does for it. `RolesInv` says which rights of its role an open edit has
written, and that the others are as the last edit before it left them, unless it
overlapped with another or one failed. `ReasonInv` says that an answer a request
holds was true in etcd at some time since the request came in, or came from an
entry that is behind for the reason `StaleIsExplained` allows.

`GoneInv` is about the rights a FReD node has taken: at the machine that serves the
keygroup such a right is in no entry of the cache and in no answer on its way there
(`Absent`), and not in etcd. The write that takes the right finds the machine without an entry for
the user, because `EditLocal` has dropped it and nobody else there asks meanwhile
(`OneAtATime`); the proxy has sent all other calls about the keygroup to the same
machine; and what is cached or held is an answer of before (`OldOK`), so a later
write by another node can bring a right back only by giving it, which ends `gone`.

### Only model-checked

* Liveness (`RequestsEnd`, `RecoveryEnds`, `Converges`, `StaleIsDropped`) is out of
  reach of the prover, and stays with TLC. Every safety property of a run that
  passes is stated by a theorem, with the circumstances it needs.

## 5. Where the code and its documentation disagree

Three runs show it (see "findings" in `PROJECT.json`):

1. `recovery_busy_restart`: `HandleUpdate` relays an update and records who missed
   it before it stores the update itself. A member that restarts in between takes
   the record, fetches the old item and is never told again. Comment in
   `etcdnase/failednodes.go:12`: an update "that it will get another time".
2. `append_two_entries`: concurrent appends at two nodes get the same identifier,
   and each node keeps the value of the other or its own. The README promises a
   "unique and incremental identifier" (`README.md:281`), and the integration test
   expects that no key appears twice.
3. `keygroup_last_member`: two concurrent removals leave a keygroup without
   members, which `removeReplica` means to refuse.

Other instances of the same modules were explored while they were written, and
TLC found behaviours of the code that delimit the properties above:

* Replication. A missed *delete* is recorded like an update, but recovery can
  fetch nothing for it, and the item stays. A call that was given up and is executed
  late puts its value over one that was written in the meantime, also at a member
  that has nothing to catch up with. A crash during recovery, or a source
  that is down, loses the records that were already removed. Two writers of one item at two nodes may leave the
  replicas with different values. An expiry of 2147483647 seconds ranks as high as
  "never" (`failednodes.go:67`, `:81`), so a starting node may ask a member at which
  the item has expired, and miss it; `QuietEnv` excludes that one value. Items fetched in recovery are stored without
  calling triggers, although the README (line 335) says that triggers get
  every update.
* AppendLog. An append that was missed and fetched in recovery does not move the
  sequence, so the node later gives the same identifier out again. An append at a
  restarted node may get an identifier smaller than one returned before. If
  `incrementSequence` fails while a peer stores an append with identifier 0, the item is stored
  all the same and the sequence is not moved (`badgerdb.go:265-280`), so the peer
  gives 0 out again.
* Keygroups. Two concurrent creators leave the mutability of the second in the
  keygroup of the first (the README, line 292, calls it fixed). A node that is
  down while the keygroup is deleted keeps its data, which is there again when a
  keygroup of that name is created with it as a member (README, line 423). A copy to
  a new replica may overwrite an update that was relayed in the meantime. A node
  without a copy that is asked to add a replica makes it an empty member.
  Asking for the replicas of a deleted keygroup stops the process
  (`replicationservice.go:527`).
* KeygroupStore. A deletion that a crash interrupts, or that a write overlaps,
  leaves items that a re-created keygroup inherits, and cannot be repeated.
* NaSeCache. If etcd changes between the answer and the registration of the watch
  (`helper.go:112-117`), the stale entry stays until the next change. With two goroutines per node, a query between
  another's drop of the entry and its write fills the cache with the old
  answer, so that reads can go back.
* Access. A role that two requests give and take at the same time, or whose
  edit fails in the middle, may be left half there. If the store fails in
  `HandleCreateKeygroup`, the keygroup exists and nobody has a right to it. Rights
  stay in etcd when their keygroup is deleted.
* RemoteStore. A call the node was told had failed may be executed later, so a write
  that failed can show up after later ones. The README (line 252) says that the
  storage server supports DynamoDB and a store in memory, but it always opens BadgerDB.
* DynamoStore. Identifiers of appends are given out again, an appended item is
  stored outside its keygroup under its bare identifier and found by no other
  method, and a scan (`ReadSome`) returns nothing, because its filter compares
  attributes that no item has. Items are stored with the time of the write as
  their expiry even if the keygroup has none (`dynamo.go:426`), and a table set up as the
  README says (lines 232-238) then removes them, although an expiry of 0 is to
  disable expiration (line 304). `StorageReadsSee` asks for an item only until the table
  has removed it (`TimeToLive`), and leaves scans and appends out; so does
  `IdsNotReused` with the identifiers of DynamoDB.

## 6. What is not modelled

* The forms of names (`validation.go`) and the data types: no state.
* Addresses of nodes (`etcdnase/nodes.go`): written at start and fixed; that a query
  for one fails is part of Replication and AppendLog.
* Clocks: an item of a member with expiry may disappear at any time (`Expire` in
  Replication), and promises are made only about members without expiry.
* Pages of DynamoDB scans: a table of more than one page would be deleted and
  listed in part.
* Alexandra (`pkg/alexandra`): every method passes its message on to the lighthouse
  under the name of the middleware service, which nodes do not offer at this
  commit; the README (line 258) calls it work in progress.
* `cmd/simpletrigger`, the example of a trigger node, which appends to its log
  without a lock.
* Flags, the loading of certificates, logging, profiling and generated code (other than the lists
  of methods): no state that the properties are about.
* Data races inside the Go runtime: the unlocked maps are modelled with one step
  per access, and the runtime's own detection as a crash.

## 7. Plan

Done, in this order: NameService and Replication with its proofs; AppendLog with
its proofs and the refinement of ImmutableLog; Keygroups; KeygroupStore with its
proofs, RemoteStore, DynamoStore and NodeStorage; NaSeCache with its proofs, and
Access.

Proved after that: Keygroups and Access; the recovery of Replication and the
identifiers of AppendLog with several entry nodes; reads of KeygroupStore, and every
property of the store for the storages other than BadgerDB.

Next, most important first:

1. An abstract replicated register (a write is accepted, reaches replicas one by
   one, and is acknowledged when every replica has it or owes it), and
   Replication shown to implement it.
2. Keygroups with etcd requests that are executed although they time out, with
   recovery in several steps, and two keygroups of one store that share the map
   of sequences.
