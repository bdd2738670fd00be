------------------------------- MODULE Access -------------------------------
(***************************************************************************)
(* Who may do what with one keygroup: the way of a request from a client   *)
(* to the handler (pkg/proxy, pkg/api), the check of the user's rights and *)
(* their changes (pkg/fred/auth.go, roles.go), on top of the cached name   *)
(* service of NaSeCache.                                                   *)
(*                                                                         *)
(* A FReD node is one machine, or several machines behind proxies.  A      *)
(* machine has a cache of its own.  A right of a user is a key in etcd,    *)
(* and all rights of a user for the keygroup have one prefix.  A role is   *)
(* several rights, written one by one.                                     *)
(***************************************************************************)
EXTENDS NaSeCache, Sequences

CONSTANTS
    User,           \* the users, by the common name of their certificates
    Methods,        \* the methods of the keygroup whose rights are looked at
    Ops,            \* the calls that are made
    GivenRoles,     \* the roles that are given and taken
    Site,           \* Site[m]: the FReD node the machine m belongs to
    Proxy,          \* the fredproxy processes
    NoProxy,        \* "no proxy"
    Hosts,          \* Hosts[p]: the machines proxy p was started with
    proxyHost,      \* proxyHost[m]: the proxy machine m was started with
    Hash,           \* the hash of the keygroup's name
    InitialRights,  \* the rights that are there from the start
    MaxRequests,    \* bound: requests in one behaviour
    MaxCrashes      \* bound: crashes in one behaviour

\* The roles and their rights.
permissions ==
    [R |-> {"Read"},
     W |-> {"Update", "Delete"},
     C |-> {"AddReplica", "GetReplica", "RemoveReplica"},
     T |-> {"GetTrigger", "AddTrigger", "RemoveTrigger"},
     K |-> {"DeleteKeygroup", "AddUser", "RemoveUser"}]

\* The order in which HandleCreateKeygroup gives them.
RoleOrder == <<"R", "W", "C", "T", "K">>
Role == DOMAIN permissions

\* The calls of the client interface; those about nodes are about no keygroup.
KeygroupCalls == {"CreateKeygroup", "DeleteKeygroup"}
ItemCalls == {"Read", "Scan", "Append", "Update", "Delete"}
ReplicaCalls == {"AddReplica", "GetKeygroupReplica", "RemoveReplica"}
NodeCalls == {"GetReplica", "GetAllReplica"}
TriggerCalls == {"GetKeygroupTriggers", "AddTrigger", "RemoveTrigger"}
UserCalls == {"AddUser", "RemoveUser"}
ClientCalls ==
    KeygroupCalls \cup ItemCalls \cup ReplicaCalls \cup NodeCalls \cup TriggerCalls \cup UserCalls

\* The calls of other nodes.
PeerCalls == {"CreateKeygroup", "DeleteKeygroup", "PutItem", "AppendItem", "GetItem",
              "DeleteItem", "GetAllItems", "AddReplica", "RemoveReplica"}

\* A call and the interface it came by.
Call == ({"client"} \X ClientCalls) \cup ({"peering"} \X PeerCalls)
NoCall == <<"none", "none">>

\* The right the handler of a call asks for.
KeygroupNeeds == [DeleteKeygroup |-> "DeleteKeygroup"]
ReadNeeds == [Read |-> "Read", Scan |-> "Read"]
WriteNeeds == [Append |-> "Update", Update |-> "Update", Delete |-> "Delete"]
ReplicaNeeds ==
    [AddReplica |-> "AddReplica", GetKeygroupReplica |-> "GetReplica",
     RemoveReplica |-> "RemoveReplica"]
TriggerNeeds ==
    [AddTrigger |-> "AddTrigger", GetKeygroupTriggers |-> "GetTrigger",
     RemoveTrigger |-> "RemoveTrigger"]
UserNeeds == [AddUser |-> "AddUser", RemoveUser |-> "RemoveUser"]

NeedsTables ==
    {KeygroupNeeds, ReadNeeds, WriteNeeds, ReplicaNeeds, TriggerNeeds, UserNeeds}
Checked == UNION {DOMAIN t : t \in NeedsTables}
Needs == [c \in Checked |-> (CHOOSE t \in NeedsTables : c \in DOMAIN t)[c]]

Nobody == "nobody"

Prefix(u) == {u} \X Methods

ASSUME AccessAssumption ==
    /\ Key = User \X Methods
    /\ Query = {Prefix(u) : u \in User}
    /\ Ops \subseteq Call
    /\ GivenRoles \subseteq Role
    /\ DOMAIN Site = Node
    /\ DOMAIN Hosts = Proxy
    /\ \A p \in Proxy : Hosts[p] \in Seq(Node) \ {<<>>}
    /\ \A p \in Proxy : \A i, j \in 1..Len(Hosts[p]) : Site[Hosts[p][i]] = Site[Hosts[p][j]]
    /\ NoProxy \notin Proxy /\ proxyHost \in [Node -> Proxy \cup {NoProxy}]
    /\ \A p \in Proxy : \A i \in 1..Len(Hosts[p]) : proxyHost[Hosts[p][i]] = p
    \* A FReD node has one proxy, or one machine.
    /\ \A n, m \in Node : Site[n] = Site[m] =>
          n = m \/ (proxyHost[n] = proxyHost[m] /\ proxyHost[n] # NoProxy)
    /\ Hash \in Nat
    /\ InitialRights \subseteq Key
    /\ MaxRequests \in Nat /\ MaxCrashes \in Nat
    \* Every edit finds room for its writes.
    /\ MaxWrites >= MaxRequests * Cardinality(Methods)
    /\ User # {}

VARIABLES
    job,        \* job[n][r]: the request the goroutine serves
    exists,     \* is there a keygroup of that name?
    puts,       \* the writes to etcd that gave a right; the others took one
    requests,   \* the number of requests so far
    crashes,    \* the number of crashes so far
    was,        \* history: was[n][r], the rights that were in etcd at some time
                \* since the request began
    clash,      \* history: clash[n][r], another edit of the same role of the
                \* same user has run at the same time
    gone,       \* history: gone[s], the rights the FReD node s has taken and nobody
                \* has given again
    ordered     \* history: ordered[u][ro], what the last edit of the role that
                \* ended well has made of it, "given" or "taken"; "torn" if an
                \* edit has failed or two have overlapped since

accessVars == <<job, exists, puts, requests, crashes, was, clash, gone, ordered>>
histories == <<was, clash, gone, ordered>>
allVars == <<vars, accessVars>>

\* A request: what the goroutine does next, the call, the user who calls, the
\* roles it gives or takes, the user they are of, and the rights still to write.
NoJob == [step |-> "none", call |-> NoCall, by |-> Nobody, roles |-> {}, whom |-> Nobody,
          todo |-> {}]

\* The rights an answer of etcd contains.
Rights(answer) ==
    {k \in DOMAIN answer : answer[k] \in puts \/ (answer[k] = 0 /\ k \in InitialRights)}

RoleRights(u, ro) == {u} \X (permissions[ro] \cap Methods)

RightsOf(u, ros) == UNION {RoleRights(u, ro) : ro \in ros}

Sites == {Site[n] : n \in Node}

Nowhere(x) == [n \in Node |-> [r \in Routine |-> x]]

AccessInit ==
    /\ Init
    /\ job = Nowhere(NoJob)
    /\ exists \in BOOLEAN    \* rights outlive their keygroup
    /\ puts = {} /\ requests = 0 /\ crashes = 0
    /\ was = Nowhere({}) /\ clash = Nowhere(FALSE) /\ gone = [s \in Sites |-> {}]
    /\ ordered = [u \in User |-> [ro \in Role |->
                     IF RoleRights(u, ro) \subseteq InitialRights THEN "given"
                     ELSE IF RoleRights(u, ro) \cap InitialRights = {} THEN "taken"
                     ELSE "torn"]]

----------------------------------------------------------------------------
(* The way of a call to a machine *)

\* Every call about the keygroup goes to the machine its name hashes to.
getHost(p) == Hosts[p][(Hash % Len(Hosts[p])) + 1]

getAny(p) == {Hosts[p][i] : i \in 1..Len(Hosts[p])}

Proxied(m) == proxyHost[m] # NoProxy

\* How the methods of APIProxy choose the machine.
ItemRoute == [c \in KeygroupCalls \cup ItemCalls |-> "getConn"]
ReplicaRoute == [c \in ReplicaCalls \cup NodeCalls |->
                    IF c \in NodeCalls THEN "getAny" ELSE "getConn"]
TriggerRoute == [c \in TriggerCalls \cup UserCalls |-> "getConn"]
RouteTables == {ItemRoute, ReplicaRoute, TriggerRoute}
Route == [c \in ClientCalls |-> (CHOOSE t \in RouteTables : c \in DOMAIN t)[c]]

\* Faulty variants: calls go to any machine.
PeeringProxyAny(p) == getAny(p)

APIProxyAny(p, c) == getAny(p)

\* The machines a proxy sends a call to: one of a client, one of another node.
APIProxy(p, c) == IF Route[c] = "getAny" THEN getAny(p) ELSE {getHost(p)}

PeeringProxy(p) == {getHost(p)}

\* A call as a machine gets it: the host it comes from, the name in the certificate
\* of that host, and the user header.
Direct(u) == [host |-> Nobody, name |-> u, header |-> Nobody]
addUserHeader(p, u) == [host |-> p, name |-> p, header |-> u]

\* The user: a machine behind a proxy takes only calls that come from there and
\* finds the user in the header; another machine finds it in the certificate.
CheckCert(m, call) ==
    IF ~Proxied(m) THEN call.name
    ELSE IF call.host = proxyHost[m] THEN call.header ELSE Nobody

\* The user of a client's call c that u made at the door p, a proxy or the machine
\* itself, as machine m sees it; Nobody if the call is refused or sent elsewhere.
UserAt(c, p, m, u) ==
    IF p \in Proxy
    THEN IF m \in APIProxy(p, c) THEN CheckCert(m, addUserHeader(p, u)) ELSE Nobody
    ELSE IF p = m THEN CheckCert(m, Direct(u)) ELSE Nobody

\* Machine m serves the call of another node.  The peering server takes calls from
\* anywhere; other nodes call the address that is registered for the FReD node,
\* which is the proxy's if there is one.
PeerArrives(p, m) == IF p \in Proxy THEN m \in PeeringProxy(p) ELSE p = m /\ ~Proxied(m)

----------------------------------------------------------------------------
(* Helpers *)

Serves(n, r) == job[n][r].step # "none"

Editing(n, r) == job[n][r].roles # {} /\ job[n][r].step = "edit"

\* Two edits are about the same role of the same user.
Collide(i, j) == i.whom = j.whom /\ i.roles \cap j.roles # {}

\* The request ends; ros are the roles whose state it settles as st.
End(n, r, st) ==
    LET j == job[n][r]
    IN  /\ job' = [job EXCEPT ![n][r] = NoJob]
        /\ was' = [was EXCEPT ![n][r] = {}]
        /\ clash' = [clash EXCEPT ![n][r] = FALSE]
        /\ ordered' = IF j.step # "edit" THEN ordered
                      ELSE [ordered EXCEPT ![j.whom] = [ro \in Role |->
                               IF ro \notin j.roles THEN @[ro]
                               ELSE IF clash[n][r] THEN "torn" ELSE st]]

\* An edit of the roles ros of user w begins.
BeginEdit(n, r, j, ros, w) ==
    LET e == [j EXCEPT !.step = "edit", !.roles = ros, !.whom = w, !.todo = RightsOf(w, ros)]
        overlaps(m, s) == <<m, s>> # <<n, r>> /\ Editing(m, s) /\ Collide(job[m][s], e)
    IN  /\ job' = [job EXCEPT ![n][r] = e]
        /\ clash' = [m \in Node |-> [s \in Routine |->
                        IF <<m, s>> = <<n, r>>
                        THEN \E o \in Node, t \in Routine : overlaps(o, t)
                        ELSE clash[m][s] \/ overlaps(m, s)]]

----------------------------------------------------------------------------
(* The client interface and the external handler *)

\* Room for the watches the check of this request may start.
Room(n, u) == n \in Caching => Watches(n, Prefix(u)) < MaxWatches \/ Cached(n, Prefix(u))

\* A goroutine of a machine gets a call.
Accept(n, r, c) ==
    /\ ~Serves(n, r) /\ pc[n][r] = "idle" /\ requests < MaxRequests
    /\ c \in Ops
    /\ requests' = requests + 1

Serve(n, r, c, u, step) ==
    /\ job' = [job EXCEPT ![n][r] = [NoJob EXCEPT !.step = step, !.call = c, !.by = u]]
    /\ was' = [was EXCEPT ![n][r] = Rights(etcd)]
    /\ UNCHANGED <<vars, exists, puts, crashes, clash, gone, ordered>>

Receive(c, p, n, r, u) ==
    LET user == UserAt(c[2], p, n, u)
    IN  /\ Accept(n, r, c) /\ c[1] = "client" /\ c[2] # "CreateKeygroup"
        /\ user # Nobody /\ Room(n, user)
        /\ Serve(n, r, c, user, IF c[2] \in Checked THEN "check" ELSE "act")

\* A call of another node needs no right.
ReceivePeer(c, p, n, r) ==
    /\ Accept(n, r, c) /\ c[1] = "peering" /\ PeerArrives(p, n)
    /\ Serve(n, r, c, Nobody, "act")

\* HandleCreateKeygroup needs no right; who creates a keygroup gets all roles.
CreateKeygroup(p, n, r, u) ==
    LET c == <<"client", "CreateKeygroup">>
        user == UserAt(c[2], p, n, u)
    IN  /\ Accept(n, r, c) /\ user # Nobody
        /\ ~exists /\ exists' = TRUE
        \* The store may fail: then there is a keygroup, and nobody has got a right.
        /\ \/ BeginEdit(n, r, [NoJob EXCEPT !.call = c, !.by = user], Role, user)
           \/ UNCHANGED <<job, clash>>
        /\ UNCHANGED <<vars, puts, crashes, was, gone, ordered>>

Needed(n, r) == <<job[n][r].by, Needs[job[n][r].call[2]]>>

\* isAllowed has the user's rights: the call goes on or is refused.
Decide(n, r, answer) ==
    LET j == job[n][r]
    IN  \/ /\ Needed(n, r) \in Rights(answer)
           /\ \/ /\ j.call[2] \notin DOMAIN UserNeeds
                 /\ job' = [job EXCEPT ![n][r].step = "act"]
                 /\ UNCHANGED clash
              \/ /\ j.call[2] \in DOMAIN UserNeeds
                 /\ \E w \in User, ro \in GivenRoles : BeginEdit(n, r, j, {ro}, w)
           /\ UNCHANGED <<was, ordered>>
        \/ Needed(n, r) \notin Rights(answer) /\ End(n, r, "torn")

\* isAllowed at a machine with a cache: found there, or asked for.
IsAllowedCached(n, r) ==
    /\ job[n][r].step = "check" /\ n \in Caching
    /\ CacheHit(n, r, Prefix(job[n][r].by))
    /\ Decide(n, r, cache[n][Prefix(job[n][r].by)])
    /\ UNCHANGED <<exists, puts, requests, crashes, gone>>

IsAllowedAsks(n, r) ==
    /\ job[n][r].step = "check" /\ n \in Caching
    /\ CacheMiss(n, r, Prefix(job[n][r].by))
    /\ UNCHANGED accessVars

\* An error of the name service is a refusal.
IsAllowedGet(n, r) ==
    /\ job[n][r].step = "check"
    /\ Get(n, r)
    /\ IF pc'[n][r] = "idle" THEN End(n, r, "torn") ELSE UNCHANGED <<job, was, clash, ordered>>
    /\ UNCHANGED <<exists, puts, requests, crashes, gone>>

IsAllowedAnswer(n, r) ==
    /\ job[n][r].step = "check"
    /\ Set(n, r)
    /\ Decide(n, r, got[n][r])
    /\ UNCHANGED <<exists, puts, requests, crashes, gone>>

\* Without a cache: etcd answers or fails.
IsAllowedUncached(n, r) ==
    LET q == Prefix(job[n][r].by)
    IN  /\ job[n][r].step = "check"
        /\ GetUncached(n, r, q)
        /\ \/ seen'[n][q] = Answer(q) /\ Decide(n, r, Answer(q))
           \/ seen' = seen /\ End(n, r, "torn")
        /\ UNCHANGED <<exists, puts, requests, crashes, gone>>

\* The call is executed or fails; what it does with items, replicas and triggers
\* is the subject of other modules.
Operate(n, r) ==
    /\ job[n][r].step = "act"
    /\ exists' \in IF job[n][r].call = <<"client", "DeleteKeygroup">>
                   THEN {exists, FALSE} ELSE {exists}
    /\ End(n, r, "torn")
    /\ UNCHANGED <<vars, puts, requests, crashes, gone>>

----------------------------------------------------------------------------
(* addRoles and revokeRoles *)

Gives(n, r) == job[n][r].call[2] # "RemoveUser"

\* The rights that may come next: role by role, in any order within a role.
NextRights(j) ==
    LET left == {i \in 1..Len(RoleOrder) : j.todo \cap RoleRights(j.whom, RoleOrder[i]) # {}}
    IN  j.todo \cap RoleRights(j.whom, RoleOrder[CHOOSE i \in left : \A l \in left : i <= l])

\* AddUserPermissions and RevokeUserPermissions drop what the machine has cached ...
EditLocal(n, r) ==
    /\ job[n][r].step = "edit" /\ pc[n][r] = "idle" /\ job[n][r].todo # {}
    /\ \E k \in NextRights(job[n][r]) : PutLocal(n, r, k)
    /\ UNCHANGED accessVars

\* Every goroutine with an open request notices what etcd contains now.
Observe(now) ==
    was' = [m \in Node |-> [s \in Routine |->
              IF Serves(m, s) THEN was[m][s] \cup now ELSE was[m][s]]]

\* The edit has given or taken the right k.
Settle(n, r, k) ==
    /\ job' = [job EXCEPT ![n][r].todo = @ \ {k}]
    /\ gone' = IF Gives(n, r) THEN [s \in Sites |-> gone[s] \ {k}]
               ELSE [gone EXCEPT ![Site[n]] = @ \cup {k}]
    /\ Observe(Rights(etcd)')

\* Faulty variant: an error does not end the loop.
EditEtcdOn(n, r) ==
    /\ job[n][r].step = "edit" /\ PutEtcd(n, r)
    /\ puts' = IF writes' > writes /\ Gives(n, r) THEN puts \cup {writes'} ELSE puts
    /\ Settle(n, r, key[n][r])
    /\ UNCHANGED <<exists, requests, crashes, clash, ordered>>

\* ... and write to etcd.  To take a right that is not there changes nothing.
EditEtcd(n, r) ==
    LET k == key[n][r]
        absent == ~Gives(n, r) /\ k \notin Rights(etcd)
    IN  /\ job[n][r].step = "edit" /\ PutEtcd(n, r)
        /\ absent => writes' = writes
        /\ puts' = IF writes' > writes /\ Gives(n, r) THEN puts \cup {writes'} ELSE puts
        /\ \/ /\ writes' > writes \/ absent
              /\ Settle(n, r, k)
              /\ UNCHANGED <<clash, ordered>>
           \/ writes' = writes /\ End(n, r, "torn") /\ UNCHANGED gone
        /\ UNCHANGED <<exists, requests, crashes>>

EditDone(n, r) ==
    /\ job[n][r].step = "edit" /\ job[n][r].todo = {}
    /\ End(n, r, IF Gives(n, r) THEN "given" ELSE "taken")
    /\ UNCHANGED <<vars, exists, puts, requests, crashes, gone>>

----------------------------------------------------------------------------
(* A machine stops and is started again *)

Crash(n) ==
    LET edits == {r \in Routine : Editing(n, r)}
        lost(u) == UNION {job[n][r].roles : r \in {s \in edits : job[n][s].whom = u}}
    IN  /\ crashes < MaxCrashes /\ crashes' = crashes + 1
        /\ job' = [job EXCEPT ![n] = [r \in Routine |-> NoJob]]
        /\ was' = [was EXCEPT ![n] = [r \in Routine |-> {}]]
        /\ clash' = [clash EXCEPT ![n] = [r \in Routine |-> FALSE]]
        /\ ordered' = [u \in User |-> [ro \in Role |->
                          IF ro \in lost(u) THEN "torn" ELSE ordered[u][ro]]]
        /\ Restart(n)
        /\ UNCHANGED <<exists, puts, requests, gone>>

----------------------------------------------------------------------------
RequestStep(n, r) ==
    \/ IsAllowedCached(n, r) \/ IsAllowedAsks(n, r) \/ IsAllowedGet(n, r)
    \/ IsAllowedAnswer(n, r) \/ IsAllowedUncached(n, r) \/ Operate(n, r)
    \/ EditLocal(n, r) \/ EditEtcd(n, r) \/ EditDone(n, r)

\* Nothing is open and the bound is reached: the behaviour may end here.
AllServed == requests = MaxRequests /\ (\A n \in Node, r \in Routine : ~Serves(n, r)) /\ UNCHANGED allVars

AccessNext ==
    \/ \E c \in Ops, p \in Proxy \cup Node, n \in Node, r \in Routine, u \in User :
          Receive(c, p, n, r, u)
    \/ \E c \in Ops, p \in Proxy \cup Node, n \in Node, r \in Routine : ReceivePeer(c, p, n, r)
    \/ \E p \in Proxy \cup Node, n \in Node, r \in Routine, u \in User :
          CreateKeygroup(p, n, r, u)
    \/ \E n \in Node, r \in Routine : RequestStep(n, r)
    \/ \E n \in Node, q \in Query : WatchStep(n, q) /\ UNCHANGED accessVars
    \/ \E n \in Node : Crash(n)
    \/ AllServed

AccessSpec == AccessInit /\ [][AccessNext]_allVars

\* Goroutines go on, watches are registered, and etcd delivers changes.
AccessFairness ==
    /\ \A n \in Node, r \in Routine : WF_allVars(RequestStep(n, r))
    /\ \A n \in Caching, q \in Query :
          /\ WF_allVars(Watch(n, q) /\ UNCHANGED accessVars)
          /\ WF_allVars(Invalidate(n, q) /\ UNCHANGED accessVars)

FairAccessSpec == AccessSpec /\ AccessFairness

----------------------------------------------------------------------------
(* Properties *)

Decided(n, r) == job[n][r].step = "check" /\ job'[n][r].step # "check"
Admitted(n, r) == Decided(n, r) /\ job'[n][r].step # "none"

\* A call is admitted only if its user had the right at some time since the call
\* came in, unless the machine's cache is behind: a notification is on its way,
\* or etcd changed between an answer and its watch.
AdmittedForAReason ==
    [][\A n \in Node, r \in Routine : Admitted(n, r) =>
          \/ Needed(n, r) \in was[n][r]
          \/ fired[n][Prefix(job[n][r].by)] > 0
          \/ Prefix(job[n][r].by) \in hit[n]]_allVars

\* Once a FReD node has taken a right, no machine of that node admits a call for it
\* until the right is given again, whatever the machine has cached.
TakenStaysTaken ==
    [][\A n \in Node, r \in Routine :
          Admitted(n, r) => Needed(n, r) \notin gone[Site[n]]]_allVars

\* A role is whole: once the edits of a role of a user are over, the user has
\* all of its rights or none, as the last edit ordered, unless an edit has failed
\* in the middle or two have overlapped.
RolesAsOrdered ==
    \A u \in User, ro \in Role :
        \/ ordered[u][ro] = "torn"
        \/ \E n \in Node, r \in Routine : Editing(n, r) /\ job[n][r].whom = u /\ ro \in job[n][r].roles
        \/ Rights(etcd) \cap RoleRights(u, ro)
               = IF ordered[u][ro] = "given" THEN RoleRights(u, ro) ELSE {}

\* All machines of a FReD node that work on the keygroup are one and the same,
\* for the calls of clients and for those of other nodes.
BoundToOneMachine ==
    \A n, m \in Node, r, s \in Routine :
        /\ Site[n] = Site[m] /\ Serves(n, r) /\ Serves(m, s)
        /\ job[n][r].call[2] \notin NodeCalls /\ job[m][s].call[2] \notin NodeCalls
        => n = m

=============================================================================
