---------------------------- MODULE AccessProofs ----------------------------
(***************************************************************************)
(* Proofs about Access, for any machines, proxies, users, roles and number *)
(* of requests: the calls about the keygroup reach one machine of a FReD   *)
(* node only, roles are as the last edit ordered them, a call is admitted  *)
(* for a right its user had, or because the cache is behind, and never for *)
(* a right its own node has taken.                                         *)
(***************************************************************************)
EXTENDS Access, NaSeCacheProofs

----------------------------------------------------------------------------
(* The way of a call *)

\* The machine is the one its proxy sends the calls about the keygroup to, or it
\* has no proxy.
Bound(n) == Proxied(n) => n = getHost(proxyHost[n])

\* Only the calls about nodes go to any machine.
LEMMA RouteFacts ==
    /\ \A c \in ClientCalls : Route[c] = "getAny" => c \in NodeCalls
    /\ Checked \cap NodeCalls = {}
    /\ DOMAIN UserNeeds \cap NodeCalls = {}
<1>1. ASSUME NEW c \in ClientCalls, Route[c] = "getAny" PROVE c \in NodeCalls
  <2>1. PICK t \in RouteTables : c \in DOMAIN t /\ Route[c] = t[c]
    <3>1. \E t \in RouteTables : c \in DOMAIN t
      BY DEF RouteTables, ItemRoute, ReplicaRoute, TriggerRoute, ClientCalls
    <3> QED
      BY <3>1 DEF Route
  <2> QED
    BY <1>1, <2>1 DEF RouteTables, ItemRoute, ReplicaRoute, TriggerRoute
<1>2. Checked = DOMAIN KeygroupNeeds \cup DOMAIN ReadNeeds \cup DOMAIN WriteNeeds
                    \cup DOMAIN ReplicaNeeds \cup DOMAIN TriggerNeeds \cup DOMAIN UserNeeds
  BY DEF Checked, NeedsTables
<1>3. /\ DOMAIN KeygroupNeeds = {"DeleteKeygroup"}
      /\ DOMAIN ReadNeeds = {"Read", "Scan"}
      /\ DOMAIN WriteNeeds = {"Append", "Update", "Delete"}
      /\ DOMAIN ReplicaNeeds = {"AddReplica", "GetKeygroupReplica", "RemoveReplica"}
      /\ DOMAIN TriggerNeeds = {"AddTrigger", "GetKeygroupTriggers", "RemoveTrigger"}
      /\ DOMAIN UserNeeds = {"AddUser", "RemoveUser"}
  BY DEF KeygroupNeeds, ReadNeeds, WriteNeeds, ReplicaNeeds, TriggerNeeds, UserNeeds
<1>4. Checked \cap NodeCalls = {}
  BY <1>2, <1>3 DEF NodeCalls
<1> QED
  BY <1>1, <1>3, <1>4 DEF NodeCalls

\* The machines of a proxy are started with that proxy.
LEMMA HostFacts ==
    ASSUME NEW p \in Proxy
    PROVE  /\ getHost(p) \in getAny(p)
           /\ \A m \in getAny(p) : m \in Node /\ proxyHost[m] = p
<1>1. Hosts[p] \in Seq(Node) /\ Hosts[p] # <<>>
  BY AccessAssumption
<1>2. Len(Hosts[p]) \in Nat /\ Len(Hosts[p]) # 0
  BY <1>1
<1>3. (Hash % Len(Hosts[p])) + 1 \in 1..Len(Hosts[p])
  <2> DEFINE l == Len(Hosts[p])
  <2>1. l \in Nat \ {0} /\ Hash \in Nat
    BY <1>2, AccessAssumption
  <2> HIDE DEF l
  <2>2. Hash % l \in 0..(l - 1)
    BY <2>1
  <2>3. (Hash % l) + 1 \in 1..l
    BY <2>1, <2>2
  <2> QED
    BY <2>3 DEF l
<1>4. getHost(p) \in getAny(p)
  BY <1>3 DEF getHost, getAny
<1>5. \A i \in 1..Len(Hosts[p]) : Hosts[p][i] \in Node /\ proxyHost[Hosts[p][i]] = p
  BY <1>1, AccessAssumption
<1> QED
  BY <1>4, <1>5 DEF getAny

\* A machine sees the user who made the call, or nobody; a call about the keygroup
\* that it serves has come to the one machine such calls are sent to.
LEMMA UserAtFacts ==
    ASSUME NEW c \in ClientCalls, NEW p \in Proxy \cup Node, NEW m \in Node, NEW u \in User,
           UserAt(c, p, m, u) # Nobody
    PROVE  UserAt(c, p, m, u) = u /\ (c \notin NodeCalls => Bound(m))
<1>1. CASE p \in Proxy
  <2>1. m \in APIProxy(p, c) /\ UserAt(c, p, m, u) = CheckCert(m, addUserHeader(p, u))
    BY <1>1 DEF UserAt
  <2>2. m \in getAny(p)
    BY <1>1, <2>1, HostFacts DEF APIProxy
  <2>3. proxyHost[m] = p /\ p # NoProxy
    BY <1>1, <2>2, HostFacts, AccessAssumption
  <2>4. UserAt(c, p, m, u) = u
    BY <2>1, <2>3 DEF CheckCert, addUserHeader, Proxied
  <2>5. c \notin NodeCalls => m = getHost(p)
    BY <2>1, RouteFacts DEF APIProxy
  <2> QED
    BY <2>3, <2>4, <2>5 DEF Bound
<1>2. CASE p \notin Proxy
  <2>1. p = m /\ UserAt(c, p, m, u) = CheckCert(m, Direct(u))
    BY <1>2 DEF UserAt
  <2>2. ~Proxied(m)
    BY <2>1 DEF CheckCert, Direct
  <2> QED
    BY <2>1, <2>2 DEF CheckCert, Direct, Bound
<1> QED
  BY <1>1, <1>2

LEMMA PeerArrivesFacts ==
    ASSUME NEW p \in Proxy \cup Node, NEW m \in Node, PeerArrives(p, m)
    PROVE  Bound(m)
<1>1. CASE p \in Proxy
  <2>1. m = getHost(p) /\ proxyHost[m] = p
    BY <1>1, HostFacts DEF PeerArrives, PeeringProxy
  <2> QED
    BY <2>1 DEF Bound
<1>2. CASE p \notin Proxy
  BY <1>2 DEF PeerArrives, Bound
<1> QED
  BY <1>1, <1>2

\* A FReD node has one machine for the calls about the keygroup.
LEMMA OneBound ==
    ASSUME NEW n \in Node, NEW m \in Node, Site[n] = Site[m], Bound(n), Bound(m)
    PROVE  n = m
BY AccessAssumption DEF Bound, Proxied

----------------------------------------------------------------------------
(* The requests *)

Jobs ==
    [step : {"none", "check", "act", "edit"}, call : Call \cup {NoCall},
     by : User \cup {Nobody}, roles : SUBSET Role, whom : User \cup {Nobody},
     todo : SUBSET Key]

\* What a request of machine n looks like in each of its steps.
JobOK(n, j) ==
    /\ j.step = "none" => j = NoJob
    /\ j.step = "check" => j.by \in User /\ j.call[2] \in Checked
    /\ j.step = "edit" => /\ j.whom \in User /\ j.roles # {}
                          /\ j.todo \subseteq RightsOf(j.whom, j.roles)
    /\ j.step # "edit" => j.roles = {}
    /\ j.step \in {"check", "edit"} => j.call[2] \notin NodeCalls
    /\ j.step # "none" /\ j.call[2] \notin NodeCalls => Bound(n)

\* What a goroutine does with the name service, it does for its request.
RoutineOK(n, r) ==
    /\ pc[n][r] = "put" => job[n][r].step = "edit" /\ key[n][r] \in job[n][r].todo
    /\ pc[n][r] \in {"get", "set"} =>
           job[n][r].step = "check" /\ qry[n][r] = Prefix(job[n][r].by)

JobsOK ==
    /\ job \in [Node -> [Routine -> Jobs]]
    /\ \A n \in Node, r \in Routine : JobOK(n, job[n][r])

RoutinesOK == \A n \in Node, r \in Routine : RoutineOK(n, r)

RequestInv == TypeInv /\ JobsOK /\ RoutinesOK

\* The step changes nothing of the other goroutines.
Elsewhere(n, r) ==
    \A m \in Node, s \in Routine : m # n \/ s # r =>
        /\ pc'[m][s] = pc[m][s] /\ qry'[m][s] = qry[m][s] /\ key'[m][s] = key[m][s]
        /\ got'[m][s] = got[m][s] /\ job'[m][s] = job[m][s]

LEMMA RightsOfFacts ==
    ASSUME NEW u \in User, NEW ros \in SUBSET Role
    PROVE  RightsOf(u, ros) \subseteq Key
BY AccessAssumption DEF RightsOf, RoleRights

LEMMA NoJobFacts == NoJob \in Jobs /\ \A n \in Node : JobOK(n, NoJob)
BY DEF NoJob, Jobs, JobOK, NoCall, Call

LEMMA NewJob ==
    ASSUME JobsOK, NEW n \in Node, NEW r \in Routine, NEW j \in Jobs, JobOK(n, j),
           job' = [job EXCEPT ![n][r] = j]
    PROVE  /\ JobsOK' /\ job'[n][r] = j
           /\ \A m \in Node, s \in Routine : m # n \/ s # r => job'[m][s] = job[m][s]
<1>1. /\ job' \in [Node -> [Routine -> Jobs]] /\ job'[n][r] = j
      /\ \A m \in Node, s \in Routine : m # n \/ s # r => job'[m][s] = job[m][s]
  BY DEF JobsOK
<1>2. \A m \in Node, s \in Routine : JobOK(m, job'[m][s])
  <2> SUFFICES ASSUME NEW m \in Node, NEW s \in Routine PROVE JobOK(m, job'[m][s])
    OBVIOUS
  <2>1. CASE m = n /\ s = r
    BY <1>1, <2>1
  <2>2. CASE m # n \/ s # r
    BY <1>1, <2>2 DEF JobsOK
  <2> QED
    BY <2>1, <2>2
<1>3. JobsOK'
  BY <1>1, <1>2 DEF JobsOK, JobOK
<1> QED
  BY <1>1, <1>3

LEMMA EndFacts ==
    ASSUME JobsOK, NEW n \in Node, NEW r \in Routine, NEW st, End(n, r, st)
    PROVE  /\ JobsOK' /\ job'[n][r] = NoJob
           /\ \A m \in Node, s \in Routine : m # n \/ s # r => job'[m][s] = job[m][s]
<1>1. job' = [job EXCEPT ![n][r] = NoJob]
  BY DEF End
<1> QED
  BY <1>1, NewJob, NoJobFacts

\* The roles an edit may be about.
RoleSets == (SUBSET Role) \ {{}}

\* The request of an edit.
EditJob(j, ros, w) ==
    [j EXCEPT !.step = "edit", !.roles = ros, !.whom = w, !.todo = RightsOf(w, ros)]

LEMMA EditJobFacts ==
    ASSUME NEW n \in Node, Bound(n), NEW j \in Jobs, j.call[2] \notin NodeCalls,
           NEW ros \in RoleSets, NEW w \in User
    PROVE  /\ EditJob(j, ros, w) \in Jobs /\ JobOK(n, EditJob(j, ros, w))
           /\ EditJob(j, ros, w).step = "edit" /\ EditJob(j, ros, w).roles = ros
           /\ EditJob(j, ros, w).whom = w /\ EditJob(j, ros, w).todo = RightsOf(w, ros)
           /\ EditJob(j, ros, w).call = j.call
<1> DEFINE e == EditJob(j, ros, w)
<1>1. RightsOf(w, ros) \in SUBSET Key /\ ros \in SUBSET Role /\ ros # {}
  BY RightsOfFacts DEF RoleSets
<1>2. /\ e \in Jobs /\ e.step = "edit" /\ e.roles = ros /\ e.whom = w
      /\ e.todo = RightsOf(w, ros) /\ e.call = j.call
  BY <1>1 DEF EditJob, Jobs
<1> HIDE DEF e
<1>3. JobOK(n, e)
  BY <1>1, <1>2 DEF JobOK
<1> QED
  BY <1>2, <1>3 DEF e

\* A request that has been checked goes on or ends.
LEMMA DecideFacts ==
    ASSUME JobsOK, NEW n \in Node, NEW r \in Routine, NEW answer,
           job[n][r].step = "check", Decide(n, r, answer)
    PROVE  /\ JobsOK' /\ job'[n][r].step # "check"
           /\ \A m \in Node, s \in Routine : m # n \/ s # r => job'[m][s] = job[m][s]
<1> DEFINE j == job[n][r]
<1>1. j \in Jobs /\ JobOK(n, j) /\ j.step = "check"
  BY DEF JobsOK
<1>2. Bound(n) /\ j.call[2] \notin NodeCalls
  BY <1>1 DEF JobOK
<1>3. CASE End(n, r, "torn")
  BY <1>3, EndFacts DEF NoJob
<1>4. CASE job' = [job EXCEPT ![n][r].step = "act"]
  <2> DEFINE a == [j EXCEPT !.step = "act"]
  <2>1. job' = [job EXCEPT ![n][r] = a]
    BY <1>4
  <2>2. a \in Jobs /\ a.step = "act" /\ a.call = j.call /\ a.roles = j.roles
    BY <1>1 DEF Jobs
  <2> HIDE DEF a
  <2>3. JobOK(n, a)
    BY <1>1, <1>2, <2>2 DEF JobOK
  <2> QED
    BY <2>1, <2>2, <2>3, NewJob
<1>5. ASSUME NEW w \in User, NEW ro \in GivenRoles, BeginEdit(n, r, j, {ro}, w)
      PROVE  /\ JobsOK' /\ job'[n][r].step # "check"
             /\ \A m \in Node, s \in Routine : m # n \/ s # r => job'[m][s] = job[m][s]
  <2>1. {ro} \in RoleSets
    BY AccessAssumption DEF RoleSets
  <2> DEFINE e == EditJob(j, {ro}, w)
  <2>2. e \in Jobs /\ JobOK(n, e) /\ e.step = "edit"
    <3> HIDE DEF j
    <3> QED
      BY <1>1, <1>2, <2>1, EditJobFacts
  <2>3. job' = [job EXCEPT ![n][r] = e]
    BY <1>5 DEF BeginEdit, EditJob
  <2> HIDE DEF e
  <2> QED
    BY <2>2, <2>3, NewJob
<1> QED
  BY <1>3, <1>4, <1>5 DEF Decide

----------------------------------------------------------------------------
(* Every step of a request is a step of the cached name service, and leaves *)
(* the requests in order.                                                   *)

LEMMA InitRequest == AccessInit => RequestInv
<1> SUFFICES ASSUME AccessInit PROVE RequestInv
  OBVIOUS
<1>1. TypeInv
  BY InitTypeInv DEF AccessInit
<1>2. \A n \in Node, r \in Routine : job[n][r] = NoJob /\ pc[n][r] = "idle"
  BY DEF AccessInit, Init, Nowhere
<1>3. job \in [Node -> [Routine -> Jobs]]
  BY NoJobFacts DEF AccessInit, Nowhere
<1>4. JobsOK
  BY <1>2, <1>3, NoJobFacts DEF JobsOK
<1> QED
  BY <1>1, <1>2, <1>4 DEF RequestInv, RoutinesOK, RoutineOK

LEMMA StepAt ==
    ASSUME RequestInv, NEW n \in Node, NEW r \in Routine, Elsewhere(n, r), RoutineOK(n, r)'
    PROVE  RoutinesOK'
<1> SUFFICES ASSUME NEW m \in Node, NEW s \in Routine PROVE RoutineOK(m, s)'
  BY DEF RoutinesOK
<1>1. CASE m = n /\ s = r
  BY <1>1
<1>2. CASE m # n \/ s # r
  BY <1>2 DEF Elsewhere, RequestInv, RoutinesOK, RoutineOK
<1> QED
  BY <1>1, <1>2

\* A step that leaves the name service alone and whose goroutine has nothing to
\* do with it.
LEMMA IdleStep ==
    ASSUME RequestInv, NEW n \in Node, NEW r \in Routine, UNCHANGED vars, pc[n][r] = "idle", JobsOK',
           \A m \in Node, s \in Routine : m # n \/ s # r => job'[m][s] = job[m][s]
    PROVE  RoutinesOK' /\ Elsewhere(n, r)
<1>1. Elsewhere(n, r) /\ RoutineOK(n, r)'
  BY DEF Elsewhere, RoutineOK, vars
<1> QED
  BY <1>1, StepAt

LEMMA ServeFacts ==
    ASSUME RequestInv, NEW n \in Node, NEW r \in Routine, pc[n][r] = "idle",
           NEW c \in Call, NEW u \in User \cup {Nobody}, NEW step \in {"check", "act"},
           step = "check" => u \in User /\ c[2] \in Checked,
           c[2] \notin NodeCalls => Bound(n),
           Serve(n, r, c, u, step)
    PROVE  /\ JobsOK' /\ RoutinesOK' /\ job'[n][r].step = step /\ job'[n][r].roles = {}
           /\ Elsewhere(n, r)
<1> DEFINE j == [NoJob EXCEPT !.step = step, !.call = c, !.by = u]
<1>1. /\ j \in Jobs /\ j.step = step /\ j.call = c /\ j.by = u /\ j.roles = {}
  BY DEF Jobs, NoJob
<1>2. job' = [job EXCEPT ![n][r] = j] /\ UNCHANGED vars
  BY DEF Serve
<1> HIDE DEF j
<1>3. step = "check" => c[2] \notin NodeCalls
  BY RouteFacts
<1>4. JobOK(n, j)
  BY <1>1, <1>3 DEF JobOK
<1>5. /\ JobsOK' /\ job'[n][r] = j
      /\ \A m \in Node, s \in Routine : m # n \/ s # r => job'[m][s] = job[m][s]
  BY <1>1, <1>2, <1>4, NewJob DEF RequestInv
<1>6. RoutinesOK' /\ Elsewhere(n, r)
  BY <1>2, <1>5, IdleStep
<1> QED
  BY <1>1, <1>5, <1>6

LEMMA ReceiveFacts ==
    ASSUME RequestInv, NEW c \in Ops, NEW p \in Proxy \cup Node, NEW n \in Node, NEW r \in Routine,
           NEW u \in User, Receive(c, p, n, r, u)
    PROVE  /\ JobsOK' /\ RoutinesOK' /\ job'[n][r].step # "edit" /\ job'[n][r].roles = {}
           /\ Elsewhere(n, r) /\ UNCHANGED vars
<1> DEFINE user == UserAt(c[2], p, n, u)
           step == IF c[2] \in Checked THEN "check" ELSE "act"
<1>1. /\ c \in Call /\ c[1] = "client" /\ user # Nobody /\ Serve(n, r, c, user, step)
      /\ pc[n][r] = "idle"
  BY AccessAssumption DEF Receive, Accept
<1>2. c[2] \in ClientCalls
  BY <1>1 DEF Call
<1>3. user = u /\ (c[2] \notin NodeCalls => Bound(n))
  BY <1>1, <1>2, UserAtFacts
<1>4. user \in User \cup {Nobody} /\ step \in {"check", "act"}
      /\ (step = "check" => user \in User /\ c[2] \in Checked)
  BY <1>3
<1> HIDE DEF user, step
<1>5. UNCHANGED vars
  BY <1>1 DEF Serve
<1> QED
  BY <1>1, <1>3, <1>4, <1>5, ServeFacts

LEMMA ReceivePeerFacts ==
    ASSUME RequestInv, NEW c \in Ops, NEW p \in Proxy \cup Node, NEW n \in Node, NEW r \in Routine,
           ReceivePeer(c, p, n, r)
    PROVE  /\ JobsOK' /\ RoutinesOK' /\ job'[n][r].step # "edit" /\ job'[n][r].roles = {}
           /\ Elsewhere(n, r) /\ UNCHANGED vars
<1>1. /\ c \in Call /\ Serve(n, r, c, Nobody, "act") /\ pc[n][r] = "idle" /\ Bound(n)
  BY AccessAssumption, PeerArrivesFacts DEF ReceivePeer, Accept
<1>2. UNCHANGED vars
  BY <1>1 DEF Serve
<1> QED
  BY <1>1, <1>2, ServeFacts

\* Who creates a keygroup edits all roles, unless the store has failed.
LEMMA CreateFacts ==
    ASSUME RequestInv, NEW p \in Proxy \cup Node, NEW n \in Node, NEW r \in Routine,
           NEW u \in User, CreateKeygroup(p, n, r, u)
    PROVE  /\ JobsOK' /\ RoutinesOK' /\ Elsewhere(n, r) /\ UNCHANGED vars
           /\ \/ UNCHANGED <<job, clash>>
              \/ \E j \in Jobs : BeginEdit(n, r, j, Role, u) /\ Bound(n) /\ j.call[2] \notin NodeCalls
<1> DEFINE c == <<"client", "CreateKeygroup">>
           user == UserAt(c[2], p, n, u)
           j == [NoJob EXCEPT !.call = c, !.by = user]
<1>1. c[2] \in ClientCalls /\ c[2] \notin NodeCalls /\ c \in Call
  BY DEF ClientCalls, KeygroupCalls, NodeCalls, Call
<1>2. /\ user # Nobody /\ pc[n][r] = "idle" /\ UNCHANGED vars
      /\ BeginEdit(n, r, j, Role, user) \/ UNCHANGED <<job, clash>>
  BY DEF CreateKeygroup, Accept
<1>3. user = u /\ Bound(n)
  BY <1>1, <1>2, UserAtFacts
<1>4. CASE UNCHANGED <<job, clash>>
  <2>1. JobsOK'
    BY <1>4 DEF RequestInv, JobsOK
  <2> QED
    BY <1>2, <1>4, <2>1, IdleStep
<1>5. CASE BeginEdit(n, r, j, Role, user)
  <2>1. j \in Jobs /\ j.call = c
    BY <1>1, <1>3 DEF NoJob, Jobs
  <2>2. Role \in RoleSets
    BY DEF RoleSets, Role, permissions
  <2>3. job' = [job EXCEPT ![n][r] = EditJob(j, Role, u)]
    BY <1>3, <1>5 DEF BeginEdit, EditJob
  <2> HIDE DEF j
  <2>4. EditJob(j, Role, u) \in Jobs /\ JobOK(n, EditJob(j, Role, u))
    BY <1>1, <1>3, <2>1, <2>2, EditJobFacts
  <2>5. JobsOK' /\ \A m \in Node, s \in Routine : m # n \/ s # r => job'[m][s] = job[m][s]
    BY <2>3, <2>4, NewJob DEF RequestInv
  <2>6. BeginEdit(n, r, j, Role, u)
    BY <1>3, <1>5
  <2> QED
    BY <1>1, <1>2, <1>3, <2>1, <2>5, <2>6, IdleStep
<1> QED
  BY <1>2, <1>4, <1>5

\* The check of a user's rights asks for the rights of that user.
LEMMA CheckFacts ==
    ASSUME RequestInv, NEW n \in Node, NEW r \in Routine, job[n][r].step = "check"
    PROVE  /\ job[n][r].by \in User /\ Prefix(job[n][r].by) \in Query
           /\ pc[n][r] \in {"get", "set"} => qry[n][r] = Prefix(job[n][r].by)
           /\ Bound(n)
BY AccessAssumption DEF RequestInv, JobsOK, JobOK, RoutinesOK, RoutineOK

\* A step of the name service that ends with the goroutine idle, and a decision.
LEMMA IdleAfter ==
    ASSUME RequestInv, NEW n \in Node, NEW r \in Routine, JobsOK', pc'[n][r] = "idle",
           \A m \in Node, s \in Routine : m # n \/ s # r =>
               /\ pc'[m][s] = pc[m][s] /\ qry'[m][s] = qry[m][s]
               /\ key'[m][s] = key[m][s] /\ got'[m][s] = got[m][s],
           \A m \in Node, s \in Routine : m # n \/ s # r => job'[m][s] = job[m][s]
    PROVE  RoutinesOK' /\ Elsewhere(n, r)
<1>1. Elsewhere(n, r) /\ RoutineOK(n, r)'
  BY DEF Elsewhere, RoutineOK
<1> QED
  BY <1>1, StepAt

LEMMA CachedFacts ==
    ASSUME RequestInv, NEW n \in Node, NEW r \in Routine, IsAllowedCached(n, r)
    PROVE  Next /\ JobsOK' /\ RoutinesOK' /\ Elsewhere(n, r)
<1> DEFINE q == Prefix(job[n][r].by)
<1>1. q \in Query /\ CacheHit(n, r, q) /\ Decide(n, r, cache[n][q]) /\ job[n][r].step = "check"
  BY CheckFacts DEF IsAllowedCached
<1> HIDE DEF q
<1>2. Next
  BY <1>1 DEF Next
<1>3. JobsOK' /\ \A m \in Node, s \in Routine : m # n \/ s # r => job'[m][s] = job[m][s]
  BY <1>1, DecideFacts DEF RequestInv
<1>4. pc[n][r] = "idle" /\ UNCHANGED <<pc, qry, key, got>>
  BY <1>1 DEF CacheHit
<1> QED
  BY <1>2, <1>3, <1>4, IdleAfter

LEMMA UncachedFacts ==
    ASSUME RequestInv, NEW n \in Node, NEW r \in Routine, IsAllowedUncached(n, r)
    PROVE  Next /\ JobsOK' /\ RoutinesOK' /\ Elsewhere(n, r)
<1> DEFINE q == Prefix(job[n][r].by)
<1>1. /\ q \in Query /\ GetUncached(n, r, q) /\ job[n][r].step = "check"
      /\ Decide(n, r, Answer(q)) \/ End(n, r, "torn")
  BY CheckFacts DEF IsAllowedUncached
<1> HIDE DEF q
<1>2. Next
  BY <1>1 DEF Next
<1>3. JobsOK' /\ \A m \in Node, s \in Routine : m # n \/ s # r => job'[m][s] = job[m][s]
  BY <1>1, DecideFacts, EndFacts DEF RequestInv
<1>4. pc[n][r] = "idle" /\ UNCHANGED <<pc, qry, key, got>>
  BY <1>1 DEF GetUncached
<1> QED
  BY <1>2, <1>3, <1>4, IdleAfter

LEMMA AsksFacts ==
    ASSUME RequestInv, NEW n \in Node, NEW r \in Routine, IsAllowedAsks(n, r)
    PROVE  Next /\ JobsOK' /\ RoutinesOK' /\ Elsewhere(n, r)
<1> DEFINE q == Prefix(job[n][r].by)
<1>1. /\ q \in Query /\ CacheMiss(n, r, q) /\ job[n][r].step = "check" /\ UNCHANGED job
  BY CheckFacts DEF IsAllowedAsks, accessVars
<1>2. Next
  BY <1>1 DEF Next
<1>3. JobsOK'
  BY <1>1 DEF RequestInv, JobsOK
<1>4. /\ pc'[n][r] = "get" /\ qry'[n][r] = q /\ UNCHANGED <<key, got>>
      /\ \A m \in Node, s \in Routine : m # n \/ s # r =>
             pc'[m][s] = pc[m][s] /\ qry'[m][s] = qry[m][s]
  <2> HIDE DEF q
  <2> QED
    BY <1>1 DEF CacheMiss, RequestInv, TypeInv, TypeOK
<1>5. Elsewhere(n, r) /\ RoutineOK(n, r)'
  BY <1>1, <1>4 DEF Elsewhere, RoutineOK
<1> QED
  BY <1>2, <1>3, <1>5, StepAt

LEMMA GetFacts ==
    ASSUME RequestInv, NEW n \in Node, NEW r \in Routine, IsAllowedGet(n, r)
    PROVE  Next /\ JobsOK' /\ RoutinesOK' /\ Elsewhere(n, r)
<1>1. Get(n, r) /\ job[n][r].step = "check" /\ TypeInv /\ JobsOK
  BY DEF IsAllowedGet, RequestInv
<1>2. Next
  BY <1>1 DEF Next, RoutineStep
<1>3. CASE Done(n, r)
  <2>1. pc'[n][r] = "idle"
    BY <1>1, <1>3, DoneFacts
  <2>2. End(n, r, "torn")
    BY <2>1 DEF IsAllowedGet
  <2>3. JobsOK' /\ \A m \in Node, s \in Routine : m # n \/ s # r => job'[m][s] = job[m][s]
    BY <1>1, <2>2, EndFacts
  <2>4. \A m \in Node, s \in Routine : m # n \/ s # r =>
               /\ pc'[m][s] = pc[m][s] /\ qry'[m][s] = qry[m][s]
               /\ key'[m][s] = key[m][s] /\ got'[m][s] = got[m][s]
    BY <1>1, <1>3, DoneFacts
  <2> QED
    BY <1>2, <2>1, <2>3, <2>4, IdleAfter
<1>4. CASE /\ got' = [got EXCEPT ![n][r] = Answer(qry[n][r])]
           /\ pc' = [pc EXCEPT ![n][r] = "set"]
           /\ UNCHANGED <<qry, key>>
  <2>1. /\ pc'[n][r] = "set"
        /\ \A m \in Node, s \in Routine : m # n \/ s # r =>
               pc'[m][s] = pc[m][s] /\ got'[m][s] = got[m][s]
    BY <1>1, <1>4 DEF TypeInv, TypeOK
  <2>2. UNCHANGED job
    BY <2>1 DEF IsAllowedGet
  <2>3. JobsOK'
    BY <1>1, <2>2 DEF JobsOK
  <2>4. Elsewhere(n, r)
    BY <1>4, <2>1, <2>2 DEF Elsewhere
  <2>5. pc[n][r] = "get"
    BY <1>1 DEF Get
  <2>6. RoutineOK(n, r)'
    BY <1>1, <1>4, <2>1, <2>2, <2>5, CheckFacts DEF RoutineOK
  <2> QED
    BY <1>2, <2>3, <2>4, <2>6, StepAt
<1> QED
  BY <1>1, <1>3, <1>4 DEF Get

LEMMA AnswerStepFacts ==
    ASSUME RequestInv, NEW n \in Node, NEW r \in Routine, IsAllowedAnswer(n, r)
    PROVE  Next /\ JobsOK' /\ RoutinesOK' /\ Elsewhere(n, r)
<1>1. /\ Set(n, r) /\ Done(n, r) /\ Decide(n, r, got[n][r]) /\ job[n][r].step = "check"
      /\ TypeInv /\ JobsOK
  BY DEF IsAllowedAnswer, Set, RequestInv
<1>2. Next
  BY <1>1 DEF Next, RoutineStep
<1>3. JobsOK' /\ \A m \in Node, s \in Routine : m # n \/ s # r => job'[m][s] = job[m][s]
  BY <1>1, DecideFacts
<1>4. /\ pc'[n][r] = "idle"
      /\ \A m \in Node, s \in Routine : m # n \/ s # r =>
               /\ pc'[m][s] = pc[m][s] /\ qry'[m][s] = qry[m][s]
               /\ key'[m][s] = key[m][s] /\ got'[m][s] = got[m][s]
  BY <1>1, DoneFacts
<1> QED
  BY <1>2, <1>3, <1>4, IdleAfter

LEMMA OperateFacts ==
    ASSUME RequestInv, NEW n \in Node, NEW r \in Routine, Operate(n, r)
    PROVE  UNCHANGED vars /\ JobsOK' /\ RoutinesOK' /\ Elsewhere(n, r)
<1>1. UNCHANGED vars /\ End(n, r, "torn") /\ job[n][r].step = "act"
  BY DEF Operate
<1>2. pc[n][r] = "idle"
  <2>1. pc[n][r] \in {"idle", "get", "set", "put"}
    BY DEF RequestInv, TypeInv, TypeOK
  <2> QED
    BY <1>1, <2>1 DEF RequestInv, RoutinesOK, RoutineOK
<1>3. JobsOK' /\ \A m \in Node, s \in Routine : m # n \/ s # r => job'[m][s] = job[m][s]
  BY <1>1, EndFacts DEF RequestInv
<1> QED
  BY <1>1, <1>2, <1>3, IdleStep

LEMMA EditDoneFacts ==
    ASSUME RequestInv, NEW n \in Node, NEW r \in Routine, EditDone(n, r)
    PROVE  UNCHANGED vars /\ JobsOK' /\ RoutinesOK' /\ Elsewhere(n, r)
<1> DEFINE st == IF Gives(n, r) THEN "given" ELSE "taken"
<1>1. UNCHANGED vars /\ End(n, r, st) /\ job[n][r].step = "edit" /\ job[n][r].todo = {}
  BY DEF EditDone
<1>2. pc[n][r] = "idle"
  <2>1. pc[n][r] \in {"idle", "get", "set", "put"}
    BY DEF RequestInv, TypeInv, TypeOK
  <2> QED
    BY <1>1, <2>1 DEF RequestInv, RoutinesOK, RoutineOK
<1> HIDE DEF st
<1>3. JobsOK' /\ \A m \in Node, s \in Routine : m # n \/ s # r => job'[m][s] = job[m][s]
  BY <1>1, EndFacts DEF RequestInv
<1> QED
  BY <1>1, <1>2, <1>3, IdleStep

\* The machine forgets what it has cached about a right that is still to write.
LEMMA EditLocalFacts ==
    ASSUME RequestInv, NEW n \in Node, NEW r \in Routine, EditLocal(n, r)
    PROVE  Next /\ JobsOK' /\ RoutinesOK' /\ Elsewhere(n, r) /\ UNCHANGED job
<1> USE DEF RequestInv
<1>1. /\ job[n][r].step = "edit" /\ UNCHANGED job /\ job[n][r] \in Jobs
  BY DEF EditLocal, accessVars, JobsOK
<1>2. NextRights(job[n][r]) \subseteq job[n][r].todo /\ job[n][r].todo \subseteq Key
  BY <1>1 DEF NextRights, Jobs
<1>3. PICK k \in NextRights(job[n][r]) : PutLocal(n, r, k)
  BY DEF EditLocal
<1>4. k \in Key /\ k \in job[n][r].todo
  BY <1>2
<1>5. Next
  BY <1>3, <1>4 DEF Next
<1>6. JobsOK'
  BY <1>1 DEF JobsOK
<1>7. /\ pc'[n][r] = "put" /\ key'[n][r] = k /\ UNCHANGED <<qry, got>>
      /\ \A m \in Node, s \in Routine : m # n \/ s # r =>
             pc'[m][s] = pc[m][s] /\ key'[m][s] = key[m][s]
  BY <1>3 DEF PutLocal, TypeInv, TypeOK
<1>8. Elsewhere(n, r) /\ RoutineOK(n, r)'
  BY <1>1, <1>4, <1>7 DEF Elsewhere, RoutineOK
<1> QED
  BY <1>1, <1>5, <1>6, <1>8, StepAt

\* A right has been written, or the edit ends.
LEMMA EditEtcdFacts ==
    ASSUME RequestInv, NEW n \in Node, NEW r \in Routine, EditEtcd(n, r)
    PROVE  /\ Next /\ JobsOK' /\ RoutinesOK' /\ Elsewhere(n, r)
           /\ \/ End(n, r, "torn") /\ writes' = writes
              \/ /\ job'[n][r] = [job[n][r] EXCEPT !.todo = @ \ {key[n][r]}]
                 /\ UNCHANGED <<clash, ordered>>
<1> USE DEF RequestInv
<1> DEFINE j == job[n][r]
           k == key[n][r]
<1>1. /\ j.step = "edit" /\ PutEtcd(n, r) /\ Done(n, r)
      /\ j \in Jobs /\ JobOK(n, j)
  BY DEF EditEtcd, PutEtcd, JobsOK
<1>2. Next
  BY <1>1 DEF Next, RoutineStep
<1>3. /\ pc'[n][r] = "idle"
      /\ \A m \in Node, s \in Routine : m # n \/ s # r =>
               /\ pc'[m][s] = pc[m][s] /\ qry'[m][s] = qry[m][s]
               /\ key'[m][s] = key[m][s] /\ got'[m][s] = got[m][s]
  BY <1>1, DoneFacts
<1>4. CASE writes' = writes /\ End(n, r, "torn")
  <2>1. JobsOK' /\ \A m \in Node, s \in Routine : m # n \/ s # r => job'[m][s] = job[m][s]
    BY <1>4, EndFacts
  <2> QED
    BY <1>2, <1>3, <1>4, <2>1, IdleAfter
<1>5. CASE job' = [job EXCEPT ![n][r].todo = @ \ {k}] /\ UNCHANGED <<clash, ordered>>
  <2> DEFINE e == [j EXCEPT !.todo = @ \ {k}]
  <2>1. job' = [job EXCEPT ![n][r] = e]
    BY <1>5
  <2>2. /\ e \in Jobs /\ e.step = j.step /\ e.call = j.call /\ e.whom = j.whom /\ e.roles = j.roles
        /\ e.todo \subseteq j.todo
    BY <1>1 DEF Jobs
  <2> HIDE DEF e, j
  <2>3. JobOK(n, e)
    BY <1>1, <2>2 DEF JobOK
  <2>4. /\ JobsOK' /\ job'[n][r] = e
        /\ \A m \in Node, s \in Routine : m # n \/ s # r => job'[m][s] = job[m][s]
    BY <2>1, <2>2, <2>3, NewJob
  <2>5. RoutinesOK' /\ Elsewhere(n, r)
    BY <1>3, <2>4, IdleAfter
  <2> QED
    BY <1>2, <1>5, <2>4, <2>5 DEF e, j
<1> QED
  BY <1>4, <1>5 DEF EditEtcd, Settle

LEMMA WatchStepFacts ==
    ASSUME RequestInv, NEW n \in Node, NEW q \in Query, WatchStep(n, q), UNCHANGED accessVars
    PROVE  Next /\ JobsOK' /\ RoutinesOK' /\ UNCHANGED <<etcd, pc, qry, key, got, writes, seen>>
<1>1. UNCHANGED <<etcd, pc, qry, key, got, writes, seen, job>>
  BY DEF WatchStep, Watch, Invalidate, accessVars
<1>2. Next
  BY DEF Next
<1>3. JobsOK' /\ RoutinesOK'
  BY <1>1 DEF RequestInv, JobsOK, RoutinesOK, RoutineOK
<1> QED
  BY <1>1, <1>2, <1>3

LEMMA CrashFacts ==
    ASSUME RequestInv, NEW n \in Node, Crash(n)
    PROVE  /\ Next /\ JobsOK' /\ RoutinesOK' /\ Restart(n)
           /\ \A r \in Routine : job'[n][r] = NoJob /\ pc'[n][r] = "idle"
           /\ \A m \in Node : m # n => job'[m] = job[m] /\ pc'[m] = pc[m] /\ got'[m] = got[m]
                                       /\ qry'[m] = qry[m] /\ key'[m] = key[m]
<1> USE DEF RequestInv
<1>1. Restart(n) /\ job' = [job EXCEPT ![n] = [r \in Routine |-> NoJob]]
  BY DEF Crash
<1>2. Next
  BY <1>1 DEF Next
<1>3. /\ job' \in [Node -> [Routine -> Jobs]]
      /\ \A r \in Routine : job'[n][r] = NoJob
      /\ \A m \in Node : m # n => job'[m] = job[m]
  BY <1>1, NoJobFacts DEF JobsOK
<1>4. JobsOK'
  BY <1>3, NoJobFacts DEF JobsOK, JobOK
<1>5. /\ \A r \in Routine : pc'[n][r] = "idle"
      /\ \A m \in Node : m # n => pc'[m] = pc[m] /\ qry'[m] = qry[m] /\ key'[m] = key[m]
                                  /\ got'[m] = got[m]
  BY <1>1 DEF Restart, TypeInv, TypeOK
<1>6. RoutinesOK'
  <2> SUFFICES ASSUME NEW m \in Node, NEW s \in Routine PROVE RoutineOK(m, s)'
    BY DEF RoutinesOK
  <2>1. CASE m = n
    BY <1>5, <2>1 DEF RoutineOK
  <2>2. CASE m # n
    BY <1>3, <1>5, <2>2 DEF RoutinesOK, RoutineOK
  <2> QED
    BY <2>1, <2>2
<1> QED
  BY <1>1, <1>2, <1>3, <1>4, <1>5, <1>6

LEMMA RequestStepFacts ==
    ASSUME RequestInv, NEW n \in Node, NEW r \in Routine, RequestStep(n, r)
    PROVE  [Next]_vars /\ JobsOK' /\ RoutinesOK' /\ Elsewhere(n, r)
BY CachedFacts, AsksFacts, GetFacts, AnswerStepFacts, UncachedFacts, OperateFacts, EditLocalFacts,
   EditEtcdFacts, EditDoneFacts DEF RequestStep

LEMMA NextRequest == RequestInv /\ [AccessNext]_allVars => RequestInv' /\ [Next]_vars
<1> SUFFICES ASSUME RequestInv, [AccessNext]_allVars PROVE RequestInv' /\ [Next]_vars
  OBVIOUS
<1>1. CASE UNCHANGED allVars
  <2>1. UNCHANGED <<vars, job>>
    BY <1>1 DEF allVars, accessVars
  <2> QED
    BY <2>1 DEF RequestInv, TypeInv, TypeOK, HandsOK, Answering, JobsOK, RoutinesOK, RoutineOK, vars
<1>2. CASE AccessNext
  <2>1. JobsOK' /\ RoutinesOK' /\ [Next]_vars
    <3>1. CASE AllServed
      BY <1>1, <3>1 DEF AllServed, RequestInv
    <3> QED
      BY <1>2, <3>1, ReceiveFacts, ReceivePeerFacts, CreateFacts, RequestStepFacts, WatchStepFacts,
         CrashFacts DEF AccessNext
  <2>2. TypeInv'
    BY <2>1, NextTypeInv DEF RequestInv
  <2> QED
    BY <2>1, <2>2 DEF RequestInv
<1> QED
  BY <1>1, <1>2

LEMMA RequestAlways == AccessSpec => []RequestInv
BY InitRequest, NextRequest, PTL DEF AccessSpec

\* The requests of clients and of other nodes use the cached name service by its own
\* steps, so that what NaSeCacheProofs shows can be used here.
LEMMA RequestsUseTheCache == AccessSpec => Spec
<1>1. AccessInit => Init
  BY DEF AccessInit
<1> QED
  BY <1>1, RequestAlways, NextRequest, PTL DEF AccessSpec, Spec

\* The variables of the cached name service keep their types when requests use it.
THEOREM RequestsKeepTypes == AccessSpec => []TypeOK
BY RequestsUseTheCache, TypeCorrect, PTL

\* What a machine has cached of the rights of a user is current, or is about to be
\* removed, or etcd has changed between the answer and the registration of its watch.
THEOREM StaleRightsExplained == AccessSpec => []StaleIsExplained
BY RequestsUseTheCache, Explained, PTL

\* All calls about the keygroup, of clients and of other nodes, that a FReD node
\* works on at the same time are at the same machine, however many machines it
\* has and wherever the calls came in.
THEOREM OneMachineServes == AccessSpec => []BoundToOneMachine
<1>1. RequestInv => BoundToOneMachine
  <2> SUFFICES ASSUME RequestInv, NEW n \in Node, NEW m \in Node, NEW r \in Routine, NEW s \in Routine,
                      Site[n] = Site[m], Serves(n, r), Serves(m, s),
                      job[n][r].call[2] \notin NodeCalls, job[m][s].call[2] \notin NodeCalls
               PROVE  n = m
    BY DEF BoundToOneMachine
  <2>1. JobOK(n, job[n][r]) /\ JobOK(m, job[m][s])
    BY DEF RequestInv, JobsOK
  <2>2. Bound(n) /\ Bound(m)
    BY <2>1 DEF JobOK, Serves
  <2> QED
    BY <2>2, OneBound
<1> QED
  BY <1>1, RequestAlways, PTL

----------------------------------------------------------------------------
(* Rights and roles *)

\* Numbers of writes that have happened.
NumbersOK ==
    /\ \A k \in Key : etcd[k] <= writes
    /\ puts \subseteq 1..writes

HistoryOK ==
    /\ clash \in [Node -> [Routine -> BOOLEAN]]
    /\ ordered \in [User -> [Role -> {"given", "taken", "torn"}]]

LEMMA PermissionFacts ==
    /\ RoleOrder \in Seq(Role)
    /\ Role = {"R", "W", "C", "T", "K"}
    /\ \A ro, so \in Role : ro # so => permissions[ro] \cap permissions[so] = {}
<1>1. Role = {"R", "W", "C", "T", "K"}
  BY DEF Role, permissions
<1>2. /\ permissions["R"] = {"Read"}
      /\ permissions["W"] = {"Update", "Delete"}
      /\ permissions["C"] = {"AddReplica", "GetReplica", "RemoveReplica"}
      /\ permissions["T"] = {"GetTrigger", "AddTrigger", "RemoveTrigger"}
      /\ permissions["K"] = {"DeleteKeygroup", "AddUser", "RemoveUser"}
  BY DEF permissions
<1>3. ASSUME NEW ro \in Role, NEW so \in Role, ro # so
      PROVE  permissions[ro] \cap permissions[so] = {}
  <2>1. CASE ro = "R"
    BY <1>1, <1>2, <1>3, <2>1
  <2>2. CASE ro = "W"
    BY <1>1, <1>2, <1>3, <2>2
  <2>3. CASE ro = "C"
    BY <1>1, <1>2, <1>3, <2>3
  <2>4. CASE ro = "T"
    BY <1>1, <1>2, <1>3, <2>4
  <2>5. CASE ro = "K"
    BY <1>1, <1>2, <1>3, <2>5
  <2> QED
    BY <1>1, <2>1, <2>2, <2>3, <2>4, <2>5
<1>4. RoleOrder \in Seq(Role)
  BY <1>1 DEF RoleOrder
<1> QED
  BY <1>1, <1>3, <1>4

\* A right belongs to one role of one user.
LEMMA RoleRightsApart ==
    ASSUME NEW u \in User, NEW w \in User, NEW ro \in Role, NEW so \in Role,
           NEW k, k \in RoleRights(u, ro), k \in RoleRights(w, so)
    PROVE  u = w /\ ro = so
<1>1. PICK x \in permissions[ro] : k = <<u, x>>
  BY DEF RoleRights
<1>2. PICK y \in permissions[so] : k = <<w, y>>
  BY DEF RoleRights
<1>3. u = w /\ x = y
  BY <1>1, <1>2
<1> QED
  BY <1>3, PermissionFacts

\* What a request to etcd that writes a right does.
LEMMA WriteFacts ==
    ASSUME RequestInv, NumbersOK, NEW n \in Node, NEW r \in Routine, EditEtcd(n, r)
    PROVE  /\ NumbersOK' /\ key[n][r] \in Key /\ key[n][r] \in job[n][r].todo
           /\ writes \in Nat /\ writes' \in Nat /\ writes <= writes'
           /\ puts \subseteq puts' /\ \A x \in puts' \ puts : x > writes
           /\ \A k \in Key \ {key[n][r]} : k \in Rights(etcd)' <=> k \in Rights(etcd)
           /\ writes' = writes => Rights(etcd)' = Rights(etcd)
           /\ writes' # writes => (key[n][r] \in Rights(etcd)' <=> Gives(n, r))
<1> DEFINE k == key[n][r]
<1>1. k \in Key /\ k \in job[n][r].todo /\ PutEtcd(n, r)
  BY DEF EditEtcd, PutEtcd, RequestInv, TypeInv, HandsOK, RoutinesOK, RoutineOK
<1>2. writes \in Nat /\ etcd \in [Key -> 0..MaxWrites] /\ MaxWrites \in Nat
  BY NaSeCacheAssumption DEF RequestInv, TypeInv, TypeOK
<1>3. puts' = IF writes' > writes /\ Gives(n, r) THEN puts \cup {writes'} ELSE puts
  BY DEF EditEtcd
<1>4. CASE UNCHANGED <<writes, etcd>>
  <2>1. UNCHANGED <<writes, etcd, puts>>
    BY <1>2, <1>3, <1>4
  <2>2. Rights(etcd)' = Rights(etcd)
    BY <2>1 DEF Rights
  <2> QED
    BY <1>1, <1>2, <2>1, <2>2 DEF NumbersOK
<1>5. CASE writes' = writes + 1 /\ etcd' = [etcd EXCEPT ![k] = writes + 1]
  <2>1. puts' = IF Gives(n, r) THEN puts \cup {writes + 1} ELSE puts
    BY <1>2, <1>3, <1>5
  <2>2. DOMAIN etcd' = Key /\ etcd'[k] = writes + 1 /\ \A i \in Key \ {k} : etcd'[i] = etcd[i]
    BY <1>1, <1>2, <1>5
  <2>3. \A i \in Key : etcd[i] \in Nat /\ etcd[i] <= writes
    BY <1>2 DEF NumbersOK
  <2>4. \A x \in puts : x \in Nat /\ x <= writes /\ x >= 1
    BY <1>2 DEF NumbersOK
  <2> HIDE DEF k
  <2>5. \A i \in Key : i \in Rights(etcd)' <=>
            etcd'[i] \in puts' \/ (etcd'[i] = 0 /\ i \in InitialRights)
    BY <2>2 DEF Rights
  <2>6. \A i \in Key : i \in Rights(etcd) <=>
            etcd[i] \in puts \/ (etcd[i] = 0 /\ i \in InitialRights)
    BY <1>2 DEF Rights
  <2>7. \A i \in Key \ {k} : i \in Rights(etcd)' <=> i \in Rights(etcd)
    <3> SUFFICES ASSUME NEW i \in Key, i # k PROVE i \in Rights(etcd)' <=> i \in Rights(etcd)
      OBVIOUS
    <3>1. etcd'[i] = etcd[i] /\ etcd[i] # writes + 1
      BY <1>2, <2>2, <2>3
    <3> QED
      BY <2>1, <2>5, <2>6, <3>1
  <2>8. k \in Rights(etcd)' <=> Gives(n, r)
    <3>1. writes + 1 \notin puts /\ writes + 1 # 0
      BY <1>2, <2>4
    <3> QED
      BY <1>1, <2>1, <2>2, <2>5, <3>1
  <2>9. NumbersOK'
    <3>1. \A i \in Key : etcd'[i] <= writes'
      BY <1>2, <1>5, <2>2, <2>3
    <3>2. puts' \subseteq 1..writes'
      BY <1>2, <1>5, <2>1, <2>4
    <3> QED
      BY <3>1, <3>2 DEF NumbersOK
  <2>10. puts \subseteq puts' /\ \A x \in puts' \ puts : x > writes
    BY <1>2, <2>1
  <2>11. writes' \in Nat /\ writes <= writes' /\ writes' # writes
    BY <1>2, <1>5
  <2> QED
    BY <1>1, <1>2, <2>7, <2>8, <2>9, <2>10, <2>11 DEF k
<1> QED
  BY <1>1, <1>4, <1>5 DEF PutEtcd

\* The two conjuncts of the invariant on an edit that no other has overlapped: no
\* other edit of its roles is open, and what it has written is in etcd.
Alone(n, r) ==
    \A m \in Node, s \in Routine :
        (m # n \/ s # r) /\ Editing(m, s) => ~Collide(job[n][r], job[m][s])

Written(n, r) ==
    \A ro \in job[n][r].roles : \A k \in RoleRights(job[n][r].whom, ro) \ job[n][r].todo :
        k \in Rights(etcd) <=> Gives(n, r)

EditOK(n, r) == Editing(n, r) /\ ~clash[n][r] => Alone(n, r) /\ Written(n, r)

EditsOK == \A n \in Node, r \in Routine : EditOK(n, r)

\* A role of a user is as the last edit ordered, or an edit of it is open, or it is torn.
RoleOK(u, ro) ==
    \/ ordered[u][ro] = "torn"
    \/ \E n \in Node, r \in Routine :
          Editing(n, r) /\ job[n][r].whom = u /\ ro \in job[n][r].roles
    \/ Rights(etcd) \cap RoleRights(u, ro)
           = IF ordered[u][ro] = "given" THEN RoleRights(u, ro) ELSE {}

RolesInv == RequestInv /\ NumbersOK /\ HistoryOK /\ EditsOK /\ RolesAsOrdered

\* The step is none of an edit.
NoEditStep ==
    /\ UNCHANGED <<etcd, writes, puts, ordered>>
    /\ clash' \in [Node -> [Routine -> BOOLEAN]]
    /\ \A m \in Node, s \in Routine : Editing(m, s)' <=> Editing(m, s)
    /\ \A m \in Node, s \in Routine :
          Editing(m, s) => job'[m][s] = job[m][s] /\ clash'[m][s] = clash[m][s]

\* An edit begins.
EditBegins(n, r, j, ros, w) ==
    /\ job[n][r].step # "edit" /\ Bound(n) /\ j.call[2] \notin NodeCalls
    /\ BeginEdit(n, r, j, ros, w)
    /\ UNCHANGED <<etcd, writes, puts, ordered>>

\* The fields of a request that ends, and what becomes of the histories.
LEMMA EndHistory ==
    ASSUME RequestInv, HistoryOK, NEW n \in Node, NEW r \in Routine, NEW st, End(n, r, st)
    PROVE  /\ clash' \in [Node -> [Routine -> BOOLEAN]]
           /\ ~Editing(n, r)'
           /\ \A m \in Node, s \in Routine : m # n \/ s # r =>
                  /\ job'[m][s] = job[m][s] /\ clash'[m][s] = clash[m][s]
                  /\ Editing(m, s)' <=> Editing(m, s)
           /\ job[n][r].step # "edit" => ordered' = ordered
           /\ job[n][r].step = "edit" => \A u \in User, ro \in Role :
                  /\ u # job[n][r].whom \/ ro \notin job[n][r].roles =>
                         ordered'[u][ro] = ordered[u][ro]
                  /\ u = job[n][r].whom /\ ro \in job[n][r].roles =>
                         ordered'[u][ro] = IF clash[n][r] THEN "torn" ELSE st
<1>1. /\ job'[n][r] = NoJob
      /\ \A m \in Node, s \in Routine : m # n \/ s # r => job'[m][s] = job[m][s]
  BY EndFacts DEF RequestInv
<1>2. clash' = [clash EXCEPT ![n][r] = FALSE]
  BY DEF End
<1>3. /\ clash' \in [Node -> [Routine -> BOOLEAN]]
      /\ \A m \in Node, s \in Routine : m # n \/ s # r => clash'[m][s] = clash[m][s]
  BY <1>2 DEF HistoryOK
<1>4. ~Editing(n, r)' /\ \A m \in Node, s \in Routine : m # n \/ s # r =>
          (Editing(m, s)' <=> Editing(m, s))
  BY <1>1 DEF Editing, NoJob
<1>5. job[n][r].step # "edit" => ordered' = ordered
  BY DEF End
<1>6. ASSUME job[n][r].step = "edit", NEW u \in User, NEW ro \in Role
      PROVE  /\ u # job[n][r].whom \/ ro \notin job[n][r].roles =>
                    ordered'[u][ro] = ordered[u][ro]
             /\ u = job[n][r].whom /\ ro \in job[n][r].roles =>
                    ordered'[u][ro] = IF clash[n][r] THEN "torn" ELSE st
  <2> DEFINE w == job[n][r].whom
             f == [so \in Role |-> IF so \notin job[n][r].roles THEN ordered[w][so]
                                   ELSE IF clash[n][r] THEN "torn" ELSE st]
  <2>1. ordered' = [ordered EXCEPT ![w] = f]
    BY <1>6 DEF End
  <2>2. w \in User
    BY <1>6 DEF RequestInv, JobsOK, JobOK
  <2>3. \A v \in User : ordered'[v] = IF v = w THEN f ELSE ordered[v]
    BY <2>1, <2>2 DEF HistoryOK
  <2>4. f[ro] = IF ro \notin job[n][r].roles THEN ordered[w][ro]
                ELSE IF clash[n][r] THEN "torn" ELSE st
    OBVIOUS
  <2> HIDE DEF f, w
  <2>5. /\ u # w \/ ro \notin job[n][r].roles => ordered'[u][ro] = ordered[u][ro]
        /\ u = w /\ ro \in job[n][r].roles =>
               ordered'[u][ro] = IF clash[n][r] THEN "torn" ELSE st
    BY <2>3, <2>4
  <2> QED
    BY <2>5 DEF w
<1> QED
  BY <1>1, <1>3, <1>4, <1>5, <1>6

LEMMA EndIsNoEdit ==
    ASSUME RequestInv, HistoryOK, NEW n \in Node, NEW r \in Routine, NEW st, End(n, r, st),
           job[n][r].step # "edit", UNCHANGED <<etcd, writes, puts>>
    PROVE  NoEditStep
<1>1. ~Editing(n, r)
  BY DEF Editing
<1> QED
  BY <1>1, EndHistory DEF NoEditStep

\* A step of goroutine r of n that is not about an edit.
LEMMA OtherStep ==
    ASSUME HistoryOK, NEW n \in Node, NEW r \in Routine, Elsewhere(n, r),
           job[n][r].step # "edit", job'[n][r].step # "edit",
           UNCHANGED <<etcd, writes, puts, ordered, clash>>
    PROVE  NoEditStep
<1>1. \A m \in Node, s \in Routine : m # n \/ s # r => job'[m][s] = job[m][s]
  BY DEF Elsewhere
<1>2. ~Editing(n, r) /\ ~Editing(n, r)'
  BY DEF Editing
<1> QED
  BY <1>1, <1>2 DEF NoEditStep, Editing, HistoryOK

LEMMA DecideKinds ==
    ASSUME RequestInv, HistoryOK, NEW n \in Node, NEW r \in Routine, NEW answer, Elsewhere(n, r),
           job[n][r].step = "check", Decide(n, r, answer), UNCHANGED <<etcd, writes, puts>>
    PROVE  \/ NoEditStep
           \/ \E j \in Jobs, ros \in RoleSets, w \in User : EditBegins(n, r, j, ros, w)
<1> DEFINE j == job[n][r]
<1>1. j \in Jobs /\ JobOK(n, j)
  BY DEF RequestInv, JobsOK
<1>2. Bound(n) /\ j.call[2] \notin NodeCalls
  BY <1>1 DEF JobOK
<1>3. CASE End(n, r, "torn")
  BY <1>3, EndIsNoEdit
<1>4. CASE job' = [job EXCEPT ![n][r].step = "act"] /\ UNCHANGED <<clash, ordered>>
  <2>1. job'[n][r].step = "act"
    <3>1. job \in [Node -> [Routine -> Jobs]]
      BY DEF RequestInv, JobsOK
    <3>2. job'[n][r] = [j EXCEPT !.step = "act"]
      BY <1>4, <3>1
    <3> QED
      BY <1>1, <3>2 DEF Jobs
  <2> QED
    BY <1>4, <2>1, OtherStep
<1>5. ASSUME NEW w \in User, NEW ro \in GivenRoles, BeginEdit(n, r, j, {ro}, w), UNCHANGED ordered
      PROVE  \E i \in Jobs, ros \in RoleSets, v \in User : EditBegins(n, r, i, ros, v)
  <2>1. {ro} \in RoleSets
    BY AccessAssumption DEF RoleSets
  <2>2. EditBegins(n, r, j, {ro}, w)
    BY <1>2, <1>5 DEF EditBegins
  <2> QED
    BY <1>1, <2>1, <2>2
<1> QED
  BY <1>3, <1>4, <1>5 DEF Decide

\* Every step is none of an edit, or begins one, or writes a right, or ends an edit,
\* or is a crash.
LEMMA EditKinds ==
    ASSUME RequestInv, HistoryOK, [AccessNext]_allVars
    PROVE  \/ NoEditStep
           \/ \E n \in Node, r \in Routine, j \in Jobs, ros \in RoleSets, w \in User :
                 EditBegins(n, r, j, ros, w)
           \/ \E n \in Node, r \in Routine : EditEtcd(n, r) \/ EditDone(n, r)
           \/ \E n \in Node : Crash(n)
<1> DEFINE Kind == \/ NoEditStep
                   \/ \E n \in Node, r \in Routine, j \in Jobs, ros \in RoleSets, w \in User :
                         EditBegins(n, r, j, ros, w)
                   \/ \E n \in Node, r \in Routine : EditEtcd(n, r) \/ EditDone(n, r)
                   \/ \E n \in Node : Crash(n)
<1>1. CASE UNCHANGED allVars
  <2>1. UNCHANGED <<etcd, writes, puts, ordered, clash, job>>
    BY <1>1 DEF allVars, accessVars, vars
  <2> QED
    BY <2>1 DEF NoEditStep, HistoryOK, Editing
<1>2. ASSUME NEW c \in Ops, NEW p \in Proxy \cup Node, NEW n \in Node, NEW r \in Routine,
             NEW u \in User, Receive(c, p, n, r, u)
      PROVE  NoEditStep
  <2>1. job'[n][r].step # "edit" /\ Elsewhere(n, r) /\ UNCHANGED vars
    BY <1>2, ReceiveFacts
  <2>2. UNCHANGED <<puts, ordered, clash>> /\ job[n][r].step # "edit"
    BY <1>2 DEF Receive, Serve, Accept, Serves
  <2> QED
    BY <2>1, <2>2, OtherStep DEF vars
<1>3. ASSUME NEW c \in Ops, NEW p \in Proxy \cup Node, NEW n \in Node, NEW r \in Routine,
             ReceivePeer(c, p, n, r)
      PROVE  NoEditStep
  <2>1. job'[n][r].step # "edit" /\ Elsewhere(n, r) /\ UNCHANGED vars
    BY <1>3, ReceivePeerFacts
  <2>2. UNCHANGED <<puts, ordered, clash>> /\ job[n][r].step # "edit"
    BY <1>3 DEF ReceivePeer, Serve, Accept, Serves
  <2> QED
    BY <2>1, <2>2, OtherStep DEF vars
<1>4. ASSUME NEW p \in Proxy \cup Node, NEW n \in Node, NEW r \in Routine, NEW u \in User,
             CreateKeygroup(p, n, r, u)
      PROVE  Kind
  <2>1. UNCHANGED <<etcd, writes, puts, ordered>> /\ job[n][r].step # "edit"
    BY <1>4 DEF CreateKeygroup, vars, Accept, Serves
  <2>2. CASE UNCHANGED <<job, clash>>
    BY <2>1, <2>2 DEF NoEditStep, HistoryOK, Editing
  <2>3. ASSUME NEW j \in Jobs, BeginEdit(n, r, j, Role, u), Bound(n), j.call[2] \notin NodeCalls
        PROVE  Kind
    <3>1. Role \in RoleSets
      BY DEF RoleSets, Role, permissions
    <3>2. EditBegins(n, r, j, Role, u)
      BY <2>1, <2>3 DEF EditBegins
    <3> QED
      BY <3>1, <3>2
  <2> QED
    BY <1>4, <2>2, <2>3, CreateFacts
<1>5. ASSUME NEW n \in Node, NEW r \in Routine, RequestStep(n, r) PROVE Kind
  <2>1. Elsewhere(n, r)
    BY <1>5, RequestStepFacts
  <2>2. CASE IsAllowedCached(n, r)
    BY <2>1, <2>2, DecideKinds DEF IsAllowedCached, CacheHit
  <2>3. CASE IsAllowedUncached(n, r)
    BY <2>1, <2>3, DecideKinds, EndIsNoEdit DEF IsAllowedUncached, GetUncached
  <2>4. CASE IsAllowedAnswer(n, r)
    BY <2>1, <2>4, DecideKinds DEF IsAllowedAnswer, Set
  <2>5. CASE IsAllowedAsks(n, r)
    BY <2>1, <2>5, OtherStep DEF IsAllowedAsks, CacheMiss, accessVars
  <2>6. CASE IsAllowedGet(n, r)
    <3>1. UNCHANGED <<etcd, writes, puts>> /\ job[n][r].step = "check"
      BY <2>6 DEF IsAllowedGet, Get
    <3>2. CASE End(n, r, "torn")
      BY <3>1, <3>2, EndIsNoEdit
    <3>3. CASE UNCHANGED <<job, was, clash, ordered>>
      BY <2>1, <3>1, <3>3, OtherStep
    <3> QED
      BY <2>6, <3>2, <3>3 DEF IsAllowedGet
  <2>7. CASE Operate(n, r)
    BY <2>7, EndIsNoEdit DEF Operate, vars
  <2>8. CASE EditLocal(n, r)
    <3>1. UNCHANGED <<etcd, writes, puts, ordered, clash, job>>
      BY <2>8 DEF EditLocal, PutLocal, accessVars
    <3> QED
      BY <3>1 DEF NoEditStep, HistoryOK, Editing
  <2> QED
    BY <1>5, <2>2, <2>3, <2>4, <2>5, <2>6, <2>7, <2>8 DEF RequestStep
<1>6. ASSUME NEW n \in Node, NEW q \in Query, WatchStep(n, q), UNCHANGED accessVars
      PROVE  NoEditStep
  <2>1. UNCHANGED <<etcd, writes, puts, ordered, clash, job>>
    BY <1>6, WatchStepFacts DEF accessVars
  <2> QED
    BY <2>1 DEF NoEditStep, HistoryOK, Editing
<1> QED
  BY <1>1, <1>2, <1>3, <1>4, <1>5, <1>6 DEF AccessNext, AllServed

LEMMA NoEditKeeps ==
    ASSUME RolesInv, NoEditStep
    PROVE  NumbersOK' /\ HistoryOK' /\ EditsOK' /\ RolesAsOrdered'
<1>1. NumbersOK' /\ HistoryOK' /\ Rights(etcd)' = Rights(etcd)
  BY DEF RolesInv, NumbersOK, HistoryOK, NoEditStep, Rights
<1>2. ASSUME NEW n \in Node, NEW r \in Routine PROVE EditOK(n, r)'
  <2> SUFFICES ASSUME Editing(n, r)', ~clash'[n][r] PROVE Alone(n, r)' /\ Written(n, r)'
    BY DEF EditOK
  <2>1. Editing(n, r) /\ job'[n][r] = job[n][r] /\ clash'[n][r] = clash[n][r]
    BY DEF NoEditStep
  <2>2. Alone(n, r) /\ Written(n, r)
    BY <2>1 DEF RolesInv, EditsOK, EditOK
  <2>3. Alone(n, r)'
    BY <2>1, <2>2 DEF Alone, NoEditStep, Collide
  <2>4. Written(n, r)'
    BY <1>1, <2>1, <2>2 DEF Written, Gives, Rights
  <2> QED
    BY <2>3, <2>4
<1>3. ASSUME NEW u \in User, NEW ro \in Role PROVE RoleOK(u, ro)'
  <2>1. RoleOK(u, ro) /\ ordered' = ordered
    BY DEF RolesInv, RolesAsOrdered, RoleOK, NoEditStep
  <2>2. CASE \E n \in Node, r \in Routine :
                Editing(n, r) /\ job[n][r].whom = u /\ ro \in job[n][r].roles
    BY <2>2 DEF RoleOK, NoEditStep
  <2> QED
    BY <1>1, <2>1, <2>2 DEF RoleOK
<1> QED
  BY <1>1, <1>2, <1>3 DEF EditsOK, RolesAsOrdered, RoleOK

LEMMA BeginFacts ==
    ASSUME RolesInv, NEW n \in Node, NEW r \in Routine, NEW j \in Jobs, NEW ros \in RoleSets,
           NEW w \in User, EditBegins(n, r, j, ros, w)
    PROVE  /\ job'[n][r].step = "edit" /\ job'[n][r].roles = ros /\ job'[n][r].whom = w
           /\ job'[n][r].todo = RightsOf(w, ros) /\ ros # {}
           /\ \A m \in Node, s \in Routine : m # n \/ s # r => job'[m][s] = job[m][s]
           /\ clash' \in [Node -> [Routine -> BOOLEAN]]
           /\ \A m \in Node, s \in Routine : m # n \/ s # r =>
                  /\ clash[m][s] => clash'[m][s]
                  /\ Editing(m, s) /\ Collide(job[m][s], job'[n][r]) => clash'[m][s] /\ clash'[n][r]
<1> DEFINE e == EditJob(j, ros, w)
<1>1. /\ e \in Jobs /\ JobOK(n, e) /\ e.step = "edit" /\ e.roles = ros /\ e.whom = w
      /\ e.todo = RightsOf(w, ros)
  BY EditJobFacts DEF EditBegins
<1>2. job' = [job EXCEPT ![n][r] = e]
  BY DEF EditBegins, BeginEdit, EditJob
<1>3. clash' = [m \in Node |-> [s \in Routine |->
                  IF <<m, s>> = <<n, r>>
                  THEN \E o \in Node, t \in Routine :
                          <<o, t>> # <<n, r>> /\ Editing(o, t) /\ Collide(job[o][t], e)
                  ELSE \/ clash[m][s]
                       \/ <<m, s>> # <<n, r>> /\ Editing(m, s) /\ Collide(job[m][s], e)]]
  BY DEF EditBegins, BeginEdit, EditJob
<1> HIDE DEF e
<1>4. job'[n][r] = e /\ \A m \in Node, s \in Routine : m # n \/ s # r => job'[m][s] = job[m][s]
  BY <1>1, <1>2, NewJob DEF RolesInv, RequestInv
<1>5. \A m \in Node, s \in Routine : clash[m][s] \in BOOLEAN
  BY DEF RolesInv, HistoryOK
<1>6. clash' \in [Node -> [Routine -> BOOLEAN]]
  BY <1>3, <1>5, Zenon
<1>7. ASSUME NEW m \in Node, NEW s \in Routine, m # n \/ s # r
      PROVE  /\ clash[m][s] => clash'[m][s]
             /\ Editing(m, s) /\ Collide(job[m][s], e) => clash'[m][s]
  <2>1. clash'[m][s] = \/ clash[m][s]
                       \/ <<m, s>> # <<n, r>> /\ Editing(m, s) /\ Collide(job[m][s], e)
    BY <1>3, <1>7
  <2> QED
    BY <1>7, <2>1
<1>8. ASSUME NEW m \in Node, NEW s \in Routine, m # n \/ s # r,
             Editing(m, s), Collide(job[m][s], e)
      PROVE  clash'[n][r]
  <2>1. clash'[n][r] = \E o \in Node, t \in Routine :
                          <<o, t>> # <<n, r>> /\ Editing(o, t) /\ Collide(job[o][t], e)
    BY <1>3
  <2> QED
    BY <1>8, <2>1
<1>9. ros # {}
  BY DEF RoleSets
<1> QED
  BY <1>1, <1>4, <1>6, <1>7, <1>8, <1>9

LEMMA BeginKeeps ==
    ASSUME RolesInv, NEW n \in Node, NEW r \in Routine, NEW j \in Jobs, NEW ros \in RoleSets,
           NEW w \in User, EditBegins(n, r, j, ros, w)
    PROVE  NumbersOK' /\ HistoryOK' /\ EditsOK' /\ RolesAsOrdered'
<1>1. UNCHANGED <<etcd, writes, puts, ordered>>
  BY DEF EditBegins
<1>2. NumbersOK' /\ HistoryOK' /\ Rights(etcd)' = Rights(etcd)
  BY <1>1, BeginFacts DEF RolesInv, NumbersOK, HistoryOK, Rights
<1>3. ~Editing(n, r) /\ Editing(n, r)'
  BY BeginFacts DEF EditBegins, Editing
<1>4. \A m \in Node, s \in Routine : m # n \/ s # r =>
          job'[m][s] = job[m][s] /\ (Editing(m, s)' <=> Editing(m, s))
  BY BeginFacts DEF Editing
<1>5. ASSUME NEW m \in Node, NEW s \in Routine, Editing(m, s)', ~clash'[m][s]
      PROVE  Alone(m, s)' /\ Written(m, s)'
  <2>1. CASE m = n /\ s = r
    <3>1. Alone(m, s)'
      <4> SUFFICES ASSUME NEW o \in Node, NEW t \in Routine, o # n \/ t # r, Editing(o, t)'
                   PROVE  ~Collide(job[n][r], job[o][t])'
        BY <2>1 DEF Alone
      <4>1. Editing(o, t) /\ job'[o][t] = job[o][t]
        BY <1>4
      <4>2. ~Collide(job[o][t], job'[n][r])
        BY <1>5, <2>1, <4>1, BeginFacts
      <4> QED
        BY <4>1, <4>2 DEF Collide
    <3>2. job'[n][r].todo = RightsOf(job'[n][r].whom, job'[n][r].roles)
      BY BeginFacts
    <3>3. Written(m, s)'
      BY <2>1, <3>2 DEF Written, RightsOf
    <3> QED
      BY <3>1, <3>3
  <2>2. CASE m # n \/ s # r
    <3>1. job'[m][s] = job[m][s] /\ Editing(m, s) /\ ~clash[m][s]
      BY <1>4, <1>5, <2>2, BeginFacts
    <3>2. Alone(m, s) /\ Written(m, s)
      BY <3>1 DEF RolesInv, EditsOK, EditOK
    <3>3. ~Collide(job[m][s], job'[n][r])
      BY <1>5, <2>2, <3>1, BeginFacts
    <3>4. Alone(m, s)'
      <4> SUFFICES ASSUME NEW o \in Node, NEW t \in Routine, o # m \/ t # s, Editing(o, t)'
                   PROVE  ~Collide(job[m][s], job[o][t])'
        BY DEF Alone
      <4>1. CASE o = n /\ t = r
        BY <3>1, <3>3, <4>1 DEF Collide
      <4>2. CASE o # n \/ t # r
        BY <1>4, <3>1, <3>2, <4>2 DEF Alone, Collide
      <4> QED
        BY <4>1, <4>2
    <3>5. Written(m, s)'
      BY <1>2, <3>1, <3>2 DEF Written, Gives
    <3> QED
      BY <3>4, <3>5
  <2> QED
    BY <2>1, <2>2
<1>6. ASSUME NEW u \in User, NEW ro \in Role PROVE RoleOK(u, ro)'
  <2>1. RoleOK(u, ro)
    BY DEF RolesInv, RolesAsOrdered, RoleOK
  <2>2. CASE \E m \in Node, s \in Routine :
                Editing(m, s) /\ job[m][s].whom = u /\ ro \in job[m][s].roles
    <3>1. PICK m \in Node, s \in Routine :
              Editing(m, s) /\ job[m][s].whom = u /\ ro \in job[m][s].roles
      BY <2>2
    <3>2. m # n \/ s # r
      BY <1>3, <3>1
    <3> QED
      BY <1>4, <3>1, <3>2 DEF RoleOK
  <2> QED
    BY <1>1, <1>2, <2>1, <2>2 DEF RoleOK
<1>7. EditsOK'
  BY <1>5 DEF EditsOK, EditOK
<1> QED
  BY <1>2, <1>6, <1>7 DEF RolesAsOrdered, RoleOK

LEMMA EndOrdered ==
    ASSUME RequestInv, HistoryOK, NEW n \in Node, NEW r \in Routine, job[n][r].step = "edit",
           NEW st \in {"given", "taken", "torn"}, End(n, r, st)
    PROVE  HistoryOK'
<1> DEFINE w == job[n][r].whom
           f == [so \in Role |-> IF so \notin job[n][r].roles THEN ordered[w][so]
                                 ELSE IF clash[n][r] THEN "torn" ELSE st]
<1>1. ordered' = [ordered EXCEPT ![w] = f]
  BY DEF End
<1>2. w \in User
  BY DEF RequestInv, JobsOK, JobOK
<1>3. f \in [Role -> {"given", "taken", "torn"}]
  BY <1>2 DEF HistoryOK
<1> HIDE DEF f, w
<1>4. ordered' \in [User -> [Role -> {"given", "taken", "torn"}]]
  BY <1>1, <1>2, <1>3 DEF HistoryOK
<1> QED
  BY <1>4, EndHistory DEF HistoryOK

\* An edit ends: its roles are torn, or all of their rights have been written.
LEMMA EndKeeps ==
    ASSUME RolesInv, NEW n \in Node, NEW r \in Routine, job[n][r].step = "edit",
           NEW st \in {"given", "taken", "torn"}, End(n, r, st), NumbersOK',
           Rights(etcd)' = Rights(etcd),
           st # "torn" => job[n][r].todo = {} /\ (st = "given" <=> Gives(n, r))
    PROVE  NumbersOK' /\ HistoryOK' /\ EditsOK' /\ RolesAsOrdered'
<1> USE DEF RolesInv
<1>1. HistoryOK'
  BY EndOrdered
<1>2. ~Editing(n, r)' /\ \A m \in Node, s \in Routine : m # n \/ s # r =>
          /\ job'[m][s] = job[m][s] /\ clash'[m][s] = clash[m][s]
          /\ Editing(m, s)' <=> Editing(m, s)
  BY EndHistory
<1>3. ASSUME NEW m \in Node, NEW s \in Routine, Editing(m, s)', ~clash'[m][s]
      PROVE  Alone(m, s)' /\ Written(m, s)'
  <2>1. m # n \/ s # r
    BY <1>2, <1>3
  <2>2. Editing(m, s) /\ ~clash[m][s] /\ job'[m][s] = job[m][s]
    BY <1>2, <1>3, <2>1
  <2>3. Alone(m, s) /\ Written(m, s)
    BY <2>2 DEF EditsOK, EditOK
  <2>4. Alone(m, s)'
    <3> SUFFICES ASSUME NEW o \in Node, NEW t \in Routine, o # m \/ t # s, Editing(o, t)'
                 PROVE  ~Collide(job[m][s], job[o][t])'
      BY DEF Alone
    <3>1. o # n \/ t # r
      BY <1>2
    <3> QED
      BY <1>2, <2>2, <2>3, <3>1 DEF Alone, Collide
  <2>5. Written(m, s)'
    BY <2>2, <2>3 DEF Written, Gives
  <2> QED
    BY <2>4, <2>5
<1>4. ASSUME NEW u \in User, NEW ro \in Role PROVE RoleOK(u, ro)'
  <2>1. RoleOK(u, ro)
    BY DEF RolesAsOrdered, RoleOK
  <2>2. CASE u = job[n][r].whom /\ ro \in job[n][r].roles
    <3>1. ordered'[u][ro] = IF clash[n][r] THEN "torn" ELSE st
      BY <2>2, EndHistory
    <3>2. CASE clash[n][r] \/ st = "torn"
      BY <3>1, <3>2 DEF RoleOK
    <3>3. CASE ~clash[n][r] /\ st # "torn"
      <4>1. Editing(n, r)
        BY <2>2 DEF Editing
      <4>2. Written(n, r) /\ job[n][r].todo = {}
        BY <3>3, <4>1 DEF EditsOK, EditOK
      <4>3. \A k \in RoleRights(u, ro) : k \in Rights(etcd) <=> st = "given"
        BY <2>2, <3>3, <4>2 DEF Written
      <4>4. Rights(etcd)' \cap RoleRights(u, ro) = IF st = "given" THEN RoleRights(u, ro) ELSE {}
        BY <4>3
      <4> QED
        BY <3>1, <3>3, <4>4 DEF RoleOK
    <3> QED
      BY <3>2, <3>3
  <2>3. CASE ~(u = job[n][r].whom /\ ro \in job[n][r].roles)
    <3>1. ordered'[u][ro] = ordered[u][ro]
      BY <2>3, EndHistory
    <3>2. CASE \E m \in Node, s \in Routine :
                  Editing(m, s) /\ job[m][s].whom = u /\ ro \in job[m][s].roles
      <4>1. PICK m \in Node, s \in Routine :
                Editing(m, s) /\ job[m][s].whom = u /\ ro \in job[m][s].roles
        BY <3>2
      <4>2. m # n \/ s # r
        BY <2>3, <4>1
      <4> QED
        BY <1>2, <4>1, <4>2 DEF RoleOK
    <3> QED
      BY <2>1, <3>1, <3>2 DEF RoleOK
  <2> QED
    BY <2>2, <2>3
<1>5. EditsOK'
  BY <1>3 DEF EditsOK, EditOK
<1> QED
  BY <1>1, <1>4, <1>5 DEF RolesAsOrdered, RoleOK

LEMMA DoneKeeps ==
    ASSUME RolesInv, NEW n \in Node, NEW r \in Routine, EditDone(n, r)
    PROVE  NumbersOK' /\ HistoryOK' /\ EditsOK' /\ RolesAsOrdered'
<1> DEFINE st == IF Gives(n, r) THEN "given" ELSE "taken"
<1>1. /\ job[n][r].step = "edit" /\ job[n][r].todo = {} /\ End(n, r, st)
      /\ UNCHANGED <<etcd, writes, puts>>
  BY DEF EditDone, vars
<1>2. st \in {"given", "taken", "torn"} /\ (st = "given" <=> Gives(n, r))
  OBVIOUS
<1>3. NumbersOK' /\ Rights(etcd)' = Rights(etcd)
  BY <1>1 DEF RolesInv, NumbersOK, Rights
<1> HIDE DEF st
<1> QED
  BY <1>1, <1>2, <1>3, EndKeeps

\* The right that an edit writes is of no role of another edit that does not
\* collide with it, and of no other role.
LEMMA WriteKeeps ==
    ASSUME RolesInv, NEW n \in Node, NEW r \in Routine, EditEtcd(n, r)
    PROVE  NumbersOK' /\ HistoryOK' /\ EditsOK' /\ RolesAsOrdered'
<1> USE DEF RolesInv
<1> DEFINE k == key[n][r]
           j == job[n][r]
<1>1. j.step = "edit" /\ j \in Jobs /\ JobOK(n, j)
  BY DEF EditEtcd, RequestInv, JobsOK
<1>2. k \in Key /\ k \in j.todo /\ NumbersOK'
  BY WriteFacts
<1>3. CASE writes' = writes /\ End(n, r, "torn")
  <2>1. Rights(etcd)' = Rights(etcd)
    BY <1>3, WriteFacts
  <2> QED
    BY <1>1, <1>2, <1>3, <2>1, EndKeeps
<1>4. CASE /\ writes' > writes \/ (~Gives(n, r) /\ k \notin Rights(etcd))
           /\ job' = [job EXCEPT ![n][r].todo = @ \ {k}]
           /\ UNCHANGED <<clash, ordered>>
  <2>1. HistoryOK'
    BY <1>4 DEF HistoryOK
  <2>2. /\ job'[n][r].whom = j.whom /\ job'[n][r].roles = j.roles /\ job'[n][r].call = j.call
        /\ job'[n][r].step = "edit" /\ job'[n][r].todo = j.todo \ {k}
        /\ \A m \in Node, s \in Routine : m # n \/ s # r => job'[m][s] = job[m][s]
    <3>1. job \in [Node -> [Routine -> Jobs]]
      BY DEF RequestInv, JobsOK
    <3>2. /\ job'[n][r] = [j EXCEPT !.todo = @ \ {k}]
          /\ \A m \in Node, s \in Routine : m # n \/ s # r => job'[m][s] = job[m][s]
      BY <1>4, <3>1
    <3> QED
      BY <1>1, <3>2 DEF Jobs
  <2>3. PICK so \in j.roles : k \in RoleRights(j.whom, so)
    BY <1>1, <1>2 DEF JobOK, RightsOf
  <2>4. so \in Role /\ j.whom \in User /\ j.roles \subseteq Role
    BY <1>1 DEF Jobs, JobOK
  <2>5. k \in Rights(etcd)' <=> Gives(n, r)
    <3>1. CASE writes' = writes
      <4>1. ~(writes' > writes)
        BY <3>1, WriteFacts
      <4> QED
        BY <1>4, <3>1, <4>1, WriteFacts
    <3>2. CASE writes' # writes
      BY <3>2, WriteFacts
    <3> QED
      BY <3>1, <3>2
  <2>6. \A i \in Key \ {k} : i \in Rights(etcd)' <=> i \in Rights(etcd)
    BY WriteFacts
  <2> HIDE DEF k, j
  <2>7. \A m \in Node, s \in Routine : Editing(m, s)' <=> Editing(m, s)
    <3> SUFFICES ASSUME NEW m \in Node, NEW s \in Routine PROVE Editing(m, s)' <=> Editing(m, s)
      OBVIOUS
    <3>1. CASE m = n /\ s = r
      BY <1>1, <2>2, <3>1 DEF Editing, j
    <3>2. CASE m # n \/ s # r
      BY <2>2, <3>2 DEF Editing
    <3> QED
      BY <3>1, <3>2
  <2>8. \A m \in Node, s \in Routine :
            job'[m][s].whom = job[m][s].whom /\ job'[m][s].roles = job[m][s].roles
    BY <2>2 DEF j
  <2>9. ASSUME NEW m \in Node, NEW s \in Routine, Editing(m, s)', ~clash'[m][s]
        PROVE  Alone(m, s)' /\ Written(m, s)'
    <3>1. Editing(m, s) /\ ~clash[m][s] /\ Alone(m, s) /\ Written(m, s)
      BY <1>4, <2>7, <2>9 DEF EditsOK, EditOK
    <3>2. Alone(m, s)'
      BY <2>7, <2>8, <3>1 DEF Alone, Collide
    <3>3. CASE m = n /\ s = r
      <4> SUFFICES ASSUME NEW ro \in j.roles, NEW i \in RoleRights(j.whom, ro), i \notin j.todo \ {k}
                   PROVE  i \in Rights(etcd)' <=> Gives(n, r)'
        BY <2>2, <3>2, <3>3 DEF Written
      <4>1. Gives(n, r)' <=> Gives(n, r)
        BY <2>2 DEF Gives, j
      <4>2. CASE i = k
        BY <2>5, <4>1, <4>2
      <4>3. CASE i # k
        <5>1. i \in Rights(etcd) <=> Gives(n, r)
          BY <3>1, <3>3, <4>3 DEF Written, j
        <5>2. i \in Key
          BY <2>4, AccessAssumption DEF RoleRights
        <5> QED
          BY <2>6, <4>1, <4>3, <5>1, <5>2
      <4> QED
        BY <4>2, <4>3
    <3>4. CASE m # n \/ s # r
      <4>1. job'[m][s] = job[m][s] /\ job[m][s] \in Jobs /\ JobOK(m, job[m][s])
        BY <2>2, <3>4 DEF RequestInv, JobsOK
      <4>2. ~Collide(job[m][s], j)
        <5>1. Editing(n, r)
          BY <1>1 DEF Editing, JobOK, j
        <5> QED
          BY <3>1, <3>4, <5>1 DEF Alone, j
      <4>3. job[m][s].step = "edit" /\ job[m][s].whom \in User /\ job[m][s].roles \subseteq Role
        BY <3>1, <4>1 DEF Editing, JobOK, Jobs
      <4> SUFFICES ASSUME NEW ro \in job[m][s].roles,
                          NEW i \in RoleRights(job[m][s].whom, ro), i \notin job[m][s].todo
                   PROVE  i \in Rights(etcd)' <=> Gives(m, s)'
        BY <3>2, <4>1 DEF Written
      <4>4. i # k
        <5> SUFFICES ASSUME i = k PROVE FALSE
          OBVIOUS
        <5>1. job[m][s].whom = j.whom /\ ro = so
          BY <2>3, <2>4, <4>3, RoleRightsApart
        <5> QED
          BY <4>2, <5>1 DEF Collide
      <4>5. i \in Key
        BY <4>3, AccessAssumption DEF RoleRights
      <4>6. i \in Rights(etcd) <=> Gives(m, s)
        BY <3>1 DEF Written
      <4> QED
        BY <2>6, <4>1, <4>4, <4>5, <4>6 DEF Gives
    <3> QED
      BY <3>2, <3>3, <3>4
  <2>10. ASSUME NEW u \in User, NEW ro \in Role PROVE RoleOK(u, ro)'
    <3>1. RoleOK(u, ro)
      BY DEF RolesAsOrdered, RoleOK
    <3>2. CASE u = j.whom /\ ro = so
      <4>1. Editing(n, r)
        BY <1>1 DEF Editing, JobOK, j
      <4>2. Editing(n, r)' /\ job'[n][r].whom = u /\ ro \in job'[n][r].roles
        BY <2>2, <2>7, <3>2, <4>1
      <4> QED
        BY <4>2 DEF RoleOK
    <3>3. CASE ~(u = j.whom /\ ro = so)
      <4>1. \A i \in RoleRights(u, ro) : i \in Key \ {k}
        BY <2>3, <2>4, <3>3, RoleRightsApart, AccessAssumption DEF RoleRights
      <4>2. Rights(etcd)' \cap RoleRights(u, ro) = Rights(etcd) \cap RoleRights(u, ro)
        BY <2>6, <4>1
      <4>3. (\E m \in Node, s \in Routine :
                 Editing(m, s) /\ job[m][s].whom = u /\ ro \in job[m][s].roles)
            => \E m \in Node, s \in Routine :
                 Editing(m, s)' /\ job'[m][s].whom = u /\ ro \in job'[m][s].roles
        BY <2>7, <2>8
      <4> QED
        BY <1>4, <3>1, <4>2, <4>3 DEF RoleOK
    <3> QED
      BY <3>2, <3>3
  <2> QED
    BY <1>2, <2>1, <2>9, <2>10 DEF EditsOK, EditOK, RolesAsOrdered, RoleOK
<1> QED
  BY <1>3, <1>4 DEF EditEtcd, Settle

\* A crash ends all edits of the machine, and tears their roles.
LEMMA CrashKeeps ==
    ASSUME RolesInv, NEW n \in Node, Crash(n)
    PROVE  NumbersOK' /\ HistoryOK' /\ EditsOK' /\ RolesAsOrdered'
<1> USE DEF RolesInv
<1> DEFINE Lost(u) == UNION {job[n][r].roles : r \in {s \in {t \in Routine : Editing(n, t)} :
                                                          job[n][s].whom = u}}
<1>1. /\ UNCHANGED <<etcd, writes, puts>>
      /\ clash' = [clash EXCEPT ![n] = [r \in Routine |-> FALSE]]
      /\ ordered' = [u \in User |-> [ro \in Role |->
                        IF ro \in Lost(u) THEN "torn" ELSE ordered[u][ro]]]
  BY DEF Crash, Restart
<1>2. NumbersOK' /\ Rights(etcd)' = Rights(etcd)
  BY <1>1 DEF NumbersOK, Rights
<1>3. \A u \in User, ro \in Role :
          ordered'[u][ro] = IF ro \in Lost(u) THEN "torn" ELSE ordered[u][ro]
  BY <1>1
<1>4. \A u \in User, ro \in Role, r \in Routine :
          Editing(n, r) /\ job[n][r].whom = u /\ ro \in job[n][r].roles => ro \in Lost(u)
  OBVIOUS
<1> HIDE DEF Lost
<1>5. HistoryOK'
  <2>1. clash' \in [Node -> [Routine -> BOOLEAN]]
    BY <1>1 DEF HistoryOK
  <2>2. ordered' \in [User -> [Role -> {"given", "taken", "torn"}]]
    BY <1>1 DEF HistoryOK
  <2> QED
    BY <2>1, <2>2 DEF HistoryOK
<1>6. /\ \A r \in Routine : ~Editing(n, r)'
      /\ \A m \in Node, s \in Routine : m # n =>
             /\ job'[m][s] = job[m][s] /\ clash'[m][s] = clash[m][s]
             /\ Editing(m, s)' <=> Editing(m, s)
  BY <1>1, CrashFacts DEF Editing, NoJob, HistoryOK
<1>7. ASSUME NEW m \in Node, NEW s \in Routine, Editing(m, s)', ~clash'[m][s]
      PROVE  Alone(m, s)' /\ Written(m, s)'
  <2>1. m # n /\ Editing(m, s) /\ ~clash[m][s] /\ job'[m][s] = job[m][s]
    BY <1>6, <1>7
  <2>2. Alone(m, s) /\ Written(m, s)
    BY <2>1 DEF EditsOK, EditOK
  <2>3. Alone(m, s)'
    BY <1>6, <2>1, <2>2 DEF Alone, Collide
  <2>4. Written(m, s)'
    BY <1>2, <2>1, <2>2 DEF Written, Gives
  <2> QED
    BY <2>3, <2>4
<1>8. ASSUME NEW u \in User, NEW ro \in Role PROVE RoleOK(u, ro)'
  <2>1. RoleOK(u, ro)
    BY DEF RolesAsOrdered, RoleOK
  <2>2. CASE ro \in Lost(u)
    BY <1>3, <2>2 DEF RoleOK
  <2>3. CASE ro \notin Lost(u)
    <3>1. ordered'[u][ro] = ordered[u][ro]
      BY <1>3, <2>3
    <3>2. CASE \E m \in Node, s \in Routine :
                  Editing(m, s) /\ job[m][s].whom = u /\ ro \in job[m][s].roles
      <4>1. PICK m \in Node, s \in Routine :
                Editing(m, s) /\ job[m][s].whom = u /\ ro \in job[m][s].roles
        BY <3>2
      <4>2. m # n
        BY <1>4, <2>3, <4>1
      <4> QED
        BY <1>6, <4>1, <4>2 DEF RoleOK
    <3> QED
      BY <1>2, <2>1, <3>1, <3>2 DEF RoleOK
  <2> QED
    BY <2>2, <2>3
<1>9. EditsOK'
  BY <1>7 DEF EditsOK, EditOK
<1> QED
  BY <1>2, <1>5, <1>8, <1>9 DEF RolesAsOrdered, RoleOK

LEMMA InitRoles == AccessInit => RolesInv
<1> SUFFICES ASSUME AccessInit PROVE RolesInv
  OBVIOUS
<1>1. RequestInv
  BY InitRequest
<1>2. NumbersOK
  BY DEF AccessInit, Init, NumbersOK
<1>3. HistoryOK
  BY DEF AccessInit, HistoryOK, Nowhere
<1>4. EditsOK
  BY DEF AccessInit, Nowhere, NoJob, EditsOK, EditOK, Editing
<1>5. Rights(etcd) = InitialRights
  BY AccessAssumption DEF AccessInit, Init, Rights
<1>6. RolesAsOrdered
  <2> SUFFICES ASSUME NEW u \in User, NEW ro \in Role PROVE RoleOK(u, ro)
    BY DEF RolesAsOrdered, RoleOK
  <2>1. ordered[u][ro] = IF RoleRights(u, ro) \subseteq InitialRights THEN "given"
                         ELSE IF RoleRights(u, ro) \cap InitialRights = {} THEN "taken"
                         ELSE "torn"
    BY DEF AccessInit
  <2> QED
    BY <1>5, <2>1 DEF RoleOK
<1> QED
  BY <1>1, <1>2, <1>3, <1>4, <1>6 DEF RolesInv

LEMMA NextRoles == RolesInv /\ [AccessNext]_allVars => RolesInv'
<1> SUFFICES ASSUME RolesInv, [AccessNext]_allVars PROVE RolesInv'
  OBVIOUS
<1>1. RequestInv'
  BY NextRequest DEF RolesInv
<1>2. NumbersOK' /\ HistoryOK' /\ EditsOK' /\ RolesAsOrdered'
  BY EditKinds, NoEditKeeps, BeginKeeps, WriteKeeps, DoneKeeps, CrashKeeps DEF RolesInv
<1> QED
  BY <1>1, <1>2 DEF RolesInv

LEMMA RolesAlways == AccessSpec => []RolesInv
BY InitRoles, NextRoles, PTL DEF AccessSpec

\* AddUserPermissions and RevokeUserPermissions write a role right by right; once
\* no edit of a role of a user is open, the user has all of its rights or none, as
\* the last edit ordered, unless an edit has failed or two have overlapped.
THEOREM RolesStayWhole == AccessSpec => []RolesAsOrdered
<1>1. RolesInv => RolesAsOrdered
  BY DEF RolesInv
<1> QED
  BY <1>1, RolesAlways, PTL

----------------------------------------------------------------------------
(* What a decision is based on *)

\* While a request is checked, the rights that etcd contains, and those that an
\* answer on its way contains, have been there since the request began.
WasAt(n, r) ==
    /\ job[n][r].step = "check" => Rights(etcd) \subseteq was[n][r]
    /\ pc[n][r] = "set" => /\ Rights(got[n][r]) \subseteq was[n][r]
                           /\ \A k \in DOMAIN got[n][r] :
                                 got[n][r][k] \in Nat /\ got[n][r][k] <= writes

WasOK ==
    /\ was \in [Node -> [Routine -> SUBSET Key]]
    /\ \A n \in Node, r \in Routine : WasAt(n, r)

ReasonInv == RolesInv /\ StaleInv /\ WasOK

LEMMA AnswerRights ==
    ASSUME RequestInv, NumbersOK, NEW q \in Query
    PROVE  /\ Rights(Answer(q)) \subseteq Rights(etcd)
           /\ DOMAIN Answer(q) = q
           /\ \A k \in q : Answer(q)[k] \in Nat /\ Answer(q)[k] <= writes
           /\ Rights(etcd) \subseteq Key
<1>1. q \subseteq Key /\ DOMAIN etcd = Key /\ \A k \in Key : etcd[k] \in Nat
  BY AnswerFacts, NaSeCacheAssumption DEF RequestInv, TypeInv, TypeOK
<1>2. DOMAIN Answer(q) = q /\ \A k \in q : Answer(q)[k] = etcd[k]
  BY DEF Answer
<1> QED
  BY <1>1, <1>2 DEF Rights, NumbersOK

LEMMA RightsType ==
    ASSUME RequestInv
    PROVE  Rights(etcd) \subseteq Key
BY DEF Rights, RequestInv, TypeInv, TypeOK

\* A step of goroutine r of n that writes nothing.
LEMMA WasStep ==
    ASSUME ReasonInv, NEW n \in Node, NEW r \in Routine, Elsewhere(n, r),
           UNCHANGED <<etcd, writes, puts>>,
           NEW w \in SUBSET Key, was' = [was EXCEPT ![n][r] = w],
           was'[n][r] = w => WasAt(n, r)'
    PROVE  WasOK'
<1>1. /\ was' \in [Node -> [Routine -> SUBSET Key]] /\ was'[n][r] = w
      /\ \A m \in Node, s \in Routine : m # n \/ s # r => was'[m][s] = was[m][s]
  BY DEF ReasonInv, WasOK
<1>2. ASSUME NEW m \in Node, NEW s \in Routine PROVE WasAt(m, s)'
  <2>1. CASE m = n /\ s = r
    BY <1>1, <2>1
  <2>2. CASE m # n \/ s # r
    <3>1. /\ was'[m][s] = was[m][s] /\ job'[m][s] = job[m][s] /\ pc'[m][s] = pc[m][s]
          /\ got'[m][s] = got[m][s]
      BY <1>1, <2>2 DEF Elsewhere
    <3>2. WasAt(m, s)
      BY DEF ReasonInv, WasOK
    <3> QED
      BY <3>1, <3>2 DEF WasAt, Rights
  <2> QED
    BY <2>1, <2>2
<1> QED
  BY <1>1, <1>2 DEF WasOK

\* The same, if the goroutine checks nothing afterwards.
LEMMA WasStepAway ==
    ASSUME ReasonInv, NEW n \in Node, NEW r \in Routine, Elsewhere(n, r),
           UNCHANGED <<etcd, writes, puts>>,
           NEW w \in SUBSET Key, was' = [was EXCEPT ![n][r] = w],
           job'[n][r].step # "check", pc'[n][r] # "set"
    PROVE  WasOK'
<1>1. WasAt(n, r)'
  BY DEF WasAt
<1> QED
  BY <1>1, WasStep

LEMMA WasSame ==
    ASSUME ReasonInv, NEW n \in Node, NEW r \in Routine, UNCHANGED was
    PROVE  was[n][r] \in SUBSET Key /\ was' = [was EXCEPT ![n][r] = was[n][r]]
BY DEF ReasonInv, WasOK

LEMMA EndWas ==
    ASSUME ReasonInv, NEW n \in Node, NEW r \in Routine, NEW st, Elsewhere(n, r),
           UNCHANGED <<etcd, writes, puts>>, pc'[n][r] # "set", End(n, r, st)
    PROVE  WasOK'
<1>1. job'[n][r].step # "check"
  BY EndFacts DEF ReasonInv, RolesInv, RequestInv, NoJob
<1>2. was' = [was EXCEPT ![n][r] = {}]
  BY DEF End
<1> DEFINE none == {}
<1>3. none \in SUBSET Key /\ was' = [was EXCEPT ![n][r] = none]
  BY <1>2
<1> HIDE DEF none
<1> QED
  BY <1>1, <1>3, WasStepAway

LEMMA DecideWas ==
    ASSUME ReasonInv, NEW n \in Node, NEW r \in Routine, NEW answer, Elsewhere(n, r),
           UNCHANGED <<etcd, writes, puts>>, pc'[n][r] # "set", job[n][r].step = "check",
           Decide(n, r, answer)
    PROVE  WasOK'
<1>1. job'[n][r].step # "check"
  BY DecideFacts DEF ReasonInv, RolesInv, RequestInv
<1>2. CASE End(n, r, "torn")
  BY <1>2, EndWas
<1>3. CASE UNCHANGED was
  BY <1>1, <1>3, WasSame, WasStepAway
<1> QED
  BY <1>2, <1>3 DEF Decide

LEMMA ServeWas ==
    ASSUME ReasonInv, NEW n \in Node, NEW r \in Routine, NEW c, NEW u, NEW step, Elsewhere(n, r),
           pc[n][r] = "idle", Serve(n, r, c, u, step)
    PROVE  WasOK'
<1>1. was' = [was EXCEPT ![n][r] = Rights(etcd)] /\ UNCHANGED <<etcd, writes, puts, pc>>
  BY DEF Serve, vars
<1>2. Rights(etcd) \in SUBSET Key
  BY RightsType DEF ReasonInv, RolesInv
<1>3. was'[n][r] = Rights(etcd) => WasAt(n, r)'
  BY <1>1 DEF WasAt, Rights
<1> QED
  BY <1>1, <1>2, <1>3, WasStep

LEMMA GetWas ==
    ASSUME ReasonInv, NEW n \in Node, NEW r \in Routine, IsAllowedGet(n, r)
    PROVE  WasOK'
<1> USE DEF ReasonInv, RolesInv, RequestInv
<1>1. /\ Elsewhere(n, r) /\ UNCHANGED <<etcd, writes, puts>> /\ Get(n, r)
      /\ job[n][r].step = "check" /\ pc[n][r] = "get"
  BY GetFacts DEF IsAllowedGet, Get
<1>2. CASE Done(n, r)
  <2>1. pc'[n][r] = "idle"
    BY <1>2, DoneFacts
  <2>2. End(n, r, "torn")
    BY <2>1 DEF IsAllowedGet
  <2> QED
    BY <1>1, <2>1, <2>2, EndWas
<1>3. CASE /\ got' = [got EXCEPT ![n][r] = Answer(qry[n][r])]
           /\ pc' = [pc EXCEPT ![n][r] = "set"]
           /\ UNCHANGED <<qry, key>>
  <2> DEFINE q == qry[n][r]
  <2>1. q \in Query
    BY <1>1 DEF TypeInv, HandsOK
  <2>2. pc'[n][r] = "set" /\ got'[n][r] = Answer(q)
    BY <1>3 DEF TypeInv, TypeOK
  <2>3. UNCHANGED <<job, was>>
    BY <2>2 DEF IsAllowedGet
  <2> HIDE DEF q
  <2>4. Rights(etcd) \subseteq was[n][r]
    BY <1>1 DEF WasOK, WasAt
  <2>5. Rights(got[n][r])' = Rights(Answer(q)) /\ Rights(etcd)' = Rights(etcd)
    BY <1>1, <2>2 DEF Rights
  <2>6. WasAt(n, r)'
    BY <1>1, <2>1, <2>2, <2>3, <2>4, <2>5, AnswerRights DEF WasAt
  <2> QED
    BY <1>1, <2>3, <2>6, WasSame, WasStep
<1> QED
  BY <1>1, <1>2, <1>3 DEF Get

\* A write is noticed by all who have an open request, and changes nothing about
\* what an answer on its way contains.
LEMMA EditEtcdWas ==
    ASSUME ReasonInv, NEW n \in Node, NEW r \in Routine, EditEtcd(n, r)
    PROVE  WasOK'
<1> USE DEF ReasonInv, RolesInv
<1>1. Elsewhere(n, r) /\ pc'[n][r] = "idle" /\ JobsOK' /\ Done(n, r)
  BY EditEtcdFacts, DoneFacts DEF EditEtcd, PutEtcd, RequestInv
<1>2. CASE End(n, r, "torn") /\ writes' = writes
  <2>1. UNCHANGED <<etcd, puts>>
    <3>1. writes \in Nat
      BY WriteFacts
    <3>2. UNCHANGED etcd
      BY <1>2, <3>1 DEF EditEtcd, PutEtcd
    <3> QED
      BY <1>2, <3>1, <3>2 DEF EditEtcd
  <2> QED
    BY <1>1, <1>2, <2>1, EndWas
<1>3. CASE Observe(Rights(etcd)') /\ job'[n][r].step # "check"
  <2>1. was' = [m \in Node |-> [s \in Routine |->
                  IF Serves(m, s) THEN was[m][s] \cup Rights(etcd)' ELSE was[m][s]]]
    BY <1>3 DEF Observe
  <2>2. Rights(etcd)' \subseteq Key
    BY EditEtcdFacts, NextTypeInv DEF RequestInv, Rights, TypeInv, TypeOK
  <2>3. was' \in [Node -> [Routine -> SUBSET Key]]
    BY <2>1, <2>2 DEF WasOK
  <2>4. ASSUME NEW m \in Node, NEW s \in Routine PROVE WasAt(m, s)'
    <3>1. WasAt(m, s)
      BY DEF WasOK
    <3>2. /\ was[m][s] \subseteq was'[m][s]
          /\ Serves(m, s) => Rights(etcd)' \subseteq was'[m][s]
      BY <2>1
    <3>3. CASE m = n /\ s = r
      BY <1>1, <1>3, <3>3 DEF WasAt
    <3>4. CASE m # n \/ s # r
      <4>1. job'[m][s] = job[m][s] /\ pc'[m][s] = pc[m][s] /\ got'[m][s] = got[m][s]
        BY <1>1, <3>4 DEF Elsewhere
      <4>2. job'[m][s].step = "check" => Rights(etcd)' \subseteq was'[m][s]
        BY <3>2, <4>1 DEF Serves
      <4>3. ASSUME pc[m][s] = "set"
            PROVE  /\ Rights(got[m][s])' \subseteq was'[m][s]
                   /\ \A k \in DOMAIN got[m][s] : got[m][s][k] \in Nat /\ got[m][s][k] <= writes'
        <5>1. \A k \in DOMAIN got[m][s] : got[m][s][k] \in Nat /\ got[m][s][k] <= writes
          BY <3>1, <4>3 DEF WasAt
        <5>2. /\ writes \in Nat /\ writes' \in Nat /\ writes <= writes'
              /\ puts \subseteq puts' /\ \A x \in puts' \ puts : x > writes
          BY WriteFacts
        <5>3. \A k \in DOMAIN got[m][s] : got[m][s][k] \in puts' => got[m][s][k] \in puts
          BY <5>1, <5>2
        <5>4. Rights(got[m][s])' \subseteq Rights(got[m][s])
          BY <4>1, <5>3 DEF Rights
        <5>5. Rights(got[m][s]) \subseteq was[m][s]
          BY <3>1, <4>3 DEF WasAt
        <5> QED
          BY <3>2, <5>1, <5>2, <5>4, <5>5
      <4> QED
        BY <4>1, <4>2, <4>3 DEF WasAt
    <3> QED
      BY <3>3, <3>4
  <2> QED
    BY <2>3, <2>4 DEF WasOK
<1>4. ASSUME job' = [job EXCEPT ![n][r].todo = @ \ {key[n][r]}] PROVE job'[n][r].step # "check"
  <2>1. job[n][r].step = "edit" /\ job \in [Node -> [Routine -> Jobs]]
    BY DEF EditEtcd, RequestInv, JobsOK
  <2>2. job'[n][r] = [job[n][r] EXCEPT !.todo = @ \ {key[n][r]}] /\ job[n][r] \in Jobs
    BY <1>4, <2>1
  <2> QED
    BY <2>1, <2>2 DEF Jobs
<1> QED
  BY <1>2, <1>3, <1>4 DEF EditEtcd, Settle

LEMMA CrashWas ==
    ASSUME ReasonInv, NEW n \in Node, Crash(n)
    PROVE  WasOK'
<1> USE DEF ReasonInv, RolesInv
<1>1. /\ was' = [was EXCEPT ![n] = [r \in Routine |-> {}]]
      /\ UNCHANGED <<etcd, writes, puts>>
  BY DEF Crash, Restart
<1>2. was' \in [Node -> [Routine -> SUBSET Key]] /\ \A m \in Node : m # n => was'[m] = was[m]
  BY <1>1 DEF WasOK
<1>3. ASSUME NEW m \in Node, NEW s \in Routine PROVE WasAt(m, s)'
  <2>1. WasAt(m, s)
    BY DEF WasOK
  <2>2. CASE m = n
    BY <2>2, CrashFacts DEF WasAt, NoJob
  <2>3. CASE m # n
    <3>1. /\ was'[m][s] = was[m][s] /\ job'[m][s] = job[m][s] /\ pc'[m][s] = pc[m][s]
          /\ got'[m][s] = got[m][s]
      BY <1>2, <2>3, CrashFacts
    <3> QED
      BY <1>1, <2>1, <3>1 DEF WasAt, Rights
  <2> QED
    BY <2>2, <2>3
<1> QED
  BY <1>2, <1>3 DEF WasOK

LEMMA RequestStepWas ==
    ASSUME ReasonInv, NEW n \in Node, NEW r \in Routine, RequestStep(n, r)
    PROVE  WasOK'
<1> USE DEF ReasonInv, RolesInv
<1>1. Elsewhere(n, r)
  BY RequestStepFacts
<1>2. CASE IsAllowedCached(n, r)
  BY <1>1, <1>2, DecideWas DEF IsAllowedCached, CacheHit
<1>3. CASE IsAllowedUncached(n, r)
  BY <1>1, <1>3, DecideWas, EndWas DEF IsAllowedUncached, GetUncached
<1>4. CASE IsAllowedAnswer(n, r)
  <2>1. pc'[n][r] = "idle"
    BY <1>4, DoneFacts DEF IsAllowedAnswer, Set, RequestInv
  <2> QED
    BY <1>1, <1>4, <2>1, DecideWas DEF IsAllowedAnswer, Set
<1>5. CASE IsAllowedAsks(n, r)
  <2>1. pc'[n][r] = "get" /\ UNCHANGED <<etcd, writes, puts, job, was>>
    BY <1>5 DEF IsAllowedAsks, CacheMiss, accessVars, RequestInv, TypeInv, TypeOK
  <2>2. WasAt(n, r) /\ Rights(etcd)' = Rights(etcd)
    BY <2>1 DEF WasOK, Rights
  <2>3. WasAt(n, r)'
    BY <2>1, <2>2 DEF WasAt
  <2> QED
    BY <1>1, <2>1, <2>3, WasSame, WasStep
<1>6. CASE IsAllowedGet(n, r)
  BY <1>6, GetWas
<1>7. CASE Operate(n, r) \/ EditDone(n, r)
  <2>1. UNCHANGED vars /\ \E st : End(n, r, st)
    BY <1>7 DEF Operate, EditDone
  <2>2. pc[n][r] # "set" /\ UNCHANGED puts
    BY <1>7 DEF Operate, EditDone, RequestInv, RoutinesOK, RoutineOK
  <2> QED
    BY <1>1, <2>1, <2>2, EndWas DEF vars
<1>8. CASE EditLocal(n, r)
  <2>1. pc'[n][r] = "put" /\ UNCHANGED <<etcd, writes, puts, job, was>>
    BY <1>8 DEF EditLocal, PutLocal, accessVars, RequestInv, TypeInv, TypeOK
  <2> QED
    BY <1>1, <1>8, <2>1, WasSame, WasStepAway DEF EditLocal
<1>9. CASE EditEtcd(n, r)
  BY <1>9, EditEtcdWas
<1> QED
  BY <1>2, <1>3, <1>4, <1>5, <1>6, <1>7, <1>8, <1>9 DEF RequestStep

\* Nothing changes that WasOK is about.
LEMMA QuietWas ==
    ASSUME ReasonInv, UNCHANGED <<etcd, writes, puts, job, was, pc, got>>
    PROVE  WasOK'
<1>1. \A n \in Node, r \in Routine : WasAt(n, r) => WasAt(n, r)'
  BY DEF WasAt, Rights
<1> QED
  BY <1>1 DEF ReasonInv, WasOK

LEMMA NextReason == ReasonInv /\ [AccessNext]_allVars => ReasonInv'
<1> SUFFICES ASSUME ReasonInv, [AccessNext]_allVars PROVE ReasonInv'
  OBVIOUS
<1> USE DEF ReasonInv
<1>1. RolesInv' /\ StaleInv' /\ RequestInv
  BY NextRoles, NextRequest, NextStale DEF RolesInv
<1>2. CASE UNCHANGED allVars
  BY <1>1, <1>2, QuietWas DEF allVars, accessVars, vars
<1>3. ASSUME NEW c \in Ops, NEW p \in Proxy \cup Node, NEW n \in Node, NEW r \in Routine,
             NEW u \in User, Receive(c, p, n, r, u)
      PROVE  WasOK'
  BY <1>1, <1>3, ReceiveFacts, ServeWas DEF Receive, Accept
<1>4. ASSUME NEW c \in Ops, NEW p \in Proxy \cup Node, NEW n \in Node, NEW r \in Routine,
             ReceivePeer(c, p, n, r)
      PROVE  WasOK'
  BY <1>1, <1>4, ReceivePeerFacts, ServeWas DEF ReceivePeer, Accept
<1>5. ASSUME NEW p \in Proxy \cup Node, NEW n \in Node, NEW r \in Routine, NEW u \in User,
             CreateKeygroup(p, n, r, u)
      PROVE  WasOK'
  <2>1. UNCHANGED <<etcd, writes, puts, was, pc, got>> /\ pc[n][r] = "idle" /\ job[n][r].step = "none"
    BY <1>5 DEF CreateKeygroup, vars, Accept, Serves
  <2>2. CASE UNCHANGED job
    BY <2>1, <2>2, QuietWas
  <2>3. ASSUME NEW j \in Jobs, BeginEdit(n, r, j, Role, u), Bound(n), j.call[2] \notin NodeCalls
        PROVE  WasOK'
    <3>1. Role \in RoleSets
      BY DEF RoleSets, Role, permissions
    <3>2. job' = [job EXCEPT ![n][r] = EditJob(j, Role, u)]
      BY <2>3 DEF BeginEdit, EditJob
    <3>3. EditJob(j, Role, u) \in Jobs /\ JobOK(n, EditJob(j, Role, u)) /\ EditJob(j, Role, u).step = "edit"
      BY <2>3, <3>1, EditJobFacts
    <3>4. job'[n][r].step = "edit"
      <4>1. job \in [Node -> [Routine -> Jobs]]
        BY <1>1 DEF RequestInv, JobsOK
      <4>2. job'[n][r] = EditJob(j, Role, u)
        BY <3>2, <4>1
      <4> QED
        BY <3>3, <4>2
    <3>5. Elsewhere(n, r)
      BY <1>1, <1>5, CreateFacts
    <3> QED
      BY <2>1, <3>4, <3>5, WasSame, WasStepAway
  <2> QED
    BY <1>1, <1>5, <2>2, <2>3, CreateFacts
<1>6. ASSUME NEW n \in Node, NEW q \in Query, WatchStep(n, q), UNCHANGED accessVars PROVE WasOK'
  BY <1>1, <1>6, WatchStepFacts, QuietWas DEF accessVars
<1>7. WasOK'
  BY <1>2, <1>3, <1>4, <1>5, <1>6, RequestStepWas, CrashWas DEF AccessNext, AllServed
<1> QED
  BY <1>1, <1>7

LEMMA InitReason == AccessInit => ReasonInv
<1> SUFFICES ASSUME AccessInit PROVE ReasonInv
  OBVIOUS
<1>1. RolesInv /\ StaleInv
  BY InitRoles, InitStale DEF AccessInit
<1>2. was \in [Node -> [Routine -> SUBSET Key]]
  BY DEF AccessInit, Nowhere
<1>3. \A n \in Node, r \in Routine : job[n][r].step = "none" /\ pc[n][r] = "idle"
  BY DEF AccessInit, Nowhere, Init, NoJob
<1> QED
  BY <1>1, <1>2, <1>3 DEF ReasonInv, WasOK, WasAt

\* isAllowed lets a request go on only for a right in the answer it has.
LEMMA AdmittedFor ==
    ASSUME JobsOK, NEW n \in Node, NEW r \in Routine, NEW answer, Decide(n, r, answer),
           job'[n][r].step # "none"
    PROVE  Needed(n, r) \in Rights(answer)
<1>1. ~End(n, r, "torn")
  BY EndFacts DEF NoJob
<1> QED
  BY <1>1 DEF Decide

\* A call is admitted for a right in the answer that is cached, or that etcd gives,
\* or has given, to the machine that serves the keygroup.
LEMMA AdmittedHow ==
    ASSUME RequestInv, [AccessNext]_allVars, NEW n \in Node, NEW r \in Routine, Admitted(n, r)
    PROVE  /\ job[n][r].step = "check" /\ Prefix(job[n][r].by) \in Query /\ Bound(n)
           /\ \/ /\ Needed(n, r) \in Rights(cache[n][Prefix(job[n][r].by)])
                 /\ Cached(n, Prefix(job[n][r].by))
              \/ Needed(n, r) \in Rights(got[n][r]) /\ pc[n][r] = "set"
              \/ Needed(n, r) \in Rights(Answer(Prefix(job[n][r].by)))
<1> USE DEF RequestInv
<1> DEFINE q == Prefix(job[n][r].by)
           How == \/ Needed(n, r) \in Rights(cache[n][q]) /\ Cached(n, q)
                  \/ Needed(n, r) \in Rights(got[n][r]) /\ pc[n][r] = "set"
                  \/ Needed(n, r) \in Rights(Answer(q))
<1>1. /\ job[n][r].step = "check" /\ job'[n][r].step # "check" /\ job'[n][r].step # "none"
      /\ ~End(n, r, "torn")
  BY EndFacts DEF Admitted, Decided, NoJob
<1>2. q \in Query /\ Bound(n)
  BY <1>1, CheckFacts
<1> HIDE DEF q
<1>3. ASSUME IsAllowedCached(n, r) PROVE How
  BY <1>1, <1>3, AdmittedFor DEF IsAllowedCached, CacheHit, q
<1>4. ASSUME IsAllowedUncached(n, r) PROVE How
  BY <1>1, <1>4, AdmittedFor DEF IsAllowedUncached, q
<1>5. ASSUME IsAllowedAnswer(n, r) PROVE How
  BY <1>1, <1>5, AdmittedFor DEF IsAllowedAnswer, Set
<1>6. ~IsAllowedGet(n, r)
  BY <1>1 DEF IsAllowedGet
<1>7. RequestStep(n, r) => How
  BY <1>1, <1>3, <1>4, <1>5, <1>6
     DEF RequestStep, IsAllowedAsks, Operate, EditLocal, EditEtcd, Settle, EditDone, accessVars
<1>8. \A m \in Node, s \in Routine : Elsewhere(m, s) => m = n /\ s = r
  BY <1>1 DEF Elsewhere
<1>9. ASSUME NEW m \in Node, NEW s \in Routine, RequestStep(m, s) PROVE How
  BY <1>7, <1>8, <1>9, RequestStepFacts
<1>10. ASSUME NEW c \in Ops, NEW p \in Proxy \cup Node, NEW m \in Node, NEW s \in Routine,
              NEW u \in User, Receive(c, p, m, s, u)
       PROVE  FALSE
  BY <1>1, <1>8, <1>10, ReceiveFacts DEF Receive, Accept, Serves
<1>11. ASSUME NEW c \in Ops, NEW p \in Proxy \cup Node, NEW m \in Node, NEW s \in Routine,
              ReceivePeer(c, p, m, s)
       PROVE  FALSE
  BY <1>1, <1>8, <1>11, ReceivePeerFacts DEF ReceivePeer, Accept, Serves
<1>12. ASSUME NEW p \in Proxy \cup Node, NEW m \in Node, NEW s \in Routine, NEW u \in User,
              CreateKeygroup(p, m, s, u)
       PROVE  FALSE
  BY <1>1, <1>8, <1>12, CreateFacts DEF CreateKeygroup, Accept, Serves
<1>13. ASSUME NEW m \in Node, Crash(m) PROVE FALSE
  BY <1>1, <1>13, CrashFacts DEF NoJob
<1>14. How
  BY <1>1, <1>9, <1>10, <1>11, <1>12, <1>13 DEF AccessNext, AllServed, allVars, accessVars
<1> QED
  BY <1>1, <1>2, <1>14 DEF q

\* A call is admitted only if its user had the right at some time since the call
\* came in, unless the machine's cache is behind: a notification is on its way,
\* or etcd changed between an answer and the registration of its watch.
THEOREM AdmissionHasReason == AccessSpec => AdmittedForAReason
<1> DEFINE Reason(n, r) == \/ Needed(n, r) \in was[n][r]
                           \/ fired[n][Prefix(job[n][r].by)] > 0
                           \/ Prefix(job[n][r].by) \in hit[n]
<1>1. ASSUME ReasonInv, [AccessNext]_allVars, NEW n \in Node, NEW r \in Routine, Admitted(n, r)
      PROVE  Reason(n, r)
  <2> USE DEF ReasonInv, RolesInv
  <2> DEFINE q == Prefix(job[n][r].by)
  <2>1. /\ job[n][r].step = "check" /\ q \in Query
        /\ \/ Needed(n, r) \in Rights(cache[n][q]) /\ Cached(n, q)
           \/ Needed(n, r) \in Rights(got[n][r]) /\ pc[n][r] = "set"
           \/ Needed(n, r) \in Rights(Answer(q))
    BY <1>1, AdmittedHow
  <2>2. WasAt(n, r)
    BY <1>1 DEF WasOK
  <2> HIDE DEF q
  <2>3. Rights(Answer(q)) \subseteq was[n][r]
    BY <1>1, <2>1, <2>2, AnswerRights DEF WasAt
  <2>4. Guarded(n, q)
    BY <1>1, <2>1 DEF StaleInv, GuardedOK
  <2>5. Cached(n, q) => q \in hit[n] \/ fired[n][q] > 0 \/ cache[n][q] = Answer(q)
    BY <2>4 DEF Guarded
  <2> QED
    BY <2>1, <2>2, <2>3, <2>5 DEF WasAt, q
<1>2. ReasonInv /\ [AccessNext]_allVars =>
          [\A n \in Node, r \in Routine : Admitted(n, r) => Reason(n, r)]_allVars
  BY <1>1
<1>3. AccessSpec => []ReasonInv
  BY InitReason, NextReason, PTL DEF AccessSpec
<1> QED
  BY <1>2, <1>3, PTL DEF AccessSpec, AdmittedForAReason

----------------------------------------------------------------------------
(* Rights that a FReD node has taken *)

\* A machine whose goroutines use the name service one at a time never unlearns
\* what a check or its own write told it, for all rights of a user.
THEOREM MachineGoesForward ==
    ASSUME OneAtATime
    PROVE  AccessSpec => ReadsGoForward
BY NodeGoesForward, RequestsUseTheCache, PTL

\* What a machine caches or holds are answers etcd gave before now.
Old(answer) == \A k \in DOMAIN answer : answer[k] \in Nat /\ answer[k] <= writes

OldOK ==
    /\ \A n \in Node, q \in Query : Old(cache[n][q])
    /\ \A n \in Node, r \in Routine : Old(got[n][r])

\* A right the FReD node has taken is nowhere at the machine that serves the keygroup,
\* neither in its cache nor in an answer on its way there, and not in etcd.
Absent(n, k) ==
    /\ k \notin Rights(etcd)
    /\ \A q \in Query : k \notin Rights(cache[n][q])
    /\ \A r \in Routine : k \notin Rights(got[n][r])

GoneOK ==
    /\ gone \in [Sites -> SUBSET Key]
    /\ \A n \in Node : Bound(n) => \A k \in gone[Site[n]] : Absent(n, k)

GoneInv == RolesInv /\ SeenInv /\ OldOK /\ GoneOK

\* Machines get what they hold from etcd, and what they cache from what they hold.
Moves ==
    /\ \A n \in Node, q \in Query :
           cache'[n][q] \in {Nothing, cache[n][q]} \/ \E r \in Routine : cache'[n][q] = got[n][r]
    /\ \A n \in Node, r \in Routine :
           got'[n][r] \in {Nothing, got[n][r]} \/ \E q \in Query : got'[n][r] = Answer(q)

LEMMA MovesFacts == TypeInv /\ [Next]_vars => Moves
<1> SUFFICES ASSUME TypeInv, [Next]_vars PROVE Moves
  OBVIOUS
<1> DEFINE Types == /\ cache \in [Node -> [Query -> Answers]]
                    /\ got \in [Node -> [Routine -> Answers]]
<1>0. Types
  BY DEF TypeInv, TypeOK
<1>1. CASE UNCHANGED <<cache, got>>
  BY <1>1 DEF Moves
<1>2. ASSUME NEW n \in Node, NEW r \in Routine, Get(n, r) PROVE Moves
  <2>1. qry[n][r] \in Query /\ cache' = cache
    BY <1>2 DEF Get, HandsOK, TypeInv
  <2>2. got' = [got EXCEPT ![n][r] = Answer(qry[n][r])] \/ got' = [got EXCEPT ![n][r] = Nothing]
    BY <1>2 DEF Get, Done
  <2>3. \A m \in Node, s \in Routine : got'[m][s] \in {Nothing, got[m][s], Answer(qry[n][r])}
    <3> DEFINE a == Answer(qry[n][r])
    <3>1. got' = [got EXCEPT ![n][r] = a] \/ got' = [got EXCEPT ![n][r] = Nothing]
      BY <2>2
    <3> HIDE DEF a
    <3>2. \A m \in Node, s \in Routine : got'[m][s] \in {Nothing, got[m][s], a}
      BY <1>0, <3>1
    <3> QED
      BY <3>2 DEF a
  <2> QED
    BY <2>1, <2>3 DEF Moves
<1>3. ASSUME NEW n \in Node, NEW r \in Routine, Set(n, r) PROVE Moves
  <2>1. /\ cache' = cache \/ cache' = [cache EXCEPT ![n][qry[n][r]] = got[n][r]]
        /\ got' = [got EXCEPT ![n][r] = Nothing]
    BY <1>3 DEF Set, Done
  <2>2. \A m \in Node, q \in Query :
            cache'[m][q] = cache[m][q] \/ (m = n /\ cache'[m][q] = got[n][r])
    BY <1>0, <2>1
  <2>3. \A m \in Node, s \in Routine : got'[m][s] \in {Nothing, got[m][s]}
    BY <1>0, <2>1
  <2> QED
    BY <2>2, <2>3 DEF Moves
<1>4. ASSUME NEW n \in Node, NEW r \in Routine, PutEtcd(n, r) PROVE Moves
  <2>1. cache' = cache /\ got' = [got EXCEPT ![n][r] = Nothing]
    BY <1>4 DEF PutEtcd, Done
  <2> QED
    BY <1>0, <2>1 DEF Moves
<1>5. ASSUME NEW n \in Node, NEW qs, Del(n, qs), UNCHANGED got PROVE Moves
  <2>1. cache' = [cache EXCEPT ![n] = [q \in Query |-> IF q \in qs THEN Nothing ELSE @[q]]]
    BY <1>5 DEF Del
  <2> QED
    BY <1>0, <1>5, <2>1 DEF Moves
<1>6. ASSUME NEW n \in Node, Restart(n) PROVE Moves
  <2>1. /\ cache' = [cache EXCEPT ![n] = [q \in Query |-> Nothing]]
        /\ got' = [got EXCEPT ![n] = [r \in Routine |-> Nothing]]
    BY <1>6 DEF Restart
  <2> QED
    BY <1>0, <2>1 DEF Moves
<1>7. ASSUME NEW n \in Node, NEW q \in Query, WatchStep(n, q) PROVE Moves
  <2>1. UNCHANGED <<cache, got>> \/ (Del(n, {q}) /\ UNCHANGED got)
    BY <1>7 DEF WatchStep, Watch, Invalidate
  <2> QED
    BY <1>1, <1>5, <2>1
<1>8. ASSUME NEW n \in Node, NEW r \in Routine, NEW k \in Key, PutLocal(n, r, k) PROVE Moves
  BY <1>5, <1>8 DEF PutLocal
<1>9. ASSUME NEW n \in Node, NEW r \in Routine, NEW q \in Query,
             CacheHit(n, r, q) \/ CacheMiss(n, r, q) \/ GetUncached(n, r, q)
      PROVE  Moves
  BY <1>1, <1>9 DEF CacheHit, CacheMiss, GetUncached
<1> QED
  BY <1>1, <1>2, <1>3, <1>4, <1>6, <1>7, <1>8, <1>9 DEF Next, RoutineStep, Finished, vars

\* What is true of nothing, of all that is cached or held, and of all that etcd
\* could answer, stays true of all that is cached or held.
LEMMA MovesKeep ==
    ASSUME Moves, NEW n \in Node, NEW OK, Nothing \in OK,
           \A q \in Query : cache[n][q] \in OK /\ Answer(q) \in OK,
           \A r \in Routine : got[n][r] \in OK
    PROVE  /\ \A q \in Query : cache'[n][q] \in OK
           /\ \A r \in Routine : got'[n][r] \in OK
BY DEF Moves

\* The number of writes grows, and a new one is in no answer of before: what is
\* cached and held stays old, and contains the rights it has contained.
LEMMA OldKeeps ==
    ASSUME GoneInv, TypeInv', Moves, writes \in Nat, writes' \in Nat, writes <= writes'
    PROVE  OldOK'
<1> DEFINE OK == {a \in Answers : Old(a)}
<1> USE DEF GoneInv, RolesInv, RequestInv, TypeInv, TypeOK
<1>1. Nothing \in OK
  BY DEF Nothing, Answers, Old
<1>2. ASSUME NEW n \in Node
      PROVE  /\ \A q \in Query : Old(cache'[n][q])
             /\ \A r \in Routine : Old(got'[n][r])
  <2>1. /\ \A q \in Query : cache[n][q] \in OK
        /\ \A r \in Routine : got[n][r] \in OK
    BY DEF OldOK
  <2>2. \A q \in Query : Answer(q) \in OK
    BY AnswerFacts, AnswerRights DEF Old
  <2> HIDE DEF OK
  <2>3. /\ \A q \in Query : cache'[n][q] \in OK
        /\ \A r \in Routine : got'[n][r] \in OK
    BY <1>1, <2>1, <2>2, MovesKeep
  <2> QED
    BY <2>3 DEF OK
<1>3. \A answer : Old(answer) => Old(answer)'
  BY DEF Old
<1> QED
  BY <1>2, <1>3 DEF OldOK, Old

\* A write adds no right to an answer of before.
LEMMA OldRights ==
    ASSUME NEW answer, Old(answer), \A x \in puts' \ puts : x > writes, writes \in Nat
    PROVE  \A k : k \in Rights(answer)' => k \in Rights(answer)
<1> SUFFICES ASSUME NEW k \in DOMAIN answer, answer[k] \in puts' PROVE answer[k] \in puts
  BY DEF Rights
<1> QED
  BY DEF Old

\* A step that writes nothing brings no right to a machine that etcd has not.
LEMMA QuietGone ==
    ASSUME GoneInv, Moves, UNCHANGED <<etcd, puts, gone>>
    PROVE  GoneOK'
<1> USE DEF GoneInv
<1> SUFFICES ASSUME NEW n \in Node, Bound(n), NEW k \in gone[Site[n]] PROVE Absent(n, k)'
  BY DEF GoneOK, Bound
<1>1. Absent(n, k)
  BY DEF GoneOK
<1>2. \A answer : Rights(answer)' = Rights(answer)
  BY DEF Rights
<1>3. \A q \in Query : k \notin Rights(Answer(q))
  BY <1>1, AnswerRights DEF Absent, RolesInv
<1>4. k \notin Rights(Nothing)
  BY DEF Rights, Nothing
<1>5. \A q \in Query : k \notin Rights(cache'[n][q])
  BY <1>1, <1>4 DEF Absent, Moves
<1>6. \A r \in Routine : k \notin Rights(got'[n][r])
  BY <1>1, <1>3, <1>4 DEF Absent, Moves
<1>7. k \notin Rights(etcd)'
  BY <1>1 DEF Absent, Rights
<1> QED
  BY <1>2, <1>5, <1>6, <1>7 DEF Absent, Rights

\* The right an edit has taken is cached nowhere at its machine, which dropped it
\* before, and no other machine of the FReD node serves the keygroup; to give a
\* right again is the only way it comes back.
LEMMA EditGone ==
    ASSUME OneAtATime, GoneInv, NEW n \in Node, NEW r \in Routine, EditEtcd(n, r), Moves,
           TypeInv'
    PROVE  GoneOK'
<1> USE DEF GoneInv, RolesInv
<1> DEFINE k == key[n][r]
<1>1. /\ k \in Key /\ writes \in Nat /\ writes' \in Nat
      /\ \A x \in puts' \ puts : x > writes
      /\ \A i \in Key \ {k} : i \in Rights(etcd)' <=> i \in Rights(etcd)
      /\ writes' = writes => Rights(etcd)' = Rights(etcd)
      /\ writes' # writes => (k \in Rights(etcd)' <=> Gives(n, r))
  BY WriteFacts
<1>2. /\ PutEtcd(n, r) /\ Done(n, r) /\ pc[n][r] = "put" /\ cache' = cache /\ Bound(n)
      /\ RequestInv
  BY DEF EditEtcd, PutEtcd, RequestInv, JobsOK, JobOK
<1>3. /\ pc'[n][r] = "idle" /\ got'[n][r] = Nothing
      /\ \A m \in Node, s \in Routine : m # n \/ s # r => got'[m][s] = got[m][s]
  <2>1. Elsewhere(n, r)
    BY <1>2, EditEtcdFacts
  <2>2. pc'[n][r] = "idle"
    BY <1>2, DoneFacts DEF RequestInv
  <2> QED
    BY <2>1, <2>2 DEF Elsewhere, TypeInv, TypeOK
<1>4. CASE writes' = writes /\ UNCHANGED gone
  <2>1. UNCHANGED <<etcd, puts>>
    BY <1>1, <1>2, <1>4 DEF EditEtcd, PutEtcd
  <2> QED
    BY <1>4, <2>1, QuietGone
<1>5. CASE /\ writes' > writes \/ (~Gives(n, r) /\ k \notin Rights(etcd))
           /\ Settle(n, r, k)
  <2>1. /\ gone \in [Sites -> SUBSET Key] /\ Site[n] \in Sites
        /\ gone' = IF Gives(n, r) THEN [s \in Sites |-> gone[s] \ {k}]
                   ELSE [gone EXCEPT ![Site[n]] = @ \cup {k}]
    BY <1>5 DEF Settle, GoneOK, Sites
  <2>2. gone' \in [Sites -> SUBSET Key]
    BY <1>1, <2>1
  <2>3. ~Gives(n, r) => k \notin Rights(etcd)'
    BY <1>1, <1>5
  <2>4. \A m \in Node : Site[m] \in Sites
    BY DEF Sites
  <2> HIDE DEF k
  <2> SUFFICES ASSUME NEW m \in Node, Bound(m), NEW i \in gone'[Site[m]] PROVE Absent(m, i)'
    BY <2>2 DEF GoneOK, Bound
  <2>5. CASE i # k
    <3>1. i \in gone[Site[m]] /\ i \in Key
      BY <2>1, <2>2, <2>4, <2>5
    <3>2. Absent(m, i)
      BY <3>1 DEF GoneOK
    <3>3. i \notin Rights(etcd)'
      BY <1>1, <2>5, <3>1, <3>2 DEF Absent, k
    <3>4. ASSUME NEW q \in Query PROVE i \notin Rights(cache[m][q])'
      <4>1. Old(cache[m][q]) /\ i \notin Rights(cache[m][q]) /\ cache'[m][q] = cache[m][q]
        BY <1>2, <3>2 DEF OldOK, Absent
      <4> QED
        BY <1>1, <4>1, OldRights DEF Rights
    <3>5. ASSUME NEW s \in Routine PROVE i \notin Rights(got[m][s])'
      <4>1. got'[m][s] = got[m][s] \/ got'[m][s] = Nothing
        BY <1>3
      <4>2. Old(got[m][s]) /\ i \notin Rights(got[m][s])
        BY <3>2 DEF OldOK, Absent
      <4>3. \A j : j \in Rights(got[m][s])' => got'[m][s] = Nothing \/ j \in Rights(got[m][s])
        BY <1>1, <4>1, <4>2 DEF Rights, Old
      <4>4. got'[m][s] = Nothing => i \notin Rights(got[m][s])'
        BY DEF Rights, Nothing
      <4> QED
        BY <4>2, <4>3, <4>4
    <3> QED
      BY <3>3, <3>4, <3>5 DEF Absent
  <2>6. CASE i = k
    <3>1. ~Gives(n, r)
      BY <2>1, <2>4, <2>6
    <3>2. CASE Site[m] = Site[n]
      <4>1. m = n
        BY <1>2, <3>2, OneBound
      <4>2. ASSUME NEW q \in Query PROVE k \notin Rights(cache[m][q])'
        <5>1. k \in q => cache'[n][q] = Nothing
          BY <1>2 DEF SeenInv, NodeOK, AnswerOK, Cached, k
        <5>2. cache'[n][q] = Nothing \/ DOMAIN cache'[n][q] = q
          BY <1>2 DEF SeenInv, TypeInv, TypeOK
        <5> QED
          BY <4>1, <5>1, <5>2 DEF Rights, Nothing
      <4>3. ASSUME NEW s \in Routine PROVE k \notin Rights(got[m][s])'
        <5>1. got'[m][s] = Nothing
          BY <1>3, <4>1 DEF OneAtATime
        <5> QED
          BY <5>1 DEF Rights, Nothing
      <4> QED
        BY <2>3, <2>6, <3>1, <4>2, <4>3 DEF Absent
    <3>3. CASE Site[m] # Site[n]
      <4>1. k \in gone[Site[m]]
        BY <2>1, <2>4, <2>6, <3>1, <3>3
      <4>2. Absent(m, k)
        BY <4>1 DEF GoneOK
      <4>3. ASSUME NEW q \in Query PROVE k \notin Rights(cache[m][q])'
        <5>1. Old(cache[m][q]) /\ k \notin Rights(cache[m][q]) /\ cache'[m][q] = cache[m][q]
          BY <1>2, <4>2 DEF OldOK, Absent
        <5> QED
          BY <1>1, <5>1, OldRights DEF Rights
      <4>4. ASSUME NEW s \in Routine PROVE k \notin Rights(got[m][s])'
        <5>1. got'[m][s] = got[m][s]
          BY <1>3, <3>3
        <5>2. Old(got[m][s]) /\ k \notin Rights(got[m][s])
          BY <4>2 DEF OldOK, Absent
        <5> QED
          BY <1>1, <5>1, <5>2, OldRights DEF Rights
      <4> QED
        BY <2>3, <2>6, <3>1, <4>3, <4>4 DEF Absent
    <3> QED
      BY <3>2, <3>3
  <2> QED
    BY <2>5, <2>6
<1> QED
  BY <1>4, <1>5 DEF EditEtcd

\* Only an edit writes, gives or takes.
LEMMA NextGone ==
    ASSUME OneAtATime, GoneInv, [AccessNext]_allVars
    PROVE  GoneInv'
<1> USE DEF GoneInv
<1>1. RequestInv /\ TypeInv /\ NumbersOK
  BY DEF RolesInv, RequestInv
<1>2. RolesInv' /\ SeenInv' /\ [Next]_vars
  BY <1>1, NextRoles, NextRequest, NextSeen
<1>3. TypeInv' /\ Moves
  BY <1>1, <1>2, MovesFacts DEF SeenInv
<1>4. writes \in Nat /\ writes' \in Nat /\ writes <= writes'
  <2>1. writes \in Nat /\ writes' \in Nat
    BY <1>1, <1>3, NaSeCacheAssumption DEF TypeInv, TypeOK
  <2>2. writes' = writes \/ writes' = writes + 1
    BY <1>2 DEF Next, RoutineStep, WatchStep, Get, Set, PutEtcd, CacheHit, CacheMiss, GetUncached,
                PutLocal, Watch, Invalidate, Restart, Finished, vars
  <2> QED
    BY <2>1, <2>2
<1>5. OldOK'
  BY <1>3, <1>4, OldKeeps
<1>6. \/ \E n \in Node, r \in Routine : EditEtcd(n, r)
      \/ UNCHANGED <<etcd, puts, gone>>
  <2>1. ASSUME NEW n \in Node, NEW r \in Routine, RequestStep(n, r), ~EditEtcd(n, r)
        PROVE  UNCHANGED <<etcd, puts, gone>>
    BY <2>1 DEF RequestStep, IsAllowedCached, CacheHit, IsAllowedAsks, CacheMiss, IsAllowedGet, Get,
                IsAllowedAnswer, Set, IsAllowedUncached, GetUncached, Operate, EditLocal, PutLocal,
                EditDone, vars, accessVars
  <2>2. ASSUME NEW c, NEW p, NEW n, NEW r, NEW u,
               Receive(c, p, n, r, u) \/ ReceivePeer(c, p, n, r) \/ CreateKeygroup(p, n, r, u)
        PROVE  UNCHANGED <<etcd, puts, gone>>
    BY <2>2 DEF Receive, ReceivePeer, Serve, CreateKeygroup, vars
  <2>3. ASSUME NEW n, NEW q, WatchStep(n, q), UNCHANGED accessVars
        PROVE  UNCHANGED <<etcd, puts, gone>>
    BY <2>3 DEF WatchStep, Watch, Invalidate, accessVars
  <2>4. ASSUME NEW n, Crash(n) PROVE UNCHANGED <<etcd, puts, gone>>
    BY <2>4 DEF Crash, Restart
  <2>5. UNCHANGED allVars => UNCHANGED <<etcd, puts, gone>>
    BY DEF allVars, vars, accessVars
  <2> QED
    BY <2>1, <2>2, <2>3, <2>4, <2>5 DEF AccessNext, AllServed
<1>7. GoneOK'
  BY <1>3, <1>6, EditGone, QuietGone
<1> QED
  BY <1>2, <1>5, <1>7

LEMMA InitGone == AccessInit => GoneInv
<1> SUFFICES ASSUME AccessInit PROVE GoneInv
  OBVIOUS
<1>1. RolesInv /\ SeenInv
  BY InitRoles, InitSeen DEF AccessInit
<1>2. GoneOK
  BY DEF AccessInit, GoneOK, Sites
<1>3. OldOK
  <2>1. writes = 0 /\ \A n \in Node, r \in Routine : got[n][r] = Nothing
    BY DEF AccessInit, Init
  <2>2. \A n \in Node, q \in Query : cache[n][q] \in {Nothing, [k \in q |-> 0]}
    BY DEF AccessInit, Init
  <2> QED
    BY <2>1, <2>2 DEF OldOK, Old, Nothing
<1> QED
  BY <1>1, <1>2, <1>3 DEF GoneInv

\* Once a FReD node has taken a right, none of its machines admits a call for it until
\* the right is given again, provided the goroutines of a machine use the name
\* service one at a time: AddUserPermissions and RevokeUserPermissions drop what
\* the machine has cached of the user before they write, nothing comes back
\* into the cache that etcd has not, and the proxies send the checks and the
\* edits of the keygroup to one machine.
THEOREM SiteForgetsTaken ==
    ASSUME OneAtATime
    PROVE  AccessSpec => TakenStaysTaken
<1> DEFINE Missing(n, r) == Needed(n, r) \notin gone[Site[n]]
<1>1. ASSUME GoneInv, [AccessNext]_allVars, NEW n \in Node, NEW r \in Routine, Admitted(n, r)
      PROVE  Missing(n, r)
  <2> USE DEF GoneInv, RolesInv
  <2> DEFINE q == Prefix(job[n][r].by)
  <2>1. /\ q \in Query /\ Bound(n)
        /\ \/ Needed(n, r) \in Rights(cache[n][q])
           \/ Needed(n, r) \in Rights(got[n][r])
           \/ Needed(n, r) \in Rights(Answer(q))
    BY <1>1, AdmittedHow
  <2> HIDE DEF q
  <2> SUFFICES ASSUME Needed(n, r) \in gone[Site[n]] PROVE FALSE
    OBVIOUS
  <2>2. Absent(n, Needed(n, r))
    BY <1>1, <2>1 DEF GoneOK
  <2>3. Rights(Answer(q)) \subseteq Rights(etcd)
    BY <1>1, <2>1, AnswerRights
  <2> QED
    BY <2>1, <2>2, <2>3 DEF Absent
<1>2. GoneInv /\ [AccessNext]_allVars =>
          [\A n \in Node, r \in Routine : Admitted(n, r) => Missing(n, r)]_allVars
  BY <1>1
<1>3. AccessSpec => []GoneInv
  BY InitGone, NextGone, PTL DEF AccessSpec
<1> QED
  BY <1>2, <1>3, PTL DEF AccessSpec, TakenStaysTaken

============================================================================
