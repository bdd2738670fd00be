----------------------------- MODULE NaSeCache -----------------------------
(***************************************************************************)
(* The cache a FReD node may keep of its name service (--nase-cached,      *)
(* pkg/etcdnase/helper.go).  A query (an exact key, or all keys under a    *)
(* prefix) that misses the cache is answered by etcd, the answer is put    *)
(* into the cache, and a goroutine is started that asks etcd to be told of *)
(* the next change and then removes the entry.  Between the answer and the *)
(* registration of that watch the entry is unprotected.                    *)
(*                                                                         *)
(* Every write in etcd has a number of its own, and the number is the      *)
(* value.  A query is the set of the keys it covers: one key, or the keys  *)
(* under one prefix.                                                       *)
(***************************************************************************)
EXTENDS Integers, FiniteSets

CONSTANTS
    Node,       \* the FReD nodes; each has its own cache
    Caching,    \* the nodes that were started with a cache
    Routine,    \* the goroutines of one node that use the name service
    Key,        \* the keys in etcd
    Query,      \* the queries: sets of keys
    NoKey,      \* "no key"
    MaxWrites,  \* bound: writes in one behaviour
    MaxWatches  \* bound: watches of one node on one query.  The code has none:
                \* a watch stays until the next change, whatever becomes of
                \* the entry it was started for

ASSUME NaSeCacheAssumption ==
    /\ Caching \subseteq Node
    /\ NoKey \notin Key
    /\ Query \subseteq (SUBSET Key) \ {{}}
    /\ MaxWrites \in Nat
    /\ MaxWatches \in Nat

VARIABLES
    etcd,       \* etcd[k]: the last write to k
    cache,      \* cache[n][q]: the answer n has cached; Nothing if none
    pc,         \* pc[n][r]: what the goroutine does next
    qry,        \* qry[n][r]: its query; {} if none
    key,        \* key[n][r]: the key it writes; NoKey if none
    got,        \* got[n][r]: the answer of etcd it has in its hands
    starting,   \* starting[n][q]: watches started, not yet registered
    watching,   \* watching[n][q]: watches registered at etcd
    fired,      \* fired[n][q]: watches that have been told of a change
    writes,     \* history: the number of writes so far
    seen,       \* history: seen[n][q][k], the last write of k n has learnt of
                \* through q, or has done itself
    hit         \* history: hit[n], queries changed in etcd while n had an
                \* answer to them that no registered watch protects

vars == <<etcd, cache, pc, qry, key, got, starting, watching, fired, writes, seen, hit>>

Nothing == [k \in {} |-> 0]

Answers == (UNION {[q -> 0..MaxWrites] : q \in Query}) \cup {Nothing}

TypeOK ==
    /\ etcd \in [Key -> 0..MaxWrites]
    /\ cache \in [Node -> [Query -> Answers]]
    /\ \A n \in Node, q \in Query : cache[n][q] = Nothing \/ DOMAIN cache[n][q] = q
    /\ pc \in [Node -> [Routine -> {"idle", "get", "set", "put"}]]
    /\ qry \in [Node -> [Routine -> Query \cup {{}}]]
    /\ key \in [Node -> [Routine -> Key \cup {NoKey}]]
    /\ got \in [Node -> [Routine -> Answers]]
    /\ \A n \in Node, r \in Routine : pc[n][r] = "idle" => got[n][r] = Nothing
    /\ starting \in [Node -> [Query -> Nat]]
    /\ watching \in [Node -> [Query -> Nat]]
    /\ fired \in [Node -> [Query -> Nat]]
    /\ writes \in 0..MaxWrites
    /\ hit \in [Node -> SUBSET Query]

\* The nodes run, and the answers to some queries, warm[n], are cached and
\* watched.  That is where the steps below lead from empty caches without a write.
Init ==
    /\ etcd = [k \in Key |-> 0]
    /\ \E warm \in [Caching -> SUBSET Query] :
          /\ cache = [n \in Node |-> [q \in Query |->
                         IF n \in Caching /\ q \in warm[n] THEN [k \in q |-> 0] ELSE Nothing]]
          /\ watching = [n \in Node |-> [q \in Query |->
                         IF n \in Caching /\ q \in warm[n] THEN 1 ELSE 0]]
    /\ pc = [n \in Node |-> [r \in Routine |-> "idle"]]
    /\ qry = [n \in Node |-> [r \in Routine |-> {}]]
    /\ key = [n \in Node |-> [r \in Routine |-> NoKey]]
    /\ got = [n \in Node |-> [r \in Routine |-> Nothing]]
    /\ starting = [n \in Node |-> [q \in Query |-> 0]]
    /\ fired = [n \in Node |-> [q \in Query |-> 0]]
    /\ writes = 0
    /\ seen = [n \in Node |-> [q \in Query |-> [k \in q |-> 0]]]
    /\ hit = [n \in Node |-> {}]

----------------------------------------------------------------------------
(* Helpers *)

\* What etcd answers to q now.
Answer(q) == [k \in q |-> etcd[k]]

Cached(n, q) == cache[n][q] # Nothing

\* The entries of n for the queries qs are removed from its cache; an answer on
\* its way into the cache may still be an old one.
Del(n, qs) ==
    /\ cache' = [cache EXCEPT ![n] = [q \in Query |-> IF q \in qs THEN Nothing ELSE @[q]]]
    /\ hit' = [hit EXCEPT ![n] = {q \in @ : \/ q \notin qs
                                            \/ \E r \in Routine : /\ pc[n][r] = "set"
                                                                  /\ qry[n][r] = q
                                                                  /\ got[n][r] # Answer(q)}]

\* The goroutine returns; v is what it has learnt about q.
Learn(n, q, v) == seen' = [seen EXCEPT ![n][q] = v]

\* Faulty variant: the answer is kept.
DoneKeeping(n, r) ==
    /\ pc' = [pc EXCEPT ![n][r] = "idle"]
    /\ qry' = [qry EXCEPT ![n][r] = {}]
    /\ key' = [key EXCEPT ![n][r] = NoKey]
    /\ UNCHANGED got

Done(n, r) ==
    /\ pc' = [pc EXCEPT ![n][r] = "idle"]
    /\ qry' = [qry EXCEPT ![n][r] = {}]
    /\ key' = [key EXCEPT ![n][r] = NoKey]
    /\ got' = [got EXCEPT ![n][r] = Nothing]

----------------------------------------------------------------------------
(* getExact and getPrefix *)

CacheHit(n, r, q) ==
    /\ pc[n][r] = "idle" /\ Cached(n, q)
    /\ Learn(n, q, cache[n][q])
    /\ UNCHANGED <<etcd, cache, pc, qry, key, got, starting, watching, fired, writes, hit>>

\* Without a cache etcd is asked every time; the request may fail.
GetUncached(n, r, q) ==
    /\ pc[n][r] = "idle" /\ n \notin Caching
    /\ Learn(n, q, Answer(q)) \/ UNCHANGED seen
    /\ UNCHANGED <<etcd, cache, pc, qry, key, got, starting, watching, fired, writes, hit>>

\* The watches of n on q, those included that open queries will start.
Watches(n, q) ==
    starting[n][q] + watching[n][q] + fired[n][q]
        + Cardinality({r \in Routine : qry[n][r] = q})

CacheMiss(n, r, q) ==
    /\ pc[n][r] = "idle" /\ n \in Caching /\ ~Cached(n, q)
    /\ Watches(n, q) < MaxWatches
    /\ pc' = [pc EXCEPT ![n][r] = "get"]
    /\ qry' = [qry EXCEPT ![n][r] = q]
    /\ UNCHANGED <<etcd, cache, key, got, starting, watching, fired, writes, seen, hit>>

\* etcd answers, or the request fails after its timeout.
Get(n, r) ==
    /\ pc[n][r] = "get"
    /\ \/ /\ got' = [got EXCEPT ![n][r] = Answer(qry[n][r])]
          /\ pc' = [pc EXCEPT ![n][r] = "set"]
          /\ UNCHANGED <<qry, key>>
       \/ Done(n, r)
    /\ UNCHANGED <<etcd, cache, starting, watching, fired, writes, seen, hit>>

\* Faulty variant: the entry is stored and nobody watches it.
SetUnwatched(n, r) ==
    /\ pc[n][r] = "set"
    /\ cache' = [cache EXCEPT ![n][qry[n][r]] = got[n][r]]
    /\ Learn(n, qry[n][r], got[n][r])
    /\ Done(n, r)
    /\ UNCHANGED <<etcd, starting, watching, fired, writes, hit>>

\* The answer goes into the cache, unless the cache refuses it, and the watch
\* is started either way.
Set(n, r) ==
    /\ pc[n][r] = "set"
    /\ \/ cache' = [cache EXCEPT ![n][qry[n][r]] = got[n][r]]
       \/ UNCHANGED cache
    /\ starting' = [starting EXCEPT ![n][qry[n][r]] = @ + 1]
    /\ Learn(n, qry[n][r], got[n][r])
    /\ Done(n, r)
    /\ UNCHANGED <<etcd, watching, fired, writes, hit>>

\* The goroutine's watch reaches etcd: it will be told of the next change.
Watch(n, q) ==
    /\ starting[n][q] > 0
    /\ starting' = [starting EXCEPT ![n][q] = @ - 1]
    /\ watching' = [watching EXCEPT ![n][q] = @ + 1]
    /\ UNCHANGED <<etcd, cache, pc, qry, key, got, fired, writes, seen, hit>>

\* Faulty variant: the event is consumed and the entry stays.
InvalidateNothing(n, q) ==
    /\ fired[n][q] > 0
    /\ fired' = [fired EXCEPT ![n][q] = @ - 1]
    /\ UNCHANGED <<etcd, cache, pc, qry, key, got, starting, watching, writes, seen, hit>>

\* The watch delivers a change: the entry is removed, the goroutine ends.
Invalidate(n, q) ==
    /\ fired[n][q] > 0
    /\ fired' = [fired EXCEPT ![n][q] = @ - 1]
    /\ Del(n, {q})
    /\ UNCHANGED <<etcd, pc, qry, key, got, starting, watching, writes, seen>>

----------------------------------------------------------------------------
(* put and delete *)

\* Faulty variant: the node's entry for the prefix stays.
PutLocalExact(n, r, k) ==
    /\ pc[n][r] = "idle" /\ writes < MaxWrites
    /\ Del(n, {{k}})
    /\ pc' = [pc EXCEPT ![n][r] = "put"]
    /\ key' = [key EXCEPT ![n][r] = k]
    /\ UNCHANGED <<etcd, qry, got, starting, watching, fired, writes, seen>>

\* First the node's own entries for the key and its prefix are removed ...
PutLocal(n, r, k) ==
    /\ pc[n][r] = "idle" /\ writes < MaxWrites
    /\ Del(n, {q \in Query : k \in q})
    /\ pc' = [pc EXCEPT ![n][r] = "put"]
    /\ key' = [key EXCEPT ![n][r] = k]
    /\ UNCHANGED <<etcd, qry, got, starting, watching, fired, writes, seen>>

\* ... then etcd is changed, and tells everybody who watches; or the request
\* fails.
PutEtcd(n, r) ==
    LET k       == key[n][r]
        changed == {q \in Query : k \in q}
        open(m) == {q \in changed : \/ starting[m][q] > 0
                                    \/ \E s \in Routine : pc[m][s] = "set" /\ qry[m][s] = q}
    IN  /\ pc[n][r] = "put"
        /\ \/ /\ writes < MaxWrites
              /\ writes' = writes + 1
              /\ etcd' = [etcd EXCEPT ![k] = writes + 1]
              /\ fired' = [m \in Node |-> [q \in Query |->
                             IF q \in changed THEN fired[m][q] + watching[m][q] ELSE fired[m][q]]]
              /\ watching' = [m \in Node |-> [q \in Query |->
                             IF q \in changed THEN 0 ELSE watching[m][q]]]
              /\ hit' = [m \in Node |-> hit[m] \cup open(m)]
              /\ seen' = [seen EXCEPT ![n] = [q \in Query |->
                             IF q \in changed THEN [@[q] EXCEPT ![k] = writes + 1] ELSE @[q]]]
           \/ UNCHANGED <<writes, etcd, fired, watching, hit, seen>>
        /\ Done(n, r)
        /\ UNCHANGED <<cache, starting>>

----------------------------------------------------------------------------
\* The process of n stops and is started again: goroutines, cache and watches
\* are gone.
Restart(n) ==
    /\ cache' = [cache EXCEPT ![n] = [q \in Query |-> Nothing]]
    /\ pc' = [pc EXCEPT ![n] = [r \in Routine |-> "idle"]]
    /\ qry' = [qry EXCEPT ![n] = [r \in Routine |-> {}]]
    /\ key' = [key EXCEPT ![n] = [r \in Routine |-> NoKey]]
    /\ got' = [got EXCEPT ![n] = [r \in Routine |-> Nothing]]
    /\ starting' = [starting EXCEPT ![n] = [q \in Query |-> 0]]
    /\ watching' = [watching EXCEPT ![n] = [q \in Query |-> 0]]
    /\ fired' = [fired EXCEPT ![n] = [q \in Query |-> 0]]
    /\ hit' = [hit EXCEPT ![n] = {}]
    /\ UNCHANGED <<etcd, writes, seen>>

----------------------------------------------------------------------------
RoutineStep(n, r) == Get(n, r) \/ Set(n, r) \/ PutEtcd(n, r)

WatchStep(n, q) == Watch(n, q) \/ Invalidate(n, q)

\* The bounds are used up: the behaviour may end here.
Finished ==
    /\ writes = MaxWrites /\ \A n \in Node, r \in Routine : pc[n][r] = "idle"
    /\ UNCHANGED vars

Next ==
    \/ \E n \in Node, r \in Routine : RoutineStep(n, r)
    \/ \E n \in Node, r \in Routine, q \in Query :
          CacheHit(n, r, q) \/ CacheMiss(n, r, q) \/ GetUncached(n, r, q)
    \/ \E n \in Node, r \in Routine, k \in Key : PutLocal(n, r, k)
    \/ \E n \in Node, q \in Query : WatchStep(n, q)
    \/ \E n \in Node : Restart(n)
    \/ Finished

Spec == Init /\ [][Next]_vars

\* A goroutine that has started goes on (requests to etcd have a timeout), a
\* watch is registered at some time, and etcd delivers what it has promised.
\* Nobody has to start anything.
Fairness ==
    /\ \A n \in Node, r \in Routine : WF_vars(RoutineStep(n, r))
    /\ \A n \in Caching, q \in Query : WF_vars(Watch(n, q)) /\ WF_vars(Invalidate(n, q))

FairSpec == Spec /\ Fairness

----------------------------------------------------------------------------
(* Properties *)

Stale(n, q) == Cached(n, q) /\ cache[n][q] # Answer(q)

\* A node never unlearns what a query told it or what it wrote itself: after
\* its own put, its queries return that write or a later one.
ReadsGoForward ==
    [][\A n \in Node, q \in Query : \A k \in q : seen'[n][q][k] >= seen[n][q][k]]_vars

\* An entry that differs from etcd is about to be removed, unless etcd changed
\* in the gap between its answer and the registration of the watch.
StaleIsExplained ==
    \A n \in Node, q \in Query : Stale(n, q) => fired[n][q] > 0 \/ q \in hit[n]

\* Outside that gap a stale entry goes away.
StaleIsDropped ==
    \A n \in Caching, q \in Query : Stale(n, q) ~> (~Stale(n, q) \/ q \in hit[n])

============================================================================
