-------------------------- MODULE NaSeCacheProofs --------------------------
(***************************************************************************)
(* Proofs about NaSeCache, for any number of nodes, goroutines, keys,      *)
(* writes and watches: type correctness, and that a stale entry of the     *)
(* cache is about to be removed unless etcd changed in the gap between its *)
(* answer and the registration of the watch.                               *)
(***************************************************************************)
EXTENDS NaSeCache, TLAPS

----------------------------------------------------------------------------
(* Type correctness *)

Answering(q) == [q -> 0..MaxWrites]

\* What a goroutine has in its hands in each place.
HandsOK ==
    \A n \in Node, r \in Routine :
        /\ pc[n][r] \in {"get", "set"} => qry[n][r] \in Query
        /\ pc[n][r] = "set" => got[n][r] \in Answering(qry[n][r])
        /\ pc[n][r] = "put" => key[n][r] \in Key

\* The part of TypeOK and HandsOK each variable is responsible for.
CacheType ==
    /\ cache \in [Node -> [Query -> Answers]]
    /\ \A n \in Node, q \in Query : cache[n][q] = Nothing \/ DOMAIN cache[n][q] = q

TypeInv == TypeOK /\ HandsOK

LEMMA AnswerFacts ==
    ASSUME NEW q \in Query
    PROVE  /\ Answering(q) \subseteq Answers /\ q \subseteq Key /\ {} \in Query \cup {{}}
           /\ \A f \in Answering(q) : DOMAIN f = q
           /\ etcd \in [Key -> 0..MaxWrites] => Answer(q) \in Answering(q)
           /\ Nothing \in Answers
BY NaSeCacheAssumption DEF Answering, Answers, Answer

\* What is cached at the start is current, and watched.
LEMMA InitFacts ==
    ASSUME Init, \A q \in Query : [k \in q |-> 0] \in Answers, Nothing \in Answers
    PROVE  /\ cache \in [Node -> [Query -> Answers]]
           /\ \A n \in Node, q \in Query : cache[n][q] \in {Nothing, [k \in q |-> 0]}
           /\ watching \in [Node -> [Query -> Nat]]
           /\ \A n \in Node, q \in Query : cache[n][q] # Nothing => watching[n][q] > 0
<1>1. PICK warm \in [Caching -> SUBSET Query] :
          /\ cache = [n \in Node |-> [q \in Query |->
                         IF n \in Caching /\ q \in warm[n] THEN [k \in q |-> 0] ELSE Nothing]]
          /\ watching = [n \in Node |-> [q \in Query |->
                         IF n \in Caching /\ q \in warm[n] THEN 1 ELSE 0]]
  BY DEF Init
<1>2. \A n \in Node, q \in Query :
          cache[n][q] = IF n \in Caching /\ q \in warm[n] THEN [k \in q |-> 0] ELSE Nothing
  BY <1>1
<1>3. \A n \in Node, q \in Query :
          watching[n][q] = IF n \in Caching /\ q \in warm[n] THEN 1 ELSE 0
  BY <1>1
<1>4. cache \in [Node -> [Query -> Answers]]
  BY <1>1
<1>5. watching \in [Node -> [Query -> Nat]]
  BY <1>1
<1>6. ASSUME NEW n \in Node, NEW q \in Query PROVE cache[n][q] \in {Nothing, [k \in q |-> 0]}
  <2>1. CASE n \in Caching /\ q \in warm[n]
    BY <1>2, <2>1
  <2>2. CASE ~(n \in Caching /\ q \in warm[n])
    BY <1>2, <2>2
  <2> QED
    BY <2>1, <2>2
<1>7. ASSUME NEW n \in Node, NEW q \in Query, cache[n][q] # Nothing PROVE watching[n][q] > 0
  <2>1. n \in Caching /\ q \in warm[n]
    BY <1>2, <1>7
  <2>2. watching[n][q] = 1
    BY <1>3, <2>1
  <2> QED
    BY <2>2
<1> QED
  BY <1>4, <1>5, <1>6, <1>7

LEMMA InitTypeInv == Init => TypeInv
<1> SUFFICES ASSUME Init PROVE TypeInv
  OBVIOUS
<1>1. /\ Nothing \in Answers /\ 0 \in 0..MaxWrites
      /\ \A q \in Query : [k \in q |-> 0] \in Answers
  BY NaSeCacheAssumption DEF Answers
<1>2. /\ cache \in [Node -> [Query -> Answers]]
      /\ \A n \in Node, q \in Query : cache[n][q] \in {Nothing, [k \in q |-> 0]}
      /\ watching \in [Node -> [Query -> Nat]]
  BY InitFacts, <1>1
<1>3. \A n \in Node, q \in Query : cache[n][q] = Nothing \/ DOMAIN cache[n][q] = q
  BY <1>2
<1>4. /\ etcd \in [Key -> 0..MaxWrites]
      /\ pc \in [Node -> [Routine -> {"idle", "get", "set", "put"}]]
      /\ qry \in [Node -> [Routine -> Query \cup {{}}]]
      /\ key \in [Node -> [Routine -> Key \cup {NoKey}]]
      /\ got \in [Node -> [Routine -> Answers]]
      /\ \A n \in Node, r \in Routine : pc[n][r] = "idle" => got[n][r] = Nothing
  BY <1>1 DEF Init
<1>5. /\ starting \in [Node -> [Query -> Nat]] /\ fired \in [Node -> [Query -> Nat]]
      /\ writes \in 0..MaxWrites /\ hit \in [Node -> SUBSET Query]
  BY <1>1 DEF Init
<1>6. TypeOK
  BY <1>2, <1>3, <1>4, <1>5 DEF TypeOK
<1>7. HandsOK
  BY DEF Init, HandsOK
<1> QED
  BY <1>6, <1>7 DEF TypeInv

\* What Done leaves of the goroutine.
LEMMA DoneFacts ==
    ASSUME TypeInv, NEW n \in Node, NEW r \in Routine, Done(n, r)
    PROVE  /\ pc' \in [Node -> [Routine -> {"idle", "get", "set", "put"}]]
           /\ qry' \in [Node -> [Routine -> Query \cup {{}}]]
           /\ key' \in [Node -> [Routine -> Key \cup {NoKey}]]
           /\ got' \in [Node -> [Routine -> Answers]]
           /\ \A m \in Node, s \in Routine : pc'[m][s] = "idle" => got'[m][s] = Nothing
           /\ pc'[n][r] = "idle"
           /\ \A m \in Node, s \in Routine : m # n \/ s # r =>
                  /\ pc'[m][s] = pc[m][s] /\ qry'[m][s] = qry[m][s]
                  /\ key'[m][s] = key[m][s] /\ got'[m][s] = got[m][s]
           /\ HandsOK'
<1> USE DEF TypeInv, TypeOK, Done
<1>1. /\ pc' \in [Node -> [Routine -> {"idle", "get", "set", "put"}]]
      /\ qry' \in [Node -> [Routine -> Query \cup {{}}]]
      /\ key' \in [Node -> [Routine -> Key \cup {NoKey}]]
  OBVIOUS
<1>2. Nothing \in Answers
  BY DEF Answers
<1>3. got' \in [Node -> [Routine -> Answers]]
  BY <1>2
<1>4. pc'[n][r] = "idle" /\ got'[n][r] = Nothing
  OBVIOUS
<1>5. \A m \in Node, s \in Routine : m # n \/ s # r =>
                  /\ pc'[m][s] = pc[m][s] /\ qry'[m][s] = qry[m][s]
                  /\ key'[m][s] = key[m][s] /\ got'[m][s] = got[m][s]
  OBVIOUS
<1> HIDE DEF Done
<1>6. ASSUME NEW m \in Node, NEW s \in Routine, pc'[m][s] = "idle" PROVE got'[m][s] = Nothing
  <2>1. CASE m = n /\ s = r
    BY <1>4, <2>1
  <2>2. CASE m # n \/ s # r
    BY <1>5, <1>6, <2>2
  <2> QED
    BY <2>1, <2>2
<1>7. HandsOK'
  <2> SUFFICES ASSUME NEW m \in Node, NEW s \in Routine
               PROVE  /\ pc'[m][s] \in {"get", "set"} => qry'[m][s] \in Query
                      /\ pc'[m][s] = "set" => got'[m][s] \in Answering(qry'[m][s])
                      /\ pc'[m][s] = "put" => key'[m][s] \in Key
    BY DEF HandsOK, Answering
  <2>1. CASE m = n /\ s = r
    BY <1>4, <2>1
  <2>2. CASE m # n \/ s # r
    BY <1>5, <2>2 DEF HandsOK
  <2> QED
    BY <2>1, <2>2
<1> QED
  BY <1>1, <1>3, <1>4, <1>5, <1>6, <1>7

LEMMA DelFacts ==
    ASSUME TypeInv, NEW n \in Node, NEW qs \in SUBSET Query, Del(n, qs)
    PROVE  /\ CacheType'
           /\ hit' \in [Node -> SUBSET Query]
           /\ \A q \in qs : cache'[n][q] = Nothing
           /\ \A q \in qs : q \in hit[n] /\ q \notin hit'[n] =>
                  \A r \in Routine : pc[n][r] = "set" /\ qry[n][r] = q => got[n][r] = Answer(q)
           /\ \A m \in Node, q \in Query : m # n \/ q \notin qs =>
                  /\ cache'[m][q] = cache[m][q]
                  /\ q \in hit[m] <=> q \in hit'[m]
           /\ hit'[n] \subseteq hit[n]
<1> USE DEF TypeInv, TypeOK, Del
<1>1. Nothing \in Answers
  BY DEF Answers
<1>2. cache' \in [Node -> [Query -> Answers]]
  BY <1>1
<1>3. /\ \A q \in qs : cache'[n][q] = Nothing
      /\ \A m \in Node, q \in Query : m # n \/ q \notin qs => cache'[m][q] = cache[m][q]
  OBVIOUS
<1>4. CacheType'
  BY <1>2, <1>3 DEF CacheType
<1>5. hit' \in [Node -> SUBSET Query]
  OBVIOUS
<1>6. /\ \A q \in qs : q \in hit[n] /\ q \notin hit'[n] =>
                  \A r \in Routine : pc[n][r] = "set" /\ qry[n][r] = q => got[n][r] = Answer(q)
      /\ \A m \in Node, q \in Query : m # n \/ q \notin qs => (q \in hit[m] <=> q \in hit'[m])
      /\ hit'[n] \subseteq hit[n]
  OBVIOUS
<1> QED
  BY <1>3, <1>4, <1>5, <1>6

LEMMA MissType ==
    ASSUME TypeInv, NEW n \in Node, NEW r \in Routine, NEW q \in Query, CacheMiss(n, r, q)
    PROVE  TypeInv'
<1> USE DEF TypeInv
<1>1. /\ pc' \in [Node -> [Routine -> {"idle", "get", "set", "put"}]]
      /\ qry' \in [Node -> [Routine -> Query \cup {{}}]]
      /\ pc'[n][r] = "get" /\ qry'[n][r] = q
      /\ \A m \in Node, s \in Routine : m # n \/ s # r =>
             pc'[m][s] = pc[m][s] /\ qry'[m][s] = qry[m][s]
  BY DEF CacheMiss, TypeOK
<1>2. UNCHANGED <<etcd, cache, key, got, starting, watching, fired, writes, hit>>
  BY DEF CacheMiss
<1>3. TypeOK'
  BY <1>1, <1>2 DEF TypeOK
<1>4. HandsOK'
  <2> SUFFICES ASSUME NEW m \in Node, NEW s \in Routine
               PROVE  /\ pc'[m][s] \in {"get", "set"} => qry'[m][s] \in Query
                      /\ pc'[m][s] = "set" => got'[m][s] \in Answering(qry'[m][s])
                      /\ pc'[m][s] = "put" => key'[m][s] \in Key
    BY DEF HandsOK, Answering
  <2>1. CASE m = n /\ s = r
    BY <1>1, <2>1
  <2>2. CASE m # n \/ s # r
    BY <1>1, <1>2, <2>2 DEF HandsOK
  <2> QED
    BY <2>1, <2>2
<1> QED
  BY <1>3, <1>4

LEMMA GetType ==
    ASSUME TypeInv, NEW n \in Node, NEW r \in Routine, Get(n, r)
    PROVE  TypeInv'
<1> USE DEF TypeInv
<1>1. UNCHANGED <<etcd, cache, starting, watching, fired, writes, hit>>
  BY DEF Get
<1>2. CASE Done(n, r)
  BY <1>1, <1>2, DoneFacts DEF TypeOK
<1>3. CASE /\ got' = [got EXCEPT ![n][r] = Answer(qry[n][r])]
           /\ pc' = [pc EXCEPT ![n][r] = "set"]
           /\ UNCHANGED <<qry, key>>
  <2>1. qry[n][r] \in Query
    BY DEF Get, HandsOK
  <2>2. Answer(qry[n][r]) \in Answering(qry[n][r]) /\ Answering(qry[n][r]) \subseteq Answers
    BY <2>1, AnswerFacts DEF TypeOK
  <2>3. /\ pc' \in [Node -> [Routine -> {"idle", "get", "set", "put"}]]
        /\ got' \in [Node -> [Routine -> Answers]]
        /\ pc'[n][r] = "set" /\ got'[n][r] = Answer(qry[n][r])
        /\ \A m \in Node, s \in Routine : m # n \/ s # r =>
               pc'[m][s] = pc[m][s] /\ got'[m][s] = got[m][s]
    BY <1>3, <2>2 DEF TypeOK
  <2>4. ASSUME NEW m \in Node, NEW s \in Routine
        PROVE  /\ pc'[m][s] = "idle" => got'[m][s] = Nothing
               /\ pc'[m][s] \in {"get", "set"} => qry'[m][s] \in Query
               /\ pc'[m][s] = "set" => got'[m][s] \in Answering(qry'[m][s])
               /\ pc'[m][s] = "put" => key'[m][s] \in Key
    <3>1. CASE m = n /\ s = r
      BY <1>3, <2>1, <2>2, <2>3, <3>1
    <3>2. CASE m # n \/ s # r
      BY <1>3, <2>3, <3>2 DEF HandsOK, TypeOK
    <3> QED
      BY <3>1, <3>2
  <2>5. TypeOK'
    BY <1>1, <1>3, <2>3, <2>4 DEF TypeOK
  <2>6. HandsOK'
    BY <2>4 DEF HandsOK, Answering
  <2> QED
    BY <2>5, <2>6
<1> QED
  BY <1>2, <1>3 DEF Get

LEMMA SetFacts ==
    ASSUME TypeInv, NEW n \in Node, NEW r \in Routine, Set(n, r)
    PROVE  /\ TypeInv'
           /\ qry[n][r] \in Query
           /\ starting'[n][qry[n][r]] > 0
           /\ \A m \in Node, q \in Query : m # n \/ q # qry[n][r] =>
                  cache'[m][q] = cache[m][q] /\ starting'[m][q] = starting[m][q]
           /\ cache'[n][qry[n][r]] \in {got[n][r], cache[n][qry[n][r]]}
<1> USE DEF TypeInv
<1> DEFINE p == qry[n][r]
<1>1. p \in Query /\ got[n][r] \in Answering(p)
  BY DEF Set, HandsOK
<1>2. got[n][r] \in Answers /\ DOMAIN got[n][r] = p
  BY <1>1, AnswerFacts
<1>3. /\ starting' \in [Node -> [Query -> Nat]] /\ starting'[n][p] > 0
      /\ \A m \in Node, q \in Query : m # n \/ q # p => starting'[m][q] = starting[m][q]
  BY <1>1 DEF Set, TypeOK
<1>4. /\ cache' \in [Node -> [Query -> Answers]]
      /\ \A m \in Node, q \in Query : m # n \/ q # p => cache'[m][q] = cache[m][q]
      /\ cache'[n][p] \in {got[n][r], cache[n][p]}
  <2>1. CASE UNCHANGED cache
    BY <1>1, <2>1 DEF TypeOK
  <2>2. CASE cache' = [cache EXCEPT ![n][p] = got[n][r]]
    BY <1>1, <1>2, <2>2 DEF TypeOK
  <2> QED
    BY <2>1, <2>2 DEF Set
<1> HIDE DEF p
<1>5. ASSUME NEW m \in Node, NEW q \in Query
      PROVE  cache'[m][q] = Nothing \/ DOMAIN cache'[m][q] = q
  <2>1. cache[m][q] = Nothing \/ DOMAIN cache[m][q] = q
    BY DEF TypeOK
  <2>2. CASE m = n /\ q = p
    BY <1>2, <1>4, <2>1, <2>2
  <2>3. CASE m # n \/ q # p
    BY <1>4, <2>1, <2>3
  <2> QED
    BY <2>2, <2>3
<1>6. UNCHANGED <<etcd, watching, fired, writes, hit>> /\ Done(n, r)
  BY DEF Set
<1>7. TypeOK'
  BY <1>3, <1>4, <1>5, <1>6, DoneFacts DEF TypeOK
<1>8. HandsOK'
  BY <1>6, DoneFacts
<1> QED
  BY <1>1, <1>3, <1>4, <1>7, <1>8 DEF p

LEMMA WatchType ==
    ASSUME TypeInv, NEW n \in Node, NEW q \in Query, Watch(n, q)
    PROVE  TypeInv'
<1> USE DEF TypeInv
<1>1. starting[n][q] - 1 \in Nat
  BY DEF Watch, TypeOK
<1>2. starting' \in [Node -> [Query -> Nat]] /\ watching' \in [Node -> [Query -> Nat]]
  BY <1>1 DEF Watch, TypeOK
<1>3. TypeOK'
  BY <1>2 DEF Watch, TypeOK
<1>4. HandsOK'
  BY DEF Watch, HandsOK, Answering
<1> QED
  BY <1>3, <1>4

LEMMA InvalidateType ==
    ASSUME TypeInv, NEW n \in Node, NEW q \in Query, Invalidate(n, q)
    PROVE  TypeInv'
<1> USE DEF TypeInv
<1>1. CacheType' /\ hit' \in [Node -> SUBSET Query]
  BY DelFacts DEF Invalidate
<1>2. fired' \in [Node -> [Query -> Nat]]
  BY DEF Invalidate, TypeOK
<1>3. TypeOK'
  BY <1>1, <1>2 DEF Invalidate, TypeOK, CacheType
<1>4. HandsOK'
  BY DEF Invalidate, HandsOK, Answering
<1> QED
  BY <1>3, <1>4

LEMMA PutLocalFacts ==
    ASSUME TypeInv, NEW n \in Node, NEW r \in Routine, NEW k \in Key, PutLocal(n, r, k)
    PROVE  /\ TypeInv' /\ pc'[n][r] = "put"
           /\ \A m \in Node, s \in Routine : m # n \/ s # r => pc'[m][s] = pc[m][s]
<1> USE DEF TypeInv
<1>1. CacheType' /\ hit' \in [Node -> SUBSET Query]
  BY DelFacts DEF PutLocal
<1>2. /\ pc' \in [Node -> [Routine -> {"idle", "get", "set", "put"}]]
      /\ key' \in [Node -> [Routine -> Key \cup {NoKey}]]
      /\ pc'[n][r] = "put" /\ key'[n][r] = k
      /\ \A m \in Node, s \in Routine : m # n \/ s # r =>
             pc'[m][s] = pc[m][s] /\ key'[m][s] = key[m][s]
  BY DEF PutLocal, TypeOK
<1>3. UNCHANGED <<etcd, qry, got, starting, watching, fired, writes>>
  BY DEF PutLocal
<1>4. ASSUME NEW m \in Node, NEW s \in Routine
      PROVE  /\ pc'[m][s] = "idle" => got'[m][s] = Nothing
             /\ pc'[m][s] \in {"get", "set"} => qry'[m][s] \in Query
             /\ pc'[m][s] = "set" => got'[m][s] \in Answering(qry'[m][s])
             /\ pc'[m][s] = "put" => key'[m][s] \in Key
  <2>1. CASE m = n /\ s = r
    BY <1>2, <2>1
  <2>2. CASE m # n \/ s # r
    BY <1>2, <1>3, <2>2 DEF HandsOK, TypeOK
  <2> QED
    BY <2>1, <2>2
<1>5. TypeOK'
  BY <1>1, <1>2, <1>3, <1>4 DEF TypeOK, CacheType
<1>6. HandsOK'
  BY <1>4 DEF HandsOK, Answering
<1> QED
  BY <1>2, <1>5, <1>6

\* The two outcomes of a request that changes etcd.
LEMMA PutEtcdFacts ==
    ASSUME TypeInv, NEW n \in Node, NEW r \in Routine, PutEtcd(n, r)
    PROVE  /\ TypeInv' /\ Done(n, r) /\ UNCHANGED <<cache, starting>>
           /\ \/ UNCHANGED <<etcd, fired, watching, hit>>
              \/ \E k \in Key :
                    /\ \A j \in Key \ {k} : etcd'[j] = etcd[j]
                    /\ \A m \in Node, q \in Query : k \in q =>
                           /\ fired'[m][q] = fired[m][q] + watching[m][q]
                           /\ starting[m][q] > 0 => q \in hit'[m]
                           /\ \A s \in Routine : pc[m][s] = "set" /\ qry[m][s] = q => q \in hit'[m]
                    /\ \A m \in Node, q \in Query : k \notin q =>
                           fired'[m][q] = fired[m][q] /\ watching'[m][q] = watching[m][q]
                    /\ \A m \in Node : hit[m] \subseteq hit'[m]
<1> USE DEF TypeInv
<1>1. Done(n, r) /\ UNCHANGED <<cache, starting>> /\ pc[n][r] = "put" /\ key[n][r] \in Key
  BY DEF PutEtcd, HandsOK
<1>2. CASE UNCHANGED <<writes, etcd, fired, watching, hit, seen>>
  <2>1. TypeOK' /\ HandsOK'
    BY <1>1, <1>2, DoneFacts DEF TypeOK
  <2> QED
    BY <1>1, <1>2, <2>1
<1>3. CASE ~UNCHANGED <<writes, etcd, fired, watching, hit, seen>>
  <2> DEFINE k == key[n][r]
             Changed == {q \in Query : k \in q}
             Open(m) == {q \in Changed : \/ starting[m][q] > 0
                                    \/ \E s \in Routine : pc[m][s] = "set" /\ qry[m][s] = q}
  <2>1. /\ writes < MaxWrites /\ writes' = writes + 1
        /\ etcd' = [etcd EXCEPT ![k] = writes + 1]
        /\ fired' = [m \in Node |-> [q \in Query |->
                        IF q \in Changed THEN fired[m][q] + watching[m][q] ELSE fired[m][q]]]
        /\ watching' = [m \in Node |-> [q \in Query |->
                        IF q \in Changed THEN 0 ELSE watching[m][q]]]
        /\ hit' = [m \in Node |-> hit[m] \cup Open(m)]
    BY <1>3 DEF PutEtcd
  <2>2. \A m \in Node : Open(m) \subseteq Query
    OBVIOUS
  <2>3. \A m \in Node, q \in Query : k \in q =>
            /\ starting[m][q] > 0 => q \in hit'[m]
            /\ \A s \in Routine : pc[m][s] = "set" /\ qry[m][s] = q => q \in hit'[m]
    BY <2>1
  <2>4. hit' \in [Node -> SUBSET Query] /\ \A m \in Node : hit[m] \subseteq hit'[m]
    BY <2>1, <2>2 DEF TypeOK
  <2> HIDE DEF Open
  <2>5. writes' \in 0..MaxWrites /\ writes + 1 \in 0..MaxWrites
    BY <2>1, NaSeCacheAssumption DEF TypeOK
  <2>6. etcd' \in [Key -> 0..MaxWrites] /\ \A j \in Key \ {k} : etcd'[j] = etcd[j]
    BY <2>1, <2>5 DEF TypeOK
  <2>7. fired' \in [Node -> [Query -> Nat]] /\ watching' \in [Node -> [Query -> Nat]]
    BY <2>1 DEF TypeOK
  <2>8. TypeOK' /\ HandsOK'
    BY <1>1, <2>4, <2>5, <2>6, <2>7, DoneFacts DEF TypeOK
  <2>9. \A m \in Node, q \in Query :
            /\ k \in q => fired'[m][q] = fired[m][q] + watching[m][q]
            /\ k \notin q => fired'[m][q] = fired[m][q] /\ watching'[m][q] = watching[m][q]
    BY <2>1
  <2> QED
    BY <1>1, <2>3, <2>4, <2>6, <2>8, <2>9
<1> QED
  BY <1>2, <1>3

\* A restart empties everything n keeps, and nothing of the others.
LEMMA RestartFacts ==
    ASSUME TypeInv, NEW n \in Node, Restart(n)
    PROVE  /\ TypeInv'
           /\ \A q \in Query : cache'[n][q] = Nothing
           /\ \A r \in Routine : pc'[n][r] = "idle"
           /\ \A m \in Node : m # n =>
                  /\ cache'[m] = cache[m] /\ pc'[m] = pc[m] /\ qry'[m] = qry[m]
                  /\ got'[m] = got[m] /\ starting'[m] = starting[m]
                  /\ watching'[m] = watching[m] /\ fired'[m] = fired[m] /\ hit'[m] = hit[m]
<1>1. Nothing \in Answers
  BY DEF Answers
<1>2. /\ cache' \in [Node -> [Query -> Answers]]
      /\ pc' \in [Node -> [Routine -> {"idle", "get", "set", "put"}]]
      /\ qry' \in [Node -> [Routine -> Query \cup {{}}]]
      /\ key' \in [Node -> [Routine -> Key \cup {NoKey}]]
      /\ got' \in [Node -> [Routine -> Answers]]
  BY <1>1 DEF TypeInv, TypeOK, Restart
<1>3. /\ starting' \in [Node -> [Query -> Nat]]
      /\ watching' \in [Node -> [Query -> Nat]]
      /\ fired' \in [Node -> [Query -> Nat]]
      /\ hit' \in [Node -> SUBSET Query]
      /\ etcd' \in [Key -> 0..MaxWrites] /\ writes' \in 0..MaxWrites
  BY DEF TypeInv, TypeOK, Restart
<1>4. /\ \A q \in Query : cache'[n][q] = Nothing
      /\ \A r \in Routine : pc'[n][r] = "idle" /\ got'[n][r] = Nothing
  BY DEF TypeInv, TypeOK, Restart
<1>5. \A m \in Node : m # n =>
          /\ cache'[m] = cache[m] /\ pc'[m] = pc[m] /\ qry'[m] = qry[m] /\ key'[m] = key[m]
          /\ got'[m] = got[m] /\ starting'[m] = starting[m]
          /\ watching'[m] = watching[m] /\ fired'[m] = fired[m] /\ hit'[m] = hit[m]
  BY DEF TypeInv, TypeOK, Restart
<1>6. \A m \in Node, q \in Query : cache'[m][q] = Nothing \/ DOMAIN cache'[m][q] = q
  <2> SUFFICES ASSUME NEW m \in Node, NEW q \in Query
               PROVE  cache'[m][q] = Nothing \/ DOMAIN cache'[m][q] = q
    OBVIOUS
  <2>1. CASE m = n
    BY <1>4, <2>1
  <2>2. CASE m # n
    <3>1. cache'[m][q] = cache[m][q]
      BY <1>5, <2>2
    <3> QED
      BY <3>1 DEF TypeInv, TypeOK
  <2> QED
    BY <2>1, <2>2
<1>7. \A m \in Node, r \in Routine : pc'[m][r] = "idle" => got'[m][r] = Nothing
  <2> SUFFICES ASSUME NEW m \in Node, NEW r \in Routine, pc'[m][r] = "idle"
               PROVE  got'[m][r] = Nothing
    OBVIOUS
  <2>1. CASE m = n
    BY <1>4, <2>1
  <2>2. CASE m # n
    <3>1. pc'[m][r] = pc[m][r] /\ got'[m][r] = got[m][r]
      BY <1>5, <2>2
    <3> QED
      BY <3>1 DEF TypeInv, TypeOK
  <2> QED
    BY <2>1, <2>2
<1>8. HandsOK'
  BY <1>4, <1>5 DEF TypeInv, HandsOK, Answering
<1>9. TypeOK'
  BY <1>2, <1>3, <1>6, <1>7 DEF TypeOK
<1> QED
  BY <1>4, <1>5, <1>8, <1>9 DEF TypeInv

LEMMA NextTypeInv == TypeInv /\ [Next]_vars => TypeInv'
<1> SUFFICES ASSUME TypeInv, [Next]_vars PROVE TypeInv'
  OBVIOUS
<1>1. CASE UNCHANGED vars
  BY <1>1 DEF TypeInv, TypeOK, HandsOK, Answering, vars
<1>2. ASSUME NEW n \in Node, NEW r \in Routine, NEW q \in Query, CacheHit(n, r, q)
      PROVE  TypeInv'
  BY <1>2 DEF CacheHit, TypeInv, TypeOK, HandsOK, Answering
<1>3. ASSUME NEW n \in Node, NEW r \in Routine, NEW q \in Query, GetUncached(n, r, q)
      PROVE  TypeInv'
  BY <1>3 DEF GetUncached, TypeInv, TypeOK, HandsOK, Answering
<1> QED
  BY <1>1, <1>2, <1>3, MissType, GetType, SetFacts, WatchType, InvalidateType, PutLocalFacts,
     PutEtcdFacts, RestartFacts DEF Next, RoutineStep, WatchStep, Finished

\* The variables of the cache keep their types.
THEOREM TypeCorrect == Spec => []TypeOK
<1>1. Spec => []TypeInv
  BY InitTypeInv, NextTypeInv, PTL DEF Spec
<1>2. TypeInv => TypeOK
  BY DEF TypeInv
<1> QED
  BY <1>1, <1>2, PTL

----------------------------------------------------------------------------
(* Staleness.  An entry that no change of etcd has hit unprotected is        *)
(* current and has a watch on its way or registered, or a watch has fired.   *)

Guarded(n, q) ==
    Cached(n, q) /\ q \notin hit[n] =>
        \/ fired[n][q] > 0
        \/ cache[n][q] = Answer(q) /\ (starting[n][q] > 0 \/ watching[n][q] > 0)

GuardedOK == \A n \in Node, q \in Query : Guarded(n, q)

\* The answer a goroutine is about to cache is current, or was hit.
Current(n, r) == pc[n][r] = "set" /\ qry[n][r] \notin hit[n] => got[n][r] = Answer(qry[n][r])

CurrentOK == \A n \in Node, r \in Routine : Current(n, r)

StaleInv == TypeInv /\ GuardedOK /\ CurrentOK

LEMMA GetStale ==
    ASSUME StaleInv, TypeInv', NEW n \in Node, NEW r \in Routine, Get(n, r)
    PROVE  StaleInv'
<1> USE DEF StaleInv
<1>1. UNCHANGED <<etcd, cache, starting, watching, fired, hit>>
  BY DEF Get
<1>2. GuardedOK'
  BY <1>1 DEF GuardedOK, Guarded, Cached, Answer
<1>3. ASSUME NEW m \in Node, NEW s \in Routine PROVE Current(m, s)'
  <2>1. CASE m # n \/ s # r
    <3>1. pc'[m][s] = pc[m][s] /\ qry'[m][s] = qry[m][s] /\ got'[m][s] = got[m][s]
      <4>1. CASE Done(n, r)
        BY <2>1, <4>1, DoneFacts
      <4>2. CASE ~Done(n, r)
        BY <2>1, <4>2 DEF Get, TypeInv, TypeOK
      <4> QED
        BY <4>1, <4>2
    <3>2. Answer(qry[m][s])' = Answer(qry[m][s])
      BY <1>1, <3>1 DEF Answer
    <3> QED
      BY <1>1, <3>1, <3>2 DEF CurrentOK, Current
  <2>2. CASE m = n /\ s = r
    <3>1. CASE Done(n, r)
      BY <2>2, <3>1, DoneFacts DEF Current
    <3>2. CASE ~Done(n, r)
      <4>1. got'[n][r] = Answer(qry[n][r]) /\ qry' = qry
        BY <3>2 DEF Get, TypeInv, TypeOK
      <4> QED
        BY <1>1, <2>2, <4>1 DEF Current, Answer
    <3> QED
      BY <3>1, <3>2
  <2> QED
    BY <2>1, <2>2
<1> QED
  BY <1>2, <1>3 DEF CurrentOK

LEMMA SetStale ==
    ASSUME StaleInv, TypeInv', NEW n \in Node, NEW r \in Routine, Set(n, r)
    PROVE  StaleInv'
<1> USE DEF StaleInv
<1>1. UNCHANGED <<etcd, watching, fired, hit>> /\ Done(n, r) /\ pc[n][r] = "set"
  BY DEF Set
<1>2. ASSUME NEW m \in Node, NEW q \in Query PROVE Guarded(m, q)'
  <2>1. CASE m # n \/ q # qry[n][r]
    BY <1>1, <2>1, SetFacts DEF GuardedOK, Guarded, Cached, Answer
  <2>2. CASE m = n /\ q = qry[n][r]
    <3>1. q \notin hit[n] => got[n][r] = Answer(q)
      BY <1>1, <2>2 DEF CurrentOK, Current
    <3>2. starting'[n][q] > 0 /\ cache'[n][q] \in {got[n][r], cache[n][q]}
      BY <2>2, SetFacts
    <3>3. Guarded(n, q)
      BY <2>2 DEF GuardedOK
    <3> QED
      BY <1>1, <2>2, <3>1, <3>2, <3>3 DEF Guarded, Cached, Answer
  <2> QED
    BY <2>1, <2>2
<1>3. ASSUME NEW m \in Node, NEW s \in Routine PROVE Current(m, s)'
  <2>1. CASE m # n \/ s # r
    <3>1. pc'[m][s] = pc[m][s] /\ qry'[m][s] = qry[m][s] /\ got'[m][s] = got[m][s]
      BY <1>1, <2>1, DoneFacts
    <3>2. Answer(qry[m][s])' = Answer(qry[m][s])
      BY <1>1, <3>1 DEF Answer
    <3> QED
      BY <1>1, <3>1, <3>2 DEF CurrentOK, Current
  <2>2. CASE m = n /\ s = r
    BY <1>1, <2>2, DoneFacts DEF Current
  <2> QED
    BY <2>1, <2>2
<1> QED
  BY <1>2, <1>3 DEF GuardedOK, CurrentOK

LEMMA MissStale ==
    ASSUME StaleInv, TypeInv', NEW n \in Node, NEW r \in Routine, NEW q \in Query,
           CacheMiss(n, r, q)
    PROVE  StaleInv'
<1> USE DEF StaleInv
<1>1. UNCHANGED <<etcd, cache, got, starting, watching, fired, hit>>
  BY DEF CacheMiss
<1>2. /\ pc'[n][r] = "get"
      /\ \A m \in Node, s \in Routine : m # n \/ s # r =>
             pc'[m][s] = pc[m][s] /\ qry'[m][s] = qry[m][s]
  BY DEF CacheMiss, TypeInv, TypeOK
<1>3. GuardedOK'
  BY <1>1 DEF GuardedOK, Guarded, Cached, Answer
<1>4. ASSUME NEW m \in Node, NEW s \in Routine PROVE Current(m, s)'
  <2>1. CASE m # n \/ s # r
    BY <1>1, <1>2, <2>1 DEF CurrentOK, Current, Answer
  <2>2. CASE m = n /\ s = r
    BY <1>2, <2>2 DEF Current
  <2> QED
    BY <2>1, <2>2
<1> QED
  BY <1>3, <1>4 DEF CurrentOK

LEMMA WatchStale ==
    ASSUME StaleInv, TypeInv', NEW n \in Node, NEW q \in Query, Watch(n, q)
    PROVE  StaleInv'
<1> USE DEF StaleInv
<1>1. UNCHANGED <<etcd, cache, pc, qry, got, fired, hit>>
  BY DEF Watch
<1>2. /\ watching'[n][q] > 0
      /\ \A m \in Node, p \in Query : m # n \/ p # q =>
             starting'[m][p] = starting[m][p] /\ watching'[m][p] = watching[m][p]
  BY DEF Watch, TypeInv, TypeOK
<1>3. ASSUME NEW m \in Node, NEW p \in Query PROVE Guarded(m, p)'
  <2>1. Guarded(m, p)
    BY DEF GuardedOK
  <2>2. CASE m # n \/ p # q
    BY <1>1, <1>2, <2>1, <2>2 DEF Guarded, Cached, Answer
  <2>3. CASE m = n /\ p = q
    BY <1>1, <1>2, <2>1, <2>3 DEF Guarded, Cached, Answer
  <2> QED
    BY <2>2, <2>3
<1>4. CurrentOK'
  BY <1>1 DEF CurrentOK, Current, Answer
<1> QED
  BY <1>3, <1>4 DEF GuardedOK

\* Removing entries from the cache of n, as Invalidate and PutLocal do.
LEMMA DelStale ==
    ASSUME StaleInv, NEW n \in Node, NEW qs \in SUBSET Query, Del(n, qs),
           UNCHANGED <<etcd, starting, watching, qry, got>>,
           \A m \in Node, q \in Query : m # n \/ q \notin qs => fired'[m][q] = fired[m][q],
           \A m \in Node, s \in Routine : pc'[m][s] = "set" => pc[m][s] = "set"
    PROVE  GuardedOK' /\ CurrentOK'
<1> USE DEF StaleInv
<1>1. ASSUME NEW m \in Node, NEW q \in Query PROVE Guarded(m, q)'
  <2>1. CASE m # n \/ q \notin qs
    BY <2>1, DelFacts DEF GuardedOK, Guarded, Cached, Answer
  <2>2. CASE m = n /\ q \in qs
    BY <2>2, DelFacts DEF Guarded, Cached
  <2> QED
    BY <2>1, <2>2
<1>2. ASSUME NEW m \in Node, NEW s \in Routine, pc'[m][s] = "set", qry[m][s] \notin hit'[m]
      PROVE  got[m][s] = Answer(qry[m][s])
  <2>1. pc[m][s] = "set" /\ qry[m][s] \in Query
    BY <1>2 DEF TypeInv, HandsOK
  <2>2. CASE qry[m][s] \notin hit[m]
    BY <2>1, <2>2 DEF CurrentOK, Current
  <2>3. CASE qry[m][s] \in hit[m]
    BY <1>2, <2>1, <2>3, DelFacts
  <2> QED
    BY <2>2, <2>3
<1>3. CurrentOK'
  BY <1>2 DEF CurrentOK, Current, Answer
<1> QED
  BY <1>1, <1>3 DEF GuardedOK

LEMMA InvalidateStale ==
    ASSUME StaleInv, TypeInv', NEW n \in Node, NEW q \in Query, Invalidate(n, q)
    PROVE  StaleInv'
<1>1. Del(n, {q}) /\ UNCHANGED <<etcd, starting, watching, qry, got, pc>>
  BY DEF Invalidate
<1>2. \A m \in Node, p \in Query : m # n \/ p \notin {q} => fired'[m][p] = fired[m][p]
  BY DEF Invalidate, StaleInv, TypeInv, TypeOK
<1> QED
  BY <1>1, <1>2, DelStale DEF StaleInv

LEMMA PutLocalStale ==
    ASSUME StaleInv, TypeInv', NEW n \in Node, NEW r \in Routine, NEW k \in Key, PutLocal(n, r, k)
    PROVE  StaleInv'
<1> DEFINE qs == {q \in Query : k \in q}
<1>1. Del(n, qs) /\ UNCHANGED <<etcd, starting, watching, fired, qry, got>>
  BY DEF PutLocal
<1>2. ASSUME NEW m \in Node, NEW s \in Routine, pc'[m][s] = "set" PROVE pc[m][s] = "set"
  <2>1. CASE m = n /\ s = r
    BY <1>2, <2>1, PutLocalFacts DEF StaleInv
  <2>2. CASE m # n \/ s # r
    BY <1>2, <2>2, PutLocalFacts DEF StaleInv
  <2> QED
    BY <2>1, <2>2
<1>3. qs \in SUBSET Query
  OBVIOUS
<1> HIDE DEF qs
<1>4. GuardedOK' /\ CurrentOK'
  BY <1>1, <1>2, <1>3, DelStale
<1> QED
  BY <1>4 DEF StaleInv

LEMMA PutEtcdStale ==
    ASSUME StaleInv, TypeInv', NEW n \in Node, NEW r \in Routine, PutEtcd(n, r)
    PROVE  StaleInv'
<1> USE DEF StaleInv
<1>1. Done(n, r) /\ UNCHANGED <<cache, starting>>
  BY PutEtcdFacts
<1>2. \A m \in Node, s \in Routine : pc'[m][s] = "set" =>
          pc[m][s] = "set" /\ qry'[m][s] = qry[m][s] /\ got'[m][s] = got[m][s] /\ qry[m][s] \in Query
  <2> SUFFICES ASSUME NEW m \in Node, NEW s \in Routine, pc'[m][s] = "set"
               PROVE  pc[m][s] = "set" /\ qry'[m][s] = qry[m][s] /\ got'[m][s] = got[m][s]
                      /\ qry[m][s] \in Query
    OBVIOUS
  <2>1. CASE m = n /\ s = r
    BY <1>1, <2>1, DoneFacts
  <2>2. CASE m # n \/ s # r
    BY <1>1, <2>2, DoneFacts DEF TypeInv, HandsOK
  <2> QED
    BY <2>1, <2>2
<1>3. CASE UNCHANGED <<etcd, fired, watching, hit>>
  <2>1. GuardedOK'
    BY <1>1, <1>3 DEF GuardedOK, Guarded, Cached, Answer
  <2>2. CurrentOK'
    BY <1>2, <1>3 DEF CurrentOK, Current, Answer
  <2> QED
    BY <2>1, <2>2
<1>4. CASE ~UNCHANGED <<etcd, fired, watching, hit>>
  <2>1. PICK k \in Key :
            /\ \A j \in Key \ {k} : etcd'[j] = etcd[j]
            /\ \A m \in Node, q \in Query : k \in q =>
                   /\ fired'[m][q] = fired[m][q] + watching[m][q]
                   /\ starting[m][q] > 0 => q \in hit'[m]
                   /\ \A s \in Routine : pc[m][s] = "set" /\ qry[m][s] = q => q \in hit'[m]
            /\ \A m \in Node, q \in Query : k \notin q =>
                   fired'[m][q] = fired[m][q] /\ watching'[m][q] = watching[m][q]
            /\ \A m \in Node : hit[m] \subseteq hit'[m]
    BY <1>4, PutEtcdFacts
  <2>2. \A q \in Query : k \notin q => Answer(q)' = Answer(q)
    <3> SUFFICES ASSUME NEW q \in Query, k \notin q PROVE Answer(q)' = Answer(q)
      OBVIOUS
    <3>1. q \subseteq Key \ {k}
      BY AnswerFacts
    <3> QED
      BY <2>1, <3>1 DEF Answer
  <2>3. ASSUME NEW m \in Node, NEW q \in Query PROVE Guarded(m, q)'
    <3>1. Guarded(m, q)
      BY DEF GuardedOK
    <3>2. CASE k \in q
      <4>1. fired[m][q] \in Nat /\ watching[m][q] \in Nat
        BY DEF TypeInv, TypeOK
      <4>2. q \notin hit'[m] => starting[m][q] \in Nat /\ ~(starting[m][q] > 0) /\ q \notin hit[m]
        BY <2>1, <3>2 DEF TypeInv, TypeOK
      <4> QED
        BY <1>1, <2>1, <3>1, <3>2, <4>1, <4>2 DEF Guarded, Cached
    <3>3. CASE k \notin q
      BY <1>1, <2>1, <2>2, <3>1, <3>3 DEF Guarded, Cached
    <3> QED
      BY <3>2, <3>3
  <2>4. ASSUME NEW m \in Node, NEW s \in Routine, pc'[m][s] = "set", qry'[m][s] \notin hit'[m]
        PROVE  got'[m][s] = Answer(qry[m][s])'
    <3>1. k \notin qry[m][s] /\ qry[m][s] \notin hit[m] /\ pc[m][s] = "set"
      BY <1>2, <2>1, <2>4
    <3>2. got[m][s] = Answer(qry[m][s])
      BY <3>1 DEF CurrentOK, Current
    <3>3. Answer(qry[m][s])' = [j \in qry[m][s] |-> etcd'[j]]
      BY <1>2, <2>4 DEF Answer
    <3>4. [j \in qry[m][s] |-> etcd'[j]] = Answer(qry[m][s])
      BY <1>2, <2>1, <2>4, <3>1, AnswerFacts DEF Answer
    <3> QED
      BY <1>2, <2>4, <3>2, <3>3, <3>4
  <2>5. CurrentOK'
    BY <1>2, <2>4 DEF CurrentOK, Current, Answer
  <2> QED
    BY <2>3, <2>5 DEF GuardedOK
<1> QED
  BY <1>3, <1>4

LEMMA RestartStale ==
    ASSUME StaleInv, NEW n \in Node, Restart(n)
    PROVE  StaleInv'
<1>1. TypeInv /\ TypeInv' /\ UNCHANGED etcd
  BY RestartFacts DEF StaleInv, Restart
<1>2. ASSUME NEW m \in Node, NEW q \in Query PROVE Guarded(m, q)'
  <2>1. Guarded(m, q) /\ Answer(q)' = Answer(q)
    BY <1>1 DEF StaleInv, GuardedOK, Answer
  <2>2. CASE m = n
    BY <1>1, <2>2, RestartFacts DEF Guarded, Cached
  <2>3. CASE m # n
    BY <1>1, <2>1, <2>3, RestartFacts DEF Guarded, Cached
  <2> QED
    BY <2>2, <2>3
<1>3. ASSUME NEW m \in Node, NEW r \in Routine PROVE Current(m, r)'
  <2>1. CASE m = n
    BY <1>1, <2>1, RestartFacts DEF Current
  <2>2. CASE m # n
    <3>1. qry'[m] = qry[m] /\ pc'[m] = pc[m] /\ got'[m] = got[m] /\ hit'[m] = hit[m]
      BY <1>1, <2>2, RestartFacts
    <3>2. Answer(qry[m][r])' = Answer(qry[m][r])
      BY <1>1, <3>1 DEF Answer
    <3> QED
      BY <3>1, <3>2 DEF StaleInv, CurrentOK, Current
  <2> QED
    BY <2>1, <2>2
<1> QED
  BY <1>1, <1>2, <1>3 DEF StaleInv, GuardedOK, CurrentOK

LEMMA InitStale == Init => StaleInv
<1> SUFFICES ASSUME Init PROVE StaleInv
  OBVIOUS
<1>1. Nothing \in Answers /\ \A q \in Query : [k \in q |-> 0] \in Answers
  BY NaSeCacheAssumption DEF Answers
<1>2. \A q \in Query : Answer(q) = [k \in q |-> 0]
  BY AnswerFacts DEF Init, Answer
<1>3. GuardedOK
  BY <1>1, <1>2, InitFacts DEF GuardedOK, Guarded, Cached
<1>4. CurrentOK
  BY DEF Init, CurrentOK, Current
<1> QED
  BY <1>3, <1>4, InitTypeInv DEF StaleInv

LEMMA NextStale == StaleInv /\ [Next]_vars => StaleInv'
<1> SUFFICES ASSUME StaleInv, [Next]_vars PROVE StaleInv'
  OBVIOUS
<1>1. TypeInv'
  BY NextTypeInv DEF StaleInv
<1>2. CASE UNCHANGED <<etcd, cache, pc, qry, key, got, starting, watching, fired, writes, hit>>
  BY <1>1, <1>2 DEF StaleInv, GuardedOK, Guarded, Cached, CurrentOK, Current, Answer
<1>3. ASSUME NEW n \in Node, NEW r \in Routine, NEW q \in Query, CacheHit(n, r, q)
      PROVE  StaleInv'
  BY <1>2, <1>3 DEF CacheHit
<1>4. ASSUME NEW n \in Node, NEW r \in Routine, NEW q \in Query, GetUncached(n, r, q)
      PROVE  StaleInv'
  BY <1>2, <1>4 DEF GetUncached
<1> QED
  BY <1>1, <1>2, <1>3, <1>4, GetStale, SetStale, MissStale, WatchStale, InvalidateStale, PutLocalStale,
     PutEtcdStale, RestartStale DEF Next, RoutineStep, WatchStep, Finished, vars

\* An entry that differs from etcd is about to be removed, unless etcd changed
\* between its answer and the registration of its watch.
THEOREM Explained == Spec => []StaleIsExplained
<1>1. Spec => []StaleInv
  BY InitStale, NextStale, PTL DEF Spec
<1>2. StaleInv => StaleIsExplained
  BY DEF StaleInv, GuardedOK, Guarded, StaleIsExplained, Stale
<1> QED
  BY <1>1, <1>2, PTL

----------------------------------------------------------------------------
(* What a node has learnt.  Of two goroutines of one node that have asked    *)
(* etcd, the one with the older answer may be the last to store it.  A node  *)
(* whose goroutines use the name service one at a time never goes back.      *)

OneAtATime == \A r, s \in Routine : r = s

NothingNewer == \A k \in Key : etcd[k] <= writes

\* What n has learnt through q is not newer than what its cache or etcd would answer.
QueryOK(n, q) ==
    /\ seen[n][q] \in Answering(q)
    /\ \A k \in q : seen[n][q][k] <= etcd[k]
    /\ Cached(n, q) =>
          /\ n \in Caching
          /\ \A k \in q : seen[n][q][k] <= cache[n][q][k] /\ cache[n][q][k] <= etcd[k]

\* Neither is it newer than an answer on its way, and nothing is cached that the
\* goroutine is about to replace.
AnswerOK(n, r) ==
    /\ pc[n][r] \in {"get", "set"} => n \in Caching /\ ~Cached(n, qry[n][r])
    /\ pc[n][r] = "set" => \A k \in qry[n][r] :
          seen[n][qry[n][r]][k] <= got[n][r][k] /\ got[n][r][k] <= etcd[k]
    /\ pc[n][r] = "put" => \A q \in Query : key[n][r] \in q => ~Cached(n, q)

NodeOK(n) == (\A q \in Query : QueryOK(n, q)) /\ (\A r \in Routine : AnswerOK(n, r))

SeenInv ==
    /\ TypeInv /\ NothingNewer
    /\ seen \in [Node -> [Query -> Answers]]
    /\ \A n \in Node : NodeOK(n)

\* What is cached is an answer to the query.
LEMMA CachedType ==
    ASSUME TypeInv, NEW n \in Node, NEW q \in Query, Cached(n, q)
    PROVE  cache[n][q] \in Answering(q)
<1>1. cache[n][q] \in Answers /\ DOMAIN cache[n][q] = q /\ cache[n][q] # Nothing
  BY DEF TypeInv, TypeOK, Cached
<1>2. PICK p \in Query : cache[n][q] \in [p -> 0..MaxWrites]
  BY <1>1 DEF Answers
<1>3. p = q
  BY <1>1, <1>2
<1> QED
  BY <1>2, <1>3 DEF Answering

\* A step that touches nothing of node m.
LEMMA OtherNode ==
    ASSUME SeenInv, TypeInv', NEW m \in Node, \A k \in Key : etcd[k] <= etcd'[k],
           cache'[m] = cache[m], seen'[m] = seen[m],
           pc'[m] = pc[m], qry'[m] = qry[m], key'[m] = key[m], got'[m] = got[m]
    PROVE  NodeOK(m)'
<1>1. \A k \in Key : etcd[k] \in Nat /\ etcd'[k] \in Nat
  BY NaSeCacheAssumption DEF SeenInv, TypeInv, TypeOK
<1>2. ASSUME NEW q \in Query PROVE QueryOK(m, q)'
  <2>1. QueryOK(m, q) /\ seen[m][q] \in Answering(q) /\ q \subseteq Key
    BY AnswerFacts DEF SeenInv, NodeOK, QueryOK
  <2>2. \A k \in q : seen[m][q][k] \in Nat
    BY <2>1, NaSeCacheAssumption DEF Answering
  <2>3. Cached(m, q) => \A k \in q : cache[m][q][k] \in Nat
    BY CachedType, NaSeCacheAssumption DEF Answering, SeenInv
  <2>4. Cached(m, q)' <=> Cached(m, q)
    BY DEF Cached
  <2>5. \A k \in q : seen'[m][q][k] <= etcd'[k]
    BY <1>1, <2>1, <2>2 DEF QueryOK
  <2>6. Cached(m, q) => \A k \in q : cache[m][q][k] <= etcd'[k]
    BY <1>1, <2>1, <2>3 DEF QueryOK
  <2> QED
    BY <2>1, <2>4, <2>5, <2>6 DEF QueryOK, Answering
<1>3. ASSUME NEW r \in Routine PROVE AnswerOK(m, r)'
  <2>1. AnswerOK(m, r)
    BY DEF SeenInv, NodeOK
  <2>2. pc[m][r] = "set" => qry[m][r] \in Query /\ got[m][r] \in Answering(qry[m][r])
    BY DEF SeenInv, TypeInv, HandsOK
  <2>3. pc[m][r] = "set" => \A k \in qry[m][r] : got[m][r][k] <= etcd'[k]
    <3> SUFFICES ASSUME pc[m][r] = "set", NEW k \in qry[m][r] PROVE got[m][r][k] <= etcd'[k]
      OBVIOUS
    <3>1. k \in Key /\ got[m][r][k] \in Nat
      BY <2>2, AnswerFacts, NaSeCacheAssumption DEF Answering
    <3>2. got[m][r][k] <= etcd[k]
      BY <2>1 DEF AnswerOK
    <3> QED
      BY <1>1, <3>1, <3>2
  <2> QED
    BY <2>1, <2>3 DEF AnswerOK, Cached
<1> QED
  BY <1>2, <1>3 DEF NodeOK

\* A step of node n alone; the node learns nothing or the answer v to q.
LEMMA OneNode ==
    ASSUME SeenInv, TypeInv', NEW n \in Node, UNCHANGED <<etcd, writes>>, NodeOK(n)',
           seen' \in [Node -> [Query -> Answers]],
           \A m \in Node : m # n =>
               /\ cache'[m] = cache[m] /\ seen'[m] = seen[m] /\ pc'[m] = pc[m]
               /\ qry'[m] = qry[m] /\ key'[m] = key[m] /\ got'[m] = got[m]
    PROVE  SeenInv'
<1>1. \A k \in Key : etcd[k] <= etcd'[k]
  BY NaSeCacheAssumption DEF SeenInv, TypeInv, TypeOK
<1>2. \A m \in Node : NodeOK(m)'
  BY <1>1, OtherNode
<1>3. NothingNewer'
  BY DEF SeenInv, NothingNewer
<1> QED
  BY <1>2, <1>3 DEF SeenInv

LEMMA LearnFacts ==
    ASSUME SeenInv, NEW n \in Node, NEW q \in Query, NEW v \in Answering(q), Learn(n, q, v)
    PROVE  /\ seen' \in [Node -> [Query -> Answers]] /\ seen'[n][q] = v
           /\ \A p \in Query : p # q => seen'[n][p] = seen[n][p]
           /\ \A m \in Node : m # n => seen'[m] = seen[m]
<1>1. v \in Answers
  BY AnswerFacts
<1> QED
  BY <1>1 DEF Learn, SeenInv

Forward(n) == \A q \in Query : \A k \in q : seen'[n][q][k] >= seen[n][q][k]

SeenForward == \A n \in Node : Forward(n)

LEMMA NumbersType ==
    ASSUME SeenInv, NEW n \in Node, NEW q \in Query, NEW k \in q
    PROVE  seen[n][q][k] \in Nat /\ etcd[k] \in Nat /\ k \in Key
<1>1. seen[n][q] \in Answering(q) /\ k \in Key
  BY AnswerFacts DEF SeenInv, NodeOK, QueryOK
<1> QED
  BY <1>1, NaSeCacheAssumption DEF Answering, SeenInv, TypeInv, TypeOK

\* What a node has not learnt anew it has not unlearnt.
LEMMA StandStill ==
    ASSUME SeenInv, NEW m \in Node, seen'[m] = seen[m]
    PROVE  Forward(m)
BY NumbersType DEF Forward

\* The answer v to q, not older than what n knew, is learnt.
LEMMA LearnForward ==
    ASSUME SeenInv, NEW n \in Node, NEW q \in Query, NEW v \in Answering(q), Learn(n, q, v),
           \A k \in q : seen[n][q][k] <= v[k]
    PROVE  SeenForward
<1>1. ASSUME NEW m \in Node PROVE Forward(m)
  <2>1. CASE m # n
    BY <2>1, LearnFacts, StandStill
  <2>2. CASE m = n
    <3> SUFFICES ASSUME NEW p \in Query, NEW k \in p PROVE seen'[n][p][k] >= seen[n][p][k]
      BY <2>2 DEF Forward
    <3>1. seen[n][p][k] \in Nat
      BY NumbersType
    <3>2. CASE p = q
      <4>1. v[k] \in Nat
        BY <3>2, NaSeCacheAssumption DEF Answering
      <4>2. seen'[n][q] = v
        BY LearnFacts
      <4> QED
        BY <3>1, <3>2, <4>1, <4>2
    <3>3. CASE p # q
      <4>1. seen'[n][p] = seen[n][p]
        BY <3>3, LearnFacts
      <4> QED
        BY <3>1, <4>1
    <3> QED
      BY <3>2, <3>3
  <2> QED
    BY <2>1, <2>2
<1> QED
  BY <1>1 DEF SeenForward

\* Before an answer is used nothing is on its way: the goroutine is the only one.
LEMMA IdleNode ==
    ASSUME OneAtATime, NEW n \in Node, NEW r \in Routine, pc'[n][r] = "idle"
    PROVE  \A s \in Routine : AnswerOK(n, s)'
BY DEF OneAtATime, AnswerOK

\* The node learns an answer that is not older than what it knew.
LEMMA LearnSeen ==
    ASSUME OneAtATime, SeenInv, TypeInv', NEW n \in Node, NEW r \in Routine, pc'[n][r] = "idle",
           NEW q \in Query, NEW v \in Answering(q), Learn(n, q, v), UNCHANGED <<etcd, writes>>,
           \A k \in q : seen[n][q][k] <= v[k] /\ v[k] <= etcd[k],
           \A p \in Query : p # q => cache'[n][p] = cache[n][p],
           Cached(n, q)' => n \in Caching /\ cache'[n][q] = v,
           \A m \in Node : m # n =>
               /\ cache'[m] = cache[m] /\ pc'[m] = pc[m]
               /\ qry'[m] = qry[m] /\ key'[m] = key[m] /\ got'[m] = got[m]
    PROVE  SeenInv' /\ SeenForward
<1>1. ASSUME NEW p \in Query PROVE QueryOK(n, p)'
  <2>1. QueryOK(n, p)
    BY DEF SeenInv, NodeOK
  <2>2. CASE p # q
    <3>1. seen'[n][p] = seen[n][p] /\ cache'[n][p] = cache[n][p]
      BY <2>2, LearnFacts
    <3> QED
      BY <2>1, <3>1 DEF QueryOK, Cached, Answering
  <2>3. CASE p = q
    <3>1. seen'[n][q] = v
      BY LearnFacts
    <3>2. \A k \in q : v[k] \in Nat
      BY NaSeCacheAssumption DEF Answering
    <3> QED
      BY <2>3, <3>1, <3>2 DEF QueryOK, Answering
  <2> QED
    BY <2>2, <2>3
<1>2. NodeOK(n)'
  BY <1>1, IdleNode DEF NodeOK
<1>3. SeenInv'
  BY <1>2, LearnFacts, OneNode
<1> QED
  BY <1>3, LearnForward

LEMMA HitSeen ==
    ASSUME OneAtATime, SeenInv, TypeInv', NEW n \in Node, NEW r \in Routine, NEW q \in Query,
           CacheHit(n, r, q)
    PROVE  SeenInv' /\ SeenForward
<1>1. cache[n][q] \in Answering(q) /\ QueryOK(n, q) /\ Cached(n, q)
  BY CachedType DEF SeenInv, NodeOK, CacheHit
<1>2. /\ UNCHANGED <<etcd, writes, cache, pc, qry, key, got>> /\ pc[n][r] = "idle"
      /\ Learn(n, q, cache[n][q])
  BY DEF CacheHit
<1> QED
  BY <1>1, <1>2, LearnSeen DEF QueryOK

LEMMA UncachedSeen ==
    ASSUME OneAtATime, SeenInv, TypeInv', NEW n \in Node, NEW r \in Routine, NEW q \in Query,
           GetUncached(n, r, q)
    PROVE  SeenInv' /\ SeenForward
<1>1. /\ UNCHANGED <<etcd, writes, cache, pc, qry, key, got>> /\ pc[n][r] = "idle"
      /\ n \notin Caching /\ QueryOK(n, q)
  BY DEF GetUncached, SeenInv, NodeOK
<1>2. CASE UNCHANGED seen
  BY <1>1, <1>2, StandStill
     DEF SeenInv, SeenForward, NothingNewer, NodeOK, QueryOK, AnswerOK, Cached, Answering
<1>3. CASE Learn(n, q, Answer(q))
  <2>1. Answer(q) \in Answering(q) /\ \A k \in q : Answer(q)[k] = etcd[k]
    BY AnswerFacts DEF SeenInv, TypeInv, TypeOK, Answer
  <2>2. \A k \in q : seen[n][q][k] <= Answer(q)[k] /\ Answer(q)[k] <= etcd[k]
    BY <1>1, <2>1, NumbersType DEF QueryOK
  <2>3. ~Cached(n, q)'
    BY <1>1 DEF QueryOK, Cached
  <2> QED
    BY <1>1, <1>3, <2>1, <2>2, <2>3, LearnSeen
<1> QED
  BY <1>2, <1>3 DEF GetUncached

\* The node learns nothing and caches nothing new; r is its only goroutine.
LEMMA AskSeen ==
    ASSUME OneAtATime, SeenInv, TypeInv', NEW n \in Node, NEW r \in Routine, AnswerOK(n, r)',
           UNCHANGED <<etcd, writes, seen>>,
           \A q \in Query : cache'[n][q] \in {Nothing, cache[n][q]},
           \A m \in Node : m # n =>
               /\ cache'[m] = cache[m] /\ pc'[m] = pc[m]
               /\ qry'[m] = qry[m] /\ key'[m] = key[m] /\ got'[m] = got[m]
    PROVE  SeenInv' /\ SeenForward
<1>1. ASSUME NEW p \in Query PROVE QueryOK(n, p)'
  <2>1. QueryOK(n, p)
    BY DEF SeenInv, NodeOK
  <2>2. Cached(n, p)' => Cached(n, p) /\ cache'[n][p] = cache[n][p]
    BY DEF Cached
  <2> QED
    BY <2>1, <2>2 DEF QueryOK, Answering
<1>2. NodeOK(n)'
  BY <1>1 DEF NodeOK, OneAtATime
<1>3. SeenInv'
  BY <1>2, OneNode DEF SeenInv
<1> QED
  BY <1>3, StandStill DEF SeenForward

LEMMA MissSeen ==
    ASSUME OneAtATime, SeenInv, TypeInv', NEW n \in Node, NEW r \in Routine, NEW q \in Query,
           CacheMiss(n, r, q)
    PROVE  SeenInv' /\ SeenForward
<1>1. /\ UNCHANGED <<etcd, writes, seen, cache, key, got>> /\ n \in Caching /\ ~Cached(n, q)
      /\ pc'[n][r] = "get" /\ qry'[n][r] = q
      /\ \A m \in Node : m # n => pc'[m] = pc[m] /\ qry'[m] = qry[m]
  BY DEF CacheMiss, SeenInv, TypeInv, TypeOK
<1>2. AnswerOK(n, r)'
  BY <1>1 DEF AnswerOK, Cached
<1> QED
  BY <1>1, <1>2, AskSeen

LEMMA DoneNodes ==
    ASSUME TypeInv, NEW n \in Node, NEW r \in Routine, Done(n, r)
    PROVE  \A m \in Node : m # n =>
               pc'[m] = pc[m] /\ qry'[m] = qry[m] /\ key'[m] = key[m] /\ got'[m] = got[m]
BY DEF Done, TypeInv, TypeOK

LEMMA GetSeen ==
    ASSUME OneAtATime, SeenInv, TypeInv', NEW n \in Node, NEW r \in Routine, Get(n, r)
    PROVE  SeenInv' /\ SeenForward
<1>1. UNCHANGED <<etcd, writes, seen, cache>> /\ pc[n][r] = "get" /\ TypeInv
  BY DEF Get, SeenInv
<1>2. CASE Done(n, r)
  <2>1. AnswerOK(n, r)'
    BY <1>1, <1>2, DoneFacts DEF AnswerOK
  <2> QED
    BY <1>1, <1>2, <2>1, AskSeen, DoneNodes
<1>3. CASE /\ got' = [got EXCEPT ![n][r] = Answer(qry[n][r])]
           /\ pc' = [pc EXCEPT ![n][r] = "set"]
           /\ UNCHANGED <<qry, key>>
  <2> DEFINE q == qry[n][r]
  <2>1. q \in Query
    BY <1>1 DEF TypeInv, HandsOK
  <2>2. /\ pc'[n][r] = "set" /\ got'[n][r] = Answer(q)
        /\ \A m \in Node : m # n => pc'[m] = pc[m] /\ got'[m] = got[m]
    BY <1>1, <1>3 DEF TypeInv, TypeOK
  <2>3. n \in Caching /\ ~Cached(n, q)
    BY <1>1 DEF SeenInv, NodeOK, AnswerOK
  <2>4. qry'[n][r] = q
    BY <1>3
  <2> HIDE DEF q
  <2>5. \A k \in q : seen[n][q][k] <= Answer(q)[k] /\ Answer(q)[k] <= etcd[k]
    <3>1. QueryOK(n, q)
      BY <2>1 DEF SeenInv, NodeOK
    <3> QED
      BY <2>1, <3>1, NumbersType DEF QueryOK, Answer
  <2>6. AnswerOK(n, r)'
    BY <1>1, <2>2, <2>3, <2>4, <2>5 DEF AnswerOK, Cached
  <2> QED
    BY <1>1, <1>3, <2>2, <2>6, AskSeen
<1> QED
  BY <1>2, <1>3 DEF Get

LEMMA SetSeen ==
    ASSUME OneAtATime, SeenInv, TypeInv', NEW n \in Node, NEW r \in Routine, Set(n, r)
    PROVE  SeenInv' /\ SeenForward
<1>1. /\ TypeInv /\ pc[n][r] = "set" /\ UNCHANGED <<etcd, writes>> /\ Done(n, r)
      /\ Learn(n, qry[n][r], got[n][r])
  BY DEF Set, SeenInv
<1>2. PICK q \in Query : q = qry[n][r]
  BY <1>1 DEF TypeInv, HandsOK
<1>3. PICK v \in Answering(q) : v = got[n][r]
  BY <1>1, <1>2 DEF TypeInv, HandsOK
<1>4. AnswerOK(n, r)
  BY DEF SeenInv, NodeOK
<1>5. /\ n \in Caching /\ ~Cached(n, q)
      /\ \A k \in q : seen[n][q][k] <= v[k] /\ v[k] <= etcd[k]
  BY <1>1, <1>2, <1>3, <1>4 DEF AnswerOK
<1>6. /\ \A p \in Query : p # q => cache'[n][p] = cache[n][p]
      /\ cache'[n][q] \in {v, cache[n][q]}
  BY <1>1, <1>2, <1>3, SetFacts
<1>7. \A m \in Node : m # n => cache'[m] = cache[m]
  BY <1>1 DEF Set, TypeInv, TypeOK
<1>8. pc'[n][r] = "idle" /\ Learn(n, q, v)
  BY <1>1, <1>2, <1>3, DoneFacts
<1>9. Cached(n, q)' => n \in Caching /\ cache'[n][q] = v
  BY <1>5, <1>6 DEF Cached
<1> QED
  BY <1>1, <1>5, <1>6, <1>7, <1>8, <1>9, LearnSeen, DoneNodes

LEMMA WatchStepSeen ==
    ASSUME OneAtATime, SeenInv, TypeInv', NEW n \in Node, NEW q \in Query, WatchStep(n, q)
    PROVE  SeenInv' /\ SeenForward
<1>1. UNCHANGED <<etcd, writes, seen, pc, qry, key, got>>
  BY DEF WatchStep, Watch, Invalidate
<1>2. /\ \A p \in Query : cache'[n][p] \in {Nothing, cache[n][p]}
      /\ \A m \in Node : m # n => cache'[m] = cache[m]
  BY DEF WatchStep, Watch, Invalidate, Del, SeenInv, TypeInv, TypeOK
<1>3. ASSUME NEW r \in Routine PROVE AnswerOK(n, r)'
  <2>1. AnswerOK(n, r)
    BY DEF SeenInv, NodeOK
  <2>2. pc[n][r] \in {"get", "set"} => qry[n][r] \in Query
    BY DEF SeenInv, TypeInv, HandsOK
  <2>3. \A p \in Query : ~Cached(n, p) => cache'[n][p] = Nothing
    BY <1>2 DEF Cached
  <2> QED
    BY <1>1, <2>1, <2>2, <2>3 DEF AnswerOK, Cached
<1>4. CASE Routine = {}
  <2>1. ASSUME NEW p \in Query PROVE QueryOK(n, p)'
    <3>1. QueryOK(n, p)
      BY DEF SeenInv, NodeOK
    <3> QED
      BY <1>1, <1>2, <3>1 DEF QueryOK, Answering, Cached
  <2>2. NodeOK(n)'
    BY <1>4, <2>1 DEF NodeOK
  <2>3. SeenInv'
    BY <1>1, <1>2, <2>2, OneNode DEF SeenInv
  <2> QED
    BY <1>1, <2>3, StandStill DEF SeenForward
<1>5. CASE Routine # {}
  <2>1. PICK r \in Routine : TRUE
    BY <1>5
  <2> QED
    BY <1>1, <1>2, <1>3, <2>1, AskSeen
<1> QED
  BY <1>4, <1>5

LEMMA PutLocalSeen ==
    ASSUME OneAtATime, SeenInv, TypeInv', NEW n \in Node, NEW r \in Routine, NEW k \in Key,
           PutLocal(n, r, k)
    PROVE  SeenInv' /\ SeenForward
<1> DEFINE Qs == {q \in Query : k \in q}
<1>1. UNCHANGED <<etcd, writes, seen, qry, got>> /\ Del(n, Qs) /\ Qs \in SUBSET Query /\ TypeInv
  BY DEF PutLocal, SeenInv
<1>2. /\ pc'[n][r] = "put" /\ key'[n][r] = k
      /\ \A m \in Node : m # n => pc'[m] = pc[m] /\ key'[m] = key[m]
  BY <1>1 DEF PutLocal, TypeInv, TypeOK
<1>3. /\ \A q \in Query : k \in q => cache'[n][q] = Nothing
      /\ \A q \in Query : cache'[n][q] \in {Nothing, cache[n][q]}
      /\ \A m \in Node : m # n => cache'[m] = cache[m]
  BY <1>1 DEF Del, TypeInv, TypeOK
<1> HIDE DEF Qs
<1>4. AnswerOK(n, r)'
  BY <1>2, <1>3 DEF AnswerOK, Cached
<1> QED
  BY <1>1, <1>2, <1>3, <1>4, AskSeen

LEMMA RestartSeen ==
    ASSUME OneAtATime, SeenInv, TypeInv', NEW n \in Node, Restart(n)
    PROVE  SeenInv' /\ SeenForward
<1>1. UNCHANGED <<etcd, writes, seen>> /\ TypeInv
  BY DEF Restart, SeenInv
<1>2. /\ \A q \in Query : cache'[n][q] = Nothing
      /\ \A r \in Routine : pc'[n][r] = "idle"
      /\ \A m \in Node : m # n =>
             /\ cache'[m] = cache[m] /\ pc'[m] = pc[m] /\ qry'[m] = qry[m]
             /\ key'[m] = key[m] /\ got'[m] = got[m]
  BY <1>1 DEF Restart, TypeInv, TypeOK
<1>3. ASSUME NEW p \in Query PROVE QueryOK(n, p)'
  <2>1. QueryOK(n, p)
    BY DEF SeenInv, NodeOK
  <2> QED
    BY <1>1, <1>2, <2>1 DEF QueryOK, Answering, Cached
<1>4. NodeOK(n)'
  BY <1>2, <1>3 DEF NodeOK, AnswerOK
<1>5. SeenInv'
  BY <1>1, <1>2, <1>4, OneNode DEF SeenInv
<1> QED
  BY <1>1, <1>5, StandStill DEF SeenForward

\* The write is newer than everything, and n has nothing cached that it concerns.
LEMMA PutEtcdSeen ==
    ASSUME OneAtATime, SeenInv, TypeInv', NEW n \in Node, NEW r \in Routine, PutEtcd(n, r)
    PROVE  SeenInv' /\ SeenForward
<1>1. Done(n, r) /\ UNCHANGED cache /\ pc[n][r] = "put" /\ TypeInv /\ key[n][r] \in Key
  BY DEF PutEtcd, SeenInv, TypeInv, HandsOK
<1>2. pc'[n][r] = "idle"
  BY <1>1, DoneFacts
<1>3. CASE UNCHANGED <<writes, etcd, seen>>
  <2>1. AnswerOK(n, r)'
    BY <1>2 DEF AnswerOK
  <2> QED
    BY <1>1, <1>3, <2>1, AskSeen, DoneNodes
<1>4. CASE ~UNCHANGED <<writes, etcd, seen>>
  <2>1. PICK k \in Key : k = key[n][r]
    BY <1>1
  <2> DEFINE f == [q \in Query |-> IF k \in q THEN [seen[n][q] EXCEPT ![k] = writes + 1]
                                   ELSE seen[n][q]]
  <2>2. /\ writes < MaxWrites /\ writes' = writes + 1 /\ etcd' = [etcd EXCEPT ![k] = writes + 1]
        /\ seen' = [seen EXCEPT ![n] = f]
    BY <1>4, <2>1 DEF PutEtcd
  <2>3. writes \in Nat /\ MaxWrites \in Nat /\ writes + 1 \in 0..MaxWrites
        /\ etcd \in [Key -> 0..MaxWrites]
    BY <1>1, <2>2, NaSeCacheAssumption DEF TypeInv, TypeOK
  <2>4. /\ etcd'[k] = writes + 1 /\ \A j \in Key \ {k} : etcd'[j] = etcd[j]
        /\ \A j \in Key : etcd[j] \in Nat /\ etcd[j] <= writes
    BY <2>2, <2>3 DEF SeenInv, NothingNewer
  <2>5. NothingNewer' /\ \A j \in Key : etcd[j] <= etcd'[j]
    BY <2>2, <2>3, <2>4 DEF NothingNewer
  <2>6. ASSUME NEW q \in Query
        PROVE  /\ f[q] \in Answering(q)
               /\ k \in q => f[q][k] = writes + 1
               /\ \A j \in q : j # k => f[q][j] = seen[n][q][j]
    <3>1. seen[n][q] \in [q -> 0..MaxWrites]
      BY DEF SeenInv, NodeOK, QueryOK, Answering
    <3> QED
      BY <2>3, <3>1 DEF Answering
  <2>7. f \in [Query -> Answers]
    BY <2>6, AnswerFacts
  <2> HIDE DEF f
  <2>8. /\ seen' \in [Node -> [Query -> Answers]] /\ seen'[n] = f
        /\ \A m \in Node : m # n => seen'[m] = seen[m]
    BY <2>2, <2>7 DEF SeenInv
  <2>9. ASSUME NEW q \in Query PROVE QueryOK(n, q)'
    <3>1. QueryOK(n, q) /\ q \subseteq Key
      BY AnswerFacts DEF SeenInv, NodeOK
    <3>2. k \in q => ~Cached(n, q)
      BY <1>1, <2>1 DEF SeenInv, NodeOK, AnswerOK
    <3>3. \A j \in q : seen[n][q][j] \in Nat
      BY NumbersType
    <3>4. \A j \in q : f[q][j] <= etcd'[j]
      BY <2>3, <2>4, <2>6, <3>1, <3>3 DEF QueryOK
    <3>5. Cached(n, q) => \A j \in q : f[q][j] = seen[n][q][j] /\ etcd'[j] = etcd[j]
      BY <2>4, <2>6, <3>1, <3>2
    <3> QED
      BY <1>1, <2>6, <2>8, <3>1, <3>4, <3>5 DEF QueryOK, Cached, Answering
  <2>10. NodeOK(n)'
    BY <1>2, <2>9, IdleNode DEF NodeOK
  <2>11. \A m \in Node : NodeOK(m)'
    BY <1>1, <2>5, <2>8, <2>10, OtherNode, DoneNodes
  <2>12. SeenInv'
    BY <2>5, <2>8, <2>11 DEF SeenInv
  <2>13. Forward(n)
    <3> SUFFICES ASSUME NEW q \in Query, NEW j \in q PROVE seen'[n][q][j] >= seen[n][q][j]
      BY DEF Forward
    <3>1. seen[n][q][j] \in Nat /\ etcd[j] \in Nat /\ j \in Key /\ seen[n][q][j] <= etcd[j]
      BY NumbersType DEF SeenInv, NodeOK, QueryOK
    <3>2. CASE j = k
      BY <2>3, <2>4, <2>6, <2>8, <3>1, <3>2
    <3>3. CASE j # k
      BY <2>6, <2>8, <3>1, <3>3
    <3> QED
      BY <3>2, <3>3
  <2>14. SeenForward
    BY <2>8, <2>13, StandStill DEF SeenForward
  <2> QED
    BY <2>12, <2>14
<1> QED
  BY <1>3, <1>4

LEMMA InitSeen == Init => SeenInv
<1> SUFFICES ASSUME Init PROVE SeenInv
  OBVIOUS
<1>1. TypeInv
  BY InitTypeInv
<1>2. \A k \in Key : etcd[k] = 0 /\ writes = 0
  BY DEF Init
<1>3. NothingNewer
  BY <1>2 DEF NothingNewer
<1>4. \A q \in Query : [k \in q |-> 0] \in Answering(q) /\ [k \in q |-> 0] \in Answers
  BY NaSeCacheAssumption DEF Answering, Answers
<1>5. seen = [n \in Node |-> [q \in Query |-> [k \in q |-> 0]]]
  BY DEF Init
<1>6. seen \in [Node -> [Query -> Answers]]
  BY <1>4, <1>5
<1>7. Nothing \in Answers
  BY DEF Answers
<1>8. \A n \in Node, q \in Query : cache[n][q] \in {Nothing, [k \in q |-> 0]}
  BY <1>4, <1>7, InitFacts
<1>9. \A n \in Node, q \in Query : Cached(n, q) => n \in Caching
  <2>1. PICK warm \in [Caching -> SUBSET Query] :
            cache = [n \in Node |-> [q \in Query |->
                       IF n \in Caching /\ q \in warm[n] THEN [k \in q |-> 0] ELSE Nothing]]
    BY DEF Init
  <2> QED
    BY <2>1 DEF Cached
<1>10. ASSUME NEW n \in Node, NEW q \in Query PROVE QueryOK(n, q)
  <2>1. seen[n][q] = [k \in q |-> 0]
    BY <1>5
  <2>2. q \subseteq Key
    BY AnswerFacts
  <2>3. \A k \in q : seen[n][q][k] = 0 /\ etcd[k] = 0
    BY <1>2, <2>1, <2>2
  <2>4. Cached(n, q) => \A k \in q : cache[n][q][k] = 0
    BY <1>8 DEF Cached
  <2> QED
    BY <1>4, <1>9, <2>1, <2>3, <2>4 DEF QueryOK
<1>11. \A n \in Node, r \in Routine : AnswerOK(n, r)
  BY DEF Init, AnswerOK
<1> QED
  BY <1>1, <1>3, <1>6, <1>10, <1>11 DEF SeenInv, NodeOK

LEMMA NextSeen ==
    ASSUME OneAtATime, SeenInv, [Next]_vars
    PROVE  SeenInv' /\ SeenForward
<1>1. TypeInv'
  BY NextTypeInv DEF SeenInv
<1>2. CASE UNCHANGED vars
  <2>1. UNCHANGED <<etcd, cache, pc, qry, key, got, writes, seen>>
    BY <1>2 DEF vars
  <2> QED
    BY <1>1, <2>1, StandStill
       DEF SeenInv, SeenForward, NothingNewer, NodeOK, QueryOK, AnswerOK, Cached, Answering
<1> QED
  BY <1>1, <1>2, GetSeen, SetSeen, PutEtcdSeen, HitSeen, MissSeen, UncachedSeen, PutLocalSeen,
     WatchStepSeen, RestartSeen DEF Next, RoutineStep, Finished

\* A node whose goroutines use the name service one at a time never unlearns what
\* a query told it or what it wrote itself, whatever becomes of its watches and of
\* its process: its queries after its own put return that write or a later one.
THEOREM NodeGoesForward ==
    ASSUME OneAtATime
    PROVE  Spec => ReadsGoForward
<1>1. SeenInv /\ [Next]_vars => SeenInv'
  BY NextSeen
<1>2. SeenInv /\ [Next]_vars =>
          [\A n \in Node, q \in Query : \A k \in q : seen'[n][q][k] >= seen[n][q][k]]_vars
  BY NextSeen DEF SeenForward, Forward
<1>3. Spec => []SeenInv
  BY <1>1, InitSeen, PTL DEF Spec
<1> QED
  BY <1>2, <1>3, PTL DEF Spec, ReadsGoForward
============================================================================
