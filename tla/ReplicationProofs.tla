------------------------- MODULE ReplicationProofs -------------------------
(***************************************************************************)
(* Proofs about Replication: type correctness, that a write reported as    *)
(* successful is accounted for at every replica, and that in a network     *)
(* where only one node may fail the recovery of that node keeps its        *)
(* promise: it ends with the data of the others. For any number of nodes,  *)
(* clients, items and writes.                                              *)
(***************************************************************************)
EXTENDS Replication, SequenceTheorems, TLAPS

Issued == 1..Len(log)

----------------------------------------------------------------------------
(* The inductive invariant, in parts *)

\* A goroutine that is running serves a write of its own, and is calling a
\* member exactly while it waits for the answer or reports the failure.
ThreadsOK ==
    \A c \in Client :
        /\ pc[c] = "idle" <=> cur[c] = 0
        /\ pc[c] \in {"wait", "report"} <=> tgt[c] # NoNode
        /\ pc[c] \in {"idle", "relay", "store", "trigger"} => todo[c] = {}
        /\ \A d \in Client : cur[c] = cur[d] /\ cur[c] # 0 => c = d

\* Calls are made for accepted writes only, and the state of a call says what
\* its handler has done.
CallsOK ==
    \A w \in Write, m \in Node :
        /\ rpc[w][m] # "none" => w \in Issued
        /\ rpc[w][m] \in {"stored", "ok"} => <<w, m>> \in applied
        /\ rpc[w][m] = "ok" /\ m \in HasTrigger => <<w, m>> \in notified

\* The report of a missed write is in the name service until the node the
\* report is about takes it.
ReportsOK ==
    \A r \in reported :
        /\ r[1] \in Issued
        /\ <<r[2], log[r[1]].id>> \in failnode \/ r \in taken

\* The relay of w has dealt with m.
Relayed(w, m) == rpc[w][m] = "ok" \/ <<w, m>> \in reported

\* A goroutine has dealt with every member but the ones on its list and the
\* one it is calling; a delete is stored before it is relayed, an update before
\* its triggers are called.
ProgressOf(c) ==
    /\ \A m \in peers[cur[c]] : m \in todo[c] \/ m = tgt[c] \/ Relayed(cur[c], m)
    /\ pc[c] = "trigger" \/ (ReqOp(c) = "delete" /\ pc[c] # "store")
          => <<cur[c], At(c)>> \in applied

ProgressOK == \A c \in Client : pc[c] # "idle" => ProgressOf(c)

PeersOK ==
    \A w \in Write :
        /\ w \notin Issued => peers[w] = {}
        /\ w \in Issued => log[w].via \notin peers[w]

\* A write that has been acknowledged is finished.
AckedOK ==
    \A w \in acked :
        /\ w \in Issued
        /\ \A c \in Client : cur[c] # w
        /\ \A m \in peers[w] : Relayed(w, m)
        /\ <<w, log[w].via>> \in applied
        /\ log[w].via \in HasTrigger => <<w, log[w].via>> \in notified

TypeInv == TypeOK /\ ThreadsOK /\ CallsOK

IInv == TypeInv /\ ReportsOK /\ ProgressOK /\ PeersOK /\ AckedOK

----------------------------------------------------------------------------
(* Type correctness *)

LEMMA LogType ==
    ASSUME TypeOK
    PROVE  \A w \in Issued : log[w].id \in Id /\ log[w].op \in Ops /\ log[w].via \in Node
<1> TAKE w \in Issued
<1>1. log \in Seq(Request)
  BY DEF TypeOK
<1>2. log[w] \in Request
  BY <1>1, ElementOfSeq DEF Issued
<1> QED
  BY <1>2, ReplicationAssumption DEF Request

\* The facts about types the proofs below use.
LEMMA TypeFacts ==
    ASSUME TypeOK
    PROVE  /\ Len(log) \in Nat /\ Issued \subseteq Write /\ 0 \notin Write
           /\ \A w \in Write : peers[w] \subseteq Node
           /\ acked \subseteq Write
<1>1. Len(log) \in Nat /\ Len(log) <= MaxWrites
  BY LenProperties DEF TypeOK
<1>2. Issued \subseteq Write /\ 0 \notin Write
  BY <1>1, ReplicationAssumption DEF Issued, Write
<1>3. (\A w \in Write : peers[w] \subseteq Node) /\ acked \subseteq Write
  BY DEF TypeOK
<1> QED
  BY <1>1, <1>2, <1>3

LEMMA ThreadFacts ==
    ASSUME TypeOK, ThreadsOK, NEW c \in Client, pc[c] # "idle"
    PROVE  /\ cur[c] \in Issued /\ cur[c] \in Write /\ cur[c] # 0
           /\ At(c) \in Node /\ ReqId(c) \in Id /\ ReqOp(c) \in {"update", "delete"}
           /\ peers[cur[c]] \subseteq Node
<1>1. cur[c] \in 0..Len(log) /\ cur[c] # 0
  BY DEF TypeOK, ThreadsOK
<1>2. cur[c] \in Issued
  BY <1>1, TypeFacts DEF Issued
<1>3. cur[c] \in Write /\ peers[cur[c]] \subseteq Node
  BY <1>2, TypeFacts
<1> QED
  BY <1>1, <1>2, <1>3, LogType, ReplicationAssumption DEF At, ReqId, ReqOp

\* Accepting a request appends to the log and leaves what is there alone.
LEMMA AcceptLog ==
    ASSUME TypeOK, NEW c \in Client, NEW n \in Node, NEW i \in Id, NEW op, NEW first,
           Accept(c, n, i, op, first)
    PROVE  /\ log' \in Seq(Request)
           /\ Len(log) \in Nat
           /\ Len(log') = Len(log) + 1 /\ Len(log') <= MaxWrites
           /\ \A w \in Issued : log'[w] = log[w]
           /\ log'[Len(log) + 1].id = i
           /\ log'[Len(log) + 1].via = n
           /\ log'[Len(log) + 1].op = op
<1> DEFINE r == [id |-> i, op |-> op, via |-> n]
<1>1. log \in Seq(Request) /\ Len(log) \in Nat
  BY LenProperties DEF TypeOK
<1>2. r \in Request
  <2>1. op \in Ops /\ n \in Entry
    BY DEF Accept
  <2> QED
    BY <2>1 DEF Request
<1>3. log' = Append(log, r) /\ Len(log) < MaxWrites
  BY DEF Accept
<1>4. r.id = i /\ r.via = n /\ r.op = op
  OBVIOUS
<1> HIDE DEF r
<1>5. /\ Append(log, r) \in Seq(Request)
      /\ Len(Append(log, r)) = Len(log) + 1
      /\ \A w \in Issued : Append(log, r)[w] = log[w]
      /\ Append(log, r)[Len(log) + 1] = r
  BY <1>1, <1>2, AppendProperties DEF Issued
<1>6. /\ log' \in Seq(Request)
      /\ Len(log') = Len(log) + 1
      /\ \A w \in Issued : log'[w] = log[w]
      /\ log'[Len(log) + 1] = r
  BY <1>3, <1>5, Zenon
<1>7. Len(log') <= MaxWrites
  <2>1. Len(log) < MaxWrites
    BY <1>3
  <2> QED
    BY <1>1, <1>6, <2>1, ReplicationAssumption
<1> QED
  BY <1>1, <1>4, <1>6, <1>7, Zenon

\* Changing one entry of a table of tables.
LEMMA TableUpdate ==
    ASSUME NEW A, NEW B, NEW V, NEW f \in [A -> [B -> V]],
           NEW x \in A, NEW y \in B, NEW v \in V
    PROVE  /\ [f EXCEPT ![x][y] = v] \in [A -> [B -> V]]
           /\ \A p \in A, q \in B :
                 [f EXCEPT ![x][y] = v][p][q] = IF p = x /\ q = y THEN v ELSE f[p][q]
OBVIOUS

LEMMA InitTypeInv == Init => TypeInv
BY ReplicationAssumption DEF Init, TypeInv, TypeOK, NaSeTypeOK, ThreadsOK, CallsOK, RpcState,
   Write, Issued

LEMMA NextTypeInv == TypeInv /\ [Next]_vars => TypeInv'
<1> SUFFICES ASSUME TypeInv, [Next]_vars PROVE TypeInv'
  OBVIOUS
<1> USE ReplicationAssumption
<1>0. TypeOK /\ ThreadsOK /\ CallsOK
  BY DEF TypeInv
<1>1. \A w \in Issued : log[w].id \in Id /\ log[w].op \in Ops /\ log[w].via \in Node
  BY <1>0, LogType
<1>2. ASSUME NEW c \in Client, NEW n \in Node, NEW i \in Id,
             NEW op, NEW first \in {"relay", "store"}, Accept(c, n, i, op, first)
      PROVE  TypeInv'
  <2>0. /\ log' \in Seq(Request) /\ Len(log) \in Nat
        /\ Len(log') = Len(log) + 1 /\ Len(log') <= MaxWrites
    BY <1>0, <1>2, AcceptLog
  <2>1. /\ items \in [Node -> [Id -> 0..Len(log)]] /\ items' = items
        /\ cur \in [Client -> 0..Len(log)] /\ cur' = [cur EXCEPT ![c] = Len(log) + 1]
        /\ pc' = [pc EXCEPT ![c] = first] /\ pc[c] = "idle"
        /\ todo' = todo /\ tgt' = tgt
    BY <1>0, <1>2 DEF TypeOK, Accept, Goto, nodeVars
  <2>2. TypeOK'
    <3>1. 0..Len(log) \subseteq 0..Len(log') /\ Len(log) + 1 \in 0..Len(log')
      BY <2>0
    <3>2. items' \in [Node -> [Id -> 0..Len(log')]] /\ cur' \in [Client -> 0..Len(log')]
      BY <2>1, <3>1
    <3> QED
      BY <1>0, <1>2, <2>0, <2>1, <3>2 DEF TypeOK, NaSeTypeOK, vars, kgVars, nodeVars, recoveryVars, threadVars, histVars, Accept
  <2>3. ThreadsOK'
    <3>1. \A d \in Client : cur[d] # Len(log) + 1 /\ Len(log) + 1 # 0
      BY <2>0, <2>1
    <3>2. pc \in [Client -> {"idle", "relay", "send", "wait", "report", "store", "trigger"}]
      BY <1>0 DEF TypeOK
    <3> QED
      BY <1>0, <2>1, <3>1, <3>2 DEF ThreadsOK
  <2>4. CallsOK'
    <3>1. rpc' = rpc /\ applied' = applied /\ notified' = notified /\ Issued \subseteq Issued'
      BY <1>2, <2>0 DEF Accept, Issued
    <3> QED
      BY <1>0, <3>1 DEF CallsOK
  <2> QED
    BY <2>2, <2>3, <2>4 DEF TypeInv
<1>3. ASSUME NEW c \in Client, RelayMembers(c)
      PROVE  TypeInv'
  <2>1. TypeOK'
    BY <1>0, <1>1, <1>3 DEF TypeOK, NaSeTypeOK, RpcState, Write, Issued, vars, kgVars, nodeVars, recoveryVars, threadVars, histVars, RelayMembers, Goto, GetKeygroupMembers
  <2>2. ThreadsOK'
    BY <1>0, <1>1, <1>3 DEF ThreadsOK, TypeOK, Issued, vars, kgVars, nodeVars, recoveryVars, threadVars, histVars, RelayMembers, Goto, GetKeygroupMembers
  <2>3. CallsOK'
    BY <1>0, <1>1, <1>3 DEF CallsOK, TypeOK, Issued, Write, RpcState, vars, kgVars, nodeVars, recoveryVars, threadVars, histVars, RelayMembers, Goto, GetKeygroupMembers
  <2> QED
    BY <2>1, <2>2, <2>3 DEF TypeInv
<1>4. ASSUME NEW c \in Client, RelayAborts(c)
      PROVE  TypeInv'
  <2>1. TypeOK'
    BY <1>0, <1>1, <1>4 DEF TypeOK, NaSeTypeOK, RpcState, Write, Issued, vars, kgVars, nodeVars, recoveryVars, threadVars, histVars, RelayAborts, End
  <2>2. ThreadsOK'
    BY <1>0, <1>1, <1>4 DEF ThreadsOK, TypeOK, Issued, vars, kgVars, nodeVars, recoveryVars, threadVars, histVars, RelayAborts, End
  <2>3. CallsOK'
    BY <1>0, <1>1, <1>4 DEF CallsOK, TypeOK, Issued, Write, RpcState, vars, kgVars, nodeVars, recoveryVars, threadVars, histVars, RelayAborts, End
  <2> QED
    BY <2>1, <2>2, <2>3 DEF TypeInv
<1>5. ASSUME NEW c \in Client, NEW m \in Node, Send(c, m)
      PROVE  TypeInv'
  <2>1. TypeOK'
    BY <1>0, <1>1, <1>5 DEF TypeOK, NaSeTypeOK, RpcState, Write, Issued, vars, kgVars, nodeVars, recoveryVars, threadVars, histVars, Send, Goto
  <2>2. ThreadsOK'
    BY <1>0, <1>1, <1>5 DEF ThreadsOK, TypeOK, Issued, vars, kgVars, nodeVars, recoveryVars, threadVars, histVars, Send, Goto
  <2>3. CallsOK'
    <3>1. cur[c] \in Write /\ cur[c] \in Issued
      BY <1>0, <1>5 DEF Send, ThreadsOK, TypeOK, Write, Issued
    <3>2. \A w \in Write, k \in Node :
             rpc'[w][k] = IF w = cur[c] /\ k = m THEN "sent" ELSE rpc[w][k]
      BY <1>0, <1>5, <3>1, TableUpdate DEF Send, TypeOK, RpcState
    <3>3. applied' = applied /\ notified' = notified /\ Issued' = Issued
      BY <1>5 DEF Send, histVars, Issued
    <3> QED
      BY <1>0, <3>1, <3>2, <3>3 DEF CallsOK
  <2> QED
    BY <2>1, <2>2, <2>3 DEF TypeInv
<1>6. ASSUME NEW c \in Client, SendReturns(c)
      PROVE  TypeInv'
  <2>1. TypeOK'
    BY <1>0, <1>1, <1>6 DEF TypeOK, NaSeTypeOK, RpcState, Write, Issued, vars, kgVars, nodeVars, recoveryVars, threadVars, histVars, SendReturns, Goto
  <2>2. ThreadsOK'
    BY <1>0, <1>1, <1>6 DEF ThreadsOK, TypeOK, Issued, vars, kgVars, nodeVars, recoveryVars, threadVars, histVars, SendReturns, Goto
  <2>3. CallsOK'
    BY <1>0, <1>1, <1>6 DEF CallsOK, TypeOK, Issued, Write, RpcState, vars, kgVars, nodeVars, recoveryVars, threadVars, histVars, SendReturns, Goto
  <2> QED
    BY <2>1, <2>2, <2>3 DEF TypeInv
<1>7. ASSUME NEW c \in Client, SendFails(c)
      PROVE  TypeInv'
  <2>1. TypeOK'
    BY <1>0, <1>1, <1>7 DEF TypeOK, NaSeTypeOK, RpcState, Write, Issued, vars, kgVars, nodeVars, recoveryVars, threadVars, histVars, SendFails, Goto
  <2>2. ThreadsOK'
    BY <1>0, <1>1, <1>7 DEF ThreadsOK, TypeOK, Issued, vars, kgVars, nodeVars, recoveryVars, threadVars, histVars, SendFails, Goto
  <2>3. CallsOK'
    BY <1>0, <1>1, <1>7 DEF CallsOK, TypeOK, Issued, Write, RpcState, vars, kgVars, nodeVars, recoveryVars, threadVars, histVars, SendFails, Goto
  <2> QED
    BY <2>1, <2>2, <2>3 DEF TypeInv
<1>8. ASSUME NEW c \in Client, Report(c)
      PROVE  TypeInv'
  <2>1. TypeOK'
    <3>1. tgt[c] \in Node /\ cur[c] \in Write /\ cur[c] \in Issued
      BY <1>0, <1>8 DEF Report, ThreadsOK, TypeOK, Write, Issued
    <3>2. /\ failnode \subseteq Node \X Id /\ reported \subseteq Write \X Node
          /\ ReqId(c) \in Id
      BY <1>0, <1>1, <3>1 DEF TypeOK, NaSeTypeOK, ReqId
    <3>3. failnode' \subseteq Node \X Id /\ reported' \subseteq Write \X Node
      BY <1>8, <3>1, <3>2 DEF Report, ReportFailedNode
    <3> QED
      BY <1>0, <1>8, <3>3 DEF TypeOK, NaSeTypeOK, vars, kgVars, nodeVars, recoveryVars, threadVars, histVars, Report, Goto
  <2>2. ThreadsOK'
    BY <1>0, <1>1, <1>8 DEF ThreadsOK, TypeOK, Issued, vars, kgVars, nodeVars, recoveryVars, threadVars, histVars, Report, Goto, ReportFailedNode, ReqId
  <2>3. CallsOK'
    BY <1>0, <1>1, <1>8 DEF CallsOK, TypeOK, Issued, Write, RpcState, vars, kgVars, nodeVars, recoveryVars, threadVars, histVars, Report, Goto, ReportFailedNode, ReqId
  <2> QED
    BY <2>1, <2>2, <2>3 DEF TypeInv
<1>9. ASSUME NEW c \in Client, RelayDone(c)
      PROVE  TypeInv'
  <2>1. TypeOK'
    BY <1>0, <1>1, <1>9 DEF TypeOK, NaSeTypeOK, RpcState, Write, Issued, vars, kgVars, nodeVars, recoveryVars, threadVars, histVars, RelayDone, Goto, AfterRelay
  <2>2. ThreadsOK'
    BY <1>0, <1>1, <1>9 DEF ThreadsOK, TypeOK, Issued, vars, kgVars, nodeVars, recoveryVars, threadVars, histVars, RelayDone, Goto, AfterRelay
  <2>3. CallsOK'
    BY <1>0, <1>1, <1>9 DEF CallsOK, TypeOK, Issued, Write, RpcState, vars, kgVars, nodeVars, recoveryVars, threadVars, histVars, RelayDone, Goto, AfterRelay
  <2> QED
    BY <2>1, <2>2, <2>3 DEF TypeInv
<1>10. ASSUME NEW c \in Client, StoreLocal(c)
      PROVE  TypeInv'
  <2>1. TypeOK'
    <3>1. cur[c] \in Write /\ cur[c] \in Issued
      BY <1>0, <1>10 DEF StoreLocal, ThreadsOK, TypeOK, Write, Issued
    <3>2. At(c) \in Node /\ log[cur[c]].id \in Id /\ Val(cur[c]) \in 0..Len(log)
      BY <1>0, <1>1, <3>1 DEF At, Val, Issued
    <3>3. items' \in [Node -> [Id -> 0..Len(log)]]
      BY <1>0, <1>10, <3>2, TableUpdate DEF StoreLocal, StoreWrite, TypeOK
    <3>4. applied' \subseteq Write \X Node
      BY <1>0, <1>10, <3>1, <3>2 DEF StoreLocal, StoreWrite, TypeOK
    <3> QED
      BY <1>0, <1>10, <3>3, <3>4 DEF TypeOK, NaSeTypeOK, vars, kgVars, nodeVars, recoveryVars, threadVars, histVars, StoreLocal, Goto, AfterStore
  <2>2. ThreadsOK'
    BY <1>0, <1>1, <1>10 DEF ThreadsOK, TypeOK, Issued, vars, kgVars, nodeVars, recoveryVars, threadVars, histVars, StoreLocal, StoreWrite, Goto, AfterStore, At, Val
  <2>3. CallsOK'
    BY <1>0, <1>1, <1>10 DEF CallsOK, TypeOK, Issued, Write, RpcState, vars, kgVars, nodeVars, recoveryVars, threadVars, histVars, StoreLocal, StoreWrite, Goto, AfterStore, At, Val
  <2> QED
    BY <2>1, <2>2, <2>3 DEF TypeInv
<1>11. ASSUME NEW c \in Client, StoreLocalFails(c)
      PROVE  TypeInv'
  <2>1. TypeOK'
    BY <1>0, <1>1, <1>11 DEF TypeOK, NaSeTypeOK, RpcState, Write, Issued, vars, kgVars, nodeVars, recoveryVars, threadVars, histVars, StoreLocalFails, End
  <2>2. ThreadsOK'
    BY <1>0, <1>1, <1>11 DEF ThreadsOK, TypeOK, Issued, vars, kgVars, nodeVars, recoveryVars, threadVars, histVars, StoreLocalFails, End
  <2>3. CallsOK'
    BY <1>0, <1>1, <1>11 DEF CallsOK, TypeOK, Issued, Write, RpcState, vars, kgVars, nodeVars, recoveryVars, threadVars, histVars, StoreLocalFails, End
  <2> QED
    BY <2>1, <2>2, <2>3 DEF TypeInv
<1>12. ASSUME NEW c \in Client, TriggerLocal(c)
      PROVE  TypeInv'
  <2>1. TypeOK'
    <3>1. cur[c] \in Write /\ cur[c] \in Issued /\ At(c) \in Node
      BY <1>0, <1>1, <1>12 DEF TriggerLocal, ThreadsOK, TypeOK, Write, Issued, At
    <3>2. notified' \subseteq Write \X Node /\ acked' \subseteq Write
      BY <1>0, <1>12, <3>1 DEF TriggerLocal, TriggerSucceeds, TriggerFails, TypeOK
    <3> QED
      BY <1>0, <1>12, <3>2 DEF TypeOK, NaSeTypeOK, vars, kgVars, nodeVars, recoveryVars, threadVars, histVars, TriggerLocal, End
  <2>2. ThreadsOK'
    BY <1>0, <1>1, <1>12 DEF ThreadsOK, TypeOK, Issued, vars, kgVars, nodeVars, recoveryVars, threadVars, histVars, TriggerLocal, TriggerSucceeds, TriggerFails, End, At
  <2>3. CallsOK'
    BY <1>0, <1>1, <1>12 DEF CallsOK, TypeOK, Issued, Write, RpcState, vars, kgVars, nodeVars, recoveryVars, threadVars, histVars, TriggerLocal, TriggerSucceeds, TriggerFails, End, At
  <2> QED
    BY <2>1, <2>2, <2>3 DEF TypeInv
<1>13. ASSUME NEW w \in Write, NEW m \in Node, RemoteStore(w, m)
      PROVE  TypeInv'
  <2>1. TypeOK'
    <3>1. w \in Issued
      BY <1>0, <1>13 DEF RemoteStore, CallsOK
    <3>2. log[w].id \in Id /\ Val(w) \in 0..Len(log)
      BY <1>0, <1>1, <3>1 DEF Val, Issued
    <3>3. items' \in [Node -> [Id -> 0..Len(log)]]
      <4>1. items \in [Node -> [Id -> 0..Len(log)]]
        BY <1>0 DEF TypeOK
      <4>2. items' = items \/ items' = [items EXCEPT ![m][log[w].id] = Val(w)]
        BY <1>13 DEF RemoteStore, StoreWrite
      <4>3. [items EXCEPT ![m][log[w].id] = Val(w)] \in [Node -> [Id -> 0..Len(log)]]
        BY <3>2, <4>1, TableUpdate
      <4> QED
        BY <4>1, <4>2, <4>3
    <3>4. applied' \subseteq Write \X Node
      BY <1>0, <1>13 DEF RemoteStore, StoreWrite, TypeOK
    <3>5. rpc' \in [Write -> [Node -> RpcState]]
      <4>1. rpc \in [Write -> [Node -> RpcState]] /\ {"stored", "err"} \subseteq RpcState
        BY <1>0 DEF TypeOK, RpcState
      <4>2. \E v \in {"stored", "err"} : rpc' = [rpc EXCEPT ![w][m] = v]
        BY <1>13 DEF RemoteStore
      <4> QED
        BY <4>1, <4>2, TableUpdate
    <3> QED
      BY <1>0, <1>13, <3>3, <3>4, <3>5 DEF TypeOK, NaSeTypeOK, vars, kgVars, nodeVars, recoveryVars, threadVars, histVars, RemoteStore
  <2>2. ThreadsOK'
    BY <1>0, <1>1, <1>13 DEF ThreadsOK, TypeOK, Issued, vars, kgVars, nodeVars, recoveryVars, threadVars, histVars, RemoteStore, StoreWrite, Val
  <2>3. CallsOK'
    <3>1. w \in Issued
      BY <1>0, <1>13 DEF RemoteStore, CallsOK
    <3>2. \A v \in RpcState : rpc' = [rpc EXCEPT ![w][m] = v] => \A u \in Write, k \in Node :
             rpc'[u][k] = IF u = w /\ k = m THEN v ELSE rpc[u][k]
      BY <1>0, TableUpdate DEF TypeOK
    <3>3. \/ rpc' = [rpc EXCEPT ![w][m] = "stored"] /\ <<w, m>> \in applied'
          \/ rpc' = [rpc EXCEPT ![w][m] = "err"]
      BY <1>13 DEF RemoteStore, StoreWrite
    <3>4. applied \subseteq applied' /\ notified' = notified /\ Issued' = Issued
      BY <1>13 DEF RemoteStore, StoreWrite, Issued
    <3>5. "stored" \in RpcState /\ "err" \in RpcState
      BY DEF RpcState
    <3>6. CASE rpc' = [rpc EXCEPT ![w][m] = "stored"] /\ <<w, m>> \in applied'
      <4>1. \A u \in Write, k \in Node :
               rpc'[u][k] = IF u = w /\ k = m THEN "stored" ELSE rpc[u][k]
        BY <3>2, <3>5, <3>6
      <4>2. <<w, m>> \in applied'
        BY <3>6
      <4> QED
        BY <1>0, <3>1, <3>4, <4>1, <4>2 DEF CallsOK
    <3>7. CASE rpc' = [rpc EXCEPT ![w][m] = "err"]
      <4>1. \A u \in Write, k \in Node :
               rpc'[u][k] = IF u = w /\ k = m THEN "err" ELSE rpc[u][k]
        BY <3>2, <3>5, <3>7
      <4> QED
        BY <1>0, <3>1, <3>4, <4>1 DEF CallsOK
    <3> QED
      BY <3>3, <3>6, <3>7
  <2> QED
    BY <2>1, <2>2, <2>3 DEF TypeInv
<1>14. ASSUME NEW w \in Write, NEW m \in Node, RemoteTrigger(w, m)
      PROVE  TypeInv'
  <2>1. TypeOK'
    <3>1. notified' \subseteq Write \X Node
      BY <1>0, <1>14 DEF RemoteTrigger, TriggerSucceeds, TriggerFails, TypeOK
    <3>2. rpc' \in [Write -> [Node -> RpcState]]
      <4>1. rpc \in [Write -> [Node -> RpcState]] /\ {"ok", "err"} \subseteq RpcState
        BY <1>0 DEF TypeOK, RpcState
      <4>2. \E v \in {"ok", "err"} : rpc' = [rpc EXCEPT ![w][m] = v]
        BY <1>14 DEF RemoteTrigger
      <4> QED
        BY <4>1, <4>2, TableUpdate
    <3> QED
      BY <1>0, <1>14, <3>1, <3>2 DEF TypeOK, NaSeTypeOK, vars, kgVars, nodeVars, recoveryVars, threadVars, histVars, RemoteTrigger
  <2>2. ThreadsOK'
    BY <1>0, <1>1, <1>14 DEF ThreadsOK, TypeOK, Issued, vars, kgVars, nodeVars, recoveryVars, threadVars, histVars, RemoteTrigger, TriggerSucceeds, TriggerFails
  <2>3. CallsOK'
    <3>1. \A v \in RpcState : rpc' = [rpc EXCEPT ![w][m] = v] => \A u \in Write, k \in Node :
             rpc'[u][k] = IF u = w /\ k = m THEN v ELSE rpc[u][k]
      BY <1>0, TableUpdate DEF TypeOK
    <3>2. w \in Issued /\ <<w, m>> \in applied
      BY <1>0, <1>14 DEF RemoteTrigger, CallsOK
    <3>3. notified \subseteq notified' /\ applied' = applied /\ Issued' = Issued
      BY <1>14 DEF RemoteTrigger, TriggerSucceeds, TriggerFails, Issued
    <3>4. "ok" \in RpcState /\ "err" \in RpcState
      BY DEF RpcState
    <3>5. CASE TriggerSucceeds(m, w) /\ rpc' = [rpc EXCEPT ![w][m] = "ok"]
      <4>1. \A u \in Write, k \in Node :
               rpc'[u][k] = IF u = w /\ k = m THEN "ok" ELSE rpc[u][k]
        BY <3>1, <3>4, <3>5
      <4>2. m \in HasTrigger => <<w, m>> \in notified'
        BY <3>5 DEF TriggerSucceeds
      <4> QED
        BY <1>0, <3>2, <3>3, <4>1, <4>2 DEF CallsOK
    <3>6. CASE rpc' = [rpc EXCEPT ![w][m] = "err"]
      <4>1. \A u \in Write, k \in Node :
               rpc'[u][k] = IF u = w /\ k = m THEN "err" ELSE rpc[u][k]
        BY <3>1, <3>4, <3>6
      <4> QED
        BY <1>0, <3>2, <3>3, <4>1 DEF CallsOK
    <3> QED
      BY <1>14, <3>5, <3>6 DEF RemoteTrigger
  <2> QED
    BY <2>1, <2>2, <2>3 DEF TypeInv
<1>15. ASSUME NEW w \in Write, NEW m \in Node, ConnectionRefused(w, m)
      PROVE  TypeInv'
  <2>1. TypeOK'
    BY <1>0, <1>1, <1>15 DEF TypeOK, NaSeTypeOK, RpcState, Write, Issued, vars, kgVars, nodeVars, recoveryVars, threadVars, histVars, ConnectionRefused
  <2>2. ThreadsOK'
    BY <1>0, <1>1, <1>15 DEF ThreadsOK, TypeOK, Issued, vars, kgVars, nodeVars, recoveryVars, threadVars, histVars, ConnectionRefused
  <2>3. CallsOK'
    BY <1>0, <1>1, <1>15 DEF CallsOK, TypeOK, Issued, Write, RpcState, vars, kgVars, nodeVars, recoveryVars, threadVars, histVars, ConnectionRefused
  <2> QED
    BY <2>1, <2>2, <2>3 DEF TypeInv
<1>16. ASSUME NEW n \in Node, Crash(n)
      PROVE  TypeInv'
  <2>1. TypeOK'
    BY <1>0, <1>1, <1>16 DEF TypeOK, NaSeTypeOK, RpcState, Write, Issued, vars, kgVars, nodeVars, recoveryVars, threadVars, histVars, Crash, Serving, Idle
  <2>2. ThreadsOK'
    BY <1>0, <1>1, <1>16 DEF ThreadsOK, TypeOK, Issued, vars, kgVars, nodeVars, recoveryVars, threadVars, histVars, Crash, Serving, Idle
  <2>3. CallsOK'
    BY <1>0, <1>1, <1>16 DEF CallsOK, TypeOK, Issued, Write, RpcState, vars, kgVars, nodeVars, recoveryVars, threadVars, histVars, Crash, Serving, Idle
  <2> QED
    BY <2>1, <2>2, <2>3 DEF TypeInv
<1>17. ASSUME NEW n \in Node, Restart(n)
      PROVE  TypeInv'
  <2>1. TypeOK'
    <3>1. forgetting' \in [Node -> SUBSET Id]
      <4>1. forgetting \in [Node -> SUBSET Id] /\ MissedRecords(n) \in SUBSET Id
        BY <1>0 DEF TypeOK, MissedRecords
      <4> QED
        BY <1>17, <4>1 DEF Restart
    <3> QED
      BY <1>0, <1>17, <3>1 DEF TypeOK, NaSeTypeOK, vars, kgVars, nodeVars, recoveryVars, threadVars, histVars, Restart
  <2>2. ThreadsOK'
    BY <1>0, <1>1, <1>17 DEF ThreadsOK, TypeOK, Issued, vars, kgVars, nodeVars, recoveryVars, threadVars, histVars, Restart, MissedRecords
  <2>3. CallsOK'
    BY <1>0, <1>1, <1>17 DEF CallsOK, TypeOK, Issued, Write, RpcState, vars, kgVars, nodeVars, recoveryVars, threadVars, histVars, Restart, MissedRecords
  <2> QED
    BY <2>1, <2>2, <2>3 DEF TypeInv
<1>18. ASSUME NEW n \in Node, NEW i \in Id, Forget(n, i)
      PROVE  TypeInv'
  <2>1. TypeOK'
    BY <1>0, <1>1, <1>18 DEF TypeOK, NaSeTypeOK, RpcState, Write, Issued, vars, kgVars, nodeVars, recoveryVars, threadVars, histVars, Forget, RemoveRecord
  <2>2. ThreadsOK'
    BY <1>0, <1>1, <1>18 DEF ThreadsOK, TypeOK, Issued, vars, kgVars, nodeVars, recoveryVars, threadVars, histVars, Forget, RemoveRecord
  <2>3. CallsOK'
    BY <1>0, <1>1, <1>18 DEF CallsOK, TypeOK, Issued, Write, RpcState, vars, kgVars, nodeVars, recoveryVars, threadVars, histVars, Forget, RemoveRecord
  <2> QED
    BY <2>1, <2>2, <2>3 DEF TypeInv
<1>19. ASSUME NEW n \in Node, NEW i \in Id, Fetch(n, i)
      PROVE  TypeInv'
  <2>1. TypeOK'
    <3>1. items' \in [Node -> [Id -> 0..Len(log)]]
      <4>1. PICK s \in Node : items' = [items EXCEPT ![n][i] = items[s][i]]
        BY <1>19 DEF Fetch, GetNodeWithBiggerExpiry, GetKeygroupMembers
      <4>2. items \in [Node -> [Id -> 0..Len(log)]] /\ items[s][i] \in 0..Len(log)
        BY <1>0 DEF TypeOK
      <4> QED
        BY <4>1, <4>2, TableUpdate
    <3> QED
      BY <1>0, <1>19, <3>1 DEF TypeOK, NaSeTypeOK, vars, kgVars, nodeVars, recoveryVars, threadVars, histVars, Fetch
  <2>2. ThreadsOK'
    BY <1>0, <1>1, <1>19 DEF ThreadsOK, TypeOK, Issued, vars, kgVars, nodeVars, recoveryVars, threadVars, histVars, Fetch, GetNodeWithBiggerExpiry, GetKeygroupMembers
  <2>3. CallsOK'
    BY <1>0, <1>1, <1>19 DEF CallsOK, TypeOK, Issued, Write, RpcState, vars, kgVars, nodeVars, recoveryVars, threadVars, histVars, Fetch, GetNodeWithBiggerExpiry, GetKeygroupMembers
  <2> QED
    BY <2>1, <2>2, <2>3 DEF TypeInv
<1>20. ASSUME NEW n \in Node, NEW i \in Id, FetchFails(n, i)
      PROVE  TypeInv'
  <2>1. TypeOK'
    BY <1>0, <1>1, <1>20 DEF TypeOK, NaSeTypeOK, RpcState, Write, Issued, vars, kgVars, nodeVars, recoveryVars, threadVars, histVars, FetchFails
  <2>2. ThreadsOK'
    BY <1>0, <1>1, <1>20 DEF ThreadsOK, TypeOK, Issued, vars, kgVars, nodeVars, recoveryVars, threadVars, histVars, FetchFails
  <2>3. CallsOK'
    BY <1>0, <1>1, <1>20 DEF CallsOK, TypeOK, Issued, Write, RpcState, vars, kgVars, nodeVars, recoveryVars, threadVars, histVars, FetchFails
  <2> QED
    BY <2>1, <2>2, <2>3 DEF TypeInv
<1>21. ASSUME NEW n \in Node, Serve(n)
      PROVE  TypeInv'
  <2>1. TypeOK'
    BY <1>0, <1>1, <1>21 DEF TypeOK, NaSeTypeOK, RpcState, Write, Issued, vars, kgVars, nodeVars, recoveryVars, threadVars, histVars, Serve
  <2>2. ThreadsOK'
    BY <1>0, <1>1, <1>21 DEF ThreadsOK, TypeOK, Issued, vars, kgVars, nodeVars, recoveryVars, threadVars, histVars, Serve
  <2>3. CallsOK'
    BY <1>0, <1>1, <1>21 DEF CallsOK, TypeOK, Issued, Write, RpcState, vars, kgVars, nodeVars, recoveryVars, threadVars, histVars, Serve
  <2> QED
    BY <2>1, <2>2, <2>3 DEF TypeInv
<1>22. ASSUME NEW n \in Node, NEW i \in Id, Expire(n, i)
      PROVE  TypeInv'
  <2>1. TypeOK'
    <3>1. items' \in [Node -> [Id -> 0..Len(log)]]
      <4>1. items \in [Node -> [Id -> 0..Len(log)]] /\ 0 \in 0..Len(log)
        BY <1>0, LenProperties DEF TypeOK
      <4> QED
        BY <1>22, <4>1, TableUpdate DEF Expire
    <3> QED
      BY <1>0, <1>22, <3>1 DEF TypeOK, NaSeTypeOK, vars, kgVars, nodeVars, recoveryVars, threadVars, histVars, Expire
  <2>2. ThreadsOK'
    BY <1>0, <1>1, <1>22 DEF ThreadsOK, TypeOK, Issued, vars, kgVars, nodeVars, recoveryVars, threadVars, histVars, Expire
  <2>3. CallsOK'
    BY <1>0, <1>1, <1>22 DEF CallsOK, TypeOK, Issued, Write, RpcState, vars, kgVars, nodeVars, recoveryVars, threadVars, histVars, Expire
  <2> QED
    BY <2>1, <2>2, <2>3 DEF TypeInv
<1>23. CASE UNCHANGED vars
  BY <1>0, <1>23 DEF TypeInv, TypeOK, NaSeTypeOK, ThreadsOK, CallsOK, Issued, vars, kgVars, nodeVars, recoveryVars, threadVars, histVars
<1> QED
  BY <1>2, <1>3, <1>4, <1>5, <1>6, <1>7, <1>8, <1>9, <1>10, <1>11, <1>12, <1>13, <1>14, <1>15, <1>16, <1>17, <1>18, <1>19, <1>20, <1>21, <1>22, <1>23 DEF Next, HandleUpdate, HandleDelete, ThreadStep, RemoteStep, RecoveryStep, Done

\* Every variable has its type in every reachable state: in particular what a
\* node stores is always a write some client asked for.
THEOREM TypeCorrect == Spec => []TypeOK
<1>1. TypeInv => TypeOK
  BY DEF TypeInv
<1> QED
  BY <1>1, InitTypeInv, NextTypeInv, PTL DEF Spec

----------------------------------------------------------------------------
(* Successful writes are accounted for *)

\* What most steps leave alone, or only add to.
Grows ==
    /\ log' = log
    /\ reported \subseteq reported' /\ applied \subseteq applied'
    /\ notified \subseteq notified'

SameCalls(w) ==
    /\ peers'[w] = peers[w]
    /\ \A m \in Node : rpc[w][m] = "ok" => rpc'[w][m] = "ok"

SameThread(c) ==
    pc'[c] = pc[c] /\ cur'[c] = cur[c] /\ todo'[c] = todo[c] /\ tgt'[c] = tgt[c]

LEMMA KeepAcked ==
    ASSUME TypeOK, AckedOK, Grows, acked' = acked,
           \A w \in acked : SameCalls(w),
           \A c \in Client : cur'[c] \in {cur[c], 0}
    PROVE  AckedOK'
<1> SUFFICES ASSUME NEW w \in acked
    PROVE  /\ w \in Issued'
           /\ \A c \in Client : cur'[c] # w
           /\ \A m \in peers'[w] : Relayed(w, m)'
           /\ <<w, log'[w].via>> \in applied'
           /\ log'[w].via \in HasTrigger => <<w, log'[w].via>> \in notified'
  BY DEF AckedOK
<1>1. w \in Write /\ peers[w] \subseteq Node /\ w # 0
  BY TypeFacts
<1>2. Issued' = Issued
  BY DEF Grows, Issued
<1>3. \A m \in peers'[w] : Relayed(w, m)'
  BY <1>1 DEF AckedOK, SameCalls, Relayed, Grows
<1>4. \A c \in Client : cur'[c] # w
  BY <1>1 DEF AckedOK
<1>5. w \in Issued' /\ <<w, log'[w].via>> \in applied'
  BY <1>2 DEF AckedOK, Grows
<1>6. log'[w].via \in HasTrigger => <<w, log'[w].via>> \in notified'
  BY DEF AckedOK, Grows
<1> QED
  BY <1>3, <1>4, <1>5, <1>6

LEMMA KeepProgress ==
    ASSUME TypeInv, ProgressOK, Grows, NEW c \in Client, pc[c] # "idle",
           SameThread(c), SameCalls(cur[c])
    PROVE  ProgressOf(c)'
<1>1. cur[c] \in Write /\ peers[cur[c]] \subseteq Node /\ ProgressOf(c)
  BY ThreadFacts DEF TypeInv, ProgressOK
<1>2. \A m \in peers'[cur'[c]] : m \in todo'[c] \/ m = tgt'[c] \/ Relayed(cur[c], m)'
  BY <1>1 DEF ProgressOf, SameThread, SameCalls, Relayed, Grows
<1> QED
  BY <1>1, <1>2 DEF ProgressOf, SameThread, Grows, Relayed, ReqOp, At

LEMMA KeepReports ==
    ASSUME ReportsOK, log' = log, reported' = reported, failnode' = failnode, taken' = taken
    PROVE  ReportsOK'
BY DEF ReportsOK, Issued

LEMMA KeepPeers ==
    ASSUME PeersOK, log' = log, peers' = peers
    PROVE  PeersOK'
BY DEF PeersOK, Issued

\* A step of a peer, or of a starting node that takes no report.
LEMMA OtherStep ==
    ASSUME IInv, TypeInv', Grows, UNCHANGED <<threadVars, failnode, peers, reported, taken, acked>>,
           \A w \in Write, m \in Node : rpc[w][m] = "ok" => rpc'[w][m] = "ok"
    PROVE  IInv'
<1>1. \A w \in Write : SameCalls(w)
  BY DEF SameCalls
<1>2. \A c \in Client : SameThread(c)
  BY DEF SameThread, threadVars
<1>3. AckedOK'
  <2>1. \A w \in acked : SameCalls(w)
    BY <1>1 DEF IInv, TypeInv, TypeOK
  <2>2. TypeOK /\ AckedOK /\ acked' = acked
    BY DEF IInv, TypeInv
  <2>3. \A c \in Client : cur'[c] \in {cur[c], 0}
    BY <1>2 DEF SameThread
  <2> QED
    BY <2>1, <2>2, <2>3, KeepAcked
<1>4. ProgressOK'
  <2> SUFFICES ASSUME NEW c \in Client, pc'[c] # "idle" PROVE ProgressOf(c)'
    BY DEF ProgressOK
  <2>1. pc[c] # "idle" /\ SameThread(c)
    BY <1>2 DEF SameThread
  <2>2. SameCalls(cur[c])
    BY <1>1, <2>1, ThreadFacts DEF IInv, TypeInv
  <2> QED
    BY <2>1, <2>2, KeepProgress DEF IInv
<1>5. ReportsOK' /\ PeersOK'
  BY KeepReports, KeepPeers DEF IInv, Grows
<1> QED
  BY <1>3, <1>4, <1>5 DEF IInv

\* A step of the goroutine that serves c.
LEMMA ThreadsStep ==
    ASSUME IInv, TypeInv', Grows, NEW c \in Client, pc[c] # "idle",
           \A d \in Client : d # c => SameThread(d),
           cur'[c] \in {cur[c], 0},
           \A w \in Write : w # cur[c] => SameCalls(w),
           acked' = acked, ReportsOK', PeersOK',
           pc'[c] # "idle" => ProgressOf(c)'
    PROVE  IInv'
<1>1. TypeInv /\ TypeOK /\ ThreadsOK /\ AckedOK /\ ProgressOK
  BY DEF IInv, TypeInv
<1>2. \A w \in acked : SameCalls(w)
  BY <1>1 DEF TypeOK, AckedOK
<1>3. AckedOK'
  <2>1. \A d \in Client : cur'[d] \in {cur[d], 0}
    BY DEF SameThread
  <2> QED
    BY <1>1, <1>2, <2>1, KeepAcked
<1>4. ProgressOK'
  <2> SUFFICES ASSUME NEW d \in Client, pc'[d] # "idle", d # c PROVE ProgressOf(d)'
    BY DEF ProgressOK
  <2>1. pc[d] # "idle" /\ SameThread(d)
    BY DEF SameThread
  <2>2. cur[d] \in Write /\ cur[d] # cur[c]
    BY <1>1, <2>1, ThreadFacts DEF ThreadsOK
  <2> QED
    BY <1>1, <2>1, <2>2, KeepProgress
<1> QED
  BY <1>3, <1>4 DEF IInv

LEMMA InitIInv == Init => IInv
<1> SUFFICES ASSUME Init PROVE IInv
  OBVIOUS
<1>1. TypeInv
  BY InitTypeInv
<1>2. /\ reported = {} /\ acked = {} /\ \A c \in Client : pc[c] = "idle"
      /\ \A w \in Write : peers[w] = {}
  BY DEF Init
<1> QED
  BY <1>1, <1>2 DEF IInv, ReportsOK, ProgressOK, PeersOK, AckedOK

LEMMA AcceptIInv ==
    ASSUME IInv, TypeInv', NEW c \in Client, NEW n \in Node, NEW i \in Id,
           HandleUpdate(c, n, i) \/ HandleDelete(c, n, i)
    PROVE  IInv'
<1> DEFINE W == Len(log) + 1
<1>1. PICK op, first : /\ Accept(c, n, i, op, first)
                       /\ <<op, first>> \in {<<"update", "relay">>, <<"delete", "store">>}
  BY DEF HandleUpdate, HandleDelete
<1>2. TypeOK /\ ThreadsOK /\ AckedOK /\ ProgressOK /\ ReportsOK /\ PeersOK
  BY DEF IInv, TypeInv
<1>3. /\ Len(log) \in Nat /\ Len(log') = W
      /\ \A w \in Issued : log'[w] = log[w]
      /\ log'[W].via = n /\ log'[W].op = op
  BY <1>1, <1>2, AcceptLog
<1>4. Issued' = Issued \cup {W} /\ W \notin Issued
  BY <1>3 DEF Issued
<1>5. /\ cur' = [cur EXCEPT ![c] = W] /\ pc' = [pc EXCEPT ![c] = first]
      /\ cur \in [Client -> 0..Len(log)]
      /\ pc \in [Client -> {"idle", "relay", "send", "wait", "report", "store", "trigger"}]
      /\ UNCHANGED <<todo, tgt, rpc, peers, applied, notified, reported, taken, acked, failnode>>
  BY <1>1, <1>2 DEF Accept, Goto, TypeOK
<1>6. ReportsOK'
  BY <1>2, <1>3, <1>4, <1>5 DEF ReportsOK
<1>7. W \in Write => peers[W] = {}
  BY <1>2, <1>4 DEF PeersOK
<1>8. PeersOK'
  BY <1>2, <1>3, <1>4, <1>5, <1>7 DEF PeersOK
<1>9. W \in Write
  <2>1. Len(log') <= MaxWrites
    BY <1>1, <1>2, AcceptLog
  <2> QED
    BY <1>3, <2>1, ReplicationAssumption DEF Write
<1>10. AckedOK'
  <2> SUFFICES ASSUME NEW w \in acked
      PROVE  /\ w \in Issued'
             /\ \A d \in Client : cur'[d] # w
             /\ \A m \in peers[w] : Relayed(w, m)
             /\ <<w, log'[w].via>> \in applied
             /\ log'[w].via \in HasTrigger => <<w, log'[w].via>> \in notified
    BY <1>5 DEF AckedOK, Relayed
  <2>1. w \in Issued /\ w # W /\ log'[w] = log[w]
    BY <1>2, <1>3, <1>4 DEF AckedOK
  <2> QED
    BY <1>2, <1>4, <1>5, <2>1 DEF AckedOK
<1>11. ProgressOK'
  <2> SUFFICES ASSUME NEW d \in Client, pc'[d] # "idle" PROVE ProgressOf(d)'
    BY DEF ProgressOK
  <2>1. CASE d = c
    <3>1. cur'[d] = W /\ pc'[d] = first /\ peers'[W] = {}
      BY <1>5, <1>7, <1>9, <2>1
    <3>2. first # "trigger" /\ (op = "delete" => first = "store")
      BY <1>1
    <3> QED
      BY <1>3, <3>1, <3>2 DEF ProgressOf, ReqOp
  <2>2. CASE d # c
    <3>1. cur'[d] = cur[d] /\ pc'[d] = pc[d] /\ pc[d] # "idle"
      BY <1>5, <2>2
    <3>2. cur[d] \in Issued /\ ProgressOf(d)
      BY <1>2, <3>1, ThreadFacts DEF ProgressOK
    <3>3. log'[cur[d]] = log[cur[d]]
      BY <1>3, <3>2
    <3> QED
      BY <1>5, <3>1, <3>2, <3>3 DEF ProgressOf, Relayed, ReqOp, At
  <2> QED
    BY <2>1, <2>2
<1> QED
  BY <1>6, <1>8, <1>10, <1>11 DEF IInv

\* The steps of a goroutine, when the name service answers.
LEMMA ThreadIInv ==
    ASSUME IInv, TypeInv', NEW c \in Client, ThreadStep(c), "nase" \notin Faults
    PROVE  IInv'
<1>1. TypeInv /\ TypeOK /\ ThreadsOK /\ CallsOK /\ AckedOK /\ ProgressOK /\ ReportsOK /\ PeersOK
  BY DEF IInv, TypeInv
<1>2. pc[c] # "idle" /\ pc[c] \in {"relay", "send", "wait", "report", "store", "trigger"}
  BY DEF ThreadStep, RelayMembers, RelayAborts, Send, SendReturns, SendFails, Report,
         RelayDone, StoreLocal, StoreLocalFails, TriggerLocal
<1>3. /\ cur[c] \in Issued /\ cur[c] \in Write /\ cur[c] # 0
      /\ At(c) \in Node /\ ReqId(c) \in Id /\ ReqOp(c) \in {"update", "delete"}
      /\ peers[cur[c]] \subseteq Node
  BY <1>1, <1>2, ThreadFacts
<1>4. ProgressOf(c)
  BY <1>1, <1>2 DEF ProgressOK
<1>5. /\ pc \in [Client -> {"idle", "relay", "send", "wait", "report", "store", "trigger"}]
      /\ todo \in [Client -> SUBSET Node] /\ tgt \in [Client -> Node \cup {NoNode}]
      /\ cur \in [Client -> 0..Len(log)]
  BY <1>1 DEF TypeOK
<1>6. /\ pc[c] \in {"wait", "report"} <=> tgt[c] # NoNode
      /\ pc[c] \in {"relay", "store", "trigger"} => todo[c] = {}
  BY <1>1 DEF ThreadsOK
<1>7. NoNode \notin Node
  BY ReplicationAssumption
<1>8. ASSUME log' = log, reported' = reported, failnode' = failnode, taken' = taken, peers' = peers
      PROVE  ReportsOK' /\ PeersOK'
  BY <1>1, <1>8, KeepReports, KeepPeers
<1>9. ASSUME peers' = peers, rpc' = rpc
      PROVE  \A w \in Write : SameCalls(w)
  BY <1>9 DEF SameCalls
<1>10. CASE RelayMembers(c)
  <2>1. /\ pc' = [pc EXCEPT ![c] = "send"] /\ pc[c] = "relay"
        /\ peers' = [peers EXCEPT ![cur[c]] = GetKeygroupMembers(At(c), TRUE)]
        /\ todo' = [todo EXCEPT ![c] = GetKeygroupMembers(At(c), TRUE)]
        /\ UNCHANGED <<cur, tgt, rpc, log, applied, notified, reported, taken, acked, failnode>>
    BY <1>10 DEF RelayMembers, Goto
  <2>2. At(c) \notin GetKeygroupMembers(At(c), TRUE)
    BY DEF GetKeygroupMembers
  <2>3. peers \in [Write -> SUBSET Node]
    BY <1>1 DEF TypeOK
  <2>4. PeersOK'
    BY <1>1, <1>3, <2>1, <2>2, <2>3 DEF PeersOK, At, Issued
  <2>5. ReportsOK'
    BY <1>1, <2>1, KeepReports
  <2>6. Grows /\ (\A d \in Client : d # c => SameThread(d)) /\ cur'[c] = cur[c]
    BY <1>5, <2>1 DEF Grows, SameThread
  <2>7. \A w \in Write : w # cur[c] => SameCalls(w)
    BY <2>1, <2>3 DEF SameCalls
  <2>8. ProgressOf(c)'
    <3>1. peers'[cur'[c]] = todo'[c]
      BY <1>3, <1>5, <2>1, <2>3
    <3>2. pc'[c] = "send" /\ pc[c] = "relay" /\ cur'[c] = cur[c] /\ log' = log /\ applied' = applied
      BY <1>5, <2>1
    <3> QED
      BY <1>4, <3>1, <3>2 DEF ProgressOf, ReqOp, At
  <2> QED
    BY <1>2, <2>1, <2>4, <2>5, <2>6, <2>7, <2>8, ThreadsStep
<1>11. CASE RelayAborts(c) \/ StoreLocalFails(c)
  <2>1. /\ pc' = [pc EXCEPT ![c] = "idle"] /\ cur' = [cur EXCEPT ![c] = 0]
        /\ todo' = [todo EXCEPT ![c] = {}] /\ tgt' = [tgt EXCEPT ![c] = NoNode]
        /\ UNCHANGED <<rpc, log, peers, applied, notified, reported, taken, acked, failnode>>
    BY <1>11 DEF RelayAborts, StoreLocalFails, End, histVars
  <2>2. Grows /\ (\A d \in Client : d # c => SameThread(d)) /\ cur'[c] = 0 /\ pc'[c] = "idle"
    BY <1>5, <2>1 DEF Grows, SameThread
  <2> QED
    BY <1>2, <1>8, <1>9, <2>1, <2>2, ThreadsStep
<1>12. ASSUME NEW m \in Node, Send(c, m)
       PROVE  IInv'
  <2>1. /\ pc' = [pc EXCEPT ![c] = "wait"] /\ pc[c] = "send"
        /\ todo' = [todo EXCEPT ![c] = todo[c] \ {m}] /\ tgt' = [tgt EXCEPT ![c] = m]
        /\ rpc' = [rpc EXCEPT ![cur[c]][m] = "sent"]
        /\ UNCHANGED <<cur, log, peers, applied, notified, reported, taken, acked, failnode>>
    BY <1>12 DEF Send, Goto, histVars
  <2>2. Grows /\ (\A d \in Client : d # c => SameThread(d)) /\ cur'[c] = cur[c]
    BY <1>5, <2>1 DEF Grows, SameThread
  <2>3. \A w \in Write, k \in Node :
           rpc'[w][k] = IF w = cur[c] /\ k = m THEN "sent" ELSE rpc[w][k]
    <3>1. rpc \in [Write -> [Node -> RpcState]] /\ "sent" \in RpcState
      BY <1>1 DEF TypeOK, RpcState
    <3> QED
      BY <1>3, <2>1, <3>1, TableUpdate
  <2>4. \A w \in Write : w # cur[c] => SameCalls(w)
    BY <2>1, <2>3 DEF SameCalls
  <2>5. ProgressOf(c)'
    <3>1. /\ pc'[c] = "wait" /\ tgt'[c] = m /\ todo'[c] = todo[c] \ {m} /\ cur'[c] = cur[c]
          /\ tgt[c] = NoNode
      BY <1>5, <1>6, <2>1
    <3>2. \A k \in peers[cur[c]] : k # m => (Relayed(cur[c], k) => Relayed(cur[c], k)')
      BY <1>3, <2>1, <2>3 DEF Relayed
    <3>3. \A k \in peers[cur[c]] : k \in todo'[c] \/ k = tgt'[c] \/ Relayed(cur[c], k)'
      BY <1>3, <1>4, <1>7, <3>1, <3>2 DEF ProgressOf
    <3> QED
      BY <1>4, <2>1, <3>1, <3>3 DEF ProgressOf, Relayed, ReqOp, At
  <2> QED
    BY <1>2, <1>8, <2>1, <2>2, <2>4, <2>5, ThreadsStep
<1>13. CASE SendReturns(c)
  <2>1. /\ pc' = [pc EXCEPT ![c] = "send"] /\ pc[c] = "wait" /\ tgt' = [tgt EXCEPT ![c] = NoNode]
        /\ rpc[cur[c]][tgt[c]] = "ok"
        /\ UNCHANGED <<cur, todo, rpc, log, peers, applied, notified, reported, taken, acked, failnode>>
    BY <1>13 DEF SendReturns, Goto, histVars
  <2>2. Grows /\ (\A d \in Client : d # c => SameThread(d)) /\ cur'[c] = cur[c]
    BY <1>5, <2>1 DEF Grows, SameThread
  <2>3. ProgressOf(c)'
    <3>1. pc'[c] = "send" /\ todo'[c] = todo[c] /\ cur'[c] = cur[c]
      BY <1>5, <2>1
    <3>2. \A k \in peers[cur[c]] : k \in todo'[c] \/ Relayed(cur[c], k)'
      BY <1>4, <2>1, <3>1 DEF ProgressOf, Relayed
    <3> QED
      BY <1>4, <2>1, <3>1, <3>2 DEF ProgressOf, Relayed, ReqOp, At
  <2> QED
    BY <1>2, <1>8, <1>9, <2>1, <2>2, <2>3, ThreadsStep
<1>14. CASE SendFails(c)
  <2>1. /\ pc' = [pc EXCEPT ![c] = "report"] /\ pc[c] = "wait"
        /\ UNCHANGED <<cur, todo, tgt, rpc, log, peers, applied, notified, reported, taken, acked, failnode>>
    BY <1>14 DEF SendFails, Goto, histVars
  <2>2. Grows /\ (\A d \in Client : d # c => SameThread(d)) /\ cur'[c] = cur[c]
    BY <1>5, <2>1 DEF Grows, SameThread
  <2>3. ProgressOf(c)'
    <3>1. pc'[c] = "report"
      BY <1>5, <2>1
    <3> QED
      BY <1>4, <2>1, <3>1 DEF ProgressOf, Relayed, ReqOp, At
  <2> QED
    BY <1>2, <1>8, <1>9, <2>1, <2>2, <2>3, ThreadsStep
<1>15. CASE Report(c)
  <2>1. /\ pc' = [pc EXCEPT ![c] = "send"] /\ pc[c] = "report" /\ tgt' = [tgt EXCEPT ![c] = NoNode]
        /\ failnode' = failnode \cup {<<tgt[c], ReqId(c)>>}
        /\ reported' = reported \cup {<<cur[c], tgt[c]>>}
        /\ UNCHANGED <<cur, todo, rpc, log, peers, applied, notified, taken, acked>>
    BY <1>15, "nase" \notin Faults DEF Report, ReportFailedNode, Goto
  <2>2. Grows /\ (\A d \in Client : d # c => SameThread(d)) /\ cur'[c] = cur[c]
    BY <1>5, <2>1 DEF Grows, SameThread
  <2>3. ReportsOK'
    <3> SUFFICES ASSUME NEW r \in reported'
        PROVE  r[1] \in Issued /\ (<<r[2], log[r[1]].id>> \in failnode' \/ r \in taken)
      BY <2>1 DEF ReportsOK, Issued
    <3>1. CASE r \in reported
      BY <1>1, <2>1, <3>1 DEF ReportsOK
    <3>2. CASE r = <<cur[c], tgt[c]>>
      BY <1>3, <2>1, <3>2 DEF ReqId
    <3> QED
      BY <2>1, <3>1, <3>2
  <2>4. PeersOK'
    BY <1>1, <2>1, KeepPeers
  <2>5. ProgressOf(c)'
    <3>1. pc'[c] = "send" /\ todo'[c] = todo[c] /\ cur'[c] = cur[c]
      BY <1>5, <2>1
    <3>2. \A k \in peers[cur[c]] : k \in todo'[c] \/ Relayed(cur[c], k)'
      BY <1>4, <2>1, <3>1 DEF ProgressOf, Relayed
    <3> QED
      BY <1>4, <2>1, <3>1, <3>2 DEF ProgressOf, Relayed, ReqOp, At
  <2> QED
    BY <1>2, <1>9, <2>1, <2>2, <2>3, <2>4, <2>5, ThreadsStep
<1>16. CASE RelayDone(c)
  <2>1. /\ pc' = [pc EXCEPT ![c] = AfterRelay(c)] /\ pc[c] = "send" /\ todo[c] = {}
        /\ UNCHANGED <<cur, todo, tgt, rpc, log, peers, applied, notified, reported, taken, acked, failnode>>
    BY <1>16 DEF RelayDone, Goto, histVars
  <2>2. Grows /\ (\A d \in Client : d # c => SameThread(d)) /\ cur'[c] = cur[c]
    BY <1>5, <2>1 DEF Grows, SameThread
  <2>3. ProgressOf(c)'
    <3>1. pc'[c] = (IF ReqOp(c) = "update" THEN "store" ELSE "trigger")
      BY <1>5, <2>1 DEF AfterRelay
    <3>2. \A k \in peers'[cur'[c]] : k \in todo'[c] \/ k = tgt'[c] \/ Relayed(cur[c], k)'
      BY <1>4, <2>1 DEF ProgressOf, Relayed
    <3>3. ReqOp(c)' = ReqOp(c) /\ At(c)' = At(c)
      BY <2>1 DEF ReqOp, At
    <3> QED
      BY <1>3, <1>4, <2>1, <3>1, <3>2, <3>3 DEF ProgressOf, Relayed
  <2> QED
    BY <1>2, <1>8, <1>9, <2>1, <2>2, <2>3, ThreadsStep
<1>17. CASE StoreLocal(c)
  <2>1. /\ pc' = [pc EXCEPT ![c] = AfterStore(c)] /\ pc[c] = "store"
        /\ applied' = applied \cup {<<cur[c], At(c)>>}
        /\ UNCHANGED <<cur, todo, tgt, rpc, log, peers, notified, reported, taken, acked, failnode>>
    BY <1>17 DEF StoreLocal, StoreWrite, Goto
  <2>2. Grows /\ (\A d \in Client : d # c => SameThread(d)) /\ cur'[c] = cur[c]
    BY <1>5, <2>1 DEF Grows, SameThread
  <2>3. ProgressOf(c)'
    <3>1. \A k \in peers'[cur'[c]] : k \in todo'[c] \/ k = tgt'[c] \/ Relayed(cur[c], k)'
      BY <1>4, <2>1 DEF ProgressOf, Relayed
    <3>2. ReqOp(c)' = ReqOp(c) /\ At(c)' = At(c) /\ <<cur'[c], At(c)>> \in applied'
      BY <2>1 DEF ReqOp, At
    <3> QED
      BY <2>1, <3>1, <3>2 DEF ProgressOf, Relayed
  <2> QED
    BY <1>2, <1>8, <1>9, <2>1, <2>2, <2>3, ThreadsStep
<1>18. CASE TriggerLocal(c)
  <2>1. /\ pc' = [pc EXCEPT ![c] = "idle"] /\ cur' = [cur EXCEPT ![c] = 0] /\ pc[c] = "trigger"
        /\ todo' = [todo EXCEPT ![c] = {}] /\ tgt' = [tgt EXCEPT ![c] = NoNode]
        /\ UNCHANGED <<rpc, log, peers, applied, reported, taken, failnode>>
        /\ notified \subseteq notified'
        /\ \/ acked' = acked
           \/ acked' = acked \cup {cur[c]} /\ (At(c) \in HasTrigger => <<cur[c], At(c)>> \in notified')
    BY <1>18 DEF TriggerLocal, TriggerSucceeds, TriggerFails, End
  <2>2. /\ Grows /\ cur'[c] = 0 /\ pc'[c] = "idle"
        /\ \A d \in Client : d # c => SameThread(d)
    BY <1>5, <2>1 DEF Grows, SameThread
  <2>3. ReportsOK' /\ PeersOK'
    BY <1>8, <2>1
  <2>4. CASE acked' = acked
    BY <1>2, <1>9, <2>1, <2>2, <2>3, <2>4, ThreadsStep
  <2>5. CASE acked' = acked \cup {cur[c]} /\ (At(c) \in HasTrigger => <<cur[c], At(c)>> \in notified')
    <3>1. \A m \in peers[cur[c]] : Relayed(cur[c], m)
      BY <1>3, <1>4, <1>6, <1>7, <2>1 DEF ProgressOf
    <3>2. <<cur[c], At(c)>> \in applied
      BY <1>4, <2>1 DEF ProgressOf
    <3>3. AckedOK'
      <4> SUFFICES ASSUME NEW w \in acked'
          PROVE  /\ w \in Issued
                 /\ \A d \in Client : cur'[d] # w
                 /\ \A m \in peers[w] : Relayed(w, m)
                 /\ <<w, log[w].via>> \in applied
                 /\ log[w].via \in HasTrigger => <<w, log[w].via>> \in notified'
        BY <2>1 DEF AckedOK, Relayed, Issued
      <4>1. w # 0
        BY <1>1, <1>3, <2>5, TypeFacts
      <4>2. \A d \in Client : cur'[d] # w
        <5>1. CASE w \in acked
          BY <1>1, <1>5, <2>1, <4>1, <5>1 DEF AckedOK
        <5>2. CASE w = cur[c]
          BY <1>1, <1>3, <1>5, <2>1, <4>1, <5>2 DEF ThreadsOK
        <5> QED
          BY <2>5, <5>1, <5>2
      <4>3. CASE w \in acked
        BY <1>1, <2>1, <4>2, <4>3 DEF AckedOK
      <4>4. CASE w = cur[c]
        BY <1>3, <2>5, <3>1, <3>2, <4>2, <4>4 DEF At
      <4> QED
        BY <2>5, <4>3, <4>4
    <3>4. ProgressOK'
      <4> SUFFICES ASSUME NEW d \in Client, pc'[d] # "idle" PROVE ProgressOf(d)'
        BY DEF ProgressOK
      <4>1. d # c /\ SameThread(d) /\ pc[d] # "idle"
        BY <2>2 DEF SameThread
      <4>2. SameCalls(cur[d])
        BY <1>1, <1>9, <2>1, <4>1, ThreadFacts
      <4> QED
        BY <1>1, <2>2, <4>1, <4>2, KeepProgress
    <3> QED
      BY <2>3, <3>3, <3>4 DEF IInv
  <2> QED
    BY <2>1, <2>4, <2>5
<1> QED
  BY <1>10, <1>11, <1>12, <1>13, <1>14, <1>15, <1>16, <1>17, <1>18 DEF ThreadStep

\* A crash ends threads and calls in progress, and no call that has succeeded.
LEMMA CrashIInv ==
    ASSUME IInv, TypeInv', NEW n \in Node, Crash(n)
    PROVE  IInv'
<1>1. TypeInv /\ TypeOK /\ ThreadsOK /\ CallsOK /\ AckedOK /\ ProgressOK /\ ReportsOK /\ PeersOK
  BY DEF IInv, TypeInv
<1>2. /\ UNCHANGED <<log, peers, applied, notified, reported, taken, acked, failnode>>
      /\ \A c \in Client : SameThread(c) \/ (pc'[c] = "idle" /\ cur'[c] = 0)
      /\ \A w \in Write, m \in Node : rpc[w][m] = "ok" => rpc'[w][m] = "ok"
  BY DEF Crash, histVars, SameThread
<1>3. Grows /\ \A w \in Write : SameCalls(w)
  BY <1>2 DEF Grows, SameCalls
<1>4. ReportsOK' /\ PeersOK'
  BY <1>1, <1>2, KeepReports, KeepPeers
<1>5. AckedOK'
  <2>1. \A w \in acked : SameCalls(w)
    BY <1>1, <1>3, TypeFacts
  <2>2. \A c \in Client : cur'[c] \in {cur[c], 0}
    BY <1>2 DEF SameThread
  <2> QED
    BY <1>1, <1>2, <1>3, <2>1, <2>2, KeepAcked
<1>6. ProgressOK'
  <2> SUFFICES ASSUME NEW c \in Client, pc'[c] # "idle" PROVE ProgressOf(c)'
    BY DEF ProgressOK
  <2>1. SameThread(c) /\ pc[c] # "idle"
    BY <1>2 DEF SameThread
  <2>2. SameCalls(cur[c])
    BY <1>1, <1>3, <2>1, ThreadFacts
  <2> QED
    BY <1>1, <1>3, <2>1, <2>2, KeepProgress
<1> QED
  BY <1>4, <1>5, <1>6 DEF IInv

\* A starting node takes the reports about itself out of the name service.
LEMMA ForgetIInv ==
    ASSUME IInv, TypeInv', NEW n \in Node, NEW i \in Id, Forget(n, i)
    PROVE  IInv'
<1>1. TypeInv /\ TypeOK /\ ThreadsOK /\ CallsOK /\ AckedOK /\ ProgressOK /\ ReportsOK /\ PeersOK
  BY DEF IInv, TypeInv
<1>2. /\ UNCHANGED <<threadVars, rpc, log, peers, applied, notified, reported, acked>>
      /\ \/ /\ failnode' = failnode \ {<<n, i>>}
            /\ taken' = taken \cup {r \in reported : r[2] = n /\ log[r[1]].id = i}
         \/ failnode' = failnode /\ taken' = taken
  BY DEF Forget, RemoveRecord
<1>3. Grows /\ (\A w \in Write : SameCalls(w)) /\ \A c \in Client : SameThread(c)
  BY <1>2 DEF Grows, SameCalls, SameThread, threadVars
<1>4. ReportsOK'
  <2> SUFFICES ASSUME NEW r \in reported
      PROVE  r[1] \in Issued /\ (<<r[2], log[r[1]].id>> \in failnode' \/ r \in taken')
    BY <1>2 DEF ReportsOK, Issued
  <2>1. r[1] \in Issued /\ (<<r[2], log[r[1]].id>> \in failnode \/ r \in taken)
    BY <1>1 DEF ReportsOK
  <2>2. CASE <<r[2], log[r[1]].id>> = <<n, i>>
    BY <1>2, <2>1, <2>2
  <2>3. CASE <<r[2], log[r[1]].id>> # <<n, i>>
    BY <1>2, <2>1, <2>3
  <2> QED
    BY <2>2, <2>3
<1>5. PeersOK'
  BY <1>1, <1>2, KeepPeers
<1>6. AckedOK'
  <2>1. \A w \in acked : SameCalls(w)
    BY <1>1, <1>3, TypeFacts
  <2>2. (\A c \in Client : cur'[c] \in {cur[c], 0}) /\ acked' = acked
    BY <1>2, <1>3 DEF SameThread
  <2> QED
    BY <1>1, <1>3, <2>1, <2>2, KeepAcked
<1>7. ProgressOK'
  <2> SUFFICES ASSUME NEW c \in Client, pc'[c] # "idle" PROVE ProgressOf(c)'
    BY DEF ProgressOK
  <2>1. SameThread(c) /\ pc[c] # "idle"
    BY <1>3 DEF SameThread
  <2>2. SameCalls(cur[c])
    BY <1>1, <1>3, <2>1, ThreadFacts
  <2> QED
    BY <1>1, <1>3, <2>1, <2>2, KeepProgress
<1> QED
  BY <1>4, <1>5, <1>6, <1>7 DEF IInv

LEMMA NextIInv ==
    ASSUME "nase" \notin Faults, IInv, [Next]_vars
    PROVE  IInv'
<1>1. TypeInv'
  BY NextTypeInv DEF IInv
<1>2. ASSUME Grows, UNCHANGED <<threadVars, rpc, failnode, peers, reported, taken, acked>>
      PROVE  IInv'
  BY <1>1, <1>2, OtherStep
<1>3. ASSUME NEW c \in Client, NEW n \in Node, NEW i \in Id,
             HandleUpdate(c, n, i) \/ HandleDelete(c, n, i)
      PROVE  IInv'
  BY <1>1, <1>3, AcceptIInv
<1>4. ASSUME NEW c \in Client, ThreadStep(c) PROVE IInv'
  BY <1>1, <1>4, ThreadIInv
<1>5. ASSUME NEW w \in Write, NEW m \in Node, RemoteStep(w, m) PROVE IInv'
  <2>1. \E v \in RpcState : rpc[w][m] # "ok" /\ rpc' = [rpc EXCEPT ![w][m] = v]
    BY <1>5 DEF RemoteStep, RemoteStore, RemoteTrigger, ConnectionRefused, RpcState
  <2>2. \A u \in Write, k \in Node : rpc[u][k] = "ok" => rpc'[u][k] = "ok"
    <3>1. rpc \in [Write -> [Node -> RpcState]]
      BY DEF IInv, TypeInv, TypeOK
    <3> QED
      BY <2>1, <3>1, TableUpdate
  <2>3. Grows /\ UNCHANGED <<threadVars, failnode, peers, reported, taken, acked>>
    BY <1>5 DEF RemoteStep, RemoteStore, RemoteTrigger, ConnectionRefused, StoreWrite,
                TriggerSucceeds, TriggerFails, Grows, histVars
  <2> QED
    BY <1>1, <2>2, <2>3, OtherStep
<1>6. ASSUME NEW n \in Node, Crash(n) PROVE IInv'
  BY <1>1, <1>6, CrashIInv
<1>7. ASSUME NEW n \in Node, NEW i \in Id, Forget(n, i) PROVE IInv'
  BY <1>1, <1>7, ForgetIInv
<1>8. ASSUME NEW n \in Node, Restart(n) \/ Serve(n) PROVE IInv'
  BY <1>2, <1>8 DEF Restart, Serve, Grows, histVars
<1>9. ASSUME NEW n \in Node, NEW i \in Id, Fetch(n, i) \/ FetchFails(n, i) \/ Expire(n, i)
      PROVE  IInv'
  BY <1>2, <1>9 DEF Fetch, FetchFails, Expire, Grows, histVars
<1>10. CASE UNCHANGED vars
  BY <1>2, <1>10 DEF vars, Grows, histVars
<1> QED
  BY <1>3, <1>4, <1>5, <1>6, <1>7, <1>8, <1>9, <1>10 DEF Next, RecoveryStep, Done

LEMMA IInvAccounted ==
    ASSUME IInv
    PROVE  AckedAccounted /\ AckedTriggered
<1>1. TypeOK /\ CallsOK /\ ReportsOK /\ PeersOK /\ AckedOK
  BY DEF IInv, TypeInv
<1>2. ASSUME NEW w \in acked, NEW m \in peers[w]
      PROVE  /\ m # log[w].via
             /\ \/ <<w, m>> \in applied /\ (m \in HasTrigger => <<w, m>> \in notified)
                \/ <<m, log[w].id>> \in failnode \/ <<w, m>> \in taken
  <2>1. w \in Write /\ w \in Issued /\ m \in Node /\ Relayed(w, m)
    BY <1>1, TypeFacts DEF AckedOK
  <2>2. m # log[w].via
    BY <1>1, <2>1 DEF PeersOK
  <2>3. CASE rpc[w][m] = "ok"
    BY <1>1, <2>1, <2>2, <2>3 DEF CallsOK
  <2>4. CASE <<w, m>> \in reported
    <3>1. <<<<w, m>>[2], log[<<w, m>>[1]].id>> \in failnode \/ <<w, m>> \in taken
      BY <1>1, <2>4 DEF ReportsOK
    <3> QED
      BY <2>2, <3>1
  <2> QED
    BY <2>1, <2>3, <2>4 DEF Relayed
<1>3. ASSUME NEW w \in acked
      PROVE  /\ <<w, log[w].via>> \in applied
             /\ log[w].via \in HasTrigger => <<w, log[w].via>> \in notified
  BY <1>1 DEF AckedOK
<1> QED
  BY <1>2, <1>3 DEF AckedAccounted, AckedTriggered, Replicas

\* Whatever crashes, is lost or fails, short of the name service: a write that
\* was reported as successful has been executed at every replica, or the name
\* service knows which replica missed it until that replica takes the record.
THEOREM Accounted == Spec => []AckedAccounted
<1>1. CASE "nase" \in Faults
  <2>1. AckedAccounted
    BY <1>1 DEF AckedAccounted
  <2> QED
    BY <2>1, PTL
<1>2. CASE "nase" \notin Faults
  <2>1. IInv /\ [Next]_vars => IInv'
    BY <1>2, NextIInv
  <2>2. IInv => AckedAccounted
    BY IInvAccounted
  <2> QED
    BY InitIInv, <2>1, <2>2, PTL DEF Spec
<1> QED
  BY <1>1, <1>2

\* The same for the triggers of the replicas.
THEOREM Triggered == Spec => []AckedTriggered
<1>1. CASE "nase" \in Faults
  <2>1. AckedTriggered
    BY <1>1 DEF AckedTriggered
  <2> QED
    BY <2>1, PTL
<1>2. CASE "nase" \notin Faults
  <2>1. IInv /\ [Next]_vars => IInv'
    BY <1>2, NextIInv
  <2>2. IInv => AckedTriggered
    BY IInvAccounted
  <2> QED
    BY InitIInv, <2>1, <2>2, PTL DEF Spec
<1> QED
  BY <1>1, <1>2

----------------------------------------------------------------------------
(* No replica is stale without knowing *)

\* The configuration the runs with recovery start from stays.
FixedOK ==
    /\ kgStatus = "created" /\ kgExpiry = Expiry
    /\ \A n \in Node : (kgNode[n] = "ok" <=> n \in Members) /\ (has[n] <=> n \in Hosting)

\* Only nodes that may crash do; while one of them is starting nothing is written.
NodesOK ==
    \A n \in Node :
        /\ nodeState[n] # "up" => n \in Crashable
        /\ nodeState[n] = "starting" => \A c \in Client : Idle(c)
        /\ nodeState[n] # "starting" => forgetting[n] = {} /\ missed[n] = {}

\* A call that is being executed has a goroutine that waits for it, and a call to a
\* node that does not crash succeeds.
CalledOK ==
    \A w \in Write, m \in Node :
        /\ rpc[w][m] # "none" => m \in Members
        /\ rpc[w][m] \in {"err", "lost"} => m \in Crashable
        /\ rpc[w][m] \in {"sent", "stored"} =>
              \E c \in Client : cur[c] = w /\ pc[c] = "wait" /\ tgt[c] = m

\* An open request is the last one about its item, and is for all members.
ServedOf(c) ==
    /\ c \in Writer[ReqId(c)]
    /\ \A w \in Issued : log[w].id = ReqId(c) => w <= cur[c]
    /\ pc[c] = "report" => tgt[c] \in Crashable
    /\ todo[c] \subseteq Members /\ tgt[c] \in Members \cup {NoNode}
    /\ ReqOp(c) = "delete" => has[At(c)]
    /\ \/ pc[c] = "relay" \/ (pc[c] = "store" /\ ReqOp(c) = "delete")
       \/ peers[cur[c]] = Members \ {At(c)}

ServedOK == \A c \in Client : pc[c] # "idle" => ServedOf(c)

RecordsOK ==
    /\ \A r \in reported : r[2] \in Crashable
    /\ \A n \in Node, i \in Id :
          Pending(n, i) => n \in Members /\ \E w \in Issued : log[w].id = i

\* An item that was written has a last write.
LastOK ==
    \A i \in Id :
        \/ \A w \in Issued : log[w].id # i
        \/ \E w \in Issued : log[w].id = i /\ \A v \in Issued : log[v].id = i => v <= w

ItemsOK ==
    /\ \A n \in Node, i \in Id : items[n][i] # 0 => has[n] /\ \E w \in Issued : log[w].id = i
    /\ \A w \in Write, n \in Node : <<w, n>> \in applied => w \in Issued

\* A request that has ended has reached every member or has reported it.
ClosedOK ==
    \A w \in Issued : (\A c \in Client : cur[c] # w) =>
        \A m \in Members : <<w, m>> \in applied \/ <<w, m>> \in reported

\* What a node has executed stays or is followed by something later; what it has missed
\* it has to fetch, or has fetched.
ValuesOK ==
    \A w \in Issued, m \in Node : kgExpiry[m] = 0 =>
        /\ <<w, m>> \in applied => Holds(m, w)
        /\ <<w, m>> \in reported => Holds(m, w) \/ Pending(m, log[w].id)

QuietInv ==
    /\ IInv /\ FixedOK /\ NodesOK /\ CalledOK /\ ServedOK /\ RecordsOK /\ LastOK /\ ItemsOK
    /\ ClosedOK /\ ValuesOK

LEMMA InitQuiet == Init => QuietInv
<1> SUFFICES ASSUME Init PROVE QuietInv
  OBVIOUS
<1>1. Issued = {}
  BY DEF Init, Issued
<1>2. FixedOK
  BY DEF Init, FixedOK
<1>3. NodesOK /\ CalledOK /\ ServedOK
  BY DEF Init, NodesOK, CalledOK, ServedOK, Idle
<1>4. RecordsOK
  BY DEF Init, RecordsOK, Pending
<1>5. LastOK /\ ItemsOK /\ ClosedOK /\ ValuesOK
  BY <1>1 DEF Init, LastOK, ItemsOK, ClosedOK, ValuesOK
<1> QED
  BY <1>2, <1>3, <1>4, <1>5, InitIInv DEF QuietInv

----------------------------------------------------------------------------
(* What a step does not touch *)

LEMMA KeepFixed == ASSUME FixedOK, UNCHANGED <<kgVars, has>> PROVE FixedOK'
BY DEF FixedOK, kgVars

LEMMA KeepNodes == ASSUME NodesOK, UNCHANGED <<nodeState, pc, forgetting, missed>> PROVE NodesOK'
BY DEF NodesOK, Idle

LEMMA KeepCalled == ASSUME CalledOK, UNCHANGED <<rpc, threadVars>> PROVE CalledOK'
BY DEF CalledOK, threadVars

LEMMA KeepServed ==
    ASSUME ServedOK, UNCHANGED <<threadVars, log, has, peers>> PROVE ServedOK'
BY DEF ServedOK, ServedOf, ReqId, ReqOp, At, Issued, threadVars

LEMMA KeepLast == ASSUME LastOK, UNCHANGED log PROVE LastOK'
BY DEF LastOK, Issued

LEMMA KeepItems == ASSUME ItemsOK, UNCHANGED <<items, has, log, applied>> PROVE ItemsOK'
BY DEF ItemsOK, Issued

LEMMA KeepClosed ==
    ASSUME ClosedOK, UNCHANGED <<cur, log>>, applied \subseteq applied', reported \subseteq reported'
    PROVE  ClosedOK'
BY DEF ClosedOK, Issued

LEMMA KeepRecords ==
    ASSUME RecordsOK, UNCHANGED <<reported, log>>,
           \A n \in Node, i \in Id : Pending(n, i)' => Pending(n, i)
    PROVE  RecordsOK'
<1>1. Issued' = Issued
  BY DEF Issued
<1> QED
  BY <1>1 DEF RecordsOK

LEMMA KeepValues ==
    ASSUME TypeOK, ValuesOK, UNCHANGED <<kgExpiry, items, applied, reported, log>>,
           \A n \in Node, i \in Id : Pending(n, i) => Pending(n, i)'
    PROVE  ValuesOK'
<1>1. Issued' = Issued /\ \A w \in Issued : log[w].id \in Id
  BY LogType DEF Issued
<1>2. \A w \in Issued, m \in Node : Holds(m, w)' <=> Holds(m, w)
  BY DEF Holds, Val
<1>3. \A w \in Issued, m \in Node : Pending(m, log[w].id) => Pending(m, log[w].id)'
  BY <1>1
<1> HIDE DEF Issued
<1> QED
  BY <1>1, <1>2, <1>3 DEF ValuesOK

LEMMA SamePending ==
    ASSUME UNCHANGED <<failnode, forgetting, missed>>
    PROVE  \A n \in Node, i \in Id : Pending(n, i)' <=> Pending(n, i)
BY DEF Pending

----------------------------------------------------------------------------
(* Steps of a request *)

LEMMA QuietFacts ==
    ASSUME QuietInv
    PROVE  /\ TypeInv /\ TypeOK /\ ThreadsOK /\ CallsOK /\ IInv /\ FixedOK /\ NodesOK /\ CalledOK
           /\ ServedOK /\ RecordsOK /\ LastOK /\ ItemsOK /\ ClosedOK /\ ValuesOK
BY DEF QuietInv, IInv, TypeInv

LEMMA NobodyStarts ==
    ASSUME NodesOK, NEW c \in Client, pc[c] # "idle"
    PROVE  \A n \in Node : nodeState[n] # "starting" /\ forgetting[n] = {} /\ missed[n] = {}
BY DEF NodesOK, Idle

\* A step of the goroutine of c: what is left to show.
LEMMA RequestStep ==
    ASSUME QuietInv, IInv', NEW c \in Client, pc[c] # "idle",
           \A d \in Client : d # c => SameThread(d),
           UNCHANGED <<kgVars, nodeState, has, recoveryVars, log>>,
           \A w \in Write : w # cur[c] => peers'[w] = peers[w],
           CalledOK', pc'[c] # "idle" => ServedOf(c)',
           RecordsOK', ItemsOK', ClosedOK', ValuesOK'
    PROVE  QuietInv'
<1>0. /\ TypeInv /\ TypeOK /\ ThreadsOK /\ FixedOK /\ NodesOK /\ ServedOK /\ LastOK
  BY QuietFacts
<1>1. FixedOK' /\ LastOK'
  BY <1>0, KeepFixed, KeepLast
<1>2. NodesOK'
  <2>1. \A n \in Node : nodeState[n] # "starting" /\ forgetting[n] = {} /\ missed[n] = {}
    BY <1>0, NobodyStarts
  <2> QED
    BY <1>0, <2>1 DEF NodesOK, recoveryVars
<1>3. ServedOK'
  <2> SUFFICES ASSUME NEW d \in Client, pc'[d] # "idle", d # c PROVE ServedOf(d)'
    BY DEF ServedOK
  <2>1. pc'[d] = pc[d] /\ cur'[d] = cur[d] /\ todo'[d] = todo[d] /\ tgt'[d] = tgt[d]
    BY DEF SameThread
  <2>2. cur[d] \in Write /\ cur[d] # cur[c]
    BY <1>0, <2>1, ThreadFacts DEF ThreadsOK
  <2>3. ServedOf(d)
    BY <1>0, <2>1 DEF ServedOK
  <2>4. peers'[cur'[d]] = peers[cur[d]]
    BY <2>1, <2>2
  <2>5. ReqId(d)' = ReqId(d) /\ ReqOp(d)' = ReqOp(d) /\ At(d)' = At(d) /\ Issued' = Issued
    BY <2>1 DEF ReqId, ReqOp, At, Issued
  <2> QED
    BY <2>1, <2>3, <2>4, <2>5 DEF ServedOf
<1> QED
  BY <1>1, <1>2, <1>3 DEF QuietInv

\* The calls of the others, and of c as long as c does not wait for an answer that has
\* not come.
LEMMA CallsStay ==
    ASSUME CalledOK, ThreadsOK, NEW c \in Client, rpc' = rpc,
           \A d \in Client : d # c => SameThread(d),
           pc[c] = "wait" => rpc[cur[c]][tgt[c]] \notin {"sent", "stored"}
    PROVE  CalledOK'
<1> SUFFICES ASSUME NEW w \in Write, NEW m \in Node, rpc[w][m] \in {"sent", "stored"}
             PROVE  \E d \in Client : cur'[d] = w /\ pc'[d] = "wait" /\ tgt'[d] = m
  BY DEF CalledOK
<1>1. PICK d \in Client : cur[d] = w /\ pc[d] = "wait" /\ tgt[d] = m
  BY DEF CalledOK
<1>2. d # c
  BY <1>1
<1> QED
  BY <1>1, <1>2 DEF SameThread

\* A step of c that only moves on, or ends the request of c.
LEMMA OnlyThread ==
    ASSUME QuietInv, IInv', NEW c \in Client, pc[c] # "idle",
           \A d \in Client : d # c => SameThread(d),
           UNCHANGED <<kgVars, failnode, nodeVars, recoveryVars, rpc, log, applied, reported>>,
           \A w \in Write : w # cur[c] => peers'[w] = peers[w],
           pc[c] = "wait" => rpc[cur[c]][tgt[c]] \notin {"sent", "stored"},
           pc'[c] # "idle" => cur'[c] = cur[c] /\ ServedOf(c)',
           pc'[c] = "idle" => \A m \in Members : <<cur[c], m>> \in applied \/ <<cur[c], m>> \in reported
    PROVE  QuietInv'
<1>0. /\ TypeInv /\ TypeOK /\ ThreadsOK /\ CalledOK /\ RecordsOK /\ ItemsOK /\ ClosedOK /\ ValuesOK
  BY QuietFacts
<1>1. CalledOK'
  BY <1>0, CallsStay
<1>2. \A n \in Node, i \in Id : Pending(n, i)' <=> Pending(n, i)
  BY SamePending DEF recoveryVars
<1>3. RecordsOK' /\ ItemsOK'
  BY <1>0, <1>2, KeepRecords, KeepItems DEF nodeVars
<1>4. ValuesOK'
  BY <1>0, <1>2, KeepValues DEF nodeVars, kgVars
<1>5. ClosedOK'
  <2> SUFFICES ASSUME NEW w \in Issued, \A d \in Client : cur'[d] # w, NEW m \in Members
               PROVE  <<w, m>> \in applied \/ <<w, m>> \in reported
    BY DEF ClosedOK, Issued
  <2>1. CASE w = cur[c]
    BY <2>1
  <2>2. CASE w # cur[c]
    <3>1. \A d \in Client : cur[d] # w
      BY <2>2 DEF SameThread
    <3> QED
      BY <1>0, <3>1 DEF ClosedOK
  <2> QED
    BY <2>1, <2>2
<1> QED
  BY <1>1, <1>3, <1>4, <1>5, RequestStep DEF nodeVars

\* What is left alone of the request of c itself.
LEMMA OwnRequest ==
    ASSUME QuietInv, NEW c \in Client, pc[c] # "idle", cur'[c] = cur[c], UNCHANGED <<log, has>>
    PROVE  /\ ServedOf(c) /\ Issued' = Issued
           /\ ReqId(c)' = ReqId(c) /\ ReqOp(c)' = ReqOp(c) /\ At(c)' = At(c)
BY QuietFacts DEF ServedOK, ReqId, ReqOp, At, Issued

LEMMA RelayMembersQuiet ==
    ASSUME QuietInv, IInv', NEW c \in Client, RelayMembers(c) PROVE QuietInv'
<1>0. TypeOK /\ ThreadsOK /\ FixedOK
  BY QuietFacts
<1>1. pc[c] = "relay" /\ cur[c] \in Write /\ At(c) \in Node
  BY <1>0, ThreadFacts DEF RelayMembers
<1>2. GetKeygroupMembers(At(c), TRUE) = Members \ {At(c)}
  BY <1>0, ReplicationAssumption DEF FixedOK, GetKeygroupMembers
<1>3. /\ peers' = [peers EXCEPT ![cur[c]] = Members \ {At(c)}]
      /\ todo' = [todo EXCEPT ![c] = Members \ {At(c)}]
      /\ pc' = [pc EXCEPT ![c] = "send"] /\ cur' = cur /\ tgt' = tgt
      /\ UNCHANGED <<kgVars, failnode, nodeVars, recoveryVars, rpc, log, applied, reported>>
  BY <1>2 DEF RelayMembers, Goto
<1>4. /\ peers'[cur[c]] = Members \ {At(c)} /\ todo'[c] = Members \ {At(c)} /\ pc'[c] = "send"
      /\ \A w \in Write : w # cur[c] => peers'[w] = peers[w]
      /\ \A d \in Client : d # c => SameThread(d)
  BY <1>0, <1>1, <1>3 DEF TypeOK, SameThread
<1>5. ServedOf(c)'
  <2>1. /\ ServedOf(c) /\ Issued' = Issued
        /\ ReqId(c)' = ReqId(c) /\ ReqOp(c)' = ReqOp(c) /\ At(c)' = At(c)
    BY <1>1, <1>3, OwnRequest DEF nodeVars
  <2> QED
    BY <1>3, <1>4, <2>1 DEF ServedOf, nodeVars
<1> QED
  BY <1>1, <1>3, <1>4, <1>5, OnlyThread

LEMMA SendQuiet ==
    ASSUME QuietInv, IInv', NEW c \in Client, NEW m \in Node, Send(c, m) PROVE QuietInv'
<1>0. /\ TypeOK /\ ThreadsOK /\ CalledOK /\ RecordsOK /\ ItemsOK /\ ClosedOK /\ ValuesOK
  BY QuietFacts
<1>1. pc[c] = "send" /\ cur[c] \in Write /\ m \in todo[c]
  BY <1>0, ThreadFacts DEF Send
<1>2. /\ rpc' = [rpc EXCEPT ![cur[c]][m] = "sent"]
      /\ todo' = [todo EXCEPT ![c] = todo[c] \ {m}] /\ tgt' = [tgt EXCEPT ![c] = m]
      /\ pc' = [pc EXCEPT ![c] = "wait"] /\ cur' = cur
      /\ UNCHANGED <<kgVars, failnode, nodeVars, recoveryVars, log, peers, applied, reported>>
  BY DEF Send, Goto, histVars
<1>3. /\ todo'[c] = todo[c] \ {m} /\ tgt'[c] = m /\ pc'[c] = "wait"
      /\ \A d \in Client : d # c => SameThread(d)
  BY <1>0, <1>2 DEF TypeOK, SameThread
<1>4. \A w \in Write, k \in Node : rpc'[w][k] = IF w = cur[c] /\ k = m THEN "sent" ELSE rpc[w][k]
  BY <1>0, <1>1, <1>2, TableUpdate DEF TypeOK, RpcState
<1>5. /\ ServedOf(c) /\ Issued' = Issued
      /\ ReqId(c)' = ReqId(c) /\ ReqOp(c)' = ReqOp(c) /\ At(c)' = At(c)
  BY <1>1, <1>2, OwnRequest DEF nodeVars
<1>6. m \in Members
  BY <1>1, <1>5 DEF ServedOf
<1>7. ServedOf(c)'
  BY <1>1, <1>2, <1>3, <1>5, <1>6 DEF ServedOf, nodeVars
<1>8. CalledOK'
  <2>1. ASSUME NEW w \in Write, NEW k \in Node, rpc'[w][k] \in {"sent", "stored"}
        PROVE  \E d \in Client : cur'[d] = w /\ pc'[d] = "wait" /\ tgt'[d] = k
    <3>1. CASE w = cur[c] /\ k = m
      BY <1>2, <1>3, <3>1
    <3>2. CASE ~(w = cur[c] /\ k = m)
      <4>1. PICK d \in Client : cur[d] = w /\ pc[d] = "wait" /\ tgt[d] = k
        BY <1>0, <1>4, <2>1, <3>2 DEF CalledOK
      <4>2. d # c
        BY <1>1, <4>1
      <4> QED
        BY <1>3, <4>1, <4>2 DEF SameThread
    <3> QED
      BY <3>1, <3>2
  <2>2. \A w \in Write, k \in Node : /\ rpc'[w][k] # "none" => k \in Members
                                     /\ rpc'[w][k] \in {"err", "lost"} => k \in Crashable
    BY <1>0, <1>4, <1>6 DEF CalledOK
  <2> QED
    BY <2>1, <2>2 DEF CalledOK
<1>9. \A n \in Node, i \in Id : Pending(n, i)' <=> Pending(n, i)
  BY <1>2, SamePending DEF recoveryVars
<1>10. RecordsOK' /\ ItemsOK' /\ ClosedOK'
  BY <1>0, <1>2, <1>9, KeepRecords, KeepItems, KeepClosed DEF nodeVars
<1>11. ValuesOK'
  BY <1>0, <1>2, <1>9, KeepValues DEF nodeVars, kgVars
<1> QED
  BY <1>1, <1>2, <1>3, <1>7, <1>8, <1>10, <1>11, RequestStep DEF nodeVars

LEMMA AnswerQuiet ==
    ASSUME QuietEnv, QuietInv, IInv', NEW c \in Client, SendReturns(c) \/ SendFails(c)
    PROVE  QuietInv'
<1>0. TypeOK /\ ThreadsOK /\ CalledOK
  BY QuietFacts
<1>1. pc[c] = "wait" /\ cur[c] \in Write /\ tgt[c] \in Node
  BY <1>0, ThreadFacts DEF SendReturns, SendFails, ThreadsOK, TypeOK
<1>2. /\ UNCHANGED <<kgVars, failnode, nodeVars, recoveryVars, rpc, cur, todo, log, peers, applied, reported>>
      /\ rpc[cur[c]][tgt[c]] \in {"ok", "err", "lost"}
  BY DEF SendReturns, SendFails, QuietEnv, histVars
<1>3. \/ pc' = [pc EXCEPT ![c] = "send"] /\ tgt' = [tgt EXCEPT ![c] = NoNode]
      \/ pc' = [pc EXCEPT ![c] = "report"] /\ tgt' = tgt /\ tgt[c] \in Crashable
  BY <1>0, <1>1 DEF SendReturns, SendFails, QuietEnv, Goto, CalledOK
<1>4. /\ \/ pc'[c] = "send" /\ tgt'[c] = NoNode
         \/ pc'[c] = "report" /\ tgt'[c] = tgt[c] /\ tgt[c] \in Crashable
      /\ \A d \in Client : d # c => SameThread(d)
  BY <1>0, <1>2, <1>3 DEF TypeOK, SameThread
<1>5. ServedOf(c)'
  <2>1. /\ ServedOf(c) /\ Issued' = Issued
        /\ ReqId(c)' = ReqId(c) /\ ReqOp(c)' = ReqOp(c) /\ At(c)' = At(c)
    BY <1>1, <1>2, OwnRequest DEF nodeVars
  <2> QED
    BY <1>1, <1>2, <1>4, <2>1 DEF ServedOf, nodeVars
<1> QED
  BY <1>1, <1>2, <1>4, <1>5, OnlyThread

LEMMA RelayDoneQuiet ==
    ASSUME QuietInv, IInv', NEW c \in Client, RelayDone(c)
    PROVE  QuietInv'
<1>0. TypeOK /\ ThreadsOK
  BY QuietFacts
<1>1. pc[c] = "send" /\ cur[c] \in Write /\ ReqOp(c) \in {"update", "delete"}
  BY <1>0, ThreadFacts DEF RelayDone
<1>2. UNCHANGED <<kgVars, failnode, nodeVars, recoveryVars, rpc, cur, todo, tgt, log, peers, applied, reported>>
  BY DEF RelayDone, histVars
<1>3. /\ pc'[c] = IF ReqOp(c) = "update" THEN "store" ELSE "trigger"
      /\ \A d \in Client : d # c => SameThread(d)
  BY <1>0, <1>2 DEF RelayDone, Goto, AfterRelay, TypeOK, SameThread
<1>4. ServedOf(c)'
  <2>1. /\ ServedOf(c) /\ Issued' = Issued
        /\ ReqId(c)' = ReqId(c) /\ ReqOp(c)' = ReqOp(c) /\ At(c)' = At(c)
    BY <1>1, <1>2, OwnRequest DEF nodeVars
  <2> QED
    BY <1>1, <1>2, <1>3, <2>1 DEF ServedOf, nodeVars
<1> QED
  BY <1>1, <1>2, <1>3, <1>4, OnlyThread

LEMMA ReportQuiet ==
    ASSUME QuietEnv, QuietInv, IInv', NEW c \in Client, Report(c)
    PROVE  QuietInv'
<1>0. /\ TypeOK /\ ThreadsOK /\ CalledOK /\ RecordsOK /\ ItemsOK /\ ClosedOK /\ ValuesOK
  BY QuietFacts
<1>1. pc[c] = "report" /\ cur[c] \in Issued /\ cur[c] \in Write /\ tgt[c] \in Node /\ ReqId(c) \in Id
  BY <1>0, ThreadFacts DEF Report, ThreadsOK, TypeOK
<1>2. /\ failnode' = failnode \cup {<<tgt[c], ReqId(c)>>} /\ reported' = reported \cup {<<cur[c], tgt[c]>>}
      /\ tgt' = [tgt EXCEPT ![c] = NoNode] /\ pc' = [pc EXCEPT ![c] = "send"]
      /\ UNCHANGED <<kgVars, nodeVars, recoveryVars, cur, todo, rpc, log, peers, applied>>
  BY DEF Report, ReportFailedNode, QuietEnv, Goto
<1>3. /\ pc'[c] = "send" /\ tgt'[c] = NoNode
      /\ \A d \in Client : d # c => SameThread(d)
  BY <1>0, <1>2 DEF TypeOK, SameThread
<1>4. /\ ServedOf(c) /\ Issued' = Issued
      /\ ReqId(c)' = ReqId(c) /\ ReqOp(c)' = ReqOp(c) /\ At(c)' = At(c)
  BY <1>1, <1>2, OwnRequest DEF nodeVars
<1>5. tgt[c] \in Members /\ tgt[c] \in Crashable
  BY <1>1, <1>4, ReplicationAssumption DEF ServedOf
<1>6. ServedOf(c)'
  BY <1>1, <1>2, <1>3, <1>4 DEF ServedOf, nodeVars
<1>7. CalledOK'
  BY <1>0, <1>1, <1>2, <1>3, CallsStay
<1>8. ItemsOK' /\ ClosedOK'
  BY <1>0, <1>2, KeepItems, KeepClosed DEF nodeVars
<1>9. RecordsOK'
  <2>1. \A r \in reported' : r[2] \in Crashable
    BY <1>0, <1>2, <1>5 DEF RecordsOK
  <2>2. \A n \in Node, i \in Id : Pending(n, i)' => Pending(n, i) \/ (n = tgt[c] /\ i = ReqId(c))
    BY <1>2 DEF Pending, recoveryVars
  <2>3. \E w \in Issued : log[w].id = ReqId(c)
    BY <1>1 DEF ReqId
  <2> QED
    BY <1>0, <1>2, <1>4, <1>5, <2>1, <2>2, <2>3 DEF RecordsOK
<1>10. ValuesOK'
  <2>1. \A w \in Issued, m \in Node : Holds(m, w)' <=> Holds(m, w)
    BY <1>2 DEF Holds, Val, nodeVars
  <2> SUFFICES ASSUME NEW w \in Issued, NEW m \in Node, kgExpiry[m] = 0
               PROVE  /\ <<w, m>> \in applied => Holds(m, w)'
                      /\ <<w, m>> \in reported' => Holds(m, w)' \/ Pending(m, log[w].id)'
    BY <1>2, <1>4 DEF ValuesOK, kgVars
  <2>5. <<w, m>> \in applied => Holds(m, w)'
    BY <1>0, <2>1 DEF ValuesOK
  <2>6. <<w, m>> \in reported => Holds(m, w)' \/ Pending(m, log[w].id)'
    <3>1. <<w, m>> \in reported => Holds(m, w) \/ Pending(m, log[w].id)
      BY <1>0 DEF ValuesOK
    <3>2. Pending(m, log[w].id) => Pending(m, log[w].id)'
      BY <1>2 DEF Pending, recoveryVars
    <3> QED
      BY <2>1, <3>1, <3>2
  <2>7. w = cur[c] /\ m = tgt[c] => Pending(m, log[w].id)'
    BY <1>2 DEF Pending, ReqId
  <2> QED
    BY <1>2, <2>5, <2>6, <2>7
<1> QED
  BY <1>1, <1>2, <1>3, <1>6, <1>7, <1>8, <1>9, <1>10, RequestStep DEF nodeVars

\* Executing the last write of an item.
LEMMA Executes ==
    ASSUME TypeOK, ItemsOK, ValuesOK, NEW w \in Issued, NEW n \in Node, has[n], StoreWrite(n, w),
           \A u \in Issued : log[u].id = log[w].id => u <= w,
           UNCHANGED <<kgExpiry, has, log, reported, failnode, forgetting, missed>>
    PROVE  ItemsOK' /\ ValuesOK'
<1>1. Len(log) \in Nat /\ \A u \in Issued : log[u].id \in Id
  BY TypeFacts, LogType
<1>2. Val(w) \in 0..Len(log) /\ Val(w)' = Val(w)
  BY <1>1 DEF Val, Issued
<1>3. \A m \in Node, i \in Id :
         items'[m][i] = IF m = n /\ i = log[w].id THEN Val(w) ELSE items[m][i]
  BY <1>1, <1>2, TableUpdate DEF StoreWrite, TypeOK
<1>4. Issued' = Issued /\ applied' = applied \cup {<<w, n>>}
  BY DEF Issued, StoreWrite
<1>5. ItemsOK'
  <2>1. \A u \in Write, m \in Node : <<u, m>> \in applied' => u \in Issued
    BY <1>4 DEF ItemsOK
  <2> QED
    BY <1>3, <1>4, <2>1 DEF ItemsOK
<1>6. ASSUME NEW u \in Issued, NEW m \in Node, Holds(m, u) PROVE Holds(m, u)'
  <2>1. PICK v \in u..Len(log) : log[v].id = log[u].id /\ items[m][log[u].id] = Val(v)
    BY <1>6 DEF Holds
  <2>2. Val(v)' = Val(v)
    BY DEF Val
  <2>3. CASE m = n /\ log[u].id = log[w].id
    <3>1. w \in u..Len(log)
      BY <1>1, <2>3 DEF Issued
    <3>2. log'[w].id = log'[u].id /\ items'[m][log'[u].id] = Val(w)'
      BY <1>1, <1>2, <1>3, <2>3
    <3> QED
      BY <3>1, <3>2 DEF Holds
  <2>4. CASE ~(m = n /\ log[u].id = log[w].id)
    BY <1>1, <1>3, <2>1, <2>2, <2>4 DEF Holds
  <2> QED
    BY <2>3, <2>4
<1>7. Holds(n, w)'
  <2>1. w \in w..Len(log)
    BY <1>1 DEF Issued
  <2>2. items'[n][log'[w].id] = Val(w)'
    BY <1>1, <1>2, <1>3
  <2> QED
    BY <2>1, <2>2 DEF Holds
<1>8. ValuesOK'
  <2> SUFFICES ASSUME NEW u \in Issued, NEW m \in Node, kgExpiry[m] = 0
               PROVE  /\ <<u, m>> \in applied' => Holds(m, u)'
                      /\ <<u, m>> \in reported => Holds(m, u)' \/ Pending(m, log[u].id)'
    BY <1>4 DEF ValuesOK
  <2>1. /\ <<u, m>> \in applied => Holds(m, u)
        /\ <<u, m>> \in reported => Holds(m, u) \/ Pending(m, log[u].id)
    BY DEF ValuesOK
  <2>2. Pending(m, log[u].id) => Pending(m, log[u].id)'
    BY DEF Pending
  <2>3. <<u, m>> = <<w, n>> => u = w /\ m = n
    OBVIOUS
  <2> QED
    BY <1>4, <1>6, <1>7, <2>1, <2>2, <2>3
<1> QED
  BY <1>5, <1>8

LEMMA StoreLocalQuiet ==
    ASSUME QuietInv, IInv', NEW c \in Client, StoreLocal(c)
    PROVE  QuietInv'
<1>0. /\ TypeOK /\ ThreadsOK /\ CalledOK /\ RecordsOK /\ ItemsOK /\ ClosedOK /\ ValuesOK
  BY QuietFacts
<1>1. /\ pc[c] = "store" /\ cur[c] \in Issued /\ cur[c] \in Write /\ At(c) \in Node /\ has[At(c)]
      /\ ReqOp(c) \in {"update", "delete"}
  BY <1>0, ThreadFacts DEF StoreLocal
<1>2. /\ StoreWrite(At(c), cur[c])
      /\ UNCHANGED <<kgVars, failnode, nodeState, has, recoveryVars, cur, todo, tgt, rpc, log, peers, reported>>
  BY DEF StoreLocal
<1>3. /\ pc'[c] = IF ReqOp(c) = "update" THEN "trigger" ELSE "relay"
      /\ \A d \in Client : d # c => SameThread(d)
  BY <1>0, <1>2 DEF StoreLocal, Goto, AfterStore, TypeOK, SameThread
<1>4. /\ ServedOf(c) /\ Issued' = Issued
      /\ ReqId(c)' = ReqId(c) /\ ReqOp(c)' = ReqOp(c) /\ At(c)' = At(c)
  BY <1>1, <1>2, OwnRequest
<1>5. ServedOf(c)'
  BY <1>1, <1>2, <1>3, <1>4 DEF ServedOf
<1>6. ItemsOK' /\ ValuesOK'
  <2>1. \A u \in Issued : log[u].id = log[cur[c]].id => u <= cur[c]
    BY <1>4 DEF ServedOf, ReqId
  <2> QED
    BY <1>0, <1>1, <1>2, <2>1, Executes DEF kgVars, recoveryVars
<1>7. CalledOK'
  BY <1>0, <1>1, <1>2, <1>3, CallsStay
<1>8. \A n \in Node, i \in Id : Pending(n, i)' <=> Pending(n, i)
  BY <1>2, SamePending DEF recoveryVars
<1>9. RecordsOK' /\ ClosedOK'
  BY <1>0, <1>2, <1>8, KeepRecords, KeepClosed DEF StoreWrite
<1> QED
  BY <1>1, <1>2, <1>3, <1>5, <1>6, <1>7, <1>9, RequestStep

LEMMA CloseQuiet ==
    ASSUME QuietEnv, QuietInv, IInv', NEW c \in Client, StoreLocalFails(c) \/ TriggerLocal(c)
    PROVE  QuietInv'
<1>0. TypeOK /\ ThreadsOK /\ CallsOK /\ FixedOK
  BY QuietFacts
<1>1. /\ pc[c] \in {"store", "trigger"} /\ pc[c] # "idle" /\ cur[c] \in Write /\ peers[cur[c]] \subseteq Node
      /\ ReqOp(c) \in {"update", "delete"} /\ At(c) \in Node
  BY <1>0, ThreadFacts DEF StoreLocalFails, TriggerLocal
<1>2. /\ UNCHANGED <<kgVars, failnode, nodeVars, recoveryVars, rpc, log, peers, applied, reported>>
      /\ End(c)
  BY DEF StoreLocalFails, TriggerLocal, histVars
<1>3. pc'[c] = "idle" /\ \A d \in Client : d # c => SameThread(d)
  BY <1>0, <1>2 DEF End, TypeOK, SameThread
<1>4. ProgressOf(c) /\ ServedOf(c)
  BY <1>1, QuietFacts DEF QuietInv, IInv, ProgressOK, ServedOK
<1>5. todo[c] = {} /\ tgt[c] = NoNode
  BY <1>0, <1>1 DEF ThreadsOK
<1>6. \A m \in peers[cur[c]] : <<cur[c], m>> \in applied \/ <<cur[c], m>> \in reported
  <2> SUFFICES ASSUME NEW m \in peers[cur[c]] PROVE <<cur[c], m>> \in applied \/ <<cur[c], m>> \in reported
    OBVIOUS
  <2>1. m \in Node /\ Relayed(cur[c], m)
    BY <1>1, <1>4, <1>5, ReplicationAssumption DEF ProgressOf
  <2> QED
    BY <1>0, <1>1, <2>1 DEF Relayed, CallsOK
<1>7. /\ peers[cur[c]] = Members \ {At(c)}
      /\ At(c) \in Members => <<cur[c], At(c)>> \in applied
  <2>1. CASE pc[c] = "trigger"
    BY <1>4, <2>1 DEF ServedOf, ProgressOf
  <2>2. CASE pc[c] = "store"
    <3>1. ~has[At(c)]
      BY <2>2 DEF StoreLocalFails, TriggerLocal
    <3>2. At(c) \notin Members
      BY <1>0, <1>1, <3>1 DEF FixedOK, QuietEnv
    <3> QED
      BY <1>1, <1>4, <2>2, <3>1, <3>2 DEF ServedOf
  <2> QED
    BY <1>1, <2>1, <2>2
<1>8. \A m \in Members : <<cur[c], m>> \in applied \/ <<cur[c], m>> \in reported
  BY <1>6, <1>7
<1> QED
  BY <1>1, <1>2, <1>3, <1>8, OnlyThread

\* A client writes: nobody is starting, and no other request is about the item.
LEMMA AcceptQuiet ==
    ASSUME QuietEnv, QuietInv, IInv', NEW c \in Client, NEW n \in Node, NEW i \in Id,
           HandleUpdate(c, n, i) \/ HandleDelete(c, n, i)
    PROVE  QuietInv'
<1> DEFINE W == Len(log) + 1
<1>0. /\ TypeOK /\ ThreadsOK /\ FixedOK /\ NodesOK /\ CalledOK /\ ServedOK /\ RecordsOK /\ LastOK
      /\ ItemsOK /\ ClosedOK /\ ValuesOK /\ ReportsOK
  BY QuietFacts DEF QuietInv, IInv
<1>1. PICK op, first : /\ Accept(c, n, i, op, first)
                       /\ <<op, first>> \in {<<"update", "relay">>, <<"delete", "store">>}
                       /\ op = "delete" => items[n][i] # 0
  BY DEF HandleUpdate, HandleDelete
<1>2. /\ Len(log) \in Nat /\ Len(log') = W
      /\ \A w \in Issued : log'[w] = log[w]
      /\ log'[W].id = i /\ log'[W].via = n /\ log'[W].op = op
  BY <1>0, <1>1, AcceptLog
<1>3. Issued' = Issued \cup {W} /\ W \notin Issued /\ \A w \in Issued : w <= W
  BY <1>2 DEF Issued
<1>4. /\ cur' = [cur EXCEPT ![c] = W] /\ pc' = [pc EXCEPT ![c] = first]
      /\ pc[c] = "idle" /\ c \in Writer[i]
      /\ \A m \in Node : nodeState[m] # "starting"
      /\ UNCHANGED <<kgVars, failnode, nodeVars, recoveryVars, todo, tgt, rpc, peers, applied, reported>>
  BY <1>1 DEF Accept, Goto, QuietEnv
<1>5. /\ cur'[c] = W /\ pc'[c] = first /\ cur[c] = 0 /\ todo[c] = {} /\ tgt[c] = NoNode
      /\ \A d \in Client : d # c => SameThread(d)
  BY <1>0, <1>4 DEF TypeOK, ThreadsOK, SameThread
<1>6. FixedOK' /\ NodesOK'
  BY <1>0, <1>4, KeepFixed DEF NodesOK, nodeVars, recoveryVars
<1>7. CalledOK'
  BY <1>0, <1>4, <1>5, CallsStay
<1>8. ServedOK'
  <2> SUFFICES ASSUME NEW d \in Client, pc'[d] # "idle" PROVE ServedOf(d)'
    BY DEF ServedOK
  <2>1. CASE d = c
    <3>1. ReqId(c)' = i /\ ReqOp(c)' = op /\ At(c)' = n
      BY <1>2, <1>5 DEF ReqId, ReqOp, At
    <3>2. op = "delete" => has[n]
      BY <1>0, <1>1 DEF ItemsOK
    <3>3. \A w \in Issued' : w <= W
      BY <1>2, <1>3
    <3>4. (first = "relay" \/ (first = "store" /\ op = "delete")) /\ first # "report"
      BY <1>1
    <3> QED
      BY <1>4, <1>5, <2>1, <3>1, <3>2, <3>3, <3>4 DEF ServedOf, nodeVars
  <2>2. CASE d # c
    <3>1. /\ pc'[d] = pc[d] /\ cur'[d] = cur[d] /\ todo'[d] = todo[d] /\ tgt'[d] = tgt[d]
          /\ ServedOf(d)
      BY <1>0, <1>5, <2>2 DEF SameThread, ServedOK
    <3>2. cur[d] \in Issued
      BY <1>0, <3>1, ThreadFacts
    <3>3. ReqId(d)' = ReqId(d) /\ ReqOp(d)' = ReqOp(d) /\ At(d)' = At(d)
      BY <1>2, <3>1, <3>2 DEF ReqId, ReqOp, At
    <3>4. ReqId(d) # i
      BY <1>4, <2>2, <3>1 DEF ServedOf, QuietEnv
    <3>5. \A w \in Issued' : log'[w].id = ReqId(d) => w <= cur[d]
      BY <1>2, <1>3, <3>1, <3>4 DEF ServedOf
    <3> QED
      BY <1>4, <3>1, <3>3, <3>5 DEF ServedOf, nodeVars
  <2> QED
    BY <2>1, <2>2
<1>9. \A m \in Node, j \in Id : Pending(m, j)' <=> Pending(m, j)
  BY <1>4, SamePending DEF recoveryVars
<1>10. RecordsOK'
  <2>1. \A r \in reported' : r[2] \in Crashable
    BY <1>0, <1>4 DEF RecordsOK
  <2>2. \A j \in Id : (\E w \in Issued : log[w].id = j) => \E w \in Issued' : log'[w].id = j
    BY <1>2, <1>3
  <2> QED
    BY <1>0, <1>9, <2>1, <2>2 DEF RecordsOK
<1>11. ItemsOK'
  <2>1. \A j \in Id : (\E w \in Issued : log[w].id = j) => \E w \in Issued' : log'[w].id = j
    BY <1>2, <1>3
  <2> QED
    BY <1>0, <1>3, <1>4, <2>1 DEF ItemsOK, nodeVars
<1>12. LastOK'
  <2> SUFFICES ASSUME NEW j \in Id
               PROVE  \/ \A w \in Issued' : log'[w].id # j
                      \/ \E w \in Issued' : log'[w].id = j /\ \A v \in Issued' : log'[v].id = j => v <= w
    BY DEF LastOK
  <2>1. CASE j = i
    <3>1. W \in Issued' /\ log'[W].id = j /\ \A v \in Issued' : v <= W
      BY <1>2, <1>3, <2>1
    <3> QED
      BY <3>1
  <2>2. CASE j # i
    <3>1. CASE \A w \in Issued : log[w].id # j
      BY <1>2, <1>3, <2>2, <3>1
    <3>2. CASE \E w \in Issued : log[w].id = j /\ \A v \in Issued : log[v].id = j => v <= w
      <4>1. PICK w \in Issued : log[w].id = j /\ \A v \in Issued : log[v].id = j => v <= w
        BY <3>2
      <4>2. w \in Issued' /\ log'[w].id = j /\ \A v \in Issued' : log'[v].id = j => v <= w
        BY <1>2, <1>3, <2>2, <4>1
      <4> QED
        BY <4>2
    <3> QED
      BY <1>0, <3>1, <3>2 DEF LastOK
  <2> QED
    BY <2>1, <2>2
<1>13. ClosedOK'
  <2> SUFFICES ASSUME NEW w \in Issued', \A d \in Client : cur'[d] # w, NEW m \in Members
               PROVE  <<w, m>> \in applied \/ <<w, m>> \in reported
    BY <1>4 DEF ClosedOK
  <2>1. w \in Issued /\ w # 0
    BY <1>2, <1>3, <1>5 DEF Issued
  <2>2. \A d \in Client : cur[d] # w
    BY <1>5, <2>1 DEF SameThread
  <2> QED
    BY <1>0, <2>1, <2>2 DEF ClosedOK
<1>14. ValuesOK'
  <2> SUFFICES ASSUME NEW w \in Issued', NEW m \in Node, kgExpiry[m] = 0
               PROVE  /\ <<w, m>> \in applied => Holds(m, w)'
                      /\ <<w, m>> \in reported => Holds(m, w)' \/ Pending(m, log[w].id)'
    BY <1>4 DEF ValuesOK, kgVars
  <2>1. CASE w = W
    <3>1. W \in Write
      <4>1. Len(log') <= MaxWrites
        BY <1>0, <1>1, AcceptLog
      <4> QED
        BY <1>2, <4>1, ReplicationAssumption DEF Write
    <3>2. <<W, m>> \notin applied
      BY <1>0, <1>3, <3>1 DEF ItemsOK
    <3>3. <<W, m>> \notin reported
      <4>1. <<W, m>>[1] = W
        OBVIOUS
      <4> QED
        BY <1>0, <1>3, <4>1 DEF ReportsOK
    <3> QED
      BY <2>1, <3>2, <3>3
  <2>2. CASE w # W
    <3>1. w \in Issued /\ log'[w] = log[w] /\ log[w].id \in Id
      BY <1>0, <1>2, <1>3, <2>2, LogType
    <3>2. ASSUME Holds(m, w) PROVE Holds(m, w)'
      <4>1. PICK v \in w..Len(log) : log[v].id = log[w].id /\ items[m][log[w].id] = Val(v)
        BY <3>2 DEF Holds
      <4>2. v \in Issued /\ v \in w..Len(log')
        BY <1>2, <3>1, <4>1 DEF Issued
      <4>3. log'[v] = log[v] /\ Val(v)' = Val(v)
        BY <1>2, <4>2 DEF Val
      <4> QED
        BY <1>4, <3>1, <4>1, <4>2, <4>3 DEF Holds, nodeVars
    <3>3. Pending(m, log[w].id) => Pending(m, log[w].id)'
      BY <1>4, <3>1 DEF Pending, recoveryVars
    <3> QED
      BY <1>0, <3>1, <3>2, <3>3 DEF ValuesOK
  <2> QED
    BY <2>1, <2>2
<1> QED
  BY <1>6, <1>7, <1>8, <1>10, <1>11, <1>12, <1>13, <1>14 DEF QuietInv

----------------------------------------------------------------------------
(* Steps of the peers, crashes and recoveries *)

\* The request w is open and is the last one about its item, while a call carries it.
LEMMA CallServed ==
    ASSUME QuietInv, NEW w \in Write, NEW m \in Node, rpc[w][m] \in {"sent", "stored"}
    PROVE  w \in Issued /\ \A u \in Issued : log[u].id = log[w].id => u <= w
<1>1. PICK c \in Client : cur[c] = w /\ pc[c] = "wait"
  BY QuietFacts DEF CalledOK
<1>2. ServedOf(c)
  BY <1>1, QuietFacts DEF ServedOK
<1> QED
  BY <1>1, <1>2, QuietFacts DEF CallsOK, ServedOf, ReqId

\* A step of a node that leaves the requests alone: what is left to show.
LEMMA NodeStep ==
    ASSUME QuietInv, IInv',
           UNCHANGED <<threadVars, kgVars, has, log, peers, reported>>, applied \subseteq applied',
           NodesOK', CalledOK', RecordsOK', ItemsOK', ValuesOK'
    PROVE  QuietInv'
<1>1. FixedOK' /\ ServedOK' /\ LastOK' /\ ClosedOK'
  <2>1. cur' = cur /\ reported \subseteq reported'
    BY DEF threadVars
  <2> QED
    BY <2>1, QuietFacts, KeepFixed, KeepServed, KeepLast, KeepClosed
<1> QED
  BY <1>1 DEF QuietInv

LEMMA RemoteQuiet ==
    ASSUME QuietEnv, QuietInv, IInv', NEW w \in Write, NEW m \in Node, RemoteStep(w, m)
    PROVE  QuietInv'
<1>0. /\ TypeOK /\ FixedOK /\ NodesOK /\ CalledOK /\ RecordsOK /\ ItemsOK /\ ValuesOK
  BY QuietFacts
<1>1. rpc[w][m] \in {"sent", "stored"}
  BY DEF RemoteStep, RemoteStore, RemoteTrigger, ConnectionRefused
<1>2. m \in Members /\ has[m]
  BY <1>0, <1>1 DEF CalledOK, FixedOK, QuietEnv
<1>3. UNCHANGED <<kgVars, failnode, nodeState, has, recoveryVars, threadVars, log, peers, reported>>
  BY DEF RemoteStep, RemoteStore, RemoteTrigger, ConnectionRefused, nodeVars, histVars
<1>4. PICK v \in {"stored", "ok", "lost"} :
         /\ rpc' = [rpc EXCEPT ![w][m] = v]
         /\ v = "lost" => nodeState[m] # "up"
  BY <1>2 DEF RemoteStep, RemoteStore, RemoteTrigger, ConnectionRefused, TriggerFails, QuietEnv
<1>5. \A u \in Write, k \in Node : rpc'[u][k] = IF u = w /\ k = m THEN v ELSE rpc[u][k]
  <2>1. rpc \in [Write -> [Node -> RpcState]]
    BY <1>0 DEF TypeOK
  <2>2. v \in RpcState
    BY DEF RpcState
  <2> QED
    BY <1>4, <2>1, <2>2, TableUpdate
<1>6. CalledOK'
  <2>1. \A u \in Write, k \in Node : rpc'[u][k] \in {"sent", "stored"} => rpc[u][k] \in {"sent", "stored"}
    BY <1>1, <1>5
  <2>2. \A u \in Write, k \in Node : /\ rpc'[u][k] # "none" => k \in Members
                                     /\ rpc'[u][k] \in {"err", "lost"} => k \in Crashable
    BY <1>0, <1>2, <1>4, <1>5 DEF CalledOK, NodesOK
  <2> QED
    BY <1>0, <1>3, <2>1, <2>2 DEF CalledOK, threadVars
<1>7. NodesOK'
  BY <1>0, <1>3, KeepNodes DEF threadVars, recoveryVars
<1>8. \A n \in Node, i \in Id : Pending(n, i)' <=> Pending(n, i)
  BY <1>3, SamePending DEF recoveryVars
<1>9. RecordsOK'
  BY <1>0, <1>3, <1>8, KeepRecords
<1>10. ItemsOK' /\ ValuesOK' /\ applied \subseteq applied'
  <2>1. CASE items' = items /\ applied' = applied
    BY <1>0, <1>3, <1>8, <2>1, KeepItems, KeepValues DEF kgVars
  <2>2. CASE StoreWrite(m, w)
    <3>1. w \in Issued /\ \A u \in Issued : log[u].id = log[w].id => u <= w
      BY <1>1, CallServed
    <3>2. UNCHANGED <<kgExpiry, has, log, reported, failnode, forgetting, missed>>
      BY <1>3 DEF kgVars, recoveryVars
    <3>3. ItemsOK' /\ ValuesOK'
      BY <1>0, <1>2, <2>2, <3>1, <3>2, Executes
    <3> QED
      BY <2>2, <3>3 DEF StoreWrite
  <2>3. StoreWrite(m, w) \/ (items' = items /\ applied' = applied)
    BY DEF RemoteStep, RemoteStore, RemoteTrigger, ConnectionRefused, nodeVars, histVars
  <2> QED
    BY <2>1, <2>2, <2>3
<1> QED
  BY <1>3, <1>6, <1>7, <1>9, <1>10, NodeStep

\* A step of a node that changes neither what is stored nor what is to be fetched.
LEMMA NoDataStep ==
    ASSUME QuietInv, IInv',
           UNCHANGED <<threadVars, kgVars, has, items, log, peers, applied, reported>>,
           \A n \in Node, i \in Id : Pending(n, i)' <=> Pending(n, i),
           NodesOK', CalledOK'
    PROVE  QuietInv'
<1>0. TypeOK /\ RecordsOK /\ ItemsOK /\ ValuesOK
  BY QuietFacts
<1>1. RecordsOK' /\ ItemsOK' /\ ValuesOK'
  BY <1>0, KeepRecords, KeepItems, KeepValues DEF kgVars
<1> QED
  BY <1>1, NodeStep

\* A node that crashes serves no client.
LEMMA CrashQuiet ==
    ASSUME QuietEnv, QuietInv, IInv', NEW n \in Node, Crash(n) PROVE QuietInv'
<1>0. TypeOK /\ ThreadsOK /\ NodesOK /\ CalledOK
  BY QuietFacts
<1>1. n \in Crashable /\ nodeState[n] = "up" /\ forgetting[n] = {} /\ missed[n] = {}
  BY <1>0 DEF Crash, QuietEnv, NodesOK
<1>2. \A c \in Client : c \notin Serving(n)
  <2> SUFFICES ASSUME NEW c \in Client, pc[c] # "idle" PROVE At(c) # n
    BY DEF Serving, Idle
  <2>1. cur[c] \in Issued
    BY <1>0, ThreadFacts
  <2>2. log \in Seq(Request)
    BY <1>0 DEF TypeOK
  <2>3. log[cur[c]] \in Request
    BY <2>1, <2>2, ElementOfSeq, TypeFacts, <1>0 DEF Issued
  <2>4. At(c) \in Entry
    BY <2>3 DEF At, Request
  <2> QED
    BY <1>1, <2>4 DEF QuietEnv
<1>3. UNCHANGED threadVars
  BY <1>0, <1>2 DEF Crash, TypeOK, threadVars
<1>4. /\ UNCHANGED <<kgVars, failnode, has, items, log, peers, applied, reported>>
      /\ \A m \in Node : /\ nodeState'[m] = IF m = n THEN "down" ELSE nodeState[m]
                         /\ forgetting'[m] = forgetting[m] /\ missed'[m] = missed[m]
  BY <1>0, <1>1 DEF Crash, TypeOK, histVars
<1>5. NodesOK'
  BY <1>0, <1>1, <1>3, <1>4 DEF NodesOK, Idle, threadVars
<1>6. \A w \in Write, m \in Node :
         rpc'[w][m] = IF m = n /\ rpc[w][m] \in {"sent", "stored"} THEN "lost" ELSE rpc[w][m]
  BY DEF Crash
<1>7. CalledOK'
  <2>1. \A w \in Write, m \in Node :
           /\ rpc'[w][m] \in {"sent", "stored"} => rpc[w][m] \in {"sent", "stored"}
           /\ rpc'[w][m] # "none" => m \in Members
           /\ rpc'[w][m] \in {"err", "lost"} => m \in Crashable
    BY <1>0, <1>1, <1>6 DEF CalledOK
  <2> QED
    BY <1>0, <1>3, <2>1 DEF CalledOK, threadVars
<1>8. \A m \in Node, i \in Id : Pending(m, i)' <=> Pending(m, i)
  BY <1>4 DEF Pending
<1> QED
  BY <1>3, <1>4, <1>5, <1>7, <1>8, NoDataStep

LEMMA RestartQuiet ==
    ASSUME QuietEnv, QuietInv, IInv', NEW n \in Node, Restart(n) PROVE QuietInv'
<1>0. TypeOK /\ NodesOK /\ CalledOK
  BY QuietFacts
<1>1. /\ n \in Crashable /\ nodeState[n] = "down" /\ forgetting[n] = {} /\ missed[n] = {}
      /\ \A c \in Client : Idle(c)
  BY <1>0 DEF Restart, QuietEnv, NodesOK
<1>2. /\ UNCHANGED <<kgVars, failnode, has, items, missed, threadVars, rpc, log, peers, applied, reported>>
      /\ \A m \in Node : /\ nodeState'[m] = IF m = n THEN "starting" ELSE nodeState[m]
                         /\ forgetting'[m] = IF m = n THEN MissedRecords(n) ELSE forgetting[m]
  BY <1>0 DEF Restart, QuietEnv, TypeOK, histVars
<1>3. NodesOK'
  BY <1>0, <1>1, <1>2 DEF NodesOK, Idle, threadVars
<1>4. CalledOK'
  BY <1>0, <1>2, KeepCalled
<1>5. \A m \in Node, i \in Id : Pending(m, i)' <=> Pending(m, i)
  BY <1>1, <1>2 DEF Pending, MissedRecords
<1> QED
  BY <1>2, <1>3, <1>4, <1>5, NoDataStep

LEMMA ForgetQuiet ==
    ASSUME QuietEnv, QuietInv, IInv', NEW n \in Node, NEW i \in Id, Forget(n, i) PROVE QuietInv'
<1>0. TypeOK /\ NodesOK /\ CalledOK
  BY QuietFacts
<1>1. /\ UNCHANGED <<kgVars, nodeVars, threadVars, rpc, log, peers, applied, reported>>
      /\ nodeState[n] = "starting" /\ failnode' = failnode \ {<<n, i>>}
      /\ \A m \in Node : /\ forgetting'[m] = IF m = n THEN forgetting[n] \ {i} ELSE forgetting[m]
                         /\ missed'[m] = IF m = n THEN missed[n] \cup {i} ELSE missed[m]
  BY <1>0 DEF Forget, RemoveRecord, QuietEnv, TypeOK
<1>2. NodesOK'
  BY <1>0, <1>1 DEF NodesOK, Idle, threadVars, nodeVars
<1>3. CalledOK'
  BY <1>0, <1>1, KeepCalled
<1>4. \A m \in Node, j \in Id : Pending(m, j)' <=> Pending(m, j)
  <2> SUFFICES ASSUME NEW m \in Node, NEW j \in Id PROVE Pending(m, j)' <=> Pending(m, j)
    OBVIOUS
  <2>1. CASE m = n /\ j = i
    <3>1. i \in forgetting[n]
      BY DEF Forget
    <3> QED
      BY <1>1, <2>1, <3>1 DEF Pending
  <2>2. CASE ~(m = n /\ j = i)
    BY <1>1, <2>2 DEF Pending
  <2> QED
    BY <2>1, <2>2
<1> QED
  BY <1>1, <1>2, <1>3, <1>4, NoDataStep DEF nodeVars

LEMMA ServeQuiet ==
    ASSUME QuietInv, IInv', NEW n \in Node, Serve(n) PROVE QuietInv'
<1>0. TypeOK /\ NodesOK /\ CalledOK
  BY QuietFacts
<1>1. /\ UNCHANGED <<kgVars, failnode, has, items, recoveryVars, threadVars, rpc, log, peers, applied, reported>>
      /\ forgetting[n] = {} /\ missed[n] = {}
      /\ \A m \in Node : nodeState'[m] = IF m = n THEN "up" ELSE nodeState[m]
  BY <1>0 DEF Serve, TypeOK, histVars
<1>2. NodesOK'
  BY <1>0, <1>1 DEF NodesOK, Idle, threadVars, recoveryVars
<1>3. CalledOK'
  BY <1>0, <1>1, KeepCalled
<1>4. \A m \in Node, i \in Id : Pending(m, i)' <=> Pending(m, i)
  BY <1>1, SamePending DEF recoveryVars
<1> QED
  BY <1>1, <1>2, <1>3, <1>4, NoDataStep

\* While a node is starting every request is closed, so a member that does not crash
\* has executed every write.
LEMMA SourceHolds ==
    ASSUME QuietEnv, QuietInv, NEW n \in Node, nodeState[n] = "starting",
           NEW s \in Members, s \notin Crashable, kgExpiry[s] = 0, NEW w \in Issued
    PROVE  Holds(s, w)
<1>0. TypeOK /\ ThreadsOK /\ NodesOK /\ RecordsOK /\ ClosedOK /\ ValuesOK
  BY QuietFacts
<1>1. s \in Node /\ w # 0
  BY <1>0, ReplicationAssumption, TypeFacts
<1>2. \A c \in Client : cur[c] # w
  BY <1>0, <1>1 DEF NodesOK, Idle, ThreadsOK
<1>3. <<w, s>> \in applied \/ <<w, s>> \in reported
  BY <1>0, <1>2 DEF ClosedOK
<1>4. <<w, s>> \notin reported
  <2>1. <<w, s>>[2] = s
    OBVIOUS
  <2> QED
    BY <1>0, <2>1 DEF RecordsOK
<1> QED
  BY <1>0, <1>1, <1>3, <1>4 DEF ValuesOK

\* The members a starting node may ask: there is one, and all of them answer.
LEMMA Sources ==
    ASSUME QuietEnv, QuietInv, NEW n \in Node, NEW i \in Id, nodeState[n] = "starting", i \in missed[n]
    PROVE  /\ has[n]
           /\ GetNodeWithBiggerExpiry(n) # {}
           /\ \A s \in GetNodeWithBiggerExpiry(n) :
                 /\ s \in Members /\ s \notin Crashable /\ kgExpiry[s] = 0
                 /\ nodeState[s] = "up" /\ has[s] /\ items[s][i] # 0
<1>0. TypeOK /\ FixedOK /\ NodesOK /\ RecordsOK
  BY QuietFacts
<1>1. n \in Crashable
  BY <1>0 DEF NodesOK
<1>2. PICK w \in Issued : log[w].id = i
  BY <1>0 DEF RecordsOK, Pending
<1>3. n \in Members
  BY <1>0 DEF RecordsOK, Pending
<1>4. \A m \in Members : m \in Node /\ has[m] /\ (m # n => m \notin Crashable /\ nodeState[m] = "up")
  BY <1>0, <1>1, ReplicationAssumption DEF FixedOK, QuietEnv, NodesOK
<1>5. \A m : m \in GetKeygroupMembers(n, TRUE) <=> m \in Members /\ m # n
  BY <1>0, ReplicationAssumption DEF FixedOK, GetKeygroupMembers
<1>6. \A m \in Members : Rank(kgExpiry[m]) <= MaxInt32 /\ (Rank(kgExpiry[m]) >= MaxInt32 => kgExpiry[m] = 0)
  <2> SUFFICES ASSUME NEW m \in Members
               PROVE  Rank(kgExpiry[m]) <= MaxInt32 /\ (Rank(kgExpiry[m]) >= MaxInt32 => kgExpiry[m] = 0)
    OBVIOUS
  <2>1. kgExpiry[m] \in Nat /\ kgExpiry[m] <= MaxInt32 /\ kgExpiry[m] # MaxInt32 /\ MaxInt32 \in Nat
    BY <1>0, <1>4, ReplicationAssumption DEF FixedOK, QuietEnv, MaxInt32
  <2> QED
    BY <2>1 DEF Rank
<1>7. PICK b \in Members : b \notin Crashable /\ kgExpiry[b] = 0
  BY <1>0 DEF QuietEnv, FixedOK
<1>8. b # n /\ Rank(kgExpiry[b]) = MaxInt32
  BY <1>1, <1>7 DEF Rank
<1>9. b \in GetNodeWithBiggerExpiry(n)
  BY <1>5, <1>6, <1>7, <1>8 DEF GetNodeWithBiggerExpiry
<1>10. ASSUME NEW s \in GetNodeWithBiggerExpiry(n)
       PROVE  /\ s \in Members /\ s \notin Crashable /\ kgExpiry[s] = 0
              /\ nodeState[s] = "up" /\ has[s] /\ items[s][i] # 0
  <2>1. s \in GetKeygroupMembers(n, TRUE) /\ Rank(kgExpiry[b]) <= Rank(kgExpiry[s])
    BY <1>5, <1>7, <1>8 DEF GetNodeWithBiggerExpiry
  <2>2. s \in Members /\ s # n /\ kgExpiry[s] = 0
    BY <1>5, <1>6, <1>8, <2>1
  <2>3. s \notin Crashable /\ nodeState[s] = "up" /\ has[s]
    BY <1>4, <2>2
  <2>4. Holds(s, w)
    BY <2>2, <2>3, SourceHolds
  <2>5. PICK v \in w..Len(log) : items[s][i] = Val(v)
    BY <1>2, <2>4 DEF Holds
  <2>6. v \in Issued /\ v # 0
    BY <1>0, <2>5, TypeFacts DEF Issued
  <2>7. log[v].op = "update"
    BY <1>0, <1>1, <2>6, LogType DEF QuietEnv
  <2> QED
    BY <2>2, <2>3, <2>5, <2>6, <2>7 DEF Val
<1> QED
  BY <1>3, <1>4, <1>9, <1>10

LEMMA FetchQuiet ==
    ASSUME QuietEnv, QuietInv, IInv', NEW n \in Node, NEW i \in Id, Fetch(n, i) \/ FetchFails(n, i)
    PROVE  QuietInv'
<1>0. TypeOK /\ NodesOK /\ CalledOK /\ RecordsOK /\ ItemsOK /\ ValuesOK
  BY QuietFacts
<1>1. nodeState[n] = "starting" /\ i \in missed[n]
  BY DEF Fetch, FetchFails
<1>2. /\ has[n] /\ GetNodeWithBiggerExpiry(n) # {}
      /\ \A s \in GetNodeWithBiggerExpiry(n) :
            /\ s \in Members /\ s \notin Crashable /\ kgExpiry[s] = 0
            /\ nodeState[s] = "up" /\ has[s] /\ items[s][i] # 0
  BY <1>1, Sources
<1>3. ~FetchFails(n, i)
  BY <1>2 DEF FetchFails, QuietEnv
<1>4. PICK s \in GetNodeWithBiggerExpiry(n) : items' = [items EXCEPT ![n][i] = items[s][i]]
  BY <1>3 DEF Fetch
<1>5. s \in Members /\ s \in Node /\ s \notin Crashable /\ kgExpiry[s] = 0 /\ items[s][i] # 0
  BY <1>2, <1>4, ReplicationAssumption
<1>6. /\ UNCHANGED <<kgVars, failnode, nodeState, has, forgetting, threadVars, rpc, log, peers, applied, reported>>
      /\ \A m \in Node : missed'[m] = IF m = n THEN missed[n] \ {i} ELSE missed[m]
  BY <1>0, <1>3 DEF Fetch, TypeOK, histVars
<1>7. \A m \in Node, j \in Id : items'[m][j] = IF m = n /\ j = i THEN items[s][i] ELSE items[m][j]
  <2>1. items \in [Node -> [Id -> 0..Len(log)]]
    BY <1>0 DEF TypeOK
  <2>2. items[s][i] \in 0..Len(log)
    BY <1>5, <2>1
  <2> QED
    BY <1>4, <2>1, <2>2, TableUpdate
<1>8. NodesOK'
  BY <1>0, <1>1, <1>6 DEF NodesOK, Idle, threadVars
<1>9. CalledOK'
  BY <1>0, <1>6, KeepCalled
<1>10. RecordsOK'
  <2>1. \A m \in Node, j \in Id : Pending(m, j)' => Pending(m, j)
    BY <1>6 DEF Pending
  <2> QED
    BY <1>0, <1>6, <2>1, KeepRecords
<1>11. Issued' = Issued
  BY <1>6 DEF Issued
<1>12. ItemsOK'
  BY <1>0, <1>2, <1>5, <1>6, <1>7, <1>11 DEF ItemsOK
<1>13. ValuesOK'
  <2> SUFFICES ASSUME NEW w \in Issued, NEW m \in Node, kgExpiry[m] = 0
               PROVE  /\ <<w, m>> \in applied => Holds(m, w)'
                      /\ <<w, m>> \in reported => Holds(m, w)' \/ Pending(m, log[w].id)'
    BY <1>6, <1>11 DEF ValuesOK, kgVars
  <2>0. log[w].id \in Id
    BY <1>0, LogType
  <2>1. CASE m = n /\ log[w].id = i
    <3>1. Holds(s, w)
      BY <1>1, <1>5, SourceHolds
    <3>2. PICK v \in w..Len(log) : log[v].id = log[w].id /\ items[s][log[w].id] = Val(v)
      BY <3>1 DEF Holds
    <3>3. Val(v)' = Val(v) /\ items'[m][log[w].id] = items[s][i]
      BY <1>6, <1>7, <2>1 DEF Val
    <3>4. Holds(m, w)'
      BY <1>6, <2>1, <3>2, <3>3 DEF Holds
    <3> QED
      BY <3>4
  <2>2. CASE ~(m = n /\ log[w].id = i)
    <3>1. items'[m][log[w].id] = items[m][log[w].id]
      BY <1>7, <2>0, <2>2
    <3>2. Holds(m, w)' <=> Holds(m, w)
      BY <1>6, <3>1 DEF Holds, Val
    <3>3. Pending(m, log[w].id) => Pending(m, log[w].id)'
      BY <1>6, <2>2 DEF Pending
    <3> QED
      BY <1>0, <3>2, <3>3 DEF ValuesOK
  <2> QED
    BY <2>1, <2>2
<1> QED
  BY <1>6, <1>8, <1>9, <1>10, <1>12, <1>13, NodeStep

LEMMA ExpireQuiet ==
    ASSUME QuietInv, IInv', NEW n \in Node, NEW i \in Id, Expire(n, i) PROVE QuietInv'
<1>0. TypeOK /\ NodesOK /\ CalledOK /\ RecordsOK /\ ItemsOK /\ ValuesOK
  BY QuietFacts
<1>1. /\ UNCHANGED <<kgVars, failnode, nodeState, has, recoveryVars, threadVars, rpc, log, peers, applied, reported>>
      /\ kgExpiry[n] # 0 /\ items' = [items EXCEPT ![n][i] = 0]
  BY DEF Expire, histVars
<1>2. \A m \in Node, j \in Id : items'[m][j] = IF m = n /\ j = i THEN 0 ELSE items[m][j]
  <2>1. items \in [Node -> [Id -> 0..Len(log)]] /\ 0 \in 0..Len(log)
    BY <1>0, TypeFacts DEF TypeOK
  <2> QED
    BY <1>1, <2>1, TableUpdate
<1>3. NodesOK' /\ CalledOK'
  BY <1>0, <1>1, KeepNodes, KeepCalled DEF recoveryVars, threadVars
<1>4. \A m \in Node, j \in Id : Pending(m, j)' <=> Pending(m, j)
  BY <1>1, SamePending DEF recoveryVars
<1>5. RecordsOK'
  BY <1>0, <1>1, <1>4, KeepRecords
<1>6. Issued' = Issued
  BY <1>1 DEF Issued
<1>7. ItemsOK'
  BY <1>0, <1>1, <1>2, <1>6 DEF ItemsOK
<1>8. ValuesOK'
  <2> SUFFICES ASSUME NEW w \in Issued, NEW m \in Node, kgExpiry[m] = 0
               PROVE  /\ <<w, m>> \in applied => Holds(m, w)'
                      /\ <<w, m>> \in reported => Holds(m, w)' \/ Pending(m, log[w].id)'
    BY <1>1, <1>6 DEF ValuesOK, kgVars
  <2>1. log[w].id \in Id /\ m # n
    BY <1>0, <1>1, LogType
  <2>2. items'[m][log[w].id] = items[m][log[w].id]
    BY <1>2, <2>1
  <2>3. Holds(m, w)' <=> Holds(m, w)
    BY <1>1, <2>2 DEF Holds, Val
  <2>4. Pending(m, log[w].id) => Pending(m, log[w].id)'
    BY <1>1 DEF Pending, recoveryVars
  <2> QED
    BY <1>0, <2>3, <2>4 DEF ValuesOK
<1> QED
  BY <1>1, <1>3, <1>5, <1>7, <1>8, NodeStep

----------------------------------------------------------------------------
(* The promise of the recovery protocol *)

LEMMA NextQuiet ==
    ASSUME QuietEnv, QuietInv, [Next]_vars
    PROVE  QuietInv'
<1>0. IInv'
  <2>1. "nase" \notin Faults /\ IInv
    BY QuietFacts DEF QuietEnv
  <2> QED
    BY <2>1, NextIInv
<1>1. ASSUME NEW c \in Client, NEW n \in Node, NEW i \in Id,
             HandleUpdate(c, n, i) \/ HandleDelete(c, n, i)
      PROVE  QuietInv'
  BY <1>0, <1>1, AcceptQuiet
<1>2. ASSUME NEW c \in Client, ThreadStep(c) PROVE QuietInv'
  <2>1. ~RelayAborts(c)
    BY QuietFacts DEF RelayAborts, ExistsKeygroup, FixedOK, QuietEnv
  <2>2. CASE RelayMembers(c)
    BY <1>0, <2>2, RelayMembersQuiet
  <2>3. ASSUME NEW m \in Node, Send(c, m) PROVE QuietInv'
    BY <1>0, <2>3, SendQuiet
  <2>4. CASE SendReturns(c) \/ SendFails(c)
    BY <1>0, <2>4, AnswerQuiet
  <2>5. CASE Report(c)
    BY <1>0, <2>5, ReportQuiet
  <2>6. CASE RelayDone(c)
    BY <1>0, <2>6, RelayDoneQuiet
  <2>7. CASE StoreLocal(c)
    BY <1>0, <2>7, StoreLocalQuiet
  <2>8. CASE StoreLocalFails(c) \/ TriggerLocal(c)
    BY <1>0, <2>8, CloseQuiet
  <2> QED
    BY <1>2, <2>1, <2>2, <2>3, <2>4, <2>5, <2>6, <2>7, <2>8 DEF ThreadStep
<1>3. ASSUME NEW w \in Write, NEW m \in Node, RemoteStep(w, m) PROVE QuietInv'
  BY <1>0, <1>3, RemoteQuiet
<1>4. ASSUME NEW n \in Node, Crash(n) PROVE QuietInv'
  BY <1>0, <1>4, CrashQuiet
<1>5. ASSUME NEW n \in Node, Restart(n) PROVE QuietInv'
  BY <1>0, <1>5, RestartQuiet
<1>6. ASSUME NEW n \in Node, NEW i \in Id, Forget(n, i) PROVE QuietInv'
  BY <1>0, <1>6, ForgetQuiet
<1>7. ASSUME NEW n \in Node, NEW i \in Id, Fetch(n, i) \/ FetchFails(n, i) PROVE QuietInv'
  BY <1>0, <1>7, FetchQuiet
<1>8. ASSUME NEW n \in Node, Serve(n) PROVE QuietInv'
  BY <1>0, <1>8, ServeQuiet
<1>9. ASSUME NEW n \in Node, NEW i \in Id, Expire(n, i) PROVE QuietInv'
  BY <1>0, <1>9, ExpireQuiet
<1>10. CASE UNCHANGED vars
  <2>1. UNCHANGED <<threadVars, rpc, kgVars, failnode, nodeVars, recoveryVars, log, peers, applied, reported>>
    BY <1>10 DEF vars, histVars
  <2>2. NodesOK' /\ CalledOK'
    BY <2>1, QuietFacts, KeepNodes, KeepCalled DEF threadVars, nodeVars, recoveryVars
  <2>3. \A m \in Node, i \in Id : Pending(m, i)' <=> Pending(m, i)
    BY <2>1, SamePending DEF recoveryVars
  <2> QED
    BY <1>0, <2>1, <2>2, <2>3, NoDataStep DEF nodeVars
<1> QED
  BY <1>1, <1>2, <1>3, <1>4, <1>5, <1>6, <1>7, <1>8, <1>9, <1>10 DEF Next, RecoveryStep, Done

LEMMA QuietFresh ==
    ASSUME QuietInv
    PROVE  NoSilentStaleness
<1>0. TypeOK /\ CallsOK /\ ValuesOK /\ AckedOK
  BY QuietFacts DEF QuietInv, IInv
<1> SUFFICES ASSUME NEW w \in acked, NEW m \in Replicas(w), kgExpiry[m] = 0
             PROVE  Holds(m, w) \/ Pending(m, log[w].id)
  BY DEF NoSilentStaleness
<1>1. /\ w \in Write /\ w \in Issued /\ m \in Node
      /\ \A k \in peers[w] : Relayed(w, k)
      /\ <<w, log[w].via>> \in applied
  BY <1>0, TypeFacts, LogType DEF AckedOK, Replicas
<1>2. <<w, m>> \in applied \/ <<w, m>> \in reported
  BY <1>0, <1>1 DEF Replicas, Relayed, CallsOK
<1> QED
  BY <1>0, <1>1, <1>2 DEF ValuesOK

\* When no request is open, a member without expiry that has nothing to fetch stores
\* what the last write of an item left there.
LEMMA LastIsStored ==
    ASSUME QuietInv, Settled, NEW w \in Issued,
           \A v \in Issued : log[v].id = log[w].id => v <= w,
           NEW m \in Members, kgExpiry[m] = 0, ~Pending(m, log[w].id)
    PROVE  items[m][log[w].id] = Val(w)
<1>0. TypeOK /\ ThreadsOK /\ ClosedOK /\ ValuesOK
  BY QuietFacts
<1>1. m \in Node /\ w # 0 /\ Len(log) \in Nat
  BY <1>0, ReplicationAssumption, TypeFacts
<1>2. \A c \in Client : cur[c] # w
  BY <1>0, <1>1 DEF Settled, Idle, ThreadsOK
<1>3. <<w, m>> \in applied \/ <<w, m>> \in reported
  BY <1>0, <1>2 DEF ClosedOK
<1>4. Holds(m, w)
  BY <1>0, <1>1, <1>3 DEF ValuesOK
<1>5. PICK v \in w..Len(log) : log[v].id = log[w].id /\ items[m][log[w].id] = Val(v)
  BY <1>4 DEF Holds
<1>6. v \in Issued /\ v <= w /\ w <= v
  BY <1>1, <1>5 DEF Issued
<1>7. v = w
  BY <1>1, <1>6 DEF Issued
<1> QED
  BY <1>5, <1>7

LEMMA QuietSame ==
    ASSUME QuietInv
    PROVE  SameData
<1>0. LastOK /\ ItemsOK
  BY QuietFacts
<1> SUFFICES ASSUME Settled, NEW m \in Members, NEW n \in Members, NEW i \in Id,
                    kgExpiry[m] = 0, kgExpiry[n] = 0, ~Pending(m, i), ~Pending(n, i)
             PROVE  items[m][i] = items[n][i]
  BY DEF SameData
<1>1. CASE \A w \in Issued : log[w].id # i
  BY <1>0, <1>1, ReplicationAssumption DEF ItemsOK
<1>2. CASE \E w \in Issued : log[w].id = i /\ \A v \in Issued : log[v].id = i => v <= w
  <2>1. PICK w \in Issued : log[w].id = i /\ \A v \in Issued : log[v].id = i => v <= w
    BY <1>2
  <2>2. items[m][i] = Val(w) /\ items[n][i] = Val(w)
    BY <2>1, LastIsStored
  <2> QED
    BY <2>2
<1> QED
  BY <1>0, <1>1, <1>2 DEF LastOK

\* Under the circumstances of QuietEnv no replica without expiry stays behind a
\* write that was reported as successful without a record that makes it fetch the
\* item when it starts again (replicationservice, failednodes, fred.New).
THEOREM NobodySilentlyStale ==
    ASSUME QuietEnv
    PROVE  Spec => []NoSilentStaleness
<1>1. QuietInv /\ [Next]_vars => QuietInv'
  BY NextQuiet
<1>2. QuietInv => NoSilentStaleness
  BY QuietFresh
<1> QED
  BY InitQuiet, <1>1, <1>2, PTL DEF Spec

\* Under the same circumstances, once no request is open the members without expiry
\* that have nothing left to fetch store the same items.
THEOREM ReplicasAgree ==
    ASSUME QuietEnv
    PROVE  Spec => []SameData
<1>1. QuietInv /\ [Next]_vars => QuietInv'
  BY NextQuiet
<1>2. QuietInv => SameData
  BY QuietSame
<1> QED
  BY InitQuiet, <1>1, <1>2, PTL DEF Spec

=============================================================================
