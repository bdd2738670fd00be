-------------------------- MODULE KeygroupsProofs --------------------------
(***************************************************************************)
(* Proofs about Keygroups, for any number of nodes, clients, items and     *)
(* requests.                                                               *)
(***************************************************************************)
EXTENDS Keygroups, TLAPS, FiniteSetTheorems, WellFoundedInduction

----------------------------------------------------------------------------
(* Type correctness *)

CreateLabels == {"checkFree", "putMutable", "putExpiry", "putStatus", "clearMembers",
                 "putOwn", "createStore"}
DeleteLabels == {"deleteStore", "delExists", "delMembers", "delSend", "putDeleted"}
AddLabels == {"addExists", "joinExpiry", "joinNode", "sendCreate", "addMembers",
              "tell", "snapshot", "copy"}
RemoveLabels == {"rmExists", "rmMembers", "rmSend", "rmExit", "putRemoved"}
UpdateLabels == {"updExists", "updMembers", "updSend", "updStore"}

Requests ==
    [op : AllOps \cup {"none"}, at : Node \cup {NoNode}, target : Node \cup {NoNode},
     mutable : BOOLEAN, expiry : Nat, id : Id \cup {NoNode}, no : 0..MaxOps]

\* What the place a goroutine has reached says about its request.
ControlOK ==
    \A c \in Client :
        /\ pc[c] = "idle" => req[c] = NoReq
        /\ pc[c] # "idle" => req[c].at \in Node
        /\ pc[c] \in CreateLabels => req[c].op = "create"
        /\ pc[c] \in DeleteLabels => req[c].op = "delete"
        /\ pc[c] \in AddLabels => req[c].op = "add" /\ req[c].target \in Node
        /\ pc[c] \in RemoveLabels => req[c].op = "remove" /\ req[c].target \in Node /\ c \in Remover
        /\ pc[c] \in UpdateLabels => req[c].op = "update" /\ req[c].id \in Id

ThreadsOK ==
    /\ pc \in [Client -> Label]
    /\ req \in [Client -> Requests]
    /\ todo \in [Client -> SUBSET Node]
    /\ snap \in [Client -> [Id -> 0..MaxOps]]

StoresOK ==
    /\ up \in [Node -> BOOLEAN]
    /\ has \in [Node -> BOOLEAN]
    /\ items \in [Node -> [Id -> 0..MaxOps]]

HistoryOK ==
    /\ ops \in 0..MaxOps
    /\ crashes \in 0..MaxCrashes
    /\ born \in 0..MaxOps
    /\ latest \in [Id -> 0..MaxOps]
    /\ failed \subseteq Node

TypeInv == NaSeTypeOK /\ ThreadsOK /\ StoresOK /\ HistoryOK /\ ControlOK

LEMMA Constants ==
    /\ NoItems \in [Id -> 0..MaxOps]
    /\ NoReq \in Requests
    /\ NoReq.at \notin Node
BY KeygroupsAssumption DEF NoItems, NoReq, Requests, AllOps

LEMMA TypeInvTypeOK == TypeInv => TypeOK
<1> SUFFICES ASSUME TypeInv PROVE TypeOK
  OBVIOUS
<1>1. \A c \in Client : req[c].op \in AllOps \cup {"none"}
  BY DEF TypeInv, ThreadsOK, Requests
<1>2. \A c \in Client : pc[c] = "idle" <=> req[c] = NoReq
  BY Constants DEF TypeInv, ControlOK
<1> QED
  BY <1>1, <1>2 DEF TypeInv, TypeOK, ThreadsOK, StoresOK, HistoryOK

LEMMA InitType == Init => TypeInv
<1> SUFFICES ASSUME Init PROVE TypeInv
  OBVIOUS
<1>1. NaSeTypeOK
  BY DEF Init, NaSeTypeOK
<1>2. ThreadsOK
  BY Constants DEF Init, ThreadsOK, Label
<1>3. StoresOK /\ HistoryOK
  BY Constants, KeygroupsAssumption DEF Init, StoresOK, HistoryOK
<1>4. ControlOK
  BY DEF Init, ControlOK, CreateLabels, DeleteLabels, AddLabels, RemoveLabels, UpdateLabels
<1> QED
  BY <1>1, <1>2, <1>3, <1>4 DEF TypeInv

\* A goroutine that returns is idle, and the others go on where they are.
LEMMA ReturnFacts ==
    ASSUME TypeInv, NEW c \in Client, Return(c)
    PROVE  /\ ThreadsOK' /\ ControlOK'
           /\ pc'[c] = "idle"
           /\ \A d \in Client : d # c => /\ pc'[d] = pc[d] /\ req'[d] = req[d]
                                         /\ todo'[d] = todo[d] /\ snap'[d] = snap[d]
<1>1. /\ pc'[c] = "idle" /\ req'[c] = NoReq
      /\ \A d \in Client : d # c => /\ pc'[d] = pc[d] /\ req'[d] = req[d]
                                    /\ todo'[d] = todo[d] /\ snap'[d] = snap[d]
  BY DEF TypeInv, ThreadsOK, Return, Goto
<1>2. ThreadsOK'
  BY Constants DEF TypeInv, ThreadsOK, Return, Goto, Label
<1>3. ASSUME NEW d \in Client
      PROVE  /\ pc'[d] = "idle" => req'[d] = NoReq
             /\ pc'[d] # "idle" => req'[d].at \in Node
             /\ pc'[d] \in CreateLabels => req'[d].op = "create"
             /\ pc'[d] \in DeleteLabels => req'[d].op = "delete"
             /\ pc'[d] \in AddLabels => req'[d].op = "add" /\ req'[d].target \in Node
             /\ pc'[d] \in RemoveLabels => req'[d].op = "remove" /\ req'[d].target \in Node /\ d \in Remover
             /\ pc'[d] \in UpdateLabels => req'[d].op = "update" /\ req'[d].id \in Id
  <2>1. CASE d = c
    BY <1>1, <2>1 DEF CreateLabels, DeleteLabels, AddLabels, RemoveLabels, UpdateLabels
  <2>2. CASE d # c
    BY <1>1, <2>2 DEF TypeInv, ControlOK
  <2> QED
    BY <2>1, <2>2
<1>4. ControlOK'
  BY <1>3 DEF ControlOK
<1> QED
  BY <1>1, <1>2, <1>4

\* A goroutine goes on to the next place of the same request.
LEMMA GotoFacts ==
    ASSUME TypeInv, NEW c \in Client, NEW l \in Label, Goto(c, l), UNCHANGED req,
           pc[c] # "idle", l # "idle",
           \A L \in {CreateLabels, DeleteLabels, AddLabels, RemoveLabels, UpdateLabels} :
               l \in L => pc[c] \in L
    PROVE  /\ pc' \in [Client -> Label] /\ ControlOK'
           /\ pc'[c] = l
           /\ \A d \in Client : d # c => pc'[d] = pc[d] /\ req'[d] = req[d]
<1>1. /\ pc'[c] = l /\ req'[c] = req[c]
      /\ \A d \in Client : d # c => pc'[d] = pc[d] /\ req'[d] = req[d]
  BY DEF TypeInv, ThreadsOK, Goto
<1>2. pc' \in [Client -> Label]
  BY DEF TypeInv, ThreadsOK, Goto
<1>3. ASSUME NEW d \in Client
      PROVE  /\ pc'[d] = "idle" => req'[d] = NoReq
             /\ pc'[d] # "idle" => req'[d].at \in Node
             /\ pc'[d] \in CreateLabels => req'[d].op = "create"
             /\ pc'[d] \in DeleteLabels => req'[d].op = "delete"
             /\ pc'[d] \in AddLabels => req'[d].op = "add" /\ req'[d].target \in Node
             /\ pc'[d] \in RemoveLabels => req'[d].op = "remove" /\ req'[d].target \in Node /\ d \in Remover
             /\ pc'[d] \in UpdateLabels => req'[d].op = "update" /\ req'[d].id \in Id
  <2>1. CASE d = c
    BY <1>1, <2>1 DEF TypeInv, ControlOK
  <2>2. CASE d # c
    BY <1>1, <2>2 DEF TypeInv, ControlOK
  <2> QED
    BY <2>1, <2>2
<1>4. ControlOK'
  BY <1>3 DEF ControlOK
<1> QED
  BY <1>1, <1>2, <1>4

\* From these places on a request has changed something, and says so if it fails.
LEMMA TouchedFacts ==
    ASSUME TypeInv, NEW c \in Client, pc[c] # "idle"
    PROVE  /\ Touched(c) \subseteq Node
           /\ pc[c] \in {"clearMembers", "putOwn", "createStore", "delExists", "delMembers",
                         "delSend", "putDeleted"} => Touched(c) = Node
           /\ pc[c] \in {"joinNode", "sendCreate", "addMembers", "tell", "snapshot", "copy",
                         "rmSend", "rmExit", "putRemoved"} => Touched(c) = {req[c].target}
<1>1. pc[c] \in Label \ {"idle"}
  BY DEF TypeInv, ThreadsOK
<1>2. CASE pc[c] \in CreateLabels \cup DeleteLabels
  <2>1. req[c].op \in {"create", "delete"}
    BY <1>2 DEF TypeInv, ControlOK
  <2> QED
    BY <1>2, <2>1 DEF Touched, CreateLabels, DeleteLabels
<1>3. CASE pc[c] \in AddLabels \cup RemoveLabels
  <2>1. req[c].op \in {"add", "remove"} /\ req[c].target \in Node
    BY <1>3 DEF TypeInv, ControlOK
  <2> QED
    BY <1>3, <2>1 DEF Touched, AddLabels, RemoveLabels, Target
<1>4. CASE pc[c] \in UpdateLabels
  <2>1. req[c].op = "update"
    BY <1>4 DEF TypeInv, ControlOK
  <2> QED
    BY <1>4, <2>1 DEF Touched, UpdateLabels
<1> QED
  BY <1>1, <1>2, <1>3, <1>4
     DEF Label, CreateLabels, DeleteLabels, AddLabels, RemoveLabels, UpdateLabels

LEMMA ReturnErrorFacts ==
    ASSUME TypeInv, NEW c \in Client, pc[c] # "idle", ReturnError(c)
    PROVE  /\ ThreadsOK' /\ ControlOK'
           /\ pc'[c] = "idle"
           /\ \A d \in Client : d # c => /\ pc'[d] = pc[d] /\ req'[d] = req[d]
                                         /\ todo'[d] = todo[d] /\ snap'[d] = snap[d]
           /\ failed' = failed \cup Touched(c) /\ failed' \subseteq Node
           /\ born' = born /\ latest' = latest
<1>1. Return(c) /\ failed' = failed \cup Touched(c) /\ born' = born /\ latest' = latest
  BY DEF ReturnError
<1>2. failed' \subseteq Node
  BY <1>1, TouchedFacts DEF TypeInv, HistoryOK
<1> QED
  BY <1>1, <1>2, ReturnFacts

LEMMA ReturnOkFacts ==
    ASSUME TypeInv, NEW c \in Client, NEW settled, ReturnOk(c, settled)
    PROVE  /\ ThreadsOK' /\ ControlOK'
           /\ pc'[c] = "idle"
           /\ \A d \in Client : d # c => /\ pc'[d] = pc[d] /\ req'[d] = req[d]
                                         /\ todo'[d] = todo[d] /\ snap'[d] = snap[d]
           /\ failed' = failed \ settled /\ failed' \subseteq Node
           /\ born' = born /\ latest' \in [Id -> 0..MaxOps]
           /\ req[c].op # "update" => latest' = latest
           /\ req[c].op = "update" /\ req[c].id \in Id =>
                 \A i \in Id : latest'[i] = IF i = req[c].id /\ req[c].no > latest[i]
                                           THEN req[c].no ELSE latest[i]
<1>1. Return(c) /\ failed' = failed \ settled /\ born' = born
  BY DEF ReturnOk
<1>2. failed' \subseteq Node
  BY <1>1 DEF TypeInv, HistoryOK
<1>3. req[c].no \in 0..MaxOps
  BY DEF TypeInv, ThreadsOK, Requests
<1>4. /\ latest' \in [Id -> 0..MaxOps]
      /\ req[c].op # "update" => latest' = latest
      /\ req[c].op = "update" /\ req[c].id \in Id =>
            \A i \in Id : latest'[i] = IF i = req[c].id /\ req[c].no > latest[i]
                                      THEN req[c].no ELSE latest[i]
  BY <1>3 DEF ReturnOk, TypeInv, HistoryOK
<1> QED
  BY <1>1, <1>2, <1>4, ReturnFacts

\* A step inside a request: the goroutine goes on, the rest is up to the step.
LEMMA InsideType ==
    ASSUME TypeInv, NEW c \in Client, NEW l \in Label, Goto(c, l), Inside(c),
           pc[c] # "idle", l # "idle",
           \A L \in {CreateLabels, DeleteLabels, AddLabels, RemoveLabels, UpdateLabels} :
               l \in L => pc[c] \in L,
           todo' \in [Client -> SUBSET Node], snap' \in [Client -> [Id -> 0..MaxOps]],
           has' \in [Node -> BOOLEAN], items' \in [Node -> [Id -> 0..MaxOps]],
           NaSeTypeOK'
    PROVE  TypeInv'
<1>1. UNCHANGED <<req, ops, crashes, born, latest, failed, up>>
  BY DEF Inside, histVars
<1>2. pc' \in [Client -> Label] /\ ControlOK'
  BY <1>1, GotoFacts
<1>3. ThreadsOK' /\ StoresOK' /\ HistoryOK'
  BY <1>1, <1>2 DEF TypeInv, ThreadsOK, StoresOK, HistoryOK
<1> QED
  BY <1>2, <1>3 DEF TypeInv

LEMMA ErrorType ==
    ASSUME TypeInv, NEW c \in Client, pc[c] # "idle", ReturnError(c),
           UNCHANGED <<up, ops, crashes>>,
           has' \in [Node -> BOOLEAN], items' \in [Node -> [Id -> 0..MaxOps]],
           NaSeTypeOK'
    PROVE  TypeInv'
BY ReturnErrorFacts DEF TypeInv, StoresOK, HistoryOK

LEMMA OkType ==
    ASSUME TypeInv, NEW c \in Client, NEW settled, ReturnOk(c, settled),
           UNCHANGED <<up, ops, crashes>>,
           has' \in [Node -> BOOLEAN], items' \in [Node -> [Id -> 0..MaxOps]],
           NaSeTypeOK'
    PROVE  TypeInv'
BY ReturnOkFacts DEF TypeInv, StoresOK, HistoryOK

LEMMA ExistsType ==
    ASSUME TypeInv, NEW c \in Client, NEW l, NEW next \in Label, Exists(c, l, next),
           l # "idle", next # "idle",
           \A L \in {CreateLabels, DeleteLabels, AddLabels, RemoveLabels, UpdateLabels} :
               next \in L => l \in L
    PROVE  TypeInv'
<1>1. pc[c] = l /\ UNCHANGED <<kgVars, failnode, storeVars>>
  BY DEF Exists
<1>2. NaSeTypeOK' /\ has' \in [Node -> BOOLEAN] /\ items' \in [Node -> [Id -> 0..MaxOps]]
  BY <1>1 DEF TypeInv, NaSeTypeOK, StoresOK, kgVars, storeVars
<1>3. CASE Goto(c, next) /\ UNCHANGED <<todo, snap>> /\ Inside(c)
  BY <1>1, <1>2, <1>3, InsideType DEF TypeInv, ThreadsOK
<1>4. CASE ReturnError(c) /\ UNCHANGED <<up, ops, crashes>>
  BY <1>1, <1>2, <1>4, ErrorType
<1> QED
  BY <1>3, <1>4 DEF Exists

LEMMA OtherMembersType ==
    ASSUME TypeInv, NEW c \in Client, NEW l, NEW next \in Label, OtherMembers(c, l, next),
           l # "idle", next # "idle",
           \A L \in {CreateLabels, DeleteLabels, AddLabels, RemoveLabels, UpdateLabels} :
               next \in L => l \in L
    PROVE  TypeInv'
<1>1. /\ pc[c] = l /\ UNCHANGED <<kgVars, failnode, storeVars, snap>>
      /\ Goto(c, next) /\ Inside(c)
  BY DEF OtherMembers
<1>2. NaSeTypeOK' /\ has' \in [Node -> BOOLEAN] /\ items' \in [Node -> [Id -> 0..MaxOps]]
  BY <1>1 DEF TypeInv, NaSeTypeOK, StoresOK, kgVars, storeVars
<1>3. todo' \in [Client -> SUBSET Node] /\ snap' \in [Client -> [Id -> 0..MaxOps]]
  BY <1>1 DEF OtherMembers, GetKeygroupMembers, TypeInv, ThreadsOK
<1> QED
  BY <1>1, <1>2, <1>3, InsideType

LEMMA EndLoopType ==
    ASSUME TypeInv, NEW c \in Client, NEW l, NEW next \in Label, EndLoop(c, l, next),
           l # "idle", next # "idle",
           \A L \in {CreateLabels, DeleteLabels, AddLabels, RemoveLabels, UpdateLabels} :
               next \in L => l \in L
    PROVE  TypeInv'
<1>1. /\ pc[c] = l /\ UNCHANGED <<kgVars, failnode, storeVars, todo, snap>>
      /\ Goto(c, next) /\ Inside(c)
  BY DEF EndLoop
<1>2. NaSeTypeOK' /\ has' \in [Node -> BOOLEAN] /\ items' \in [Node -> [Id -> 0..MaxOps]]
  BY <1>1 DEF TypeInv, NaSeTypeOK, StoresOK, kgVars, storeVars
<1> QED
  BY <1>1, <1>2, InsideType DEF TypeInv, ThreadsOK

\* The labels of one request are those of no other.
LEMMA Classes ==
    /\ \A l \in CreateLabels \cup DeleteLabels \cup AddLabels \cup RemoveLabels \cup UpdateLabels :
           l \in Label /\ l # "idle"
    /\ \A l, m \in CreateLabels :
           \A L \in {CreateLabels, DeleteLabels, AddLabels, RemoveLabels, UpdateLabels} :
               l \in L => m \in L
    /\ \A l, m \in DeleteLabels :
           \A L \in {CreateLabels, DeleteLabels, AddLabels, RemoveLabels, UpdateLabels} :
               l \in L => m \in L
    /\ \A l, m \in AddLabels :
           \A L \in {CreateLabels, DeleteLabels, AddLabels, RemoveLabels, UpdateLabels} :
               l \in L => m \in L
    /\ \A l, m \in RemoveLabels :
           \A L \in {CreateLabels, DeleteLabels, AddLabels, RemoveLabels, UpdateLabels} :
               l \in L => m \in L
    /\ \A l, m \in UpdateLabels :
           \A L \in {CreateLabels, DeleteLabels, AddLabels, RemoveLabels, UpdateLabels} :
               l \in L => m \in L
BY DEF Label, CreateLabels, DeleteLabels, AddLabels, RemoveLabels, UpdateLabels

LEMMA CreateType ==
    ASSUME TypeInv, NEW c \in Client, CreateStep(c)
    PROVE  TypeInv'
<1>0. /\ {"checkFree", "putMutable", "putExpiry", "putStatus", "clearMembers", "putOwn",
          "createStore"} \subseteq CreateLabels
      /\ todo \in [Client -> SUBSET Node] /\ snap \in [Client -> [Id -> 0..MaxOps]]
      /\ has \in [Node -> BOOLEAN] /\ items \in [Node -> [Id -> 0..MaxOps]]
      /\ NaSeTypeOK
      /\ req[c].mutable \in BOOLEAN /\ req[c].expiry \in Nat
  BY DEF CreateLabels, TypeInv, ThreadsOK, StoresOK, Requests
<1>1. CASE CheckFree(c)
  <2>1. NaSeTypeOK'
    BY <1>0, <1>1 DEF CheckFree, NaSeTypeOK, kgVars
  <2> QED
    BY <1>0, <1>1, <2>1, Classes, InsideType, ErrorType DEF CheckFree, storeVars
<1>2. CASE PutMutable(c)
  <2>1. NaSeTypeOK'
    BY <1>0, <1>2 DEF PutMutable, NaSeTypeOK
  <2> QED
    BY <1>0, <1>2, <2>1, Classes, InsideType DEF PutMutable, storeVars
<1>3. CASE PutExpiry(c)
  <2>1. NaSeTypeOK'
    BY <1>0, <1>3 DEF PutExpiry, NaSeTypeOK
  <2> QED
    BY <1>0, <1>3, <2>1, Classes, InsideType DEF PutExpiry, storeVars
<1>4. CASE PutStatus(c)
  <2>1. NaSeTypeOK' /\ StoresOK'
    BY <1>0, <1>4 DEF PutStatus, NaSeTypeOK, StoresOK, TypeInv, storeVars
  <2>2. HistoryOK'
    BY <1>4, Constants DEF PutStatus, HistoryOK, TypeInv
  <2>3. pc' \in [Client -> Label] /\ ControlOK'
    BY <1>0, <1>4, Classes, GotoFacts DEF PutStatus
  <2> QED
    BY <1>4, <2>1, <2>2, <2>3 DEF PutStatus, TypeInv, ThreadsOK
<1>5. CASE ClearMembers(c)
  <2>1. NaSeTypeOK'
    BY <1>0, <1>5 DEF ClearMembers, NaSeTypeOK
  <2> QED
    BY <1>0, <1>5, <2>1, Classes, InsideType DEF ClearMembers, storeVars
<1>6. CASE PutOwn(c)
  <2>1. NaSeTypeOK'
    BY <1>0, <1>6 DEF PutOwn, NaSeTypeOK
  <2> QED
    BY <1>0, <1>6, <2>1, Classes, InsideType DEF PutOwn, storeVars
<1>7. CASE CreateStore(c)
  <2>1. NaSeTypeOK' /\ has' \in [Node -> BOOLEAN] /\ items' = items
    BY <1>0, <1>7 DEF CreateStore, NaSeTypeOK, kgVars
  <2> QED
    BY <1>0, <1>7, <2>1, OkType, ErrorType DEF CreateStore
<1> QED
  BY <1>1, <1>2, <1>3, <1>4, <1>5, <1>6, <1>7 DEF CreateStep

LEMMA DropFacts ==
    ASSUME TypeInv, NEW n \in Node, Drop(n)
    PROVE  /\ has' \in [Node -> BOOLEAN] /\ items' \in [Node -> [Id -> 0..MaxOps]]
           /\ ~has'[n] /\ items'[n] = NoItems
           /\ \A m \in Node : m # n => has'[m] = has[m] /\ items'[m] = items[m]
BY Constants DEF TypeInv, StoresOK, Drop

LEMMA DeleteType ==
    ASSUME TypeInv, NEW c \in Client, DeleteStep(c)
    PROVE  TypeInv'
<1>0. /\ {"deleteStore", "delExists", "delMembers", "delSend", "putDeleted"} \subseteq DeleteLabels
      /\ todo \in [Client -> SUBSET Node] /\ snap \in [Client -> [Id -> 0..MaxOps]]
      /\ has \in [Node -> BOOLEAN] /\ items \in [Node -> [Id -> 0..MaxOps]]
      /\ NaSeTypeOK
      /\ pc[c] # "idle" => At(c) \in Node
  BY DEF DeleteLabels, TypeInv, ThreadsOK, StoresOK, ControlOK, At
<1>1. CASE DeleteStore(c)
  <2>1. NaSeTypeOK'
    BY <1>0, <1>1 DEF DeleteStore, NaSeTypeOK, kgVars
  <2>2. CASE Drop(At(c)) /\ Goto(c, "delExists") /\ UNCHANGED <<todo, snap>> /\ Inside(c)
    <3>1. pc[c] = "deleteStore" /\ At(c) \in Node
      BY <1>0, <1>1 DEF DeleteStore
    <3>2. has' \in [Node -> BOOLEAN] /\ items' \in [Node -> [Id -> 0..MaxOps]]
      BY <2>2, <3>1, DropFacts
    <3> QED
      BY <1>0, <2>1, <2>2, <3>1, <3>2, Classes, InsideType
  <2>3. CASE ReturnError(c) /\ UNCHANGED <<up, storeVars, ops, crashes>>
    BY <1>0, <1>1, <2>1, <2>3, ErrorType DEF DeleteStore, storeVars
  <2> QED
    BY <1>1, <2>2, <2>3 DEF DeleteStore
<1>2. CASE Exists(c, "delExists", "delMembers")
  BY <1>0, <1>2, Classes, ExistsType
<1>3. CASE OtherMembers(c, "delMembers", "delSend")
  BY <1>0, <1>3, Classes, OtherMembersType
<1>4. ASSUME NEW m \in Node, SendDeleteKeygroup(c, m) PROVE TypeInv'
  <2>1. NaSeTypeOK' /\ snap' = snap /\ pc' = pc
    BY <1>0, <1>4 DEF SendDeleteKeygroup, NaSeTypeOK, kgVars
  <2>2. has' \in [Node -> BOOLEAN] /\ items' \in [Node -> [Id -> 0..MaxOps]]
    BY <1>0, <1>4, DropFacts DEF SendDeleteKeygroup, storeVars
  <2>3. todo' \in [Client -> SUBSET Node]
    BY <1>0, <1>4 DEF SendDeleteKeygroup
  <2>4. UNCHANGED <<req, ops, crashes, born, latest, failed, up>>
    BY <1>4 DEF SendDeleteKeygroup, Inside, histVars
  <2> QED
    BY <2>1, <2>2, <2>3, <2>4 DEF TypeInv, ThreadsOK, StoresOK, HistoryOK, ControlOK
<1>5. CASE EndLoop(c, "delSend", "putDeleted")
  BY <1>0, <1>5, Classes, EndLoopType
<1>6. CASE PutDeleted(c)
  <2>1. NaSeTypeOK'
    BY <1>0, <1>6 DEF PutDeleted, NaSeTypeOK
  <2> QED
    BY <1>0, <1>6, <2>1, OkType DEF PutDeleted, storeVars
<1> QED
  BY <1>1, <1>2, <1>3, <1>4, <1>5, <1>6 DEF DeleteStep

\* An update sent to a node is stored there or changes no item.
LEMMA SendItemFacts ==
    ASSUME TypeInv, NEW m \in Node, NEW i \in Id, NEW no \in 0..MaxOps, SendItem(m, i, no)
    PROVE  /\ items' \in [Node -> [Id -> 0..MaxOps]]
           /\ failnode' \subseteq Node \X Id
           /\ \/ up[m] /\ has[m] /\ items' = [items EXCEPT ![m][i] = no] /\ failnode' = failnode
              \/ (~up[m] \/ ~has[m] \/ "peer" \in Faults) /\ items' = items
BY DEF SendItem, ReportFailedNode, TypeInv, StoresOK, NaSeTypeOK

LEMMA AddType ==
    ASSUME TypeInv, NEW c \in Client, AddStep(c)
    PROVE  TypeInv'
<1>0. /\ {"addExists", "joinExpiry", "joinNode", "sendCreate", "addMembers", "tell",
          "snapshot", "copy"} \subseteq AddLabels
      /\ todo \in [Client -> SUBSET Node] /\ snap \in [Client -> [Id -> 0..MaxOps]]
      /\ has \in [Node -> BOOLEAN] /\ items \in [Node -> [Id -> 0..MaxOps]]
      /\ NaSeTypeOK
      /\ req[c].expiry \in Nat
      /\ pc[c] \in AddLabels => Target(c) \in Node /\ At(c) \in Node
  BY DEF AddLabels, TypeInv, ThreadsOK, StoresOK, Requests, ControlOK, At, Target
<1>1. CASE Exists(c, "addExists", "joinExpiry")
  BY <1>0, <1>1, Classes, ExistsType
<1>2. CASE JoinExpiry(c)
  <2>1. NaSeTypeOK'
    BY <1>0, <1>2 DEF JoinExpiry, NaSeTypeOK
  <2> QED
    BY <1>0, <1>2, <2>1, Classes, InsideType DEF JoinExpiry, storeVars
<1>3. CASE JoinNode(c)
  <2>1. NaSeTypeOK'
    BY <1>0, <1>3 DEF JoinNode, NaSeTypeOK
  <2> QED
    BY <1>0, <1>3, <2>1, Classes, InsideType DEF JoinNode, storeVars
<1>4. CASE SendCreateKeygroup(c)
  <2>1. NaSeTypeOK' /\ has' \in [Node -> BOOLEAN] /\ items' \in [Node -> [Id -> 0..MaxOps]]
        /\ pc[c] = "sendCreate"
    BY <1>0, <1>4 DEF SendCreateKeygroup, NaSeTypeOK, kgVars
  <2>2. CASE ReturnError(c) /\ UNCHANGED <<up, ops, crashes>>
    BY <2>1, <2>2, ErrorType
  <2>3. CASE /\ Goto(c, "addMembers") /\ failed' = failed \ {Target(c)}
             /\ UNCHANGED <<todo, snap, req, up, ops, crashes, born, latest>>
    <3>1. pc' \in [Client -> Label] /\ ControlOK'
      BY <1>0, <2>1, <2>3, Classes, GotoFacts
    <3> QED
      BY <2>1, <2>3, <3>1 DEF TypeInv, ThreadsOK, StoresOK, HistoryOK
  <2> QED
    BY <1>4, <2>2, <2>3 DEF SendCreateKeygroup
<1>5. CASE OtherMembers(c, "addMembers", "tell")
  BY <1>0, <1>5, Classes, OtherMembersType
<1>6. ASSUME NEW m \in Node, Tell(c, m) PROVE TypeInv'
  <2>1. NaSeTypeOK' /\ has' = has /\ items' = items /\ pc[c] = "tell"
    BY <1>0, <1>6 DEF Tell, NaSeTypeOK, kgVars, storeVars
  <2>2. CASE ReturnError(c) /\ UNCHANGED <<up, ops, crashes>>
    BY <1>0, <2>1, <2>2, ErrorType
  <2>3. CASE todo' = [todo EXCEPT ![c] = @ \ {m}] /\ UNCHANGED <<pc, snap>> /\ Inside(c)
    <3>1. todo' \in [Client -> SUBSET Node]
      BY <1>0, <2>3
    <3> QED
      BY <2>1, <2>3, <3>1 DEF TypeInv, ThreadsOK, StoresOK, HistoryOK, ControlOK, Inside, histVars
  <2> QED
    BY <1>6, <2>2, <2>3 DEF Tell
<1>7. CASE EndLoop(c, "tell", "snapshot")
  BY <1>0, <1>7, Classes, EndLoopType
<1>8. CASE ReadAll(c)
  <2>1. NaSeTypeOK' /\ has' = has /\ items' = items /\ pc[c] = "snapshot"
    BY <1>0, <1>8 DEF ReadAll, NaSeTypeOK, kgVars, storeVars
  <2>2. \A src \in Sources(c) : src \in Node
    BY <1>0, <2>1 DEF Sources, GetNodeWithBiggerExpiry, GetKeygroupMembers
  <2>3. CASE ReturnError(c) /\ UNCHANGED <<up, ops, crashes>>
    BY <1>0, <2>1, <2>3, ErrorType
  <2>4. ASSUME NEW src \in Sources(c), snap' = [snap EXCEPT ![c] = items[src]],
               Goto(c, "copy"), UNCHANGED todo, Inside(c)
        PROVE  TypeInv'
    <3>1. snap' \in [Client -> [Id -> 0..MaxOps]]
      BY <1>0, <2>2, <2>4
    <3> QED
      BY <1>0, <2>1, <2>4, <3>1, Classes, InsideType
  <2> QED
    BY <1>8, <2>3, <2>4 DEF ReadAll
<1>9. CASE NoSource(c)
  <2>1. NaSeTypeOK' /\ has' = has /\ items' = items
    BY <1>0, <1>9 DEF NoSource, NaSeTypeOK, kgVars, storeVars
  <2> QED
    BY <1>0, <1>9, <2>1, OkType DEF NoSource
<1>10. ASSUME NEW i \in Id, Copy(c, i) PROVE TypeInv'
  <2>1. snap[c][i] \in 0..MaxOps /\ Target(c) \in Node /\ SendItem(Target(c), i, snap[c][i])
    BY <1>0, <1>10 DEF Copy
  <2>2. items' \in [Node -> [Id -> 0..MaxOps]] /\ failnode' \subseteq Node \X Id
    BY <2>1, SendItemFacts
  <2>3. NaSeTypeOK' /\ has' = has
    BY <1>0, <1>10, <2>2 DEF Copy, NaSeTypeOK, kgVars
  <2>4. snap' \in [Client -> [Id -> 0..MaxOps]]
    BY <1>0, <1>10, <2>1, KeygroupsAssumption DEF Copy
  <2> QED
    BY <1>10, <2>2, <2>3, <2>4
       DEF Copy, TypeInv, ThreadsOK, StoresOK, HistoryOK, ControlOK, Inside, histVars
<1>11. CASE CopyDone(c)
  <2>1. NaSeTypeOK' /\ has' = has /\ items' = items
    BY <1>0, <1>11 DEF CopyDone, NaSeTypeOK, kgVars, storeVars
  <2> QED
    BY <1>0, <1>11, <2>1, OkType DEF CopyDone
<1> QED
  BY <1>1, <1>2, <1>3, <1>4, <1>5, <1>6, <1>7, <1>8, <1>9, <1>10, <1>11 DEF AddStep

LEMMA RemoveType ==
    ASSUME TypeInv, NEW c \in Client, RemoveStep(c)
    PROVE  TypeInv'
<1>0. /\ {"rmExists", "rmMembers", "rmSend", "rmExit", "putRemoved"} \subseteq RemoveLabels
      /\ todo \in [Client -> SUBSET Node] /\ snap \in [Client -> [Id -> 0..MaxOps]]
      /\ has \in [Node -> BOOLEAN] /\ items \in [Node -> [Id -> 0..MaxOps]]
      /\ NaSeTypeOK
      /\ pc[c] \in RemoveLabels => Target(c) \in Node
  BY DEF RemoveLabels, TypeInv, ThreadsOK, StoresOK, ControlOK, Target
<1>1. CASE Exists(c, "rmExists", "rmMembers")
  BY <1>0, <1>1, Classes, ExistsType
<1>2. CASE CheckMembers(c)
  <2>1. NaSeTypeOK' /\ has' = has /\ items' = items
    BY <1>0, <1>2 DEF CheckMembers, NaSeTypeOK, kgVars, storeVars
  <2> QED
    BY <1>0, <1>2, <2>1, Classes, InsideType, ErrorType DEF CheckMembers
<1>3. CASE SendDrop(c)
  <2>1. NaSeTypeOK' /\ pc[c] = "rmSend" /\ Target(c) \in Node
    BY <1>0, <1>3 DEF SendDrop, NaSeTypeOK, kgVars
  <2>2. has' \in [Node -> BOOLEAN] /\ items' \in [Node -> [Id -> 0..MaxOps]]
    BY <1>0, <1>3, <2>1, DropFacts DEF SendDrop, storeVars
  <2>3. CASE ReturnError(c) /\ UNCHANGED <<up, ops, crashes>>
    BY <2>1, <2>2, <2>3, ErrorType
  <2>4. CASE Goto(c, "rmExit") /\ UNCHANGED <<todo, snap>> /\ Inside(c)
    BY <1>0, <2>1, <2>2, <2>4, Classes, InsideType
  <2> QED
    BY <1>3, <2>3, <2>4 DEF SendDrop
<1>4. CASE Exists(c, "rmExit", "putRemoved")
  BY <1>0, <1>4, Classes, ExistsType
<1>5. CASE PutRemoved(c)
  <2>1. NaSeTypeOK' /\ has' = has /\ items' = items
    BY <1>0, <1>5 DEF PutRemoved, NaSeTypeOK, storeVars
  <2> QED
    BY <1>0, <1>5, <2>1, OkType, ErrorType DEF PutRemoved
<1> QED
  BY <1>1, <1>2, <1>3, <1>4, <1>5 DEF RemoveStep

LEMMA UpdateType ==
    ASSUME TypeInv, NEW c \in Client, UpdateStep(c)
    PROVE  TypeInv'
<1>0. /\ {"updExists", "updMembers", "updSend", "updStore"} \subseteq UpdateLabels
      /\ todo \in [Client -> SUBSET Node] /\ snap \in [Client -> [Id -> 0..MaxOps]]
      /\ has \in [Node -> BOOLEAN] /\ items \in [Node -> [Id -> 0..MaxOps]]
      /\ NaSeTypeOK
      /\ req[c].no \in 0..MaxOps
      /\ pc[c] \in UpdateLabels => At(c) \in Node /\ req[c].id \in Id
  BY DEF UpdateLabels, TypeInv, ThreadsOK, StoresOK, Requests, ControlOK, At
<1>1. CASE Exists(c, "updExists", "updMembers")
  BY <1>0, <1>1, Classes, ExistsType
<1>2. CASE OtherMembers(c, "updMembers", "updSend")
  BY <1>0, <1>2, Classes, OtherMembersType
<1>3. ASSUME NEW m \in Node, SendUpdate(c, m) PROVE TypeInv'
  <2>1. req[c].id \in Id /\ SendItem(m, req[c].id, req[c].no)
    BY <1>0, <1>3 DEF SendUpdate
  <2>2. items' \in [Node -> [Id -> 0..MaxOps]] /\ failnode' \subseteq Node \X Id
    BY <1>0, <2>1, SendItemFacts
  <2>3. NaSeTypeOK' /\ has' = has
    BY <1>0, <1>3, <2>2 DEF SendUpdate, NaSeTypeOK, kgVars
  <2>4. todo' \in [Client -> SUBSET Node]
    BY <1>0, <1>3 DEF SendUpdate
  <2> QED
    BY <1>3, <2>2, <2>3, <2>4
       DEF SendUpdate, TypeInv, ThreadsOK, StoresOK, HistoryOK, ControlOK, Inside, histVars
<1>4. CASE EndLoop(c, "updSend", "updStore")
  BY <1>0, <1>4, Classes, EndLoopType
<1>5. CASE UpdateStore(c)
  <2>1. NaSeTypeOK' /\ has' = has
    BY <1>0, <1>5 DEF UpdateStore, NaSeTypeOK, kgVars
  <2>2. items' \in [Node -> [Id -> 0..MaxOps]]
    <3>1. At(c) \in Node /\ req[c].id \in Id
      BY <1>0, <1>5 DEF UpdateStore
    <3>2. items' = items \/ items' = [items EXCEPT ![At(c)][req[c].id] = req[c].no]
      BY <1>5 DEF UpdateStore
    <3>3. PICK n \in Node, i \in Id, no \in 0..MaxOps : n = At(c) /\ i = req[c].id /\ no = req[c].no
      BY <1>0, <3>1
    <3>4. items' = items \/ items' = [items EXCEPT ![n][i] = no]
      BY <3>2, <3>3
    <3> QED
      BY <3>4 DEF TypeInv, StoresOK
  <2> QED
    BY <1>0, <1>5, <2>1, <2>2, OkType, ErrorType DEF UpdateStore
<1> QED
  BY <1>1, <1>2, <1>3, <1>4, <1>5 DEF UpdateStep

LEMMA NaSeFailsType ==
    ASSUME TypeInv, NEW c \in Client, NaSeFails(c)
    PROVE  TypeInv'
<1>1. NaSeTypeOK' /\ has' = has /\ items' = items
  BY DEF NaSeFails, NaSeTypeOK, kgVars, storeVars, TypeInv
<1> QED
  BY <1>1, ErrorType DEF NaSeFails, NaSeLabels, TypeInv, StoresOK

\* A request arrives: it is at its first place.
FirstLabels == {"checkFree", "deleteStore", "addExists", "rmExists", "updExists"}

Arrived(c) ==
    /\ pc[c] = "idle" /\ (Sequential => \A d \in Client : pc[d] = "idle")
    /\ pc'[c] \in FirstLabels
    /\ \A d \in Client : d # c => pc'[d] = pc[d] /\ req'[d] = req[d]
    /\ pc'[c] = "addExists" => Strangers \/ At(c)' = Target(c)' \/ has[At(c)']
    /\ pc'[c] = "updExists" => req'[c].no = ops'
    /\ ops' = ops + 1
    /\ UNCHANGED <<kgVars, failnode, up, storeVars, todo, snap, crashes, histVars>>

LEMMA RequestFacts ==
    ASSUME TypeInv, NEW c \in Client, NEW n \in Node, NEW o, NEW first \in FirstLabels,
           NEW r \in Requests, req' = [req EXCEPT ![c] = r], Request(c, n, o, first),
           r.at = n,
           first \in CreateLabels => r.op = "create",
           first \in DeleteLabels => r.op = "delete",
           first \in AddLabels => r.op = "add" /\ r.target \in Node,
           first \in RemoveLabels => r.op = "remove" /\ r.target \in Node /\ c \in Remover,
           first \in UpdateLabels => r.op = "update" /\ r.id \in Id,
           first = "addExists" => Strangers \/ r.at = r.target \/ has[r.at],
           first = "updExists" => r.no = ops + 1
    PROVE  TypeInv' /\ Arrived(c)
<1>1. /\ pc[c] = "idle" /\ (Sequential => \A d \in Client : pc[d] = "idle")
      /\ ops' = ops + 1 /\ ops < MaxOps
      /\ UNCHANGED <<kgVars, failnode, up, storeVars, todo, snap, crashes, histVars>>
      /\ pc' = [pc EXCEPT ![c] = first]
  BY DEF Request, Goto
<1>2. /\ pc'[c] = first /\ req'[c] = r
      /\ \A d \in Client : d # c => pc'[d] = pc[d] /\ req'[d] = req[d]
  BY <1>1 DEF TypeInv, ThreadsOK
<1>3. ThreadsOK'
  BY <1>1 DEF TypeInv, ThreadsOK, Label, FirstLabels
<1>4. NaSeTypeOK' /\ StoresOK'
  BY <1>1 DEF TypeInv, NaSeTypeOK, StoresOK, kgVars, storeVars
<1>5. HistoryOK'
  BY <1>1, KeygroupsAssumption DEF TypeInv, HistoryOK, histVars
<1>6. ASSUME NEW d \in Client
      PROVE  /\ pc'[d] = "idle" => req'[d] = NoReq
             /\ pc'[d] # "idle" => req'[d].at \in Node
             /\ pc'[d] \in CreateLabels => req'[d].op = "create"
             /\ pc'[d] \in DeleteLabels => req'[d].op = "delete"
             /\ pc'[d] \in AddLabels => req'[d].op = "add" /\ req'[d].target \in Node
             /\ pc'[d] \in RemoveLabels => req'[d].op = "remove" /\ req'[d].target \in Node /\ d \in Remover
             /\ pc'[d] \in UpdateLabels => req'[d].op = "update" /\ req'[d].id \in Id
  <2>1. CASE d = c
    BY <1>2, <2>1 DEF FirstLabels
  <2>2. CASE d # c
    BY <1>2, <2>2 DEF TypeInv, ControlOK
  <2> QED
    BY <2>1, <2>2
<1>7. ControlOK'
  BY <1>6 DEF ControlOK
<1>8. Arrived(c)
  BY <1>1, <1>2 DEF Arrived, At, Target
<1> QED
  BY <1>3, <1>4, <1>5, <1>7, <1>8 DEF TypeInv

LEMMA ArriveFacts ==
    ASSUME TypeInv, NEW c \in Client, NEW n \in Node, Arrive(c, n)
    PROVE  TypeInv' /\ Arrived(c)
<1>0. Expiries \subseteq Nat /\ 0 \in 0..MaxOps /\ NoNode \in Node \cup {NoNode}
  BY KeygroupsAssumption
<1>00. \A l \in FirstLabels : /\ l \in CreateLabels <=> l = "checkFree"
                              /\ l \in DeleteLabels <=> l = "deleteStore"
                              /\ l \in AddLabels <=> l = "addExists"
                              /\ l \in RemoveLabels <=> l = "rmExists"
                              /\ l \in UpdateLabels <=> l = "updExists"
  BY DEF FirstLabels, CreateLabels, DeleteLabels, AddLabels, RemoveLabels, UpdateLabels
<1>1. ASSUME NEW mutable \in BOOLEAN, NEW e \in Expiries, CreateKeygroup(c, n, mutable, e)
      PROVE  TypeInv' /\ Arrived(c)
  <2> DEFINE r == [NoReq EXCEPT !.op = "create", !.at = n, !.mutable = mutable, !.expiry = e]
  <2>1. r \in Requests /\ r.at = n /\ r.op = "create"
    BY <1>0 DEF NoReq, Requests, AllOps
  <2>2. req' = [req EXCEPT ![c] = r] /\ Request(c, n, "create", "checkFree")
    BY <1>1 DEF CreateKeygroup
  <2> HIDE DEF r
  <2> QED
    BY <1>00, <2>1, <2>2, RequestFacts DEF FirstLabels
<1>2. CASE DeleteKeygroup(c, n)
  <2> DEFINE r == [NoReq EXCEPT !.op = "delete", !.at = n]
  <2>1. r \in Requests /\ r.at = n /\ r.op = "delete"
    BY <1>0 DEF NoReq, Requests, AllOps
  <2>2. req' = [req EXCEPT ![c] = r] /\ Request(c, n, "delete", "deleteStore")
    BY <1>2 DEF DeleteKeygroup
  <2> HIDE DEF r
  <2> QED
    BY <1>00, <2>1, <2>2, RequestFacts DEF FirstLabels
<1>3. ASSUME NEW target \in Node, NEW e \in Expiries, AddReplica(c, n, target, e)
      PROVE  TypeInv' /\ Arrived(c)
  <2> DEFINE r == [NoReq EXCEPT !.op = "add", !.at = n, !.target = target, !.expiry = e]
  <2>1. r \in Requests /\ r.at = n /\ r.op = "add" /\ r.target = target
    BY <1>0 DEF NoReq, Requests, AllOps
  <2>2. /\ req' = [req EXCEPT ![c] = r] /\ Request(c, n, "add", "addExists")
        /\ Strangers \/ n = target \/ has[n]
    BY <1>3 DEF AddReplica
  <2> HIDE DEF r
  <2> QED
    BY <1>00, <2>1, <2>2, RequestFacts DEF FirstLabels
<1>4. ASSUME NEW target \in Node, RemoveReplica(c, n, target)
      PROVE  TypeInv' /\ Arrived(c)
  <2> DEFINE r == [NoReq EXCEPT !.op = "remove", !.at = n, !.target = target]
  <2>1. r \in Requests /\ r.at = n /\ r.op = "remove" /\ r.target = target
    BY <1>0 DEF NoReq, Requests, AllOps
  <2>2. req' = [req EXCEPT ![c] = r] /\ Request(c, n, "remove", "rmExists") /\ c \in Remover
    BY <1>4 DEF RemoveReplica
  <2> HIDE DEF r
  <2> QED
    BY <1>00, <2>1, <2>2, RequestFacts DEF FirstLabels
<1>5. ASSUME NEW i \in Id, Update(c, n, i)
      PROVE  TypeInv' /\ Arrived(c)
  <2> DEFINE r == [NoReq EXCEPT !.op = "update", !.at = n, !.id = i, !.no = ops + 1]
  <2>1. req' = [req EXCEPT ![c] = r] /\ Request(c, n, "update", "updExists")
    BY <1>5 DEF Update
  <2>2. ops + 1 \in 0..MaxOps
    BY <2>1, KeygroupsAssumption DEF Request, TypeInv, HistoryOK
  <2>3. r \in Requests /\ r.at = n /\ r.op = "update" /\ r.id = i /\ r.no = ops + 1
    BY <1>0, <2>2 DEF NoReq, Requests, AllOps
  <2> HIDE DEF r
  <2> QED
    BY <1>00, <2>1, <2>3, RequestFacts DEF FirstLabels
<1> QED
  BY <1>1, <1>2, <1>3, <1>4, <1>5 DEF Arrive

\* A process ends: its requests are gone, and have failed.
LEMMA StopFacts ==
    ASSUME TypeInv, NEW n \in Node, Stop(n)
    PROVE  /\ ThreadsOK' /\ ControlOK' /\ up' \in [Node -> BOOLEAN]
           /\ failed' \subseteq Node /\ failed \subseteq failed'
           /\ \A c \in Client :
                 \/ /\ pc[c] # "idle" /\ pc'[c] = "idle"
                    /\ Touched(c) \subseteq failed'
                 \/ /\ pc'[c] = pc[c] /\ req'[c] = req[c]
                    /\ todo'[c] = todo[c] /\ snap'[c] = snap[c]
<1> DEFINE lost == {c \in Client : pc[c] # "idle" /\ At(c) = n}
<1>1. /\ up' = [up EXCEPT ![n] = FALSE]
      /\ pc' = [c \in Client |-> IF c \in lost THEN "idle" ELSE pc[c]]
      /\ req' = [c \in Client |-> IF c \in lost THEN NoReq ELSE req[c]]
      /\ todo' = [c \in Client |-> IF c \in lost THEN {} ELSE todo[c]]
      /\ snap' = [c \in Client |-> IF c \in lost THEN NoItems ELSE snap[c]]
      /\ failed' = failed \cup UNION {Touched(c) : c \in lost}
  BY DEF Stop
<1>2. \A c \in lost : c \in Client /\ pc[c] # "idle" /\ Touched(c) \subseteq Node
  BY TouchedFacts
<1>3. \A c \in Client \ lost : pc'[c] = pc[c] /\ req'[c] = req[c] /\ todo'[c] = todo[c] /\ snap'[c] = snap[c]
  BY <1>1
<1>4. \A c \in lost : pc'[c] = "idle" /\ req'[c] = NoReq /\ Touched(c) \subseteq failed'
  BY <1>1
<1> HIDE DEF lost
<1>5. failed' \subseteq Node /\ failed \subseteq failed'
  BY <1>1, <1>2 DEF TypeInv, HistoryOK
<1>6. ThreadsOK' /\ up' \in [Node -> BOOLEAN]
  <2>1. pc' \in [Client -> Label]
    BY <1>1 DEF TypeInv, ThreadsOK, Label
  <2>2. req' \in [Client -> Requests]
    BY <1>1, Constants DEF TypeInv, ThreadsOK
  <2>3. todo' \in [Client -> SUBSET Node]
    BY <1>1 DEF TypeInv, ThreadsOK
  <2>4. snap' \in [Client -> [Id -> 0..MaxOps]]
    BY <1>1, Constants DEF TypeInv, ThreadsOK
  <2>5. up' \in [Node -> BOOLEAN]
    BY <1>1 DEF TypeInv, StoresOK
  <2> QED
    BY <2>1, <2>2, <2>3, <2>4, <2>5 DEF ThreadsOK
<1>7. ASSUME NEW d \in Client
      PROVE  /\ pc'[d] = "idle" => req'[d] = NoReq
             /\ pc'[d] # "idle" => req'[d].at \in Node
             /\ pc'[d] \in CreateLabels => req'[d].op = "create"
             /\ pc'[d] \in DeleteLabels => req'[d].op = "delete"
             /\ pc'[d] \in AddLabels => req'[d].op = "add" /\ req'[d].target \in Node
             /\ pc'[d] \in RemoveLabels => req'[d].op = "remove" /\ req'[d].target \in Node /\ d \in Remover
             /\ pc'[d] \in UpdateLabels => req'[d].op = "update" /\ req'[d].id \in Id
  <2>1. CASE d \in lost
    BY <1>4, <2>1 DEF CreateLabels, DeleteLabels, AddLabels, RemoveLabels, UpdateLabels
  <2>2. CASE d \notin lost
    BY <1>3, <2>2 DEF TypeInv, ControlOK
  <2> QED
    BY <2>1, <2>2
<1>8. ControlOK'
  BY <1>7 DEF ControlOK
<1> QED
  BY <1>2, <1>3, <1>4, <1>5, <1>6, <1>8

LEMMA StopType ==
    ASSUME TypeInv, NEW n \in Node, Stop(n), UNCHANGED <<kgVars, failnode, storeVars, born, latest>>,
           ops' \in 0..MaxOps, crashes' \in 0..MaxCrashes
    PROVE  TypeInv'
BY StopFacts DEF TypeInv, NaSeTypeOK, StoresOK, HistoryOK, kgVars, storeVars

LEMMA CrashType ==
    ASSUME TypeInv, NEW n \in Node, Crash(n) \/ GetReplica(n)
    PROVE  TypeInv' /\ Stop(n) /\ UNCHANGED <<kgVars, failnode, storeVars, born, latest>>
<1>1. /\ Stop(n) /\ UNCHANGED <<kgVars, failnode, storeVars, born, latest>>
      /\ ops' \in 0..MaxOps /\ crashes' \in 0..MaxCrashes
  BY KeygroupsAssumption DEF Crash, GetReplica, TypeInv, HistoryOK
<1> QED
  BY <1>1, StopType

\* What a starting node fetches comes from another member.
LEMMA RestartFacts ==
    ASSUME TypeInv, NEW n \in Node, Restart(n)
    PROVE  /\ TypeInv' /\ ~up[n]
           /\ UNCHANGED <<kgVars, has, threadVars, ops, crashes, histVars>>
           /\ \A m \in Node \ {n} : items'[m] = items[m]
           /\ ~has[n] => items'[n] = items[n]
           /\ \A i \in Id : items'[n][i] = items[n][i] \/ \E m \in Node : items'[n][i] = items[m][i]
<1> DEFINE missed == MissedRecords(n)
           sources == GetNodeWithBiggerExpiry(n)
           fetched(src) == {i \in missed : /\ src[i] # NoNode
                                           /\ has[n] /\ up[src[i]]
                                           /\ items[src[i]][i] # 0}
<1>1. /\ ~up[n] /\ up' = [up EXCEPT ![n] = TRUE] /\ failnode' = failnode \ ({n} \X missed)
      /\ UNCHANGED <<kgVars, has, threadVars, ops, crashes, histVars>>
  BY DEF Restart
<1>2. PICK src \in [missed -> IF sources = {} THEN {NoNode} ELSE sources] :
          items' = [items EXCEPT ![n] =
                      [i \in Id |-> IF i \in fetched(src) THEN items[src[i]][i] ELSE @[i]]]
  BY DEF Restart
<1>3. sources \subseteq Node /\ missed \subseteq Id
  BY DEF GetNodeWithBiggerExpiry, GetKeygroupMembers, MissedRecords
<1>4. \A i \in fetched(src) : src[i] \in Node /\ i \in Id /\ has[n]
  BY <1>2, <1>3
<1> HIDE DEF fetched
<1>5. items \in [Node -> [Id -> 0..MaxOps]]
  BY DEF TypeInv, StoresOK
<1>6. /\ \A m \in Node \ {n} : items'[m] = items[m]
      /\ items'[n] = [i \in Id |-> IF i \in fetched(src) THEN items[src[i]][i] ELSE items[n][i]]
  BY <1>2, <1>5
<1>7. \A i \in Id : /\ items'[n][i] = items[n][i] \/ \E m \in Node : items'[n][i] = items[m][i]
                    /\ items'[n][i] \in 0..MaxOps
                    /\ ~has[n] => items'[n][i] = items[n][i]
  BY <1>4, <1>5, <1>6
<1>8. items'[n] \in [Id -> 0..MaxOps] /\ (~has[n] => items'[n] = items[n])
  BY <1>5, <1>6, <1>7
<1>9. items' \in [Node -> [Id -> 0..MaxOps]]
  BY <1>2, <1>5, <1>6, <1>8
<1>10. NaSeTypeOK'
  BY <1>1 DEF TypeInv, NaSeTypeOK, kgVars
<1>11. StoresOK' /\ ThreadsOK' /\ HistoryOK' /\ ControlOK'
  BY <1>1, <1>9 DEF TypeInv, StoresOK, ThreadsOK, HistoryOK, ControlOK, threadVars, histVars
<1> QED
  BY <1>1, <1>6, <1>7, <1>8, <1>10, <1>11 DEF TypeInv

LEMMA NextType == TypeInv /\ [Next]_vars => TypeInv'
<1> SUFFICES ASSUME TypeInv, [Next]_vars PROVE TypeInv'
  OBVIOUS
<1>1. CASE UNCHANGED vars
  BY <1>1 DEF vars, kgVars, storeVars, threadVars, histVars, TypeInv, NaSeTypeOK, ThreadsOK,
              StoresOK, HistoryOK, ControlOK
<1> QED
  BY <1>1, CreateType, DeleteType, AddType, RemoveType, UpdateType, NaSeFailsType, ArriveFacts,
     CrashType, RestartFacts DEF Next, Step, Finished

\* The variables of the keygroup's life keep their types.
THEOREM TypeCorrect == Spec => []TypeOK
<1>1. Spec => []TypeInv
  BY InitType, NextType, PTL DEF Spec
<1> QED
  BY <1>1, TypeInvTypeOK, PTL

----------------------------------------------------------------------------
(* A member without a copy.  There is one only while a request is open that  *)
(* will give it a copy, take it out, or fail and say so; this holds for any  *)
(* requests at the same time, any faults and any crashes.                    *)

CoveredBy(c, n) ==
    \/ pc[c] \in {"clearMembers", "delExists", "delMembers", "delSend", "putDeleted"}
    \/ pc[c] = "createStore" /\ req[c].at = n
    \/ pc[c] \in {"sendCreate", "rmExit", "putRemoved"} /\ req[c].target = n

Hole(n) == kgStatus = "created" /\ kgNode[n] = "ok" /\ ~has[n] /\ n \notin failed

HolesCovered == \A n \in Node : Hole(n) => \E c \in Client : CoveredBy(c, n)

\* What a step of c leaves to the others.
Alone(c) == \A d \in Client : d # c => pc'[d] = pc[d] /\ req'[d] = req[d]

LEMMA HoleFrame ==
    ASSUME HolesCovered, NEW c \in Client, Alone(c),
           \A n \in Node : Hole(n)' => CoveredBy(c, n)' \/ (Hole(n) /\ ~CoveredBy(c, n))
    PROVE  HolesCovered'
<1> SUFFICES ASSUME NEW n \in Node, Hole(n)' PROVE \E d \in Client : CoveredBy(d, n)'
  BY DEF HolesCovered
<1>1. CASE CoveredBy(c, n)'
  BY <1>1
<1>2. CASE Hole(n) /\ ~CoveredBy(c, n)
  <2>1. PICK d \in Client : CoveredBy(d, n)
    BY <1>2 DEF HolesCovered
  <2>2. d # c
    BY <1>2, <2>1
  <2> QED
    BY <2>1, <2>2 DEF CoveredBy, Alone
<1> QED
  BY <1>1, <1>2

\* A request that covers a hole and fails says so.
LEMMA CoverTouched ==
    ASSUME TypeInv, NEW c \in Client, NEW n \in Node, CoveredBy(c, n)
    PROVE  pc[c] # "idle" /\ n \in Touched(c)
BY TouchedFacts DEF CoveredBy

LEMMA HoleError ==
    ASSUME TypeInv, HolesCovered, NEW c \in Client, pc[c] # "idle", ReturnError(c),
           UNCHANGED <<kgStatus, kgNode>>,
           \A n \in Node : has[n] /\ ~has'[n] => n \in Touched(c)
    PROVE  HolesCovered'
<1>1. Alone(c) /\ failed' = failed \cup Touched(c)
  BY ReturnErrorFacts DEF Alone
<1> QED
  BY <1>1, CoverTouched, HoleFrame DEF Hole

LEMMA HoleInside ==
    ASSUME TypeInv, HolesCovered, NEW c \in Client, NEW l \in Label, Goto(c, l), Inside(c),
           UNCHANGED <<kgStatus, kgNode, has>>,
           \A n \in Node : CoveredBy(c, n) => CoveredBy(c, n)'
    PROVE  HolesCovered'
<1>1. Alone(c) /\ failed' = failed
  BY DEF Alone, Goto, Inside, histVars, TypeInv, ThreadsOK
<1> QED
  BY <1>1, HoleFrame DEF Hole

LEMMA HoleStays ==
    ASSUME HolesCovered, UNCHANGED <<kgStatus, kgNode, has, pc, req, failed>>
    PROVE  HolesCovered'
BY DEF HolesCovered, Hole, CoveredBy

LEMMA CreateHole ==
    ASSUME TypeInv, HolesCovered, NEW c \in Client, CreateStep(c)
    PROVE  HolesCovered'
<1>0. pc \in [Client -> Label] /\ has \in [Node -> BOOLEAN] /\ kgNode \in [Node -> {"none", "ok", "removed"}]
      /\ (pc[c] # "idle" => req[c].at \in Node)
  BY DEF TypeInv, ThreadsOK, StoresOK, NaSeTypeOK, ControlOK
<1>1. CASE CheckFree(c)
  <2>1. CASE ReturnError(c)
    BY <1>1, <2>1, HoleError DEF CheckFree, kgVars, storeVars
  <2>2. CASE Goto(c, "putMutable") /\ Inside(c)
    BY <1>1, <2>2, HoleInside DEF CheckFree, kgVars, storeVars, CoveredBy, Label
  <2> QED
    BY <1>1, <2>1, <2>2 DEF CheckFree
<1>2. CASE PutMutable(c)
  BY <1>2, HoleInside DEF PutMutable, storeVars, CoveredBy, Label
<1>3. CASE PutExpiry(c)
  BY <1>3, HoleInside DEF PutExpiry, storeVars, CoveredBy, Label
<1>4. CASE PutStatus(c)
  <2>1. pc'[c] = "clearMembers" /\ Alone(c)
    BY <1>0, <1>4 DEF PutStatus, Goto, Alone
  <2> QED
    BY <2>1, HoleFrame DEF CoveredBy
<1>5. CASE ClearMembers(c)
  <2>1. Alone(c) /\ \A n \in Node : kgNode'[n] # "ok"
    BY <1>0, <1>5 DEF ClearMembers, Goto, Alone, Inside
  <2> QED
    BY <2>1, HoleFrame DEF Hole
<1>6. CASE PutOwn(c)
  <2>1. /\ Alone(c) /\ pc[c] = "putOwn" /\ pc'[c] = "createStore" /\ req'[c] = req[c]
        /\ UNCHANGED <<kgStatus, has, failed>>
        /\ \A n \in Node : n # req[c].at => kgNode'[n] = kgNode[n]
    BY <1>0, <1>6 DEF PutOwn, Goto, Alone, Inside, At, histVars, storeVars
  <2> QED
    BY <2>1, HoleFrame DEF Hole, CoveredBy
<1>7. CASE CreateStore(c)
  <2>1. CASE ReturnError(c) /\ UNCHANGED has
    BY <1>7, <2>1, HoleError DEF CreateStore, kgVars
  <2>2. CASE has' = [has EXCEPT ![At(c)] = TRUE] /\ ReturnOk(c, {At(c)})
    <3>1. /\ pc[c] = "createStore" /\ UNCHANGED <<kgStatus, kgNode>>
          /\ Alone(c) /\ failed' = failed \ {req[c].at} /\ req[c].at \in Node
      BY <1>0, <1>7, <2>2, ReturnOkFacts DEF CreateStore, kgVars, Alone, At
    <3>2. has'[req[c].at] /\ \A n \in Node : n # req[c].at => has'[n] = has[n]
      BY <1>0, <2>2, <3>1 DEF At
    <3> QED
      BY <3>1, <3>2, HoleFrame DEF Hole, CoveredBy
  <2> QED
    BY <1>7, <2>1, <2>2 DEF CreateStore
<1> QED
  BY <1>1, <1>2, <1>3, <1>4, <1>5, <1>6, <1>7 DEF CreateStep

LEMMA DeleteHole ==
    ASSUME TypeInv, HolesCovered, NEW c \in Client, DeleteStep(c)
    PROVE  HolesCovered'
<1>0. pc \in [Client -> Label] /\ has \in [Node -> BOOLEAN]
      /\ (pc[c] # "idle" => req[c].at \in Node)
  BY DEF TypeInv, ThreadsOK, StoresOK, ControlOK
<1>1. CASE DeleteStore(c)
  <2>1. CASE ReturnError(c) /\ UNCHANGED storeVars
    BY <1>1, <2>1, HoleError DEF DeleteStore, kgVars, storeVars
  <2>2. CASE Goto(c, "delExists") /\ Inside(c)
    BY <1>0, <2>2, HoleFrame DEF Goto, Inside, Alone, CoveredBy
  <2> QED
    BY <1>1, <2>1, <2>2 DEF DeleteStore
<1>2. CASE Exists(c, "delExists", "delMembers")
  <2>1. CASE ReturnError(c)
    BY <1>2, <2>1, HoleError DEF Exists, kgVars, storeVars
  <2>2. CASE Goto(c, "delMembers") /\ Inside(c)
    BY <1>0, <2>2, HoleFrame DEF Goto, Inside, Alone, CoveredBy
  <2> QED
    BY <1>2, <2>1, <2>2 DEF Exists
<1>3. CASE OtherMembers(c, "delMembers", "delSend")
  BY <1>0, <1>3, HoleFrame DEF OtherMembers, Goto, Inside, Alone, CoveredBy
<1>4. ASSUME NEW m \in Node, SendDeleteKeygroup(c, m) PROVE HolesCovered'
  BY <1>0, <1>4, HoleFrame DEF SendDeleteKeygroup, Inside, Alone, CoveredBy
<1>5. CASE EndLoop(c, "delSend", "putDeleted")
  BY <1>0, <1>5, HoleFrame DEF EndLoop, Goto, Inside, Alone, CoveredBy
<1>6. CASE PutDeleted(c)
  BY <1>6 DEF PutDeleted, HolesCovered, Hole
<1> QED
  BY <1>1, <1>2, <1>3, <1>4, <1>5, <1>6 DEF DeleteStep

LEMMA AddHole ==
    ASSUME TypeInv, HolesCovered, NEW c \in Client, AddStep(c)
    PROVE  HolesCovered'
<1>0. /\ pc \in [Client -> Label] /\ has \in [Node -> BOOLEAN]
      /\ kgNode \in [Node -> {"none", "ok", "removed"}]
      /\ pc[c] \in AddLabels => req[c].target \in Node
  BY DEF TypeInv, ThreadsOK, StoresOK, NaSeTypeOK, ControlOK
<1>1. CASE Exists(c, "addExists", "joinExpiry")
  <2>1. CASE ReturnError(c)
    BY <1>1, <2>1, HoleError DEF Exists, kgVars, storeVars
  <2>2. CASE Goto(c, "joinExpiry") /\ Inside(c)
    BY <1>1, <2>2, HoleInside DEF Exists, kgVars, storeVars, CoveredBy, Label
  <2> QED
    BY <1>1, <2>1, <2>2 DEF Exists
<1>2. CASE JoinExpiry(c)
  BY <1>2, HoleInside DEF JoinExpiry, storeVars, CoveredBy, Label
<1>3. CASE JoinNode(c)
  <2>1. /\ Alone(c) /\ pc[c] = "joinNode" /\ pc'[c] = "sendCreate" /\ req'[c] = req[c]
        /\ UNCHANGED <<kgStatus, has, failed>>
        /\ \A n \in Node : n # req[c].target => kgNode'[n] = kgNode[n]
    BY <1>0, <1>3 DEF JoinNode, Goto, Alone, Inside, Target, histVars, storeVars
  <2> QED
    BY <2>1, HoleFrame DEF Hole, CoveredBy
<1>4. CASE SendCreateKeygroup(c)
  <2>0. pc[c] = "sendCreate" /\ UNCHANGED <<kgStatus, kgNode>> /\ req[c].target \in Node
    BY <1>0, <1>4 DEF SendCreateKeygroup, kgVars, AddLabels
  <2>1. \A n \in Node : has[n] => has'[n]
    BY <1>0, <1>4, <2>0 DEF SendCreateKeygroup, Target
  <2>2. CASE ReturnError(c)
    BY <2>0, <2>1, <2>2, HoleError
  <2>3. CASE ~ReturnError(c)
    <3>1. /\ Goto(c, "addMembers") /\ failed' = failed \ {req[c].target} /\ UNCHANGED req
          /\ has' = [has EXCEPT ![req[c].target] = TRUE]
      BY <1>4, <2>3 DEF SendCreateKeygroup, Target
    <3>2. Alone(c) /\ has'[req[c].target]
      BY <1>0, <2>0, <3>1 DEF Alone, Goto
    <3> QED
      BY <2>0, <2>1, <3>1, <3>2, HoleFrame DEF Hole, CoveredBy
  <2> QED
    BY <2>2, <2>3
<1>5. CASE OtherMembers(c, "addMembers", "tell")
  BY <1>5, HoleInside DEF OtherMembers, kgVars, storeVars, CoveredBy, Label
<1>6. ASSUME NEW m \in Node, Tell(c, m) PROVE HolesCovered'
  <2>1. CASE ReturnError(c)
    BY <1>6, <2>1, HoleError DEF Tell, kgVars, storeVars
  <2>2. CASE UNCHANGED pc /\ Inside(c)
    BY <1>6, <2>2, HoleStays DEF Tell, Inside, histVars, kgVars, storeVars
  <2> QED
    BY <1>6, <2>1, <2>2 DEF Tell
<1>7. CASE EndLoop(c, "tell", "snapshot")
  BY <1>7, HoleInside DEF EndLoop, kgVars, storeVars, CoveredBy, Label
<1>8. CASE ReadAll(c)
  <2>1. CASE ReturnError(c)
    BY <1>8, <2>1, HoleError DEF ReadAll, kgVars, storeVars
  <2>2. CASE Goto(c, "copy") /\ Inside(c)
    BY <1>8, <2>2, HoleInside DEF ReadAll, kgVars, storeVars, CoveredBy, Label
  <2> QED
    BY <1>8, <2>1, <2>2 DEF ReadAll
<1>9. CASE NoSource(c) \/ CopyDone(c)
  <2>1. /\ pc[c] \in {"snapshot", "copy"} /\ ReturnOk(c, {})
        /\ UNCHANGED <<kgStatus, kgNode, has>>
    BY <1>9 DEF NoSource, CopyDone, kgVars, storeVars
  <2>2. Alone(c) /\ failed' = failed \ {}
    BY <2>1, ReturnOkFacts DEF Alone
  <2> QED
    BY <2>1, <2>2, HoleFrame DEF Hole, CoveredBy
<1>10. ASSUME NEW i \in Id, Copy(c, i) PROVE HolesCovered'
  BY <1>10, HoleStays DEF Copy, Inside, histVars, kgVars
<1> QED
  BY <1>1, <1>2, <1>3, <1>4, <1>5, <1>6, <1>7, <1>8, <1>9, <1>10 DEF AddStep

LEMMA RemoveHole ==
    ASSUME TypeInv, HolesCovered, NEW c \in Client, RemoveStep(c)
    PROVE  HolesCovered'
<1>0. /\ pc \in [Client -> Label] /\ has \in [Node -> BOOLEAN]
      /\ kgNode \in [Node -> {"none", "ok", "removed"}]
      /\ pc[c] \in RemoveLabels => req[c].target \in Node
  BY DEF TypeInv, ThreadsOK, StoresOK, NaSeTypeOK, ControlOK
<1>1. CASE Exists(c, "rmExists", "rmMembers")
  <2>1. CASE ReturnError(c)
    BY <1>1, <2>1, HoleError DEF Exists, kgVars, storeVars
  <2>2. CASE Goto(c, "rmMembers") /\ Inside(c)
    BY <1>1, <2>2, HoleInside DEF Exists, kgVars, storeVars, CoveredBy, Label
  <2> QED
    BY <1>1, <2>1, <2>2 DEF Exists
<1>2. CASE CheckMembers(c)
  <2>1. CASE ReturnError(c)
    BY <1>2, <2>1, HoleError DEF CheckMembers, kgVars, storeVars
  <2>2. CASE Goto(c, "rmSend") /\ Inside(c)
    BY <1>2, <2>2, HoleInside DEF CheckMembers, kgVars, storeVars, CoveredBy, Label
  <2> QED
    BY <1>2, <2>1, <2>2 DEF CheckMembers
<1>3. CASE SendDrop(c)
  <2>0. pc[c] = "rmSend" /\ UNCHANGED <<kgStatus, kgNode>> /\ req[c].target \in Node
    BY <1>0, <1>3 DEF SendDrop, kgVars, RemoveLabels
  <2>1. \A n \in Node : n # req[c].target => has'[n] = has[n]
    BY <1>3, <2>0, DropFacts DEF SendDrop, Target, storeVars
  <2>2. CASE ReturnError(c)
    BY <2>0, <2>1, <2>2, HoleError, TouchedFacts
  <2>3. CASE Goto(c, "rmExit") /\ Inside(c)
    <3>1. Alone(c) /\ pc'[c] = "rmExit" /\ failed' = failed /\ req' = req
      BY <1>0, <2>3 DEF Goto, Inside, Alone, histVars
    <3> QED
      BY <2>0, <2>1, <3>1, HoleFrame DEF Hole, CoveredBy
  <2> QED
    BY <1>3, <2>2, <2>3 DEF SendDrop
<1>4. CASE Exists(c, "rmExit", "putRemoved")
  <2>1. CASE ReturnError(c)
    BY <1>4, <2>1, HoleError DEF Exists, kgVars, storeVars
  <2>2. CASE Goto(c, "putRemoved") /\ Inside(c)
    <3>1. pc[c] = "rmExit" /\ pc'[c] = "putRemoved" /\ req' = req /\ UNCHANGED <<kgStatus, kgNode, has>>
      BY <1>0, <1>4, <2>2 DEF Exists, Goto, Inside, kgVars, storeVars
    <3> QED
      BY <2>2, <3>1, HoleInside DEF CoveredBy, Label
  <2> QED
    BY <1>4, <2>1, <2>2 DEF Exists
<1>5. CASE PutRemoved(c)
  <2>1. /\ pc[c] = "putRemoved" /\ UNCHANGED <<kgStatus, has>> /\ req[c].target \in Node
        /\ kgNode' = [kgNode EXCEPT ![req[c].target] = "removed"]
    BY <1>0, <1>5 DEF PutRemoved, storeVars, RemoveLabels, Target
  <2>2. Alone(c) /\ failed \ {req[c].target} \subseteq failed'
    BY <1>5, <2>1, ReturnOkFacts, ReturnErrorFacts DEF PutRemoved, Alone, Target
  <2> QED
    BY <1>0, <2>1, <2>2, HoleFrame DEF Hole, CoveredBy
<1> QED
  BY <1>1, <1>2, <1>3, <1>4, <1>5 DEF RemoveStep

LEMMA UpdateHole ==
    ASSUME TypeInv, HolesCovered, NEW c \in Client, UpdateStep(c)
    PROVE  HolesCovered'
<1>1. CASE Exists(c, "updExists", "updMembers")
  <2>1. CASE ReturnError(c)
    BY <1>1, <2>1, HoleError DEF Exists, kgVars, storeVars
  <2>2. CASE Goto(c, "updMembers") /\ Inside(c)
    BY <1>1, <2>2, HoleInside DEF Exists, kgVars, storeVars, CoveredBy, Label
  <2> QED
    BY <1>1, <2>1, <2>2 DEF Exists
<1>2. CASE OtherMembers(c, "updMembers", "updSend")
  BY <1>2, HoleInside DEF OtherMembers, kgVars, storeVars, CoveredBy, Label
<1>3. ASSUME NEW m \in Node, SendUpdate(c, m) PROVE HolesCovered'
  BY <1>3, HoleStays DEF SendUpdate, Inside, histVars, kgVars
<1>4. CASE EndLoop(c, "updSend", "updStore")
  BY <1>4, HoleInside DEF EndLoop, kgVars, storeVars, CoveredBy, Label
<1>5. CASE UpdateStore(c)
  <2>1. CASE ReturnError(c)
    BY <1>5, <2>1, HoleError DEF UpdateStore, kgVars
  <2>2. CASE ReturnOk(c, {})
    <3>1. pc[c] = "updStore" /\ UNCHANGED <<kgStatus, kgNode, has>> /\ Alone(c) /\ failed' = failed \ {}
      BY <1>5, <2>2, ReturnOkFacts DEF UpdateStore, kgVars, Alone
    <3> QED
      BY <3>1, HoleFrame DEF Hole, CoveredBy
  <2> QED
    BY <1>5, <2>1, <2>2 DEF UpdateStore
<1> QED
  BY <1>1, <1>2, <1>3, <1>4, <1>5 DEF UpdateStep

LEMMA StopHole ==
    ASSUME TypeInv, HolesCovered, NEW n \in Node, Stop(n), UNCHANGED <<kgStatus, kgNode, has>>
    PROVE  HolesCovered'
<1> SUFFICES ASSUME NEW m \in Node, Hole(m)' PROVE \E d \in Client : CoveredBy(d, m)'
  BY DEF HolesCovered
<1>1. PICK d \in Client : CoveredBy(d, m)
  BY StopFacts DEF HolesCovered, Hole
<1>2. ~(Touched(d) \subseteq failed')
  BY <1>1, CoverTouched DEF Hole
<1>3. pc'[d] = pc[d] /\ req'[d] = req[d]
  BY <1>2, StopFacts
<1> QED
  BY <1>1, <1>3 DEF CoveredBy

LEMMA NextHole == TypeInv /\ HolesCovered /\ [Next]_vars => HolesCovered'
<1> SUFFICES ASSUME TypeInv, HolesCovered, [Next]_vars PROVE HolesCovered'
  OBVIOUS
<1>1. CASE UNCHANGED vars
  BY <1>1, HoleStays DEF vars, kgVars, storeVars, threadVars, histVars
<1>2. ASSUME NEW c \in Client, NaSeFails(c) PROVE HolesCovered'
  BY <1>2, HoleError DEF NaSeFails, NaSeLabels, kgVars, storeVars
<1>3. ASSUME NEW c \in Client, NEW n \in Node, Arrive(c, n) PROVE HolesCovered'
  <2>1. Arrived(c)
    BY <1>3, ArriveFacts
  <2> QED
    BY <2>1, HoleFrame DEF Arrived, Alone, Hole, CoveredBy, FirstLabels, kgVars, storeVars, histVars
<1>4. ASSUME NEW n \in Node, Crash(n) \/ GetReplica(n) PROVE HolesCovered'
  BY <1>4, CrashType, StopHole DEF kgVars, storeVars
<1>5. ASSUME NEW n \in Node, Restart(n) PROVE HolesCovered'
  BY <1>5, RestartFacts, HoleStays DEF kgVars, threadVars, histVars
<1> QED
  BY <1>1, <1>2, <1>3, <1>4, <1>5, CreateHole, DeleteHole, AddHole, RemoveHole, UpdateHole
     DEF Next, Step, Finished

LEMMA InitHole == Init => HolesCovered
BY DEF Init, HolesCovered, Hole

\* When no request is open, a member without a copy is one whose request has
\* failed and told its client, whatever requests, faults and crashes there were.
THEOREM HolesTold == Spec => []NoSilentHole
<1>1. Spec => [](TypeInv /\ HolesCovered)
  BY InitType, InitHole, NextType, NextHole, PTL DEF Spec
<1>2. HolesCovered => NoSilentHole
  BY DEF HolesCovered, Hole, CoveredBy, NoSilentHole, Quiet, GetKeygroupMembers
<1> QED
  BY <1>1, <1>2, PTL

----------------------------------------------------------------------------
(* What a step of a request changes outside of it *)

\* The request goes on, or is over.
Proceeds(c, L) == pc[c] \in L /\ (pc'[c] = "idle" \/ (pc'[c] \in L /\ req'[c] = req[c]))

LEMMA ReturnShape ==
    ASSUME TypeInv, NEW c \in Client, Return(c)
    PROVE  Alone(c) /\ pc'[c] = "idle"
BY ReturnFacts DEF Alone

LEMMA GotoShape ==
    ASSUME TypeInv, NEW c \in Client, NEW l, Goto(c, l), UNCHANGED req
    PROVE  Alone(c) /\ pc'[c] = l
BY DEF TypeInv, ThreadsOK, Goto, Alone

LEMMA CreateShape ==
    ASSUME TypeInv, NEW c \in Client, CreateStep(c)
    PROVE  Alone(c) /\ Proceeds(c, CreateLabels)
<1> USE DEF Proceeds, CreateLabels, Inside
<1>1. CASE CheckFree(c)
  BY <1>1, ReturnShape, GotoShape DEF CheckFree, ReturnError
<1>2. CASE PutMutable(c)
  BY <1>2, GotoShape DEF PutMutable
<1>3. CASE PutExpiry(c)
  BY <1>3, GotoShape DEF PutExpiry
<1>4. CASE PutStatus(c)
  BY <1>4, GotoShape DEF PutStatus
<1>5. CASE ClearMembers(c)
  BY <1>5, GotoShape DEF ClearMembers
<1>6. CASE PutOwn(c)
  BY <1>6, GotoShape DEF PutOwn
<1>7. CASE CreateStore(c)
  BY <1>7, ReturnShape DEF CreateStore, ReturnError, ReturnOk
<1> QED
  BY <1>1, <1>2, <1>3, <1>4, <1>5, <1>6, <1>7 DEF CreateStep

LEMMA DeleteShape ==
    ASSUME TypeInv, NEW c \in Client, DeleteStep(c)
    PROVE  /\ Alone(c) /\ Proceeds(c, DeleteLabels) /\ kgNode' = kgNode
           /\ kgMutable' = kgMutable
<1> USE DEF Proceeds, DeleteLabels, Inside, kgVars
<1>1. CASE DeleteStore(c)
  BY <1>1, ReturnShape, GotoShape DEF DeleteStore, ReturnError
<1>2. CASE Exists(c, "delExists", "delMembers")
  BY <1>2, ReturnShape, GotoShape DEF Exists, ReturnError
<1>3. CASE OtherMembers(c, "delMembers", "delSend")
  BY <1>3, GotoShape DEF OtherMembers
<1>4. ASSUME NEW m \in Node, SendDeleteKeygroup(c, m)
      PROVE  Alone(c) /\ Proceeds(c, DeleteLabels) /\ kgNode' = kgNode /\ kgMutable' = kgMutable
  BY <1>4 DEF SendDeleteKeygroup, Alone
<1>5. CASE EndLoop(c, "delSend", "putDeleted")
  BY <1>5, GotoShape DEF EndLoop
<1>6. CASE PutDeleted(c)
  BY <1>6, ReturnShape DEF PutDeleted, ReturnOk
<1> QED
  BY <1>1, <1>2, <1>3, <1>4, <1>5, <1>6 DEF DeleteStep

LEMMA AddShape ==
    ASSUME TypeInv, NEW c \in Client, AddStep(c)
    PROVE  /\ Alone(c) /\ Proceeds(c, AddLabels)
           /\ kgStatus' = kgStatus /\ kgMutable' = kgMutable
           /\ \A n \in Node : kgNode[n] = "ok" => kgNode'[n] = "ok"
<1> USE DEF Proceeds, AddLabels, Inside, kgVars
<1>1. CASE Exists(c, "addExists", "joinExpiry")
  BY <1>1, ReturnShape, GotoShape DEF Exists, ReturnError
<1>2. CASE JoinExpiry(c)
  BY <1>2, GotoShape DEF JoinExpiry
<1>3. CASE JoinNode(c)
  BY <1>3, GotoShape DEF JoinNode, TypeInv, NaSeTypeOK
<1>4. CASE SendCreateKeygroup(c)
  BY <1>4, ReturnShape, GotoShape DEF SendCreateKeygroup, ReturnError
<1>5. CASE OtherMembers(c, "addMembers", "tell")
  BY <1>5, GotoShape DEF OtherMembers
<1>6. ASSUME NEW m \in Node, Tell(c, m)
      PROVE  Alone(c) /\ Proceeds(c, AddLabels) /\ kgNode' = kgNode
             /\ kgStatus' = kgStatus /\ kgMutable' = kgMutable
  BY <1>6, ReturnShape DEF Tell, ReturnError, Alone
<1>7. CASE EndLoop(c, "tell", "snapshot")
  BY <1>7, GotoShape DEF EndLoop
<1>8. CASE ReadAll(c)
  BY <1>8, ReturnShape, GotoShape DEF ReadAll, ReturnError
<1>9. CASE NoSource(c) \/ CopyDone(c)
  BY <1>9, ReturnShape DEF NoSource, CopyDone, ReturnOk
<1>10. ASSUME NEW i \in Id, Copy(c, i)
      PROVE  Alone(c) /\ Proceeds(c, AddLabels) /\ kgNode' = kgNode
             /\ kgStatus' = kgStatus /\ kgMutable' = kgMutable
  BY <1>10 DEF Copy, Alone
<1> QED
  BY <1>1, <1>2, <1>3, <1>4, <1>5, <1>6, <1>7, <1>8, <1>9, <1>10 DEF AddStep

LEMMA RemoveShape ==
    ASSUME TypeInv, NEW c \in Client, RemoveStep(c)
    PROVE  /\ Alone(c) /\ Proceeds(c, RemoveLabels)
           /\ kgStatus' = kgStatus /\ kgMutable' = kgMutable
           /\ \A n \in Node : n # req[c].target => kgNode'[n] = kgNode[n]
           /\ kgNode' = kgNode \/ (pc[c] = "putRemoved" /\ pc'[c] = "idle")
           /\ pc'[c] \in {"rmSend", "rmExit", "putRemoved"} =>
                 pc[c] \in {"rmSend", "rmExit", "putRemoved"} \/ Removable(req[c].target)
<1> USE DEF Proceeds, RemoveLabels, Inside, kgVars
<1>1. CASE Exists(c, "rmExists", "rmMembers")
  BY <1>1, ReturnShape, GotoShape DEF Exists, ReturnError
<1>2. CASE CheckMembers(c)
  BY <1>2, ReturnShape, GotoShape DEF CheckMembers, ReturnError, Target
<1>3. CASE SendDrop(c)
  BY <1>3, ReturnShape, GotoShape DEF SendDrop, ReturnError
<1>4. CASE Exists(c, "rmExit", "putRemoved")
  BY <1>4, ReturnShape, GotoShape DEF Exists, ReturnError
<1>5. CASE PutRemoved(c)
  BY <1>5, ReturnShape DEF PutRemoved, ReturnOk, ReturnError, Target, TypeInv, NaSeTypeOK
<1> QED
  BY <1>1, <1>2, <1>3, <1>4, <1>5 DEF RemoveStep

LEMMA UpdateShape ==
    ASSUME TypeInv, NEW c \in Client, UpdateStep(c)
    PROVE  Alone(c) /\ Proceeds(c, UpdateLabels) /\ UNCHANGED <<kgVars, has>>
<1> USE DEF Proceeds, UpdateLabels, Inside, storeVars
<1>1. CASE Exists(c, "updExists", "updMembers")
  BY <1>1, ReturnShape, GotoShape DEF Exists, ReturnError
<1>2. CASE OtherMembers(c, "updMembers", "updSend")
  BY <1>2, GotoShape DEF OtherMembers
<1>3. ASSUME NEW m \in Node, SendUpdate(c, m)
      PROVE  Alone(c) /\ Proceeds(c, UpdateLabels) /\ UNCHANGED <<kgVars, has>>
  BY <1>3 DEF SendUpdate, Alone
<1>4. CASE EndLoop(c, "updSend", "updStore")
  BY <1>4, GotoShape DEF EndLoop
<1>5. CASE UpdateStore(c)
  BY <1>5, ReturnShape DEF UpdateStore, ReturnError, ReturnOk
<1> QED
  BY <1>1, <1>2, <1>3, <1>4, <1>5 DEF UpdateStep

LEMMA NaSeFailsShape ==
    ASSUME TypeInv, NEW c \in Client, NaSeFails(c)
    PROVE  Alone(c) /\ pc[c] # "idle" /\ pc'[c] = "idle" /\ UNCHANGED <<kgVars, storeVars, failnode>>
BY ReturnShape DEF NaSeFails, NaSeLabels, ReturnError

----------------------------------------------------------------------------
(* The last member.  With one client at a time that removes replicas, and    *)
(* a keygroup that is there from the start, a keygroup never loses its last  *)
(* member, whatever else happens.                                            *)

OneRemover == \A c, d \in Remover : c = d

Removing == {"rmSend", "rmExit", "putRemoved"}

\* While a replica is removed there is another member.
MembersKept ==
    /\ \A c \in Client : pc[c] \notin CreateLabels
    /\ \E n \in Node : kgNode[n] = "ok"
    /\ \A c \in Client : pc[c] \in Removing =>
          \E n \in Node : n # req[c].target /\ kgNode[n] = "ok"

LEMMA AnotherMember ==
    ASSUME NEW t \in Node, Removable(t)
    PROVE  \E n \in Node : n # t /\ kgNode[n] = "ok"
<1> SUFFICES ASSUME \A n \in Node : n # t => kgNode[n] # "ok" PROVE FALSE
  OBVIOUS
<1>1. GetKeygroupMembers(NoNode, FALSE) = {t}
  BY DEF Removable, GetKeygroupMembers
<1>2. Cardinality({t}) = 1
  BY FS_Singleton
<1>3. Cardinality(GetKeygroupMembers(NoNode, FALSE)) > 1
  BY DEF Removable
<1>4. Cardinality({t}) > 1
  BY <1>1, <1>3, Zenon
<1> QED
  BY <1>2, <1>4

\* Steps that take nobody out.
LEMMA KeptFrame ==
    ASSUME MembersKept, NEW c \in Client, Alone(c),
           \A n \in Node : kgNode[n] = "ok" => kgNode'[n] = "ok",
           pc'[c] \notin CreateLabels, pc'[c] \notin Removing
    PROVE  MembersKept'
<1>1. \A d \in Client : pc'[d] \notin CreateLabels
  BY DEF MembersKept, Alone
<1>2. \E n \in Node : kgNode'[n] = "ok"
  BY DEF MembersKept
<1>3. ASSUME NEW d \in Client, pc'[d] \in Removing
      PROVE  \E n \in Node : n # req'[d].target /\ kgNode'[n] = "ok"
  <2>1. d # c /\ pc[d] \in Removing /\ req'[d] = req[d]
    BY <1>3 DEF Alone
  <2> QED
    BY <2>1 DEF MembersKept
<1> QED
  BY <1>1, <1>2, <1>3 DEF MembersKept

LEMMA RemoveKept ==
    ASSUME TypeInv, MembersKept, OneRemover, NEW c \in Client, RemoveStep(c)
    PROVE  MembersKept'
<1>1. /\ Alone(c) /\ pc[c] \in RemoveLabels /\ req[c].target \in Node /\ c \in Remover
      /\ pc'[c] = "idle" \/ (pc'[c] \in RemoveLabels /\ req'[c] = req[c])
  BY RemoveShape DEF Proceeds, TypeInv, ControlOK
<1>2. \A d \in Client : pc[d] \in Removing => d = c
  BY <1>1 DEF TypeInv, ControlOK, OneRemover, Removing, RemoveLabels
<1>3. \A d \in Client : pc'[d] \in Removing => d = c
  BY <1>1, <1>2 DEF Alone
<1>4. \A d \in Client : pc'[d] \notin CreateLabels
  BY <1>1 DEF MembersKept, Alone, RemoveLabels, CreateLabels
<1>5. CASE kgNode' = kgNode
  <2>1. ASSUME pc'[c] \in Removing
        PROVE  \E n \in Node : n # req'[c].target /\ kgNode'[n] = "ok"
    <3>1. req'[c] = req[c] /\ (pc[c] \in Removing \/ Removable(req[c].target))
      BY <1>1, <2>1, RemoveShape DEF Removing
    <3> QED
      BY <1>1, <1>5, <3>1, AnotherMember DEF MembersKept
  <2> QED
    BY <1>3, <1>4, <1>5, <2>1 DEF MembersKept
<1>6. CASE kgNode' # kgNode
  <2>1. pc[c] = "putRemoved" /\ pc'[c] = "idle" /\ \A n \in Node : n # req[c].target => kgNode'[n] = kgNode[n]
    BY <1>6, RemoveShape
  <2>2. \E n \in Node : kgNode'[n] = "ok"
    BY <2>1 DEF MembersKept, Removing
  <2> QED
    BY <1>3, <1>4, <2>1, <2>2 DEF MembersKept, Removing
<1> QED
  BY <1>5, <1>6

LEMMA NextKept ==
    ASSUME OneRemover, "create" \notin Ops, TypeInv, MembersKept, [Next]_vars
    PROVE  MembersKept'
<1>1. CASE UNCHANGED vars
  BY <1>1 DEF vars, kgVars, threadVars, MembersKept
<1>2. ASSUME NEW c \in Client, CreateStep(c) PROVE MembersKept'
  BY <1>2, CreateShape DEF Proceeds, MembersKept
<1>3. ASSUME NEW c \in Client, DeleteStep(c) PROVE MembersKept'
  BY <1>3, DeleteShape, KeptFrame DEF Proceeds, DeleteLabels, CreateLabels, Removing
<1>4. ASSUME NEW c \in Client, AddStep(c) PROVE MembersKept'
  BY <1>4, AddShape, KeptFrame DEF Proceeds, AddLabels, CreateLabels, Removing
<1>5. ASSUME NEW c \in Client, UpdateStep(c) PROVE MembersKept'
  BY <1>5, UpdateShape, KeptFrame DEF Proceeds, UpdateLabels, CreateLabels, Removing, kgVars
<1>6. ASSUME NEW c \in Client, NaSeFails(c) PROVE MembersKept'
  BY <1>6, NaSeFailsShape, KeptFrame DEF CreateLabels, Removing, kgVars
<1>7. ASSUME NEW c \in Client, NEW n \in Node, Arrive(c, n) PROVE MembersKept'
  <2>1. Arrived(c) /\ TypeInv'
    BY <1>7, ArriveFacts
  <2>2. pc'[c] # "checkFree"
    <3>1. ~\E mutable \in BOOLEAN, e \in Expiries : CreateKeygroup(c, n, mutable, e)
      BY DEF CreateKeygroup, Request
    <3>2. \E l \in {"deleteStore", "addExists", "rmExists", "updExists"} : Goto(c, l)
      BY <1>7, <3>1 DEF Arrive, DeleteKeygroup, AddReplica, RemoveReplica, Update, Request
    <3> QED
      BY <3>2 DEF Goto, TypeInv, ThreadsOK
  <2> QED
    BY <2>1, <2>2, KeptFrame DEF Arrived, Alone, FirstLabels, CreateLabels, Removing, kgVars
<1>8. ASSUME NEW n \in Node, Crash(n) \/ GetReplica(n) PROVE MembersKept'
  <2>1. Stop(n) /\ kgNode' = kgNode
    BY <1>8, CrashType DEF kgVars
  <2>2. \A c \in Client : pc'[c] = "idle" \/ (pc'[c] = pc[c] /\ req'[c] = req[c])
    BY <2>1, StopFacts
  <2> QED
    BY <2>1, <2>2 DEF MembersKept, CreateLabels, Removing
<1>9. ASSUME NEW n \in Node, Restart(n) PROVE MembersKept'
  BY <1>9, RestartFacts DEF kgVars, threadVars, MembersKept
<1> QED
  BY <1>1, <1>2, <1>3, <1>4, <1>5, <1>6, <1>7, <1>8, <1>9, RemoveKept
     DEF Next, Step, Finished

\* The keygroup of a node that is there from the start keeps a member as long as
\* replicas are removed by one client at a time and nobody creates it again.
THEOREM LastMemberStays ==
    ASSUME OneRemover, "create" \notin Ops, Members # {}
    PROVE  Spec => []NeverMemberless
<1>1. Init => MembersKept
  BY KeygroupsAssumption DEF Init, MembersKept, CreateLabels, Removing
<1>2. TypeInv /\ MembersKept /\ [Next]_vars => MembersKept'
  BY NextKept
<1>3. Spec => [](TypeInv /\ MembersKept)
  BY <1>1, <1>2, InitType, NextType, PTL DEF Spec
<1>4. MembersKept => NeverMemberless
  BY DEF MembersKept, NeverMemberless, GetKeygroupMembers
<1> QED
  BY <1>3, <1>4, PTL

----------------------------------------------------------------------------
(* One request at a time *)

Single == \A c, d \in Client : pc[c] # "idle" /\ pc[d] # "idle" => c = d

\* A create gets as far as writing the configuration only if there is no keygroup.
CreatesNew ==
    \A c \in Client : pc[c] \in {"putMutable", "putExpiry", "putStatus"} => kgStatus # "created"

\* A step of a request leaves the others alone.
LEMMA StepShape ==
    ASSUME TypeInv, NEW c \in Client, Step(c)
    PROVE  Alone(c) /\ pc[c] # "idle"
BY CreateShape, DeleteShape, AddShape, RemoveShape, UpdateShape, NaSeFailsShape
   DEF Step, Proceeds, CreateLabels, DeleteLabels, AddLabels, RemoveLabels, UpdateLabels

\* Hence all others are idle, before and after it.
LEMMA OthersIdle ==
    ASSUME TypeInv, Single, NEW c \in Client, Step(c)
    PROVE  \A d \in Client : d # c => pc[d] = "idle" /\ pc'[d] = "idle"
BY StepShape DEF Single, Alone

\* A request starts only when all others are over.
LEMMA ArriveAlone ==
    ASSUME Sequential, TypeInv, NEW c \in Client, NEW n \in Node, Arrive(c, n)
    PROVE  \A d \in Client : pc[d] = "idle" /\ (d # c => pc'[d] = "idle")
<1>1. \A d \in Client : pc[d] = "idle"
  BY DEF Arrive, CreateKeygroup, DeleteKeygroup, AddReplica, RemoveReplica, Update, Request
<1>2. Arrived(c)
  BY ArriveFacts
<1> QED
  BY <1>1, <1>2 DEF Arrived

LEMMA NextSingle ==
    ASSUME Sequential, TypeInv, Single, [Next]_vars
    PROVE  Single'
<1>1. CASE UNCHANGED vars
  BY <1>1 DEF vars, threadVars, Single
<1>2. ASSUME NEW c \in Client, Step(c) PROVE Single'
  BY <1>2, OthersIdle DEF Single
<1>3. ASSUME NEW c \in Client, NEW n \in Node, Arrive(c, n) PROVE Single'
  BY <1>3, ArriveAlone DEF Single
<1>4. ASSUME NEW n \in Node, Crash(n) \/ GetReplica(n) PROVE Single'
  BY <1>4, CrashType, StopFacts DEF Single
<1>5. ASSUME NEW n \in Node, Restart(n) PROVE Single'
  BY <1>5, RestartFacts DEF threadVars, Single
<1> QED
  BY <1>1, <1>2, <1>3, <1>4, <1>5 DEF Next, Finished

\* Every step but PutMutable leaves the configuration alone, and PutMutable is
\* only reached by a create that found no keygroup.
LEMMA CreateConfig ==
    ASSUME TypeInv, CreatesNew, NEW c \in Client, CreateStep(c)
    PROVE  /\ kgMutable' = kgMutable \/ kgStatus # "created"
           /\ pc'[c] \in {"putMutable", "putExpiry", "putStatus"} => kgStatus' # "created"
<1> USE DEF Inside, kgVars, CreatesNew
<1>1. CASE CheckFree(c)
  <2>1. pc'[c] = "idle" \/ (pc'[c] = "putMutable" /\ ~ExistsKeygroup)
    BY <1>1, ReturnShape, GotoShape DEF CheckFree, ReturnError
  <2> QED
    BY <1>1, <2>1 DEF CheckFree, ExistsKeygroup
<1>2. CASE PutMutable(c)
  BY <1>2, GotoShape DEF PutMutable
<1>3. CASE PutExpiry(c)
  BY <1>3, GotoShape DEF PutExpiry
<1>4. CASE PutStatus(c)
  BY <1>4, GotoShape DEF PutStatus
<1>5. CASE ClearMembers(c)
  BY <1>5, GotoShape DEF ClearMembers
<1>6. CASE PutOwn(c)
  BY <1>6, GotoShape DEF PutOwn
<1>7. CASE CreateStore(c)
  BY <1>7, ReturnShape DEF CreateStore, ReturnError, ReturnOk
<1> QED
  BY <1>1, <1>2, <1>3, <1>4, <1>5, <1>6, <1>7 DEF CreateStep

LEMMA NextConfig ==
    ASSUME Sequential, TypeInv, Single, CreatesNew, [Next]_vars
    PROVE  CreatesNew' /\ (kgStatus = "created" => kgMutable' = kgMutable)
<1>1. CASE UNCHANGED vars
  BY <1>1 DEF vars, kgVars, threadVars, CreatesNew
<1>2. ASSUME NEW c \in Client, Step(c)
      PROVE  CreatesNew' /\ (kgStatus = "created" => kgMutable' = kgMutable)
  <2>1. \A d \in Client : d # c => pc'[d] = "idle"
    BY <1>2, OthersIdle
  <2>2. CASE CreateStep(c)
    BY <2>1, <2>2, CreateConfig DEF CreatesNew
  <2>3. CASE ~CreateStep(c)
    BY <1>2, <2>1, <2>3, DeleteShape, AddShape, RemoveShape, UpdateShape, NaSeFailsShape
       DEF Step, Proceeds, DeleteLabels, AddLabels, RemoveLabels, UpdateLabels, kgVars, CreatesNew
  <2> QED
    BY <2>2, <2>3
<1>3. ASSUME NEW c \in Client, NEW n \in Node, Arrive(c, n)
      PROVE  CreatesNew' /\ kgMutable' = kgMutable
  BY <1>3, ArriveAlone, ArriveFacts DEF Arrived, FirstLabels, kgVars, CreatesNew
<1>4. ASSUME NEW n \in Node, Crash(n) \/ GetReplica(n) PROVE CreatesNew' /\ kgMutable' = kgMutable
  BY <1>4, CrashType, StopFacts DEF kgVars, CreatesNew
<1>5. ASSUME NEW n \in Node, Restart(n) PROVE CreatesNew' /\ kgMutable' = kgMutable
  BY <1>5, RestartFacts DEF kgVars, threadVars, CreatesNew
<1> QED
  BY <1>1, <1>2, <1>3, <1>4, <1>5 DEF Next, Finished

LEMMA InitSingle == Init => Single /\ CreatesNew
BY DEF Init, Single, CreatesNew

\* If clients wait for each other, no request changes the configuration of a
\* keygroup that exists, through any faults and crashes.
THEOREM ConfigStays ==
    ASSUME Sequential
    PROVE  Spec => ConfigFixed
<1>1. TypeInv /\ Single /\ CreatesNew /\ [Next]_vars =>
         /\ Single' /\ CreatesNew'
         /\ [kgStatus = "created" /\ kgStatus' = "created" => kgMutable' = kgMutable]_vars
  BY NextSingle, NextConfig
<1>2. Spec => [](TypeInv /\ Single /\ CreatesNew)
  BY <1>1, InitType, InitSingle, NextType, PTL DEF Spec
<1> QED
  BY <1>1, <1>2, PTL DEF Spec, ConfigFixed

----------------------------------------------------------------------------
(* Who has a copy, when clients wait for each other, no process ends and no  *)
(* call between nodes is lost.  The name service may fail.                   *)

InTurn == Sequential /\ MaxCrashes = 0 /\ "getReplica" \notin Ops /\ "peer" \notin Faults

AllUp == \A n \in Node : up[n]

Nobody == \A n \in Node : ~has[n]

\* Only members of a keygroup that exists have a copy.
HoldersOK ==
    /\ \A n \in Node : has[n] => kgNode[n] = "ok"
    /\ kgStatus # "created" => Nobody

\* What the request in progress relies on.
TurnOK(c) ==
    /\ pc[c] \in {"clearMembers", "putOwn", "createStore"} => Nobody /\ kgStatus = "created"
    /\ pc[c] = "createStore" => kgNode[req[c].at] = "ok"
    /\ pc[c] \in {"delExists", "delMembers"} => ~has[req[c].at]
    /\ pc[c] = "delSend" => \A n \in Node : has[n] => n \in todo[c]
    /\ pc[c] = "putDeleted" => Nobody
    /\ pc[c] \in {"joinExpiry", "joinNode", "sendCreate"} => kgStatus = "created"
    /\ pc[c] = "sendCreate" => kgNode[req[c].target] = "ok"
    /\ pc[c] \in {"rmExit", "putRemoved"} => ~has[req[c].target]

TurnInv == AllUp /\ HoldersOK /\ \A c \in Client : TurnOK(c)

LEMMA StepUp ==
    ASSUME NEW c \in Client, Step(c)
    PROVE  up' = up
<1> USE DEF Inside
<1>1. CASE CreateStep(c)
  BY <1>1 DEF CreateStep, CheckFree, PutMutable, PutExpiry, PutStatus, ClearMembers, PutOwn, CreateStore
<1>2. CASE DeleteStep(c)
  BY <1>2 DEF DeleteStep, DeleteStore, Exists, OtherMembers, SendDeleteKeygroup, EndLoop, PutDeleted
<1>3. CASE AddStep(c)
  BY <1>3 DEF AddStep, Exists, JoinExpiry, JoinNode, SendCreateKeygroup, OtherMembers, Tell, EndLoop,
              ReadAll, NoSource, Copy, CopyDone
<1>4. CASE RemoveStep(c)
  BY <1>4 DEF RemoveStep, Exists, CheckMembers, SendDrop, PutRemoved
<1>5. CASE UpdateStep(c)
  BY <1>5 DEF UpdateStep, Exists, OtherMembers, SendUpdate, EndLoop, UpdateStore
<1> QED
  BY <1>1, <1>2, <1>3, <1>4, <1>5 DEF Step, NaSeFails

LEMMA NextUp ==
    ASSUME InTurn, TypeInv, AllUp, [Next]_vars
    PROVE  AllUp' /\ ~\E n \in Node : Crash(n) \/ GetReplica(n) \/ Restart(n)
<1>1. ~\E n \in Node : Crash(n) \/ GetReplica(n) \/ Restart(n)
  BY DEF InTurn, AllUp, Crash, GetReplica, Restart, TypeInv, HistoryOK
<1>2. ASSUME NEW c \in Client, NEW n \in Node, Arrive(c, n) PROVE up' = up
  BY <1>2, ArriveFacts DEF Arrived
<1> QED
  BY <1>1, <1>2, StepUp DEF Next, Finished, vars, AllUp

LEMMA CreateTurn ==
    ASSUME TypeInv, CreatesNew, HoldersOK, NEW c \in Client, TurnOK(c), CreateStep(c)
    PROVE  HoldersOK' /\ TurnOK(c)'
<1> USE DEF Inside, kgVars, storeVars
<1>0. has \in [Node -> BOOLEAN] /\ kgNode \in [Node -> {"none", "ok", "removed"}] /\ (pc[c] # "idle" => req[c].at \in Node)
  BY DEF TypeInv, ThreadsOK, StoresOK, NaSeTypeOK, ControlOK
<1>1. CASE CheckFree(c)
  <2>1. pc'[c] \in {"idle", "putMutable"}
    BY <1>1, ReturnShape, GotoShape DEF CheckFree, ReturnError
  <2> QED
    BY <1>1, <2>1 DEF CheckFree, HoldersOK, TurnOK, Nobody
<1>2. CASE PutMutable(c)
  BY <1>2, GotoShape DEF PutMutable, HoldersOK, TurnOK, Nobody
<1>3. CASE PutExpiry(c)
  BY <1>3, GotoShape DEF PutExpiry, HoldersOK, TurnOK, Nobody
<1>4. CASE PutStatus(c)
  BY <1>4, GotoShape DEF PutStatus, HoldersOK, TurnOK, Nobody, CreatesNew
<1>5. CASE ClearMembers(c)
  BY <1>5, GotoShape DEF ClearMembers, HoldersOK, TurnOK, Nobody
<1>6. CASE PutOwn(c)
  BY <1>0, <1>6, GotoShape DEF PutOwn, HoldersOK, TurnOK, Nobody, At
<1>7. CASE CreateStore(c)
  BY <1>0, <1>7, ReturnShape DEF CreateStore, ReturnError, ReturnOk, HoldersOK, TurnOK, At
<1> QED
  BY <1>1, <1>2, <1>3, <1>4, <1>5, <1>6, <1>7 DEF CreateStep

LEMMA DeleteTurn ==
    ASSUME InTurn, AllUp, TypeInv, HoldersOK, NEW c \in Client, TurnOK(c), DeleteStep(c)
    PROVE  HoldersOK' /\ TurnOK(c)'
<1> USE DEF Inside, kgVars, storeVars
<1>0. /\ has \in [Node -> BOOLEAN] /\ todo \in [Client -> SUBSET Node]
      /\ (pc[c] # "idle" => req[c].at \in Node)
  BY DEF TypeInv, ThreadsOK, StoresOK, ControlOK
<1>1. CASE DeleteStore(c)
  <2>1. CASE ReturnError(c) /\ UNCHANGED storeVars
    BY <1>1, <2>1, ReturnShape DEF DeleteStore, ReturnError, HoldersOK, TurnOK, Nobody
  <2>2. CASE Drop(At(c)) /\ Goto(c, "delExists") /\ Inside(c)
    BY <1>0, <1>1, <2>2, DropFacts, GotoShape DEF DeleteStore, HoldersOK, TurnOK, Nobody, At
  <2> QED
    BY <1>1, <2>1, <2>2 DEF DeleteStore
<1>2. CASE Exists(c, "delExists", "delMembers")
  BY <1>2, ReturnShape, GotoShape DEF Exists, ReturnError, HoldersOK, TurnOK, Nobody
<1>3. CASE OtherMembers(c, "delMembers", "delSend")
  <2>1. todo'[c] = GetKeygroupMembers(req[c].at, TRUE)
    BY <1>0, <1>3 DEF OtherMembers, At
  <2>2. \A n \in Node : has[n] => n \in todo'[c]
    BY <1>3, <2>1 DEF OtherMembers, HoldersOK, TurnOK, GetKeygroupMembers
  <2>3. pc'[c] = "delSend" /\ UNCHANGED <<kgVars, has>>
    BY <1>3, GotoShape DEF OtherMembers
  <2> QED
    BY <2>2, <2>3 DEF HoldersOK, TurnOK, Nobody
<1>4. ASSUME NEW m \in Node, SendDeleteKeygroup(c, m) PROVE HoldersOK' /\ TurnOK(c)'
  <2>1. /\ \A n \in Node : has'[n] => has[n] /\ n # m
        /\ pc[c] = "delSend" /\ UNCHANGED <<pc, kgVars>> /\ todo'[c] = todo[c] \ {m}
    <3>1. todo'[c] = todo[c] \ {m}
      BY <1>0, <1>4 DEF SendDeleteKeygroup
    <3>2. \A n \in Node : has'[n] => has[n] /\ n # m
      BY <1>4, DropFacts DEF SendDeleteKeygroup, AllUp, InTurn
    <3> QED
      BY <1>4, <3>1, <3>2 DEF SendDeleteKeygroup
  <2> QED
    BY <2>1 DEF HoldersOK, TurnOK, Nobody
<1>5. CASE EndLoop(c, "delSend", "putDeleted")
  BY <1>5, GotoShape DEF EndLoop, HoldersOK, TurnOK, Nobody
<1>6. CASE PutDeleted(c)
  BY <1>6, ReturnShape DEF PutDeleted, ReturnOk, HoldersOK, TurnOK, Nobody
<1> QED
  BY <1>1, <1>2, <1>3, <1>4, <1>5, <1>6 DEF DeleteStep

LEMMA AddTurn ==
    ASSUME TypeInv, HoldersOK, NEW c \in Client, TurnOK(c), AddStep(c)
    PROVE  HoldersOK' /\ TurnOK(c)'
<1> USE DEF Inside, kgVars, storeVars
<1>0. /\ has \in [Node -> BOOLEAN] /\ kgNode \in [Node -> {"none", "ok", "removed"}]
      /\ pc[c] \in AddLabels => req[c].target \in Node
  BY DEF TypeInv, ThreadsOK, StoresOK, NaSeTypeOK, ControlOK
\* Where the request goes on without touching the stores or the members.
<1>1. ASSUME UNCHANGED <<kgStatus, kgNode, has>>,
             pc'[c] \in {"idle", "addMembers", "tell", "snapshot", "copy"}
      PROVE  HoldersOK' /\ TurnOK(c)'
  BY <1>1 DEF HoldersOK, TurnOK, Nobody
<1>2. CASE Exists(c, "addExists", "joinExpiry")
  BY <1>2, ReturnShape, GotoShape DEF Exists, ExistsKeygroup, ReturnError, HoldersOK, TurnOK, Nobody
<1>3. CASE JoinExpiry(c)
  BY <1>3, GotoShape DEF JoinExpiry, HoldersOK, TurnOK, Nobody
<1>4. CASE JoinNode(c)
  BY <1>0, <1>4, GotoShape DEF JoinNode, HoldersOK, TurnOK, Nobody, Target, AddLabels
<1>5. CASE SendCreateKeygroup(c)
  <2>1. pc'[c] \in {"idle", "addMembers"}
    BY <1>5, ReturnShape, GotoShape DEF SendCreateKeygroup, ReturnError
  <2>2. pc[c] = "sendCreate" /\ req[c].target \in Node /\ UNCHANGED kgVars
    BY <1>0, <1>5 DEF SendCreateKeygroup, AddLabels
  <2>3. \A n \in Node : n # req[c].target => has'[n] = has[n]
    BY <1>0, <1>5, <2>2 DEF SendCreateKeygroup, Target
  <2> QED
    BY <2>1, <2>2, <2>3 DEF HoldersOK, TurnOK, Nobody
<1>6. CASE OtherMembers(c, "addMembers", "tell")
  BY <1>1, <1>6, GotoShape DEF OtherMembers
<1>7. ASSUME NEW m \in Node, Tell(c, m) PROVE HoldersOK' /\ TurnOK(c)'
  BY <1>1, <1>7, ReturnShape DEF Tell, ReturnError
<1>8. CASE EndLoop(c, "tell", "snapshot")
  BY <1>1, <1>8, GotoShape DEF EndLoop
<1>9. CASE ReadAll(c)
  BY <1>1, <1>9, ReturnShape, GotoShape DEF ReadAll, ReturnError
<1>10. CASE NoSource(c) \/ CopyDone(c)
  BY <1>1, <1>10, ReturnShape DEF NoSource, CopyDone, ReturnOk
<1>11. ASSUME NEW i \in Id, Copy(c, i) PROVE HoldersOK' /\ TurnOK(c)'
  BY <1>1, <1>11 DEF Copy
<1> QED
  BY <1>2, <1>3, <1>4, <1>5, <1>6, <1>7, <1>8, <1>9, <1>10, <1>11 DEF AddStep

LEMMA RemoveTurn ==
    ASSUME TypeInv, HoldersOK, NEW c \in Client, TurnOK(c), RemoveStep(c)
    PROVE  HoldersOK' /\ TurnOK(c)'
<1> USE DEF Inside, kgVars, storeVars
<1>0. /\ has \in [Node -> BOOLEAN] /\ kgNode \in [Node -> {"none", "ok", "removed"}]
      /\ pc[c] \in RemoveLabels => req[c].target \in Node
  BY DEF TypeInv, ThreadsOK, StoresOK, NaSeTypeOK, ControlOK
<1>1. CASE Exists(c, "rmExists", "rmMembers")
  BY <1>1, ReturnShape, GotoShape DEF Exists, ReturnError, HoldersOK, TurnOK, Nobody
<1>2. CASE CheckMembers(c)
  BY <1>2, ReturnShape, GotoShape DEF CheckMembers, ReturnError, HoldersOK, TurnOK, Nobody
<1>3. CASE SendDrop(c)
  <2>0. pc[c] = "rmSend" /\ UNCHANGED kgVars /\ req[c].target \in Node
    BY <1>0, <1>3 DEF SendDrop, RemoveLabels
  <2>1. \A n \in Node : has'[n] => has[n]
    BY <1>3, <2>0, DropFacts DEF SendDrop, Target
  <2>2. CASE ReturnError(c)
    BY <2>0, <2>1, <2>2, ReturnShape DEF ReturnError, HoldersOK, TurnOK, Nobody
  <2>3. CASE Drop(Target(c)) /\ Goto(c, "rmExit") /\ Inside(c)
    BY <2>0, <2>1, <2>3, GotoShape, DropFacts DEF HoldersOK, TurnOK, Nobody, Target
  <2> QED
    BY <1>3, <2>2, <2>3 DEF SendDrop
<1>4. CASE Exists(c, "rmExit", "putRemoved")
  BY <1>4, ReturnShape, GotoShape DEF Exists, ReturnError, HoldersOK, TurnOK, Nobody
<1>5. CASE PutRemoved(c)
  BY <1>0, <1>5, ReturnShape DEF PutRemoved, ReturnOk, ReturnError, HoldersOK, TurnOK, Nobody, Target, RemoveLabels
<1> QED
  BY <1>1, <1>2, <1>3, <1>4, <1>5 DEF RemoveStep

LEMMA NextTurn ==
    ASSUME InTurn, TypeInv, Single, CreatesNew, TurnInv, [Next]_vars
    PROVE  TurnInv'
<1>1. AllUp' /\ ~\E n \in Node : Crash(n) \/ GetReplica(n) \/ Restart(n)
  BY NextUp DEF TurnInv
<1>2. CASE UNCHANGED vars
  BY <1>1, <1>2 DEF vars, kgVars, storeVars, threadVars, TurnInv, HoldersOK, TurnOK, Nobody
<1>3. ASSUME NEW c \in Client, Step(c) PROVE HoldersOK' /\ \A d \in Client : TurnOK(d)'
  <2>1. \A d \in Client : d # c => TurnOK(d)'
    BY <1>3, OthersIdle DEF TurnOK
  <2>2. UpdateStep(c) => HoldersOK' /\ TurnOK(c)'
    BY UpdateShape DEF Proceeds, UpdateLabels, kgVars, HoldersOK, TurnOK, Nobody, TurnInv
  <2>3. NaSeFails(c) => HoldersOK' /\ TurnOK(c)'
    BY NaSeFailsShape DEF kgVars, storeVars, HoldersOK, TurnOK, Nobody, TurnInv
  <2>4. HoldersOK' /\ TurnOK(c)'
    BY <1>3, <2>2, <2>3, CreateTurn, DeleteTurn, AddTurn, RemoveTurn DEF Step, TurnInv
  <2> QED
    BY <2>1, <2>4
<1>4. ASSUME NEW c \in Client, NEW n \in Node, Arrive(c, n) PROVE HoldersOK' /\ \A d \in Client : TurnOK(d)'
  <2>1. \A d \in Client : d # c => pc'[d] = "idle"
    BY <1>4, ArriveAlone DEF InTurn
  <2>2. Arrived(c)
    BY <1>4, ArriveFacts
  <2> QED
    BY <2>1, <2>2 DEF Arrived, FirstLabels, kgVars, storeVars, HoldersOK, TurnOK, Nobody, TurnInv
<1> QED
  BY <1>1, <1>2, <1>3, <1>4 DEF Next, Finished, TurnInv

LEMMA InitTurn == Init => TurnInv
BY DEF Init, TurnInv, AllUp, HoldersOK, TurnOK, Nobody

\* If clients wait for each other, no process ends and no call between nodes is
\* lost, then with no request open exactly the members have a copy, but for the
\* nodes a failed request has named.
THEOREM CopiesWhereMembers ==
    ASSUME InTurn
    PROVE  Spec => []HoldersAreMembers
<1>1. TypeInv /\ Single /\ CreatesNew /\ TurnInv /\ [Next]_vars => Single' /\ CreatesNew' /\ TurnInv'
  BY NextSingle, NextConfig, NextTurn DEF InTurn
<1>2. Spec => [](TypeInv /\ Single /\ CreatesNew /\ TurnInv /\ HolesCovered)
  BY <1>1, InitType, InitSingle, InitTurn, InitHole, NextType, NextHole, PTL DEF Spec
<1>3. TypeInv /\ TurnInv /\ HolesCovered => HoldersAreMembers
  BY DEF TypeInv, StoresOK, TurnInv, HoldersOK, Nobody, HolesCovered, Hole, CoveredBy, HoldersAreMembers, Quiet
<1> QED
  BY <1>2, <1>3, PTL

----------------------------------------------------------------------------
(* Items of an earlier keygroup of the same name *)

Fresh(no) == no = 0 \/ no > born

\* A store without the keygroup has none of its items, and no store an old one.
StoresFresh ==
    \A n \in Node : /\ ~has[n] => items[n] = NoItems
                    /\ \A i \in Id : Fresh(items[n][i])

\* Nothing old is on its way to a store.
ThreadsFresh ==
    \A c \in Client : /\ pc[c] # "copy" => snap[c] = NoItems
                      /\ \A i \in Id : Fresh(snap[c][i])
                      /\ req[c].op = "update" => req[c].no > born

DataInv == born <= ops /\ StoresFresh /\ ThreadsFresh

LEMMA NoItemsFresh == \A i \in Id : Fresh(NoItems[i])
BY DEF NoItems, Fresh

LEMMA DropFresh ==
    ASSUME TypeInv, StoresFresh, NEW n \in Node, Drop(n), born' = born
    PROVE  StoresFresh'
BY DropFacts, NoItemsFresh DEF StoresFresh, Fresh

LEMMA PutFresh ==
    ASSUME TypeInv, StoresFresh, NEW n \in Node, NEW i \in Id, NEW no \in 0..MaxOps, Fresh(no),
           has[n], has' = has, items' = [items EXCEPT ![n][i] = no], born' = born
    PROVE  StoresFresh'
<1>1. /\ \A m \in Node : m # n => items'[m] = items[m]
      /\ \A j \in Id : items'[n][j] = IF j = i THEN no ELSE items[n][j]
  BY DEF TypeInv, StoresOK
<1> QED
  BY <1>1 DEF StoresFresh, Fresh

\* Creating the keygroup in a store, or leaving the stores alone.
LEMMA KeepFresh ==
    ASSUME StoresFresh, UNCHANGED <<items, born>>, \A n \in Node : has[n] => has'[n]
    PROVE  StoresFresh'
BY DEF StoresFresh, Fresh

LEMMA ReturnFresh ==
    ASSUME TypeInv, ThreadsFresh, NEW c \in Client, Return(c), born' = born
    PROVE  ThreadsFresh'
<1>1. /\ \A d \in Client : d # c => pc'[d] = pc[d] /\ req'[d] = req[d] /\ snap'[d] = snap[d]
      /\ snap'[c] = NoItems /\ req'[c] = NoReq
  BY DEF Return, Goto, TypeInv, ThreadsOK
<1> QED
  BY <1>1, NoItemsFresh DEF ThreadsFresh, Fresh, NoReq

LEMMA GotoFresh ==
    ASSUME TypeInv, ThreadsFresh, NEW c \in Client, NEW l, Goto(c, l), UNCHANGED <<req, snap, born>>,
           pc[c] # "copy"
    PROVE  ThreadsFresh'
BY DEF TypeInv, ThreadsOK, Goto, ThreadsFresh, Fresh

LEMMA StayFresh ==
    ASSUME ThreadsFresh, UNCHANGED <<pc, req, snap, born>>
    PROVE  ThreadsFresh'
BY DEF ThreadsFresh, Fresh

\* A new keygroup starts with no items anywhere.
LEMMA CreateFresh ==
    ASSUME TypeInv, DataInv, Single, CreatesNew, TurnInv, NEW c \in Client, CreateStep(c)
    PROVE  DataInv'
<1> USE DEF DataInv, Inside, histVars, storeVars
<1>0. has \in [Node -> BOOLEAN] /\ (pc[c] # "idle" => req[c].at \in Node)
  BY DEF TypeInv, ThreadsOK, StoresOK, ControlOK
<1>1. CASE CheckFree(c)
  BY <1>1, KeepFresh, ReturnFresh, GotoFresh DEF CheckFree, ReturnError
<1>2. CASE PutMutable(c)
  BY <1>2, KeepFresh, GotoFresh DEF PutMutable
<1>3. CASE PutExpiry(c)
  BY <1>3, KeepFresh, GotoFresh DEF PutExpiry
<1>4. CASE PutStatus(c)
  <2>1. /\ \A n \in Node : ~has[n] /\ items[n] = NoItems
        /\ UNCHANGED <<has, items, req, snap, ops>> /\ born' = ops
    BY <1>4 DEF PutStatus, CreatesNew, TurnInv, HoldersOK, Nobody, StoresFresh
  <2>2. \A d \in Client : snap[d] = NoItems /\ req[d].op # "update"
    BY <1>4 DEF PutStatus, Single, ThreadsFresh, TypeInv, ControlOK, CreateLabels, NoReq
  <2>3. StoresFresh'
    BY <2>1 DEF StoresFresh, Fresh, NoItems
  <2>4. ThreadsFresh'
    BY <2>1, <2>2 DEF ThreadsFresh, Fresh, NoItems
  <2> QED
    BY <2>1, <2>3, <2>4 DEF TypeInv, HistoryOK
<1>5. CASE ClearMembers(c)
  BY <1>5, KeepFresh, GotoFresh DEF ClearMembers
<1>6. CASE PutOwn(c)
  BY <1>6, KeepFresh, GotoFresh DEF PutOwn
<1>7. CASE CreateStore(c)
  BY <1>0, <1>7, KeepFresh, ReturnFresh DEF CreateStore, ReturnError, ReturnOk, At
<1> QED
  BY <1>1, <1>2, <1>3, <1>4, <1>5, <1>6, <1>7 DEF CreateStep

LEMMA DeleteFresh ==
    ASSUME TypeInv, DataInv, NEW c \in Client, DeleteStep(c)
    PROVE  DataInv'
<1> USE DEF DataInv, Inside, histVars, storeVars
<1>0. pc[c] # "idle" => req[c].at \in Node
  BY DEF TypeInv, ControlOK
<1>1. CASE DeleteStore(c)
  <2>1. CASE ReturnError(c) /\ UNCHANGED storeVars
    BY <1>1, <2>1, KeepFresh, ReturnFresh DEF DeleteStore, ReturnError
  <2>2. CASE Drop(At(c)) /\ Goto(c, "delExists") /\ UNCHANGED snap /\ Inside(c)
    BY <1>0, <1>1, <2>2, DropFresh, GotoFresh DEF DeleteStore, At
  <2> QED
    BY <1>1, <2>1, <2>2 DEF DeleteStore
<1>2. CASE Exists(c, "delExists", "delMembers")
  BY <1>2, KeepFresh, ReturnFresh, GotoFresh DEF Exists, ReturnError
<1>3. CASE OtherMembers(c, "delMembers", "delSend")
  BY <1>3, KeepFresh, GotoFresh DEF OtherMembers
<1>4. ASSUME NEW m \in Node, SendDeleteKeygroup(c, m) PROVE DataInv'
  <2>1. StoresFresh'
    BY <1>4, KeepFresh, DropFresh DEF SendDeleteKeygroup
  <2> QED
    BY <1>4, <2>1, StayFresh DEF SendDeleteKeygroup
<1>5. CASE EndLoop(c, "delSend", "putDeleted")
  BY <1>5, KeepFresh, GotoFresh DEF EndLoop
<1>6. CASE PutDeleted(c)
  BY <1>6, KeepFresh, ReturnFresh DEF PutDeleted, ReturnOk
<1> QED
  BY <1>1, <1>2, <1>3, <1>4, <1>5, <1>6 DEF DeleteStep

LEMMA AddFresh ==
    ASSUME TypeInv, DataInv, NEW c \in Client, AddStep(c)
    PROVE  DataInv'
<1> USE DEF DataInv, Inside, histVars, storeVars
<1>0. /\ has \in [Node -> BOOLEAN] /\ snap \in [Client -> [Id -> 0..MaxOps]]
      /\ pc[c] \in AddLabels => req[c].target \in Node
  BY DEF TypeInv, ThreadsOK, StoresOK, ControlOK
<1>1. CASE Exists(c, "addExists", "joinExpiry")
  BY <1>1, KeepFresh, ReturnFresh, GotoFresh DEF Exists, ReturnError
<1>2. CASE JoinExpiry(c) \/ JoinNode(c)
  BY <1>2, KeepFresh, GotoFresh DEF JoinExpiry, JoinNode
<1>3. CASE SendCreateKeygroup(c)
  <2>1. UNCHANGED <<items, born, ops>> /\ \A n \in Node : has[n] => has'[n]
    BY <1>0, <1>3 DEF SendCreateKeygroup, ReturnError, AddLabels, Target
  <2> QED
    BY <1>3, <2>1, KeepFresh, ReturnFresh, GotoFresh DEF SendCreateKeygroup, ReturnError
<1>4. CASE OtherMembers(c, "addMembers", "tell")
  BY <1>4, KeepFresh, GotoFresh DEF OtherMembers
<1>5. ASSUME NEW m \in Node, Tell(c, m) PROVE DataInv'
  BY <1>5, KeepFresh, ReturnFresh, StayFresh DEF Tell, ReturnError
<1>6. CASE EndLoop(c, "tell", "snapshot")
  BY <1>6, KeepFresh, GotoFresh DEF EndLoop
<1>7. CASE ReadAll(c)
  <2>1. StoresFresh' /\ UNCHANGED <<born, ops>>
    BY <1>7, KeepFresh DEF ReadAll, ReturnError
  <2>2. ASSUME NEW src \in Sources(c), snap' = [snap EXCEPT ![c] = items[src]], Goto(c, "copy"), Inside(c)
        PROVE  ThreadsFresh'
    <3>1. src \in Node
      BY <2>2, <1>7 DEF Sources, GetNodeWithBiggerExpiry, GetKeygroupMembers, At, ReadAll, TypeInv, ControlOK
    <3>2. /\ snap'[c] = items[src] /\ \A d \in Client : d # c => snap'[d] = snap[d]
          /\ pc'[c] = "copy" /\ \A d \in Client : d # c => pc'[d] = pc[d]
      BY <1>0, <2>2 DEF Goto, TypeInv, ThreadsOK
    <3> QED
      BY <2>2, <3>1, <3>2 DEF ThreadsFresh, StoresFresh, Fresh
  <2> QED
    BY <1>7, <2>1, <2>2, ReturnFresh DEF ReadAll, ReturnError
<1>8. CASE NoSource(c) \/ CopyDone(c)
  BY <1>8, KeepFresh, ReturnFresh DEF NoSource, CopyDone, ReturnOk
<1>9. ASSUME NEW i \in Id, Copy(c, i) PROVE DataInv'
  <2>0. pc[c] = "copy" /\ req[c].target \in Node /\ snap[c][i] \in 0..MaxOps /\ Fresh(snap[c][i])
    BY <1>0, <1>9 DEF Copy, AddLabels, ThreadsFresh
  <2>1. StoresFresh'
    BY <1>9, <2>0, SendItemFacts, PutFresh, KeepFresh DEF Copy, Target
  <2>2. \A d \in Client, j \in Id : snap'[d][j] = snap[d][j] \/ snap'[d][j] = 0
    BY <1>0, <1>9 DEF Copy
  <2>3. \A d \in Client : d # c => snap'[d] = snap[d]
    BY <1>0, <1>9 DEF Copy
  <2>4. ThreadsFresh'
    BY <1>9, <2>0, <2>2, <2>3 DEF Copy, ThreadsFresh, Fresh
  <2> QED
    BY <1>9, <2>1, <2>4 DEF Copy
<1> QED
  BY <1>1, <1>2, <1>3, <1>4, <1>5, <1>6, <1>7, <1>8, <1>9 DEF AddStep

LEMMA RemoveFresh ==
    ASSUME TypeInv, DataInv, NEW c \in Client, RemoveStep(c)
    PROVE  DataInv'
<1> USE DEF DataInv, Inside, histVars, storeVars
<1>0. pc[c] \in RemoveLabels => req[c].target \in Node
  BY DEF TypeInv, ControlOK
<1>1. CASE Exists(c, "rmExists", "rmMembers") \/ Exists(c, "rmExit", "putRemoved")
  BY <1>1, KeepFresh, ReturnFresh, GotoFresh DEF Exists, ReturnError
<1>2. CASE CheckMembers(c)
  BY <1>2, KeepFresh, ReturnFresh, GotoFresh DEF CheckMembers, ReturnError
<1>3. CASE SendDrop(c)
  <2>1. ThreadsFresh' /\ UNCHANGED <<born, ops>>
    BY <1>3, ReturnFresh, GotoFresh DEF SendDrop, ReturnError
  <2>2. StoresFresh'
    BY <1>0, <1>3, <2>1, KeepFresh, DropFresh DEF SendDrop, Target, RemoveLabels
  <2> QED
    BY <2>1, <2>2
<1>4. CASE PutRemoved(c)
  BY <1>4, KeepFresh, ReturnFresh DEF PutRemoved, ReturnOk, ReturnError
<1> QED
  BY <1>1, <1>2, <1>3, <1>4 DEF RemoveStep

LEMMA UpdateFresh ==
    ASSUME TypeInv, DataInv, NEW c \in Client, UpdateStep(c)
    PROVE  DataInv'
<1> USE DEF DataInv, Inside, histVars, storeVars
<1>0. pc[c] \in UpdateLabels => /\ req[c].id \in Id /\ req[c].at \in Node
                                /\ req[c].no \in 0..MaxOps /\ Fresh(req[c].no)
  BY DEF TypeInv, ControlOK, ThreadsOK, Requests, ThreadsFresh, Fresh, UpdateLabels
<1>1. CASE Exists(c, "updExists", "updMembers")
  BY <1>1, KeepFresh, ReturnFresh, GotoFresh DEF Exists, ReturnError
<1>2. CASE OtherMembers(c, "updMembers", "updSend")
  BY <1>2, KeepFresh, GotoFresh DEF OtherMembers
<1>3. ASSUME NEW m \in Node, SendUpdate(c, m) PROVE DataInv'
  <2>1. StoresFresh'
    BY <1>0, <1>3, SendItemFacts, PutFresh, KeepFresh DEF SendUpdate, UpdateLabels
  <2> QED
    BY <1>3, <2>1, StayFresh DEF SendUpdate
<1>4. CASE EndLoop(c, "updSend", "updStore")
  BY <1>4, KeepFresh, GotoFresh DEF EndLoop
<1>5. CASE UpdateStore(c)
  <2>1. ThreadsFresh' /\ UNCHANGED <<born, ops>>
    BY <1>5, ReturnFresh DEF UpdateStore, ReturnError, ReturnOk
  <2>2. StoresFresh'
    BY <1>0, <1>5, <2>1, PutFresh, KeepFresh DEF UpdateStore, UpdateLabels, At
  <2> QED
    BY <2>1, <2>2
<1> QED
  BY <1>1, <1>2, <1>3, <1>4, <1>5 DEF UpdateStep

LEMMA NextFresh ==
    ASSUME InTurn, TypeInv, Single, CreatesNew, TurnInv, DataInv, [Next]_vars
    PROVE  DataInv'
<1>1. CASE UNCHANGED vars
  BY <1>1, KeepFresh, StayFresh DEF vars, storeVars, threadVars, histVars, DataInv
<1>2. ASSUME NEW c \in Client, NaSeFails(c) PROVE DataInv'
  BY <1>2, KeepFresh, ReturnFresh DEF NaSeFails, ReturnError, storeVars, DataInv
<1>3. ASSUME NEW c \in Client, NEW n \in Node, Arrive(c, n) PROVE DataInv'
  <2>1. TypeInv' /\ Arrived(c)
    BY <1>3, ArriveFacts
  <2>2. born' = born /\ ops' = ops + 1 /\ StoresFresh' /\ snap' = snap
    BY <2>1, KeepFresh DEF Arrived, storeVars, histVars, DataInv
  <2>3. req'[c].op = "update" => req'[c].no > born
    <3>1. req'[c].op = "update" => pc'[c] = "updExists"
      BY <2>1 DEF Arrived, FirstLabels, TypeInv, ControlOK, CreateLabels, DeleteLabels, AddLabels, RemoveLabels
    <3> QED
      BY <2>1, <3>1 DEF Arrived, DataInv, TypeInv, HistoryOK
  <2>4. ThreadsFresh'
    BY <2>1, <2>2, <2>3 DEF Arrived, FirstLabels, DataInv, ThreadsFresh, Fresh
  <2> QED
    BY <2>2, <2>4 DEF DataInv, TypeInv, HistoryOK
<1>4. ~\E n \in Node : Crash(n) \/ GetReplica(n) \/ Restart(n)
  BY NextUp DEF TurnInv
<1> QED
  BY <1>1, <1>2, <1>3, <1>4, CreateFresh, DeleteFresh, AddFresh, RemoveFresh, UpdateFresh
     DEF Next, Step, Finished

LEMMA InitFresh == Init => DataInv
BY DEF Init, DataInv, StoresFresh, ThreadsFresh, Fresh, NoItems, NoReq

\* Under the same conditions no member ever has an item of a deleted keygroup of
\* the same name.
THEOREM NothingFromBefore ==
    ASSUME InTurn
    PROVE  Spec => []NoOldData
<1>1. TypeInv /\ Single /\ CreatesNew /\ TurnInv /\ DataInv /\ [Next]_vars =>
         Single' /\ CreatesNew' /\ TurnInv' /\ DataInv'
  BY NextSingle, NextConfig, NextTurn, NextFresh DEF InTurn
<1>2. Spec => [](TypeInv /\ Single /\ CreatesNew /\ TurnInv /\ DataInv)
  BY <1>1, InitType, InitSingle, InitTurn, InitFresh, NextType, PTL DEF Spec
<1>3. DataInv => NoOldData
  BY DEF DataInv, StoresFresh, Fresh, NoOldData, GetKeygroupMembers
<1> QED
  BY <1>2, <1>3, PTL

----------------------------------------------------------------------------
(* Every member is up to speed, when besides nothing fails at all and only   *)
(* nodes that have a copy are asked to add another one.                      *)

Calm == InTurn /\ Faults = {} /\ ~Strangers

Deleting == {"delExists", "delMembers", "delSend", "putDeleted"}
Founding == {"clearMembers", "putOwn", "createStore"}
Copying == {"addMembers", "tell", "snapshot", "copy"}

\* n has every update a client was told of.
Level(n) == \A i \in Id : items[n][i] >= latest[i]

\* The stores and the members, as the request of c sees them: whoever has a copy
\* is level or just being copied to, every member has a copy or is about to get
\* one or to go, and somebody has a copy of a keygroup that is not just
\* created or deleted.
PlacesOK(c) ==
    /\ \A n \in Node : has[n] => Level(n) \/ (pc[c] \in Copying /\ req[c].target = n)
    /\ kgStatus = "created" =>
          /\ \A n \in Node : kgNode[n] = "ok" => has[n] \/ CoveredBy(c, n)
          /\ (\E n \in Node : has[n]) \/ pc[c] \in Deleting \cup Founding

\* What an update, and what a change of the members relies on.
WritesOK(c) ==
    /\ pc[c] \in UpdateLabels => req[c].no <= ops /\ \A i \in Id : latest[i] <= req[c].no
    /\ pc[c] = "updSend" => \A n \in Node : has[n] /\ n # req[c].at =>
                                n \in todo[c] \/ items[n][req[c].id] >= req[c].no
    /\ pc[c] = "updStore" => \A n \in Node : has[n] /\ n # req[c].at => items[n][req[c].id] >= req[c].no
    /\ pc[c] = "copy" => \A i \in Id : IF snap[c][i] = 0 THEN items[req[c].target][i] >= latest[i]
                                       ELSE snap[c][i] >= latest[i]

ChangesOK(c) ==
    /\ pc[c] \in Deleting \cup {"rmMembers", "rmSend", "rmExit", "putRemoved"} => kgStatus = "created"
    /\ pc[c] \in AddLabels => req[c].at = req[c].target \/ has[req[c].at]
    /\ pc[c] \in Copying => has[req[c].target]
    /\ pc[c] \in Copying \cup {"rmSend", "rmExit", "putRemoved"} => \E n \in Node : n # req[c].target /\ has[n]
    /\ pc[c] \in Founding => \A i \in Id : latest[i] = 0
    /\ req[c].expiry <= MaxInt32

CalmInv ==
    /\ \A i \in Id : latest[i] <= ops
    /\ \A n \in Node : kgExpiry[n] <= MaxInt32
    /\ \A c \in Client : WritesOK(c) /\ ChangesOK(c)
    /\ \A c \in Client : (\A d \in Client : d # c => pc[d] = "idle") => PlacesOK(c)
    /\ Quiet => \A n \in Node : /\ has[n] => Level(n)
                                /\ kgStatus = "created" /\ kgNode[n] = "ok" => has[n]

CalmAt(c) ==
    /\ \A i \in Id : latest[i] <= ops
    /\ \A n \in Node : kgExpiry[n] <= MaxInt32
    /\ WritesOK(c) /\ ChangesOK(c) /\ PlacesOK(c)

LEMMA LeastNatural ==
    ASSUME NEW D \in SUBSET Nat, D # {}
    PROVE  \E x \in D : \A y \in D : x <= y
<1> DEFINE R == {ss \in Nat \X Nat : ss[1] < ss[2]}
<1>1. IsWellFoundedOn(R, Nat)
  BY NatLessThanWellFounded, Zenon DEF OpToRel
<1>2. \A x, y \in Nat : <<y, x>> \in R <=> y < x
  OBVIOUS
<1> HIDE DEF R
<1>3. PICK x \in D : \A y \in D : ~(<<y, x>> \in R)
  BY <1>1, WFMin, Zenon
<1>4. \A y \in D : ~(y < x)
  BY <1>2, <1>3, Zenon
<1>5. x \in Nat /\ \A y \in D : y \in Nat
  OBVIOUS
<1>6. \A y \in D : x <= y
  BY <1>4, <1>5
<1> QED
  BY <1>6

\* Among members there is one with the highest expiry.
LEMMA HighestExists ==
    ASSUME TypeInv, \A n \in Node : kgExpiry[n] <= MaxInt32, NEW T, T \subseteq Node, T # {}
    PROVE  \E n \in T : \A m \in T : Rank(kgExpiry[m]) <= Rank(kgExpiry[n])
<1> DEFINE depth(n) == MaxInt32 - Rank(kgExpiry[n])
           D == {depth(n) : n \in T}
<1>1. \A n \in T : depth(n) \in Nat /\ Rank(kgExpiry[n]) \in Nat
  BY DEF TypeInv, NaSeTypeOK, Rank, MaxInt32
<1>2. D \in SUBSET Nat /\ D # {}
  BY <1>1
<1>3. PICK x \in D : \A y \in D : x <= y
  BY <1>2, LeastNatural
<1>4. PICK n \in T : x = depth(n)
  BY <1>3
<1>5. \A m \in T : depth(n) <= depth(m)
  BY <1>3, <1>4
<1>6. \A m \in T : Rank(kgExpiry[m]) <= Rank(kgExpiry[n])
  BY <1>1, <1>5 DEF MaxInt32
<1> QED
  BY <1>6

LEMMA CreateCalm ==
    ASSUME TypeInv, CreatesNew, TurnInv, DataInv, NEW c \in Client, CalmAt(c), CreateStep(c)
    PROVE  CalmAt(c)'
<1> USE DEF Inside, kgVars, storeVars, histVars
<1> USE DEF CalmAt, WritesOK, ChangesOK, PlacesOK, CoveredBy, Deleting, Founding, Copying, AddLabels, UpdateLabels
<1>0. /\ has \in [Node -> BOOLEAN] /\ kgNode \in [Node -> {"none", "ok", "removed"}]
      /\ kgExpiry \in [Node -> Nat] /\ (pc[c] # "idle" => req[c].at \in Node)
      /\ latest \in [Id -> 0..MaxOps] /\ items \in [Node -> [Id -> 0..MaxOps]] /\ ops \in 0..MaxOps
  BY DEF TypeInv, ThreadsOK, StoresOK, NaSeTypeOK, ControlOK, HistoryOK
<1>r. NoReq.expiry <= MaxInt32
  BY DEF NoReq, MaxInt32
<1>1. CASE CheckFree(c)
  <2>1. CASE ReturnError(c)
    <3>1. /\ pc[c] = "checkFree" /\ pc'[c] = "idle" /\ req'[c] = NoReq
          /\ UNCHANGED <<kgVars, has, items, latest, ops>>
      BY <1>1, <2>1 DEF CheckFree, ReturnError, Return, Goto, TypeInv, ThreadsOK
    <3> QED
      BY <3>1, <1>r DEF Level
  <2>2. CASE Goto(c, "putMutable") /\ Inside(c)
    BY <1>1, <2>2, GotoShape DEF CheckFree, Level
  <2> QED
    BY <1>1, <2>1, <2>2 DEF CheckFree
<1>2. CASE PutMutable(c)
  BY <1>2, GotoShape DEF PutMutable, Level
<1>3. CASE PutExpiry(c)
  <2>1. /\ pc[c] = "putExpiry" /\ pc'[c] = "putStatus" /\ UNCHANGED <<kgStatus, kgNode, has, items, latest, ops, req>>
        /\ \A n \in Node : kgExpiry'[n] <= MaxInt32
    BY <1>0, <1>3, GotoShape DEF PutExpiry, At
  <2> QED
    BY <2>1 DEF Level
<1>4. CASE PutStatus(c)
  <2>1. /\ pc[c] = "putStatus" /\ pc'[c] = "clearMembers" /\ UNCHANGED <<kgNode, kgExpiry, has, items, ops, req>>
        /\ \A i \in Id : latest'[i] = 0
    BY <1>4, GotoShape DEF PutStatus, NoItems
  <2>2. Nobody
    BY <1>4 DEF PutStatus, CreatesNew, TurnInv, HoldersOK
  <2> QED
    BY <1>0, <2>1, <2>2 DEF Level, Nobody
<1>5. CASE ClearMembers(c)
  BY <1>5, GotoShape DEF ClearMembers, Level
<1>6. CASE PutOwn(c)
  <2>1. /\ pc[c] = "putOwn" /\ pc'[c] = "createStore" /\ UNCHANGED <<kgStatus, kgExpiry, has, items, latest, ops, req>>
        /\ \A n \in Node : n # req[c].at => kgNode'[n] = kgNode[n]
    BY <1>0, <1>6, GotoShape DEF PutOwn, At
  <2> QED
    BY <2>1 DEF Level
<1>7. CASE CreateStore(c)
  <2>1. pc[c] = "createStore" /\ req[c].at \in Node /\ ~has[req[c].at] /\ items[req[c].at] = NoItems
    BY <1>0, <1>7 DEF CreateStore, TurnInv, TurnOK, Nobody, DataInv, StoresFresh
  <2>2. /\ pc'[c] = "idle" /\ req'[c] = NoReq /\ UNCHANGED <<kgVars, items, ops>>
        /\ has' = [has EXCEPT ![req[c].at] = TRUE] /\ latest' = latest
    BY <1>7, <2>1 DEF CreateStore, ReturnOk, Return, Goto, TypeInv, ThreadsOK, At, ControlOK, CreateLabels
  <2>3. \A n \in Node : Level(n)' <=> Level(n)
    BY <2>2 DEF Level
  <2>4. Level(req[c].at)
    BY <1>0, <2>1 DEF Level
  <2>5. \A n \in Node : has'[n] <=> has[n] \/ n = req[c].at
    BY <1>0, <2>1, <2>2
  <2>6. PlacesOK(c)'
    BY <2>1, <2>2, <2>3, <2>4, <2>5
  <2> QED
    BY <2>2, <2>6, <1>r
<1> QED
  BY <1>1, <1>2, <1>3, <1>4, <1>5, <1>6, <1>7 DEF CreateStep

LEMMA NoReqExpiry == NoReq.expiry <= MaxInt32
BY DEF NoReq, MaxInt32

\* A request that ends without having changed anything this step.
LEMMA ReturnCalm ==
    ASSUME TypeInv, NEW c \in Client, CalmAt(c), Return(c), UNCHANGED <<kgVars, has, items, latest, ops>>,
           pc[c] \notin Deleting \cup Founding \cup Copying,
           pc[c] \in {"sendCreate", "rmExit", "putRemoved"} => has[req[c].target]
    PROVE  CalmAt(c)'
<1>1. pc'[c] = "idle" /\ req'[c] = NoReq
  BY DEF Return, Goto, TypeInv, ThreadsOK
<1>2. \A n \in Node : Level(n)' <=> Level(n)
  BY DEF Level
<1>3. PlacesOK(c)'
  BY <1>1, <1>2 DEF CalmAt, PlacesOK, kgVars, CoveredBy, Deleting, Founding
<1>4. WritesOK(c)' /\ ChangesOK(c)'
  BY <1>1, NoReqExpiry DEF WritesOK, ChangesOK, UpdateLabels, AddLabels, Deleting, Founding, Copying
<1> QED
  BY <1>3, <1>4 DEF CalmAt, kgVars

LEMMA DeleteCalm ==
    ASSUME Calm, TypeInv, TurnInv, NEW c \in Client, CalmAt(c), DeleteStep(c)
    PROVE  CalmAt(c)'
<1> USE DEF Inside, kgVars, storeVars, histVars
<1> USE DEF CalmAt, WritesOK, ChangesOK, PlacesOK, CoveredBy, Deleting, Founding, Copying, AddLabels, UpdateLabels
<1>0. /\ has \in [Node -> BOOLEAN] /\ todo \in [Client -> SUBSET Node]
      /\ (pc[c] # "idle" => req[c].at \in Node)
  BY DEF TypeInv, ThreadsOK, StoresOK, ControlOK
<1>1. CASE DeleteStore(c)
  <2>1. CASE ReturnError(c) /\ UNCHANGED storeVars
    BY <1>1, <2>1, ReturnCalm DEF DeleteStore, ReturnError
  <2>2. CASE has[At(c)] /\ Drop(At(c)) /\ Goto(c, "delExists") /\ Inside(c)
    <3>1. /\ pc[c] = "deleteStore" /\ pc'[c] = "delExists" /\ UNCHANGED <<kgVars, latest, ops, req>>
          /\ \A n \in Node : has'[n] => has[n] /\ items'[n] = items[n]
          /\ kgStatus = "created"
      BY <1>0, <1>1, <2>2, GotoShape, DropFacts DEF DeleteStore, At, TurnInv, HoldersOK, Nobody
    <3> QED
      BY <3>1 DEF Level
  <2> QED
    BY <1>1, <2>1, <2>2 DEF DeleteStore
<1>2. CASE Exists(c, "delExists", "delMembers")
  <2>1. pc[c] = "delExists" /\ pc'[c] = "delMembers" /\ UNCHANGED <<kgVars, has, items, latest, ops, req>>
    BY <1>2, GotoShape DEF Exists, ExistsKeygroup
  <2> QED
    BY <2>1 DEF Level
<1>3. CASE OtherMembers(c, "delMembers", "delSend")
  <2>1. pc[c] = "delMembers" /\ pc'[c] = "delSend" /\ UNCHANGED <<kgVars, has, items, latest, ops, req>>
    BY <1>3, GotoShape DEF OtherMembers
  <2> QED
    BY <2>1 DEF Level
<1>4. ASSUME NEW m \in Node, SendDeleteKeygroup(c, m) PROVE CalmAt(c)'
  <2>1. pc[c] = "delSend" /\ UNCHANGED <<pc, kgVars, latest, ops, req>>
    BY <1>4 DEF SendDeleteKeygroup
  <2>2. \A n \in Node : has'[n] => has[n] /\ items'[n] = items[n]
    BY <1>4, DropFacts DEF SendDeleteKeygroup
  <2> QED
    BY <2>1, <2>2 DEF Level
<1>5. CASE EndLoop(c, "delSend", "putDeleted")
  <2>1. pc[c] = "delSend" /\ pc'[c] = "putDeleted" /\ UNCHANGED <<kgVars, has, items, latest, ops, req>>
    BY <1>5, GotoShape DEF EndLoop
  <2> QED
    BY <2>1 DEF Level
<1>6. CASE PutDeleted(c)
  <2>1. /\ pc[c] = "putDeleted" /\ pc'[c] = "idle" /\ req'[c] = NoReq /\ kgStatus' = "deleted"
        /\ UNCHANGED <<kgExpiry, has, items, latest, ops>>
    BY <1>6 DEF PutDeleted, ReturnOk, Return, Goto, TypeInv, ThreadsOK, ControlOK, DeleteLabels
  <2> QED
    BY <2>1, NoReqExpiry DEF Level
<1> QED
  BY <1>1, <1>2, <1>3, <1>4, <1>5, <1>6 DEF DeleteStep

LEMMA RemoveCalm ==
    ASSUME Calm, TypeInv, TurnInv, NEW c \in Client, CalmAt(c), RemoveStep(c)
    PROVE  CalmAt(c)'
<1> USE DEF Inside, kgVars, storeVars, histVars
<1> USE DEF CalmAt, WritesOK, ChangesOK, PlacesOK, CoveredBy, Deleting, Founding, Copying, AddLabels, UpdateLabels
<1>0. /\ has \in [Node -> BOOLEAN] /\ kgNode \in [Node -> {"none", "ok", "removed"}]
      /\ pc[c] \in RemoveLabels => req[c].target \in Node
  BY DEF TypeInv, ThreadsOK, StoresOK, NaSeTypeOK, ControlOK
<1>1. CASE Exists(c, "rmExists", "rmMembers")
  <2>1. CASE ReturnError(c)
    BY <1>1, <2>1, ReturnCalm DEF Exists, ReturnError
  <2>2. CASE ExistsKeygroup /\ Goto(c, "rmMembers") /\ Inside(c)
    <3>1. /\ pc[c] = "rmExists" /\ pc'[c] = "rmMembers" /\ UNCHANGED <<kgVars, has, items, latest, ops, req>>
          /\ kgStatus = "created"
      BY <1>1, <2>2, GotoShape DEF Exists, ExistsKeygroup
    <3> QED
      BY <3>1 DEF Level
  <2> QED
    BY <1>1, <2>1, <2>2 DEF Exists
<1>2. CASE CheckMembers(c)
  <2>1. CASE ReturnError(c)
    BY <1>2, <2>1, ReturnCalm DEF CheckMembers, ReturnError
  <2>2. CASE Removable(Target(c)) /\ Goto(c, "rmSend") /\ Inside(c)
    <3>1. pc[c] = "rmMembers" /\ pc'[c] = "rmSend" /\ UNCHANGED <<kgVars, has, items, latest, ops, req>>
      BY <1>2, <2>2, GotoShape DEF CheckMembers
    <3>2. PICK n \in Node : n # req[c].target /\ kgNode[n] = "ok"
      BY <1>0, <2>2, <3>1, AnotherMember DEF Target, RemoveLabels
    <3>3. has[n]
      BY <3>1, <3>2
    <3> QED
      BY <3>1, <3>2, <3>3 DEF Level
  <2> QED
    BY <1>2, <2>1, <2>2 DEF CheckMembers
<1>3. CASE SendDrop(c)
  <2>1. CASE ReturnError(c) /\ UNCHANGED storeVars
    BY <1>3, <2>1, ReturnCalm DEF SendDrop, ReturnError
  <2>2. CASE Drop(Target(c)) /\ Goto(c, "rmExit") /\ Inside(c)
    <3>1. /\ pc[c] = "rmSend" /\ pc'[c] = "rmExit" /\ UNCHANGED <<kgVars, latest, ops, req>>
          /\ \A n \in Node : n # req[c].target => has'[n] = has[n] /\ items'[n] = items[n]
          /\ ~has'[req[c].target]
      BY <1>0, <1>3, <2>2, GotoShape, DropFacts DEF SendDrop, Target, RemoveLabels
    <3> QED
      BY <3>1 DEF Level
  <2> QED
    BY <1>3, <2>1, <2>2 DEF SendDrop, Calm
<1>4. CASE Exists(c, "rmExit", "putRemoved")
  <2>1. pc[c] = "rmExit" /\ pc'[c] = "putRemoved" /\ UNCHANGED <<kgVars, has, items, latest, ops, req>>
    BY <1>4, GotoShape DEF Exists, ExistsKeygroup
  <2> QED
    BY <2>1 DEF Level
<1>5. CASE PutRemoved(c)
  <2>1. /\ pc[c] = "putRemoved" /\ pc'[c] = "idle" /\ req'[c] = NoReq /\ req[c].target \in Node
        /\ UNCHANGED <<kgStatus, kgExpiry, has, items, latest, ops>>
        /\ \A n \in Node : kgNode'[n] = IF n = req[c].target THEN "removed" ELSE kgNode[n]
    BY <1>0, <1>5 DEF PutRemoved, ReturnOk, ReturnError, Return, Goto, TypeInv, ThreadsOK, ControlOK, RemoveLabels, Target
  <2> QED
    BY <2>1, NoReqExpiry DEF Level
<1> QED
  BY <1>1, <1>2, <1>3, <1>4, <1>5 DEF RemoveStep

\* An update is told to its client when every member has it.
LEMMA UpdateCalm ==
    ASSUME Calm, TypeInv, TurnInv, NEW c \in Client, CalmAt(c), UpdateStep(c)
    PROVE  CalmAt(c)'
<1> USE DEF Inside, kgVars, storeVars, histVars
<1> USE DEF CalmAt, WritesOK, ChangesOK, PlacesOK, CoveredBy, Deleting, Founding, Copying, AddLabels, UpdateLabels
<1>0. /\ pc[c] \in UpdateLabels => /\ req[c].id \in Id /\ req[c].at \in Node /\ req[c].no \in 0..MaxOps
                                   /\ req[c].op = "update"
      /\ has \in [Node -> BOOLEAN] /\ todo \in [Client -> SUBSET Node]
      /\ latest \in [Id -> 0..MaxOps] /\ items \in [Node -> [Id -> 0..MaxOps]] /\ ops \in 0..MaxOps
  BY DEF TypeInv, ControlOK, ThreadsOK, StoresOK, HistoryOK, Requests
<1>1. CASE Exists(c, "updExists", "updMembers")
  <2>1. CASE ReturnError(c)
    BY <1>1, <2>1, ReturnCalm DEF Exists, ReturnError
  <2>2. CASE Goto(c, "updMembers") /\ Inside(c)
    <3>1. pc[c] = "updExists" /\ pc'[c] = "updMembers" /\ UNCHANGED <<kgVars, has, items, latest, ops, req>>
      BY <1>1, <2>2, GotoShape DEF Exists
    <3> QED
      BY <3>1 DEF Level
  <2> QED
    BY <1>1, <2>1, <2>2 DEF Exists
<1>2. CASE OtherMembers(c, "updMembers", "updSend")
  <2>1. pc[c] = "updMembers" /\ pc'[c] = "updSend" /\ UNCHANGED <<kgVars, has, items, latest, ops, req>>
    BY <1>2, GotoShape DEF OtherMembers
  <2>2. todo'[c] = GetKeygroupMembers(req[c].at, TRUE)
    BY <1>0, <1>2 DEF OtherMembers, At
  <2>3. \A n \in Node : has[n] /\ n # req[c].at => n \in todo'[c]
    BY <2>2 DEF TurnInv, HoldersOK, GetKeygroupMembers
  <2> QED
    BY <2>1, <2>3 DEF Level
<1>3. ASSUME NEW m \in Node, SendUpdate(c, m) PROVE CalmAt(c)'
  <2>1. /\ pc[c] = "updSend" /\ UNCHANGED <<pc, kgVars, has, latest, ops, req>>
        /\ todo'[c] = todo[c] \ {m}
    BY <1>0, <1>3 DEF SendUpdate
  <2>2. \/ has[m] /\ items' = [items EXCEPT ![m][req[c].id] = req[c].no]
        \/ ~has[m] /\ items' = items
    BY <1>0, <1>3, <2>1, SendItemFacts DEF SendUpdate, Calm, TurnInv, AllUp
  <2>3. \A n \in Node, i \in Id : items'[n][i] = IF has[m] /\ n = m /\ i = req[c].id THEN req[c].no ELSE items[n][i]
    BY <1>0, <2>2
  <2>4. \A n \in Node : Level(n) => Level(n)'
    BY <1>0, <2>1, <2>3 DEF Level
  <2>5. PlacesOK(c)'
    BY <2>1, <2>4
  <2>6. \A n \in Node : has[n] /\ n # req[c].at => n \in todo'[c] \/ items'[n][req[c].id] >= req[c].no
    <3> SUFFICES ASSUME NEW n \in Node, has[n], n # req[c].at, n \notin todo'[c]
                 PROVE  items'[n][req[c].id] >= req[c].no
      OBVIOUS
    <3>1. CASE n = m
      BY <1>0, <2>1, <2>3, <3>1
    <3>2. CASE n # m
      BY <1>0, <2>1, <2>3, <3>2
    <3> QED
      BY <3>1, <3>2
  <2> QED
    BY <2>1, <2>5, <2>6
<1>4. CASE EndLoop(c, "updSend", "updStore")
  <2>1. /\ pc[c] = "updSend" /\ pc'[c] = "updStore" /\ todo[c] = {}
        /\ UNCHANGED <<kgVars, has, items, latest, ops, req>>
    BY <1>4, GotoShape DEF EndLoop
  <2> QED
    BY <2>1 DEF Level
<1>5. CASE UpdateStore(c)
  <2>1. CASE ReturnError(c) /\ UNCHANGED items
    BY <1>5, <2>1, ReturnCalm DEF UpdateStore, ReturnError
  <2>2. CASE items' = [items EXCEPT ![At(c)][req[c].id] = req[c].no] /\ ReturnOk(c, {})
    <3>1. /\ pc[c] = "updStore" /\ pc'[c] = "idle" /\ req'[c] = NoReq
          /\ UNCHANGED <<kgVars, has, ops>>
      BY <1>5, <2>2 DEF UpdateStore, ReturnOk, Return, Goto, TypeInv, ThreadsOK
    <3>2. \A i \in Id : latest'[i] = IF i = req[c].id /\ req[c].no > latest[i] THEN req[c].no ELSE latest[i]
      BY <1>0, <2>2, <3>1, ReturnOkFacts
    <3>3. \A n \in Node, i \in Id : items'[n][i] = IF n = req[c].at /\ i = req[c].id THEN req[c].no ELSE items[n][i]
      BY <1>0, <2>2, <3>1 DEF At
    <3>4. \A n \in Node : has[n] => Level(n)'
      <4> SUFFICES ASSUME NEW n \in Node, has[n], NEW i \in Id PROVE items'[n][i] >= latest'[i]
        BY DEF Level
      <4>1. items[n][i] >= latest[i]
        BY <3>1 DEF Level
      <4>2. i = req[c].id /\ n # req[c].at => items[n][i] >= req[c].no
        BY <3>1
      <4>3. /\ items[n][i] \in Nat /\ latest[i] \in Nat /\ req[c].no \in Nat /\ latest[i] <= req[c].no
            /\ req[c].id \in Id /\ req[c].at \in Node
        BY <1>0, <3>1
      <4> QED
        BY <3>2, <3>3, <4>1, <4>2, <4>3
    <3>5. \A i \in Id : latest'[i] <= ops
      BY <1>0, <3>1, <3>2
    <3>6. PlacesOK(c)'
      BY <3>1, <3>4
    <3> QED
      BY <3>1, <3>5, <3>6, NoReqExpiry
  <2> QED
    BY <1>5, <2>1, <2>2 DEF UpdateStore
<1> QED
  BY <1>1, <1>2, <1>3, <1>4, <1>5 DEF UpdateStep

\* A node that joins from nobody would be an error; there is always a source.
LEMMA SourceFound ==
    ASSUME TypeInv, TurnInv, NEW c \in Client, CalmAt(c), pc[c] = "snapshot"
    PROVE  /\ Sources(c) # {}
           /\ \A src \in Sources(c) : src \in Node /\ src # req[c].target /\ has[src] /\ up[src] /\ Level(src)
<1>0. /\ req[c].at \in Node /\ req[c].target \in Node /\ (req[c].at = req[c].target \/ has[req[c].at])
      /\ \A n \in Node : kgExpiry[n] <= MaxInt32
  BY DEF TypeInv, ControlOK, AddLabels, CalmAt, ChangesOK
<1>1. PICK n \in Node : n # req[c].target /\ has[n]
  BY DEF CalmAt, ChangesOK, Copying
<1>2. kgStatus = "created"
  BY <1>1 DEF TurnInv, HoldersOK, Nobody
<1>3. \A m \in Node : kgNode[m] = "ok" => has[m]
  BY <1>2 DEF CalmAt, PlacesOK, CoveredBy
<1>4. \A m \in Node : has[m] /\ m # req[c].target => up[m] /\ Level(m)
  BY DEF CalmAt, PlacesOK, TurnInv, AllUp
<1>5. CASE req[c].at # req[c].target
  BY <1>0, <1>4, <1>5 DEF Sources, At, Target
<1>6. CASE req[c].at = req[c].target
  <2> DEFINE others == GetKeygroupMembers(req[c].at, TRUE)
  <2>1. n \in others /\ \A m \in others : m \in Node /\ m # req[c].target /\ kgNode[m] = "ok"
    BY <1>1, <1>6 DEF GetKeygroupMembers, TurnInv, HoldersOK
  <2>2. Sources(c) = {m \in others : \A l \in others : Rank(kgExpiry[l]) <= Rank(kgExpiry[m])}
    BY <1>6 DEF Sources, At, Target, GetNodeWithBiggerExpiry
  <2> HIDE DEF others
  <2>3. \E m \in others : \A l \in others : Rank(kgExpiry[l]) <= Rank(kgExpiry[m])
    BY <1>0, <2>1, HighestExists
  <2>4. Sources(c) # {} /\ Sources(c) \subseteq others
    BY <2>2, <2>3
  <2> QED
    BY <1>3, <1>4, <2>1, <2>4
<1> QED
  BY <1>5, <1>6

\* A new member is given what another one has before the client is answered.
LEMMA AddCalm ==
    ASSUME Calm, TypeInv, TurnInv, DataInv, NEW c \in Client, CalmAt(c), AddStep(c)
    PROVE  CalmAt(c)'
<1> USE DEF Inside, kgVars, storeVars, histVars
<1> USE DEF CalmAt, WritesOK, ChangesOK, PlacesOK, CoveredBy, Deleting, Founding, Copying, AddLabels, UpdateLabels
<1>0. /\ has \in [Node -> BOOLEAN] /\ kgNode \in [Node -> {"none", "ok", "removed"}]
      /\ kgExpiry \in [Node -> Nat] /\ snap \in [Client -> [Id -> 0..MaxOps]]
      /\ latest \in [Id -> 0..MaxOps] /\ items \in [Node -> [Id -> 0..MaxOps]]
      /\ pc[c] \in AddLabels => req[c].target \in Node /\ req[c].at \in Node
  BY DEF TypeInv, ThreadsOK, StoresOK, HistoryOK, NaSeTypeOK, ControlOK
<1>1. CASE Exists(c, "addExists", "joinExpiry")
  <2>1. CASE ReturnError(c)
    BY <1>1, <2>1, ReturnCalm DEF Exists, ReturnError
  <2>2. CASE Goto(c, "joinExpiry") /\ Inside(c)
    <3>1. pc[c] = "addExists" /\ pc'[c] = "joinExpiry" /\ UNCHANGED <<kgVars, has, items, latest, ops, req>>
      BY <1>1, <2>2, GotoShape DEF Exists
    <3> QED
      BY <3>1 DEF Level
  <2> QED
    BY <1>1, <2>1, <2>2 DEF Exists
<1>2. CASE JoinExpiry(c)
  <2>1. /\ pc[c] = "joinExpiry" /\ pc'[c] = "joinNode" /\ UNCHANGED <<kgStatus, kgNode, has, items, latest, ops, req>>
        /\ \A n \in Node : kgExpiry'[n] <= MaxInt32
    BY <1>0, <1>2, GotoShape DEF JoinExpiry, Target
  <2> QED
    BY <2>1 DEF Level
<1>3. CASE JoinNode(c)
  <2>1. /\ pc[c] = "joinNode" /\ pc'[c] = "sendCreate"
        /\ UNCHANGED <<kgStatus, kgExpiry, has, items, latest, ops, req>>
        /\ \A n \in Node : n # req[c].target => kgNode'[n] = kgNode[n]
    BY <1>0, <1>3, GotoShape DEF JoinNode, Target
  <2> QED
    BY <2>1 DEF Level
<1>4. CASE SendCreateKeygroup(c)
  <2>1. CASE has[req[c].target]
    BY <1>4, <2>1, ReturnCalm DEF SendCreateKeygroup, Target, ReturnError
  <2>2. CASE ~has[req[c].target]
    <3>1. /\ pc[c] = "sendCreate" /\ pc'[c] = "addMembers" /\ UNCHANGED <<kgVars, items, latest, ops, req>>
          /\ has' = [has EXCEPT ![req[c].target] = TRUE] /\ req[c].target \in Node
      BY <1>0, <1>4, <2>2, GotoShape DEF SendCreateKeygroup, Target, Calm, TurnInv, AllUp
    <3>2. \A n \in Node : has'[n] <=> has[n] \/ n = req[c].target
      BY <1>0, <3>1
    <3>3. \E n \in Node : n # req[c].target /\ has[n]
      BY <2>2, <3>1 DEF TurnInv, TurnOK
    <3>4. PlacesOK(c)'
      BY <3>1, <3>2 DEF Level
    <3> QED
      BY <3>1, <3>2, <3>3, <3>4
  <2> QED
    BY <2>1, <2>2
<1>5. CASE OtherMembers(c, "addMembers", "tell")
  <2>1. pc[c] = "addMembers" /\ pc'[c] = "tell" /\ UNCHANGED <<kgVars, has, items, latest, ops, req>>
    BY <1>5, GotoShape DEF OtherMembers
  <2> QED
    BY <2>1 DEF Level
<1>6. ASSUME NEW m \in Node, Tell(c, m) PROVE CalmAt(c)'
  <2>1. pc[c] = "tell" /\ UNCHANGED <<pc, kgVars, has, items, latest, ops, req>>
    BY <1>0, <1>6 DEF Tell, Calm, TurnInv, AllUp, Target
  <2> QED
    BY <2>1 DEF Level
<1>7. CASE EndLoop(c, "tell", "snapshot")
  <2>1. pc[c] = "tell" /\ pc'[c] = "snapshot" /\ UNCHANGED <<kgVars, has, items, latest, ops, req>>
    BY <1>7, GotoShape DEF EndLoop
  <2> QED
    BY <2>1 DEF Level
<1>8. CASE ReadAll(c)
  <2>1. PICK src \in Sources(c) :
           /\ snap' = [snap EXCEPT ![c] = items[src]] /\ Goto(c, "copy") /\ Inside(c)
           /\ src \in Node /\ Level(src)
    BY <1>8, SourceFound DEF ReadAll, Calm
  <2>2. /\ pc[c] = "snapshot" /\ pc'[c] = "copy" /\ UNCHANGED <<kgVars, has, items, latest, ops, req>>
        /\ snap'[c] = items[src]
    BY <1>0, <1>8, <2>1, GotoShape DEF ReadAll
  <2>3. \A i \in Id : IF snap'[c][i] = 0 THEN items[req[c].target][i] >= latest[i]
                      ELSE snap'[c][i] >= latest[i]
    BY <1>0, <2>1, <2>2 DEF Level
  <2>4. PlacesOK(c)'
    BY <2>2 DEF Level
  <2> QED
    BY <2>2, <2>3, <2>4
<1>9. CASE NoSource(c)
  BY <1>9, SourceFound DEF NoSource, Calm
<1>10. ASSUME NEW i \in Id, Copy(c, i) PROVE CalmAt(c)'
  <2>1. /\ pc[c] = "copy" /\ UNCHANGED <<pc, kgVars, has, latest, ops, req>> /\ req[c].target \in Node
        /\ snap[c][i] \in 0..MaxOps /\ snap[c][i] # 0 /\ snap[c][i] >= latest[i] /\ has[req[c].target]
    BY <1>0, <1>10 DEF Copy
  <2>2. items' = [items EXCEPT ![req[c].target][i] = snap[c][i]]
    BY <1>10, <2>1, SendItemFacts DEF Copy, Calm, TurnInv, AllUp, Target
  <2>3. /\ \A n \in Node : n # req[c].target => items'[n] = items[n]
        /\ \A j \in Id : items'[req[c].target][j] = IF j = i THEN snap[c][i] ELSE items[req[c].target][j]
        /\ \A j \in Id : snap'[c][j] = IF j = i THEN 0 ELSE snap[c][j]
    BY <1>0, <1>10, <2>1, <2>2 DEF Copy
  <2>4. \A j \in Id : IF snap'[c][j] = 0 THEN items'[req[c].target][j] >= latest[j]
                      ELSE snap'[c][j] >= latest[j]
    BY <2>1, <2>3
  <2>5. PlacesOK(c)'
    BY <2>1, <2>3 DEF Level
  <2> QED
    BY <2>1, <2>4, <2>5
<1>11. CASE CopyDone(c)
  <2>1. /\ pc[c] = "copy" /\ snap[c] = NoItems /\ pc'[c] = "idle" /\ req'[c] = NoReq
        /\ UNCHANGED <<kgVars, has, items, latest, ops>>
    BY <1>11 DEF CopyDone, ReturnOk, Return, Goto, TypeInv, ThreadsOK, ControlOK
  <2>2. Level(req[c].target)
    BY <2>1 DEF Level, NoItems
  <2>3. \A n \in Node : has[n] => Level(n)'
    BY <2>1, <2>2 DEF Level
  <2>4. PlacesOK(c)'
    BY <2>1, <2>3
  <2> QED
    BY <2>1, <2>4, NoReqExpiry
<1> QED
  BY <1>1, <1>2, <1>3, <1>4, <1>5, <1>6, <1>7, <1>8, <1>9, <1>10, <1>11 DEF AddStep

\* With no request open it does not matter whose request PlacesOK is about.
LEMMA IdlePlaces ==
    ASSUME NEW c \in Client, pc[c] = "idle", PlacesOK(c)
    PROVE  /\ \A d \in Client : pc[d] = "idle" => PlacesOK(d)
           /\ \A n \in Node : /\ has[n] => Level(n)
                              /\ kgStatus = "created" /\ kgNode[n] = "ok" => has[n]
BY DEF PlacesOK, CoveredBy, Copying, Deleting, Founding

LEMMA CalmStep ==
    ASSUME NEW c \in Client, CalmAt(c)', \A d \in Client : d # c => pc'[d] = "idle" /\ req'[d] = NoReq
    PROVE  CalmInv'
<1>1. \A d \in Client : WritesOK(d)' /\ ChangesOK(d)'
  BY NoReqExpiry DEF CalmAt, WritesOK, ChangesOK, UpdateLabels, AddLabels, Deleting, Founding, Copying
<1>2. ASSUME NEW d \in Client, \A e \in Client : e # d => pc'[e] = "idle" PROVE PlacesOK(d)'
  <2>1. CASE d = c
    BY <2>1 DEF CalmAt
  <2>2. CASE d # c
    BY <1>2, <2>2 DEF CalmAt, PlacesOK, CoveredBy, Copying, Deleting, Founding
  <2> QED
    BY <2>1, <2>2
<1>3. Quiet' => \A n \in Node : /\ has'[n] => Level(n)'
                                /\ kgStatus' = "created" /\ kgNode'[n] = "ok" => has'[n]
  BY DEF Quiet, CalmAt, PlacesOK, CoveredBy, Copying, Deleting, Founding
<1> QED
  BY <1>1, <1>2, <1>3 DEF CalmInv, CalmAt

LEMMA NextCalm ==
    ASSUME Calm, TypeInv, Single, CreatesNew, TurnInv, DataInv, CalmInv, [Next]_vars
    PROVE  CalmInv'
<1>1. CASE UNCHANGED vars
  BY <1>1 DEF vars, kgVars, storeVars, threadVars, histVars, CalmInv, WritesOK, ChangesOK, PlacesOK,
              CoveredBy, Level, Quiet
<1>2. ASSUME NEW c \in Client, Step(c) PROVE CalmInv'
  <2>1. \A d \in Client : d # c => pc[d] = "idle" /\ pc'[d] = "idle" /\ req'[d] = NoReq
    BY <1>2, OthersIdle, StepShape DEF Alone, TypeInv, ControlOK
  <2>2. CalmAt(c)
    BY <2>1 DEF CalmInv, CalmAt
  <2>3. ~NaSeFails(c)
    BY DEF NaSeFails, Calm
  <2>4. CalmAt(c)'
    BY <1>2, <2>2, <2>3, CreateCalm, DeleteCalm, AddCalm, RemoveCalm, UpdateCalm DEF Step
  <2> QED
    BY <2>1, <2>4, CalmStep
<1>3. ASSUME NEW c \in Client, NEW n \in Node, Arrive(c, n) PROVE CalmInv'
  <2>1. /\ \A d \in Client : pc[d] = "idle" /\ (d # c => pc'[d] = "idle" /\ req'[d] = NoReq)
        /\ TypeInv' /\ Arrived(c)
    BY <1>3, ArriveAlone, ArriveFacts DEF Arrived, Calm, InTurn, TypeInv, ControlOK
  <2>2. /\ UNCHANGED <<kgVars, has, items, latest>> /\ ops' = ops + 1 /\ pc'[c] \in FirstLabels
        /\ ops \in Nat /\ \A i \in Id : latest[i] \in Nat
    BY <2>1 DEF Arrived, storeVars, histVars, TypeInv, HistoryOK
  <2>3. PlacesOK(c)
    BY <2>1 DEF CalmInv
  <2>4. PlacesOK(c)'
    BY <2>1, <2>2, <2>3 DEF PlacesOK, CoveredBy, Level, Copying, Deleting, Founding, FirstLabels, kgVars
  <2>5. \A i \in Id : latest'[i] <= ops'
    BY <2>2 DEF CalmInv
  <2>6. WritesOK(c)'
    BY <2>1, <2>2, <2>5 DEF WritesOK, FirstLabels, UpdateLabels, Arrived
  <2>7. req'[c].expiry <= MaxInt32
    <3>1. req \in [Client -> Requests]
      BY DEF TypeInv, ThreadsOK
    <3>2. \E e \in Expiries \cup {0} : req'[c].expiry = e
      BY <1>3, <3>1 DEF Arrive, CreateKeygroup, DeleteKeygroup, AddReplica, RemoveReplica, Update, NoReq
    <3>3. 0 <= MaxInt32 /\ MaxInt32 \in Nat
      BY DEF MaxInt32
    <3> QED
      BY <3>2, <3>3, KeygroupsAssumption
  <2>8. ChangesOK(c)'
    BY <2>1, <2>2, <2>7 DEF ChangesOK, FirstLabels, AddLabels, Copying, Deleting, Founding, Arrived,
                            Calm, At, Target
  <2> QED
    BY <2>1, <2>2, <2>4, <2>5, <2>6, <2>8, CalmStep DEF CalmAt, CalmInv, kgVars
<1>4. ~\E n \in Node : Crash(n) \/ GetReplica(n) \/ Restart(n)
  BY NextUp DEF TurnInv, Calm
<1> QED
  BY <1>1, <1>2, <1>3, <1>4 DEF Next, Finished

LEMMA InitCalm == Init => CalmInv
<1> SUFFICES ASSUME Init PROVE CalmInv
  OBVIOUS
<1>1. /\ \A i \in Id : latest[i] = 0 /\ \A n \in Node : items[n][i] = 0
      /\ \A n \in Node : kgExpiry[n] = 0 /\ (has[n] <=> n \in Members) /\ (kgNode[n] = "ok" <=> n \in Members)
      /\ \A c \in Client : pc[c] = "idle" /\ req[c] = NoReq
      /\ kgStatus = "created" => Members # {}
  BY DEF Init, NoItems
<1>2. \A c \in Client : WritesOK(c) /\ ChangesOK(c)
  BY <1>1, NoReqExpiry DEF WritesOK, ChangesOK, UpdateLabels, AddLabels, Deleting, Founding, Copying
<1>3. \A n \in Node : Level(n)
  BY <1>1 DEF Level
<1>4. \A c \in Client : PlacesOK(c)
  BY <1>1, <1>3, KeygroupsAssumption DEF PlacesOK
<1>5. (\A i \in Id : latest[i] <= ops) /\ \A n \in Node : kgExpiry[n] <= MaxInt32
  BY <1>1 DEF Init, MaxInt32
<1> QED
  BY <1>1, <1>2, <1>3, <1>4, <1>5 DEF CalmInv

\* When clients wait for each other and nothing fails, every member has every
\* update a client was told of, however the members change in between.
THEOREM MembersUpToSpeed ==
    ASSUME Calm
    PROVE  Spec => []UpToSpeed
<1>1. TypeInv /\ Single /\ CreatesNew /\ TurnInv /\ DataInv /\ CalmInv /\ [Next]_vars =>
         Single' /\ CreatesNew' /\ TurnInv' /\ DataInv' /\ CalmInv'
  BY NextSingle, NextConfig, NextTurn, NextFresh, NextCalm DEF Calm, InTurn
<1>2. Spec => [](TypeInv /\ Single /\ CreatesNew /\ TurnInv /\ DataInv /\ CalmInv)
  BY <1>1, InitType, InitSingle, InitTurn, InitFresh, InitCalm, NextType, PTL DEF Spec
<1>3. CalmInv => UpToSpeed
  BY DEF CalmInv, UpToSpeed, Level, GetKeygroupMembers
<1> QED
  BY <1>2, <1>3, PTL
============================================================================
