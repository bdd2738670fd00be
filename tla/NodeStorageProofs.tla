-------------------------- MODULE NodeStorageProofs --------------------------
(***************************************************************************)
(* Proofs about NodeStorage: with every storage a node can be started      *)
(* with, types are kept, what a deletion found is gone for good, what is   *)
(* left behind has one of two explanations, and reads see what was         *)
(* written; identifiers are not given out twice, unless by DynamoDB.  For  *)
(* any number of calls, keys, triggers and crashes.                        *)
(***************************************************************************)
EXTENDS NodeStorage, KeygroupStoreProofs

----------------------------------------------------------------------------
(* The inductive invariant, in parts *)

\* What the node knows of a call is true.
ViewOK ==
    /\ view \in [Call -> {"none", "waiting", "answered", "abandoned"}]
    /\ \A c \in Call : /\ view[c] = "waiting" => pc[c] # "none"
                       /\ view[c] = "answered" => pc[c] \in {"done", "failed"}

\* The storages that run BadgerDB.
LocalInv == TypeInv /\ DeleteInv /\ NumberInv /\ ReadInv

\* With DynamoDB: the methods that read, and those whose writes they see.
Getter == {"read", "readAll", "getTrigger"}
Putter == {"update", "addTrigger"}

\* All replicas of the table have what w wrote.
Settling(w) == w = lastBy => prev = Table

\* A late replica lacks only what the last call to change the table wrote, and has
\* too much only what it removed; the calls known to have ended are everywhere.
LateOK ==
    /\ \A e \in entries : e \in prev.entries \/ e[2] = lastBy
    /\ prev.config /\ ~config => lastBy \in Call /\ op[lastBy] = "deleteKeygroup"
    /\ \A c, d \in Call : d \in before[c] => Settling(d)
    /\ \A w \in Call : Settled(w, Putter) /\ Settling(w) => prev.config

\* A set of numbers in which every part has a largest.
Bounded(N) == \A S \in SUBSET N : S # {} => \E x \in S : \A y \in S : x >= y
NumbersOf(E) == {e[1][2] : e \in {f \in E : f[1][1] = "item"}}

TableOK ==
    /\ prev \in [config : BOOLEAN, entries : SUBSET (Slot \X Call)]
    /\ Bounded(NumbersOf(entries)) /\ Bounded(NumbersOf(prev.entries))

\* Only items expire.
ExpiredOK == \A e \in expired : e[1][1] = "item"

\* A write is found unless it has expired.
KeptOK == StoredOK(Putter, expired) /\ FoundOK(Getter, Putter, expired) /\ ExpiredOK

DynamoInv ==
    /\ DeleteInv
    /\ KeptOK
    /\ LateOK /\ TableOK

StorageInv ==
    /\ ViewOK
    /\ adaptor \in {"badgerdb", "memory", "remote", "dynamo"}
    /\ adaptor # "dynamo" => LocalInv
    /\ adaptor = "dynamo" => DynamoInv

----------------------------------------------------------------------------
(* BadgerDB, in the node or at a storage server: whatever the steps of the   *)
(* storage, for its state they are one of these                              *)

Beginning(c, o, s) == \E B \in SUBSET Call : (\A d \in B : pc[d] \in Ended) /\ BeginAfter(c, o, s, B)

Usual ==
    \/ \E c \in Call, o \in Ops : \E s \in Arguments(o) : Beginning(c, o, s)
    \/ \E c \in Call : Step(c)
    \/ \E L \in SUBSET Call : Losing(L)
    \/ UNCHANGED vars

LEMMA LocalKept ==
    ASSUME LocalInv, Usual
    PROVE  LocalInv'
<1> USE DEF LocalInv
<1>1. CASE \E c \in Call, o \in Ops : \E s \in Arguments(o) : Beginning(c, o, s)
  <2>0. PICK c \in Call, o \in Ops : \E s \in Arguments(o) : Beginning(c, o, s)
    BY <1>1
  <2>1. PICK s \in Arguments(o), B \in SUBSET Call :
              (\A d \in B : pc[d] \in Ended) /\ BeginAfter(c, o, s, B)
    BY <2>0 DEF Beginning
  <2>2. TypeInv'
    BY <2>1, BeginType
  <2>3. PlaceInv'
    BY <2>2 DEF TypeInv, PlaceInv, ControlOK, PlacedOK, Stands
  <2>4. DeleteInv' /\ NumberInv'
    BY <2>1, <2>2, <2>3, BeginDelete, BeginNumbers
  <2>5. ReadInv'
    BY <2>1, TypePlaces, BeginReads DEF ReadInv
  <2> QED
    BY <2>2, <2>4, <2>5
<1>2. CASE \E c \in Call : Step(c)
  <2>1. PICK c \in Call : Step(c)
    BY <1>2
  <2>2. TypeInv'
    BY <2>1, NextTypeInv DEF Next
  <2>3. PlaceInv'
    BY <2>2 DEF TypeInv, PlaceInv, ControlOK, PlacedOK, Stands
  <2>4. DeleteInv' /\ NumberInv' /\ ReadInv'
    BY <2>1, <2>2, <2>3, StepWorks, WorkingDelete, StepNumbers, StepReads
  <2> QED
    BY <2>2, <2>4
<1>3. CASE \E L \in SUBSET Call : Losing(L)
  <2>1. PICK L \in SUBSET Call : Losing(L)
    BY <1>3
  <2>2. TypeInv'
    BY <2>1, LosingType
  <2>3. PlaceInv'
    BY <2>2 DEF TypeInv, PlaceInv, ControlOK, PlacedOK, Stands
  <2>4. DeleteInv' /\ NumberInv' /\ ReadInv'
    BY <2>1, <2>2, <2>3, LosingDelete, LosingNumbers, LosingReads DEF ReadInv
  <2> QED
    BY <2>2, <2>4
<1>4. CASE UNCHANGED vars
  <2>1. TypeInv'
    BY <1>4, NextTypeInv
  <2>2. PlaceInv'
    BY <2>1 DEF TypeInv, PlaceInv, ControlOK, PlacedOK, Stands
  <2>3. DeleteInv' /\ NumberInv' /\ ReadInv'
    BY <1>4, <2>1, <2>2, SameDelete, SameNumbers, SameReads DEF ReadInv, vars, seqVars, callVars
  <2> QED
    BY <2>1, <2>3
<1> QED
  BY <1>1, <1>2, <1>3, <1>4 DEF Usual

\* Of abandoned calls, those that are lost were running.
LEMMA UndeliveredLoses ==
    ASSUME PlaceInv, NEW C \in SUBSET Call, \A c \in C : pc[c] # "none", Undelivered(C),
           crashes' \in 0..MaxCrashes,
           UNCHANGED <<config, entries, seqVars, callVars, todo, seq, got>>
    PROVE  \E L \in SUBSET Call : Losing(L)
<1>1. PICK U \in SUBSET {c \in C : pc[c] = FirstStep(op[c])} :
         pc' = [c \in Call |-> IF c \in U \/ (c \in C /\ pc[c] \in Asking) THEN "lost" ELSE pc[c]]
  BY DEF Undelivered
<1> DEFINE L == {c \in Call : c \in U \/ (c \in C /\ pc[c] \in Asking)}
<1>2. ASSUME NEW c \in L PROVE pc[c] \notin Ended \cup {"none"}
  <2>1. CASE c \in U
    <3>1. op[c] \in Op
      BY <2>1 DEF PlaceInv, TypeOK, PlacedOK, Placed
    <3> QED
      BY <2>1, <3>1, FirstStepFacts DEF Ended
  <2>2. CASE c \notin U
    BY <2>2 DEF Asking, Ended
  <2> QED
    BY <2>1, <2>2
<1>3. pc' = [c \in Call |-> IF c \in L THEN "lost" ELSE pc[c]]
  BY <1>1
<1>4. L \subseteq Running
  BY <1>2 DEF Running
<1> HIDE DEF L
<1>5. Losing(L)
  BY <1>3, <1>4 DEF Losing, seqVars
<1> QED
  BY <1>4, <1>5 DEF Running

LEMMA RemoteCases ==
    ASSUME TypeInv, ViewOK, RemoteStep
    PROVE  Usual /\ ViewOK'
<1>1. CASE \E c \in Call : ServerStep(c)
  <2>1. PICK c \in Call : Step(c) /\ UNCHANGED view
    BY <1>1 DEF ServerStep, ServerItem, ServerKeygroup, ServerTrigger, Step
  <2>2. Moving(c)
    BY <2>1, TypePlaces, StepMoves
  <2>3. ViewOK'
    BY <2>1, <2>2 DEF ViewOK, Moving, Ended
  <2> QED
    BY <2>1, <2>3 DEF Usual
<1>2. CASE \E c \in Call : RemoteAnswer(c)
  <2>1. PICK c \in Call : RemoteAnswer(c)
    BY <1>2
  <2>2. ViewOK'
    BY <2>1 DEF ViewOK, RemoteAnswer, vars
  <2> QED
    BY <2>1, <2>2 DEF Usual, RemoteAnswer
<1>3. CASE \E c \in Call : Unavailable(c)
  <2>1. PICK c \in Call : Unavailable(c)
    BY <1>3
  <2>2. \E L \in SUBSET Call : Losing(L)
    <3>1. crashes' \in 0..MaxCrashes
      BY <2>1 DEF Unavailable, TypeInv, TypeOK
    <3> QED
      BY <2>1, <3>1, TypePlaces, UndeliveredLoses DEF Unavailable, ViewOK
  <2>3. ViewOK'
    BY <2>1, <2>2 DEF ViewOK, Unavailable, Losing, Running, Ended
  <2> QED
    BY <2>2, <2>3 DEF Usual
<1>4. CASE \E C \in SUBSET Call : MachineCrash(C)
  <2>1. PICK C \in SUBSET Call : MachineCrash(C)
    BY <1>4
  <2>2. \E L \in SUBSET Call : Losing(L)
    <3>1. crashes' \in 0..MaxCrashes
      BY <2>1, SmallFacts DEF MachineCrash, TypeInv, TypeOK
    <3> QED
      BY <2>1, <3>1, TypePlaces, UndeliveredLoses DEF MachineCrash, ViewOK
  <2>3. ViewOK'
    BY <2>1, <2>2 DEF ViewOK, MachineCrash, Losing, Running, Ended
  <2> QED
    BY <2>2, <2>3 DEF Usual
<1>5. CASE ServerCrash
  <2>1. PICK L \in SUBSET Call : Losing(L) /\ UNCHANGED view
    BY <1>5, StopLoses DEF ServerCrash, Running, TypeInv
  <2>2. ViewOK'
    BY <2>1 DEF ViewOK, Losing, Running, Ended
  <2> QED
    BY <2>1, <2>2 DEF Usual
<1> QED
  BY <1>1, <1>2, <1>3, <1>4, <1>5 DEF RemoteStep

LEMMA RemoteBeginCases ==
    ASSUME TypeInv, ViewOK, NEW c \in Call, NEW o \in Ops, NEW s \in Arguments(o),
           RemoteBegin(c, o, s)
    PROVE  Beginning(c, o, s) /\ ViewOK'
<1>1. RemoteCall(c, o, s)
  BY DEF RemoteBegin, RemoteItem, RemoteKeygroup, RemoteTrigger
<1>2. Beginning(c, o, s)
  BY <1>1 DEF RemoteCall, Beginning, ViewOK, Ended
<1>3. ViewOK'
  BY <1>1 DEF RemoteCall, BeginAfter, Goto, ViewOK, TypeInv, TypeOK
<1> QED
  BY <1>2, <1>3

\* A step of these storages.
LEMMA LocalCases ==
    ASSUME TypeInv, ViewOK, adaptor \in {"badgerdb", "memory", "remote"}, [StorageNext]_storageVars
    PROVE  Usual /\ ViewOK' /\ adaptor' = adaptor
<1>1. CASE UNCHANGED storageVars
  BY <1>1 DEF Usual, ViewOK, storageVars, vars
<1>2. CASE BadgerStep
  <2>1. CASE \E c \in Call : Step(c)
    <3>1. PICK c \in Call : Step(c) /\ Moving(c)
      BY <2>1, TypePlaces, StepMoves
    <3>2. ViewOK'
      BY <1>2, <3>1 DEF BadgerStep, ViewOK, Moving, Ended
    <3> QED
      BY <1>2, <3>1, <3>2 DEF BadgerStep, Usual
  <2>2. CASE Crash
    <3>1. PICK L \in SUBSET Call : Losing(L)
      BY <2>2, StopLoses DEF Crash, Running, TypeInv
    <3>2. ViewOK'
      BY <1>2, <3>1 DEF BadgerStep, ViewOK, Losing, Running, Ended
    <3> QED
      BY <1>2, <3>1, <3>2 DEF BadgerStep, Usual
  <2> QED
    BY <1>2, <2>1, <2>2 DEF BadgerStep
<1>3. CASE RemoteStorage
  BY <1>3, RemoteCases DEF RemoteStorage
<1>4. ASSUME NEW c \in Call, NEW o \in Ops, NEW s \in Arguments(o), StorageBegin(c, o, s)
      PROVE  Usual /\ ViewOK' /\ adaptor' = adaptor
  <2>1. CASE adaptor \in {"badgerdb", "memory"}
    <3>1. Begin(c, o, s) /\ UNCHANGED <<view, adaptor>>
      BY <1>4, <2>1 DEF StorageBegin
    <3>2. Beginning(c, o, s)
      BY <3>1 DEF Begin, Beginning
    <3>3. ViewOK'
      BY <3>1 DEF Begin, BeginAfter, Goto, ViewOK, TypeInv, TypeOK
    <3> QED
      BY <3>1, <3>2, <3>3 DEF Usual
  <2>2. CASE adaptor = "remote"
    <3>1. RemoteBegin(c, o, s) /\ UNCHANGED adaptor
      BY <1>4, <2>2 DEF StorageBegin
    <3> QED
      BY <3>1, RemoteBeginCases DEF Usual
  <2> QED
    BY <2>1, <2>2
<1> QED
  BY <1>1, <1>2, <1>3, <1>4 DEF StorageNext, AllEnded, DynamoStorage

----------------------------------------------------------------------------
(* The numbers DynamoDB's Append looks at *)

LEMMA BoundedLess ==
    ASSUME NEW M, NEW N, Bounded(N), M \subseteq N
    PROVE  Bounded(M)
BY DEF Bounded

LEMMA BoundedMore ==
    ASSUME NEW N, N \subseteq Nat, Bounded(N), NEW z \in Nat
    PROVE  Bounded(N \cup {z})
<1> SUFFICES ASSUME NEW S \in SUBSET (N \cup {z}), S # {}
             PROVE  \E x \in S : \A y \in S : x >= y
  BY DEF Bounded
<1> DEFINE T == S \ {z}
<1>1. CASE T = {}
  <2>1. z \in S /\ \A y \in S : y = z
    BY <1>1
  <2> QED
    BY <2>1
<1>2. CASE T # {}
  <2>1. T \in SUBSET N
    OBVIOUS
  <2> HIDE DEF T
  <2>2. PICK x \in T : \A y \in T : x >= y
    BY <1>2, <2>1 DEF Bounded
  <2> USE DEF T
  <2>3. x \in Nat /\ x \in S /\ \A y \in S : y = z \/ (y \in Nat /\ x >= y)
    BY <2>1, <2>2
  <2>4. CASE z \notin S \/ x >= z
    BY <2>3, <2>4
  <2>5. CASE z \in S /\ ~(x >= z)
    BY <2>3, <2>5
  <2> QED
    BY <2>4, <2>5
<1> QED
  BY <1>1, <1>2

LEMMA NumbersFacts ==
    ASSUME NEW E, E \subseteq Slot \X Call
    PROVE  NumbersOf(E) \subseteq Nat
<1> SUFFICES ASSUME NEW e \in E, e[1][1] = "item" PROVE e[1][2] \in Nat
  BY DEF NumbersOf
<1>1. e[1] \in Slot
  OBVIOUS
<1> QED
  BY <1>1 DEF Slot

\* The table grows by one entry at most.
LEMMA NumbersGrow ==
    ASSUME NEW E, E \subseteq Slot \X Call, NEW F, NEW s \in Slot, NEW c,
           F \subseteq E \cup {<<s, c>>}, Bounded(NumbersOf(E))
    PROVE  Bounded(NumbersOf(F))
<1>1. CASE s[1] = "item"
  <2>1. s[2] \in Nat
    BY <1>1 DEF Slot
  <2>2. NumbersOf(F) \subseteq NumbersOf(E) \cup {s[2]}
    BY DEF NumbersOf
  <2>3. NumbersOf(E) \subseteq Nat
    BY NumbersFacts
  <2>4. Bounded(NumbersOf(E) \cup {s[2]})
    BY <2>1, <2>3, BoundedMore
  <2> QED
    BY <2>2, <2>4, BoundedLess
<1>2. CASE s[1] # "item"
  <2>1. NumbersOf(F) \subseteq NumbersOf(E)
    BY <1>2 DEF NumbersOf
  <2> QED
    BY <2>1, BoundedLess
<1> QED
  BY <1>1, <1>2

LEMMA MaxFacts ==
    ASSUME NEW N, N \subseteq Nat, N # {}, Bounded(N)
    PROVE  Max(N) \in Nat
<1>1. \E x \in N : \A y \in N : x >= y
  BY DEF Bounded
<1> QED
  BY <1>1 DEF Max

LEMMA NewestFacts ==
    ASSUME NEW t, t.entries \subseteq Slot \X Call, Bounded(NumbersOf(t.entries))
    PROVE  Newest(t) \in Nat
<1> DEFINE ids == {s[2] : s \in SlotsIn(t, "item")}
<1>1. ids = NumbersOf(t.entries)
  BY DEF SlotsIn, Items, NumbersOf
<1> HIDE DEF ids
<1>2. ids \cup {0} \subseteq Nat /\ Bounded(ids \cup {0}) /\ ids \cup {0} # {}
  BY <1>1, NumbersFacts, BoundedMore
<1>3. Max(ids \cup {0}) \in Nat
  BY <1>2, MaxFacts
<1> QED
  BY <1>3 DEF Newest, ids

----------------------------------------------------------------------------
(* DynamoDB: its steps *)

\* What a read finds.
LEMMA TablesFacts ==
    ASSUME PlaceInv, TableOK, NEW t \in Tables
    PROVE  /\ t.config \in BOOLEAN /\ t.entries \subseteq Slot \X Call
           /\ Bounded(NumbersOf(t.entries))
BY DEF PlaceInv, TypeOK, TableOK, Tables, Table

LEMMA DynamoFirstFacts ==
    ASSUME NEW o \in Op
    PROVE  /\ DynamoFirstStep(o) \in {"commit", "list", "next", "exists", "txn"}
           /\ o = "createKeygroup" <=> DynamoFirstStep(o) = "commit"
           /\ o = "deleteKeygroup" <=> DynamoFirstStep(o) = "list"
           /\ o = "append" <=> DynamoFirstStep(o) = "next"
BY DEF Op, DynamoFirstStep

\* Only one action gives a call an identifier.
LEMMA DynamoSlot ==
    ASSUME PlaceInv, TableOK, NEW c \in Call, DynamoStep(c)
    PROVE  \/ UNCHANGED slot
           \/ /\ op[c] = "append" /\ pc[c] = "next" /\ slot[c] = NoSlot /\ Goto(c, "txn")
              /\ \E s \in ItemSlots : slot' = [slot EXCEPT ![c] = s]
<1>1. CASE DynamoNewest(c)
  <2>1. PICK t \in Tables : slot' = [slot EXCEPT ![c] = ItemSlot(Newest(t))]
    BY <1>1 DEF DynamoNewest
  <2>2. ItemSlot(Newest(t)) \in ItemSlots
    BY TablesFacts, NewestFacts DEF ItemSlots, ItemSlot
  <2>3. slot[c] = NoSlot
    BY <1>1 DEF DynamoNewest, At, PlaceInv, PlacedOK, Placed, Ended
  <2> QED
    BY <1>1, <2>1, <2>2, <2>3 DEF DynamoNewest, At
<1>2. CASE ~DynamoNewest(c)
  BY <1>2 DEF DynamoStep, DynamoItemStep, DynamoTriggerStep, DynamoExistsKeygroup,
     DynamoCreateKeygroup, DynamoUpdate, DynamoDelete, DynamoRead, DynamoReadAll, DynamoExists,
     DynamoReadSome, DynamoAppend, DynamoAddTrigger, DynamoDeleteTrigger, DynamoGetTrigger,
     DynamoList, DynamoWipe, DynamoWiped, DynamoFails, PutItem, DeleteItem, callVars
<1> QED
  BY <1>1, <1>2

\* Where a call goes.
LEMMA DynamoGoes ==
    ASSUME PlaceInv, TableOK, NEW c \in Call, DynamoStep(c)
    PROVE  /\ pc[c] \notin Ended \cup {"none"}
           /\ UNCHANGED <<op, before, seqVars, seq, crashes>>
           /\ \E l \in Label \ {"none", "check"} : Goto(c, l) /\ Placed(op[c], slot'[c], l)
<1>1. pc[c] \notin Ended \cup {"none"} /\ UNCHANGED <<op, before, seqVars, seq, crashes>>
  BY DEF DynamoStep, DynamoItemStep, DynamoTriggerStep, DynamoExistsKeygroup,
     DynamoCreateKeygroup, DynamoUpdate, DynamoDelete, DynamoRead, DynamoReadAll, DynamoExists,
     DynamoReadSome, DynamoNewest, DynamoAppend, DynamoAddTrigger, DynamoDeleteTrigger,
     DynamoGetTrigger, DynamoList, DynamoWipe, DynamoWiped, DynamoFails, PutItem, DeleteItem,
     callVars, At, Ended
<1>2. Placed(op[c], slot[c], pc[c]) /\ pc \in [Call -> Label] /\ slot \in [Call -> Slot \cup {NoSlot}]
  BY DEF PlaceInv, PlacedOK, TypeOK
<1>3. op[c] \in Op
  BY <1>1, <1>2 DEF PlaceInv, TypeOK, Placed
<1>4. CASE DynamoExistsKeygroup(c)
  <2>1. PICK l \in {"failed", DynamoFirstStep(op[c])} : Goto(c, l)
    BY <1>4 DEF DynamoExistsKeygroup
  <2>2. UNCHANGED slot /\ pc[c] = "check"
    BY <1>4 DEF DynamoExistsKeygroup, callVars
  <2>3. l \in Label \ {"none", "check"} /\ Placed(op[c], slot[c], l)
    BY <1>2, <1>3, <2>1, <2>2, DynamoFirstFacts DEF Placed, Label, InDelete, Ended
  <2> QED
    BY <1>1, <2>1, <2>2, <2>3
<1>5. CASE DynamoNewest(c)
  <2>1. UNCHANGED slot \/ slot'[c] \in ItemSlots
    BY <1>2, DynamoSlot
  <2>2. op[c] = "append" /\ Goto(c, "txn") /\ pc[c] = "next"
    BY <1>5 DEF DynamoNewest, At
  <2>3. slot'[c] \in ItemSlots
    <3>1. PICK t \in Tables : slot' = [slot EXCEPT ![c] = ItemSlot(Newest(t))]
      BY <1>5 DEF DynamoNewest
    <3> QED
      BY <1>2, <3>1, TablesFacts, NewestFacts DEF ItemSlots, ItemSlot
  <2>4. Placed(op[c], slot'[c], "txn")
    BY <2>2, <2>3 DEF Placed, InDelete, Ended
  <2> QED
    BY <1>1, <2>2, <2>4 DEF Label
<1>6. CASE DynamoCreateKeygroup(c) \/ DynamoUpdate(c) \/ DynamoDelete(c) \/ DynamoAddTrigger(c)
           \/ DynamoDeleteTrigger(c) \/ DynamoAppend(c) \/ DynamoRead(c) \/ DynamoReadAll(c)
           \/ DynamoReadSome(c) \/ DynamoGetTrigger(c) \/ DynamoFails(c)
  <2>1. PICK l \in {"done", "failed"} : Goto(c, l)
    BY <1>6 DEF DynamoCreateKeygroup, DynamoUpdate, DynamoDelete, DynamoAddTrigger,
       DynamoDeleteTrigger, DynamoAppend, DynamoRead, DynamoReadAll, DynamoReadSome,
       DynamoGetTrigger, DynamoFails, PutItem, DeleteItem, Outcome
  <2>2. UNCHANGED slot
    BY <1>6 DEF DynamoCreateKeygroup, DynamoUpdate, DynamoDelete, DynamoAddTrigger,
       DynamoDeleteTrigger, DynamoAppend, DynamoRead, DynamoReadAll, DynamoReadSome,
       DynamoGetTrigger, DynamoFails, PutItem, DeleteItem, callVars
  <2>3. pc[c] = "txn" \/ op[c] # "append" \/ l = "failed"
    BY <1>6, <2>1, <1>2, GotoFacts DEF DynamoCreateKeygroup, DynamoUpdate, DynamoDelete, DynamoAddTrigger,
       DynamoDeleteTrigger, DynamoAppend, DynamoRead, DynamoReadAll, DynamoReadSome,
       DynamoGetTrigger, DynamoFails, At
  <2>4. l \in Label \ {"none", "check"} /\ Placed(op[c], slot[c], l)
    BY <1>1, <1>2, <2>1, <2>3 DEF Placed, Label, InDelete, Ended
  <2> QED
    BY <1>1, <2>1, <2>2, <2>4
<1>7. CASE DynamoExists(c)
  <2>1. PICK l \in {"txn", "failed"} : Goto(c, l)
    BY <1>7 DEF DynamoExists
  <2>2. UNCHANGED slot /\ op[c] = "scan"
    BY <1>7 DEF DynamoExists, At, callVars
  <2>3. l \in Label \ {"none", "check"} /\ Placed(op[c], slot[c], l)
    BY <1>2, <2>1, <2>2 DEF Placed, Label, InDelete, Ended
  <2> QED
    BY <1>1, <2>1, <2>2, <2>3
<1>8. CASE DynamoList(c) \/ DynamoWipe(c) \/ DynamoWiped(c)
  <2>1. UNCHANGED slot /\ pc[c] \in InDelete /\ op[c] = "deleteKeygroup"
    BY <1>2, <1>8 DEF DynamoList, DynamoWipe, DynamoWiped, callVars, Placed, InDelete
  <2>2. PICK l \in {"wipe", "wipeTriggers", "listTriggers", "done", "failed"} : Goto(c, l)
    <3>1. CASE DynamoWipe(c) /\ UNCHANGED pc
      <4>1. Goto(c, pc[c]) /\ pc[c] \in {"wipe", "wipeTriggers"}
        BY <1>2, <3>1 DEF DynamoWipe, Goto
      <4> QED
        BY <4>1
    <3>2. CASE ~(DynamoWipe(c) /\ UNCHANGED pc)
      BY <1>8, <3>2 DEF DynamoList, DynamoWipe, DynamoWiped
    <3> QED
      BY <3>1, <3>2
  <2>3. l \in Label \ {"none", "check"} /\ Placed(op[c], slot[c], l)
    BY <2>1, <2>2 DEF Placed, Label, InDelete, Ended
  <2> QED
    BY <1>1, <2>1, <2>2, <2>3
<1> QED
  BY <1>4, <1>5, <1>6, <1>7, <1>8 DEF DynamoStep, DynamoItemStep, DynamoTriggerStep

LEMMA DynamoMoves ==
    ASSUME PlaceInv, TableOK, NEW c \in Call, DynamoStep(c)
    PROVE  Moving(c)
<1> USE DEF PlaceInv, TypeOK
<1>1. PICK l \in Label \ {"none", "check"} : Goto(c, l)
  BY DynamoGoes
<1>2. pc'[c] = l /\ \A d \in Call \ {c} : pc'[d] = pc[d]
  BY <1>1, GotoFacts
<1>3. pc[c] \notin Ended \cup {"none"} /\ op' = op /\ before' = before
  BY DynamoGoes
<1>4. /\ slot'[c] = slot[c] \/ (slot[c] = NoSlot /\ op[c] = "append")
      /\ \A d \in Call \ {c} : slot'[d] = slot[d]
  BY DynamoSlot
<1>5. \A d \in Call \ {c} : todo'[d] = todo[d] /\ got'[d] = got[d]
  <2>1. CASE DynamoList(c) \/ DynamoWipe(c)
    BY <2>1 DEF DynamoList, DynamoWipe
  <2>2. CASE DynamoRead(c) \/ DynamoReadAll(c) \/ DynamoReadSome(c) \/ DynamoGetTrigger(c)
    BY <2>2 DEF DynamoRead, DynamoReadAll, DynamoReadSome, DynamoGetTrigger
  <2>3. CASE ~(DynamoList(c) \/ DynamoWipe(c) \/ DynamoRead(c) \/ DynamoReadAll(c)
               \/ DynamoReadSome(c) \/ DynamoGetTrigger(c))
    <3>1. UNCHANGED <<todo, got>>
      BY <2>3 DEF DynamoStep, DynamoItemStep, DynamoTriggerStep, DynamoExistsKeygroup,
         DynamoCreateKeygroup, DynamoUpdate, DynamoDelete, DynamoExists, DynamoNewest, DynamoAppend,
         DynamoAddTrigger, DynamoDeleteTrigger, DynamoWiped, DynamoFails, PutItem, DeleteItem
    <3> QED
      BY <3>1
  <2> QED
    BY <2>1, <2>2, <2>3
<1> QED
  BY <1>2, <1>3, <1>4, <1>5 DEF Moving

\* What a step does to the table.
LEMMA DynamoTable ==
    ASSUME PlaceInv, TableOK, NEW c \in Call, DynamoStep(c)
    PROVE  /\ entries' \subseteq entries \/ (Storing(c) /\ op[c] \in Putter)
           /\ \A e \in entries \ entries' : Touches(c, e)
           /\ MarkerStep(c)
           /\ \/ prev' = Table /\ lastBy' = c
              \/ UNCHANGED <<config, entries, prev, lastBy>>
           /\ op[c] \in Putter /\ pc'[c] = "done" =>
                 Storing(c) /\ <<slot[c], c>> \in entries' /\ prev' = Table /\ lastBy' = c
<1> USE DEF PlaceInv, TypeOK
<1>1. CASE DynamoUpdate(c) \/ DynamoAddTrigger(c)
  <2>1. op[c] \in Putter /\ pc[c] = "txn" /\ PutItem(c)
    BY <1>1 DEF DynamoUpdate, DynamoAddTrigger, At, Putter
  <2>2. pc'[c] \in Ended
    BY <2>1, GotoFacts DEF PutItem, Outcome, Ended
  <2> QED
    BY <2>1, <2>2 DEF PutItem, Put, Changes, Storing, Touches, MarkerStep, Putter, Writer
<1>2. CASE DynamoDelete(c) \/ DynamoDeleteTrigger(c)
  <2>1. op[c] \in {"delete", "deleteTrigger"} /\ DeleteItem(c)
    BY <1>2 DEF DynamoDelete, DynamoDeleteTrigger, At
  <2> QED
    BY <2>1 DEF DeleteItem, Remove, Changes, Touches, MarkerStep, Putter
<1>3. CASE DynamoCreateKeygroup(c)
  BY <1>3 DEF DynamoCreateKeygroup, At, Changes, MarkerStep, Putter
<1>4. CASE DynamoWipe(c)
  <2>1. op[c] = "deleteKeygroup" /\ pc[c] \in {"wipe", "wipeTriggers"}
    BY <1>4 DEF PlacedOK, Placed, DynamoWipe, InDelete
  <2>2. pc'[c] \in InDelete \cup {"failed"}
    BY <1>4, <2>1, GotoFacts DEF DynamoWipe, InDelete
  <2>3. entries' \subseteq entries /\ config' \in {config, FALSE} /\ prev' = Table /\ lastBy' = c
    BY <1>4 DEF DynamoWipe, Remove, Changes
  <2> QED
    BY <2>1, <2>2, <2>3 DEF Touches, MarkerStep, Putter
<1>5. CASE ~(DynamoUpdate(c) \/ DynamoAddTrigger(c) \/ DynamoDelete(c) \/ DynamoDeleteTrigger(c)
             \/ DynamoCreateKeygroup(c) \/ DynamoWipe(c))
  <2>1. UNCHANGED <<config, entries, prev, lastBy>>
    BY <1>5 DEF DynamoStep, DynamoItemStep, DynamoTriggerStep, DynamoExistsKeygroup, DynamoRead,
       DynamoReadAll, DynamoExists, DynamoReadSome, DynamoNewest, DynamoAppend, DynamoGetTrigger,
       DynamoList, DynamoWiped, DynamoFails, tableVars
  <2>2. ASSUME op[c] \in Putter, pc'[c] = "done" PROVE FALSE
    <3>1. PICK l : Goto(c, l) /\ l = "done"
      BY <2>2, DynamoGoes, GotoFacts
    <3>2. pc[c] \notin InDelete
      BY <2>2 DEF PlacedOK, Placed, Putter
    <3>3. op[c] \in Op
      BY <2>2 DEF Putter, Op
    <3>4. ASSUME NEW k, Goto(c, k) PROVE k = "done"
      BY <2>2, <3>4, GotoFacts
    <3>5. ~DynamoExistsKeygroup(c)
      BY <3>3, <3>4, DynamoFirstFacts DEF DynamoExistsKeygroup
    <3>6. ~(DynamoFails(c) \/ DynamoNewest(c) \/ DynamoExists(c))
      BY <3>4 DEF DynamoFails, DynamoNewest, DynamoExists
    <3>7. ~(DynamoRead(c) \/ DynamoReadAll(c) \/ DynamoReadSome(c) \/ DynamoGetTrigger(c)
            \/ DynamoAppend(c))
      BY <2>2 DEF DynamoRead, DynamoReadAll, DynamoReadSome, DynamoGetTrigger, DynamoAppend, At, Putter
    <3>8. ~(DynamoList(c) \/ DynamoWiped(c))
      BY <3>2 DEF DynamoList, DynamoWiped, InDelete
    <3> QED
      BY <1>5, <3>5, <3>6, <3>7, <3>8 DEF DynamoStep, DynamoItemStep, DynamoTriggerStep
  <2> QED
    BY <2>1, <2>2 DEF MarkerStep
<1> QED
  BY <1>1, <1>2, <1>3, <1>4, <1>5

LEMMA DynamoTableOK ==
    ASSUME PlaceInv, TableOK, NEW c \in Call, DynamoStep(c)
    PROVE  TableOK' /\ entries' \subseteq Slot \X Call
<1>1. entries \subseteq Slot \X Call /\ config \in BOOLEAN
  BY DEF PlaceInv, TypeOK
<1>2. entries' \subseteq Slot \X Call /\ Bounded(NumbersOf(entries'))
  <2>1. CASE entries' \subseteq entries
    <3>1. NumbersOf(entries') \subseteq NumbersOf(entries)
      BY <2>1 DEF NumbersOf
    <3> QED
      BY <1>1, <2>1, <3>1, BoundedLess DEF TableOK
  <2>2. CASE Storing(c) /\ op[c] \in Putter
    <3>1. slot[c] \in Slot
      BY <2>2 DEF PlaceInv, PlacedOK, Placed, Putter
    <3>2. entries' \subseteq entries \cup {<<slot[c], c>>}
      BY <2>2 DEF Storing
    <3>3. entries' \subseteq Slot \X Call
      BY <1>1, <3>1, <3>2
    <3>4. Bounded(NumbersOf(entries))
      BY DEF TableOK
    <3>5. Bounded(NumbersOf(entries'))
      BY <1>1, <3>1, <3>2, <3>4, NumbersGrow
    <3> QED
      BY <3>3, <3>5
  <2> QED
    BY <2>1, <2>2, DynamoTable
<1>3. CASE prev' = Table
  BY <1>1, <1>2, <1>3 DEF TableOK, Table
<1>4. CASE UNCHANGED prev
  BY <1>2, <1>4 DEF TableOK
<1> QED
  BY <1>2, <1>3, <1>4, DynamoTable

LEMMA DynamoPlace ==
    ASSUME PlaceInv, TableOK, NEW c \in Call, DynamoStep(c)
    PROVE  PlaceInv'
<1>1. PICK l \in Label \ {"none", "check"} : Goto(c, l) /\ Placed(op[c], slot'[c], l)
  BY DynamoGoes
<1>2. Moving(c)
  BY DynamoMoves
<1>3. PlacedOK'
  <2>1. pc'[c] = l
    BY <1>1, GotoFacts DEF PlaceInv, TypeOK
  <2> QED
    BY <1>1, <1>2, <2>1 DEF PlaceInv, PlacedOK, Moving
<1>4. UNCHANGED <<op, before, rolling, next, leased, seqMap, seq, crashes>>
  BY DynamoGoes DEF seqVars
<1>5. pc' \in [Call -> Label]
  BY <1>1, GotoFacts DEF PlaceInv, TypeOK
<1>6. slot' \in [Call -> Slot \cup {NoSlot}]
  <2>1. CASE UNCHANGED slot
    BY <2>1 DEF PlaceInv, TypeOK
  <2>2. CASE ~UNCHANGED slot
    <3>1. PICK s \in ItemSlots : slot' = [slot EXCEPT ![c] = s]
      BY <2>2, DynamoSlot
    <3> QED
      BY <3>1, SmallFacts DEF PlaceInv, TypeOK
  <2> QED
    BY <2>1, <2>2
<1>7. config' \in BOOLEAN
  BY DynamoTable DEF MarkerStep, PlaceInv, TypeOK
<1>8. todo' \in [Call -> SUBSET (Slot \cup {Marker})]
  <2>1. CASE DynamoList(c)
    <3>1. PICK t \in Tables : \E S \in SUBSET (Slot \cup {Marker}) : todo' = [todo EXCEPT ![c] = S]
      <4>1. PICK t \in Tables :
              todo' = [todo EXCEPT ![c] =
                      IF pc[c] = "listTriggers" THEN SlotsIn(t, "trigger")
                      ELSE SlotsIn(t, "item") \cup (IF t.config THEN {Marker} ELSE {})]
        BY <2>1 DEF DynamoList
      <4>2. SlotsIn(t, "trigger") \subseteq Slot /\ SlotsIn(t, "item") \subseteq Slot
        BY TablesFacts DEF SlotsIn, Items
      <4> QED
        BY <4>1, <4>2
    <3> QED
      BY <3>1 DEF PlaceInv, TypeOK
  <2>2. CASE DynamoWipe(c)
    BY <2>2 DEF DynamoWipe, PlaceInv, TypeOK
  <2>3. CASE ~(DynamoList(c) \/ DynamoWipe(c))
    <3>1. UNCHANGED todo
      BY <2>3 DEF DynamoStep, DynamoItemStep, DynamoTriggerStep, DynamoExistsKeygroup,
         DynamoCreateKeygroup, DynamoUpdate, DynamoDelete, DynamoExists, DynamoNewest, DynamoAppend,
         DynamoAddTrigger, DynamoDeleteTrigger, DynamoWiped, DynamoFails, PutItem, DeleteItem,
         DynamoRead, DynamoReadAll, DynamoReadSome, DynamoGetTrigger
    <3> QED
      BY <3>1 DEF PlaceInv, TypeOK
  <2> QED
    BY <2>1, <2>2, <2>3
<1>9. got' \in [Call -> SUBSET (Slot \X Call)]
  <2>1. CASE DynamoRead(c) \/ DynamoReadAll(c) \/ DynamoReadSome(c) \/ DynamoGetTrigger(c)
    <3>1. PICK S \in SUBSET (Slot \X Call) : got' = [got EXCEPT ![c] = S]
      <4>1. CASE DynamoReadSome(c)
        BY <4>1 DEF DynamoReadSome
      <4>2. CASE ~DynamoReadSome(c)
        <5>1. PICK t \in Tables : \/ got' = [got EXCEPT ![c] = {e \in t.entries : e[1] = slot[c]}]
                                  \/ got' = [got EXCEPT ![c] = Items(t, "item")]
                                  \/ got' = [got EXCEPT ![c] = Items(t, "trigger")]
          BY <2>1, <4>2 DEF DynamoRead, DynamoReadAll, DynamoGetTrigger
        <5>2. t.entries \subseteq Slot \X Call
          BY TablesFacts
        <5> QED
          BY <5>1, <5>2 DEF Items
      <4> QED
        BY <4>1, <4>2
    <3> QED
      BY <3>1 DEF PlaceInv, TypeOK
  <2>2. CASE ~(DynamoRead(c) \/ DynamoReadAll(c) \/ DynamoReadSome(c) \/ DynamoGetTrigger(c))
    <3>1. UNCHANGED got
      BY <2>2 DEF DynamoStep, DynamoItemStep, DynamoTriggerStep, DynamoExistsKeygroup,
         DynamoCreateKeygroup, DynamoUpdate, DynamoDelete, DynamoExists, DynamoNewest, DynamoAppend,
         DynamoAddTrigger, DynamoDeleteTrigger, DynamoWiped, DynamoFails, PutItem, DeleteItem,
         DynamoList, DynamoWipe
    <3> QED
      BY <3>1 DEF PlaceInv, TypeOK
  <2> QED
    BY <2>1, <2>2
<1>10. entries' \subseteq Slot \X Call
  BY DynamoTableOK
<1>11. TypeOK'
  BY <1>4, <1>5, <1>6, <1>7, <1>8, <1>9, <1>10 DEF PlaceInv, TypeOK
<1> QED
  BY <1>3, <1>11 DEF PlaceInv

----------------------------------------------------------------------------
(* DynamoDB: what late replicas lack does not matter *)

\* What a call has to see it sees in every replica, unless it has expired.
LEMMA LateFacts ==
    ASSUME LateOK, KeptOK, NEW t \in Tables, NEW c \in Call
    PROVE  /\ \A e \in entries : e[2] \in Call /\ e[2] \in before[c] => e \in t.entries
           /\ \A w \in Call : w \in before[c] /\ Settled(w, Putter) =>
                 t.config /\ <<slot[w], w>> \in t.entries \cup expired
<1>1. ASSUME NEW e \in entries, e[2] \in Call, e[2] \in before[c]
      PROVE  e \in prev.entries
  <2>1. Settling(e[2])
    BY <1>1 DEF LateOK
  <2> QED
    BY <1>1, <2>1 DEF LateOK, Settling, Table
<1>2. ASSUME NEW w \in Call, w \in before[c], Settled(w, Putter)
      PROVE  /\ config /\ prev.config
             /\ <<slot[w], w>> \in expired
                \/ (<<slot[w], w>> \in entries /\ <<slot[w], w>> \in prev.entries)
  <2>1. config /\ <<slot[w], w>> \in entries \cup expired
    BY <1>2 DEF StoredOK, KeptOK
  <2>2. prev.config
    BY <1>2 DEF LateOK
  <2> QED
    BY <1>1, <1>2, <2>1, <2>2
<1> QED
  BY <1>1, <1>2 DEF Tables, Table

\* Who has yet to look for the keygroup does so.
LEMMA DynamoChecks ==
    ASSUME NEW c \in Call, DynamoStep(c), pc[c] = "check"
    PROVE  DynamoExistsKeygroup(c)
BY DEF DynamoStep, DynamoItemStep, DynamoTriggerStep, DynamoCreateKeygroup, DynamoUpdate,
   DynamoDelete, DynamoRead, DynamoReadAll, DynamoExists, DynamoReadSome, DynamoNewest,
   DynamoAppend, DynamoAddTrigger, DynamoDeleteTrigger, DynamoGetTrigger, DynamoList, DynamoWipe,
   DynamoWiped, DynamoFails, At

\* A deletion's own steps.
LEMMA DynamoOwn ==
    ASSUME DynamoInv, NEW c \in Call, DynamoStep(c), op[c] = "deleteKeygroup",
           NEW e \in entries, e \in entries', e[2] \in before[c]
    PROVE  Caught(c, e)'
<1> USE DEF DynamoInv, DeleteInv, HistoryInv
<1>1. Caught(c, e) /\ e[1][1] \in {"item", "trigger"} /\ e[2] \in Call
  BY EntryFacts DEF GoneOK
<1>2. pc[c] \in InDelete \cup Ended \cup {"check"} /\ pc \in [Call -> Label]
  BY DEF PlaceInv, PlacedOK, Placed, TypeOK
<1>3. CASE DynamoList(c)
  <2>1. PICK t \in Tables :
          todo' = [todo EXCEPT ![c] =
                      IF pc[c] = "listTriggers" THEN SlotsIn(t, "trigger")
                      ELSE SlotsIn(t, "item") \cup (IF t.config THEN {Marker} ELSE {})]
    BY <1>3 DEF DynamoList
  <2>2. e \in t.entries
    BY <1>1, LateFacts
  <2>3. e[1] \in SlotsIn(t, e[1][1])
    BY <2>2 DEF SlotsIn, Items
  <2>4. CASE pc[c] = "list"
    <3>1. pc'[c] = "wipe" /\ SlotsIn(t, "item") \subseteq todo'[c]
      BY <1>2, <1>3, <2>1, <2>4 DEF DynamoList, Goto, PlaceInv, TypeOK
    <3> QED
      BY <2>3, <3>1 DEF Caught
  <2>5. CASE pc[c] = "listTriggers"
    <3>1. pc'[c] = "wipeTriggers" /\ todo'[c] = SlotsIn(t, "trigger")
      BY <1>2, <1>3, <2>1, <2>5 DEF DynamoList, Goto, PlaceInv, TypeOK
    <3> QED
      BY <1>1, <2>3, <2>5, <3>1 DEF Caught
  <2> QED
    BY <1>3, <2>4, <2>5 DEF DynamoList
<1>4. CASE DynamoWipe(c)
  <2>1. PICK s \in todo[c] : Remove({s}) /\ todo' = [todo EXCEPT ![c] = @ \ {s}]
    BY <1>4 DEF DynamoWipe
  <2>2. e[1] # s /\ todo'[c] = todo[c] \ {s}
    BY <2>1 DEF Remove, PlaceInv, TypeOK
  <2>3. pc'[c] = pc[c] \/ pc'[c] = "failed"
    BY <1>2, <1>4, GotoFacts DEF DynamoWipe
  <2> QED
    BY <1>1, <2>2, <2>3 DEF Caught
<1>5. CASE DynamoWiped(c)
  <2>1. pc'[c] = IF pc[c] = "wipe" THEN "listTriggers" ELSE "done"
    BY <1>2, <1>5, GotoFacts DEF DynamoWiped
  <2> QED
    BY <1>1, <1>5, <2>1 DEF Caught, DynamoWiped
<1>6. CASE DynamoFails(c) \/ DynamoExistsKeygroup(c)
  <2>1. PICK l : Goto(c, l) /\ l \in {"failed", "list"}
    BY <1>6, DynamoFirstFacts DEF DynamoFails, DynamoExistsKeygroup, Op
  <2> QED
    BY <1>2, <2>1, GotoFacts DEF Caught
<1> QED
  BY <1>2, <1>3, <1>4, <1>5, <1>6 DEF DynamoStep, DynamoItemStep, DynamoTriggerStep,
     DynamoCreateKeygroup, DynamoUpdate, DynamoDelete, DynamoRead, DynamoReadAll, DynamoExists,
     DynamoReadSome, DynamoNewest, DynamoAppend, DynamoAddTrigger, DynamoDeleteTrigger,
     DynamoGetTrigger, At

LEMMA DynamoWorks ==
    ASSUME DynamoInv, NEW c \in Call, DynamoStep(c)
    PROVE  Working(c)
<1> USE DEF DynamoInv, DeleteInv, HistoryInv
<1>1. Moving(c) /\ MarkerStep(c)
  BY DynamoMoves, DynamoTable
<1>2. /\ entries' \subseteq entries \/ Storing(c)
      /\ \A e \in entries \ entries' : Touches(c, e)
  BY DynamoTable
<1>3. ASSUME op[c] \in Writer, pc[c] = "check", pc'[c] # "failed", ~config
      PROVE  Doubtful(c)
  <2>1. PICK t \in Tables : \E found \in {t.config} \cup Mistaken :
            Goto(c, IF found = (op[c] = "createKeygroup") THEN "failed" ELSE DynamoFirstStep(op[c]))
    BY <1>3, DynamoChecks DEF DynamoExistsKeygroup
  <2>2. t.config \in BOOLEAN
    BY TablesFacts
  <2>3. ASSUME ~t.config PROVE FALSE
    <3>1. Goto(c, "failed")
      BY <1>3, <2>1, <2>2, <2>3 DEF Mistaken, Writer
    <3> QED
      BY <1>3, <3>1, GotoFacts DEF PlaceInv, TypeOK
  <2>4. prev.config /\ prev # Table
    BY <1>3, <2>2, <2>3 DEF Tables, Table
  <2>5. lastBy \in Call /\ op[lastBy] = "deleteKeygroup"
    BY <1>3, <2>4 DEF LateOK
  <2>6. lastBy \notin before[c]
    BY <2>4, <2>5 DEF LateOK, Settling
  <2> QED
    BY <2>5, <2>6 DEF Doubtful
<1>4. ASSUME op[c] = "deleteKeygroup", NEW e \in entries \cap entries', e[2] \in before[c]
      PROVE  Caught(c, e)'
  BY <1>4, DynamoOwn
<1> QED
  BY <1>1, <1>2, <1>3, <1>4 DEF Working

LEMMA DynamoLate ==
    ASSUME DynamoInv, NEW c \in Call, DynamoStep(c), KeptOK'
    PROVE  LateOK'
<1> USE DEF DynamoInv, DeleteInv, HistoryInv
<1>0. Moving(c) /\ MarkerStep(c)
  BY DynamoMoves, DynamoTable
<1>1. ASSUME NEW w \in Call, Settled(w, Putter)', w # c
      PROVE  Settled(w, Putter)
  BY <1>0, <1>1, SettledBefore DEF Putter, Writer
<1>2. CASE prev' = Table /\ lastBy' = c
  <2>1. \A e \in entries' : e \in prev'.entries \/ e[2] = lastBy'
    <3>1. prev'.entries = entries
      BY <1>2 DEF Table
    <3>2. entries' \subseteq entries \/ Storing(c)
      BY DynamoTable
    <3> QED
      BY <1>2, <3>1, <3>2 DEF Storing
  <2>2. prev'.config /\ ~config' => lastBy' \in Call /\ op'[lastBy'] = "deleteKeygroup"
    <3>1. prev'.config = config
      BY <1>2 DEF Table
    <3>2. op'[c] = op[c]
      BY <1>0 DEF Moving
    <3> QED
      BY <1>0, <1>2, <3>1, <3>2 DEF MarkerStep
  <2>3. \A b, d \in Call : d \in before'[b] => Settling(d)'
    BY <1>0, <1>2 DEF BeforeOK, Moving, Settling
  <2>4. ASSUME NEW w \in Call, Settled(w, Putter)', Settling(w)'
        PROVE  prev'.config
    <3>1. CASE w # c
      BY <1>1, <1>2, <2>4, <3>1 DEF StoredOK, KeptOK, Table
    <3>2. CASE w = c
      <4>1. prev' = Table'
        BY <1>2, <2>4, <3>2 DEF Settling
      <4>2. config'
        BY <2>4 DEF StoredOK, KeptOK
      <4> QED
        BY <4>1, <4>2 DEF Table
    <3> QED
      BY <3>1, <3>2
  <2> QED
    BY <2>1, <2>2, <2>3, <2>4 DEF LateOK
<1>3. CASE UNCHANGED <<config, entries, prev, lastBy>> /\ ~(prev' = Table /\ lastBy' = c)
  <2>1. \A d \in Call : Settling(d)' <=> Settling(d)
    BY <1>3 DEF Settling, Table
  <2>2. \A b, d \in Call : d \in before'[b] => Settling(d)'
    BY <1>0, <2>1 DEF Moving, LateOK
  <2>3. ASSUME NEW w \in Call, Settled(w, Putter)', Settling(w)'
        PROVE  prev'.config
    <3>1. w # c
      BY <1>0, <1>3, <2>3, DynamoTable DEF Settled, Moving
    <3> QED
      BY <1>1, <1>3, <2>1, <2>3, <3>1 DEF LateOK
  <2>4. prev'.config /\ ~config' => lastBy' \in Call /\ op'[lastBy'] = "deleteKeygroup"
    BY <1>0, <1>3 DEF Moving, LateOK
  <2>5. \A e \in entries' : e \in prev'.entries \/ e[2] = lastBy'
    BY <1>3 DEF LateOK
  <2> QED
    BY <2>2, <2>3, <2>4, <2>5 DEF LateOK
<1> QED
  BY <1>2, <1>3, DynamoTable

\* What is settled is found.
LEMMA DynamoFinds ==
    ASSUME DynamoInv, NEW c \in Call, DynamoStep(c), op[c] \in Getter,
           pc'[c] \in {"done", "failed"}, pc'[c] = "failed" => ~Faults,
           NEW w \in Call, w \in before[c], Settled(w, Putter), Matches(c, w)
    PROVE  (pc'[c] = "done" /\ <<slot[w], w>> \in got'[c]) \/ <<slot[w], w>> \in expired
<1> SUFFICES ASSUME <<slot[w], w>> \notin expired
             PROVE  pc'[c] = "done" /\ <<slot[w], w>> \in got'[c]
  OBVIOUS
<1> USE DEF DynamoInv, DeleteInv, HistoryInv
<1>1. /\ op[c] \notin Writer \cup {"createKeygroup", "deleteKeygroup", "delete", "deleteTrigger", "scan"}
      /\ op[c] \in Op
      /\ pc[c] \notin InDelete \cup {"next"}
      /\ pc \in [Call -> Label] /\ got \in [Call -> SUBSET (Slot \X Call)]
  BY DEF Writer, Getter, PlaceInv, PlacedOK, TypeOK, Placed, Op
<1>2. ASSUME NEW l, Goto(c, l) PROVE pc'[c] = l
  BY <1>1, <1>2, GotoFacts
<1>3. slot[w] \in Slot /\ \A t \in Tables : t.config /\ <<slot[w], w>> \in t.entries
  BY LateFacts, SettledFacts DEF Putter, Writer
<1>4. /\ op[c] = "read" => slot[c] = slot[w] /\ slot[w][1] = "item"
      /\ op[c] = "readAll" => slot[w][1] = "item"
      /\ op[c] = "getTrigger" => slot[w][1] = "trigger"
  <2>1. op[c] = "read" => slot[c] \in ItemSlots
    BY DEF PlaceInv, PlacedOK, Placed
  <2>2. op[c] \in {"readAll", "getTrigger"} => slot[c] = NoSlot
    BY DEF PlaceInv, PlacedOK, Placed
  <2> QED
    BY <1>3, <2>1, <2>2, SmallFacts DEF Matches, ItemSlots
<1>5. CASE DynamoExistsKeygroup(c)
  <2>1. PICK l : Goto(c, l) /\ l \in {"failed", DynamoFirstStep(op[c])}
                 /\ (l = DynamoFirstStep(op[c]) \/ Faults)
    BY <1>1, <1>3, <1>5 DEF DynamoExistsKeygroup, Mistaken
  <2> QED
    BY <1>1, <1>2, <2>1, DynamoFirstFacts
<1>6. CASE DynamoRead(c)
  <2>1. PICK t \in Tables :
          /\ got' = [got EXCEPT ![c] = {e \in t.entries : e[1] = slot[c]}]
          /\ Goto(c, IF slot[c] \in SlotsIn(t, "item") THEN "done" ELSE "failed")
    BY <1>6 DEF DynamoRead
  <2>2. <<slot[w], w>> \in t.entries /\ slot[c] = slot[w] /\ slot[w][1] = "item"
    BY <1>3, <1>4, <1>6 DEF DynamoRead, At
  <2>3. slot[c] \in SlotsIn(t, "item")
    <3>1. <<slot[w], w>> \in Items(t, "item") /\ <<slot[w], w>>[1] = slot[c]
      BY <2>2 DEF Items
    <3> QED
      BY <3>1 DEF SlotsIn
  <2>4. got'[c] = {e \in t.entries : e[1] = slot[c]}
    BY <1>1, <2>1
  <2> QED
    BY <1>2, <2>1, <2>2, <2>3, <2>4
<1>7. CASE DynamoReadAll(c) \/ DynamoGetTrigger(c)
  <2>1. PICK t \in Tables : got'[c] = Items(t, slot[w][1])
    BY <1>1, <1>4, <1>7 DEF DynamoReadAll, DynamoGetTrigger, At
  <2>2. Goto(c, "done")
    BY <1>7 DEF DynamoReadAll, DynamoGetTrigger
  <2> QED
    BY <1>2, <1>3, <2>1, <2>2 DEF Items
<1>8. CASE DynamoFails(c)
  BY <1>2, <1>8 DEF DynamoFails
<1>9. CASE DynamoCreateKeygroup(c) \/ DynamoUpdate(c) \/ DynamoDelete(c) \/ DynamoAddTrigger(c)
           \/ DynamoDeleteTrigger(c) \/ DynamoAppend(c) \/ DynamoNewest(c) \/ DynamoExists(c)
           \/ DynamoReadSome(c)
  BY <1>1, <1>9 DEF DynamoCreateKeygroup, DynamoUpdate, DynamoDelete, DynamoAddTrigger,
     DynamoDeleteTrigger, DynamoAppend, DynamoNewest, DynamoExists, DynamoReadSome, At, Writer
<1>10. CASE DynamoList(c) \/ DynamoWipe(c) \/ DynamoWiped(c)
  BY <1>1, <1>10 DEF DynamoList, DynamoWipe, DynamoWiped, InDelete
<1> QED
  BY <1>5, <1>6, <1>7, <1>8, <1>9, <1>10 DEF DynamoStep, DynamoItemStep, DynamoTriggerStep

\* An `expired' of one state, as a set of which both states know.
LEMMA ExpiredFixed ==
    ASSUME NEW X, X = expired
    PROVE  /\ StoredOK(Putter, expired) => StoredOK(Putter, X)
           /\ FoundOK(Getter, Putter, expired) => FoundOK(Getter, Putter, X)
           /\ UNCHANGED expired =>
                 /\ StoredOK(Putter, X)' => StoredOK(Putter, expired)'
                 /\ FoundOK(Getter, Putter, X)' => FoundOK(Getter, Putter, expired)'
                 /\ ExpiredOK => ExpiredOK'
BY DEF StoredOK, FoundOK, ExpiredOK

\* Calls do not make anything expire.
LEMMA DynamoExpires ==
    ASSUME NEW c \in Call, DynamoStep(c)
    PROVE  UNCHANGED expired
BY DEF DynamoStep, DynamoItemStep, DynamoTriggerStep, DynamoExistsKeygroup,
   DynamoCreateKeygroup, DynamoUpdate, DynamoDelete, DynamoRead, DynamoReadAll, DynamoExists,
   DynamoReadSome, DynamoNewest, DynamoAppend, DynamoAddTrigger, DynamoDeleteTrigger,
   DynamoGetTrigger, DynamoList, DynamoWipe, DynamoWiped, DynamoFails, PutItem, DeleteItem,
   Changes, tableVars

LEMMA DynamoKept ==
    ASSUME DynamoInv, NEW c \in Call, DynamoStep(c)
    PROVE  DynamoInv'
<1> USE DEF DynamoInv
<1>1. PlaceInv
  BY DEF DeleteInv, HistoryInv
<1>2. PlaceInv' /\ TableOK'
  BY <1>1, DynamoPlace, DynamoTableOK
<1>3. Working(c) /\ Putter \subseteq Writer /\ "append" \notin Getter
  BY DynamoWorks DEF Putter, Writer, Getter
<1>4. DeleteInv'
  BY <1>2, <1>3, WorkingDelete
<1>5. KeptOK'
  <2>1. PICK X : X = expired
    OBVIOUS
  <2>2. UNCHANGED expired
    BY DynamoExpires
  <2>3. StoredOK(Putter, X) /\ FoundOK(Getter, Putter, X) /\ ExpiredOK
    BY <2>1, ExpiredFixed DEF KeptOK
  <2>4. StoredOK(Putter, X)'
    BY <1>1, <1>3, <2>3, DynamoTable, WorkingStored
  <2>5. FoundOK(Getter, Putter, X)'
    BY <1>3, <2>1, <2>3, DynamoFinds, WorkingFound
  <2> QED
    BY <2>1, <2>2, <2>3, <2>4, <2>5, ExpiredFixed DEF KeptOK
<1>6. LateOK'
  BY <1>5, DynamoLate
<1> QED
  BY <1>2, <1>4, <1>5, <1>6

LEMMA SameKept ==
    ASSUME KeptOK, UNCHANGED <<config, entries, pc, op, slot, before, got, expired>>
    PROVE  KeptOK' /\ \A w \in Call : Settled(w, Putter)' => Settled(w, Putter)
<1>1. PICK X : X = expired
  OBVIOUS
<1>2. StoredOK(Putter, X) /\ FoundOK(Getter, Putter, X) /\ ExpiredOK
  BY <1>1, ExpiredFixed DEF KeptOK
<1>3. StoredOK(Putter, X)' /\ FoundOK(Getter, Putter, X)' /\ \A w \in Call : Settled(w, Putter)' => Settled(w, Putter)
  BY <1>2, SameReads
<1> QED
  BY <1>1, <1>2, <1>3, ExpiredFixed DEF KeptOK

LEMMA TableSame ==
    ASSUME TableOK, UNCHANGED entries, UNCHANGED prev
    PROVE  TableOK'
BY DEF TableOK

LEMMA ReplicatedKept ==
    ASSUME DynamoInv, Replicated
    PROVE  DynamoInv'
<1> USE DEF DynamoInv
<1>1. PlaceInv
  BY DEF DeleteInv, HistoryInv
<1>2. /\ UNCHANGED <<config, entries, pc, op, slot, before, todo, got, lastBy, expired>>
      /\ prev' = Table /\ Table' = Table
  BY DEF Replicated, vars, seqVars, callVars, Table
<1>3. PlaceInv'
  BY <1>1 DEF Replicated, vars, seqVars, callVars, PlaceInv, TypeOK, PlacedOK
<1>4. DeleteInv'
  BY <1>2, <1>3, SameDelete
<1>5. KeptOK'
  BY <1>2, SameKept
<1>6. TableOK'
  BY <1>1, <1>2 DEF TableOK, Table, PlaceInv, TypeOK
<1>7. LateOK'
  <2>1. prev'.config = config' /\ prev'.entries = entries'
    BY <1>2 DEF Table
  <2>2. \A d \in Call : Settling(d)'
    BY <1>2 DEF Settling
  <2>3. \A w \in Call : Settled(w, Putter)' => prev'.config
    BY <1>5, <2>1 DEF StoredOK, KeptOK
  <2> QED
    BY <2>1, <2>2, <2>3 DEF LateOK
<1> QED
  BY <1>4, <1>5, <1>6, <1>7

LEMMA DynamoBeginKept ==
    ASSUME DynamoInv, NEW c \in Call, NEW o \in Ops, NEW s \in Arguments(o), DynamoBegin(c, o, s)
    PROVE  DynamoInv'
<1> USE DEF DynamoInv
<1> DEFINE B == {d \in Call : pc[d] \in Ended /\ (d = lastBy => prev = Table)}
<1>0. BeginAfter(c, o, s, B) /\ UNCHANGED <<prev, lastBy, expired>>
  BY DEF DynamoBegin, tableVars
<1>1. PlaceInv /\ B \in SUBSET Call /\ \A d \in B : d \in Call /\ pc[d] \in Ended /\ Settling(d)
  BY DEF DeleteInv, HistoryInv, Settling
<1> HIDE DEF B
<1>2. PlaceInv'
  BY <1>0, <1>1, BeginPlace
<1>3. DeleteInv'
  BY <1>0, <1>1, <1>2, BeginDelete
<1>4. KeptOK' /\ \A w \in Call : Settled(w, Putter)' => Settled(w, Putter)
  <2>1. PICK X : X = expired
    OBVIOUS
  <2>2. StoredOK(Putter, X) /\ FoundOK(Getter, Putter, X) /\ ExpiredOK
    BY <2>1, ExpiredFixed DEF KeptOK
  <2>3. StoredOK(Putter, X)' /\ FoundOK(Getter, Putter, X)' /\ \A w \in Call : Settled(w, Putter)' => Settled(w, Putter)
    BY <1>0, <1>1, <2>2, BeginReads
  <2> QED
    BY <1>0, <2>1, <2>2, <2>3, ExpiredFixed DEF KeptOK
<1>5. UNCHANGED <<config, entries>>
  BY <1>0 DEF BeginAfter
<1>6. TableOK'
  BY <1>0, <1>5, TableSame
<1>7. LateOK'
  <2>1. \A d \in Call : Settling(d)' <=> Settling(d)
    BY <1>0, <1>5 DEF Settling, Table
  <2>2. ASSUME NEW b \in Call, NEW d \in Call, d \in before'[b] PROVE Settling(d)'
    <3>1. before'[b] = before[b] \/ before'[b] = B
      BY <1>0, <1>1 DEF BeginAfter, PlaceInv, TypeOK
    <3> QED
      BY <1>1, <2>1, <2>2, <3>1 DEF LateOK
  <2>3. ASSUME prev.config, ~config PROVE lastBy \in Call /\ op'[lastBy] = "deleteKeygroup"
    <3>1. lastBy \in Call /\ op[lastBy] = "deleteKeygroup"
      BY <2>3 DEF LateOK
    <3>2. op[c] = "none" /\ \A d \in Call \ {c} : op'[d] = op[d]
      BY <1>0, <1>1 DEF BeginAfter, PlaceInv, PlacedOK, Placed, TypeOK
    <3> QED
      BY <3>1, <3>2
  <2>4. \A w \in Call : Settled(w, Putter)' /\ Settling(w)' => prev'.config
    BY <1>0, <1>4, <2>1 DEF LateOK
  <2>5. \A e \in entries' : e \in prev'.entries \/ e[2] = lastBy'
    BY <1>0, <1>5 DEF LateOK
  <2> QED
    BY <1>0, <1>5, <2>2, <2>3, <2>4, <2>5 DEF LateOK
<1> QED
  BY <1>3, <1>4, <1>6, <1>7

LEMMA DynamoLosing ==
    ASSUME DynamoInv, NEW L, Losing(L), UNCHANGED <<prev, lastBy, expired>>
    PROVE  DynamoInv'
<1> USE DEF DynamoInv
<1>1. PlaceInv /\ UNCHANGED <<config, entries, op, before>>
  BY DEF DeleteInv, HistoryInv, Losing, callVars
<1>2. PlaceInv'
  BY <1>1, LosingPlace
<1>3. DeleteInv'
  BY <1>2, LosingDelete
<1>4. KeptOK' /\ \A w \in Call : Settled(w, Putter)' => Settled(w, Putter)
  <2>1. PICK X : X = expired
    OBVIOUS
  <2>2. StoredOK(Putter, X) /\ FoundOK(Getter, Putter, X) /\ ExpiredOK
    BY <2>1, ExpiredFixed DEF KeptOK
  <2>3. StoredOK(Putter, X)' /\ FoundOK(Getter, Putter, X)' /\ \A w \in Call : Settled(w, Putter)' => Settled(w, Putter)
    BY <2>2, LosingReads
  <2> QED
    BY <2>1, <2>2, <2>3, ExpiredFixed DEF KeptOK
<1>5. TableOK'
  BY <1>1, TableSame
<1>6. LateOK'
  <2>1. \A d \in Call : Settling(d)' <=> Settling(d)
    BY <1>1 DEF Settling, Table
  <2>2. \A w \in Call : Settled(w, Putter)' /\ Settling(w)' => prev'.config
    BY <1>4, <2>1 DEF LateOK
  <2> QED
    BY <1>1, <2>1, <2>2 DEF LateOK
<1> QED
  BY <1>3, <1>4, <1>5, <1>6

\* Nothing happens that matters here.
LEMMA DynamoSame ==
    ASSUME DynamoInv, UNCHANGED <<vars, prev, lastBy, expired>>
    PROVE  DynamoInv'
<1> USE DEF DynamoInv
<1>1. UNCHANGED <<config, entries, pc, op, slot, before, todo, got, prev, lastBy, expired>>
  BY DEF vars, seqVars, callVars
<1>2. PlaceInv'
  BY DEF DeleteInv, HistoryInv, vars, seqVars, callVars, PlaceInv, TypeOK, PlacedOK
<1>3. DeleteInv'
  BY <1>1, <1>2, SameDelete
<1>4. KeptOK' /\ \A w \in Call : Settled(w, Putter)' => Settled(w, Putter)
  BY <1>1, SameKept
<1>5. TableOK'
  BY <1>1, TableSame
<1>6. LateOK'
  <2>1. \A d \in Call : Settling(d)' <=> Settling(d)
    BY <1>1 DEF Settling, Table
  <2>2. \A w \in Call : Settled(w, Putter)' /\ Settling(w)' => prev'.config
    BY <1>1, <1>4, <2>1 DEF LateOK
  <2> QED
    BY <1>1, <2>1, <2>2 DEF LateOK
<1> QED
  BY <1>3, <1>4, <1>5, <1>6

\* The table removes an item: nothing else is lost, and earlier changes are everywhere.
LEMMA ExpiryKept ==
    ASSUME DynamoInv, TimeToLive
    PROVE  DynamoInv'
<1> USE DEF DynamoInv
<1>0. PlaceInv /\ UNCHANGED <<config, seqVars, pc, callVars, todo, seq, got, crashes>>
  BY DEF DeleteInv, HistoryInv, TimeToLive
<1>1. CASE UNCHANGED <<entries, prev, lastBy, expired>>
  BY <1>0, <1>1, DynamoSame DEF vars
<1>2. CASE ~UNCHANGED <<entries, prev, lastBy, expired>>
  <2>1. PICK e \in WithPrefix("item") :
             /\ entries' = entries \ {e} /\ expired' = expired \cup {e}
             /\ prev' = Table /\ lastBy' = 0
    BY <1>2 DEF TimeToLive
  <2>2. entries' \subseteq entries /\ entries \subseteq Slot \X Call /\ config \in BOOLEAN
        /\ e \in entries /\ e[1][1] = "item"
    BY <1>0, <2>1 DEF WithPrefix, PlaceInv, TypeOK
  <2>3. PlaceInv'
    <3>1. entries' \subseteq Slot \X Call
      BY <2>2
    <3> QED
      BY <1>0, <3>1 DEF seqVars, callVars, PlaceInv, TypeOK, PlacedOK
  <2>4. DeleteInv'
    BY <1>0, <2>2, <2>3, SameDelete DEF callVars
  <2>5. \A w \in Call : Settled(w, Putter)' <=> Settled(w, Putter)
    BY <1>0 DEF callVars, Settled, Undone, MayUndo
  <2>6. /\ StoredOK(Putter, expired)'
        /\ FoundOK(Getter, Putter, expired)'
    <3>1. \A r, w \in Call : Sought(r, w, Getter, Putter)' <=> Sought(r, w, Getter, Putter)
      BY <1>0, <2>5 DEF callVars, Sought, Matches
    <3> QED
      BY <1>0, <2>1, <2>5, <3>1 DEF callVars, KeptOK, StoredOK, FoundOK
  <2>7. KeptOK'
    BY <2>1, <2>2, <2>6 DEF KeptOK, ExpiredOK
  <2>8. TableOK'
    <3>1. NumbersOf(entries') \subseteq NumbersOf(entries)
      BY <2>2 DEF NumbersOf
    <3> QED
      BY <2>1, <2>2, <3>1, BoundedLess DEF TableOK, Table
  <2>9. LateOK'
    <3>1. prev'.entries = entries /\ prev'.config = config /\ config' = config
      BY <1>0, <2>1 DEF Table
    <3>2. \A d \in Call : Settling(d)'
      BY <2>1 DEF Settling, Call
    <3>3. \A w \in Call : Settled(w, Putter)' => config
      BY <2>5 DEF KeptOK, StoredOK
    <3> QED
      BY <2>2, <3>1, <3>2, <3>3 DEF LateOK
  <2> QED
    BY <2>4, <2>7, <2>8, <2>9
<1> QED
  BY <1>1, <1>2

LEMMA DynamoCases ==
    ASSUME DynamoInv, ViewOK, adaptor = "dynamo", [StorageNext]_storageVars
    PROVE  DynamoInv' /\ ViewOK' /\ adaptor' = adaptor
<1>0. PlaceInv
  BY DEF DynamoInv, DeleteInv, HistoryInv
<1>1. CASE UNCHANGED storageVars
  <2>1. UNCHANGED <<vars, prev, lastBy, expired, pc, view, adaptor>>
    BY <1>1 DEF storageVars, vars, tableVars
  <2> QED
    BY <2>1, DynamoSame DEF ViewOK
<1>2. CASE DynamoStorage
  <2>1. CASE \E c \in Call : DynamoStep(c)
    <3>1. PICK c \in Call : DynamoStep(c)
      BY <2>1
    <3>2. Moving(c)
      BY <1>0, <3>1, DynamoMoves DEF DynamoInv
    <3>3. ViewOK'
      BY <1>2, <3>2 DEF DynamoStorage, ViewOK, Moving, Ended
    <3> QED
      BY <1>2, <3>1, <3>3, DynamoKept DEF DynamoStorage
  <2>2. CASE Replicated
    BY <1>2, <2>2, ReplicatedKept DEF DynamoStorage, Replicated, vars, ViewOK
  <2>4. CASE TimeToLive
    BY <1>2, <2>4, ExpiryKept DEF DynamoStorage, TimeToLive, ViewOK
  <2>3. CASE DynamoCrash
    <3>1. PICK C \in SUBSET Running : Stop(C)
      BY <2>3 DEF DynamoCrash
    <3>2. Losing(C)
      BY <1>0, <3>1, StopLoses DEF PlaceInv
    <3>3. ViewOK'
      BY <1>2, <3>2 DEF DynamoStorage, ViewOK, Losing, Running, Ended
    <3> QED
      BY <1>2, <2>3, <3>2, <3>3, DynamoLosing DEF DynamoStorage, DynamoCrash, tableVars
  <2> QED
    BY <1>2, <2>1, <2>2, <2>3, <2>4 DEF DynamoStorage
<1>3. ASSUME NEW c \in Call, NEW o \in Ops, NEW s \in Arguments(o), StorageBegin(c, o, s)
      PROVE  DynamoInv' /\ ViewOK' /\ adaptor' = adaptor
  <2>1. DynamoBegin(c, o, s) /\ UNCHANGED <<view, adaptor>>
    BY <1>3 DEF StorageBegin
  <2>2. pc[c] = "none" /\ \A d \in Call \ {c} : pc'[d] = pc[d]
    BY <1>0, <2>1 DEF DynamoBegin, BeginAfter, Goto, PlaceInv, TypeOK
  <2>3. pc'[c] = "check"
    BY <1>0, <2>1 DEF DynamoBegin, BeginAfter, Goto, PlaceInv, TypeOK
  <2>4. ViewOK'
    BY <2>1, <2>2, <2>3 DEF ViewOK
  <2> QED
    BY <2>1, <2>4, DynamoBeginKept
<1> QED
  BY <1>1, <1>2, <1>3 DEF StorageNext, AllEnded, BadgerStep, RemoteStorage

----------------------------------------------------------------------------
(* The results *)

LEMMA InitStorage == StorageInit => StorageInv
<1> SUFFICES ASSUME StorageInit PROVE StorageInv
  OBVIOUS
<1>0. Init /\ RemoteInit /\ DynamoInit /\ adaptor \in {"badgerdb", "memory", "remote", "dynamo"}
  BY NodeStorageAssumption DEF StorageInit
<1>1. TypeInv /\ PlaceInv /\ DeleteInv /\ NumberInv
  BY <1>0, InitTypeInv, TypePlaces, InitDelete, InitNumbers
<1>2. ReadInv /\ KeptOK
  BY <1>0, InitReads DEF ReadInv, KeptOK, ExpiredOK, DynamoInit
<1>3. ViewOK
  BY <1>0 DEF RemoteInit, ViewOK
<1>4. entries = {} /\ prev = Table /\ Table.entries = {} /\ Table.config = config
  BY <1>0 DEF Init, DynamoInit, Table
<1>5. TableOK
  <2>1. NumbersOf({}) = {} /\ Bounded({})
    BY DEF NumbersOf, Bounded
  <2>2. Table \in [config : BOOLEAN, entries : SUBSET (Slot \X Call)]
    BY <1>1 DEF PlaceInv, TypeOK, Table
  <2> QED
    BY <1>4, <2>1, <2>2 DEF TableOK
<1>6. LateOK
  <2>1. \A w \in Call : ~Settled(w, Putter) /\ before[w] = {}
    BY <1>0 DEF Init, Settled
  <2> QED
    BY <1>4, <2>1 DEF LateOK
<1> QED
  BY <1>0, <1>1, <1>2, <1>3, <1>5, <1>6 DEF StorageInv, LocalInv, DynamoInv

LEMMA NextStorage == StorageInv /\ [StorageNext]_storageVars => StorageInv'
<1> SUFFICES ASSUME StorageInv, [StorageNext]_storageVars PROVE StorageInv'
  OBVIOUS
<1>1. CASE adaptor = "dynamo"
  BY <1>1, DynamoCases DEF StorageInv
<1>2. CASE adaptor # "dynamo"
  <2>1. LocalInv /\ ViewOK /\ TypeInv /\ adaptor \in {"badgerdb", "memory", "remote"}
    BY <1>2 DEF StorageInv, LocalInv
  <2>2. Usual /\ ViewOK' /\ adaptor' = adaptor
    BY <2>1, LocalCases
  <2>3. LocalInv'
    BY <2>1, <2>2, LocalKept
  <2> QED
    BY <1>2, <2>1, <2>2, <2>3 DEF StorageInv
<1> QED
  BY <1>1, <1>2

LEMMA StorageInvariant == StorageSpec => []StorageInv
BY InitStorage, NextStorage, PTL DEF StorageSpec

\* DeleteInv is part of the invariant with every storage.
LEMMA StorageDeleteInv == StorageInv => DeleteInv
BY DEF StorageInv, LocalInv, DynamoInv

\* The variables of a store keep their types with every storage.
THEOREM StorageTypes == StorageSpec => []TypeOK
<1>1. StorageInv => TypeOK
  BY StorageDeleteInv DEF DeleteInv, HistoryInv, PlaceInv
<1> QED
  BY <1>1, StorageInvariant, PTL

\* With every storage, what was stored before a DeleteKeygroup that succeeded began is
\* gone for good.  At a storage server this is so although the node may have given up
\* calls the server still works on, and with DynamoDB although the scans of the deletion
\* may read a replica that is behind.
THEOREM StorageDeletes == StorageSpec => []DeletedForGood
BY StorageInvariant, StorageDeleteInv, DeletedGone, PTL

\* With every storage, data without a keygroup comes from a write that ran while the
\* keygroup was being deleted, or from a DeleteKeygroup that did not finish.
THEOREM StorageLeftovers == StorageSpec => []LeftoversExplained
<1>1. StorageInv => LeftoversExplained
  BY StorageDeleteInv DEF DeleteInv
<1> QED
  BY <1>1, StorageInvariant, PTL

\* Reads see what was written: with BadgerDB and with a storage server every write that
\* had returned, with DynamoDB what Update and AddKeygroupTrigger wrote, once it has
\* reached all replicas of the table, and not in a scan: a trigger for good, an item
\* until the table has removed it, which it does to every item some time.
THEOREM StorageFinds == StorageSpec => []StorageReadsSee
<1>1. ASSUME StorageInv PROVE StorageReadsSee
  <2>1. CASE adaptor # "dynamo"
    BY <1>1, <2>1, FoundSeen DEF StorageInv, LocalInv, StorageReadsSee
  <2>2. CASE adaptor = "dynamo"
    <3>1. FoundOK(Getter, Putter, expired) /\ ExpiredOK /\ PlaceInv
      BY <1>1, <2>2 DEF StorageInv, DynamoInv, KeptOK, DeleteInv, HistoryInv
    <3>2. ASSUME NEW r \in Call, NEW w \in Call,
                 op[r] \in Getter, pc[r] \in {"done", "failed"}, w \in before[r], pc[w] = "done",
                 op[w] \in Putter, Matches(r, w), ~Undone(w), pc[r] = "failed" => ~Faults
          PROVE  \/ pc[r] = "done" /\ <<slot[w], w>> \in got[r]
                 \/ op[w] = "update" /\ <<slot[w], w>> \in expired
      <4>1. Sought(r, w, Getter, Putter)
        BY <3>2 DEF Sought, Settled
      <4>2. op[w] = "addTrigger" => slot[w][1] = "trigger"
        BY <3>1 DEF PlaceInv, PlacedOK, Placed
      <4>3. <<slot[w], w>> \in expired => op[w] = "update"
        BY <3>1, <3>2, <4>2 DEF ExpiredOK, Putter
      <4> QED
        BY <3>1, <4>1, <4>3 DEF FoundOK
    <3> QED
      BY <2>2, <3>2 DEF StorageReadsSee, Getter, Putter, Matches, Undone
  <2> QED
    BY <2>1, <2>2
<1> QED
  BY <1>1, StorageInvariant, PTL

\* No identifier is given out twice by BadgerDB, in the node or at a storage server.
THEOREM StorageNumbers == StorageSpec => []IdsNotReused
<1>1. StorageInv => IdsNotReused
  BY NumbersDistinct DEF StorageInv, LocalInv, IdsNotReused
<1> QED
  BY <1>1, StorageInvariant, PTL
==============================================================================
