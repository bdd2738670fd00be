------------------------- MODULE KeygroupStoreProofs -------------------------
(***************************************************************************)
(* Proofs about KeygroupStore: type correctness, that what a deletion      *)
(* found is gone for good, that leftovers have one of two explanations,    *)
(* that identifiers are never given out twice, and that reads see what was *)
(* written, for any number of calls, keys, triggers and crashes and any    *)
(* bandwidth.  The lemmas that NodeStorageProofs needs for other storages  *)
(* speak of PlaceInv and of steps that are Working or Losing, the others   *)
(* of TypeInv and of BadgerDB's steps.                                     *)
(***************************************************************************)
EXTENDS KeygroupStore, TLAPS

----------------------------------------------------------------------------
(* Type correctness *)

Writer == {"update", "append", "addTrigger"}

ItemSlots == {"item"} \X Nat

\* What the place l a call has reached says about its method o and its slot s ...
Placed(o, s, l) ==
    /\ l = "none" <=> o = "none"
    /\ l \in InDelete => o = "deleteKeygroup"
    /\ o = "deleteKeygroup" => l \in InDelete \cup Ended \cup {"check"}
    /\ l \in {"lookup", "next"} => o = "append"
    /\ l \in {"lease", "install"} => o \in {"append", "createKeygroup"}
    /\ o = "append" =>
          \/ s = NoSlot /\ l \in {"check", "lookup", "lease", "install", "next", "failed", "lost"}
          \/ s \in ItemSlots /\ l \in {"txn"} \cup Ended
    /\ o \in {"update", "addTrigger"} => s \in Slot
    /\ o = "addTrigger" => s[1] = "trigger"
    /\ o \in {"read", "scan"} => s \in ItemSlots
    /\ o \in {"readAll", "getTrigger"} => s = NoSlot

\* ... and, with BadgerDB, about its sequence object q.
Stands(o, s, q, l) == Placed(o, s, l) /\ (l \in {"install", "next", "release"} => q \in SeqNo)

PlacedOK == \A c \in Call : Placed(op[c], slot[c], pc[c])
ControlOK == \A c \in Call : Stands(op[c], slot[c], seq[c], pc[c])

\* The first holds with every storage, the second with BadgerDB.
PlaceInv == TypeOK /\ PlacedOK
TypeInv == TypeOK /\ ControlOK

LEMMA TypePlaces == TypeInv => PlaceInv
BY DEF TypeInv, PlaceInv, ControlOK, PlacedOK, Stands

LEMMA SmallFacts ==
    /\ Call \subseteq SeqNo /\ NoSeq \notin SeqNo /\ 0 \in SeqNo
    /\ Bandwidth \in Nat /\ Bandwidth > 0 /\ MaxCrashes \in Nat /\ Ops \subseteq Op
    /\ NoSlot \notin Slot /\ ItemSlots \subseteq Slot /\ NoSlot \notin ItemSlots
BY StoreAssumption DEF Call, SeqNo, NoSeq, NoSlot, Slot, ItemSlots

LEMMA ArgumentFacts ==
    ASSUME NEW o \in Op, NEW s \in Arguments(o)
    PROVE  /\ s \in Slot \cup {NoSlot}
           /\ o \in {"update", "addTrigger"} => s \in Slot
           /\ o \in {"read", "scan"} => s \in ItemSlots
           /\ o \in {"append", "readAll", "getTrigger"} => s = NoSlot
           /\ o = "addTrigger" => s[1] = "trigger"
BY StoreAssumption DEF Op, Arguments, Slot, NoSlot, ItemSlot, TriggerSlot, ItemSlots

LEMMA FirstStepFacts ==
    ASSUME NEW o \in Op
    PROVE  /\ FirstStep(o) \in {"lease", "unset", "lookup", "exists", "txn"}
           /\ o = "createKeygroup" <=> FirstStep(o) = "lease"
           /\ o = "deleteKeygroup" <=> FirstStep(o) = "unset"
           /\ o = "append" <=> FirstStep(o) = "lookup"
BY DEF Op, FirstStep

\* A step of c leaves the other calls where they are.
LEMMA GotoFacts ==
    ASSUME NEW c \in Call, NEW l, pc \in [Call -> Label], Goto(c, l)
    PROVE  /\ pc'[c] = l
           /\ \A d \in Call : d # c => pc'[d] = pc[d]
           /\ l \in Label => pc' \in [Call -> Label]
BY DEF Goto

\* ... so that only c itself is to be looked at, if nothing else of the calls
\* changes.
LEMMA StepControl ==
    ASSUME NEW c \in Call, NEW l, TypeInv, Goto(c, l), UNCHANGED <<op, slot, seq>>,
           Stands(op[c], slot[c], seq[c], l)
    PROVE  ControlOK'
BY GotoFacts DEF TypeInv, TypeOK, ControlOK

LEMMA InitTypeInv == Init => TypeInv
<1> SUFFICES ASSUME Init PROVE TypeInv
  OBVIOUS
<1>1. TypeOK
  BY SmallFacts DEF Init, TypeOK, Label, Slot, NoSlot
<1>2. ControlOK
  BY DEF Init, ControlOK, Stands, Placed, InDelete, Ended
<1> QED
  BY <1>1, <1>2 DEF TypeInv

\* Every step of the store is one of these.
LEMMA NextCases ==
    ASSUME [Next]_vars
    PROVE  \/ \E c \in Call, o \in Ops : \E s \in Arguments(o) : Begin(c, o, s)
           \/ \E c \in Call :
                \/ ExistsKeygroup(c) \/ CreateKeygroup(c) \/ Fails(c)
                \/ Update(c) \/ Delete(c) \/ Read(c) \/ Exists(c) \/ ReadSome(c) \/ ReadAll(c)
                \/ Lookup(c) \/ GetSequence(c) \/ Install(c) \/ IncrementSequence(c)
                \/ Append(c) \/ AddKeygroupTrigger(c) \/ DeleteKeygroupTrigger(c)
                \/ GetKeygroupTrigger(c) \/ DeleteMarker(c) \/ List(c) \/ Wipe(c)
                \/ TakeSequence(c) \/ Release(c) \/ DropSequence(c)
           \/ Crash
           \/ UNCHANGED vars
BY DEF Next, Step, ItemStep, TriggerStep, DeleteStep, Finished

LEMMA BeginPlace ==
    ASSUME PlaceInv, NEW c \in Call, NEW o \in Ops, NEW s \in Arguments(o),
           NEW B \in SUBSET Call, BeginAfter(c, o, s, B)
    PROVE  PlaceInv'
<1>1. o \in Op /\ o # "none" /\ s \in Slot \cup {NoSlot}
  BY SmallFacts, ArgumentFacts DEF Op
<1>2. TypeOK'
  BY <1>1 DEF PlaceInv, BeginAfter, Goto, TypeOK, Label, seqVars
<1>3. Placed(o, s, "check")
  BY <1>1, ArgumentFacts DEF Placed, InDelete, Ended
<1>4. PlacedOK'
  BY <1>1, <1>3 DEF PlaceInv, BeginAfter, Goto, TypeOK, PlacedOK
<1> QED
  BY <1>2, <1>4 DEF PlaceInv

LEMMA BeginType ==
    ASSUME TypeInv, NEW c \in Call, NEW o \in Ops, NEW s \in Arguments(o),
           NEW B \in SUBSET Call, BeginAfter(c, o, s, B)
    PROVE  TypeInv'
<1>1. PlaceInv'
  BY TypePlaces, BeginPlace
<1>2. \A d \in Call : pc'[d] = pc[d] \/ pc'[d] = "check"
  BY DEF BeginAfter, Goto, TypeInv, TypeOK
<1> QED
  BY <1>1, <1>2 DEF TypeInv, PlaceInv, PlacedOK, ControlOK, Stands, BeginAfter

LEMMA CheckType ==
    ASSUME TypeInv, NEW c \in Call, ExistsKeygroup(c)
    PROVE  TypeInv'
<1>1. PICK l \in {"failed", FirstStep(op[c])} : Goto(c, l)
  BY DEF ExistsKeygroup
<1>2. op[c] \in Op /\ Stands(op[c], slot[c], seq[c], "check")
  BY DEF TypeInv, TypeOK, ControlOK, Stands, Placed, ExistsKeygroup
<1>3. l \in Label /\ Stands(op[c], slot[c], seq[c], l)
  BY <1>1, <1>2, FirstStepFacts DEF Stands, Placed, Label, InDelete, Ended
<1>4. ControlOK'
  BY <1>1, <1>3, StepControl DEF ExistsKeygroup, callVars
<1>5. TypeOK'
  BY <1>1, <1>3, GotoFacts DEF TypeInv, TypeOK, ExistsKeygroup, seqVars, callVars
<1> QED
  BY <1>4, <1>5 DEF TypeInv

LEMMA SequenceType ==
    ASSUME TypeInv, NEW c \in Call,
           Lookup(c) \/ GetSequence(c) \/ Install(c) \/ IncrementSequence(c)
    PROVE  TypeInv'
<1> USE SmallFacts DEF TypeInv
<1>1. CASE Lookup(c)
  <2>1. TypeOK'
    BY <1>1 DEF Lookup, Goto, TypeOK, Label, seqVars, callVars
  <2>2. Stands(op[c], slot[c], seq[c], "lookup") /\ op[c] = "append"
    BY <1>1 DEF Lookup, At, ControlOK
  <2>3. Stands(op'[c], slot'[c], seq'[c], pc'[c])
    BY <1>1, <2>2 DEF Lookup, Goto, TypeOK, Stands, Placed, InDelete, Ended, callVars
  <2>4. ControlOK'
    BY <1>1, <2>3 DEF Lookup, Goto, TypeOK, ControlOK, callVars
  <2> QED
    BY <2>1, <2>4
<1>2. CASE GetSequence(c)
  <2>1. TypeOK'
    BY <1>2 DEF GetSequence, Goto, TypeOK, Label, callVars
  <2>2. Stands(op[c], slot[c], seq[c], "lease")
    BY <1>2 DEF GetSequence, ControlOK
  <2>3. Stands(op'[c], slot'[c], seq'[c], pc'[c])
    BY <1>2, <2>2 DEF GetSequence, Goto, TypeOK, Stands, Placed, InDelete, Ended, callVars
  <2>4. ControlOK'
    BY <1>2, <2>3 DEF GetSequence, Goto, TypeOK, ControlOK, callVars
  <2> QED
    BY <2>1, <2>4
<1>3. CASE Install(c)
  <2>1. Stands(op[c], slot[c], seq[c], "install")
    BY <1>3 DEF Install, ControlOK
  <2>2. TypeOK'
    BY <1>3, <2>1 DEF Install, Goto, TypeOK, Label, Stands, Placed, callVars
  <2>3. PICK l : Goto(c, l) /\ l = IF op[c] = "createKeygroup" THEN "commit" ELSE "next"
    BY <1>3 DEF Install
  <2>4. Stands(op[c], slot[c], seq[c], l)
    BY <2>1, <2>3 DEF Stands, Placed, InDelete, Ended
  <2>5. ControlOK'
    BY <1>3, <2>3, <2>4, StepControl DEF Install, callVars
  <2> QED
    BY <2>2, <2>5
<1>4. CASE IncrementSequence(c)
  <2>1. Stands(op[c], slot[c], seq[c], "next") /\ op[c] = "append"
    BY <1>4 DEF IncrementSequence, At, ControlOK
  <2>2. seq[c] \in SeqNo /\ NextNo(seq[c]) \in Nat
    BY <2>1 DEF Stands, Placed, TypeOK, NextNo
  <2>3. ItemSlot(NextNo(seq[c])) \in ItemSlots
    BY <2>2 DEF ItemSlots, ItemSlot
  <2>4. TypeOK'
    BY <1>4, <2>2, <2>3 DEF IncrementSequence, Goto, TypeOK, Label
  <2>5. Stands(op'[c], slot'[c], seq'[c], pc'[c])
    BY <1>4, <2>1, <2>3 DEF IncrementSequence, Goto, TypeOK, Stands, Placed, InDelete, Ended
  <2>6. ControlOK'
    BY <1>4, <2>5 DEF IncrementSequence, Goto, TypeOK, ControlOK
  <2> QED
    BY <2>4, <2>6
<1> QED
  BY <1>1, <1>2, <1>3, <1>4

\* The transactions of writes and removals.
LEMMA WriteType ==
    ASSUME TypeInv, NEW c \in Call,
           Update(c) \/ Append(c) \/ AddKeygroupTrigger(c)
           \/ Delete(c) \/ DeleteKeygroupTrigger(c)
    PROVE  TypeInv'
<1> USE SmallFacts DEF TypeInv
<1>1. pc[c] = "txn" /\ Goto(c, "done") /\ op[c] # "deleteKeygroup"
      /\ UNCHANGED <<config, rolling, next, leased, seqMap, op, slot, before, todo, seq, got, crashes>>
  BY DEF Update, Append, AddKeygroupTrigger, Delete, DeleteKeygroupTrigger, At, Write, Erase,
         seqVars, callVars
<1>2. Stands(op[c], slot[c], seq[c], "txn")
  BY <1>1 DEF ControlOK
<1>3. entries' \subseteq Slot \X Call
  <2>1. CASE Delete(c) \/ DeleteKeygroupTrigger(c)
    BY <2>1 DEF TypeOK, Delete, DeleteKeygroupTrigger, Erase, Remove
  <2>2. CASE Update(c) \/ Append(c) \/ AddKeygroupTrigger(c)
    <3>1. slot[c] \in Slot
      BY <1>2, <2>2 DEF Update, Append, AddKeygroupTrigger, At, Stands, Placed
    <3> QED
      BY <2>2, <3>1 DEF TypeOK, Update, Append, AddKeygroupTrigger, Write, Put
  <2> QED
    BY <2>1, <2>2
<1>4. TypeOK'
  BY <1>1, <1>3, GotoFacts DEF TypeOK, Label, Ended
<1>5. Stands(op[c], slot[c], seq[c], "done")
  BY <1>1, <1>2 DEF Stands, Placed, InDelete, Ended
<1>6. ControlOK'
  BY <1>1, <1>5, StepControl
<1> QED
  BY <1>4, <1>6

LEMMA ReadType ==
    ASSUME TypeInv, NEW c \in Call,
           Read(c) \/ Exists(c) \/ ReadSome(c) \/ ReadAll(c) \/ GetKeygroupTrigger(c)
    PROVE  TypeInv'
<1> USE DEF TypeInv
<1>1. pc[c] \in {"txn", "exists"} /\ op[c] \in {"read", "scan", "readAll", "getTrigger"}
      /\ UNCHANGED <<config, entries, rolling, next, leased, seqMap, op, slot, before, todo, seq, crashes>>
  BY DEF Read, Exists, ReadSome, ReadAll, GetKeygroupTrigger, At, seqVars, callVars
<1>2. PICK l \in {"done", "failed", "txn"} : Goto(c, l)
  BY DEF Read, Exists, ReadSome, ReadAll, GetKeygroupTrigger
<1>3. got' \in [Call -> SUBSET (Slot \X Call)]
  <2>1. PICK S \in SUBSET entries : got' = [got EXCEPT ![c] = S] \/ UNCHANGED got
    BY Zenon DEF Read, Exists, ReadSome, ReadAll, GetKeygroupTrigger, WithPrefix
  <2> QED
    BY <2>1 DEF TypeOK
<1>4. TypeOK'
  BY <1>1, <1>2, <1>3, GotoFacts DEF TypeOK, Label, Ended
<1>5. Stands(op[c], slot[c], seq[c], l)
  BY <1>1, <1>2 DEF Stands, Placed, InDelete, Ended, ControlOK
<1>6. ControlOK'
  BY <1>1, <1>2, <1>5, StepControl
<1> QED
  BY <1>4, <1>6

LEMMA DeleteType ==
    ASSUME TypeInv, NEW c \in Call,
           DeleteMarker(c) \/ List(c) \/ Wipe(c) \/ Release(c) \/ DropSequence(c)
    PROVE  TypeInv'
<1> USE SmallFacts DEF TypeInv
<1>1. op[c] = "deleteKeygroup" /\ Stands(op[c], slot[c], seq[c], pc[c])
      /\ UNCHANGED <<op, slot, before, seq, got, crashes>>
  BY DEF ControlOK, Stands, Placed, DeleteMarker, List, Wipe, Release, DropSequence, InDelete,
         seqVars, callVars
<1>2. PICK l \in {"list", "wipe", "wipeTriggers", "listTriggers", "getSeq", "drop", "done"} :
         Goto(c, l)
  BY DEF DeleteMarker, List, Wipe, Release, DropSequence, Goto, TypeOK
<1>3. Stands(op[c], slot[c], seq[c], l)
  BY <1>1, <1>2 DEF Stands, Placed, InDelete, Ended
<1>4. ControlOK'
  BY <1>1, <1>2, <1>3, StepControl
<1>5. pc' \in [Call -> Label]
  BY <1>2, GotoFacts DEF TypeOK, Label, InDelete, Ended
<1>6. CASE DeleteMarker(c)
  BY <1>1, <1>4, <1>5, <1>6 DEF DeleteMarker, TypeOK, seqVars
<1>7. CASE List(c)
  <2>1. SlotsOf("item") \subseteq Slot /\ SlotsOf("trigger") \subseteq Slot
    BY DEF SlotsOf, WithPrefix, TypeOK
  <2> QED
    BY <1>1, <1>4, <1>5, <1>7, <2>1 DEF List, TypeOK, seqVars
<1>8. CASE Wipe(c)
  <2>1. entries' \subseteq entries
    BY <1>8 DEF Wipe, Remove
  <2>2. todo' \in [Call -> SUBSET (Slot \cup {Marker})]
    BY <1>8 DEF Wipe, TypeOK
  <2> QED
    BY <1>1, <1>4, <1>5, <1>8, <2>1, <2>2 DEF Wipe, TypeOK, seqVars
<1>9. CASE Release(c)
  <2>1. seq[c] \in SeqNo
    BY <1>1, <1>9 DEF Release, Stands, Placed
  <2> QED
    BY <1>1, <1>4, <1>5, <1>9, <2>1 DEF Release, TypeOK
<1>10. CASE DropSequence(c)
  BY <1>1, <1>4, <1>5, <1>10 DEF DropSequence, TypeOK
<1> QED
  BY <1>6, <1>7, <1>8, <1>9, <1>10

LEMMA TakeType ==
    ASSUME TypeInv, NEW c \in Call, TakeSequence(c)
    PROVE  TypeInv'
<1> USE SmallFacts DEF TypeInv
<1>1. TypeOK'
  BY DEF TakeSequence, Goto, TypeOK, Label, Ended, InDelete, seqVars, callVars
<1>2. Stands(op[c], slot[c], seq[c], "getSeq")
  BY DEF TakeSequence, ControlOK
<1>3. Stands(op'[c], slot'[c], seq'[c], pc'[c])
  BY <1>2 DEF TakeSequence, Goto, TypeOK, Stands, Placed, InDelete, Ended, callVars
<1>4. ControlOK'
  BY <1>3 DEF TakeSequence, Goto, TypeOK, ControlOK, callVars
<1> QED
  BY <1>1, <1>4

LEMMA EndType ==
    ASSUME TypeInv, NEW c \in Call, CreateKeygroup(c) \/ Fails(c)
    PROVE  TypeInv'
<1> USE SmallFacts DEF TypeInv
<1>1. UNCHANGED <<entries, rolling, next, leased, op, slot, before, todo, seq, got, crashes>>
      /\ config' \in BOOLEAN /\ seqMap' \in SeqNo \cup {NoSeq}
  BY DEF CreateKeygroup, Fails, TypeOK, seqVars, callVars
<1>2. PICK l \in {"done", "failed"} :
         Goto(c, l) /\ (l = "done" => op[c] = "createKeygroup") /\ pc[c] # "none"
  BY DEF CreateKeygroup, Fails, At, InDelete
<1>3. Stands(op[c], slot[c], seq[c], l)
  BY <1>2 DEF ControlOK, Stands, Placed, InDelete, Ended
<1>4. ControlOK'
  BY <1>1, <1>2, <1>3, StepControl
<1>5. TypeOK'
  BY <1>1, <1>2, GotoFacts DEF TypeOK, Label, Ended
<1> QED
  BY <1>4, <1>5

\* The calls L are lost, and perhaps the sequence objects.
Losing(L) ==
    /\ L \subseteq Running
    /\ pc' = [c \in Call |-> IF c \in L THEN "lost" ELSE pc[c]]
    /\ \/ UNCHANGED <<next, leased, seqMap>>
       \/ /\ next' = [q \in SeqNo |-> 0]
          /\ leased' = [q \in SeqNo |-> 0]
          /\ seqMap' = NoSeq
    /\ crashes' \in 0..MaxCrashes
    /\ UNCHANGED <<config, entries, rolling, callVars, todo, seq, got>>

LEMMA StopLoses ==
    ASSUME TypeOK, NEW C \in SUBSET Running, Stop(C)
    PROVE  Losing(C)
BY SmallFacts DEF Stop, Losing, TypeOK

LEMMA LosingPlace ==
    ASSUME PlaceInv, NEW L, Losing(L)
    PROVE  PlaceInv'
<1> USE SmallFacts DEF PlaceInv
<1>1. TypeOK'
  BY DEF Losing, Running, TypeOK, Label, Ended, InDelete, callVars
<1>2. ASSUME NEW c \in Call PROVE Placed(op[c], slot[c], pc[c])'
  <2>1. Placed(op[c], slot[c], pc[c])
    BY DEF PlacedOK
  <2>2. Placed(op[c], slot[c], "lost") \/ pc[c] \in Ended \cup {"none"}
    BY <2>1 DEF Placed, InDelete, Ended
  <2> QED
    BY <2>1, <2>2 DEF Losing, Running, TypeOK, callVars
<1> QED
  BY <1>1, <1>2 DEF PlacedOK

LEMMA LosingType ==
    ASSUME TypeInv, NEW L, Losing(L)
    PROVE  TypeInv'
<1>1. PlaceInv'
  BY TypePlaces, LosingPlace
<1>2. \A d \in Call : pc'[d] = pc[d] \/ pc'[d] = "lost"
  BY DEF Losing
<1> QED
  BY <1>1, <1>2 DEF TypeInv, PlaceInv, PlacedOK, ControlOK, Stands, Losing

LEMMA NextTypeInv == TypeInv /\ [Next]_vars => TypeInv'
<1> SUFFICES ASSUME TypeInv, [Next]_vars PROVE TypeInv'
  OBVIOUS
<1>1. CASE UNCHANGED vars
  BY <1>1 DEF TypeInv, TypeOK, ControlOK, vars, seqVars, callVars
<1>2. CASE \E c \in Call, o \in Ops : \E s \in Arguments(o) : Begin(c, o, s)
  BY <1>2, BeginType DEF Begin
<1>3. CASE Crash
  BY <1>3, StopLoses, LosingType DEF Crash, TypeInv
<1> QED
  BY <1>1, <1>2, <1>3, NextCases, CheckType, SequenceType, WriteType, ReadType, DeleteType,
     TakeType, EndType

\* The variables of a node's store keep their types.
THEOREM TypeCorrect == Spec => []TypeOK
<1>1. Spec => []TypeInv
  BY InitTypeInv, NextTypeInv, PTL DEF Spec
<1>2. TypeInv => TypeOK
  BY DEF TypeInv
<1> QED
  BY <1>1, <1>2, PTL

----------------------------------------------------------------------------
(* Deletions.  The invariant says what a deletion has got rid of so far, and *)
(* why a call may still write although the keygroup is not there any more.   *)
(* It is that of every storage, so it is stated for what their steps have    *)
(* in common (Working).                                                      *)

\* What is stored was written by a call that has ended.
EntriesOK == \A e \in entries : pc[e[2]] \in Ended /\ op[e[2]] \in Writer

\* The calls before c have ended.
BeforeOK == \A c, d \in Call : d \in before[c] => pc[d] \in Ended /\ pc[c] # "none"

\* Entry e was there when deletion d began: it is on the list of d, once that
\* is made, until it is gone.
Caught(d, e) ==
    /\ pc[d] = "wipe" /\ e[1][1] = "item" => e[1] \in todo[d]
    /\ pc[d] = "wipeTriggers" /\ e[1][1] = "trigger" => e[1] \in todo[d]
    /\ pc[d] \in {"listTriggers", "wipeTriggers", "getSeq", "release", "drop", "done"}
          => e[1][1] # "item"
    /\ pc[d] \in {"getSeq", "release", "drop", "done"} => e[1][1] # "trigger"

GoneOK ==
    \A d \in Call : op[d] = "deleteKeygroup" =>
        \A e \in entries : e[2] \in before[d] => Caught(d, e)

\* The call has found the keygroup and not returned yet.
Past(c) == pc[c] \notin Ended \cup {"none", "check"}

\* A deletion that had not ended when c began.
Doubtful(c) == \E d \in Call : op[d] = "deleteKeygroup" /\ d \notin before[c]

\* It is the only reason for the keygroup of a writer not to be there any more.
SeenOK == \A c \in Call : op[c] \in Writer /\ Past(c) => config \/ Doubtful(c)

HistoryInv == PlaceInv /\ EntriesOK /\ BeforeOK

DeleteInv == HistoryInv /\ GoneOK /\ SeenOK /\ LeftoversExplained

\* c stores something, and returns.
Storing(c) ==
    /\ op[c] \in Writer /\ pc[c] = "txn" /\ pc'[c] \in Ended
    /\ entries' \subseteq entries \cup {<<slot[c], c>>}
    /\ config' = config

\* A step of call c changes nothing of the other calls.
Moving(c) ==
    /\ pc[c] \notin Ended \cup {"none"}
    /\ pc'[c] \notin {"none", "check"}
    /\ op' = op /\ before' = before
    /\ slot'[c] = slot[c] \/ (slot[c] = NoSlot /\ op[c] = "append")
    /\ \A d \in Call \ {c} :
          pc'[d] = pc[d] /\ todo'[d] = todo[d] /\ slot'[d] = slot[d] /\ got'[d] = got[d]

\* The call may remove or replace an entry.
Touches(c, e) == op[c] = "deleteKeygroup" \/ (slot[c] = e[1] /\ op[c] \notin {"read", "scan"})

\* Only a deletion removes the marker of the keygroup.
MarkerStep(c) ==
    \/ config' = config
    \/ config' = TRUE
    \/ op[c] = "deleteKeygroup" /\ pc'[c] \in InDelete \cup {"failed"} /\ config' = FALSE

Working(c) ==
    /\ Moving(c) /\ MarkerStep(c)
    /\ entries' \subseteq entries \/ Storing(c)
    /\ \A e \in entries \ entries' : Touches(c, e)
    /\ op[c] \in Writer /\ pc[c] = "check" /\ pc'[c] # "failed" => config \/ Doubtful(c)
    /\ op[c] = "deleteKeygroup" =>
          \A e \in entries \cap entries' : e[2] \in before[c] => Caught(c, e)'

LEMMA EntryFacts ==
    ASSUME PlaceInv, NEW e \in entries
    PROVE  /\ e = <<e[1], e[2]>> /\ e[1] \in Slot /\ e[2] \in Call
           /\ e[1][1] \in {"item", "trigger"}
BY DEF PlaceInv, TypeOK, Slot

LEMMA BeginDelete ==
    ASSUME DeleteInv, PlaceInv', NEW c \in Call, NEW o \in Ops, NEW s \in Arguments(o),
           NEW B, \A d \in B : d \in Call /\ pc[d] \in Ended, BeginAfter(c, o, s, B)
    PROVE  DeleteInv'
<1> USE DEF DeleteInv, HistoryInv
<1>1. /\ pc[c] = "none" /\ pc'[c] = "check" /\ op[c] = "none" /\ before'[c] = B
      /\ UNCHANGED <<entries, config, todo>>
  BY DEF BeginAfter, Goto, PlaceInv, TypeOK, PlacedOK, Placed
<1>2. \A d \in Call \ {c} : pc'[d] = pc[d] /\ op'[d] = op[d] /\ before'[d] = before[d]
  BY DEF BeginAfter, Goto, PlaceInv, TypeOK
<1>3. \A e \in entries : e[2] \in Call \ {c}
  BY <1>1, EntryFacts DEF EntriesOK, Ended
<1>4. EntriesOK'
  BY <1>1, <1>2, <1>3 DEF EntriesOK
<1>5. BeforeOK'
  BY <1>1, <1>2 DEF BeforeOK, Ended
<1>6. GoneOK'
  <2> SUFFICES ASSUME NEW d \in Call, op'[d] = "deleteKeygroup",
                      NEW e \in entries', e[2] \in before'[d]
               PROVE  Caught(d, e)'
    BY DEF GoneOK
  <2>1. CASE d = c
    BY <1>1, <2>1 DEF Caught
  <2>2. CASE d # c
    BY <1>1, <1>2, <2>2 DEF Caught, GoneOK
  <2> QED
    BY <2>1, <2>2
<1>7. SeenOK'
  BY <1>1, <1>2 DEF SeenOK, Past, Doubtful
<1>8. LeftoversExplained'
  <2> SUFFICES ASSUME ~config', NEW e \in entries'
               PROVE  \E d \in Call : /\ op'[d] = "deleteKeygroup"
                                      /\ Overlap(d, e[2])' \/ pc'[d] \in InDelete \cup {"failed", "lost"}
    BY DEF LeftoversExplained
  <2>1. PICK d \in Call : /\ op[d] = "deleteKeygroup"
                          /\ Overlap(d, e[2]) \/ pc[d] \in InDelete \cup {"failed", "lost"}
    BY <1>1 DEF LeftoversExplained
  <2>2. d # c
    BY <1>1, <2>1
  <2> QED
    BY <1>1, <1>2, <1>3, <2>1, <2>2 DEF Overlap
<1> QED
  BY <1>4, <1>5, <1>6, <1>7, <1>8

LEMMA SameDelete ==
    ASSUME DeleteInv, PlaceInv', entries' \subseteq entries, UNCHANGED <<config, pc, op, before, todo>>
    PROVE  DeleteInv'
<1> USE DEF DeleteInv, HistoryInv
<1>1. EntriesOK' /\ BeforeOK'
  BY DEF EntriesOK, BeforeOK
<1>2. GoneOK'
  BY DEF GoneOK, Caught
<1>3. SeenOK'
  BY DEF SeenOK, Past, Doubtful
<1>4. LeftoversExplained'
  BY DEF LeftoversExplained, Overlap
<1> QED
  BY <1>1, <1>2, <1>3, <1>4

LEMMA LosingDelete ==
    ASSUME DeleteInv, PlaceInv', NEW L, Losing(L)
    PROVE  DeleteInv'
<1> USE DEF DeleteInv, HistoryInv
<1>1. UNCHANGED <<entries, config, todo, op, before>>
  BY DEF Losing, callVars
<1>2. \A d \in Call : pc'[d] = pc[d] \/ (pc[d] \notin Ended \cup {"none"} /\ pc'[d] = "lost")
  BY DEF Losing, Running
<1>3. EntriesOK'
  BY <1>1, <1>2, EntryFacts DEF EntriesOK, Ended
<1>4. BeforeOK'
  BY <1>1, <1>2 DEF BeforeOK, Ended
<1>5. GoneOK'
  BY <1>1, <1>2 DEF GoneOK, Caught, Ended
<1>6. SeenOK'
  BY <1>1, <1>2 DEF SeenOK, Past, Ended, Doubtful
<1>7. LeftoversExplained'
  BY <1>1, <1>2 DEF LeftoversExplained, Overlap, Ended, InDelete
<1> QED
  BY <1>3, <1>4, <1>5, <1>6, <1>7

LEMMA WorkingHistory ==
    ASSUME HistoryInv, PlaceInv', NEW c \in Call, Working(c)
    PROVE  HistoryInv'
<1> USE DEF HistoryInv
<1>1. Moving(c)
  BY DEF Working
<1>2. EntriesOK'
  <2> SUFFICES ASSUME NEW e \in entries' PROVE pc'[e[2]] \in Ended /\ op'[e[2]] \in Writer
    BY DEF EntriesOK
  <2>1. CASE e \in entries
    <3>1. pc[e[2]] \in Ended /\ op[e[2]] \in Writer /\ e[2] \in Call
      BY <2>1, EntryFacts DEF EntriesOK
    <3> QED
      BY <1>1, <3>1 DEF Moving, Ended
  <2>2. CASE e \notin entries
    BY <1>1, <2>2 DEF Working, Storing, Moving
  <2> QED
    BY <2>1, <2>2
<1>3. BeforeOK'
  BY <1>1 DEF BeforeOK, Moving
<1> QED
  BY <1>2, <1>3

LEMMA WorkingDelete ==
    ASSUME DeleteInv, PlaceInv', NEW c \in Call, Working(c)
    PROVE  DeleteInv'
<1> USE DEF DeleteInv
<1>1. Moving(c) /\ HistoryInv'
  BY WorkingHistory DEF HistoryInv, Working
<1>2. \A d \in Call : c \notin before[d]
  BY <1>1 DEF HistoryInv, BeforeOK, Moving
<1>3. \A e \in entries' : e \notin entries => Storing(c) /\ e = <<slot[c], c>>
  BY DEF Working, Storing
<1>4. GoneOK'
  <2> SUFFICES ASSUME NEW d \in Call, op'[d] = "deleteKeygroup",
                      NEW e \in entries', e[2] \in before'[d]
               PROVE  Caught(d, e)'
    BY DEF GoneOK
  <2>1. op[d] = "deleteKeygroup" /\ e[2] \in before[d]
    BY <1>1 DEF Moving
  <2>2. e \in entries
    BY <1>2, <1>3, <2>1
  <2>3. CASE d = c
    BY <2>1, <2>2, <2>3 DEF Working
  <2>4. CASE d # c
    BY <1>1, <2>1, <2>2, <2>4 DEF GoneOK, Caught, Moving
  <2> QED
    BY <2>3, <2>4
<1>5. SeenOK'
  <2> SUFFICES ASSUME NEW w \in Call, op'[w] \in Writer, Past(w)', ~config'
               PROVE  Doubtful(w)'
    BY DEF SeenOK
  <2>1. op[w] \in Writer /\ (Doubtful(w) => Doubtful(w)')
    BY <1>1 DEF Moving, Doubtful
  <2>2. CASE config
    <3>1. op[c] = "deleteKeygroup"
      BY <2>2 DEF Working, MarkerStep
    <3> QED
      BY <1>1, <1>2, <3>1 DEF Moving, Doubtful
  <2>3. CASE ~config
    <3>1. CASE w # c \/ pc[c] # "check"
      <4>1. Past(w)
        BY <1>1, <3>1 DEF Past, Moving
      <4> QED
        BY <2>1, <2>3, <4>1 DEF SeenOK
    <3>2. CASE w = c /\ pc[c] = "check"
      BY <2>1, <2>3, <3>2 DEF Working, Past, Ended
    <3> QED
      BY <3>1, <3>2
  <2> QED
    BY <2>2, <2>3
<1>6. LeftoversExplained'
  <2> SUFFICES ASSUME ~config', NEW e \in entries'
               PROVE  \E d \in Call : /\ op'[d] = "deleteKeygroup"
                                      /\ Overlap(d, e[2])' \/ pc'[d] \in InDelete \cup {"failed", "lost"}
    BY DEF LeftoversExplained
  <2>1. CASE config
    <3>1. op[c] = "deleteKeygroup" /\ pc'[c] \in InDelete \cup {"failed"}
      BY <2>1 DEF Working, MarkerStep
    <3> QED
      BY <1>1, <3>1 DEF Moving
  <2>2. CASE ~config /\ e \notin entries
    <3>1. Storing(c) /\ e[2] = c
      BY <1>3, <2>2
    <3>2. Doubtful(c)
      BY <2>2, <3>1 DEF SeenOK, Storing, Past, Ended
    <3> QED
      BY <1>1, <1>2, <3>1, <3>2 DEF Overlap, Moving, Doubtful
  <2>3. CASE ~config /\ e \in entries
    <3>1. PICK d \in Call : /\ op[d] = "deleteKeygroup"
                            /\ Overlap(d, e[2]) \/ pc[d] \in InDelete \cup {"failed", "lost"}
      BY <2>3 DEF LeftoversExplained
    <3>2. CASE Overlap(d, e[2]) \/ d # c
      <4>1. op'[d] = "deleteKeygroup" /\ (Overlap(d, e[2]) => Overlap(d, e[2])')
        BY <1>1, <3>1 DEF Overlap, Moving
      <4>2. d # c => pc'[d] = pc[d]
        BY <1>1 DEF Moving
      <4> QED
        BY <3>1, <3>2, <4>1, <4>2
    <3>3. CASE d = c /\ pc'[c] # "done"
      <4>1. pc'[c] \in InDelete \cup Ended \cup {"check"}
        BY <1>1, <3>1, <3>3 DEF HistoryInv, PlaceInv, PlacedOK, Placed, Moving
      <4> QED
        BY <1>1, <3>1, <3>3, <4>1 DEF Moving, Ended
    <3>4. CASE d = c /\ pc'[c] = "done"
      <4>1. e[2] \in Call /\ e[1][1] \in {"item", "trigger"}
        BY <2>3, EntryFacts DEF HistoryInv
      <4>2. e[2] \notin before[c]
        BY <1>1, <1>4, <3>1, <3>4, <4>1 DEF GoneOK, Caught, Moving
      <4> QED
        BY <1>1, <1>2, <3>1, <3>4, <4>1, <4>2 DEF Overlap, Moving
    <3> QED
      BY <3>2, <3>3, <3>4
  <2> QED
    BY <2>1, <2>2, <2>3
<1> QED
  BY <1>1, <1>4, <1>5, <1>6

\* BadgerDB's steps.
LEMMA StepMoves ==
    ASSUME PlaceInv, NEW c \in Call, Step(c)
    PROVE  Moving(c)
<1>1. PICK l : Goto(c, l) /\ l \notin {"none", "check"}
               /\ pc[c] \notin Ended \cup {"none"} /\ op' = op /\ before' = before
  <2> USE DEF PlaceInv, seqVars, callVars, Ended
  <2>1. CASE ExistsKeygroup(c)
    <3>1. op[c] \in Op
      BY <2>1 DEF TypeOK, PlacedOK, Placed, ExistsKeygroup
    <3>2. PICK l \in {"failed", FirstStep(op[c])} : Goto(c, l)
      BY <2>1 DEF ExistsKeygroup
    <3>3. l \notin {"none", "check"}
      BY <3>1, <3>2, FirstStepFacts
    <3> QED
      BY <2>1, <3>2, <3>3 DEF ExistsKeygroup
  <2>2. CASE CreateKeygroup(c) \/ Fails(c)
    BY <2>2 DEF CreateKeygroup, Fails, At, InDelete
  <2>3. CASE ItemStep(c)
    BY <2>3 DEF ItemStep, Update, Delete, Read, Exists, ReadSome, ReadAll, Lookup, GetSequence, Install,
                IncrementSequence, Append, Write, Erase, At
  <2>4. CASE TriggerStep(c)
    BY <2>4 DEF TriggerStep, AddKeygroupTrigger, DeleteKeygroupTrigger, GetKeygroupTrigger,
                Write, Erase, At
  <2>5. CASE DeleteStep(c)
    <3>1. CASE Wipe(c) /\ UNCHANGED pc
      <4>1. Goto(c, pc[c])
        BY <3>1 DEF Goto, TypeOK
      <4> QED
        BY <3>1, <4>1 DEF Wipe
    <3>2. CASE Wipe(c) /\ ~UNCHANGED pc
      BY <3>2 DEF Wipe
    <3> QED
      BY <2>5, <3>1, <3>2 DEF DeleteStep, DeleteMarker, List, TakeSequence, Release, DropSequence
  <2> QED
    BY <2>1, <2>2, <2>3, <2>4, <2>5 DEF Step
<1>2. \A d \in Call \ {c} : todo'[d] = todo[d]
  <2> USE DEF PlaceInv, TypeOK
  <2>1. CASE List(c) \/ Wipe(c)
    BY <2>1 DEF List, Wipe
  <2>2. CASE ~(List(c) \/ Wipe(c))
    <3>1. todo' = todo
      BY <2>2 DEF Step, ItemStep, TriggerStep, DeleteStep, ExistsKeygroup, CreateKeygroup, Fails,
           Update, Delete, Read, Exists, ReadSome, ReadAll, Lookup, GetSequence, Install,
           IncrementSequence, Append, Write, Erase, AddKeygroupTrigger, DeleteKeygroupTrigger,
           GetKeygroupTrigger, DeleteMarker, TakeSequence, Release, DropSequence
    <3> QED
      BY <3>1
  <2> QED
    BY <2>1, <2>2
<1>3. /\ slot'[c] = slot[c] \/ (slot[c] = NoSlot /\ op[c] = "append")
      /\ \A d \in Call \ {c} : slot'[d] = slot[d]
  <2> USE DEF PlaceInv, TypeOK
  <2>1. CASE IncrementSequence(c)
    <3>1. slot[c] = NoSlot /\ op[c] = "append"
      BY <2>1 DEF PlacedOK, Placed, IncrementSequence, At, Ended
    <3> QED
      BY <2>1, <3>1 DEF IncrementSequence
  <2>2. CASE ~IncrementSequence(c)
    <3>1. slot' = slot
      BY <2>2 DEF Step, ItemStep, TriggerStep, DeleteStep, ExistsKeygroup, CreateKeygroup, Fails,
           Update, Delete, Read, Exists, ReadSome, ReadAll, Lookup, GetSequence, Install, List, Wipe,
           Append, Write, Erase, AddKeygroupTrigger, DeleteKeygroupTrigger, callVars,
           GetKeygroupTrigger, DeleteMarker, TakeSequence, Release, DropSequence
    <3> QED
      BY <3>1
  <2> QED
    BY <2>1, <2>2
<1>4. \A d \in Call \ {c} : got'[d] = got[d]
  <2> USE DEF PlaceInv, TypeOK
  <2>1. CASE Read(c) \/ ReadSome(c) \/ ReadAll(c) \/ GetKeygroupTrigger(c)
    BY <2>1 DEF Read, ReadSome, ReadAll, GetKeygroupTrigger
  <2>2. CASE ~(Read(c) \/ ReadSome(c) \/ ReadAll(c) \/ GetKeygroupTrigger(c))
    <3>1. got' = got
      BY <2>2 DEF Step, ItemStep, TriggerStep, DeleteStep, ExistsKeygroup, CreateKeygroup, Fails,
           Update, Delete, Exists, Lookup, GetSequence, Install, List, Wipe,
           IncrementSequence, Append, Write, Erase, AddKeygroupTrigger, DeleteKeygroupTrigger,
           DeleteMarker, TakeSequence, Release, DropSequence
    <3> QED
      BY <3>1
  <2> QED
    BY <2>1, <2>2
<1> QED
  BY <1>1, <1>2, <1>3, <1>4, GotoFacts DEF Moving, PlaceInv, TypeOK

LEMMA StepEntries ==
    ASSUME PlaceInv, NEW c \in Call, Step(c)
    PROVE  /\ entries' \subseteq entries \/ Storing(c)
           /\ \A e \in entries \ entries' : Touches(c, e)
<1>1. CASE Update(c) \/ Append(c) \/ AddKeygroupTrigger(c)
  <2>1. op[c] \in Writer /\ pc[c] = "txn" /\ Write(c)
    BY <1>1 DEF Update, Append, AddKeygroupTrigger, At, Writer
  <2>2. pc'[c] = "done"
    BY <2>1, GotoFacts DEF Write, PlaceInv, TypeOK
  <2> QED
    BY <2>1, <2>2 DEF Storing, Write, Put, Touches, Writer, Ended
<1>2. CASE Delete(c) \/ DeleteKeygroupTrigger(c)
  BY <1>2 DEF Delete, DeleteKeygroupTrigger, Erase, Remove, Touches, At
<1>3. CASE Wipe(c)
  <2>1. op[c] = "deleteKeygroup"
    BY <1>3 DEF PlaceInv, PlacedOK, Placed, Wipe, InDelete
  <2> QED
    BY <1>3, <2>1 DEF Wipe, Remove, Touches
<1>4. CASE ~(Update(c) \/ Append(c) \/ AddKeygroupTrigger(c) \/ Delete(c)
             \/ DeleteKeygroupTrigger(c) \/ Wipe(c))
  BY <1>4 DEF Step, ItemStep, TriggerStep, DeleteStep, ExistsKeygroup, CreateKeygroup, Fails,
     Read, Exists, ReadSome, ReadAll, Lookup, GetSequence, Install, IncrementSequence,
     GetKeygroupTrigger, DeleteMarker, List, TakeSequence, Release, DropSequence
<1> QED
  BY <1>1, <1>2, <1>3, <1>4

LEMMA StepMarker ==
    ASSUME PlaceInv, NEW c \in Call, Step(c)
    PROVE  MarkerStep(c)
<1>1. CASE DeleteMarker(c)
  <2>1. op[c] = "deleteKeygroup" /\ pc'[c] = "list"
    BY <1>1, GotoFacts DEF PlaceInv, PlacedOK, TypeOK, Placed, DeleteMarker, InDelete
  <2> QED
    BY <1>1, <2>1 DEF DeleteMarker, MarkerStep, InDelete
<1>2. CASE ~DeleteMarker(c)
  BY <1>2 DEF Step, ItemStep, TriggerStep, DeleteStep, ExistsKeygroup, CreateKeygroup, Fails,
       Update, Delete, Read, Exists, ReadSome, ReadAll, Lookup, GetSequence, Install,
       IncrementSequence, Append, Write, Erase, AddKeygroupTrigger, DeleteKeygroupTrigger,
       GetKeygroupTrigger, List, Wipe, TakeSequence, Release, DropSequence, MarkerStep
<1> QED
  BY <1>1, <1>2

\* Who has yet to look for the keygroup does so.
LEMMA StepChecks ==
    ASSUME NEW c \in Call, Step(c), pc[c] = "check"
    PROVE  ExistsKeygroup(c)
BY DEF Step, ItemStep, TriggerStep, DeleteStep, CreateKeygroup, Fails,
     Update, Delete, Read, Exists, ReadSome, ReadAll, Lookup, GetSequence, Install, At, InDelete,
     IncrementSequence, Append, AddKeygroupTrigger, DeleteKeygroupTrigger,
     GetKeygroupTrigger, DeleteMarker, List, Wipe, TakeSequence, Release, DropSequence

\* A deletion's own steps.
LEMMA StepOwn ==
    ASSUME DeleteInv, NEW c \in Call, Step(c), op[c] = "deleteKeygroup",
           NEW e \in entries, e \in entries', e[2] \in before[c]
    PROVE  Caught(c, e)'
<1> USE DEF DeleteInv, HistoryInv
<1>1. Caught(c, e) /\ e[1][1] \in {"item", "trigger"}
  BY EntryFacts DEF GoneOK
<1>2. pc[c] \in InDelete \cup Ended \cup {"check"} /\ pc \in [Call -> Label]
  BY DEF PlaceInv, PlacedOK, Placed, TypeOK
<1>3. CASE List(c)
  <2>1. e[1] \in SlotsOf(e[1][1])
    BY DEF SlotsOf, WithPrefix
  <2>2. CASE pc[c] = "list"
    <3>1. pc'[c] = "wipe" /\ todo'[c] = SlotsOf("item")
      BY <1>2, <1>3, <2>2 DEF List, Goto, PlaceInv, TypeOK
    <3> QED
      BY <2>1, <3>1 DEF Caught
  <2>3. CASE pc[c] = "listTriggers"
    <3>1. pc'[c] = "wipeTriggers" /\ todo'[c] = SlotsOf("trigger")
      BY <1>2, <1>3, <2>3 DEF List, Goto, PlaceInv, TypeOK
    <3> QED
      BY <1>1, <2>1, <2>3, <3>1 DEF Caught
  <2> QED
    BY <1>3, <2>2, <2>3 DEF List
<1>4. CASE Wipe(c)
  <2>1. CASE todo[c] = {}
    <3>1. pc'[c] = IF pc[c] = "wipe" THEN "listTriggers" ELSE "getSeq"
      BY <1>2, <1>4, <2>1 DEF Wipe, Goto
    <3> QED
      BY <1>1, <1>4, <2>1, <3>1 DEF Caught, Wipe
  <2>2. CASE todo[c] # {}
    <3>1. PICK S \in SUBSET todo[c] : Remove(S) /\ todo' = [todo EXCEPT ![c] = @ \ S] /\ UNCHANGED pc
      BY <1>4, <2>2 DEF Wipe
    <3>2. e[1] \notin S /\ todo'[c] = todo[c] \ S
      BY <3>1 DEF Remove, PlaceInv, TypeOK
    <3> QED
      BY <1>1, <3>1, <3>2 DEF Caught
  <2> QED
    BY <2>1, <2>2
<1>5. CASE DeleteMarker(c) \/ Fails(c) \/ ExistsKeygroup(c)
  <2>1. PICK l : Goto(c, l) /\ l \in {"list", "failed", "unset"}
    BY <1>5, FirstStepFacts DEF DeleteMarker, Fails, ExistsKeygroup, Op
  <2> QED
    BY <1>2, <2>1, GotoFacts DEF Caught
<1>6. CASE TakeSequence(c) \/ Release(c) \/ DropSequence(c)
  <2>1. /\ pc[c] \in {"getSeq", "release", "drop"}
        /\ pc'[c] \in {"release", "drop", "done"}
    BY <1>2, <1>6 DEF TakeSequence, Release, DropSequence, Goto
  <2> QED
    BY <1>1, <2>1 DEF Caught
<1> QED
  BY <1>2, <1>3, <1>4, <1>5, <1>6 DEF Step, ItemStep, TriggerStep, DeleteStep, CreateKeygroup,
     Update, Delete, Read, Exists, ReadSome, ReadAll, Lookup, GetSequence, Install, At,
     IncrementSequence, Append, AddKeygroupTrigger, DeleteKeygroupTrigger, GetKeygroupTrigger,
     InDelete, Ended

LEMMA StepWorks ==
    ASSUME DeleteInv, NEW c \in Call, Step(c)
    PROVE  Working(c)
<1> USE DEF DeleteInv, HistoryInv
<1>1. Moving(c) /\ MarkerStep(c)
  BY StepMoves, StepMarker
<1>2. ASSUME op[c] \in Writer, pc[c] = "check", pc'[c] # "failed"
      PROVE  config
  <2>1. ExistsKeygroup(c)
    BY <1>2, StepChecks
  <2>2. ~config => Goto(c, "failed")
    BY <1>2, <2>1 DEF ExistsKeygroup, Mistaken, Writer, PlaceInv, TypeOK
  <2> QED
    BY <1>2, <2>2, GotoFacts DEF PlaceInv, TypeOK
<1> QED
  BY <1>1, <1>2, StepEntries, StepOwn DEF Working

LEMMA InitDelete == Init => DeleteInv
BY InitTypeInv, TypePlaces DEF Init, DeleteInv, HistoryInv, EntriesOK, BeforeOK, GoneOK, SeenOK,
   LeftoversExplained, Writer

LEMMA NextDelete == DeleteInv /\ TypeInv /\ [Next]_vars => DeleteInv'
<1> SUFFICES ASSUME DeleteInv, TypeInv, [Next]_vars PROVE DeleteInv'
  OBVIOUS
<1>1. PlaceInv'
  BY NextTypeInv DEF TypeInv, PlaceInv, ControlOK, PlacedOK, Stands
<1>2. CASE UNCHANGED vars
  BY <1>1, <1>2, SameDelete DEF vars, seqVars, callVars
<1>3. CASE Next
  <2>1. CASE \E c \in Call, o \in Ops : \E s \in Arguments(o) : Begin(c, o, s)
    BY <1>1, <2>1, BeginDelete DEF Begin
  <2>2. CASE \E c \in Call : Step(c)
    BY <1>1, <2>2, StepWorks, WorkingDelete
  <2>3. CASE Crash
    BY <1>1, <2>3, StopLoses, LosingDelete DEF Crash, TypeInv
  <2> QED
    BY <1>2, <1>3, <2>1, <2>2, <2>3 DEF Next, Finished
<1> QED
  BY <1>2, <1>3

LEMMA DeletedGone == DeleteInv => DeletedForGood
BY EntryFacts DEF DeleteInv, HistoryInv, DeletedForGood, GoneOK, Caught, At

\* What was stored when a DeleteKeygroup that succeeded began is gone for good.
THEOREM Gone == Spec => []DeletedForGood
<1>1. Spec => [](DeleteInv /\ TypeInv)
  BY InitDelete, InitTypeInv, NextDelete, NextTypeInv, PTL DEF Spec
<1> QED
  BY <1>1, DeletedGone, PTL

\* Data without a keygroup comes from a write that ran while the keygroup was
\* being deleted, or from a DeleteKeygroup that did not finish.
THEOREM Explained == Spec => []LeftoversExplained
<1>1. Spec => [](DeleteInv /\ TypeInv)
  BY InitDelete, InitTypeInv, NextDelete, NextTypeInv, PTL DEF Spec
<1>2. DeleteInv => LeftoversExplained
  BY DEF DeleteInv
<1> QED
  BY <1>1, <1>2, PTL

----------------------------------------------------------------------------
(* Identifiers.  A sequence object is open while it has numbers left; what it *)
(* has left is below the counter in the database, apart from what the others  *)
(* have left, and apart from every number that was given out.                 *)

\* The call has drawn an identifier, and which.
Drawn(c) == op[c] = "append" /\ slot[c] # NoSlot
Number(c) == slot[c][2]

RangesOK ==
    /\ \A q \in SeqNo : next[q] <= leased[q]
    /\ \A q \in SeqNo : HasLease(q) => leased[q] <= rolling
    /\ \A q, r \in SeqNo : q # r /\ HasLease(q) /\ HasLease(r) =>
           leased[q] <= next[r] \/ leased[r] <= next[q]

GivenOK ==
    \A c \in Call : Drawn(c) =>
        /\ Number(c) < rolling
        /\ \A q \in SeqNo : HasLease(q) => Number(c) < next[q] \/ leased[q] <= Number(c)

DistinctOK == \A c, d \in Call : c # d /\ Drawn(c) /\ Drawn(d) => Number(c) # Number(d)

NumberInv == TypeInv /\ RangesOK /\ GivenOK /\ DistinctOK

LEMMA DrawnFacts ==
    ASSUME TypeInv, NEW c \in Call, Drawn(c)
    PROVE  Number(c) \in Nat /\ slot[c] = ItemSlot(Number(c))
<1>1. slot[c] \in ItemSlots
  BY DEF TypeInv, ControlOK, Stands, Placed, Drawn
<1> QED
  BY <1>1 DEF ItemSlots, Number, ItemSlot

\* Most steps concern neither numbers nor ranges.
LEMMA SameNumbers ==
    ASSUME NumberInv, TypeInv', UNCHANGED <<rolling, next, leased, op, slot>>
    PROVE  NumberInv'
BY DEF NumberInv, RangesOK, GivenOK, DistinctOK, HasLease, Drawn, Number

LEMMA GetSequenceNumbers ==
    ASSUME NumberInv, TypeInv', NEW c \in Call, GetSequence(c)
    PROVE  NumberInv'
<1> USE SmallFacts
<1>1. /\ next \in [SeqNo -> Nat] /\ leased \in [SeqNo -> Nat] /\ rolling \in Nat /\ c \in SeqNo
      /\ UNCHANGED <<op, slot>>
  BY DEF NumberInv, TypeInv, TypeOK, GetSequence, callVars
<1>2. /\ next'[c] = rolling /\ leased'[c] = rolling + Bandwidth /\ rolling' = rolling + Bandwidth
      /\ \A q \in SeqNo \ {c} : next'[q] = next[q] /\ leased'[q] = leased[q]
  BY <1>1 DEF GetSequence
<1>3. \A q \in SeqNo : next[q] \in Nat /\ leased[q] \in Nat
  BY <1>1
<1>4. \A d \in Call : /\ Drawn(d)' <=> Drawn(d)
                      /\ Number(d)' = Number(d)
                      /\ Drawn(d) => Number(d) \in Nat
  BY <1>1, DrawnFacts DEF NumberInv, Drawn, Number
<1>5. RangesOK'
  BY <1>1, <1>2, <1>3 DEF NumberInv, RangesOK, HasLease
<1>6. GivenOK'
  BY <1>1, <1>2, <1>3, <1>4 DEF NumberInv, GivenOK, HasLease
<1>7. DistinctOK'
  BY <1>4 DEF NumberInv, DistinctOK
<1> QED
  BY <1>5, <1>6, <1>7 DEF NumberInv

LEMMA ReleaseNumbers ==
    ASSUME NumberInv, TypeInv', NEW c \in Call, Release(c)
    PROVE  NumberInv'
<1> DEFINE p == seq[c]
<1>1. /\ next \in [SeqNo -> Nat] /\ leased \in [SeqNo -> Nat] /\ rolling \in Nat
      /\ p \in SeqNo /\ UNCHANGED <<next, op, slot>>
  BY DEF NumberInv, TypeInv, TypeOK, ControlOK, Stands, Placed, Release, callVars
<1>2. /\ leased'[p] = next[p] /\ rolling' = IF rolling = leased[p] THEN next[p] ELSE rolling
      /\ \A q \in SeqNo \ {p} : leased'[q] = leased[q]
  BY <1>1 DEF Release
<1> HIDE DEF p
<1>3. \A q \in SeqNo : next[q] \in Nat /\ leased[q] \in Nat
  BY <1>1
<1>4. \A d \in Call : /\ Drawn(d)' <=> Drawn(d)
                      /\ Number(d)' = Number(d)
                      /\ Drawn(d) => Number(d) \in Nat
  BY <1>1, DrawnFacts DEF NumberInv, Drawn, Number
<1>5. RangesOK'
  BY <1>1, <1>2, <1>3 DEF NumberInv, RangesOK, HasLease
<1>6. GivenOK'
  BY <1>1, <1>2, <1>3, <1>4 DEF NumberInv, RangesOK, GivenOK, HasLease
<1>7. DistinctOK'
  BY <1>4 DEF NumberInv, DistinctOK
<1> QED
  BY <1>5, <1>6, <1>7 DEF NumberInv

LEMMA IncrementNumbers ==
    ASSUME NumberInv, TypeInv', NEW c \in Call, IncrementSequence(c)
    PROVE  NumberInv'
<1> USE SmallFacts
<1> DEFINE p == seq[c]
           i == NextNo(p)
<1>1. /\ next \in [SeqNo -> Nat] /\ leased \in [SeqNo -> Nat] /\ rolling \in Nat
      /\ p \in SeqNo /\ op' = op /\ op[c] = "append"
  BY DEF NumberInv, TypeInv, TypeOK, ControlOK, Stands, Placed, IncrementSequence, At
<1>2. /\ next'[p] = i + 1
      /\ \A q \in SeqNo \ {p} : next'[q] = next[q] /\ leased'[q] = leased[q]
      /\ HasLease(p) => leased'[p] = leased[p] /\ rolling' = rolling
      /\ ~HasLease(p) => leased'[p] = rolling + Bandwidth /\ rolling' = rolling + Bandwidth
      /\ slot'[c] = <<"item", i>>
      /\ \A d \in Call \ {c} : slot'[d] = slot[d]
  BY <1>1 DEF IncrementSequence, NumberInv, TypeInv, TypeOK, ItemSlot
<1>3. i = IF HasLease(p) THEN next[p] ELSE rolling
  BY DEF NextNo
<1> HIDE DEF p, i
<1>4. \A q \in SeqNo : next[q] \in Nat /\ leased[q] \in Nat
  BY <1>1
<1>5. i \in Nat
  BY <1>1, <1>3, <1>4
<1>6. \A d \in Call \ {c} : /\ Drawn(d)' <=> Drawn(d)
                            /\ Number(d)' = Number(d)
                            /\ Drawn(d) => Number(d) \in Nat
  BY <1>1, <1>2, DrawnFacts DEF NumberInv, Drawn, Number
<1>7. Number(c)' = i
  BY <1>2 DEF Number
<1>8. RangesOK'
  <2>1. CASE HasLease(p)
    BY <1>1, <1>2, <1>3, <1>4, <2>1 DEF NumberInv, RangesOK, HasLease
  <2>2. CASE ~HasLease(p)
    BY <1>1, <1>2, <1>3, <1>4, <2>2 DEF NumberInv, RangesOK, HasLease
  <2> QED
    BY <2>1, <2>2
<1>9. i < rolling' /\ \A q \in SeqNo : HasLease(q)' => i < next'[q] \/ leased'[q] <= i
  <2>1. CASE HasLease(p)
    BY <1>1, <1>2, <1>3, <1>4, <2>1 DEF NumberInv, RangesOK, HasLease
  <2>2. CASE ~HasLease(p)
    BY <1>1, <1>2, <1>3, <1>4, <2>2 DEF NumberInv, RangesOK, HasLease
  <2> QED
    BY <2>1, <2>2
<1>10. ASSUME NEW d \in Call \ {c}, Drawn(d)
       PROVE  /\ Number(d) # i /\ Number(d) < rolling'
              /\ \A q \in SeqNo : HasLease(q)' => Number(d) < next'[q] \/ leased'[q] <= Number(d)
  <2>1. Number(d) \in Nat /\ Number(d) < rolling
        /\ \A q \in SeqNo : HasLease(q) => Number(d) < next[q] \/ leased[q] <= Number(d)
    BY <1>6, <1>10 DEF NumberInv, GivenOK
  <2>2. CASE HasLease(p)
    BY <1>1, <1>2, <1>3, <1>4, <2>1, <2>2 DEF HasLease
  <2>3. CASE ~HasLease(p)
    BY <1>1, <1>2, <1>3, <1>4, <2>1, <2>3 DEF HasLease
  <2> QED
    BY <2>2, <2>3
<1>11. GivenOK'
  BY <1>6, <1>7, <1>9, <1>10 DEF GivenOK
<1>12. DistinctOK'
  BY <1>6, <1>7, <1>10 DEF NumberInv, DistinctOK
<1> QED
  BY <1>8, <1>11, <1>12 DEF NumberInv

LEMMA BeginNumbers ==
    ASSUME NumberInv, TypeInv', NEW c \in Call, NEW o \in Ops, NEW s \in Arguments(o),
           NEW B, BeginAfter(c, o, s, B)
    PROVE  NumberInv'
<1>1. o = "append" => s = NoSlot
  BY ArgumentFacts, SmallFacts
<1>2. UNCHANGED <<rolling, next, leased>>
  BY DEF BeginAfter, seqVars
<1>3. \A d \in Call : Drawn(d)' => Drawn(d) /\ Number(d)' = Number(d)
  BY <1>1 DEF BeginAfter, Drawn, Number, NumberInv, TypeInv, TypeOK
<1> QED
  BY <1>2, <1>3 DEF NumberInv, RangesOK, GivenOK, DistinctOK, HasLease

LEMMA LosingNumbers ==
    ASSUME NumberInv, TypeInv', NEW L, Losing(L)
    PROVE  NumberInv'
<1>1. UNCHANGED <<rolling, op, slot>>
  BY DEF Losing, callVars
<1>2. CASE UNCHANGED <<next, leased>>
  BY <1>1, <1>2, SameNumbers
<1>3. CASE ~UNCHANGED <<next, leased>>
  <2>1. \A q \in SeqNo : next'[q] = 0 /\ leased'[q] = 0
    BY <1>3 DEF Losing
  <2>2. RangesOK'
    BY <2>1 DEF RangesOK, HasLease
  <2>3. GivenOK' /\ DistinctOK'
    BY <1>1, <2>1 DEF NumberInv, GivenOK, DistinctOK, HasLease, Drawn, Number
  <2> QED
    BY <2>2, <2>3 DEF NumberInv
<1> QED
  BY <1>2, <1>3

LEMMA InitNumbers == Init => NumberInv
<1> SUFFICES ASSUME Init PROVE NumberInv
  OBVIOUS
<1>1. RangesOK
  BY SmallFacts DEF Init, RangesOK, HasLease
<1>2. GivenOK /\ DistinctOK
  BY DEF Init, GivenOK, DistinctOK, Drawn
<1> QED
  BY InitTypeInv, <1>1, <1>2 DEF NumberInv

LEMMA StepNumbers ==
    ASSUME NumberInv, TypeInv', NEW c \in Call, Step(c)
    PROVE  NumberInv'
<1>1. CASE GetSequence(c) \/ Release(c) \/ IncrementSequence(c)
  BY <1>1, GetSequenceNumbers, ReleaseNumbers, IncrementNumbers
<1>2. CASE ~(GetSequence(c) \/ Release(c) \/ IncrementSequence(c))
  <2>1. UNCHANGED <<rolling, next, leased, op, slot>>
    BY <1>2 DEF Step, ItemStep, TriggerStep, DeleteStep, ExistsKeygroup, CreateKeygroup,
       Fails, Update, Delete, Read, Exists, ReadSome, ReadAll, Lookup, Install, Append, Write, Erase,
       AddKeygroupTrigger, DeleteKeygroupTrigger, GetKeygroupTrigger, DeleteMarker, List,
       Wipe, TakeSequence, DropSequence, seqVars, callVars
  <2> QED
    BY <2>1, SameNumbers
<1> QED
  BY <1>1, <1>2

LEMMA NextNumbers == NumberInv /\ [Next]_vars => NumberInv'
<1> SUFFICES ASSUME NumberInv, [Next]_vars PROVE NumberInv'
  OBVIOUS
<1>1. TypeInv'
  BY NextTypeInv DEF NumberInv
<1>2. CASE UNCHANGED vars
  BY <1>1, <1>2, SameNumbers DEF vars, seqVars, callVars
<1>3. CASE \E c \in Call : Step(c)
  BY <1>1, <1>3, StepNumbers
<1>4. CASE \E c \in Call, o \in Ops : \E s \in Arguments(o) : Begin(c, o, s)
  BY <1>1, <1>4, BeginNumbers DEF Begin
<1>5. CASE Crash
  BY <1>1, <1>5, StopLoses, LosingNumbers DEF Crash, NumberInv, TypeInv
<1> QED
  BY <1>2, <1>3, <1>4, <1>5 DEF Next, Finished

LEMMA NumbersDistinct == NumberInv => NoIdReused
<1> SUFFICES ASSUME NumberInv, NEW c \in Call, NEW d \in Call, c # d,
                    At(c, "append", "done"), At(d, "append", "done")
             PROVE  slot[c] # slot[d]
  BY DEF NoIdReused
<1>1. Drawn(c) /\ Drawn(d)
  BY SmallFacts DEF NumberInv, TypeInv, ControlOK, Stands, Placed, Drawn, At
<1> QED
  BY <1>1 DEF NumberInv, DistinctOK, Number

\* No identifier is given out twice, whichever sequence objects the calls that
\* race for the map hold, lease from and release.
THEOREM NoReuse == Spec => []NoIdReused
BY InitNumbers, NextNumbers, NumbersDistinct, PTL DEF Spec

----------------------------------------------------------------------------
(* Reads.  What a write has stored is there, and so is the keygroup, until   *)
(* something is called that may remove or replace it.  So a read that begins *)
(* later finds it.                                                           *)

Reader == {"read", "scan", "readAll", "getTrigger"}

\* What w wrote is among what r reads.
Matches(r, w) ==
    \/ slot[r] = slot[w]
    \/ slot[w][1] = "trigger" /\ op[r] = "getTrigger"
    \/ slot[w][1] = "item" /\ op[r] = "readAll"

Undone(w) == \E d \in Call : MayUndo(d, w)

\* A call of one of the methods W has succeeded, and nothing can have undone it.
Settled(w, W) == pc[w] = "done" /\ op[w] \in W /\ ~Undone(w)

\* X are entries that may be missing though no call has removed them; there are none
\* with BadgerDB.
StoredOK(W, X) ==
    \A w \in Call : Settled(w, W) => config /\ <<slot[w], w>> \in entries \cup X

\* A call of one of the methods R has ended that was to find what w wrote.
Sought(r, w, R, W) ==
    /\ op[r] \in R /\ pc[r] \in {"done", "failed"} /\ (pc[r] = "failed" => ~Faults)
    /\ w \in before[r] /\ Settled(w, W) /\ Matches(r, w)

FoundOK(R, W, X) ==
    \A r, w \in Call : Sought(r, w, R, W) =>
        \/ pc[r] = "done" /\ <<slot[w], w>> \in got[r]
        \/ <<slot[w], w>> \in X

LEMMA SettledFacts ==
    ASSUME PlaceInv, NEW w \in Call, NEW W, W \subseteq Writer, Settled(w, W)
    PROVE  slot[w] \in Slot /\ slot[w] # NoSlot /\ pc[w] \in Ended
BY SmallFacts DEF Settled, PlaceInv, PlacedOK, Placed, Writer, Ended

\* A step of another call settles nothing.
LEMMA SettledBefore ==
    ASSUME PlaceInv, NEW c \in Call, Moving(c), NEW w \in Call, w # c,
           NEW W, W \subseteq Writer, Settled(w, W)'
    PROVE  Settled(w, W) /\ slot'[w] = slot[w]
<1>1. pc[w] = "done" /\ op[w] \in W /\ slot'[w] = slot[w]
  BY DEF Settled, Moving
<1>2. slot[w] # NoSlot
  BY <1>1, SmallFacts DEF PlaceInv, PlacedOK, Placed, Writer, Ended
<1>3. ASSUME NEW d \in Call, MayUndo(d, w) PROVE MayUndo(d, w)'
  <2>1. d # w /\ pc[d] # "none" /\ d \notin before[w]
        /\ (op[d] = "deleteKeygroup" \/ (slot[d] = slot[w] /\ op[d] \notin {"read", "scan"}))
    BY <1>3 DEF MayUndo
  <2>2. pc'[d] # "none" /\ op'[d] = op[d] /\ before'[w] = before[w]
    BY <2>1 DEF Moving
  <2>3. slot[d] = slot[w] => slot'[d] = slot[d]
    BY <1>2 DEF Moving
  <2> QED
    BY <1>1, <2>1, <2>2, <2>3 DEF MayUndo
<1> QED
  BY <1>1, <1>3 DEF Settled, Undone

LEMMA WorkingStored ==
    ASSUME DeleteInv, NEW c \in Call, Working(c), NEW W, W \subseteq Writer, NEW X, StoredOK(W, X),
           op[c] \in W /\ pc'[c] = "done" => Storing(c) /\ <<slot[c], c>> \in entries'
    PROVE  StoredOK(W, X)'
<1> SUFFICES ASSUME NEW w \in Call, Settled(w, W)'
             PROVE  config' /\ <<slot'[w], w>> \in entries' \cup X
  BY DEF StoredOK
<1> USE DEF DeleteInv, HistoryInv
<1>0. Moving(c)
  BY DEF Working
<1>1. CASE w # c
  <2>1. Settled(w, W) /\ slot'[w] = slot[w] /\ slot[w] # NoSlot /\ pc[w] \in Ended
    BY <1>0, <1>1, SettledBefore, SettledFacts
  <2>2. config /\ <<slot[w], w>> \in entries \cup X
    BY <2>1 DEF StoredOK
  <2>3. ~MayUndo(c, w)'
    BY DEF Settled, Undone
  <2>4. c \notin before'[w] /\ pc'[c] # "none" /\ op'[c] = op[c]
    BY <1>0 DEF BeforeOK, Moving
  <2>5. slot[c] = slot[w] => slot'[c] = slot'[w]
    BY <1>0, <2>1 DEF Moving
  <2>6. ~Touches(c, <<slot[w], w>>) /\ op[c] # "deleteKeygroup"
    BY <1>1, <2>3, <2>4, <2>5 DEF Touches, MayUndo
  <2> QED
    BY <2>1, <2>2, <2>6 DEF Working, MarkerStep
<1>2. CASE w = c
  <2>1. op[c] \in W /\ Storing(c) /\ <<slot[c], c>> \in entries'
    BY <1>0, <1>2 DEF Settled, Moving
  <2>2. slot'[c] = slot[c]
    BY <1>0, <2>1, SmallFacts DEF Moving, Storing, PlaceInv, PlacedOK, Placed, Writer, Ended
  <2>3. ASSUME NEW d \in Call, op[d] = "deleteKeygroup", d \notin before[c] PROVE FALSE
    <3>1. pc[d] # "none" /\ d # c
      BY <2>1, <2>3 DEF PlaceInv, PlacedOK, Placed, Writer
    <3>2. MayUndo(d, c)'
      BY <1>0, <2>3, <3>1 DEF MayUndo, Moving
    <3> QED
      BY <1>2, <3>2 DEF Settled, Undone
  <2>4. config
    BY <2>1, <2>3 DEF SeenOK, Doubtful, Past, Storing, Ended
  <2> QED
    BY <1>2, <2>1, <2>2, <2>4 DEF Storing
<1> QED
  BY <1>1, <1>2

\* It remains to show that a read finds what was settled when it ends.
LEMMA WorkingFound ==
    ASSUME DeleteInv, NEW c \in Call, Working(c), NEW R, NEW W, W \subseteq Writer,
           "append" \notin R, NEW X, FoundOK(R, W, X),
           ASSUME op[c] \in R, pc'[c] \in {"done", "failed"}, pc'[c] = "failed" => ~Faults,
                  NEW w \in Call, w \in before[c], Settled(w, W), Matches(c, w)
           PROVE  (pc'[c] = "done" /\ <<slot[w], w>> \in got'[c]) \/ <<slot[w], w>> \in X
    PROVE  FoundOK(R, W, X)'
<1> SUFFICES ASSUME NEW r \in Call, NEW w \in Call, Sought(r, w, R, W)'
             PROVE  (pc'[r] = "done" /\ <<slot'[w], w>> \in got'[r]) \/ <<slot'[w], w>> \in X
  BY DEF FoundOK
<1> USE DEF DeleteInv, HistoryInv
<1>0. Moving(c)
  BY DEF Working
<1>1. op[r] \in R /\ w \in before[r] /\ Settled(w, W)' /\ Matches(r, w)'
      /\ pc'[r] \in {"done", "failed"} /\ (pc'[r] = "failed" => ~Faults)
  BY <1>0 DEF Sought, Moving
<1>2. w # c
  BY <1>0, <1>1 DEF BeforeOK, Moving
<1>3. Settled(w, W) /\ slot'[w] = slot[w]
  BY <1>0, <1>1, <1>2, SettledBefore
<1>4. op'[r] = op[r] /\ slot'[r] = slot[r]
  BY <1>0, <1>1 DEF Moving
<1>5. Matches(r, w)
  BY <1>1, <1>3, <1>4 DEF Matches
<1>6. CASE r = c
  BY <1>1, <1>3, <1>5, <1>6
<1>7. CASE r # c
  <2>1. pc'[r] = pc[r] /\ got'[r] = got[r]
    BY <1>0, <1>7 DEF Moving
  <2>2. Sought(r, w, R, W)
    BY <1>1, <1>3, <1>5, <2>1 DEF Sought
  <2> QED
    BY <1>3, <2>1, <2>2 DEF FoundOK
<1> QED
  BY <1>6, <1>7

\* Neither a new call nor the loss of one settles anything.
LEMMA BeginReads ==
    ASSUME PlaceInv, NEW c \in Call, NEW o \in Ops, NEW s \in Arguments(o),
           NEW B, BeginAfter(c, o, s, B), NEW R, NEW W, NEW X
    PROVE  /\ \A w \in Call : Settled(w, W)' => Settled(w, W)
           /\ StoredOK(W, X) => StoredOK(W, X)'
           /\ FoundOK(R, W, X) => FoundOK(R, W, X)'
<1>1. /\ pc[c] = "none" /\ pc'[c] = "check" /\ UNCHANGED <<entries, config, got>>
  BY DEF BeginAfter, Goto, PlaceInv, TypeOK
<1>2. \A d \in Call \ {c} : /\ pc'[d] = pc[d] /\ op'[d] = op[d]
                            /\ before'[d] = before[d] /\ slot'[d] = slot[d]
  BY DEF BeginAfter, Goto, PlaceInv, TypeOK
<1>3. ASSUME NEW w \in Call, Settled(w, W)' PROVE Settled(w, W) /\ w # c
  <2>1. w # c
    BY <1>1, <1>3 DEF Settled
  <2>2. \A d \in Call : MayUndo(d, w) => MayUndo(d, w)'
    BY <1>1, <1>2, <2>1 DEF MayUndo
  <2> QED
    BY <1>2, <1>3, <2>1, <2>2 DEF Settled, Undone
<1>4. StoredOK(W, X) => StoredOK(W, X)'
  BY <1>1, <1>2, <1>3 DEF StoredOK
<1>5. ASSUME NEW r \in Call, NEW w \in Call, Sought(r, w, R, W)'
      PROVE  Sought(r, w, R, W) /\ r # c /\ w # c
  <2>1. r # c
    BY <1>1, <1>5 DEF Sought
  <2>2. Settled(w, W) /\ w # c
    BY <1>3, <1>5 DEF Sought
  <2> QED
    BY <1>2, <1>5, <2>1, <2>2 DEF Sought, Matches
<1>6. FoundOK(R, W, X) => FoundOK(R, W, X)'
  BY <1>1, <1>2, <1>5 DEF FoundOK
<1> QED
  BY <1>3, <1>4, <1>6

LEMMA LosingReads ==
    ASSUME NEW L, Losing(L), NEW R, NEW W, NEW X
    PROVE  /\ \A w \in Call : Settled(w, W)' => Settled(w, W)
           /\ StoredOK(W, X) => StoredOK(W, X)'
           /\ FoundOK(R, W, X) => FoundOK(R, W, X)'
<1>1. UNCHANGED <<config, entries, op, slot, before, got>>
  BY DEF Losing, callVars
<1>2. \A d \in Call : pc'[d] = pc[d] \/ (pc[d] # "none" /\ pc'[d] = "lost")
  BY DEF Losing, Running
<1>3. \A w \in Call : Settled(w, W)' => Settled(w, W)
  BY <1>1, <1>2 DEF Settled, Undone, MayUndo
<1>4. \A r, w \in Call : Sought(r, w, R, W)' => Sought(r, w, R, W) /\ pc'[r] = pc[r]
  BY <1>1, <1>2, <1>3 DEF Sought, Matches
<1> QED
  BY <1>1, <1>3, <1>4 DEF StoredOK, FoundOK

LEMMA SameReads ==
    ASSUME UNCHANGED <<config, entries, pc, op, slot, before, got>>, NEW R, NEW W, NEW X
    PROVE  /\ \A w \in Call : Settled(w, W)' => Settled(w, W)
           /\ StoredOK(W, X) => StoredOK(W, X)'
           /\ FoundOK(R, W, X) => FoundOK(R, W, X)'
<1>1. \A w \in Call : Settled(w, W)' <=> Settled(w, W)
  BY DEF Settled, Undone, MayUndo
<1>2. \A r, w \in Call : Sought(r, w, R, W)' <=> Sought(r, w, R, W)
  BY <1>1 DEF Sought, Matches
<1> QED
  BY <1>1, <1>2 DEF StoredOK, FoundOK

LEMMA InitReads ==
    ASSUME Init, NEW R, NEW W, NEW X
    PROVE  StoredOK(W, X) /\ FoundOK(R, W, X)
BY DEF Init, StoredOK, FoundOK, Settled, Sought

\* BadgerDB's steps.
ReadInv == StoredOK(Writer, {}) /\ (Count > 0 => FoundOK(Reader, Writer, {}))

LEMMA StepStores ==
    ASSUME PlaceInv, NEW c \in Call, Step(c), op[c] \in Writer, pc'[c] = "done"
    PROVE  Storing(c) /\ <<slot[c], c>> \in entries'
<1>1. op[c] \notin Reader \cup {"createKeygroup", "deleteKeygroup", "delete", "deleteTrigger"}
      /\ pc[c] \notin InDelete /\ pc \in [Call -> Label] /\ op[c] \in Op
  BY DEF Writer, Reader, PlaceInv, PlacedOK, TypeOK, Placed, Op
<1>2. ASSUME NEW l, Goto(c, l) PROVE l = "done"
  BY <1>1, <1>2, GotoFacts
<1>3. CASE Update(c) \/ Append(c) \/ AddKeygroupTrigger(c)
  BY <1>3 DEF Update, Append, AddKeygroupTrigger, At, Write, Put, Storing, Ended
<1>4. CASE ExistsKeygroup(c)
  <2>1. PICK l \in {"failed", FirstStep(op[c])} : Goto(c, l)
    BY <1>4 DEF ExistsKeygroup
  <2> QED
    BY <1>1, <1>2, <2>1, FirstStepFacts
<1>5. CASE Lookup(c) \/ GetSequence(c) \/ Install(c) \/ IncrementSequence(c) \/ Fails(c)
  BY <1>2, <1>5 DEF Lookup, GetSequence, Install, IncrementSequence, Fails
<1>6. CASE CreateKeygroup(c) \/ Delete(c) \/ DeleteKeygroupTrigger(c) \/ Read(c) \/ Exists(c)
           \/ ReadSome(c) \/ ReadAll(c) \/ GetKeygroupTrigger(c)
  BY <1>1, <1>6 DEF CreateKeygroup, Delete, DeleteKeygroupTrigger, Read, Exists, ReadSome, ReadAll,
     GetKeygroupTrigger, At, Reader
<1>7. CASE DeleteStep(c)
  BY <1>1, <1>7 DEF DeleteStep, DeleteMarker, List, Wipe, TakeSequence, Release, DropSequence, InDelete
<1> QED
  BY <1>3, <1>4, <1>5, <1>6, <1>7 DEF Step, ItemStep, TriggerStep

LEMMA StepFinds ==
    ASSUME PlaceInv, Count > 0, NEW c \in Call, Step(c), op[c] \in Reader,
           pc'[c] \in {"done", "failed"}, pc'[c] = "failed" => ~Faults,
           NEW w \in Call, slot[w] \in Slot, Matches(c, w), config, <<slot[w], w>> \in entries
    PROVE  pc'[c] = "done" /\ <<slot[w], w>> \in got'[c]
<1> DEFINE e == <<slot[w], w>>
<1>1. /\ op[c] \notin Writer \cup {"createKeygroup", "deleteKeygroup", "delete", "deleteTrigger"}
      /\ op[c] \in Op
      /\ pc[c] \notin InDelete \cup {"lookup", "lease", "install", "next"}
      /\ pc \in [Call -> Label] /\ got \in [Call -> SUBSET (Slot \X Call)]
  BY DEF Writer, Reader, PlaceInv, PlacedOK, TypeOK, Placed, Op
<1>2. ASSUME NEW l, Goto(c, l) PROVE pc'[c] = l
  BY <1>1, <1>2, GotoFacts
<1>3. /\ op[c] \in {"read", "scan"} => slot[c] = slot[w] /\ slot[w][1] = "item"
      /\ op[c] = "readAll" => slot[w][1] = "item"
      /\ op[c] = "getTrigger" => slot[w][1] = "trigger"
  <2>1. op[c] \in {"read", "scan"} => slot[c] \in ItemSlots
    BY DEF PlaceInv, PlacedOK, Placed
  <2>2. op[c] \in {"readAll", "getTrigger"} => slot[c] = NoSlot
    BY DEF PlaceInv, PlacedOK, Placed
  <2> QED
    BY <2>1, <2>2, SmallFacts DEF Matches, ItemSlots
<1>4. e \in entries /\ e[1] = slot[w]
  OBVIOUS
<1>5. CASE ExistsKeygroup(c)
  <2>1. PICK l : Goto(c, l) /\ (l = FirstStep(op[c]) \/ Faults)
    BY <1>1, <1>5 DEF ExistsKeygroup, Mistaken
  <2>2. l = FirstStep(op[c]) => FALSE
    BY <1>1, <1>2, <2>1, FirstStepFacts
  <2>3. Faults /\ pc'[c] = "done"
    BY <2>1, <2>2
  <2>4. PICK k \in {"failed", FirstStep(op[c])} : Goto(c, k)
    BY <1>5 DEF ExistsKeygroup
  <2> QED
    BY <1>1, <1>2, <2>3, <2>4, FirstStepFacts
<1>6. CASE Read(c)
  <2>1. op[c] = "read" /\ slot[c] \in SlotsOf("item")
    BY <1>3, <1>4, <1>6 DEF Read, At, SlotsOf, WithPrefix
  <2>2. got'[c] = {f \in entries : f[1] = slot[c]} /\ Goto(c, "done")
    BY <1>1, <1>6, <2>1 DEF Read
  <2> QED
    BY <1>2, <1>3, <1>4, <2>1, <2>2
<1>7. CASE Exists(c)
  <2>1. slot[c] \in SlotsOf("item")
    BY <1>3, <1>4, <1>7 DEF Exists, At, SlotsOf, WithPrefix
  <2>2. PICK l \in {"txn", "failed"} : Goto(c, l) /\ (l = "failed" => Faults)
    BY <1>7, <2>1 DEF Exists, Mistaken
  <2> QED
    BY <1>2, <2>2
<1>8. CASE ReadSome(c)
  <2>1. op[c] = "scan" /\ {f \in entries : f[1] = slot[c]} \subseteq got'[c] /\ Goto(c, "done")
    BY <1>1, <1>8 DEF ReadSome, At
  <2> QED
    BY <1>2, <1>3, <1>4, <2>1
<1>9. CASE ReadAll(c) \/ GetKeygroupTrigger(c)
  <2>1. got'[c] = WithPrefix(slot[w][1]) /\ Goto(c, "done")
    BY <1>1, <1>3, <1>9 DEF ReadAll, GetKeygroupTrigger, At
  <2> QED
    BY <1>2, <1>4, <2>1 DEF WithPrefix
<1>10. CASE Fails(c)
  BY <1>2, <1>10 DEF Fails
<1>11. CASE CreateKeygroup(c) \/ Update(c) \/ Append(c) \/ AddKeygroupTrigger(c) \/ Delete(c)
            \/ DeleteKeygroupTrigger(c)
  BY <1>1, <1>11 DEF CreateKeygroup, Update, Append, AddKeygroupTrigger, Delete,
     DeleteKeygroupTrigger, At, Writer
<1>12. CASE Lookup(c) \/ GetSequence(c) \/ Install(c) \/ IncrementSequence(c) \/ DeleteStep(c)
  BY <1>1, <1>12 DEF Lookup, GetSequence, Install, IncrementSequence, DeleteStep, DeleteMarker, List,
     Wipe, TakeSequence, Release, DropSequence, InDelete, At
<1> QED
  BY <1>5, <1>6, <1>7, <1>8, <1>9, <1>10, <1>11, <1>12 DEF Step, ItemStep, TriggerStep

LEMMA StepReads ==
    ASSUME DeleteInv, ReadInv, NEW c \in Call, Step(c)
    PROVE  ReadInv'
<1> USE DEF DeleteInv, HistoryInv
<1>1. Working(c)
  BY StepWorks
<1>2. StoredOK(Writer, {})'
  BY <1>1, StepStores, WorkingStored DEF ReadInv
<1>3. ASSUME Count > 0 PROVE FoundOK(Reader, Writer, {})'
  <2>1. ASSUME op[c] \in Reader, pc'[c] \in {"done", "failed"}, pc'[c] = "failed" => ~Faults,
               NEW w \in Call, w \in before[c], Settled(w, Writer), Matches(c, w)
        PROVE  pc'[c] = "done" /\ <<slot[w], w>> \in got'[c]
    BY <1>3, <2>1, StepFinds, SettledFacts DEF ReadInv, StoredOK
  <2>2. "append" \notin Reader
    BY DEF Reader
  <2> QED
    BY <1>1, <1>3, <2>1, <2>2, WorkingFound DEF ReadInv
<1> QED
  BY <1>2, <1>3 DEF ReadInv

LEMMA NextReads == DeleteInv /\ TypeInv /\ ReadInv /\ [Next]_vars => ReadInv'
<1> SUFFICES ASSUME DeleteInv, TypeInv, ReadInv, [Next]_vars PROVE ReadInv'
  OBVIOUS
<1>1. CASE UNCHANGED vars
  BY <1>1, SameReads DEF ReadInv, vars, callVars
<1>2. CASE \E c \in Call, o \in Ops : \E s \in Arguments(o) : Begin(c, o, s)
  BY <1>2, BeginReads DEF Begin, DeleteInv, HistoryInv, ReadInv
<1>3. CASE \E c \in Call : Step(c)
  BY <1>3, StepReads
<1>4. CASE Crash
  BY <1>4, StopLoses, LosingReads DEF Crash, TypeInv, ReadInv
<1> QED
  BY <1>1, <1>2, <1>3, <1>4 DEF Next, Finished

LEMMA FoundSeen == ReadInv => ReadsSee
<1> SUFFICES ASSUME ReadInv, Count > 0, NEW r \in Call, NEW w \in Call,
                    op[r] \in Reader, pc[r] \in {"done", "failed"}, w \in before[r], pc[w] = "done",
                    op[w] \in Writer, Matches(r, w), ~Undone(w), pc[r] = "failed" => ~Faults
             PROVE  pc[r] = "done" /\ <<slot[w], w>> \in got[r]
  BY DEF ReadsSee, Reader, Writer, Matches, Undone
<1>1. Sought(r, w, Reader, Writer)
  BY DEF Sought, Settled
<1> QED
  BY <1>1 DEF ReadInv, FoundOK

\* A read sees every write that had returned successfully before it began, if nothing
\* that could have undone it has been called; with scans, triggers and listings alike.
THEOREM WritesSeen == Spec => []ReadsSee
<1>1. Init => ReadInv
  BY InitReads DEF ReadInv
<1>2. Spec => [](DeleteInv /\ TypeInv /\ ReadInv)
  BY <1>1, InitDelete, InitTypeInv, NextDelete, NextTypeInv, NextReads, PTL DEF Spec
<1> QED
  BY <1>2, FoundSeen, PTL
==============================================================================
