---------------------------- MODULE KeygroupStore ----------------------------
(***************************************************************************)
(* What one node stores for one keygroup: the storeService of pkg/fred on  *)
(* the BadgerDB storage of pkg/badgerdb, called by the handlers of many    *)
(* requests at the same time.                                              *)
(*                                                                         *)
(* Every method of storeService first asks in a transaction of its own     *)
(* whether the keygroup exists and then works in further transactions;     *)
(* nothing locks the keygroup between them.  DeleteKeygroup in particular  *)
(* takes many steps: it removes the marker of the keygroup, lists its      *)
(* items, removes them in batches, does the same with its triggers, and    *)
(* gives back the rest of the range of its sequence.  The process may stop *)
(* between any two of them, and any transaction may return an error.       *)
(*                                                                         *)
(* The keygroup has no expiry: BadgerDB then keeps an item for good.       *)
(***************************************************************************)
EXTENDS Integers, FiniteSets

CONSTANTS
    Key,            \* the identifiers clients use in updates, deletes and reads
    Trigger,        \* the identifiers of trigger nodes
    Ops,            \* the methods that are called
    MaxCalls,       \* bound: calls in one behaviour
    MaxCrashes,     \* bound: crashes in one behaviour
    Bandwidth,      \* identifiers leased at a time (100 in the code)
    Count,          \* the count argument of scans
    Faults          \* may transactions fail?

Call == 1..MaxCalls

Op == {"createKeygroup", "deleteKeygroup", "update", "delete", "append", "read",
       "scan", "readAll", "addTrigger", "deleteTrigger", "getTrigger"}

ASSUME StoreAssumption ==
    /\ Key \subseteq Nat
    /\ Ops \subseteq Op
    /\ MaxCalls \in Nat /\ MaxCrashes \in Nat /\ Count \in Nat
    /\ Bandwidth \in Nat \ {0}
    /\ Faults \in BOOLEAN

\* A place in the database: an item or a trigger of the keygroup.
ItemSlot(k) == <<"item", k>>
TriggerSlot(t) == <<"trigger", t>>
NoSlot == <<"none", 0>>
Marker == <<"marker", 0>>       \* of the keygroup; deleted with the items by DynamoStore
Slot == ({"item"} \X Nat) \cup ({"trigger"} \X Trigger)

\* A sequence object is named after the call that made it; 0 is the object of a
\* keygroup that was there from the start.
SeqNo == 0..MaxCalls
NoSeq == -1

VARIABLES
    config,     \* is the marker of the keygroup in the database?
    entries,    \* pairs <<slot, call>>: what is stored, and the call that wrote it
    rolling,    \* the counter of the keygroup's sequence in the database
    next,       \* next[q]: the number sequence object q gives out next
    leased,     \* leased[q]: the end of the range q has leased
    seqMap,     \* the object in s.seq, or NoSeq
    pc,         \* pc[c]: what call c does next
    op,         \* op[c]: the method c calls
    slot,       \* slot[c]: the item or the trigger c is about, or NoSlot
    todo,       \* todo[c]: the slots a DeleteKeygroup has listed and not removed
    seq,        \* seq[c]: the sequence object c holds, or NoSeq
    got,        \* got[c]: what a read returned
    before,     \* history: the calls that had ended when c began
    crashes     \* how often the process was stopped

seqVars == <<rolling, next, leased, seqMap>>
callVars == <<op, slot, before>>
vars == <<config, entries, seqVars, pc, callVars, todo, seq, got, crashes>>

Ended == {"done", "failed", "lost"}
InDelete == {"unset", "list", "wipe", "listTriggers", "wipeTriggers", "getSeq",
             "release", "drop"}
Label == Ended \cup InDelete \cup
         {"none", "check", "lookup", "lease", "install", "commit", "next",
          "exists", "txn"}

TypeOK ==
    /\ config \in BOOLEAN
    /\ entries \subseteq Slot \X Call
    /\ rolling \in Nat
    /\ next \in [SeqNo -> Nat]
    /\ leased \in [SeqNo -> Nat]
    /\ seqMap \in SeqNo \cup {NoSeq}
    /\ pc \in [Call -> Label]
    /\ op \in [Call -> Op \cup {"none"}]
    /\ slot \in [Call -> Slot \cup {NoSlot}]
    /\ todo \in [Call -> SUBSET (Slot \cup {Marker})]
    /\ seq \in [Call -> SeqNo \cup {NoSeq}]
    /\ got \in [Call -> SUBSET (Slot \X Call)]
    /\ before \in [Call -> SUBSET Call]
    /\ crashes \in 0..MaxCrashes

\* The database is empty, or holds a keygroup that was just created.
Init ==
    /\ config \in BOOLEAN
    /\ entries = {}
    /\ rolling = IF config THEN Bandwidth ELSE 0
    /\ next = [q \in SeqNo |-> 0]
    /\ leased = [q \in SeqNo |-> IF config /\ q = 0 THEN Bandwidth ELSE 0]
    /\ seqMap = IF config THEN 0 ELSE NoSeq
    /\ pc = [c \in Call |-> "none"]
    /\ op = [c \in Call |-> "none"]
    /\ slot = [c \in Call |-> NoSlot]
    /\ todo = [c \in Call |-> {}]
    /\ seq = [c \in Call |-> NoSeq]
    /\ got = [c \in Call |-> {}]
    /\ before = [c \in Call |-> {}]
    /\ crashes = 0

----------------------------------------------------------------------------
(* Helpers *)

Goto(c, label) == pc' = [pc EXCEPT ![c] = label]

At(c, o, label) == op[c] = o /\ pc[c] = label

\* Entries of the database under a prefix.
WithPrefix(kind) == {e \in entries : e[1][1] = kind}
SlotsOf(kind) == {e[1] : e \in WithPrefix(kind)}

\* The transaction txn.Set, and txn.Delete of some keys.
Put(s, c) == entries' = {e \in entries : e[1] # s} \cup {<<s, c>>}
Remove(S) == entries' = {e \in entries : e[1] \notin S}

\* The answer Exists and ExistsKeygroup give when the database fails.
Mistaken == IF Faults THEN {FALSE} ELSE {}

----------------------------------------------------------------------------
(* Every method begins by looking for the keygroup *)

Arguments(o) ==
    CASE o \in {"update", "delete", "read", "scan"} -> {ItemSlot(k) : k \in Key}
      [] o \in {"addTrigger", "deleteTrigger"} -> {TriggerSlot(t) : t \in Trigger}
      [] o \in {"createKeygroup", "deleteKeygroup", "append", "readAll", "getTrigger"} -> {NoSlot}

\* B are the calls that had ended.
BeginAfter(c, o, s, B) ==
    /\ pc[c] = "none" /\ \A d \in Call : d < c => pc[d] # "none"
    /\ o \in Ops /\ s \in Arguments(o)
    /\ op' = [op EXCEPT ![c] = o]
    /\ slot' = [slot EXCEPT ![c] = s]
    /\ before' = [before EXCEPT ![c] = B]
    /\ Goto(c, "check")
    /\ UNCHANGED <<config, entries, seqVars, todo, seq, got, crashes>>

Begin(c, o, s) == BeginAfter(c, o, s, {d \in Call : pc[d] \in Ended})

FirstStep(o) ==
    CASE o = "createKeygroup" -> "lease"
      [] o = "deleteKeygroup" -> "unset"
      [] o = "append" -> "lookup"
      [] o = "scan" -> "exists"
      [] o \in {"update", "delete", "read", "readAll", "addTrigger", "deleteTrigger",
                "getTrigger"} -> "txn"

\* Faulty variant: the keygroup is not looked for.
ExistsUnchecked(c) ==
    /\ pc[c] = "check"
    /\ Goto(c, FirstStep(op[c]))
    /\ UNCHANGED <<config, entries, seqVars, callVars, todo, seq, got, crashes>>

\* An error of the database is taken for "no".
ExistsKeygroup(c) ==
    /\ pc[c] = "check"
    /\ \E found \in {config} \cup Mistaken :
          Goto(c, IF found = (op[c] = "createKeygroup") THEN "failed" ELSE FirstStep(op[c]))
    /\ UNCHANGED <<config, entries, seqVars, callVars, todo, seq, got, crashes>>

----------------------------------------------------------------------------
(* Sequences: incrementSequence, CreateKeygroup and DeleteKeygroup use the *)
(* map s.seq, which nothing locks                                          *)

Lookup(c) ==
    /\ At(c, "append", "lookup")
    /\ seq' = [seq EXCEPT ![c] = seqMap]
    /\ Goto(c, IF seqMap = NoSeq THEN "lease" ELSE "next")
    /\ UNCHANGED <<config, entries, seqVars, callVars, todo, got, crashes>>

\* db.GetSequence: a new object with a range of its own.
GetSequence(c) ==
    /\ pc[c] = "lease"
    /\ next' = [next EXCEPT ![c] = rolling]
    /\ leased' = [leased EXCEPT ![c] = rolling + Bandwidth]
    /\ rolling' = rolling + Bandwidth
    /\ seq' = [seq EXCEPT ![c] = c]
    /\ Goto(c, "install")
    /\ UNCHANGED <<config, entries, seqMap, callVars, todo, got, crashes>>

Install(c) ==
    /\ pc[c] = "install"
    /\ seqMap' = seq[c]
    /\ Goto(c, IF op[c] = "createKeygroup" THEN "commit" ELSE "next")
    /\ UNCHANGED <<config, entries, rolling, next, leased, callVars, todo, seq,
                   got, crashes>>

HasLease(q) == next[q] < leased[q]
NextNo(q) == IF HasLease(q) THEN next[q] ELSE rolling

\* Append: the next number of the object becomes the item's identifier.
IncrementSequence(c) ==
    /\ At(c, "append", "next")
    /\ LET q == seq[c] IN
          /\ next' = [next EXCEPT ![q] = NextNo(q) + 1]
          /\ leased' = IF HasLease(q) THEN leased
                       ELSE [leased EXCEPT ![q] = rolling + Bandwidth]
          /\ rolling' = IF HasLease(q) THEN rolling ELSE rolling + Bandwidth
          /\ slot' = [slot EXCEPT ![c] = ItemSlot(NextNo(q))]
    /\ Goto(c, "txn")
    /\ UNCHANGED <<config, entries, seqMap, op, before, todo, seq, got, crashes>>

----------------------------------------------------------------------------
(* The methods *)

\* CreateKeygroup: the sequence is made inside the transaction of the marker.
CreateKeygroup(c) ==
    /\ At(c, "createKeygroup", "commit")
    /\ config' = TRUE
    /\ Goto(c, "done")
    /\ UNCHANGED <<entries, seqVars, callVars, todo, seq, got, crashes>>

\* The transaction of a write, and the end of the call.
Write(c) ==
    /\ Put(slot[c], c)
    /\ Goto(c, "done")
    /\ UNCHANGED <<config, seqVars, callVars, todo, seq, got, crashes>>

\* The same for the removal of a key; it need not be there.
Erase(c) ==
    /\ Remove({slot[c]})
    /\ Goto(c, "done")
    /\ UNCHANGED <<config, seqVars, callVars, todo, seq, got, crashes>>

Update(c) == At(c, "update", "txn") /\ Write(c)

Append(c) == At(c, "append", "txn") /\ Write(c)

Delete(c) == At(c, "delete", "txn") /\ Erase(c)

AddKeygroupTrigger(c) == At(c, "addTrigger", "txn") /\ Write(c)

DeleteKeygroupTrigger(c) == At(c, "deleteTrigger", "txn") /\ Erase(c)

\* Read: an item that is not there is an error.
Read(c) ==
    /\ At(c, "read", "txn")
    /\ got' = [got EXCEPT ![c] = {e \in entries : e[1] = slot[c]}]
    /\ Goto(c, IF slot[c] \in SlotsOf("item") THEN "done" ELSE "failed")
    /\ UNCHANGED <<config, entries, seqVars, callVars, todo, seq, crashes>>

\* Scan: the start must exist when it is looked for ...
Exists(c) ==
    /\ At(c, "scan", "exists")
    /\ \E found \in {slot[c] \in SlotsOf("item")} \cup Mistaken :
          Goto(c, IF found THEN "txn" ELSE "failed")
    /\ UNCHANGED <<config, entries, seqVars, callVars, todo, seq, got, crashes>>

\* Faulty variant: the scan begins after its start.
ReadSomeAfter(c) ==
    /\ At(c, "scan", "txn")
    /\ \E S \in SUBSET {e \in WithPrefix("item") : e[1] # slot[c]} :
          /\ Cardinality(S) <= Count
          /\ got' = [got EXCEPT ![c] = S]
    /\ Goto(c, "done")
    /\ UNCHANGED <<config, entries, seqVars, callVars, todo, seq, crashes>>

\* ... then up to Count items are read from there on.  Which ones come after the
\* start is a matter of the order of keys, left open here.
ReadSome(c) ==
    /\ At(c, "scan", "txn")
    /\ \E S \in SUBSET WithPrefix("item") :
          /\ Cardinality(S) <= Count
          /\ Count > 0 => {e \in entries : e[1] = slot[c]} \subseteq S
          /\ got' = [got EXCEPT ![c] = S]
    /\ Goto(c, "done")
    /\ UNCHANGED <<config, entries, seqVars, callVars, todo, seq, crashes>>

\* ReadAll: what a new replica is filled with.
ReadAll(c) ==
    /\ At(c, "readAll", "txn")
    /\ got' = [got EXCEPT ![c] = WithPrefix("item")]
    /\ Goto(c, "done")
    /\ UNCHANGED <<config, entries, seqVars, callVars, todo, seq, crashes>>

\* Faulty variant: the triggers' keys without their hosts.
GetTriggerKeys(c) ==
    /\ At(c, "getTrigger", "txn")
    /\ got' = [got EXCEPT ![c] = SlotsOf("trigger")]
    /\ Goto(c, "done")
    /\ UNCHANGED <<config, entries, seqVars, callVars, todo, seq, crashes>>

GetKeygroupTrigger(c) ==
    /\ At(c, "getTrigger", "txn")
    /\ got' = [got EXCEPT ![c] = WithPrefix("trigger")]
    /\ Goto(c, "done")
    /\ UNCHANGED <<config, entries, seqVars, callVars, todo, seq, crashes>>

----------------------------------------------------------------------------
(* DeleteKeygroup *)

\* The marker goes first.
DeleteMarker(c) ==
    /\ pc[c] = "unset"
    /\ config' = FALSE
    /\ Goto(c, "list")
    /\ UNCHANGED <<entries, seqVars, callVars, todo, seq, got, crashes>>

\* The keys of the items, later those of the triggers, are listed in a
\* read-only transaction ...
List(c) ==
    /\ pc[c] \in {"list", "listTriggers"}
    /\ todo' = [todo EXCEPT ![c] = SlotsOf(IF pc[c] = "list" THEN "item" ELSE "trigger")]
    /\ Goto(c, IF pc[c] = "list" THEN "wipe" ELSE "wipeTriggers")
    /\ UNCHANGED <<config, entries, seqVars, callVars, seq, got, crashes>>

\* ... and removed by a WriteBatch, in as many transactions as it needs.
Wipe(c) ==
    /\ pc[c] \in {"wipe", "wipeTriggers"}
    /\ IF todo[c] = {}
       THEN /\ Goto(c, IF pc[c] = "wipe" THEN "listTriggers" ELSE "getSeq")
            /\ UNCHANGED <<entries, todo>>
       ELSE \E S \in SUBSET todo[c] \ {{}} :
               /\ Remove(S)
               /\ todo' = [todo EXCEPT ![c] = @ \ S]
               /\ UNCHANGED pc
    /\ UNCHANGED <<config, seqVars, callVars, seq, got, crashes>>

\* The object in s.seq, if there is one ...
TakeSequence(c) ==
    /\ pc[c] = "getSeq"
    /\ seq' = [seq EXCEPT ![c] = seqMap]
    /\ Goto(c, IF seqMap = NoSeq THEN "done" ELSE "release")
    /\ UNCHANGED <<config, entries, seqVars, callVars, todo, got, crashes>>

\* Faulty variant: the counter is removed with the keygroup.
ReleaseAll(c) ==
    /\ pc[c] = "release"
    /\ rolling' = 0
    /\ leased' = [leased EXCEPT ![seq[c]] = next[seq[c]]]
    /\ Goto(c, "drop")
    /\ UNCHANGED <<config, entries, next, seqMap, callVars, todo, seq, got, crashes>>

\* ... gives the numbers it has not used back, unless another range was leased
\* after its own ...
Release(c) ==
    /\ pc[c] = "release"
    /\ rolling' = IF rolling = leased[seq[c]] THEN next[seq[c]] ELSE rolling
    /\ leased' = [leased EXCEPT ![seq[c]] = next[seq[c]]]
    /\ Goto(c, "drop")
    /\ UNCHANGED <<config, entries, next, seqMap, callVars, todo, seq, got, crashes>>

\* ... and leaves the map.
DropSequence(c) ==
    /\ pc[c] = "drop"
    /\ seqMap' = NoSeq
    /\ Goto(c, "done")
    /\ UNCHANGED <<config, entries, rolling, next, leased, callVars, todo, seq,
                   got, crashes>>

----------------------------------------------------------------------------
(* Errors and crashes *)

\* A transaction returns an error, and the method returns it.  (A failed
\* GetSequence still leaves its object, without a range, in s.seq when it was
\* called by CreateKeygroup.)
Fails(c) ==
    /\ Faults
    /\ pc[c] \in {"lease", "commit", "next", "txn"} \cup (InDelete \ {"getSeq", "drop"})
    /\ Goto(c, "failed")
    /\ seqMap' = IF At(c, "createKeygroup", "lease") THEN c ELSE seqMap
    /\ UNCHANGED <<config, entries, rolling, next, leased, callVars, todo, seq,
                   got, crashes>>

\* The process of the database stops, with the calls C, and is started again:
\* goroutines, objects and the map are gone, the data stays as it is.
Stop(C) ==
    /\ crashes < MaxCrashes
    /\ crashes' = crashes + 1
    /\ pc' = [c \in Call |-> IF c \in C THEN "lost" ELSE pc[c]]
    /\ next' = [q \in SeqNo |-> 0]
    /\ leased' = [q \in SeqNo |-> 0]
    /\ seqMap' = NoSeq
    /\ UNCHANGED <<config, entries, rolling, callVars, todo, seq, got>>

Running == {c \in Call : pc[c] \notin Ended \cup {"none"}}

Crash == Stop(Running)

----------------------------------------------------------------------------
(* The store *)

ItemStep(c) ==
    \/ Update(c) \/ Delete(c) \/ Read(c) \/ Exists(c) \/ ReadSome(c) \/ ReadAll(c)
    \/ Lookup(c) \/ GetSequence(c) \/ Install(c) \/ IncrementSequence(c) \/ Append(c)

TriggerStep(c) ==
    AddKeygroupTrigger(c) \/ DeleteKeygroupTrigger(c) \/ GetKeygroupTrigger(c)

DeleteStep(c) ==
    DeleteMarker(c) \/ List(c) \/ Wipe(c) \/ TakeSequence(c) \/ Release(c) \/ DropSequence(c)

Step(c) ==
    \/ ExistsKeygroup(c) \/ CreateKeygroup(c) \/ ItemStep(c) \/ TriggerStep(c)
    \/ DeleteStep(c) \/ Fails(c)

\* All calls have ended.
Finished == (\A c \in Call : pc[c] \in Ended) /\ UNCHANGED vars

Next ==
    \/ \E c \in Call, o \in Ops : \E s \in Arguments(o) : Begin(c, o, s)
    \/ \E c \in Call : Step(c)
    \/ Crash
    \/ Finished

Spec == Init /\ [][Next]_vars

----------------------------------------------------------------------------
(* Properties *)

\* Two calls run at the same time.
Overlap(c, d) == c \notin before[d] /\ d \notin before[c]

\* d may remove or replace what c wrote: it had not ended when c began.
MayUndo(d, c) ==
    /\ d # c /\ pc[d] # "none" /\ d \notin before[c]
    /\ \/ op[d] = "deleteKeygroup"
       \/ slot[d] = slot[c] /\ op[d] \notin {"read", "scan"}

\* What was stored before a DeleteKeygroup that succeeded began is gone for
\* good, items and triggers: nothing that happens during the deletion, no other
\* deletion and no re-creation makes it survive or come back.
DeletedForGood ==
    \A d \in Call : At(d, "deleteKeygroup", "done") =>
        \A e \in entries : e[2] \notin before[d]

\* Data without a keygroup is left behind only by a write that ran while the
\* keygroup was being deleted, or by a deletion that did not finish.
LeftoversExplained ==
    ~config => \A e \in entries : \E d \in Call :
        /\ op[d] = "deleteKeygroup"
        /\ Overlap(d, e[2]) \/ pc[d] \in InDelete \cup {"failed", "lost"}

\* A read, a scan, a listing of all items or of the triggers sees every write that had returned
\* successfully before they began, if nothing that could have undone it has
\* been called since the write began; without an error of the database they do
\* not fail either.
ReadsSee ==
    \A r, w \in Call :
        /\ op[r] \in {"read", "scan", "readAll", "getTrigger"} /\ pc[r] \in {"done", "failed"}
        /\ w \in before[r] /\ pc[w] = "done" /\ op[w] \in {"update", "append", "addTrigger"}
        /\ \/ slot[r] = slot[w]
           \/ slot[w][1] = "trigger" /\ op[r] = "getTrigger"
           \/ slot[w][1] = "item" /\ op[r] = "readAll"
        /\ ~ \E d \in Call : MayUndo(d, w)
        /\ Count > 0 /\ (pc[r] = "failed" => ~Faults)
        => pc[r] = "done" /\ <<slot[w], w>> \in got[r]

\* Identifiers are not given out twice, not even after the keygroup was deleted
\* and created again, where the sequence goes on from the numbers released.
NoIdReused ==
    \A c, d \in Call :
        /\ c # d /\ At(c, "append", "done") /\ At(d, "append", "done")
        => slot[c] # slot[d]

==============================================================================
