----------------------------- MODULE DynamoStore -----------------------------
(***************************************************************************)
(* The storage in a DynamoDB table (pkg/dynamo) under the storeService of  *)
(* KeygroupStore.  Every request to the table reads or changes one item,   *)
(* or scans; there is no transaction and no sequence.  DeleteKeygroup      *)
(* removes what a scan has found item by item, the marker of the keygroup  *)
(* among them.  Append takes the identifier after the largest one a scan   *)
(* has found and stores the item under the identifier alone, where no      *)
(* other method looks for it.                                              *)
(*                                                                         *)
(* The expiry of a keygroup is written as a time into every item: the time *)
(* of the write if the keygroup has none.  The table must have TTL enabled *)
(* for it, so it removes every item some time later.  Neither the marker   *)
(* of a keygroup nor its triggers have such a time.                        *)
(*                                                                         *)
(* Reads do not ask for consistency: the last change of the table may not  *)
(* be visible yet.  Until it is, `before' does not count the call that     *)
(* made it among the calls that have ended.  Bound: only one change at a   *)
(* time is on its way.                                                     *)
(***************************************************************************)
EXTENDS KeygroupStore, FiniteSetsExt

VARIABLES
    prev,       \* what a late replica of the table contains
    lastBy,     \* the call that made the last change; 0 if there was none
    stray,      \* entries stored under the bare identifier, whatever the keygroup
    expired     \* history: the entries that the table itself has removed

Table == [config |-> config, entries |-> entries]

DynamoInit == prev = Table /\ lastBy = 0 /\ stray = {} /\ expired = {}

\* The table as a read finds it.
Tables == {Table, prev}

Items(t, kind) == {e \in t.entries : e[1][1] = kind}
SlotsIn(t, kind) == {e[1] : e \in Items(t, kind)}

\* A change, and the outcome of the request: it may fail after its effect.
Changes(c) == prev' = Table /\ lastBy' = c /\ UNCHANGED <<stray, expired>>
Outcome(c) == \E r \in {"done"} \cup (IF Faults THEN {"failed"} ELSE {}) : Goto(c, r)

tableVars == <<prev, lastBy, stray, expired>>

DynamoBegin(c, o, s) ==
    /\ BeginAfter(c, o, s, {d \in Call : pc[d] \in Ended /\ (d = lastBy => prev = Table)})
    /\ UNCHANGED tableVars

\* The last change has reached all replicas.
Replicated ==
    /\ prev # Table /\ prev' = Table
    /\ UNCHANGED <<vars, lastBy, stray, expired>>

\* The table removes an item whose time is over.  This is a change like any other,
\* and of no call.
TimeToLive ==
    /\ \/ \E e \in WithPrefix("item") :
             /\ entries' = entries \ {e} /\ expired' = expired \cup {e}
             /\ prev' = Table /\ lastBy' = 0 /\ UNCHANGED stray
       \/ \E e \in stray :
             stray' = stray \ {e} /\ UNCHANGED <<entries, prev, lastBy, expired>>
    /\ UNCHANGED <<config, seqVars, pc, callVars, todo, seq, got, crashes>>

DynamoFirstStep(o) ==
    CASE o = "createKeygroup" -> "commit"
      [] o = "deleteKeygroup" -> "list"
      [] o = "append" -> "next"
      [] o = "scan" -> "exists"
      [] o \in {"update", "delete", "read", "readAll", "addTrigger", "deleteTrigger",
                "getTrigger"} -> "txn"

DynamoExistsKeygroup(c) ==
    /\ pc[c] = "check"
    /\ \E t \in Tables : \E found \in {t.config} \cup Mistaken :
          Goto(c, IF found = (op[c] = "createKeygroup") THEN "failed" ELSE DynamoFirstStep(op[c]))
    /\ UNCHANGED <<config, entries, seqVars, callVars, todo, seq, got, crashes, tableVars>>

DynamoCreateKeygroup(c) ==
    /\ At(c, "createKeygroup", "commit")
    /\ config' = TRUE
    /\ Changes(c) /\ Outcome(c)
    /\ UNCHANGED <<entries, seqVars, callVars, todo, seq, got, crashes>>

----------------------------------------------------------------------------
(* Items and triggers *)

PutItem(c) ==
    /\ Put(slot[c], c)
    /\ Changes(c) /\ Outcome(c)
    /\ UNCHANGED <<config, seqVars, callVars, todo, seq, got, crashes>>

DeleteItem(c) ==
    /\ Remove({slot[c]})
    /\ Changes(c) /\ Outcome(c)
    /\ UNCHANGED <<config, seqVars, callVars, todo, seq, got, crashes>>

DynamoUpdate(c) == At(c, "update", "txn") /\ PutItem(c)

DynamoDelete(c) == At(c, "delete", "txn") /\ DeleteItem(c)

DynamoAddTrigger(c) == At(c, "addTrigger", "txn") /\ PutItem(c)

DynamoDeleteTrigger(c) == At(c, "deleteTrigger", "txn") /\ DeleteItem(c)

DynamoRead(c) ==
    /\ At(c, "read", "txn")
    /\ \E t \in Tables :
          /\ got' = [got EXCEPT ![c] = {e \in t.entries : e[1] = slot[c]}]
          /\ Goto(c, IF slot[c] \in SlotsIn(t, "item") THEN "done" ELSE "failed")
    /\ UNCHANGED <<config, entries, seqVars, callVars, todo, seq, crashes, tableVars>>

DynamoExists(c) ==
    /\ At(c, "scan", "exists")
    /\ \E t \in Tables : \E found \in {slot[c] \in SlotsIn(t, "item")} \cup Mistaken :
          Goto(c, IF found THEN "txn" ELSE "failed")
    /\ UNCHANGED <<config, entries, seqVars, callVars, todo, seq, got, crashes, tableVars>>

\* ReadSome: the filter compares attributes that no item has, and passes nothing.
DynamoReadSome(c) ==
    /\ At(c, "scan", "txn")
    /\ got' = [got EXCEPT ![c] = {}]
    /\ Goto(c, "done")
    /\ UNCHANGED <<config, entries, seqVars, callVars, todo, seq, crashes, tableVars>>

DynamoReadAll(c) ==
    /\ At(c, "readAll", "txn")
    /\ \E t \in Tables : got' = [got EXCEPT ![c] = Items(t, "item")]
    /\ Goto(c, "done")
    /\ UNCHANGED <<config, entries, seqVars, callVars, todo, seq, crashes, tableVars>>

DynamoGetTrigger(c) ==
    /\ At(c, "getTrigger", "txn")
    /\ \E t \in Tables : got' = [got EXCEPT ![c] = Items(t, "trigger")]
    /\ Goto(c, "done")
    /\ UNCHANGED <<config, entries, seqVars, callVars, todo, seq, crashes, tableVars>>

\* Append: the number after the largest one; it wraps around to 0 if the scan finds
\* nothing, not even the marker ...
Newest(t) ==
    LET ids == {s[2] : s \in SlotsIn(t, "item")}
    IN  IF ids = {} /\ ~t.config THEN 0 ELSE Max(ids \cup {0}) + 1

DynamoNewest(c) ==
    /\ At(c, "append", "next")
    /\ \E t \in Tables : slot' = [slot EXCEPT ![c] = ItemSlot(Newest(t))]
    /\ Goto(c, "txn")
    /\ UNCHANGED <<config, entries, seqVars, op, before, todo, seq, got, crashes, tableVars>>

\* ... is the key of the new item.
DynamoAppend(c) ==
    /\ At(c, "append", "txn")
    /\ stray' = {e \in stray : e[1] # slot[c]} \cup {<<slot[c], c>>}
    /\ Outcome(c)
    /\ UNCHANGED <<config, entries, seqVars, callVars, todo, seq, got, crashes, prev, lastBy, expired>>

----------------------------------------------------------------------------
(* DeleteKeygroup *)

\* What begins with the name of the keygroup, later what is a trigger of it.
DynamoList(c) ==
    /\ pc[c] \in {"list", "listTriggers"}
    /\ \E t \in Tables :
          todo' = [todo EXCEPT ![c] =
                      IF pc[c] = "listTriggers" THEN SlotsIn(t, "trigger")
                      ELSE SlotsIn(t, "item") \cup (IF t.config THEN {Marker} ELSE {})]
    /\ Goto(c, IF pc[c] = "list" THEN "wipe" ELSE "wipeTriggers")
    /\ UNCHANGED <<config, entries, seqVars, callVars, seq, got, crashes, tableVars>>

DynamoWipe(c) ==
    /\ pc[c] \in {"wipe", "wipeTriggers"} /\ todo[c] # {}
    /\ \E s \in todo[c] :
          /\ todo' = [todo EXCEPT ![c] = @ \ {s}]
          /\ config' = (config /\ s # Marker)
          /\ Remove({s})
    /\ Changes(c)
    /\ UNCHANGED pc \/ (Faults /\ Goto(c, "failed"))
    /\ UNCHANGED <<seqVars, callVars, seq, got, crashes>>

DynamoWiped(c) ==
    /\ pc[c] \in {"wipe", "wipeTriggers"} /\ todo[c] = {}
    /\ Goto(c, IF pc[c] = "wipe" THEN "listTriggers" ELSE "done")
    /\ UNCHANGED <<config, entries, seqVars, callVars, todo, seq, got, crashes, tableVars>>

----------------------------------------------------------------------------
\* A request fails without an effect, and the method returns the error.
DynamoFails(c) ==
    /\ Faults /\ pc[c] \in {"commit", "next", "txn", "list", "listTriggers", "wipe", "wipeTriggers"}
    /\ Goto(c, "failed")
    /\ UNCHANGED <<config, entries, seqVars, callVars, todo, seq, got, crashes, tableVars>>

\* A machine of the node stops, with some of the calls.
DynamoCrash ==
    /\ \E C \in SUBSET Running \ {{}} : Stop(C)
    /\ UNCHANGED tableVars

DynamoItemStep(c) ==
    \/ DynamoUpdate(c) \/ DynamoDelete(c) \/ DynamoRead(c) \/ DynamoReadAll(c)
    \/ DynamoExists(c) \/ DynamoReadSome(c) \/ DynamoNewest(c) \/ DynamoAppend(c)

DynamoTriggerStep(c) == DynamoAddTrigger(c) \/ DynamoDeleteTrigger(c) \/ DynamoGetTrigger(c)

DynamoStep(c) ==
    \/ DynamoExistsKeygroup(c) \/ DynamoCreateKeygroup(c) \/ DynamoItemStep(c) \/ DynamoTriggerStep(c)
    \/ DynamoList(c) \/ DynamoWipe(c) \/ DynamoWiped(c) \/ DynamoFails(c)

==============================================================================
