----------------------------- MODULE NodeStorage -----------------------------
(***************************************************************************)
(* The storage of a node is chosen when it is started (cmd/frednode):      *)
(* BadgerDB on disk or in memory, a storage server, or DynamoDB.  The      *)
(* properties of KeygroupStore are what the rest of the node relies on,    *)
(* whatever was chosen.                                                    *)
(***************************************************************************)
EXTENDS RemoteStore, DynamoStore

CONSTANTS
    Adaptor,    \* the storages looked at
    OpsOf       \* bound: OpsOf[a][c], the methods the c-th call may be with storage a

ASSUME NodeStorageAssumption ==
    /\ Adaptor \subseteq {"badgerdb", "memory", "remote", "dynamo"}
    /\ OpsOf \in [Adaptor -> [Call -> SUBSET Ops]]

VARIABLE adaptor

storageVars == <<vars, view, tableVars, adaptor>>

StorageInit ==
    /\ Init /\ RemoteInit /\ DynamoInit
    /\ adaptor \in Adaptor

\* BadgerDB keeps its data on disk; in memory a restart is a fresh start, as in
\* StorageInit, and needs no step of its own.
BadgerStep ==
    /\ adaptor \in {"badgerdb", "memory"}
    /\ \/ \E c \in Call : Step(c)
       \/ adaptor = "badgerdb" /\ Crash
    /\ UNCHANGED <<view, tableVars, adaptor>>

RemoteStorage ==
    /\ adaptor = "remote" /\ RemoteStep
    /\ UNCHANGED <<tableVars, adaptor>>

DynamoStorage ==
    /\ adaptor = "dynamo"
    /\ (\E c \in Call : DynamoStep(c)) \/ Replicated \/ TimeToLive \/ DynamoCrash
    /\ UNCHANGED <<view, adaptor>>

\* storeService is called.
StorageBegin(c, o, s) ==
    /\ o \in OpsOf[adaptor][c]
    /\ \/ adaptor \in {"badgerdb", "memory"} /\ Begin(c, o, s) /\ UNCHANGED <<view, tableVars>>
       \/ adaptor = "remote" /\ RemoteBegin(c, o, s) /\ UNCHANGED tableVars
       \/ adaptor = "dynamo" /\ DynamoBegin(c, o, s) /\ UNCHANGED view
    /\ UNCHANGED adaptor

AllEnded == (\A c \in Call : pc[c] \in Ended \/ OpsOf[adaptor][c] = {}) /\ UNCHANGED storageVars

StorageNext ==
    \/ \E c \in Call, o \in Ops : \E s \in Arguments(o) : StorageBegin(c, o, s)
    \/ BadgerStep \/ RemoteStorage \/ DynamoStorage
    \/ AllEnded

StorageSpec == StorageInit /\ [][StorageNext]_storageVars

----------------------------------------------------------------------------
(* Properties *)

\* Reads see what was written: with DynamoDB, what update and addTrigger wrote, and
\* not in a scan; a trigger for good, an item until the table has removed it.
StorageReadsSee ==
    \/ adaptor # "dynamo" /\ ReadsSee
    \/ /\ adaptor = "dynamo"
       /\ \A r, w \in Call :
             /\ op[r] \in {"read", "readAll", "getTrigger"} /\ pc[r] \in {"done", "failed"}
             /\ w \in before[r] /\ pc[w] = "done" /\ op[w] \in {"update", "addTrigger"}
             /\ \/ slot[r] = slot[w]
                \/ slot[w][1] = "trigger" /\ op[r] = "getTrigger"
                \/ slot[w][1] = "item" /\ op[r] = "readAll"
             /\ ~ \E d \in Call : MayUndo(d, w)
             /\ pc[r] = "failed" => ~Faults
             => \/ pc[r] = "done" /\ <<slot[w], w>> \in got[r]
                \/ op[w] = "update" /\ <<slot[w], w>> \in expired

\* Identifiers are not given out twice, unless by DynamoDB.
IdsNotReused == adaptor # "dynamo" => NoIdReused

==============================================================================
