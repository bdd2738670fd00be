---------------------------- MODULE MCNodeStorage ----------------------------
(* NodeStorage for TLC: three calls, of all methods with BadgerDB and        *)
(* DynamoDB, of those that matter for the difference with the others.  The   *)
(* first call writes something.                                              *)
EXTENDS NodeStorage

CONSTANT t1

OneKey == {7}
OneTrigger == {t1}
AllOps == Op
Storages == {"badgerdb", "memory", "remote", "dynamo"}
Writes == Op \ {"read", "scan", "readAll", "getTrigger"}
OpsOfCalls ==
    [badgerdb |-> <<Writes, Op, {"deleteKeygroup", "append"}>>,
     memory |-> <<{"deleteKeygroup", "append"}, {"createKeygroup", "append"}, {}>>,
     remote |-> <<{"deleteKeygroup", "update", "addTrigger"}, {"deleteKeygroup", "update", "read"},
                  {"deleteKeygroup", "update", "read"}>>,
     dynamo |-> <<Writes, Op, {"deleteKeygroup", "read"}>>]
==============================================================================
