----------------------------- MODULE RemoteStore -----------------------------
(***************************************************************************)
(* A node that keeps its data at a storage server (pkg/storageclient,      *)
(* pkg/storageserver, cmd/storageserver): storeService runs in the node,   *)
(* or in each of its machines, and every method of the Store interface is  *)
(* a gRPC call to a server that runs it on its BadgerDB.                   *)
(*                                                                         *)
(* A call has no deadline.  If the connection breaks the node gets an      *)
(* error, while the server, which does not look at the context of the      *)
(* call, goes on with it or never hears of it.  The same happens if the    *)
(* machine of the node stops.  Such a call is abandoned: `before' never    *)
(* counts it among the calls that have ended, so that the properties of    *)
(* KeygroupStore are about what the node knows.                            *)
(***************************************************************************)
EXTENDS KeygroupStore

VARIABLE view       \* view[c]: what the node knows of call c: "none" if it has not
                    \* begun, "waiting", "answered", or "abandoned"

RemoteInit == view = [c \in Call |-> "none"]

\* The first question to the server is whether the keygroup exists, that of a
\* scan goes on with whether its start exists; if either question gets no answer
\* the node takes it for "no" (Mistaken).
Asking == {"check", "exists"}

RemoteCall(c, o, s) ==
    /\ BeginAfter(c, o, s, {d \in Call : view[d] = "answered"})
    /\ view' = [view EXCEPT ![c] = "waiting"]

\* The methods of the client.
RemoteItem(c, o, s) ==
    o \in {"read", "scan", "readAll", "update", "append", "delete"} /\ RemoteCall(c, o, s)

RemoteKeygroup(c, o, s) == o \in {"createKeygroup", "deleteKeygroup"} /\ RemoteCall(c, o, s)

RemoteTrigger(c, o, s) ==
    o \in {"addTrigger", "deleteTrigger", "getTrigger"} /\ RemoteCall(c, o, s)

RemoteBegin(c, o, s) == RemoteItem(c, o, s) \/ RemoteKeygroup(c, o, s) \/ RemoteTrigger(c, o, s)

\* The methods of the server run on its BadgerDB.
ServerItem(c) == ItemStep(c)

ServerKeygroup(c) == ExistsKeygroup(c) \/ CreateKeygroup(c) \/ DeleteStep(c)

ServerTrigger(c) == TriggerStep(c)

\* Errors of the database are passed on.
ServerStep(c) ==
    /\ ServerItem(c) \/ ServerKeygroup(c) \/ ServerTrigger(c) \/ Fails(c)
    /\ UNCHANGED view

\* Faulty variant: the server answers before it has done the work.
RemoteAnswerEarly(c) ==
    /\ view[c] = "waiting" /\ pc[c] \notin Asking
    /\ view' = [view EXCEPT ![c] = "answered"]
    /\ UNCHANGED vars

\* The answer arrives at the node; of a scan or a listing, the last message of the
\* stream: if it breaks before, the method returns nothing (Unavailable).
RemoteAnswer(c) ==
    /\ view[c] = "waiting" /\ pc[c] \in {"done", "failed"}
    /\ view' = [view EXCEPT ![c] = "answered"]
    /\ UNCHANGED vars

\* Of abandoned calls, those whose request may not have been sent never run.
Undelivered(C) ==
    \E U \in SUBSET {c \in C : pc[c] = FirstStep(op[c])} :
        pc' = [c \in Call |-> IF c \in U \/ (c \in C /\ pc[c] \in Asking) THEN "lost" ELSE pc[c]]

\* The connection breaks during the call, or the server has stopped.
Unavailable(c) ==
    /\ Faults /\ view[c] = "waiting" /\ pc[c] \notin Asking
    /\ view' = [view EXCEPT ![c] = "abandoned"]
    /\ Undelivered({c})
    /\ UNCHANGED <<config, entries, seqVars, callVars, todo, seq, got, crashes>>

\* A machine of the node stops: nobody waits for its calls any more.
MachineCrash(C) ==
    /\ crashes < MaxCrashes /\ crashes' = crashes + 1
    /\ C # {} /\ \A c \in C : view[c] = "waiting"
    /\ view' = [c \in Call |-> IF c \in C THEN "abandoned" ELSE view[c]]
    /\ Undelivered(C)
    /\ UNCHANGED <<config, entries, seqVars, callVars, todo, seq, got>>

\* The server stops: what it works on is lost.
ServerCrash ==
    /\ Stop({c \in Running : pc[c] \notin Asking})
    /\ UNCHANGED view

RemoteStep ==
    \/ \E c \in Call : ServerStep(c) \/ RemoteAnswer(c) \/ Unavailable(c)
    \/ \E C \in SUBSET Call : MachineCrash(C)
    \/ ServerCrash

==============================================================================
