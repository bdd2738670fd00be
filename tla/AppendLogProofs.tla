-------------------------- MODULE AppendLogProofs --------------------------
(***************************************************************************)
(* Proofs about AppendLog, for any number of nodes and appends and any     *)
(* bandwidth: a node never gives out an identifier twice; with a single    *)
(* node to append at the replicas never disagree about an item and         *)
(* together implement one immutable log; and appends that follow one       *)
(* another, at any nodes, are answered with different, growing             *)
(* identifiers.                                                            *)
(***************************************************************************)
EXTENDS AppendLog, TLAPS

SingleEntry == \A m, n \in Entry : m = n

----------------------------------------------------------------------------
(* The inductive invariant, in parts *)

\* Before the item of an append is in the store, and after.
Drawing == {"lookup", "lease", "install", "next"}
Stored == {"relay", "send", "wait", "report", "trigger", "done"}

\* What the place a goroutine has reached says about its append.
ControlOK ==
    \A a \in AppendNo :
        /\ via[a] = NoNode =>
              id[a] = NoId /\ todo[a] = {} /\ \A n \in Node : pc[a][n] = "none"
        /\ via[a] # NoNode => via[a] \in Entry
        /\ via[a] \notin todo[a]
        /\ \A n \in Node :
              /\ pc[a][n] \in {"next", "install"} => seq[a][n] \in SeqNo
              /\ n # via[a] /\ pc[a][n] # "none" => id[a] # NoId
              /\ n = via[a] /\ pc[a][n] \in Drawing => id[a] = NoId
              /\ pc[a][n] \in Stored \cup {"set"} => id[a] # NoId
              /\ n = via[a] /\ pc[a][n] \in {"wait", "report"} => tgt[a] \in Node
        /\ a \in acked => via[a] # NoNode /\ pc[a][via[a]] = "done"

\* The ranges the sequence objects of a node still hold are below the node's
\* counter and do not overlap.
RangesOK ==
    \A n \in Node : \A q \in SeqNo :
        /\ next[n][q] <= leased[n][q] /\ leased[n][q] <= rolling[n]
        /\ \A r \in SeqNo :
              \/ q = r
              \/ next[n][q] = leased[n][q]
              \/ next[n][r] = leased[n][r]
              \/ leased[n][q] <= next[n][r]
              \/ leased[n][r] <= next[n][q]

\* An identifier in use is below the counter and in none of these ranges.
IssuedOK ==
    \A a \in AppendNo : id[a] # NoId =>
        /\ id[a] < rolling[via[a]]
        /\ \A q \in SeqNo :
              id[a] < next[via[a]][q] \/ leased[via[a]][q] <= id[a]

\* An item is stored under the identifier of its append.
NamedOK == \A n \in Node : \A p \in items[n] : id[p[2]] = p[1]

\* The node that was asked has the item from the moment it is stored.
KeptOK ==
    \A a \in AppendNo, n \in Node :
        n = via[a] /\ pc[a][n] \in Stored => <<id[a], a>> \in items[n]

NumbersOK == RangesOK /\ IssuedOK /\ LocalUniqueIds

IInv == TypeOK /\ ControlOK /\ NumbersOK /\ NamedOK

----------------------------------------------------------------------------
(* Lemmas *)

LEMMA TableUpdate ==
    ASSUME NEW A, NEW B, NEW C, NEW f \in [A -> [B -> C]], NEW a \in A, NEW b \in B, NEW v \in C
    PROVE  /\ [f EXCEPT ![a][b] = v] \in [A -> [B -> C]]
           /\ \A x \in A, y \in B :
                 [f EXCEPT ![a][b] = v][x][y] = IF x = a /\ y = b THEN v ELSE f[x][y]
OBVIOUS

LEMMA GotoFacts ==
    ASSUME TypeOK, NEW a \in AppendNo, NEW n \in Node, NEW label \in Label, Goto(a, n, label)
    PROVE  /\ pc' \in [AppendNo -> [Node -> Label]]
           /\ \A b \in AppendNo, m \in Node :
                 pc'[b][m] = IF b = a /\ m = n THEN label ELSE pc[b][m]
<1>1. pc \in [AppendNo -> [Node -> Label]]
  BY DEF TypeOK
<1>2. pc' = [pc EXCEPT ![a][n] = label]
  BY DEF Goto
<1> QED
  BY <1>1, <1>2, TableUpdate

LEMMA NumberFacts ==
    /\ AppendNo \subseteq SeqNo /\ NoSeq \notin SeqNo /\ NoId \notin Nat
    /\ 0 \in SeqNo /\ NoNode \notin Node /\ Entry \subseteq Node
    /\ Bandwidth \in Nat /\ Bandwidth > 0
BY AppendAssumption DEF AppendNo, SeqNo, NoSeq, NoId

LEMMA InitIInv == Init => IInv
<1> SUFFICES ASSUME Init PROVE IInv
  OBVIOUS
<1> USE NumberFacts
<1>1. TypeOK
  BY DEF Init, TypeOK, Label, Ended
<1>2. ControlOK
  BY DEF Init, ControlOK, Drawing, Stored
<1>3. RangesOK
  BY DEF Init, RangesOK
<1>4. IssuedOK /\ LocalUniqueIds /\ NamedOK
  BY DEF Init, IssuedOK, LocalUniqueIds, NamedOK
<1> QED
  BY <1>1, <1>2, <1>3, <1>4 DEF IInv, NumbersOK

----------------------------------------------------------------------------
(* Type correctness *)

\* A number is drawn from object q at n, and nothing else changes.
LEMMA DrawFacts ==
    ASSUME TypeOK, NEW n \in Node, NEW q \in SeqNo, Draw(n, q)
    PROVE  /\ NextNo(n, q) \in Nat
           /\ next' \in [Node -> [SeqNo -> Nat]]
           /\ leased' \in [Node -> [SeqNo -> Nat]]
           /\ rolling' \in [Node -> Nat]
           /\ \A m \in Node, r \in SeqNo :
                 /\ next'[m][r] = IF m = n /\ r = q THEN NextNo(n, q) + 1 ELSE next[m][r]
                 /\ leased'[m][r] = IF m = n /\ r = q /\ ~HasLease(n, q)
                                    THEN rolling[n] + Bandwidth ELSE leased[m][r]
           /\ \A m \in Node :
                 rolling'[m] = IF m = n /\ ~HasLease(n, q)
                               THEN rolling[n] + Bandwidth ELSE rolling[m]
<1>1. /\ next \in [Node -> [SeqNo -> Nat]] /\ leased \in [Node -> [SeqNo -> Nat]]
      /\ rolling \in [Node -> Nat]
  BY DEF TypeOK
<1>2. NextNo(n, q) \in Nat /\ NextNo(n, q) + 1 \in Nat /\ rolling[n] + Bandwidth \in Nat
  BY <1>1, NumberFacts DEF NextNo
<1>3. next' = [next EXCEPT ![n][q] = NextNo(n, q) + 1]
  BY DEF Draw
<1>4. CASE HasLease(n, q)
  <2>1. rolling' = rolling /\ leased' = leased
    BY <1>4 DEF Draw
  <2>2. /\ next' \in [Node -> [SeqNo -> Nat]]
        /\ \A m \in Node, r \in SeqNo :
              next'[m][r] = IF m = n /\ r = q THEN NextNo(n, q) + 1 ELSE next[m][r]
    BY <1>1, <1>2, <1>3
  <2> QED
    BY <1>1, <1>2, <1>4, <2>1, <2>2
<1>5. CASE ~HasLease(n, q)
  <2>1. /\ leased' = [leased EXCEPT ![n][q] = rolling[n] + Bandwidth]
        /\ rolling' = [rolling EXCEPT ![n] = @ + Bandwidth]
    BY <1>5 DEF Draw
  <2>2. /\ next' \in [Node -> [SeqNo -> Nat]]
        /\ \A m \in Node, r \in SeqNo :
              next'[m][r] = IF m = n /\ r = q THEN NextNo(n, q) + 1 ELSE next[m][r]
    BY <1>1, <1>2, <1>3
  <2>3. /\ leased' \in [Node -> [SeqNo -> Nat]]
        /\ \A m \in Node, r \in SeqNo :
              leased'[m][r] = IF m = n /\ r = q THEN rolling[n] + Bandwidth ELSE leased[m][r]
    BY <1>1, <1>2, <2>1
  <2>4. /\ rolling' \in [Node -> Nat]
        /\ \A m \in Node : rolling'[m] = IF m = n THEN rolling[n] + Bandwidth ELSE rolling[m]
    BY <1>1, <1>2, <2>1
  <2> QED
    BY <1>2, <1>5, <2>2, <2>3, <2>4
<1> QED
  BY <1>4, <1>5

\* The same for a new object made by the goroutine of a at n.
LEMMA LeaseFacts ==
    ASSUME TypeOK, NEW a \in AppendNo, NEW n \in Node, GetSequence(a, n)
    PROVE  /\ next' \in [Node -> [SeqNo -> Nat]]
           /\ leased' \in [Node -> [SeqNo -> Nat]]
           /\ rolling' \in [Node -> Nat]
           /\ seq' \in [AppendNo -> [Node -> SeqNo \cup {NoSeq}]]
           /\ \A m \in Node, r \in SeqNo :
                 /\ next'[m][r] = IF m = n /\ r = a THEN rolling[n] ELSE next[m][r]
                 /\ leased'[m][r] = IF m = n /\ r = a THEN rolling[n] + Bandwidth
                                    ELSE leased[m][r]
           /\ \A m \in Node :
                 rolling'[m] = IF m = n THEN rolling[n] + Bandwidth ELSE rolling[m]
           /\ \A b \in AppendNo, m \in Node :
                 seq'[b][m] = IF b = a /\ m = n THEN a ELSE seq[b][m]
<1>1. /\ next \in [Node -> [SeqNo -> Nat]] /\ leased \in [Node -> [SeqNo -> Nat]]
      /\ rolling \in [Node -> Nat]
      /\ seq \in [AppendNo -> [Node -> SeqNo \cup {NoSeq}]]
  BY DEF TypeOK
<1>2. a \in SeqNo /\ rolling[n] \in Nat /\ rolling[n] + Bandwidth \in Nat
  BY <1>1, NumberFacts
<1>3. /\ next' = [next EXCEPT ![n][a] = rolling[n]]
      /\ leased' = [leased EXCEPT ![n][a] = rolling[n] + Bandwidth]
      /\ rolling' = [rolling EXCEPT ![n] = @ + Bandwidth]
      /\ seq' = [seq EXCEPT ![a][n] = a]
  BY DEF GetSequence
<1>4. /\ next' \in [Node -> [SeqNo -> Nat]]
      /\ \A m \in Node, r \in SeqNo :
            next'[m][r] = IF m = n /\ r = a THEN rolling[n] ELSE next[m][r]
  BY <1>1, <1>2, <1>3
<1>5. /\ leased' \in [Node -> [SeqNo -> Nat]]
      /\ \A m \in Node, r \in SeqNo :
            leased'[m][r] = IF m = n /\ r = a THEN rolling[n] + Bandwidth ELSE leased[m][r]
  BY <1>1, <1>2, <1>3
<1>6. /\ seq' \in [AppendNo -> [Node -> SeqNo \cup {NoSeq}]]
      /\ \A b \in AppendNo, m \in Node :
            seq'[b][m] = IF b = a /\ m = n THEN a ELSE seq[b][m]
  BY <1>1, <1>2, <1>3, TableUpdate
<1>7. /\ rolling' \in [Node -> Nat]
      /\ \A m \in Node : rolling'[m] = IF m = n THEN rolling[n] + Bandwidth ELSE rolling[m]
  BY <1>1, <1>2, <1>3
<1> QED
  BY <1>4, <1>5, <1>6, <1>7

\* A crash empties the ranges and ends the goroutines of n.
LEMMA CrashFacts ==
    ASSUME TypeOK, NEW n \in Node, Crash(n)
    PROVE  /\ next' \in [Node -> [SeqNo -> Nat]] /\ leased' \in [Node -> [SeqNo -> Nat]]
           /\ \A m \in Node, q \in SeqNo :
                 /\ next'[m][q] = IF m = n THEN 0 ELSE next[m][q]
                 /\ leased'[m][q] = IF m = n THEN 0 ELSE leased[m][q]
           /\ pc' \in [AppendNo -> [Node -> Label]]
           /\ \A a \in AppendNo, m \in Node :
                 \/ pc'[a][m] = pc[a][m]
                 \/ /\ m = n /\ pc[a][m] \notin Ended
                    /\ pc'[a][m] = IF via[a] = n THEN "failed" ELSE "lost"
           /\ rolling' = rolling /\ id' = id /\ via' = via /\ items' = items
           /\ seq' = seq /\ todo' = todo /\ tgt' = tgt /\ acked' = acked
<1>1. /\ next \in [Node -> [SeqNo -> Nat]] /\ leased \in [Node -> [SeqNo -> Nat]]
      /\ pc \in [AppendNo -> [Node -> Label]]
  BY DEF TypeOK
<1>2. /\ next' = [next EXCEPT ![n] = [q \in SeqNo |-> 0]]
      /\ leased' = [leased EXCEPT ![n] = [q \in SeqNo |-> 0]]
  BY DEF Crash
<1>3. pc' = [a \in AppendNo |-> [m \in Node |->
                 IF m # n \/ pc[a][m] \in Ended THEN pc[a][m]
                 ELSE IF via[a] = n THEN "failed" ELSE "lost"]]
  BY DEF Crash
<1>4. "failed" \in Label /\ "lost" \in Label
  BY DEF Label, Ended
<1>5. pc' \in [AppendNo -> [Node -> Label]]
  BY <1>1, <1>3, <1>4
<1>6. /\ rolling' = rolling /\ id' = id /\ via' = via /\ items' = items
      /\ seq' = seq /\ todo' = todo /\ tgt' = tgt /\ acked' = acked
  BY DEF Crash, relayVars
<1>7. \A a \in AppendNo, m \in Node :
         \/ pc'[a][m] = pc[a][m]
         \/ /\ m = n /\ pc[a][m] \notin Ended
            /\ pc'[a][m] = IF via[a] = n THEN "failed" ELSE "lost"
  BY <1>3
<1> QED
  BY <1>1, <1>2, <1>5, <1>6, <1>7

\* Storing an item.
LEMMA SetFacts ==
    ASSUME TypeOK, NEW n \in Node, NEW k \in Nat, NEW a \in AppendNo, Set(n, k, a)
    PROVE  /\ items' \in [Node -> SUBSET (Nat \X AppendNo)]
           /\ \A m \in Node :
                 items'[m] = IF m = n THEN {p \in items[n] : p[1] # k} \cup {<<k, a>>}
                             ELSE items[m]
<1>1. items \in [Node -> SUBSET (Nat \X AppendNo)]
  BY DEF TypeOK
<1>2. {p \in items[n] : p[1] # k} \cup {<<k, a>>} \in SUBSET (Nat \X AppendNo)
  BY <1>1
<1>3. items' = [items EXCEPT ![n] = {p \in items[n] : p[1] # k} \cup {<<k, a>>}]
  BY DEF Set
<1> QED
  BY <1>1, <1>2, <1>3

\* The steps of the system, one disjunct per action.
LEMMA NextCases ==
    ASSUME [Next]_vars
    PROVE  \/ \E a \in AppendNo, n \in Node : HandleAppend(a, n)
           \/ \E a \in AppendNo, n \in Node : Lookup(a, n)
           \/ \E a \in AppendNo, n \in Node : GetSequence(a, n)
           \/ \E a \in AppendNo, n \in Node : Install(a, n)
           \/ \E a \in AppendNo, n \in Node : NextForAppend(a, n)
           \/ \E a \in AppendNo, n \in Node : NextForUpdate(a, n)
           \/ \E a \in AppendNo, n \in Node : SetItem(a, n)
           \/ \E a \in AppendNo, n \in Node : StoreFails(a, n)
           \/ \E a \in AppendNo, n \in Node : Trigger(a, n)
           \/ \E a \in AppendNo : RelayMembers(a)
           \/ \E a \in AppendNo : RelayAborts(a)
           \/ \E a \in AppendNo, m \in Node : SendAppend(a, m)
           \/ \E a \in AppendNo : SendReturns(a)
           \/ \E a \in AppendNo : Report(a)
           \/ \E a \in AppendNo : RelayDone(a)
           \/ \E n \in Node : Crash(n)
           \/ \E n \in Node : Restart(n)
           \/ \E n \in Node : Serve(n)
           \/ \E n \in Node : \E k \in missed[n] : Recover(n, k)
           \/ Done
           \/ UNCHANGED vars
BY DEF Next, StoreStep, RelayStep

LEMMA LabelFacts ==
    /\ InStore \subseteq Label /\ Ended \subseteq Label
    /\ {"relay", "send", "wait", "report", "trigger"} \subseteq Label
    /\ {"lookup", "lease", "install", "next", "set"} \subseteq InStore
    /\ {"none", "done", "failed", "ok", "err", "lost"} \subseteq Ended
BY DEF Label, InStore, Ended

LEMMA NextTypeOK == IInv /\ [Next]_vars => TypeOK'
<1> SUFFICES ASSUME IInv, [Next]_vars PROVE TypeOK'
  OBVIOUS
<1>0. TypeOK /\ ControlOK /\ RangesOK /\ IssuedOK /\ LocalUniqueIds /\ NamedOK
  BY DEF IInv, NumbersOK
<1>1. ASSUME NEW a \in AppendNo, NEW n \in Node, HandleAppend(a, n) PROVE TypeOK'
  <2>1. Returned \in SUBSET Nat
    BY <1>0, NumberFacts DEF TypeOK, ControlOK, Returned, Stored
  <2> QED
    BY <1>0, <1>1, <2>1, NumberFacts, LabelFacts, GotoFacts
       DEF HandleAppend, TypeOK, seqVars, relayVars
<1>2. ASSUME NEW a \in AppendNo, NEW n \in Node, Lookup(a, n) PROVE TypeOK'
  BY <1>0, <1>2, NumberFacts, LabelFacts, GotoFacts DEF Lookup, TypeOK, seqVars, relayVars
<1>3. ASSUME NEW a \in AppendNo, NEW n \in Node, GetSequence(a, n) PROVE TypeOK'
  BY <1>0, <1>3, NumberFacts, LabelFacts, GotoFacts DEF GetSequence, TypeOK, seqVars, relayVars
<1>4. ASSUME NEW a \in AppendNo, NEW n \in Node, Install(a, n) PROVE TypeOK'
  BY <1>0, <1>4, NumberFacts, LabelFacts, GotoFacts DEF Install, TypeOK, seqVars, relayVars
<1>5. ASSUME NEW a \in AppendNo, NEW n \in Node, NextForAppend(a, n) PROVE TypeOK'
  <2>1. seq[a][n] \in SeqNo
    BY <1>0, <1>5 DEF ControlOK, NextForAppend
  <2>2. Draw(n, seq[a][n])
    BY <1>5 DEF NextForAppend
  <2> QED
    BY <1>0, <1>5, <2>1, <2>2, DrawFacts, NumberFacts, LabelFacts, GotoFacts
       DEF NextForAppend, TypeOK, relayVars
<1>6. ASSUME NEW a \in AppendNo, NEW n \in Node, NextForUpdate(a, n) PROVE TypeOK'
  <2>1. seq[a][n] \in SeqNo
    BY <1>0, <1>6 DEF ControlOK, NextForUpdate
  <2>2. Draw(n, seq[a][n])
    BY <1>6 DEF NextForUpdate
  <2> QED
    BY <1>0, <1>6, <2>1, <2>2, DrawFacts, NumberFacts, LabelFacts, GotoFacts
       DEF NextForUpdate, TypeOK, relayVars
<1>7. ASSUME NEW a \in AppendNo, NEW n \in Node, SetItem(a, n) PROVE TypeOK'
  <2>1. id[a] \in Nat /\ Set(n, id[a], a)
    BY <1>0, <1>7 DEF ControlOK, SetItem, TypeOK
  <2>2. items' \in [Node -> SUBSET (Nat \X AppendNo)]
    BY <1>0, <2>1, SetFacts
  <2> QED
    BY <1>0, <1>7, <2>2, LabelFacts, GotoFacts DEF SetItem, TypeOK, seqVars, relayVars
<1>8. ASSUME NEW a \in AppendNo, NEW n \in Node, StoreFails(a, n) PROVE TypeOK'
  BY <1>0, <1>8, NumberFacts, LabelFacts, GotoFacts DEF StoreFails, TypeOK, seqVars, relayVars
<1>9. ASSUME NEW a \in AppendNo, NEW n \in Node, Trigger(a, n) PROVE TypeOK'
  BY <1>0, <1>9, NumberFacts, LabelFacts, GotoFacts DEF Trigger, TypeOK, seqVars, relayVars
<1>10. ASSUME NEW a \in AppendNo, RelayMembers(a) PROVE TypeOK'
  BY <1>0, <1>10, NumberFacts, LabelFacts, GotoFacts DEF RelayMembers, TypeOK, seqVars, relayVars
<1>11. ASSUME NEW a \in AppendNo, RelayAborts(a) PROVE TypeOK'
  <2>1. via[a] \in Node /\ Goto(a, via[a], "failed")
    BY <1>0, <1>11 DEF RelayAborts, Failed, TypeOK
  <2>2. pc' \in [AppendNo -> [Node -> Label]]
    BY <1>0, <2>1, LabelFacts, GotoFacts
  <2> QED
    BY <1>0, <1>11, <2>2 DEF RelayAborts, TypeOK, seqVars, relayVars
<1>12. ASSUME NEW a \in AppendNo, NEW m \in Node, SendAppend(a, m) PROVE TypeOK'
  BY <1>0, <1>12, NumberFacts, LabelFacts, GotoFacts DEF SendAppend, TypeOK, seqVars, relayVars
<1>13. ASSUME NEW a \in AppendNo, SendReturns(a) PROVE TypeOK'
  BY <1>0, <1>13, NumberFacts, LabelFacts, GotoFacts DEF SendReturns, TypeOK, seqVars, relayVars
<1>14. ASSUME NEW a \in AppendNo, Report(a) PROVE TypeOK'
  <2>1. via[a] \in Node /\ tgt[a] \in Node /\ id[a] \in Nat
    BY <1>0, <1>14 DEF Report, TypeOK, ControlOK, Stored
  <2>2. failnode' \subseteq Node \X Nat
    BY <1>0, <1>14, <2>1 DEF Report, TypeOK
  <2>3. pc' \in [AppendNo -> [Node -> Label]]
    BY <1>0, <1>14, <2>1, LabelFacts, GotoFacts DEF Report
  <2> QED
    BY <1>0, <1>14, <2>2, <2>3 DEF Report, TypeOK, seqVars, relayVars
<1>15. ASSUME NEW a \in AppendNo, RelayDone(a) PROVE TypeOK'
  BY <1>0, <1>15, NumberFacts, LabelFacts, GotoFacts DEF RelayDone, TypeOK, seqVars, relayVars
<1>16. ASSUME NEW n \in Node, Crash(n) PROVE TypeOK'
  BY <1>0, <1>16, NumberFacts, LabelFacts, GotoFacts DEF Crash, TypeOK, seqVars, relayVars
<1>17. ASSUME NEW n \in Node, Restart(n) PROVE TypeOK'
  BY <1>0, <1>17 DEF Restart, TypeOK, seqVars, relayVars
<1>18. ASSUME NEW n \in Node, Serve(n) PROVE TypeOK'
  BY <1>0, <1>18 DEF Serve, TypeOK, seqVars, relayVars
<1>19. ASSUME NEW n \in Node, NEW k \in missed[n], Recover(n, k) PROVE TypeOK'
  <2>1. k \in Nat
    BY <1>0 DEF TypeOK
  <2>2. items' \in [Node -> SUBSET (Nat \X AppendNo)]
    <3>1. CASE UNCHANGED items
      BY <1>0, <3>1 DEF TypeOK
    <3>2. ASSUME NEW s \in Node, NEW p \in items[s], Set(n, k, p[2])
          PROVE  items' \in [Node -> SUBSET (Nat \X AppendNo)]
      <4>1. p[2] \in AppendNo
        BY <1>0 DEF TypeOK
      <4> QED
        BY <1>0, <2>1, <3>2, <4>1, SetFacts
    <3> QED
      BY <1>19, <3>1, <3>2 DEF Recover
  <2> QED
    BY <1>0, <1>19, <2>2 DEF Recover, TypeOK, seqVars, relayVars
<1>20. ASSUME Done PROVE TypeOK'
  BY <1>0, <1>20 DEF Done, vars, TypeOK, seqVars, relayVars
<1>21. ASSUME UNCHANGED vars PROVE TypeOK'
  BY <1>0, <1>21 DEF vars, TypeOK, seqVars, relayVars
<1> QED
  BY NextCases, <1>1, <1>2, <1>3, <1>4, <1>5, <1>6, <1>7, <1>8, <1>9, <1>10, <1>11, <1>12, <1>13, <1>14, <1>15, <1>16, <1>17, <1>18, <1>19, <1>20, <1>21

LEMMA NextControlOK == IInv /\ [Next]_vars => ControlOK'
<1> SUFFICES ASSUME IInv, [Next]_vars PROVE ControlOK'
  OBVIOUS
<1>0. TypeOK /\ ControlOK /\ RangesOK /\ IssuedOK /\ LocalUniqueIds /\ NamedOK
  BY DEF IInv, NumbersOK
<1>1. ASSUME NEW a \in AppendNo, NEW n \in Node, HandleAppend(a, n) PROVE ControlOK'
  <2>1. /\ via[a] = NoNode /\ n \in Entry /\ n \in Node
        /\ \A b \in AppendNo : via'[b] = IF b = a THEN n ELSE via[b]
        /\ id' = id /\ seq' = seq /\ todo' = todo /\ tgt' = tgt /\ acked' = acked
    BY <1>0, <1>1 DEF HandleAppend, TypeOK, relayVars
  <2>2. \A b \in AppendNo, m \in Node :
           pc'[b][m] = IF b = a /\ m = n THEN "lookup" ELSE pc[b][m]
    BY <1>0, <1>1, GotoFacts, LabelFacts DEF HandleAppend
  <2>3. todo[a] = {} /\ a \notin acked /\ id[a] = NoId /\ n # NoNode
        /\ \A m \in Node : pc[a][m] = "none"
    BY <1>0, <2>1, NumberFacts DEF ControlOK
  <2> QED
    BY <1>0, <2>1, <2>2, <2>3, NumberFacts DEF ControlOK, Drawing, Stored
<1>2. ASSUME NEW a \in AppendNo, NEW n \in Node, Lookup(a, n) PROVE ControlOK'
  BY <1>0, <1>2, NumberFacts, LabelFacts, GotoFacts DEF Lookup, ControlOK, Drawing, Stored, TypeOK, seqVars, relayVars
<1>3. ASSUME NEW a \in AppendNo, NEW n \in Node, GetSequence(a, n) PROVE ControlOK'
  BY <1>0, <1>3, NumberFacts, LabelFacts, GotoFacts DEF GetSequence, ControlOK, Drawing, Stored, TypeOK, seqVars, relayVars
<1>4. ASSUME NEW a \in AppendNo, NEW n \in Node, Install(a, n) PROVE ControlOK'
  <2>1. /\ via' = via /\ seq' = seq /\ id' = id
        /\ todo' = todo /\ tgt' = tgt /\ acked' = acked
        /\ n \in Node /\ pc[a][n] = "install"
    BY <1>0, <1>4 DEF Install, relayVars, TypeOK
  <2>2. PICK label \in {"next"} : Goto(a, n, label)
    BY <1>4 DEF Install
  <2>3. \A b \in AppendNo, m \in Node :
           pc'[b][m] = IF b = a /\ m = n THEN label ELSE pc[b][m]
    BY <1>0, <2>1, <2>2, GotoFacts, LabelFacts
  <2> QED
    BY <1>0, <2>1, <2>2, <2>3, NumberFacts DEF ControlOK, Drawing, Stored
<1>5. ASSUME NEW a \in AppendNo, NEW n \in Node, NextForAppend(a, n) PROVE ControlOK'
  <2>1. /\ via[a] = n /\ pc[a][n] = "next" /\ via' = via /\ seq' = seq
        /\ todo' = todo /\ tgt' = tgt /\ acked' = acked
        /\ seq[a][n] \in SeqNo
    BY <1>0, <1>5 DEF NextForAppend, relayVars, ControlOK
  <2>2. NextNo(n, seq[a][n]) # NoId
    BY <1>0, <1>5, <2>1, DrawFacts, NumberFacts DEF NextForAppend
  <2>3. \A b \in AppendNo : id'[b] = IF b = a THEN NextNo(n, seq[a][n]) ELSE id[b]
    BY <1>0, <1>5 DEF NextForAppend, TypeOK
  <2>4. \A b \in AppendNo, m \in Node :
           pc'[b][m] = IF b = a /\ m = n THEN "set" ELSE pc[b][m]
    BY <1>0, <1>5, GotoFacts, LabelFacts DEF NextForAppend
  <2> QED
    BY <1>0, <2>1, <2>2, <2>3, <2>4, NumberFacts DEF ControlOK, Drawing, Stored
<1>6. ASSUME NEW a \in AppendNo, NEW n \in Node, NextForUpdate(a, n) PROVE ControlOK'
  <2>1. /\ via' = via /\ seq' = seq /\ id' = id
        /\ todo' = todo /\ tgt' = tgt /\ acked' = acked
        /\ n \in Node /\ pc[a][n] = "next"
    BY <1>0, <1>6 DEF NextForUpdate, relayVars, TypeOK
  <2>2. PICK label \in {"lookup", "set"} : Goto(a, n, label)
    BY <1>6 DEF NextForUpdate
  <2>3. \A b \in AppendNo, m \in Node :
           pc'[b][m] = IF b = a /\ m = n THEN label ELSE pc[b][m]
    BY <1>0, <2>1, <2>2, GotoFacts, LabelFacts
  <2>4. via[a] # n
    BY <1>6 DEF NextForUpdate
  <2> QED
    BY <1>0, <2>1, <2>2, <2>3, <2>4, NumberFacts DEF ControlOK, Drawing, Stored
<1>7. ASSUME NEW a \in AppendNo, NEW n \in Node, SetItem(a, n) PROVE ControlOK'
  <2>1. /\ via' = via /\ seq' = seq /\ id' = id
        /\ todo' = todo /\ tgt' = tgt /\ acked' = acked
        /\ n \in Node /\ pc[a][n] = "set"
    BY <1>0, <1>7 DEF SetItem, relayVars, TypeOK
  <2>2. PICK label \in {"relay", "trigger"} : Goto(a, n, label) /\ (label = "relay" => via[a] = n)
    BY <1>7 DEF SetItem
  <2>3. \A b \in AppendNo, m \in Node :
           pc'[b][m] = IF b = a /\ m = n THEN label ELSE pc[b][m]
    BY <1>0, <2>1, <2>2, GotoFacts, LabelFacts
  <2> QED
    BY <1>0, <2>1, <2>2, <2>3, NumberFacts DEF ControlOK, Drawing, Stored
<1>8. ASSUME NEW a \in AppendNo, NEW n \in Node, StoreFails(a, n) PROVE ControlOK'
  <2>1. /\ via' = via /\ seq' = seq /\ id' = id
        /\ todo' = todo /\ tgt' = tgt /\ acked' = acked
        /\ pc[a][n] \in {"lease", "next", "set"}
    BY <1>8 DEF StoreFails, relayVars
  <2>2. PICK label \in {"failed", "set", "err"} :
           /\ Goto(a, n, label)
           /\ via[a] = n => label = "failed"
    BY <1>8 DEF StoreFails
  <2>3. \A b \in AppendNo, m \in Node :
           pc'[b][m] = IF b = a /\ m = n THEN label ELSE pc[b][m]
    BY <1>0, <2>2, GotoFacts, LabelFacts
  <2> QED
    BY <1>0, <2>1, <2>2, <2>3, NumberFacts DEF ControlOK, Drawing, Stored
<1>9. ASSUME NEW a \in AppendNo, NEW n \in Node, Trigger(a, n) PROVE ControlOK'
  BY <1>0, <1>9, NumberFacts, LabelFacts, GotoFacts DEF Trigger, ControlOK, Drawing, Stored, TypeOK, seqVars, relayVars
<1>10. ASSUME NEW a \in AppendNo, RelayMembers(a) PROVE ControlOK'
  BY <1>0, <1>10, NumberFacts, LabelFacts, GotoFacts DEF RelayMembers, ControlOK, Drawing, Stored, TypeOK, seqVars, relayVars
<1>11. ASSUME NEW a \in AppendNo, RelayAborts(a) PROVE ControlOK'
  <2>1. /\ via' = via /\ seq' = seq /\ id' = id
        /\ todo' = todo /\ tgt' = tgt /\ acked' = acked
        /\ via[a] \in Node /\ pc[a][via[a]] \in {"relay", "send"}
        /\ Goto(a, via[a], "failed")
    BY <1>0, <1>11 DEF RelayAborts, Failed, relayVars, TypeOK
  <2>2. \A b \in AppendNo, m \in Node :
           pc'[b][m] = IF b = a /\ m = via[a] THEN "failed" ELSE pc[b][m]
    BY <1>0, <2>1, GotoFacts, LabelFacts
  <2> QED
    BY <1>0, <2>1, <2>2, NumberFacts DEF ControlOK, Drawing, Stored
<1>12. ASSUME NEW a \in AppendNo, NEW m \in Node, SendAppend(a, m) PROVE ControlOK'
  BY <1>0, <1>12, NumberFacts, LabelFacts, GotoFacts DEF SendAppend, ControlOK, Drawing, Stored, TypeOK, seqVars, relayVars
<1>13. ASSUME NEW a \in AppendNo, SendReturns(a) PROVE ControlOK'
  <2>1. /\ via' = via /\ seq' = seq /\ id' = id
        /\ todo' = todo /\ tgt' = tgt /\ acked' = acked
        /\ via[a] \in Node /\ pc[a][via[a]] = "wait"
    BY <1>0, <1>13 DEF SendReturns, relayVars, TypeOK
  <2>2. PICK label \in {"send", "report"} : Goto(a, via[a], label)
    BY <1>13 DEF SendReturns
  <2>3. \A b \in AppendNo, m \in Node :
           pc'[b][m] = IF b = a /\ m = via[a] THEN label ELSE pc[b][m]
    BY <1>0, <2>1, <2>2, GotoFacts, LabelFacts
  <2> QED
    BY <1>0, <2>1, <2>2, <2>3, NumberFacts DEF ControlOK, Drawing, Stored
<1>14. ASSUME NEW a \in AppendNo, Report(a) PROVE ControlOK'
  <2>1. /\ via' = via /\ seq' = seq /\ id' = id
        /\ todo' = todo /\ tgt' = tgt /\ acked' = acked
        /\ via[a] \in Node /\ pc[a][via[a]] = "report"
        /\ Goto(a, via[a], "send")
    BY <1>0, <1>14 DEF Report, relayVars, TypeOK
  <2>2. \A b \in AppendNo, m \in Node :
           pc'[b][m] = IF b = a /\ m = via[a] THEN "send" ELSE pc[b][m]
    BY <1>0, <2>1, GotoFacts, LabelFacts
  <2> QED
    BY <1>0, <2>1, <2>2, NumberFacts DEF ControlOK, Drawing, Stored
<1>15. ASSUME NEW a \in AppendNo, RelayDone(a) PROVE ControlOK'
  <2>1. /\ via' = via /\ seq' = seq /\ id' = id
        /\ todo' = todo /\ tgt' = tgt /\ acked' = acked
        /\ via[a] \in Node /\ pc[a][via[a]] = "send"
    BY <1>0, <1>15 DEF RelayDone, relayVars, TypeOK
  <2>2. PICK label \in {"trigger"} : Goto(a, via[a], label)
    BY <1>15 DEF RelayDone
  <2>3. \A b \in AppendNo, m \in Node :
           pc'[b][m] = IF b = a /\ m = via[a] THEN label ELSE pc[b][m]
    BY <1>0, <2>1, <2>2, GotoFacts, LabelFacts
  <2> QED
    BY <1>0, <2>1, <2>2, <2>3, NumberFacts DEF ControlOK, Drawing, Stored
<1>16. ASSUME NEW n \in Node, Crash(n) PROVE ControlOK'
  <2>1. \A b \in AppendNo, m \in Node :
           \/ pc'[b][m] = pc[b][m]
           \/ pc[b][m] \notin {"none", "done"} /\ pc'[b][m] \in {"failed", "lost"}
    BY <1>0, <1>16, CrashFacts DEF Ended
  <2>2. /\ via' = via /\ seq' = seq /\ id' = id
        /\ todo' = todo /\ tgt' = tgt /\ acked' = acked
    BY <1>0, <1>16, CrashFacts
  <2>3. \A b \in acked : b \in AppendNo /\ (via[b] # NoNode => via[b] \in Node)
    BY <1>0, NumberFacts DEF ControlOK, TypeOK
  <2> QED
    BY <1>0, <2>1, <2>2, <2>3, NumberFacts DEF ControlOK, Drawing, Stored
<1>17. ASSUME NEW n \in Node, Restart(n) PROVE ControlOK'
  BY <1>0, <1>17 DEF Restart, ControlOK, seqVars, relayVars
<1>18. ASSUME NEW n \in Node, Serve(n) PROVE ControlOK'
  BY <1>0, <1>18 DEF Serve, ControlOK, seqVars, relayVars
<1>19. ASSUME NEW n \in Node, NEW k \in missed[n], Recover(n, k) PROVE ControlOK'
  BY <1>0, <1>19 DEF Recover, ControlOK, seqVars, relayVars
<1>20. ASSUME Done PROVE ControlOK'
  BY <1>0, <1>20 DEF Done, vars, ControlOK, seqVars, relayVars
<1>21. ASSUME UNCHANGED vars PROVE ControlOK'
  BY <1>0, <1>21 DEF vars, ControlOK, seqVars, relayVars
<1> QED
  BY NextCases, <1>1, <1>2, <1>3, <1>4, <1>5, <1>6, <1>7, <1>8, <1>9, <1>10, <1>11, <1>12, <1>13, <1>14, <1>15, <1>16, <1>17, <1>18, <1>19, <1>20, <1>21

LEMMA CounterTypes ==
    ASSUME TypeOK, ControlOK
    PROVE  /\ \A m \in Node : rolling[m] \in Nat
           /\ \A m \in Node, r \in SeqNo : next[m][r] \in Nat /\ leased[m][r] \in Nat
           /\ \A b \in AppendNo : id[b] # NoId => id[b] \in Nat /\ via[b] \in Node
BY NumberFacts DEF TypeOK, ControlOK

\* Drawing a number keeps the ranges apart, ...
LEMMA DrawRanges ==
    ASSUME TypeOK, ControlOK, RangesOK, NEW n \in Node, NEW q \in SeqNo, Draw(n, q)
    PROVE  RangesOK'
<1> DEFINE k == NextNo(n, q)
<1>1. /\ k \in Nat
      /\ \A m \in Node, r \in SeqNo :
            /\ next'[m][r] = IF m = n /\ r = q THEN k + 1 ELSE next[m][r]
            /\ leased'[m][r] = IF m = n /\ r = q /\ ~HasLease(n, q)
                               THEN rolling[n] + Bandwidth ELSE leased[m][r]
      /\ \A m \in Node :
            rolling'[m] = IF m = n /\ ~HasLease(n, q)
                          THEN rolling[n] + Bandwidth ELSE rolling[m]
  BY DrawFacts
<1>2. /\ k = IF HasLease(n, q) THEN next[n][q] ELSE rolling[n]
      /\ HasLease(n, q) <=> next[n][q] < leased[n][q]
  BY DEF NextNo, HasLease
<1> HIDE DEF k
<1> SUFFICES ASSUME NEW m \in Node, NEW r \in SeqNo
             PROVE  /\ next'[m][r] <= leased'[m][r] /\ leased'[m][r] <= rolling'[m]
                    /\ \A t \in SeqNo :
                          \/ r = t
                          \/ next'[m][r] = leased'[m][r]
                          \/ next'[m][t] = leased'[m][t]
                          \/ leased'[m][r] <= next'[m][t]
                          \/ leased'[m][t] <= next'[m][r]
  BY DEF RangesOK
<1>3. CASE m # n
  BY <1>1, <1>3 DEF RangesOK
<1>4. CASE m = n /\ HasLease(n, q)
  BY <1>1, <1>2, <1>4, CounterTypes DEF RangesOK
<1>5. CASE m = n /\ ~HasLease(n, q)
  BY <1>1, <1>2, <1>5, CounterTypes, NumberFacts DEF RangesOK
<1> QED
  BY <1>3, <1>4, <1>5

\* ... leaves every identifier in use outside of them, and the number drawn is
\* none of these and is outside of them as well.
LEMMA DrawFresh ==
    ASSUME TypeOK, ControlOK, RangesOK, IssuedOK, NEW n \in Node, NEW q \in SeqNo, Draw(n, q)
    PROVE  /\ \A b \in AppendNo : id[b] # NoId =>
                 /\ id[b] < rolling'[via[b]]
                 /\ \A r \in SeqNo : id[b] < next'[via[b]][r] \/ leased'[via[b]][r] <= id[b]
                 /\ via[b] = n => id[b] # NextNo(n, q)
           /\ NextNo(n, q) < rolling'[n]
           /\ \A r \in SeqNo :
                 NextNo(n, q) < next'[n][r] \/ leased'[n][r] <= NextNo(n, q)
<1> DEFINE k == NextNo(n, q)
<1>1. /\ k \in Nat
      /\ \A m \in Node, r \in SeqNo :
            /\ next'[m][r] = IF m = n /\ r = q THEN k + 1 ELSE next[m][r]
            /\ leased'[m][r] = IF m = n /\ r = q /\ ~HasLease(n, q)
                               THEN rolling[n] + Bandwidth ELSE leased[m][r]
      /\ \A m \in Node :
            rolling'[m] = IF m = n /\ ~HasLease(n, q)
                          THEN rolling[n] + Bandwidth ELSE rolling[m]
  BY DrawFacts
<1>2. /\ k = IF HasLease(n, q) THEN next[n][q] ELSE rolling[n]
      /\ HasLease(n, q) <=> next[n][q] < leased[n][q]
  BY DEF NextNo, HasLease
<1> HIDE DEF k
<1>3. ASSUME NEW b \in AppendNo, id[b] # NoId
      PROVE  /\ id[b] < rolling'[via[b]]
             /\ \A r \in SeqNo : id[b] < next'[via[b]][r] \/ leased'[via[b]][r] <= id[b]
             /\ via[b] = n => id[b] # k
  <2>1. /\ id[b] \in Nat /\ via[b] \in Node /\ id[b] < rolling[via[b]]
        /\ \A r \in SeqNo : id[b] < next[via[b]][r] \/ leased[via[b]][r] <= id[b]
    BY <1>3, CounterTypes DEF IssuedOK
  <2>2. CASE via[b] # n
    BY <1>1, <2>1, <2>2
  <2>3. CASE via[b] = n /\ HasLease(n, q)
    BY <1>1, <1>2, <2>1, <2>3, CounterTypes
  <2>4. CASE via[b] = n /\ ~HasLease(n, q)
    BY <1>1, <1>2, <2>1, <2>4, CounterTypes, NumberFacts
  <2> QED
    BY <2>2, <2>3, <2>4
<1>4. k < rolling'[n] /\ \A r \in SeqNo : k < next'[n][r] \/ leased'[n][r] <= k
  <2>1. CASE HasLease(n, q)
    BY <1>1, <1>2, <2>1, CounterTypes DEF RangesOK
  <2>2. CASE ~HasLease(n, q)
    BY <1>1, <1>2, <2>2, CounterTypes, NumberFacts DEF RangesOK
  <2> QED
    BY <2>1, <2>2
<1> QED
  BY <1>3, <1>4 DEF k

LEMMA NextNumbersOK == IInv /\ [Next]_vars => NumbersOK'
<1> SUFFICES ASSUME IInv, [Next]_vars PROVE NumbersOK'
  OBVIOUS
<1>0. TypeOK /\ ControlOK /\ RangesOK /\ IssuedOK /\ LocalUniqueIds /\ NamedOK
  BY DEF IInv, NumbersOK
<1>1. ASSUME NEW a \in AppendNo, NEW n \in Node, HandleAppend(a, n) PROVE NumbersOK'
  <2>1. /\ rolling' = rolling /\ next' = next /\ leased' = leased /\ id' = id
        /\ \A b \in AppendNo : id[b] # NoId => via'[b] = via[b]
        /\ id[a] = NoId
    BY <1>0, <1>1 DEF HandleAppend, ControlOK, TypeOK, seqVars
  <2> QED
    BY <1>0, <2>1 DEF NumbersOK, RangesOK, IssuedOK, LocalUniqueIds
<1>2. ASSUME NEW a \in AppendNo, NEW n \in Node, Lookup(a, n) PROVE NumbersOK'
  <2>1. rolling' = rolling /\ next' = next /\ leased' = leased /\ id' = id /\ via' = via
    BY <1>2 DEF Lookup, seqVars
  <2> QED
    BY <1>0, <2>1 DEF NumbersOK, RangesOK, IssuedOK, LocalUniqueIds
<1>3. ASSUME NEW a \in AppendNo, NEW n \in Node, GetSequence(a, n) PROVE NumbersOK'
  <2>1. /\ id' = id /\ via' = via /\ a \in SeqNo
        /\ next \in [Node -> [SeqNo -> Nat]] /\ leased \in [Node -> [SeqNo -> Nat]]
        /\ rolling \in [Node -> Nat]
        /\ \A b \in AppendNo : id[b] # NoId => id[b] \in Nat /\ via[b] \in Node
    BY <1>0, <1>3, NumberFacts DEF GetSequence, TypeOK, ControlOK
  <2>2. /\ \A m \in Node, r \in SeqNo :
              /\ next'[m][r] = IF m = n /\ r = a THEN rolling[n] ELSE next[m][r]
              /\ leased'[m][r] = IF m = n /\ r = a THEN rolling[n] + Bandwidth
                                 ELSE leased[m][r]
        /\ \A m \in Node :
              rolling'[m] = IF m = n THEN rolling[n] + Bandwidth ELSE rolling[m]
    BY <1>0, <1>3, LeaseFacts
  <2>3. RangesOK'
    BY <1>0, <2>1, <2>2, NumberFacts DEF RangesOK
  <2>4. IssuedOK'
    <3> SUFFICES ASSUME NEW b \in AppendNo, id[b] # NoId
                 PROVE  /\ id[b] < rolling'[via[b]]
                        /\ \A r \in SeqNo :
                              id[b] < next'[via[b]][r] \/ leased'[via[b]][r] <= id[b]
      BY <2>1 DEF IssuedOK
    <3>1. /\ id[b] \in Nat /\ via[b] \in Node /\ id[b] < rolling[via[b]]
          /\ \A r \in SeqNo : id[b] < next[via[b]][r] \/ leased[via[b]][r] <= id[b]
      BY <1>0, CounterTypes DEF IssuedOK
    <3> QED
      BY <1>0, <2>2, <3>1, CounterTypes, NumberFacts
  <2> QED
    BY <1>0, <2>1, <2>3, <2>4 DEF NumbersOK, LocalUniqueIds
<1>4. ASSUME NEW a \in AppendNo, NEW n \in Node, Install(a, n) PROVE NumbersOK'
  <2>1. rolling' = rolling /\ next' = next /\ leased' = leased /\ id' = id /\ via' = via
    BY <1>4 DEF Install, seqVars
  <2> QED
    BY <1>0, <2>1 DEF NumbersOK, RangesOK, IssuedOK, LocalUniqueIds
<1>5. ASSUME NEW a \in AppendNo, NEW n \in Node, NextForAppend(a, n) PROVE NumbersOK'
  <2> DEFINE k == NextNo(n, seq[a][n])
  <2>1. /\ seq[a][n] \in SeqNo /\ Draw(n, seq[a][n]) /\ via' = via /\ via[a] = n
        /\ \A b \in AppendNo : id'[b] = IF b = a THEN k ELSE id[b]
    BY <1>0, <1>5 DEF NextForAppend, TypeOK, ControlOK
  <2>2. RangesOK'
    BY <1>0, <2>1, DrawRanges
  <2>3. /\ \A b \in AppendNo : id[b] # NoId =>
              /\ id[b] < rolling'[via[b]]
              /\ \A r \in SeqNo : id[b] < next'[via[b]][r] \/ leased'[via[b]][r] <= id[b]
              /\ via[b] = n => id[b] # k
        /\ k < rolling'[n] /\ \A r \in SeqNo : k < next'[n][r] \/ leased'[n][r] <= k
    BY <1>0, <2>1, DrawFresh
  <2>4. k # NoId
    BY <1>0, <2>1, DrawFacts, NumberFacts
  <2> HIDE DEF k
  <2>5. IssuedOK'
    BY <2>1, <2>3 DEF IssuedOK
  <2>6. LocalUniqueIds'
    BY <1>0, <2>1, <2>3, <2>4 DEF LocalUniqueIds
  <2> QED
    BY <2>2, <2>5, <2>6 DEF NumbersOK
<1>6. ASSUME NEW a \in AppendNo, NEW n \in Node, NextForUpdate(a, n) PROVE NumbersOK'
  <2>1. seq[a][n] \in SeqNo /\ Draw(n, seq[a][n]) /\ via' = via /\ id' = id
    BY <1>0, <1>6 DEF NextForUpdate, ControlOK
  <2>2. RangesOK'
    BY <1>0, <2>1, DrawRanges
  <2>3. \A b \in AppendNo : id[b] # NoId =>
           /\ id[b] < rolling'[via[b]]
           /\ \A r \in SeqNo : id[b] < next'[via[b]][r] \/ leased'[via[b]][r] <= id[b]
    BY <1>0, <2>1, DrawFresh
  <2> QED
    BY <1>0, <2>1, <2>2, <2>3 DEF NumbersOK, IssuedOK, LocalUniqueIds
<1>7. ASSUME NEW a \in AppendNo, NEW n \in Node, SetItem(a, n) PROVE NumbersOK'
  <2>1. rolling' = rolling /\ next' = next /\ leased' = leased /\ id' = id /\ via' = via
    BY <1>7 DEF SetItem, seqVars
  <2> QED
    BY <1>0, <2>1 DEF NumbersOK, RangesOK, IssuedOK, LocalUniqueIds
<1>8. ASSUME NEW a \in AppendNo, NEW n \in Node, StoreFails(a, n) PROVE NumbersOK'
  <2>1. rolling' = rolling /\ next' = next /\ leased' = leased /\ id' = id /\ via' = via
    BY <1>8 DEF StoreFails, seqVars
  <2> QED
    BY <1>0, <2>1 DEF NumbersOK, RangesOK, IssuedOK, LocalUniqueIds
<1>9. ASSUME NEW a \in AppendNo, NEW n \in Node, Trigger(a, n) PROVE NumbersOK'
  <2>1. rolling' = rolling /\ next' = next /\ leased' = leased /\ id' = id /\ via' = via
    BY <1>9 DEF Trigger, seqVars
  <2> QED
    BY <1>0, <2>1 DEF NumbersOK, RangesOK, IssuedOK, LocalUniqueIds
<1>10. ASSUME NEW a \in AppendNo, RelayMembers(a) PROVE NumbersOK'
  <2>1. rolling' = rolling /\ next' = next /\ leased' = leased /\ id' = id /\ via' = via
    BY <1>10 DEF RelayMembers, seqVars
  <2> QED
    BY <1>0, <2>1 DEF NumbersOK, RangesOK, IssuedOK, LocalUniqueIds
<1>11. ASSUME NEW a \in AppendNo, RelayAborts(a) PROVE NumbersOK'
  <2>1. rolling' = rolling /\ next' = next /\ leased' = leased /\ id' = id /\ via' = via
    BY <1>11 DEF RelayAborts, seqVars
  <2> QED
    BY <1>0, <2>1 DEF NumbersOK, RangesOK, IssuedOK, LocalUniqueIds
<1>12. ASSUME NEW a \in AppendNo, NEW m \in Node, SendAppend(a, m) PROVE NumbersOK'
  <2>1. rolling' = rolling /\ next' = next /\ leased' = leased /\ id' = id /\ via' = via
    BY <1>12 DEF SendAppend, seqVars
  <2> QED
    BY <1>0, <2>1 DEF NumbersOK, RangesOK, IssuedOK, LocalUniqueIds
<1>13. ASSUME NEW a \in AppendNo, SendReturns(a) PROVE NumbersOK'
  <2>1. rolling' = rolling /\ next' = next /\ leased' = leased /\ id' = id /\ via' = via
    BY <1>13 DEF SendReturns, seqVars
  <2> QED
    BY <1>0, <2>1 DEF NumbersOK, RangesOK, IssuedOK, LocalUniqueIds
<1>14. ASSUME NEW a \in AppendNo, Report(a) PROVE NumbersOK'
  <2>1. rolling' = rolling /\ next' = next /\ leased' = leased /\ id' = id /\ via' = via
    BY <1>14 DEF Report, seqVars
  <2> QED
    BY <1>0, <2>1 DEF NumbersOK, RangesOK, IssuedOK, LocalUniqueIds
<1>15. ASSUME NEW a \in AppendNo, RelayDone(a) PROVE NumbersOK'
  <2>1. rolling' = rolling /\ next' = next /\ leased' = leased /\ id' = id /\ via' = via
    BY <1>15 DEF RelayDone, seqVars
  <2> QED
    BY <1>0, <2>1 DEF NumbersOK, RangesOK, IssuedOK, LocalUniqueIds
<1>16. ASSUME NEW n \in Node, Crash(n) PROVE NumbersOK'
  <2>1. /\ id' = id /\ via' = via /\ rolling' = rolling
        /\ \A m \in Node, q \in SeqNo :
              /\ next'[m][q] = IF m = n THEN 0 ELSE next[m][q]
              /\ leased'[m][q] = IF m = n THEN 0 ELSE leased[m][q]
    BY <1>0, <1>16, CrashFacts
  <2>2. rolling \in [Node -> Nat]
        /\ \A b \in AppendNo : id[b] # NoId => id[b] \in Nat /\ via[b] \in Node
    BY <1>0, NumberFacts DEF TypeOK, ControlOK
  <2>3. RangesOK'
    BY <1>0, <2>1, <2>2 DEF RangesOK
  <2>4. IssuedOK'
    BY <1>0, <2>1, <2>2 DEF IssuedOK
  <2> QED
    BY <1>0, <2>1, <2>3, <2>4 DEF NumbersOK, LocalUniqueIds
<1>17. ASSUME NEW n \in Node, Restart(n) PROVE NumbersOK'
  <2>1. rolling' = rolling /\ next' = next /\ leased' = leased /\ id' = id /\ via' = via
    BY <1>17 DEF Restart, seqVars
  <2> QED
    BY <1>0, <2>1 DEF NumbersOK, RangesOK, IssuedOK, LocalUniqueIds
<1>18. ASSUME NEW n \in Node, Serve(n) PROVE NumbersOK'
  <2>1. rolling' = rolling /\ next' = next /\ leased' = leased /\ id' = id /\ via' = via
    BY <1>18 DEF Serve, seqVars
  <2> QED
    BY <1>0, <2>1 DEF NumbersOK, RangesOK, IssuedOK, LocalUniqueIds
<1>19. ASSUME NEW n \in Node, NEW k \in missed[n], Recover(n, k) PROVE NumbersOK'
  <2>1. rolling' = rolling /\ next' = next /\ leased' = leased /\ id' = id /\ via' = via
    BY <1>19 DEF Recover, seqVars
  <2> QED
    BY <1>0, <2>1 DEF NumbersOK, RangesOK, IssuedOK, LocalUniqueIds
<1>20. ASSUME Done PROVE NumbersOK'
  BY <1>0, <1>20 DEF Done, vars, NumbersOK, RangesOK, IssuedOK, LocalUniqueIds, seqVars, relayVars
<1>21. ASSUME UNCHANGED vars PROVE NumbersOK'
  BY <1>0, <1>21 DEF vars, NumbersOK, RangesOK, IssuedOK, LocalUniqueIds, seqVars, relayVars
<1> QED
  BY NextCases, <1>1, <1>2, <1>3, <1>4, <1>5, <1>6, <1>7, <1>8, <1>9, <1>10, <1>11, <1>12, <1>13, <1>14, <1>15, <1>16, <1>17, <1>18, <1>19, <1>20, <1>21

LEMMA NextNamedOK == IInv /\ [Next]_vars => NamedOK'
<1> SUFFICES ASSUME IInv, [Next]_vars PROVE NamedOK'
  OBVIOUS
<1>0. TypeOK /\ ControlOK /\ RangesOK /\ IssuedOK /\ LocalUniqueIds /\ NamedOK
  BY DEF IInv, NumbersOK
<1>1. ASSUME NEW a \in AppendNo, NEW n \in Node, HandleAppend(a, n) PROVE NamedOK'
  <2>1. items' = items /\ id' = id
    BY <1>1 DEF HandleAppend
  <2> QED
    BY <1>0, <2>1 DEF NamedOK
<1>2. ASSUME NEW a \in AppendNo, NEW n \in Node, Lookup(a, n) PROVE NamedOK'
  <2>1. items' = items /\ id' = id
    BY <1>2 DEF Lookup
  <2> QED
    BY <1>0, <2>1 DEF NamedOK
<1>3. ASSUME NEW a \in AppendNo, NEW n \in Node, GetSequence(a, n) PROVE NamedOK'
  <2>1. items' = items /\ id' = id
    BY <1>3 DEF GetSequence
  <2> QED
    BY <1>0, <2>1 DEF NamedOK
<1>4. ASSUME NEW a \in AppendNo, NEW n \in Node, Install(a, n) PROVE NamedOK'
  <2>1. items' = items /\ id' = id
    BY <1>4 DEF Install
  <2> QED
    BY <1>0, <2>1 DEF NamedOK
<1>5. ASSUME NEW a \in AppendNo, NEW n \in Node, NextForAppend(a, n) PROVE NamedOK'
  <2>1. items' = items /\ id[a] = NoId /\ \A b \in AppendNo : b # a => id'[b] = id[b]
    BY <1>0, <1>5 DEF NextForAppend, ControlOK, TypeOK, Drawing
  <2>2. \A m \in Node : \A p \in items[m] : p[1] \in Nat /\ p[2] \in AppendNo
    BY <1>0 DEF TypeOK
  <2> QED
    BY <1>0, <2>1, <2>2, NumberFacts DEF NamedOK
<1>6. ASSUME NEW a \in AppendNo, NEW n \in Node, NextForUpdate(a, n) PROVE NamedOK'
  <2>1. items' = items /\ id' = id
    BY <1>6 DEF NextForUpdate
  <2> QED
    BY <1>0, <2>1 DEF NamedOK
<1>7. ASSUME NEW a \in AppendNo, NEW n \in Node, SetItem(a, n) PROVE NamedOK'
  <2>1. id' = id /\ id[a] \in Nat /\ Set(n, id[a], a)
    BY <1>0, <1>7 DEF SetItem, ControlOK, TypeOK
  <2>2. \A m \in Node :
           items'[m] = IF m = n THEN {p \in items[n] : p[1] # id[a]} \cup {<<id[a], a>>}
                       ELSE items[m]
    BY <1>0, <2>1, SetFacts
  <2> SUFFICES ASSUME NEW m \in Node, NEW p \in items'[m]
               PROVE  id[p[2]] = p[1]
    BY <2>1 DEF NamedOK
  <2>3. p \in items[m] \/ p = <<id[a], a>>
    BY <2>2
  <2> QED
    BY <1>0, <2>3 DEF NamedOK
<1>8. ASSUME NEW a \in AppendNo, NEW n \in Node, StoreFails(a, n) PROVE NamedOK'
  <2>1. items' = items /\ id' = id
    BY <1>8 DEF StoreFails
  <2> QED
    BY <1>0, <2>1 DEF NamedOK
<1>9. ASSUME NEW a \in AppendNo, NEW n \in Node, Trigger(a, n) PROVE NamedOK'
  <2>1. items' = items /\ id' = id
    BY <1>9 DEF Trigger
  <2> QED
    BY <1>0, <2>1 DEF NamedOK
<1>10. ASSUME NEW a \in AppendNo, RelayMembers(a) PROVE NamedOK'
  <2>1. items' = items /\ id' = id
    BY <1>10 DEF RelayMembers
  <2> QED
    BY <1>0, <2>1 DEF NamedOK
<1>11. ASSUME NEW a \in AppendNo, RelayAborts(a) PROVE NamedOK'
  <2>1. items' = items /\ id' = id
    BY <1>11 DEF RelayAborts
  <2> QED
    BY <1>0, <2>1 DEF NamedOK
<1>12. ASSUME NEW a \in AppendNo, NEW m \in Node, SendAppend(a, m) PROVE NamedOK'
  <2>1. items' = items /\ id' = id
    BY <1>12 DEF SendAppend
  <2> QED
    BY <1>0, <2>1 DEF NamedOK
<1>13. ASSUME NEW a \in AppendNo, SendReturns(a) PROVE NamedOK'
  <2>1. items' = items /\ id' = id
    BY <1>13 DEF SendReturns
  <2> QED
    BY <1>0, <2>1 DEF NamedOK
<1>14. ASSUME NEW a \in AppendNo, Report(a) PROVE NamedOK'
  <2>1. items' = items /\ id' = id
    BY <1>14 DEF Report
  <2> QED
    BY <1>0, <2>1 DEF NamedOK
<1>15. ASSUME NEW a \in AppendNo, RelayDone(a) PROVE NamedOK'
  <2>1. items' = items /\ id' = id
    BY <1>15 DEF RelayDone
  <2> QED
    BY <1>0, <2>1 DEF NamedOK
<1>16. ASSUME NEW n \in Node, Crash(n) PROVE NamedOK'
  <2>1. items' = items /\ id' = id
    BY <1>16 DEF Crash
  <2> QED
    BY <1>0, <2>1 DEF NamedOK
<1>17. ASSUME NEW n \in Node, Restart(n) PROVE NamedOK'
  <2>1. items' = items /\ id' = id
    BY <1>17 DEF Restart
  <2> QED
    BY <1>0, <2>1 DEF NamedOK
<1>18. ASSUME NEW n \in Node, Serve(n) PROVE NamedOK'
  <2>1. items' = items /\ id' = id
    BY <1>18 DEF Serve
  <2> QED
    BY <1>0, <2>1 DEF NamedOK
<1>19. ASSUME NEW n \in Node, NEW k \in missed[n], Recover(n, k) PROVE NamedOK'
  <2>1. id' = id /\ k \in Nat
    BY <1>0, <1>19 DEF Recover, TypeOK
  <2>2. CASE UNCHANGED items
    BY <1>0, <2>1, <2>2 DEF NamedOK
  <2>3. ASSUME NEW s \in Node, NEW p \in items[s], p[1] = k, Set(n, k, p[2])
        PROVE  NamedOK'
    <3>1. p[2] \in AppendNo /\ id[p[2]] = k
      BY <1>0, <2>3 DEF TypeOK, NamedOK
    <3>2. \A m \in Node :
             items'[m] = IF m = n THEN {r \in items[n] : r[1] # k} \cup {<<k, p[2]>>}
                         ELSE items[m]
      BY <1>0, <2>1, <2>3, <3>1, SetFacts
    <3> SUFFICES ASSUME NEW m \in Node, NEW r \in items'[m]
                 PROVE  id[r[2]] = r[1]
      BY <2>1 DEF NamedOK
    <3>3. r \in items[m] \/ r = <<k, p[2]>>
      BY <3>2
    <3> QED
      BY <1>0, <3>1, <3>3 DEF NamedOK
  <2> QED
    BY <1>19, <2>2, <2>3 DEF Recover
<1>20. ASSUME Done PROVE NamedOK'
  BY <1>0, <1>20 DEF Done, vars, NamedOK
<1>21. ASSUME UNCHANGED vars PROVE NamedOK'
  BY <1>0, <1>21 DEF vars, NamedOK
<1> QED
  BY NextCases, <1>1, <1>2, <1>3, <1>4, <1>5, <1>6, <1>7, <1>8, <1>9, <1>10, <1>11, <1>12, <1>13, <1>14, <1>15, <1>16, <1>17, <1>18, <1>19, <1>20, <1>21

----------------------------------------------------------------------------
(* The invariant, and what follows from it *)

LEMMA NextIInv == IInv /\ [Next]_vars => IInv'
BY NextTypeOK, NextControlOK, NextNumbersOK, NextNamedOK DEF IInv

\* Type correctness.
THEOREM TypeCorrect == Spec => []TypeOK
<1>1. IInv => TypeOK
  BY DEF IInv
<1> QED
  BY InitIInv, NextIInv, <1>1, PTL DEF Spec

\* A node never draws the same identifier for two appends, whatever races for
\* its sequence and however often it crashes.
THEOREM NoIdTwice == Spec => []LocalUniqueIds
<1>1. IInv => LocalUniqueIds
  BY DEF IInv, NumbersOK
<1> QED
  BY InitIInv, NextIInv, <1>1, PTL DEF Spec

\* Two stored items with the same identifier are the same item.
LEMMA SameItem ==
    ASSUME IInv, SingleEntry,
           NEW m \in Node, NEW n \in Node, NEW p \in items[m], NEW r \in items[n], p[1] = r[1]
    PROVE  p[2] = r[2]
<1>1. /\ p[2] \in AppendNo /\ r[2] \in AppendNo /\ p[1] \in Nat
      /\ id[p[2]] = p[1] /\ id[r[2]] = r[1]
  BY DEF IInv, TypeOK, NamedOK
<1>2. id[p[2]] # NoId /\ id[r[2]] # NoId
  BY <1>1, NumberFacts
<1>3. via[p[2]] \in Entry /\ via[r[2]] \in Entry
  BY <1>1, <1>2 DEF IInv, ControlOK
<1>4. via[p[2]] = via[r[2]]
  BY <1>3 DEF SingleEntry
<1>5. LocalUniqueIds
  BY DEF IInv, NumbersOK
<1> QED
  BY <1>1, <1>2, <1>4, <1>5 DEF LocalUniqueIds

\* With a single node to append at, the replicas never store different items
\* under one identifier.
THEOREM Agreement == Spec => []LogAgreement
<1>1. IInv => LogAgreement
  BY SameItem DEF LogAgreement, SingleEntry
<1> QED
  BY InitIInv, NextIInv, <1>1, PTL DEF Spec

\* Storing an item under the identifier of its append replaces nothing.
LEMMA SetKeeps ==
    ASSUME IInv, SingleEntry, NEW n \in Node, NEW a \in AppendNo,
           id[a] # NoId, Set(n, id[a], a)
    PROVE  \A m \in Node : items[m] \subseteq items'[m]
<1>1. id[a] \in Nat /\ TypeOK /\ via[a] \in Entry /\ LocalUniqueIds /\ NamedOK
  BY DEF IInv, TypeOK, ControlOK, NumbersOK
<1>2. \A m \in Node :
         items'[m] = IF m = n THEN {p \in items[n] : p[1] # id[a]} \cup {<<id[a], a>>}
                     ELSE items[m]
  BY <1>1, SetFacts
<1>3. ASSUME NEW p \in items[n], p[1] = id[a]
      PROVE  p = <<id[a], a>>
  <2>1. p[2] \in AppendNo /\ id[p[2]] = id[a] /\ p = <<p[1], p[2]>>
    BY <1>1, <1>3 DEF TypeOK, NamedOK
  <2>2. via[p[2]] \in Entry
    BY <2>1 DEF IInv, ControlOK
  <2>3. via[p[2]] = via[a]
    BY <1>1, <2>2 DEF SingleEntry
  <2>4. p[2] = a
    BY <1>1, <2>1, <2>3 DEF LocalUniqueIds
  <2> QED
    BY <1>3, <2>1, <2>4
<1> QED
  BY <1>2, <1>3

LEMMA ItemsGrow ==
    ASSUME IInv, SingleEntry, [Next]_vars
    PROVE  \A m \in Node : items[m] \subseteq items'[m]
<1> DEFINE Goal == \A m \in Node : items[m] \subseteq items'[m]
<1>1. CASE UNCHANGED items
  BY <1>1
<1>2. ASSUME NEW a \in AppendNo, NEW n \in Node, SetItem(a, n) PROVE Goal
  <2>1. id[a] # NoId /\ Set(n, id[a], a)
    BY <1>2 DEF SetItem, IInv, ControlOK
  <2> QED
    BY <2>1, SetKeeps
<1>3. ASSUME NEW n \in Node, NEW k \in missed[n], Recover(n, k) PROVE Goal
  <2>1. ASSUME NEW s \in Node, NEW p \in items[s], p[1] = k, Set(n, k, p[2]) PROVE Goal
    <3>1. p[2] \in AppendNo /\ id[p[2]] = k /\ k \in Nat
      BY <2>1 DEF IInv, TypeOK, NamedOK
    <3>2. id[p[2]] # NoId /\ Set(n, id[p[2]], p[2])
      BY <2>1, <3>1, NumberFacts
    <3> QED
      BY <3>1, <3>2, SetKeeps
  <2> QED
    BY <1>1, <1>3, <2>1 DEF Recover
<1>4. \/ UNCHANGED items
      \/ \E a \in AppendNo, n \in Node : SetItem(a, n)
      \/ \E n \in Node : \E k \in missed[n] : Recover(n, k)
  BY NextCases DEF HandleAppend, Lookup, GetSequence, Install, NextForAppend, NextForUpdate,
     StoreFails, Trigger, RelayMembers, RelayAborts, SendAppend, SendReturns, Report,
     RelayDone, Crash, Restart, Serve, Done, vars
<1> QED
  BY <1>1, <1>2, <1>3, <1>4

\* No step replaces or removes a stored item, with a single node to append at.
THEOREM NothingReplaced == Spec => Immutable
<1>1. IInv /\ [Next]_vars => [SingleEntry => \A m \in Node : items[m] \subseteq items'[m]]_vars
  BY ItemsGrow
<1> QED
  BY InitIInv, NextIInv, <1>1, PTL DEF Spec, Immutable, SingleEntry

\* A goroutine gets past its store step by storing the item.
KeptStep ==
    \A a \in AppendNo, n \in Node :
        n = via'[a] /\ pc'[a][n] \in Stored =>
            \/ n = via[a] /\ pc[a][n] \in Stored /\ id'[a] = id[a]
            \/ <<id'[a], a>> \in items'[n]

LEMMA NextKeptStep == IInv /\ [Next]_vars => KeptStep
<1> SUFFICES ASSUME IInv, [Next]_vars PROVE KeptStep
  OBVIOUS
<1>0. TypeOK /\ ControlOK /\ RangesOK /\ IssuedOK /\ LocalUniqueIds /\ NamedOK
  BY DEF IInv, NumbersOK
<1>1. ASSUME NEW a \in AppendNo, NEW n \in Node, HandleAppend(a, n) PROVE KeptStep
  <2>1. \A b \in AppendNo, m \in Node :
           pc'[b][m] = IF b = a /\ m = n THEN "lookup" ELSE pc[b][m]
    BY <1>0, <1>1, GotoFacts, LabelFacts DEF HandleAppend
  <2>2. id' = id /\ \A b \in AppendNo : via'[b] = IF b = a THEN n ELSE via[b]
    BY <1>0, <1>1 DEF HandleAppend, TypeOK
  <2> QED
    BY <2>1, <2>2 DEF KeptStep, Stored
<1>2. ASSUME NEW a \in AppendNo, NEW n \in Node, Lookup(a, n) PROVE KeptStep
  <2>1. id' = id /\ via' = via /\ \E label \in {"lease", "next"} : Goto(a, n, label)
    BY <1>2 DEF Lookup
  <2>2. \A b \in AppendNo, m \in Node :
           pc'[b][m] = pc[b][m] \/ (b = a /\ m = n /\ pc'[b][m] \in {"lease", "next"})
    BY <1>0, <2>1, GotoFacts, LabelFacts
  <2> QED
    BY <2>1, <2>2 DEF KeptStep, Stored
<1>3. ASSUME NEW a \in AppendNo, NEW n \in Node, GetSequence(a, n) PROVE KeptStep
  <2>1. id' = id /\ via' = via /\ \E label \in {"install"} : Goto(a, n, label)
    BY <1>3 DEF GetSequence
  <2>2. \A b \in AppendNo, m \in Node :
           pc'[b][m] = pc[b][m] \/ (b = a /\ m = n /\ pc'[b][m] \in {"install"})
    BY <1>0, <2>1, GotoFacts, LabelFacts
  <2> QED
    BY <2>1, <2>2 DEF KeptStep, Stored
<1>4. ASSUME NEW a \in AppendNo, NEW n \in Node, Install(a, n) PROVE KeptStep
  <2>1. id' = id /\ via' = via /\ \E label \in {"next"} : Goto(a, n, label)
    BY <1>4 DEF Install
  <2>2. \A b \in AppendNo, m \in Node :
           pc'[b][m] = pc[b][m] \/ (b = a /\ m = n /\ pc'[b][m] \in {"next"})
    BY <1>0, <2>1, GotoFacts, LabelFacts
  <2> QED
    BY <2>1, <2>2 DEF KeptStep, Stored
<1>5. ASSUME NEW a \in AppendNo, NEW n \in Node, NextForAppend(a, n) PROVE KeptStep
  <2>1. \A b \in AppendNo, m \in Node :
           pc'[b][m] = IF b = a /\ m = n THEN "set" ELSE pc[b][m]
    BY <1>0, <1>5, GotoFacts, LabelFacts DEF NextForAppend
  <2>2. via' = via /\ via[a] = n /\ \A b \in AppendNo : b # a => id'[b] = id[b]
    BY <1>0, <1>5 DEF NextForAppend, TypeOK
  <2> QED
    BY <2>1, <2>2 DEF KeptStep, Stored
<1>6. ASSUME NEW a \in AppendNo, NEW n \in Node, NextForUpdate(a, n) PROVE KeptStep
  <2>1. id' = id /\ via' = via /\ \E label \in {"lookup", "set"} : Goto(a, n, label)
    BY <1>6 DEF NextForUpdate
  <2>2. \A b \in AppendNo, m \in Node :
           pc'[b][m] = pc[b][m] \/ (b = a /\ m = n /\ pc'[b][m] \in {"lookup", "set"})
    BY <1>0, <2>1, GotoFacts, LabelFacts
  <2> QED
    BY <2>1, <2>2 DEF KeptStep, Stored
<1>7. ASSUME NEW a \in AppendNo, NEW n \in Node, SetItem(a, n) PROVE KeptStep
  <2>1. id[a] \in Nat /\ Set(n, id[a], a) /\ id' = id /\ via' = via
    BY <1>0, <1>7 DEF SetItem, ControlOK, TypeOK
  <2>2. <<id[a], a>> \in items'[n]
    <3>1. items'[n] = {p \in items[n] : p[1] # id[a]} \cup {<<id[a], a>>}
      BY <1>0, <2>1, SetFacts
    <3> QED
      BY <3>1
  <2>3. \A b \in AppendNo, m \in Node : b # a \/ m # n => pc'[b][m] = pc[b][m]
    BY <1>0, <1>7, GotoFacts, LabelFacts DEF SetItem
  <2> QED
    BY <2>1, <2>2, <2>3 DEF KeptStep, Stored
<1>8. ASSUME NEW a \in AppendNo, NEW n \in Node, StoreFails(a, n) PROVE KeptStep
  <2>1. id' = id /\ via' = via /\ \E label \in {"failed", "set", "err"} : Goto(a, n, label)
    BY <1>8 DEF StoreFails
  <2>2. \A b \in AppendNo, m \in Node :
           pc'[b][m] = pc[b][m] \/ (b = a /\ m = n /\ pc'[b][m] \in {"failed", "set", "err"})
    BY <1>0, <2>1, GotoFacts, LabelFacts
  <2> QED
    BY <2>1, <2>2 DEF KeptStep, Stored
<1>9. ASSUME NEW a \in AppendNo, NEW n \in Node, Trigger(a, n) PROVE KeptStep
  <2>1. id' = id /\ via' = via /\ pc[a][n] \in Stored /\ \E label \in Label : Goto(a, n, label)
    BY <1>9, LabelFacts DEF Trigger, Stored
  <2>2. \A b \in AppendNo, m \in Node : b # a \/ m # n => pc'[b][m] = pc[b][m]
    BY <1>0, <2>1, GotoFacts
  <2> QED
    BY <2>1, <2>2 DEF KeptStep
<1>10. ASSUME NEW a \in AppendNo, RelayMembers(a) PROVE KeptStep
  <2>1. /\ id' = id /\ via' = via /\ via[a] \in Node /\ pc[a][via[a]] \in Stored
        /\ \E label \in Label : Goto(a, via[a], label)
    BY <1>0, <1>10, LabelFacts DEF RelayMembers, Failed, TypeOK, Stored
  <2>2. \A b \in AppendNo, m \in Node : b # a \/ m # via[a] => pc'[b][m] = pc[b][m]
    BY <1>0, <2>1, GotoFacts
  <2> QED
    BY <2>1, <2>2 DEF KeptStep
<1>11. ASSUME NEW a \in AppendNo, RelayAborts(a) PROVE KeptStep
  <2>1. /\ id' = id /\ via' = via /\ via[a] \in Node /\ pc[a][via[a]] \in Stored
        /\ \E label \in Label : Goto(a, via[a], label)
    BY <1>0, <1>11, LabelFacts DEF RelayAborts, Failed, TypeOK, Stored
  <2>2. \A b \in AppendNo, m \in Node : b # a \/ m # via[a] => pc'[b][m] = pc[b][m]
    BY <1>0, <2>1, GotoFacts
  <2> QED
    BY <2>1, <2>2 DEF KeptStep
<1>12. ASSUME NEW a \in AppendNo, NEW m \in Node, SendAppend(a, m) PROVE KeptStep
  <2>1. /\ id' = id /\ via' = via /\ via[a] \in Node /\ pc[a][via[a]] \in Stored
        /\ m # via[a] /\ pc \in [AppendNo -> [Node -> Label]]
    BY <1>0, <1>12 DEF SendAppend, TypeOK, Stored, ControlOK
  <2>2. \A b \in AppendNo, l \in Node :
           (b # a \/ (l # via[a] /\ l # m)) => pc'[b][l] = pc[b][l]
    BY <1>12, <2>1 DEF SendAppend
  <2> QED
    BY <2>1, <2>2 DEF KeptStep
<1>13. ASSUME NEW a \in AppendNo, SendReturns(a) PROVE KeptStep
  <2>1. /\ id' = id /\ via' = via /\ via[a] \in Node /\ pc[a][via[a]] \in Stored
        /\ \E label \in Label : Goto(a, via[a], label)
    BY <1>0, <1>13, LabelFacts DEF SendReturns, Failed, TypeOK, Stored
  <2>2. \A b \in AppendNo, m \in Node : b # a \/ m # via[a] => pc'[b][m] = pc[b][m]
    BY <1>0, <2>1, GotoFacts
  <2> QED
    BY <2>1, <2>2 DEF KeptStep
<1>14. ASSUME NEW a \in AppendNo, Report(a) PROVE KeptStep
  <2>1. /\ id' = id /\ via' = via /\ via[a] \in Node /\ pc[a][via[a]] \in Stored
        /\ \E label \in Label : Goto(a, via[a], label)
    BY <1>0, <1>14, LabelFacts DEF Report, Failed, TypeOK, Stored
  <2>2. \A b \in AppendNo, m \in Node : b # a \/ m # via[a] => pc'[b][m] = pc[b][m]
    BY <1>0, <2>1, GotoFacts
  <2> QED
    BY <2>1, <2>2 DEF KeptStep
<1>15. ASSUME NEW a \in AppendNo, RelayDone(a) PROVE KeptStep
  <2>1. /\ id' = id /\ via' = via /\ via[a] \in Node /\ pc[a][via[a]] \in Stored
        /\ \E label \in Label : Goto(a, via[a], label)
    BY <1>0, <1>15, LabelFacts DEF RelayDone, Failed, TypeOK, Stored
  <2>2. \A b \in AppendNo, m \in Node : b # a \/ m # via[a] => pc'[b][m] = pc[b][m]
    BY <1>0, <2>1, GotoFacts
  <2> QED
    BY <2>1, <2>2 DEF KeptStep
<1>16. ASSUME NEW n \in Node, Crash(n) PROVE KeptStep
  BY <1>0, <1>16, CrashFacts DEF KeptStep, Stored
<1>17. ASSUME NEW n \in Node, Restart(n) PROVE KeptStep
  BY <1>17 DEF Restart, KeptStep
<1>18. ASSUME NEW n \in Node, Serve(n) PROVE KeptStep
  BY <1>18 DEF Serve, KeptStep
<1>19. ASSUME NEW n \in Node, NEW k \in missed[n], Recover(n, k) PROVE KeptStep
  BY <1>19 DEF Recover, KeptStep
<1>20. ASSUME Done PROVE KeptStep
  BY <1>20 DEF Done, vars, KeptStep
<1>21. ASSUME UNCHANGED vars PROVE KeptStep
  BY <1>21 DEF vars, KeptStep
<1> QED
  BY NextCases, <1>1, <1>2, <1>3, <1>4, <1>5, <1>6, <1>7, <1>8, <1>9, <1>10, <1>11, <1>12, <1>13, <1>14, <1>15, <1>16, <1>17, <1>18, <1>19, <1>20, <1>21

LEMMA NextKept == IInv /\ KeptOK /\ SingleEntry /\ [Next]_vars => KeptOK'
BY NextKeptStep, ItemsGrow DEF KeptOK, KeptStep

\* What the client has been told is appended is in the log of the node it was
\* sent to, with a single such node.
THEOREM Kept == Spec => []AppendsKept
<1>1. CASE ~SingleEntry
  <2>1. AppendsKept
    BY <1>1 DEF AppendsKept, SingleEntry
  <2> QED
    BY <2>1, PTL
<1>2. CASE SingleEntry
  <2>1. Init => KeptOK
    BY DEF Init, KeptOK, Stored
  <2>2. IInv /\ KeptOK /\ [Next]_vars => KeptOK'
    BY <1>2, NextKept
  <2>3. IInv /\ KeptOK => AppendsKept
    <3> SUFFICES ASSUME IInv, KeptOK, NEW a \in acked
                 PROVE  <<id[a], a>> \in items[via[a]]
      BY DEF AppendsKept
    <3>1. a \in AppendNo
      BY DEF IInv, TypeOK
    <3>2. via[a] \in Node /\ pc[a][via[a]] = "done"
      BY <3>1, NumberFacts DEF IInv, ControlOK
    <3> QED
      BY <3>1, <3>2 DEF KeptOK, Stored
  <2> QED
    BY InitIInv, NextIInv, <2>1, <2>2, <2>3, PTL DEF Spec
<1> QED
  BY <1>1, <1>2
----------------------------------------------------------------------------
(* The replicas together are one immutable log *)

TheLog == UNION {items[n] : n \in Node}

\* A pair in the log belongs to the append that drew its identifier.
LEMMA LogPair ==
    ASSUME IInv, NEW p \in TheLog
    PROVE  p[2] \in AppendNo /\ p[1] \in Nat /\ p = <<p[1], p[2]>> /\ id[p[2]] = p[1]
<1>1. PICK n \in Node : p \in items[n]
  BY DEF TheLog
<1> QED
  BY <1>1 DEF IInv, TypeOK, NamedOK

\* Storing the item of append a at a node adds the pair to the log, or nothing
\* when another replica has it.
LEMMA SetLog ==
    ASSUME IInv, SingleEntry, NEW n \in Node, NEW a \in AppendNo,
           id[a] # NoId, Set(n, id[a], a)
    PROVE  TheLog' = TheLog \cup {<<id[a], a>>}
<1>1. TypeOK /\ id[a] \in Nat
  BY DEF IInv, TypeOK
<1>2. \A m \in Node :
         items'[m] = IF m = n THEN {p \in items[n] : p[1] # id[a]} \cup {<<id[a], a>>}
                     ELSE items[m]
  BY <1>1, SetFacts
<1>3. \A m \in Node : items[m] \subseteq items'[m]
  BY SetKeeps
<1>4. ASSUME NEW p \in TheLog' PROVE p \in TheLog \cup {<<id[a], a>>}
  <2>1. PICK m \in Node : p \in items'[m]
    BY <1>4 DEF TheLog
  <2> QED
    BY <1>2, <2>1 DEF TheLog
<1>5. ASSUME NEW p \in TheLog PROVE p \in TheLog'
  <2>1. PICK m \in Node : p \in items[m]
    BY <1>5 DEF TheLog
  <2>2. p \in items'[m]
    BY <1>3, <2>1
  <2> QED
    BY <2>2 DEF TheLog
<1>6. <<id[a], a>> \in TheLog'
  <2>1. <<id[a], a>> \in items'[n]
    BY <1>2
  <2> QED
    BY <2>1 DEF TheLog
<1> QED
  BY <1>4, <1>5, <1>6

\* A pair that is not in the log yet has a new identifier and a new item.
LEMMA FreshPair ==
    ASSUME IInv, SingleEntry, NEW a \in AppendNo, id[a] # NoId,
           <<id[a], a>> \notin TheLog, NEW q \in TheLog
    PROVE  q[1] # id[a] /\ q[2] # a
<1>1. q[2] \in AppendNo /\ q[1] \in Nat /\ q = <<q[1], q[2]>> /\ id[q[2]] = q[1]
  BY LogPair
<1>2. q[2] # a
  BY <1>1
<1>3. id[q[2]] # NoId
  BY <1>1, NumberFacts
<1>4. via[a] \in Entry /\ via[q[2]] \in Entry
  BY <1>1, <1>3 DEF IInv, ControlOK
<1>5. via[a] = via[q[2]]
  BY <1>4 DEF SingleEntry
<1> QED
  BY <1>1, <1>2, <1>5 DEF IInv, NumbersOK, LocalUniqueIds

\* Every step of the replicas is a step of the log, or changes nothing in it.
LEMMA StepOfLog ==
    ASSUME IInv, KeptOK, SingleEntry, [Next]_vars
    PROVE  \/ TheLog' = TheLog /\ acked' = acked
           \/ \E a \in AppendNo : Log!Return(a)
           \/ \E p \in TheLog' : Log!Store(p)
<1> DEFINE Goal ==
             \/ TheLog' = TheLog /\ acked' = acked
             \/ \E a \in AppendNo : Log!Return(a)
             \/ \E p \in TheLog' : Log!Store(p)
<1>1. CASE UNCHANGED <<items, acked>>
  BY <1>1 DEF TheLog
<1>2. ASSUME NEW a \in AppendNo, NEW n \in Node, SetItem(a, n) PROVE Goal
  <2>1. id[a] # NoId /\ Set(n, id[a], a) /\ acked' = acked
    BY <1>2 DEF SetItem, IInv, ControlOK
  <2>2. TheLog' = TheLog \cup {<<id[a], a>>}
    BY <2>1, SetLog
  <2>3. CASE <<id[a], a>> \in TheLog
    BY <2>1, <2>2, <2>3
  <2>4. CASE <<id[a], a>> \notin TheLog
    <3>1. \A q \in TheLog : q[1] # id[a] /\ q[2] # a
      BY <2>1, <2>4, FreshPair
    <3>2. PICK p : p = <<id[a], a>>
      OBVIOUS
    <3>3. p \in TheLog' /\ p[1] = id[a] /\ p[2] = a
      BY <2>2, <3>2
    <3>4. Log!Store(p)
      BY <2>1, <2>2, <3>1, <3>2, <3>3 DEF Log!Store, TheLog
    <3> QED
      BY <3>3, <3>4
  <2> QED
    BY <2>3, <2>4
<1>3. ASSUME NEW n \in Node, NEW k \in missed[n], Recover(n, k) PROVE Goal
  <2>1. acked' = acked
    BY <1>3 DEF Recover
  <2>2. ASSUME NEW s \in Node, NEW p \in items[s], p[1] = k, Set(n, k, p[2]) PROVE Goal
    <3>1. p \in TheLog
      BY DEF TheLog
    <3>2. p[2] \in AppendNo /\ p[1] \in Nat /\ p = <<p[1], p[2]>> /\ id[p[2]] = p[1]
      BY <3>1, LogPair
    <3>3. id[p[2]] # NoId /\ Set(n, id[p[2]], p[2])
      BY <2>2, <3>2, NumberFacts
    <3>4. TheLog' = TheLog \cup {<<id[p[2]], p[2]>>}
      BY <3>2, <3>3, SetLog
    <3>5. TheLog' = TheLog
      BY <3>1, <3>2, <3>4
    <3> QED
      BY <2>1, <3>5
  <2>3. CASE UNCHANGED items
    BY <2>1, <2>3 DEF TheLog
  <2> QED
    BY <1>3, <2>2, <2>3 DEF Recover
<1>4. ASSUME NEW a \in AppendNo, NEW n \in Node, Trigger(a, n) PROVE Goal
  <2>1. items' = items /\ TheLog' = TheLog
    BY <1>4 DEF Trigger, TheLog
  <2>2. CASE acked' = acked
    BY <2>1, <2>2
  <2>3. CASE via[a] = n /\ acked' = acked \cup {a}
    <3>1. <<id[a], a>> \in items[n]
      BY <1>4, <2>3 DEF Trigger, KeptOK, Stored
    <3>2. <<id[a], a>> \in TheLog /\ <<id[a], a>>[2] = a
      BY <3>1 DEF TheLog
    <3>3. Log!Return(a)
      BY <2>1, <2>3, <3>2 DEF Log!Return, TheLog
    <3> QED
      BY <3>3
  <2> QED
    BY <1>4, <2>2, <2>3 DEF Trigger
<1>5. \/ UNCHANGED <<items, acked>>
      \/ \E a \in AppendNo, n \in Node : SetItem(a, n) \/ Trigger(a, n)
      \/ \E n \in Node : \E k \in missed[n] : Recover(n, k)
  BY NextCases DEF HandleAppend, Lookup, GetSequence, Install, NextForAppend, NextForUpdate,
     StoreFails, RelayMembers, RelayAborts, SendAppend, SendReturns, Report,
     RelayDone, Crash, Restart, Serve, Done, vars
<1> QED
  BY <1>1, <1>2, <1>3, <1>4, <1>5

\* With a single node to append at, the replicas implement one immutable log:
\* crashes, lost calls and recoveries included, an identifier names one item
\* for good, an item gets one identifier, and only what is in the log is
\* returned to a client.
THEOREM LogImplemented == ASSUME SingleEntry PROVE Spec => ImplementsLog
<1>1. Init => KeptOK
  BY DEF Init, KeptOK, Stored
<1>2. IInv /\ KeptOK /\ [Next]_vars => KeptOK'
  BY NextKept
<1>3. Init => Log!Init
  BY DEF Init, Log!Init
<1>4. IInv /\ KeptOK /\ [Next]_vars => [Log!Next]_<<TheLog, acked>>
  BY StepOfLog DEF Log!Next, TheLog
<1> QED
  BY InitIInv, NextIInv, <1>1, <1>2, <1>3, <1>4, PTL DEF Spec, ImplementsLog, Log!Spec, TheLog

----------------------------------------------------------------------------
(* Identifiers are unique and growing when appends follow each other *)

\* Clients wait for each other, no process ends, and the name service and the
\* databases answer.  Calls between nodes and to triggers may fail.
InTurn == Sequential /\ Crashable = {} /\ Faults \cap {"nase", "store"} = {}

\* The number n gives out next, while it has the sequence object it was made with.
Position(n) == NextNo(n, 0)

Open(a) == \E n \in Node : pc[a][n] \notin Ended

\* Nobody has lost a sequence object or made a new one.
UndisturbedOK ==
    \A n \in Node :
        /\ nodeState[n] = "up" /\ seqMap[n] = 0
        /\ \A a \in AppendNo : seq[a][n] \in {0, NoSeq} /\ pc[a][n] \notin {"lease", "install"}

OneOpen == \A a, b \in AppendNo : Open(a) /\ Open(b) => a = b

\* The members the relay has called have moved past the identifier, or the name
\* service knows that they have not.
RelayOK(a) ==
    /\ id[a] # NoId => id[a] < Position(via[a])
    /\ \A n \in Node : n # via[a] /\ pc[a][n] \in {"set", "trigger", "ok"} => id[a] < Position(n)
    /\ \A v \in Node : via[a] = v /\ pc[a][v] \in {"trigger", "done"} => todo[a] = {}
    /\ \A v, n \in Node :
          /\ via[a] = v /\ n # v /\ n \notin todo[a]
          /\ pc[a][v] \in {"send", "wait", "report", "trigger", "done"}
          => \/ id[a] < Position(n) \/ <<n, id[a]>> \in failnode
             \/ pc[a][v] \in {"wait", "report"} /\ n = tgt[a]

\* What had been returned before a began is behind a and every node; of two appends
\* that were answered, one began after the other's answer.
BeforeOK(a) ==
    /\ \A k \in before[a] : \A n \in Node : k < Position(n)
    /\ \A k \in before[a] : id[a] # NoId => k < id[a]
    /\ Open(a) => \A b \in acked : b = a \/ id[b] \in before[a]
    /\ a \in acked => \A b \in acked : b = a \/ id[b] \in before[a] \/ id[a] \in before[b]

TurnInv ==
    IInv /\ UndisturbedOK /\ OneOpen /\ \A a \in AppendNo : RelayOK(a) /\ BeforeOK(a)

LEMMA InitTurn == Init => TurnInv
<1> SUFFICES ASSUME Init PROVE TurnInv
  OBVIOUS
<1>1. /\ \A a \in AppendNo : id[a] = NoId /\ via[a] = NoNode /\ before[a] = {}
      /\ \A a \in AppendNo, n \in Node : pc[a][n] = "none" /\ seq[a][n] = NoSeq
      /\ \A n \in Node : nodeState[n] = "up" /\ seqMap[n] = 0
      /\ acked = {}
  BY DEF Init
<1>2. UndisturbedOK
  BY <1>1 DEF UndisturbedOK
<1>3. OneOpen
  BY <1>1 DEF OneOpen, Open, Ended
<1>4. \A a \in AppendNo : RelayOK(a) /\ BeforeOK(a)
  BY <1>1, NumberFacts DEF RelayOK, BeforeOK
<1> QED
  BY <1>2, <1>3, <1>4, InitIInv DEF TurnInv

\* No node goes back.
Forward ==
    \A n \in Node : Position(n) \in Nat /\ Position(n)' \in Nat /\ Position(n) <= Position(n)'

LEMMA StandingStill ==
    ASSUME TypeOK, UNCHANGED seqVars
    PROVE  Forward /\ \A n \in Node : Position(n)' = Position(n)
BY NumberFacts DEF TypeOK, seqVars, Forward, Position, NextNo, HasLease

\* Drawing a number passes it.
LEMMA DrawForward ==
    ASSUME TypeOK, ControlOK, RangesOK, NEW n \in Node, Draw(n, 0)
    PROVE  Forward /\ Position(n) < Position(n)'
<1>1. 0 \in SeqNo
  BY NumberFacts
<1>2. /\ NextNo(n, 0) \in Nat
      /\ \A m \in Node :
            /\ next'[m][0] = IF m = n THEN NextNo(n, 0) + 1 ELSE next[m][0]
            /\ leased'[m][0] = IF m = n /\ ~HasLease(n, 0)
                               THEN rolling[n] + Bandwidth ELSE leased[m][0]
            /\ rolling'[m] = IF m = n /\ ~HasLease(n, 0)
                             THEN rolling[n] + Bandwidth ELSE rolling[m]
  BY <1>1, DrawFacts
<1>3. \A m \in Node : /\ rolling[m] \in Nat /\ next[m][0] \in Nat /\ leased[m][0] \in Nat
                      /\ leased[m][0] <= rolling[m]
  BY <1>1, CounterTypes DEF RangesOK
<1>4. ASSUME NEW m \in Node, m # n PROVE Position(m) \in Nat /\ Position(m)' = Position(m)
  BY <1>2, <1>3, <1>4 DEF Position, NextNo, HasLease
<1>5. Position(n) \in Nat /\ Position(n)' \in Nat /\ Position(n) < Position(n)'
  BY <1>2, <1>3, NumberFacts DEF Position, NextNo, HasLease
<1>6. \A m \in Node : Position(m) \in Nat /\ Position(m)' \in Nat /\ Position(m) <= Position(m)'
  BY <1>4, <1>5
<1> QED
  BY <1>5, <1>6 DEF Forward

\* A step of append a, as the others see it.
Touches(a) ==
    /\ \A b \in AppendNo \ {a} :
          /\ id'[b] = id[b] /\ via'[b] = via[b] /\ before'[b] = before[b]
          /\ todo'[b] = todo[b] /\ tgt'[b] = tgt[b]
          /\ \A n \in Node : pc'[b][n] = pc[b][n]
    /\ via[a] # NoNode => before'[a] = before[a]
    /\ id[a] # NoId => id'[a] = id[a]
    /\ failnode \subseteq failnode'
    /\ acked \subseteq acked' /\ acked' \subseteq acked \cup {a}

LEMMA OthersRelay ==
    ASSUME TurnInv, NEW a \in AppendNo, Touches(a), Forward, NEW b \in AppendNo, b # a
    PROVE  RelayOK(b)'
<1>1. RelayOK(b)
  BY DEF TurnInv
<1>2. id[b] \in Int /\ (id[b] # NoId => via[b] \in Node)
  BY CounterTypes, NumberFacts DEF TurnInv, IInv, TypeOK, NoId
<1>3. /\ id'[b] = id[b] /\ via'[b] = via[b] /\ todo'[b] = todo[b] /\ tgt'[b] = tgt[b]
      /\ \A n \in Node : pc'[b][n] = pc[b][n]
      /\ failnode \subseteq failnode'
  BY DEF Touches
<1>4. \A n \in Node : id[b] < Position(n) => id[b] < Position(n)'
  BY <1>2 DEF Forward
<1>5. /\ id'[b] # NoId => id'[b] < Position(via[b])'
      /\ \A n \in Node : n # via'[b] /\ pc'[b][n] \in {"set", "trigger", "ok"} => id'[b] < Position(n)'
      /\ \A v \in Node : via'[b] = v /\ pc'[b][v] \in {"trigger", "done"} => todo'[b] = {}
  BY <1>1, <1>2, <1>3, <1>4 DEF RelayOK
<1>6. \A v, n \in Node :
          /\ via'[b] = v /\ n # v /\ n \notin todo'[b]
          /\ pc'[b][v] \in {"send", "wait", "report", "trigger", "done"}
          => \/ id'[b] < Position(n)' \/ <<n, id'[b]>> \in failnode'
             \/ pc'[b][v] \in {"wait", "report"} /\ n = tgt'[b]
  BY <1>1, <1>3, <1>4 DEF RelayOK
<1> HIDE DEF Position
<1> QED
  BY <1>3, <1>5, <1>6 DEF RelayOK

LEMMA OthersBefore ==
    ASSUME TurnInv, NEW a \in AppendNo, Touches(a), Forward, Open(a) \/ acked' = acked,
           NEW b \in AppendNo, b # a
    PROVE  BeforeOK(b)'
<1>1. BeforeOK(b) /\ BeforeOK(a)
  BY DEF TurnInv
<1>2. id[b] \in Int /\ before[b] \subseteq Nat /\ acked \subseteq AppendNo
  BY DEF TurnInv, IInv, TypeOK, NoId
<1>3. \A c \in acked : id[c] # NoId
  BY <1>2, NumberFacts DEF TurnInv, IInv, ControlOK, Stored
<1>4. /\ \A c \in acked : id'[c] = id[c]
      /\ id'[b] = id[b] /\ before'[b] = before[b]
      /\ \A c \in AppendNo \ {a} : before'[c] = before[c]
      /\ acked \subseteq acked' /\ acked' \subseteq acked \cup {a}
  BY <1>2, <1>3 DEF Touches
<1>5. Open(b)' <=> Open(b)
  BY DEF Touches, Open
<1>6. Open(b) => acked' = acked
  BY DEF TurnInv, OneOpen
<1>7. \A k \in before'[b] : \A n \in Node : k < Position(n)'
  BY <1>1, <1>2, <1>4 DEF BeforeOK, Forward
<1>8. \A k \in before'[b] : id'[b] # NoId => k < id'[b]
  BY <1>1, <1>4 DEF BeforeOK
<1>9. Open(b)' => \A c \in acked' : c = b \/ id'[c] \in before'[b]
  BY <1>1, <1>4, <1>5, <1>6 DEF BeforeOK
<1>10. ASSUME b \in acked', NEW c \in acked', c # b
       PROVE  id'[c] \in before'[b] \/ id'[b] \in before'[c]
  <2>1. b \in acked
    BY <1>4, <1>10
  <2>2. CASE c # a
    BY <1>1, <1>2, <1>4, <1>10, <2>1, <2>2 DEF BeforeOK
  <2>3. CASE c = a
    <3>1. Open(a) => via[a] # NoNode
      BY DEF TurnInv, IInv, ControlOK, Open, Ended
    <3>2. a \in acked => via[a] # NoNode
      BY DEF TurnInv, IInv, ControlOK
    <3>3. before'[a] = before[a]
      BY <1>4, <1>10, <2>3, <3>1, <3>2 DEF Touches
    <3> QED
      BY <1>1, <1>2, <1>4, <1>10, <2>1, <2>3, <3>3 DEF BeforeOK
  <2> QED
    BY <2>2, <2>3
<1> QED
  BY <1>7, <1>8, <1>9, <1>10 DEF BeforeOK

LEMMA OwnBefore ==
    ASSUME TurnInv, NEW a \in AppendNo, Touches(a), Forward, Open(a),
           \A k \in before[a] : id'[a] # NoId => k < id'[a]
    PROVE  BeforeOK(a)'
<1>1. BeforeOK(a)
  BY DEF TurnInv
<1>2. before[a] \subseteq Nat /\ acked \subseteq AppendNo
  BY DEF TurnInv, IInv, TypeOK
<1>3. via[a] # NoNode
  BY DEF TurnInv, IInv, ControlOK, Open, Ended
<1>4. \A c \in acked : id[c] # NoId
  BY <1>2, NumberFacts DEF TurnInv, IInv, ControlOK, Stored
<1>5. /\ before'[a] = before[a]
      /\ \A c \in acked : id'[c] = id[c]
      /\ acked' \subseteq acked \cup {a}
  BY <1>2, <1>3, <1>4 DEF Touches
<1>6. \A k \in before'[a] : \A n \in Node : k < Position(n)'
  BY <1>1, <1>2, <1>5 DEF BeforeOK, Forward
<1>7. \A b \in acked' : b = a \/ id'[b] \in before'[a]
  BY <1>1, <1>5 DEF BeforeOK
<1> QED
  BY <1>5, <1>6, <1>7 DEF BeforeOK

\* What is left to show of a step of an open append.
LEMMA OwnStep ==
    ASSUME TurnInv, [Next]_vars, NEW a \in AppendNo, Touches(a), Forward, Open(a),
           \A k \in before[a] : id'[a] # NoId => k < id'[a],
           UndisturbedOK', RelayOK(a)'
    PROVE  TurnInv'
<1>1. IInv'
  BY NextIInv DEF TurnInv
<1>2. \A b \in AppendNo : b # a => ~Open(b)
  BY DEF TurnInv, OneOpen
<1>3. \A b \in AppendNo : b # a => ~Open(b)'
  BY <1>2 DEF Touches, Open
<1>4. OneOpen'
  BY <1>3 DEF OneOpen
<1>5. \A b \in AppendNo : RelayOK(b)' /\ BeforeOK(b)'
  BY OthersRelay, OthersBefore, OwnBefore
<1> QED
  BY <1>1, <1>4, <1>5 DEF TurnInv

\* A step of the goroutine of a at n, or of its relay, that draws no number.
LEMMA QuietStep ==
    ASSUME TurnInv, [Next]_vars, NEW a \in AppendNo, NEW n \in Node, NEW label \in Label,
           pc[a][n] \notin Ended, Goto(a, n, label), label \notin {"lease", "install"},
           UNCHANGED <<nodeState, seqVars, seq, id, via, before>>,
           \A b \in AppendNo \ {a} : todo'[b] = todo[b] /\ tgt'[b] = tgt[b],
           failnode \subseteq failnode', acked \subseteq acked', acked' \subseteq acked \cup {a},
           RelayOK(a)'
    PROVE  TurnInv'
<1>1. TypeOK /\ BeforeOK(a) /\ UndisturbedOK
  BY DEF TurnInv, IInv
<1>2. \A b \in AppendNo, m \in Node : pc'[b][m] = IF b = a /\ m = n THEN label ELSE pc[b][m]
  BY <1>1, GotoFacts
<1>3. Touches(a)
  BY <1>2 DEF Touches
<1>4. Forward
  BY <1>1, StandingStill
<1>5. UndisturbedOK'
  BY <1>1, <1>2 DEF UndisturbedOK, seqVars
<1>6. Open(a)
  BY DEF Open
<1>7. \A k \in before[a] : id'[a] # NoId => k < id'[a]
  BY <1>1 DEF BeforeOK
<1> QED
  BY <1>3, <1>4, <1>5, <1>6, <1>7, OwnStep

\* What a has passed, it has still passed after a step that keeps its identifier.
RelayMoves(a) ==
    /\ id'[a] # NoId => id'[a] < Position(via[a])'
    /\ \A n \in Node : id[a] < Position(n) => id'[a] < Position(n)'

LEMMA KeepsMoves ==
    ASSUME TypeOK, ControlOK, Forward, NEW a \in AppendNo, RelayOK(a),
           id'[a] = id[a], via'[a] = via[a]
    PROVE  RelayMoves(a)
<1>1. id[a] \in Int /\ (id[a] # NoId => via[a] \in Node)
  BY CounterTypes DEF TypeOK, NoId
<1>2. \A n \in Node : id[a] < Position(n) => id[a] < Position(n)'
  BY <1>1 DEF Forward
<1> QED
  BY <1>1, <1>2 DEF RelayMoves, RelayOK

LEMMA NextTurn == ASSUME InTurn, TurnInv, [Next]_vars PROVE TurnInv'
<1>0. /\ TypeOK /\ ControlOK /\ RangesOK /\ UndisturbedOK /\ OneOpen
      /\ \A a \in AppendNo : RelayOK(a) /\ BeforeOK(a)
  BY DEF TurnInv, IInv, NumbersOK
<1>t. /\ \A a \in AppendNo : id[a] \in Int /\ before[a] \subseteq Nat /\ (id[a] # NoId => via[a] \in Node)
      /\ NoNode \notin Node /\ 0 \in SeqNo
      /\ \A a \in AppendNo : via[a] # NoNode => via[a] \in Node
      /\ Faults \cap {"nase", "store"} = {}
  BY <1>0, CounterTypes, NumberFacts DEF TypeOK, NoId, InTurn
<1>s. ASSUME UNCHANGED seqVars
      PROVE  Forward /\ \A m \in Node : Position(m)' = Position(m)
  BY <1>0, <1>s, StandingStill
<1>1. ASSUME NEW a \in AppendNo, NEW n \in Node, HandleAppend(a, n) PROVE TurnInv'
  <2>1. /\ via[a] = NoNode /\ id[a] = NoId /\ a \notin acked /\ \A m \in Node : pc[a][m] = "none"
        /\ Quiet /\ UNCHANGED seqVars
    BY <1>0, <1>1 DEF HandleAppend, ControlOK, InTurn
  <2>2. /\ \A b \in AppendNo, m \in Node : pc'[b][m] = IF b = a /\ m = n THEN "lookup" ELSE pc[b][m]
        /\ \A b \in AppendNo : via'[b] = IF b = a THEN n ELSE via[b]
        /\ \A b \in AppendNo : before'[b] = IF b = a THEN Returned ELSE before[b]
    BY <1>0, <1>1, GotoFacts, LabelFacts DEF HandleAppend, TypeOK
  <2>3. Touches(a)
    BY <1>1, <2>1, <2>2 DEF HandleAppend, Touches, relayVars
  <2>4. \A b \in AppendNo : b # a => ~Open(b)'
    BY <2>1, <2>2 DEF Quiet, Open
  <2>5. OneOpen'
    BY <2>4 DEF OneOpen
  <2>6. UndisturbedOK'
    BY <1>0, <1>1, <2>2 DEF UndisturbedOK, HandleAppend, seqVars
  <2>7. RelayOK(a)'
    <3>1. id'[a] = NoId /\ via'[a] = n /\ pc'[a][n] = "lookup" /\ \A m \in Node : m # n => pc'[a][m] = "none"
      BY <1>1, <2>1, <2>2 DEF HandleAppend
    <3> QED
      BY <3>1 DEF RelayOK
  <2>8. BeforeOK(a)'
    <3>1. ASSUME NEW b \in acked, NEW m \in Node PROVE id[b] < Position(m)
      <4>1. b \in AppendNo /\ RelayOK(b) /\ failnode = {}
        BY <1>0, <2>1 DEF TypeOK, Quiet
      <4>2. via[b] \in Node /\ pc[b][via[b]] = "done" /\ id[b] # NoId
        BY <1>0, <1>t, <4>1 DEF ControlOK, Stored
      <4> QED
        BY <4>1, <4>2 DEF RelayOK
    <3>2. before'[a] = {id[b] : b \in acked} /\ id'[a] = NoId /\ acked' = acked /\ a \notin acked' /\ id' = id
      BY <1>1, <2>1, <2>2 DEF HandleAppend, Returned
    <3>3. \A k \in before'[a] : \A m \in Node : k < Position(m)'
      BY <1>s, <2>1, <3>1, <3>2
    <3> QED
      BY <3>2, <3>3 DEF BeforeOK
  <2>9. \A b \in AppendNo : RelayOK(b)' /\ BeforeOK(b)'
    <3>1. acked' = acked
      BY <1>1 DEF HandleAppend
    <3> QED
      BY <1>s, <2>1, <2>3, <2>7, <2>8, <3>1, OthersRelay, OthersBefore
  <2> QED
    BY <2>5, <2>6, <2>9, NextIInv DEF TurnInv
<1>2. ASSUME NEW a \in AppendNo, NEW n \in Node, Lookup(a, n) PROVE TurnInv'
  <2>1. pc[a][n] = "lookup" /\ UNCHANGED seqVars
    BY <1>2 DEF Lookup
  <2>2. /\ \A b \in AppendNo, m \in Node : pc'[b][m] = IF b = a /\ m = n THEN "next" ELSE pc[b][m]
        /\ \A b \in AppendNo, m \in Node : seq'[b][m] = IF b = a /\ m = n THEN 0 ELSE seq[b][m]
    <3>1. seqMap[n] = 0 /\ seqMap[n] # NoSeq /\ 0 \in SeqNo \cup {NoSeq}
      BY <1>0, NumberFacts DEF UndisturbedOK, NoSeq
    <3>2. Goto(a, n, "next") /\ seq' = [seq EXCEPT ![a][n] = 0]
      BY <1>2, <3>1 DEF Lookup
    <3>3. seq \in [AppendNo -> [Node -> SeqNo \cup {NoSeq}]]
      BY <1>0 DEF TypeOK
    <3> QED
      <4>1. \A b \in AppendNo, m \in Node : pc'[b][m] = IF b = a /\ m = n THEN "next" ELSE pc[b][m]
        BY <1>0, <3>2, GotoFacts, LabelFacts
      <4>2. \A b \in AppendNo, m \in Node : seq'[b][m] = IF b = a /\ m = n THEN 0 ELSE seq[b][m]
        BY <3>1, <3>2, <3>3, TableUpdate
      <4> QED
        BY <4>1, <4>2
  <2>3. Touches(a)
    BY <1>2, <2>2 DEF Lookup, Touches, relayVars
  <2>4. Open(a)
    BY <2>1 DEF Open, Ended
  <2>5. UndisturbedOK'
    BY <1>0, <1>2, <2>1, <2>2 DEF UndisturbedOK, Lookup, seqVars
  <2>6. RelayOK(a)'
    <3>1. RelayMoves(a)
      BY <1>0, <1>2, <1>s, <2>1, KeepsMoves DEF Lookup
    <3> QED
      BY <1>0, <1>2, <2>1, <2>2, <3>1 DEF RelayOK, RelayMoves, Lookup, relayVars
  <2>7. \A k \in before[a] : id'[a] # NoId => k < id'[a]
    BY <1>0, <1>2 DEF Lookup, BeforeOK
  <2> QED
    BY <1>s, <2>1, <2>3, <2>4, <2>5, <2>6, <2>7, OwnStep
<1>3. ASSUME NEW a \in AppendNo, NEW n \in Node, GetSequence(a, n) \/ Install(a, n) PROVE TurnInv'
  BY <1>0, <1>3 DEF UndisturbedOK, GetSequence, Install
<1>4. ASSUME NEW a \in AppendNo, NEW n \in Node, NextForAppend(a, n) PROVE TurnInv'
  <2>1. pc[a][n] = "next" /\ via[a] = n /\ id[a] = NoId
    BY <1>0, <1>4 DEF NextForAppend, ControlOK, Drawing
  <2>2. seq[a][n] = 0
    BY <1>0, <2>1, NumberFacts DEF ControlOK, UndisturbedOK
  <2>3. /\ \A b \in AppendNo, m \in Node : pc'[b][m] = IF b = a /\ m = n THEN "set" ELSE pc[b][m]
        /\ \A b \in AppendNo : id'[b] = IF b = a THEN Position(n) ELSE id[b]
    BY <1>0, <1>4, <2>2, GotoFacts, LabelFacts DEF NextForAppend, TypeOK, Position
  <2>4. Forward /\ Position(n) < Position(n)'
    BY <1>0, <1>4, <2>2, DrawForward DEF NextForAppend
  <2>5. Touches(a)
    BY <1>4, <2>1, <2>3 DEF NextForAppend, Touches, relayVars
  <2>6. Open(a)
    BY <2>1 DEF Open, Ended
  <2>7. UndisturbedOK'
    BY <1>0, <1>4, <2>3 DEF UndisturbedOK, NextForAppend
  <2>8. RelayOK(a)'
    <3>1. \A m \in Node : m # n => pc[a][m] = "none"
      BY <1>0, <2>1 DEF ControlOK
    <3>2. via'[a] = n /\ id'[a] = Position(n) /\ pc'[a][n] = "set" /\ \A m \in Node : m # n => pc'[a][m] = "none"
      BY <1>4, <2>1, <2>3, <3>1 DEF NextForAppend
    <3> QED
      BY <2>4, <3>2 DEF RelayOK
  <2>9. \A k \in before[a] : id'[a] # NoId => k < id'[a]
    BY <1>0, <2>3 DEF BeforeOK
  <2> QED
    BY <2>4, <2>5, <2>6, <2>7, <2>8, <2>9, OwnStep
<1>5. ASSUME NEW a \in AppendNo, NEW n \in Node, NextForUpdate(a, n) PROVE TurnInv'
  <2>1. pc[a][n] = "next" /\ via[a] # n /\ id[a] # NoId
    BY <1>0, <1>5 DEF NextForUpdate, ControlOK
  <2>2. seq[a][n] = 0
    BY <1>0, <2>1, NumberFacts DEF ControlOK, UndisturbedOK
  <2>a. PICK label \in {"lookup", "set"} :
           /\ Goto(a, n, label)
           /\ label = "set" => ~(Position(n) < id[a])
    BY <1>5, <2>2 DEF NextForUpdate, Position
  <2>3. \A b \in AppendNo, m \in Node : pc'[b][m] = IF b = a /\ m = n THEN label ELSE pc[b][m]
    BY <1>0, <2>a, GotoFacts, LabelFacts
  <2>4. Forward /\ Position(n) < Position(n)'
    BY <1>0, <1>5, <2>2, DrawForward DEF NextForUpdate
  <2>5. Touches(a)
    BY <1>5, <2>1, <2>3 DEF NextForUpdate, Touches, relayVars
  <2>6. Open(a)
    BY <2>1 DEF Open, Ended
  <2>7. UndisturbedOK'
    BY <1>0, <1>5, <2>3 DEF UndisturbedOK, NextForUpdate
  <2>8. RelayOK(a)'
    <3>1. /\ id'[a] = id[a] /\ via'[a] = via[a] /\ todo'[a] = todo[a] /\ tgt'[a] = tgt[a] /\ failnode' = failnode
          /\ \A v \in Node : via[a] = v => pc'[a][v] = pc[a][v]
      BY <1>5, <2>1, <2>3 DEF NextForUpdate, relayVars
    <3>2. RelayMoves(a)
      BY <1>0, <2>4, <3>1, KeepsMoves
    <3>3. label = "set" => id'[a] < Position(n)'
      BY <1>t, <2>a, <2>4, <3>1 DEF Forward
    <3>4. RelayOK(a)
      BY <1>0
    <3>5. \A m \in Node : m # via'[a] /\ pc'[a][m] \in {"set", "trigger", "ok"} => id'[a] < Position(m)'
      BY <2>3, <3>1, <3>2, <3>3, <3>4 DEF RelayOK, RelayMoves
    <3> QED
      BY <3>1, <3>2, <3>4, <3>5 DEF RelayOK, RelayMoves
  <2>9. \A k \in before[a] : id'[a] # NoId => k < id'[a]
    BY <1>0, <1>5 DEF NextForUpdate, BeforeOK
  <2> QED
    BY <2>4, <2>5, <2>6, <2>7, <2>8, <2>9, OwnStep
<1>6. ASSUME NEW a \in AppendNo, NEW n \in Node, SetItem(a, n) PROVE TurnInv'
  <2>1. pc[a][n] = "set" /\ UNCHANGED seqVars /\ id'[a] = id[a] /\ via'[a] = via[a] /\ failnode' = failnode
    BY <1>6 DEF SetItem
  <2>2. PICK label \in {"relay", "trigger"} : Goto(a, n, label) /\ (label = "relay" <=> via[a] = n)
    BY <1>6 DEF SetItem
  <2>3. \A m \in Node : pc'[a][m] = IF m = n THEN label ELSE pc[a][m]
    BY <1>0, <2>2, GotoFacts, LabelFacts
  <2>4. RelayOK(a)'
    <3>1. RelayMoves(a)
      BY <1>0, <1>s, <2>1, KeepsMoves
    <3> QED
      BY <1>0, <1>6, <2>1, <2>2, <2>3, <3>1 DEF RelayOK, RelayMoves, SetItem, relayVars
  <2> QED
    BY <1>6, <2>1, <2>2, <2>4, QuietStep, LabelFacts DEF SetItem, Ended, relayVars
<1>7. ASSUME NEW a \in AppendNo, NEW n \in Node, Trigger(a, n) PROVE TurnInv'
  <2>1. pc[a][n] = "trigger" /\ UNCHANGED seqVars /\ id'[a] = id[a] /\ via'[a] = via[a] /\ failnode' = failnode
    BY <1>7 DEF Trigger
  <2>2. PICK label \in {"done", "ok", "failed", "err"} :
           Goto(a, n, label) /\ (via[a] = n => label \in {"done", "failed"}) /\ (via[a] # n => label \in {"ok", "err"})
    BY <1>7 DEF Trigger
  <2>3. \A m \in Node : pc'[a][m] = IF m = n THEN label ELSE pc[a][m]
    BY <1>0, <2>2, GotoFacts, LabelFacts
  <2>4. RelayOK(a)'
    <3>1. RelayMoves(a)
      BY <1>0, <1>s, <2>1, KeepsMoves
    <3>2. todo'[a] = todo[a] /\ tgt'[a] = tgt[a]
      BY <1>7 DEF Trigger, relayVars
    <3>3. CASE via[a] = n
      BY <1>0, <2>1, <2>2, <2>3, <3>1, <3>2, <3>3 DEF RelayOK, RelayMoves
    <3>4. CASE via[a] # n
      BY <1>0, <2>1, <2>2, <2>3, <3>1, <3>2, <3>4 DEF RelayOK, RelayMoves
    <3> QED
      BY <3>3, <3>4
  <2>5. acked \subseteq acked' /\ acked' \subseteq acked \cup {a}
    BY <1>7 DEF Trigger
  <2> QED
    BY <1>7, <2>1, <2>2, <2>4, <2>5, QuietStep, LabelFacts DEF Trigger, Ended, relayVars
<1>8. ASSUME NEW a \in AppendNo, RelayMembers(a) PROVE TurnInv'
  <2>1. PICK v \in Node : via[a] = v
    BY <1>t, <1>8 DEF RelayMembers
  <2>2. /\ pc[a][v] = "relay" /\ UNCHANGED seqVars /\ id'[a] = id[a] /\ via'[a] = via[a]
        /\ Goto(a, v, "send") /\ failnode' = failnode
    BY <1>8, <2>1 DEF RelayMembers
  <2>3. \A m \in Node : pc'[a][m] = IF m = v THEN "send" ELSE pc[a][m]
    BY <1>0, <2>2, GotoFacts, LabelFacts
  <2>4. \A b \in AppendNo : todo'[b] = IF b = a THEN Node \ {v} ELSE todo[b]
    BY <1>0, <1>8, <2>1 DEF RelayMembers, TypeOK
  <2>5. RelayOK(a)'
    <3>1. RelayMoves(a)
      BY <1>0, <1>s, <2>2, KeepsMoves
    <3> QED
      BY <1>0, <2>1, <2>2, <2>3, <2>4, <3>1 DEF RelayOK, RelayMoves
  <2> QED
    BY <1>8, <2>2, <2>4, <2>5, QuietStep, LabelFacts DEF RelayMembers, Ended
<1>9. ASSUME NEW a \in AppendNo, RelayDone(a) PROVE TurnInv'
  <2>1. PICK v \in Node : via[a] = v
    BY <1>t, <1>9 DEF RelayDone
  <2>2. /\ pc[a][v] = "send" /\ UNCHANGED seqVars /\ id'[a] = id[a] /\ via'[a] = via[a]
        /\ Goto(a, v, "trigger") /\ failnode' = failnode /\ todo[a] = {} /\ todo' = todo /\ tgt' = tgt
    BY <1>9, <2>1 DEF RelayDone, relayVars
  <2>3. \A m \in Node : pc'[a][m] = IF m = v THEN "trigger" ELSE pc[a][m]
    BY <1>0, <2>2, GotoFacts, LabelFacts
  <2>4. RelayOK(a)'
    <3>1. RelayMoves(a)
      BY <1>0, <1>s, <2>2, KeepsMoves
    <3> QED
      BY <1>0, <2>1, <2>2, <2>3, <3>1 DEF RelayOK, RelayMoves
  <2> QED
    BY <1>9, <2>2, <2>4, QuietStep, LabelFacts DEF RelayDone, Ended
<1>10. ASSUME NEW a \in AppendNo, SendReturns(a) PROVE TurnInv'
  <2>1. PICK v \in Node : via[a] = v
    BY <1>t, <1>10 DEF SendReturns
  <2>2. /\ pc[a][v] = "wait" /\ UNCHANGED seqVars /\ id'[a] = id[a] /\ via'[a] = via[a]
        /\ failnode' = failnode /\ todo' = todo /\ tgt' = tgt
    BY <1>10, <2>1 DEF SendReturns, relayVars
  <2>3. PICK label \in {"send", "report"} :
           Goto(a, v, label) /\ (label = "send" => pc[a][tgt[a]] = "ok")
    BY <1>10, <2>1 DEF SendReturns
  <2>4. \A m \in Node : pc'[a][m] = IF m = v THEN label ELSE pc[a][m]
    BY <1>0, <2>3, GotoFacts, LabelFacts
  <2>5. tgt[a] \in Node /\ (label = "send" => id[a] < Position(tgt[a]))
    <3>1. tgt[a] \in Node
      BY <1>0, <2>1, <2>2 DEF ControlOK
    <3> QED
      BY <1>0, <2>1, <2>2, <2>3, <3>1 DEF RelayOK
  <2>6. RelayOK(a)'
    <3>1. RelayMoves(a)
      BY <1>0, <1>s, <2>2, KeepsMoves
    <3>2. \A m \in Node : m # v /\ m \notin todo[a] =>
             \/ id[a] < Position(m) \/ <<m, id[a]>> \in failnode \/ m = tgt[a]
      BY <1>0, <2>1, <2>2 DEF RelayOK
    <3>3. \A m \in Node : m # v /\ m \notin todo[a] =>
             \/ id'[a] < Position(m)' \/ <<m, id'[a]>> \in failnode' \/ (label = "report" /\ m = tgt[a])
      BY <2>2, <2>3, <2>5, <3>1, <3>2 DEF RelayMoves
    <3> QED
      BY <1>0, <2>1, <2>2, <2>3, <2>4, <3>1, <3>3 DEF RelayOK, RelayMoves
  <2> QED
    BY <1>10, <2>2, <2>3, <2>6, QuietStep, LabelFacts DEF SendReturns, Ended
<1>11. ASSUME NEW a \in AppendNo, Report(a) PROVE TurnInv'
  <2>1. PICK v \in Node : via[a] = v
    BY <1>t, <1>11 DEF Report
  <2>2. /\ pc[a][v] = "report" /\ UNCHANGED seqVars /\ id'[a] = id[a] /\ via'[a] = via[a]
        /\ failnode' = failnode \cup {<<tgt[a], id[a]>>} /\ todo' = todo /\ tgt' = tgt
        /\ Goto(a, v, "send")
    BY <1>t, <1>11, <2>1 DEF Report, relayVars
  <2>3. \A m \in Node : pc'[a][m] = IF m = v THEN "send" ELSE pc[a][m]
    BY <1>0, <2>2, GotoFacts, LabelFacts
  <2>4. RelayOK(a)'
    <3>1. RelayMoves(a)
      BY <1>0, <1>s, <2>2, KeepsMoves
    <3>2. \A m \in Node : m # v /\ m \notin todo[a] =>
             \/ id[a] < Position(m) \/ <<m, id[a]>> \in failnode \/ m = tgt[a]
      BY <1>0, <2>1, <2>2 DEF RelayOK
    <3>3. \A m \in Node : m # v /\ m \notin todo[a] =>
             \/ id'[a] < Position(m)' \/ <<m, id'[a]>> \in failnode'
      BY <2>2, <3>1, <3>2 DEF RelayMoves
    <3> QED
      BY <1>0, <2>1, <2>2, <2>3, <3>1, <3>3 DEF RelayOK, RelayMoves
  <2> QED
    BY <1>11, <2>2, <2>4, QuietStep, LabelFacts DEF Report, Ended
<1>12. ASSUME NEW a \in AppendNo, NEW n \in Node, SendAppend(a, n) PROVE TurnInv'
  <2>1. PICK v \in Node : via[a] = v
    BY <1>t, <1>12 DEF SendAppend
  <2>2. /\ pc[a][v] = "send" /\ UNCHANGED seqVars /\ id'[a] = id[a] /\ via'[a] = via[a] /\ failnode' = failnode
        /\ n \in todo[a] /\ n # v /\ nodeState[n] = "up"
    BY <1>0, <1>12, <2>1 DEF SendAppend, ControlOK, UndisturbedOK
  <2>3. \A b \in AppendNo, m \in Node :
           pc'[b][m] = IF b = a THEN IF m = v THEN "wait" ELSE IF m = n THEN "lookup" ELSE pc[a][m] ELSE pc[b][m]
    BY <1>0, <1>12, <2>1, <2>2 DEF SendAppend, TypeOK
  <2>a. /\ todo' = [todo EXCEPT ![a] = todo[a] \ {n}] /\ tgt' = [tgt EXCEPT ![a] = n]
        /\ UNCHANGED <<nodeState, seqVars, failnode, seq, id, via, before, acked>>
    BY <1>12 DEF SendAppend
  <2>4. \A b \in AppendNo :
           /\ todo'[b] = IF b = a THEN todo[a] \ {n} ELSE todo[b]
           /\ tgt'[b] = IF b = a THEN n ELSE tgt[b]
    BY <1>0, <2>a DEF TypeOK
  <2>5. Touches(a)
    BY <2>a, <2>3, <2>4 DEF Touches
  <2>6. Open(a)
    BY <2>2 DEF Open, Ended
  <2>7. UndisturbedOK'
    BY <1>0, <2>3, <2>a DEF UndisturbedOK, seqVars
  <2>8. RelayOK(a)'
    <3>1. RelayMoves(a)
      BY <1>0, <1>s, <2>2, KeepsMoves
    <3>2. \A m \in Node : m # v /\ m \notin todo'[a] =>
             \/ id'[a] < Position(m)' \/ <<m, id'[a]>> \in failnode' \/ m = tgt'[a]
      <4> SUFFICES ASSUME NEW m \in Node, m # v, m \notin todo'[a], m # tgt'[a]
                   PROVE  id'[a] < Position(m)' \/ <<m, id'[a]>> \in failnode'
        OBVIOUS
      <4>1. todo'[a] = todo[a] \ {n} /\ tgt'[a] = n
        BY <2>4
      <4>2. m \notin todo[a]
        BY <4>1
      <4>3. id[a] < Position(m) \/ <<m, id[a]>> \in failnode
        BY <1>0, <2>1, <2>2, <4>2 DEF RelayOK
      <4> QED
        BY <2>2, <3>1, <4>3 DEF RelayMoves
    <3>3. pc'[a][v] = "wait" /\ via'[a] = v
      BY <2>1, <2>2, <2>3
    <3>4. \A m \in Node : m # v /\ pc'[a][m] \in {"set", "trigger", "ok"} => id'[a] < Position(m)'
      BY <1>0, <2>1, <2>3, <3>1 DEF RelayOK, RelayMoves
    <3> QED
      BY <3>1, <3>2, <3>3, <3>4 DEF RelayOK, RelayMoves
  <2>9. \A k \in before[a] : id'[a] # NoId => k < id'[a]
    BY <1>0, <2>2 DEF BeforeOK
  <2> QED
    BY <1>s, <2>2, <2>5, <2>6, <2>7, <2>8, <2>9, OwnStep
<1>13. ASSUME NEW a \in AppendNo, RelayAborts(a) \/ \E n \in Node : StoreFails(a, n) PROVE TurnInv'
  BY <1>t, <1>13 DEF RelayAborts, StoreFails
<1>14. ASSUME NEW n \in Node, Crash(n) \/ Restart(n) \/ Serve(n) \/ \E k \in missed[n] : Recover(n, k)
       PROVE  TurnInv'
  BY <1>0, <1>14 DEF Crash, Restart, Serve, Recover, InTurn, UndisturbedOK
<1>15. CASE UNCHANGED vars
  <2>1. UNCHANGED <<nodeState, seqVars, failnode, pc, seq, id, via, relayVars, before, acked>>
    BY <1>15 DEF vars
  <2>2. UndisturbedOK' /\ OneOpen'
    BY <1>0, <2>1 DEF UndisturbedOK, OneOpen, Open, seqVars
  <2>3. \A a \in AppendNo : RelayOK(a)'
    BY <1>0, <2>1 DEF RelayOK, Position, NextNo, HasLease, seqVars, relayVars
  <2>4. \A a \in AppendNo : BeforeOK(a)'
    BY <1>0, <2>1 DEF BeforeOK, Position, NextNo, HasLease, seqVars, Open
  <2> QED
    BY <2>2, <2>3, <2>4, NextIInv DEF TurnInv
<1> QED
  BY NextCases, <1>1, <1>2, <1>3, <1>4, <1>5, <1>6, <1>7, <1>8, <1>9, <1>10, <1>11, <1>12, <1>13, <1>14, <1>15
     DEF Done

\* The README's "unique and incremental identifier": two appends whose identifiers
\* were returned have different ones, at whichever nodes they were made, if
\* clients wait until earlier appends have reached everybody.
THEOREM IdsUnique == ASSUME InTurn PROVE Spec => []UniqueIds
<1>1. TurnInv => UniqueIds
  <2> SUFFICES ASSUME TurnInv, NEW a \in acked, NEW b \in acked, a # b PROVE id[a] # id[b]
    BY DEF UniqueIds
  <2>1. /\ a \in AppendNo /\ b \in AppendNo /\ id[a] \in Int /\ id[b] \in Int
        /\ id[a] # NoId /\ id[b] # NoId
    BY NumberFacts DEF TurnInv, IInv, TypeOK, ControlOK, NoId, Stored
  <2>2. /\ id[b] \in before[a] \/ id[a] \in before[b]
        /\ id[b] \in before[a] => id[b] < id[a]
        /\ id[a] \in before[b] => id[a] < id[b]
    BY <2>1 DEF TurnInv, BeforeOK
  <2> QED
    BY <2>1, <2>2
<1>2. TurnInv /\ [Next]_vars => TurnInv'
  BY NextTurn
<1> QED
  BY <1>1, <1>2, InitTurn, PTL DEF Spec

\* Under the same condition the identifier of an append is larger than every one that
\* had been returned to some client when the append began.
THEOREM IdsGrow == ASSUME InTurn PROVE Spec => []IncrementalIds
<1>1. TurnInv => IncrementalIds
  BY NumberFacts DEF TurnInv, IInv, TypeOK, ControlOK, Stored, BeforeOK, IncrementalIds
<1>2. TurnInv /\ [Next]_vars => TurnInv'
  BY NextTurn
<1> QED
  BY <1>1, <1>2, InitTurn, PTL DEF Spec
====
