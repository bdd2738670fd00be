------------------------------ MODULE MCAccess ------------------------------
(* Access for TLC: a FReD node of two machines behind a proxy, and a second  *)
(* FReD node of one machine.                                                 *)
EXTENDS Access, TLC

CONSTANTS m1, m2, m3, proxy, u1, site1, site2

OneUser == {u1}
UserRights == User \X Methods
UserPrefixes == {Prefix(u) : u \in User}
Machines == (m1 :> site1) @@ (m2 :> site1) @@ (m3 :> site2)
HostList == (proxy :> <<m1, m2>>)
ProxyHosts == (m1 :> proxy) @@ (m2 :> proxy) @@ (m3 :> NoProxy)
Held == {u1} \X {"Update", "AddUser", "RemoveUser"}
Calls == {<<"client", "CreateKeygroup">>, <<"client", "Update">>, <<"client", "Delete">>,
          <<"client", "AddUser">>, <<"client", "RemoveUser">>, <<"peering", "PutItem">>}
=============================================================================
