-------------------------- MODULE MCTieredStorage --------------------------
(* Instances of TieredStorage for TLC: which messages are evicted. *)
EXTENDS TieredStorage, TLC

CONSTANTS b1, b2, memphis, acme, globex, orders, bills

Msg(t, s, p, q) == [tenant |-> t, station |-> s, part |-> p, seq |-> q]

\* One tenant has two stations, $memphis one.
TwoTenants == {Msg(acme, orders, 1, 1), Msg(acme, bills, 1, 1), Msg(memphis, orders, 2, 1)}

\* $memphis has two stations.
TwoGlobal == {Msg(memphis, orders, 1, 1), Msg(memphis, bills, 1, 1)}

\* Two tenants have a station of the same name.
SameName == {Msg(acme, orders, 1, 1), Msg(globex, orders, 1, 1)}
=============================================================================
