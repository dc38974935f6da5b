---------------------------- MODULE MCHookQueue ----------------------------
(* Bounded instances of HookQueue. *)
EXTENDS HookQueue

MCPaths == {<<1>>, <<2>>}
MCOrders == {<<1, 2>>, <<2>>}
=============================================================================
