-------------------------- MODULE MCTenantContent --------------------------
(* Bounded instances of TenantContent. *)
EXTENDS TenantContent

MCPaths == {<<1>>, <<2>>, <<3>>, <<1, 2>>}
MCOrders == {<<1>>, <<3, 1>>, <<2, 1>>}
(* The events and the last operation are read of each step alone.          *)
MCView == <<history, checkout, disk, torn, swept, table>>
Interchangeable == Permutations(Content)
=============================================================================
