--------------------------- MODULE MCTenantReads ---------------------------
(* A bounded instance of TenantReads. *)
EXTENDS TenantReads

MCPaths == {<<1>>, <<3>>, <<1, 2, 1>>, <<1, 1>>, <<1, 1, 3>>}
MCOrders == {<<3, 1>>}
MCNeedles == {{1}, {3}}
MCLines == {<<1>>, <<2>>, <<1, 2>>}
Interchangeable == Permutations(Content)
(* Reads never look at the working tree. *)
NoCheckout == ~checkout
=============================================================================
