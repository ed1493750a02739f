---------------------------- MODULE MCRouteNet -----------------------------
(* Instances of RouteNet: three routers and paths of one to four hops,     *)
(* one of them through the same router twice.                              *)
EXTENDS RouteNet

CONSTANTS n1, n2, n3, d1

MCEmpty == <<"empty">>
MCPaths == {<<n1>>, <<n1, n2>>, <<n2, n3, n1>>, <<n1, n2, n1, n3>>}
MCPayloads == {<<"data", d1>>, MCEmpty}
=============================================================================
