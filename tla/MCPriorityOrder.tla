---------------------------- MODULE MCPriorityOrder ----------------------------
(***************************************************************************)
(* Instances of PriorityOrder: with three automations, one list of each    *)
(* length, and a second full one.  The initial orders are all there are    *)
(* and so only the automations' ages tell one list from another.           *)
(***************************************************************************)
EXTENDS PriorityOrder

UserLists == {<<2>>, <<3, 1>>, <<1, 2, 3>>, <<2, 3, 1>>}
================================================================================
