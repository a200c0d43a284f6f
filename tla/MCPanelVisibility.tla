------------------------- MODULE MCPanelVisibility -------------------------
(***************************************************************************)
(* A small instance of PanelVisibility: two keys, one of which has an      *)
(* entry with an allow list, one model, and an operator elsewhere who      *)
(* gives the other key an entry.                                           *)
(***************************************************************************)
EXTENDS PanelVisibility

MCModels == {"m"}
OneAllows == [s \in {"s1"} |-> [deny |-> {"m"}, kept |-> "allow"]]
MCTables == {OneAllows}
MCEdits == {<<"s2", [deny |-> {"m"}, kept |-> "other"]>>}
=============================================================================
