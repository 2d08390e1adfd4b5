----------------------------- MODULE MCOltFlows -----------------------------
(***************************************************************************)
(* Model values for OltFlows: one PON with two ONUs, three flows.          *)
(*   f1 on ONU 1: Alloc-ID 1, GEM 1                                        *)
(*   f2 on ONU 2: Alloc-ID 1, GEM 2   (Alloc-ID conflict with f1)          *)
(*   f3 on ONU 2: Alloc-ID 1, GEMs 2,3 (replicated; shares f2's ids on the *)
(*                                      same ONU, so it is legal beside f2)*)
(***************************************************************************)
EXTENDS OltFlows

MCPons   == {1}
MCOnuIds == {1, 2}
MCIds    == {1, 2, 3}
MCFlowReqs ==
  { [id |-> "f1", pon |-> 1, onu |-> 1, alloc |-> 1, gems |-> {1}],
    [id |-> "f2", pon |-> 1, onu |-> 2, alloc |-> 1, gems |-> {2}],
    [id |-> "f3", pon |-> 1, onu |-> 2, alloc |-> 1, gems |-> {2, 3}] }

\* f1 and f2 only: the conflicting pair, for the runs with a second goroutine.
MCFlowPair == {f \in MCFlowReqs : f.id \in {"f1", "f2"}}

=============================================================================
