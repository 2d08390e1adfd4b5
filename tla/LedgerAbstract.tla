--------------------------- MODULE LedgerAbstract ---------------------------
(***************************************************************************)
(* The ResourceLedger as spec.md 4.3 describes it: two independent ledgers *)
(* (Alloc-ID and GEM port) of claims <<onu, id, flowId>>, each operation   *)
(* one atomic step.                                                        *)
(*                                                                         *)
(*   Claim(f)        validate(flow) then store(flow) with no step between; *)
(*                   a conflicting flow leaves the ledger unchanged, which *)
(*                   is a stuttering step here;                            *)
(*   Release(k, fid) free(flow) on one ledger;                             *)
(*   Clear           clear() on the device-level deleted transition;       *)
(*   ResetOnu(o)     the ONU's resource maps made afresh, which is what    *)
(*                   "ActivateOnu allocates resource-map entries for the   *)
(*                   ONU" (spec.md 6) does to an ONU that already had some.*)
(*                                                                         *)
(* OltFlows maps its ledger, with the ids a FlowAdd has validated and not  *)
(* yet stored, onto this module.                                           *)
(***************************************************************************)
EXTENDS FiniteSets

CONSTANTS Pons, OnuIds, Ids, FlowReqs

VARIABLE ledger   \* [Kinds -> SUBSET (Onus \X Ids \X FlowIds)]

Onus    == Pons \X OnuIds
Kinds   == {"alloc", "gem"}
FlowIds == {f.id : f \in FlowReqs}

IdsOf(k, f)    == IF k = "alloc" THEN {f.alloc} ELSE f.gems
ClaimsOf(k, f) == {<<<<f.pon, f.onu>>, i, f.id>> : i \in IdsOf(k, f)}

\* validate(flow): no other ONU of the flow's PON holds any id it requests.
Conflicts(f) ==
  \E k \in Kinds : \E c \in ledger[k] :
     c[1][1] = f.pon /\ c[1] # <<f.pon, f.onu>> /\ c[2] \in IdsOf(k, f)

Claim(f) ==
  /\ ~Conflicts(f)
  /\ ledger' = [k \in Kinds |-> ledger[k] \cup ClaimsOf(k, f)]

Release(k, fid) == ledger' = [ledger EXCEPT ![k] = {c \in @ : c[3] # fid}]

Clear == ledger' = [k \in Kinds |-> {}]

ResetOnu(o) == ledger' = [k \in Kinds |-> {c \in ledger[k] : c[1] # o}]

Init == ledger = [k \in Kinds |-> {}]

Next ==
  \/ \E f \in FlowReqs : Claim(f)
  \/ \E k \in Kinds, fid \in FlowIds : Release(k, fid)
  \/ Clear
  \/ \E o \in Onus : ResetOnu(o)

Spec == Init /\ [][Next]_ledger

\* An id of a PON is never claimed by two ONUs of that PON (spec.md 3).
Exclusive ==
  \A k \in Kinds : \A c, d \in ledger[k] :
     (c[1][1] = d[1][1] /\ c[2] = d[2]) => c[1] = d[1]

=============================================================================
