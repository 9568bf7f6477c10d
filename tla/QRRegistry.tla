----------------------------- MODULE QRRegistry -----------------------------
(***************************************************************************)
(* What the QR registry promises, whatever services call it and in         *)
(* whatever order: each label follows the state machine of ToR 4.2.3 as    *)
(* backend/app/domain/qr.py writes it, one committed transition at a time, *)
(* and the table never leaves its two constraints.  The services' detailed *)
(* specifications implement this one.                                      *)
(***************************************************************************)
EXTENDS QRDomain

VARIABLE registry    \* the committed content of qr_codes

Init == registry \in Tables

Put(q, row) == registry' = [registry EXCEPT ![q] = row]

BindLabel(q, d) ==
  /\ registry[q].status = "free"
  /\ Vacant(registry, q, d)
  /\ Put(q, Bind(registry[q], d))

RebindLabel(q, d) ==
  /\ registry[q].status = "bound"
  /\ registry[q].device # d
  /\ Vacant(registry, q, d)
  /\ Put(q, Rebind(registry[q], d))

RetireLabel(q) ==
  /\ registry[q].status \in {"free", "bound"}
  /\ Put(q, Retire(registry[q]))

UnbindLabel(q) ==
  /\ registry[q].status = "bound"
  /\ Put(q, Unbind(registry[q]))

RestoreLabel(q) ==
  /\ registry[q].status = "retired"
  /\ Put(q, Restore(registry[q]))

\* Force-deletion of a batch removes its rows, whatever their status.
DeleteLabels(batch) ==
  registry' = [q \in Labels |-> IF q \in batch THEN Absent ELSE registry[q]]

Next ==
  \/ \E q \in Labels :
       \/ \E d \in Devices : BindLabel(q, d) \/ RebindLabel(q, d)
       \/ RetireLabel(q)
       \/ UnbindLabel(q)
       \/ RestoreLabel(q)
  \/ \E batch \in SUBSET Labels : DeleteLabels(batch)

Spec == Init /\ [][Next]_registry

-----------------------------------------------------------------------------
(***************************************************************************)
(* Every row satisfies qr_state_consistency and no device has two bound    *)
(* labels (qr_one_per_device), whatever sequence of transitions led here.  *)
(***************************************************************************)
ConstraintsHold == registry \in Tables

=============================================================================
