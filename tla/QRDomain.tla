------------------------------ MODULE QRDomain ------------------------------
(***************************************************************************)
(* The rows of qr_codes and the transitions of the QR dataclass            *)
(* (backend/app/domain/qr.py), with the two constraints PostgreSQL puts on *)
(* the table (backend/app/db/models/qr.py).  A row keeps the two fields    *)
(* the rest of the system decides on: its status and bound_to_device_id.   *)
(* Timestamps, e-mails and batch ids are left out; a label that is not     *)
(* registered (not generated yet, or hard-deleted) is an "absent" row.     *)
(***************************************************************************)

CONSTANTS Labels,     \* the QR ids (qr_codes.id)
          Devices,    \* the NetBox device ids
          None        \* SQL NULL / JSON null

ASSUME NoneAssumption == None \notin Labels /\ None \notin Devices

Row == [status : {"absent", "free", "bound", "retired"},
        device : Devices \cup {None}]

(***************************************************************************)
(* CHECK qr_state_consistency, mirrored by QR.__post_init__.  A retired    *)
(* row keeps the device it was bound to, as history.                       *)
(***************************************************************************)
Consistent(row) ==
  /\ row.status \in {"absent", "free"} => row.device = None
  /\ row.status = "bound" => row.device # None

Bind(row, d)   == [row EXCEPT !.status = "bound", !.device = d]
Retire(row)    == [row EXCEPT !.status = "retired"]
Rebind(row, d) == [row EXCEPT !.device = d]
Unbind(row)    == [row EXCEPT !.status = "free", !.device = None]
Restore(row)   == [row EXCEPT !.status = "free", !.device = None]

\* A label that is not registered, or no longer.
Absent == [status |-> "absent", device |-> None]

\* Label q is bound to device d in table reg.
Holds(reg, q, d) == reg[q].status = "bound" /\ reg[q].device = d

\* The partial unique index qr_one_per_device admits label q on device d.
Vacant(reg, q, d) == \A p \in Labels \ {q} : ~Holds(reg, p, d)

\* What the index keeps true of the whole table.
OnePerDevice(reg) ==
  \A p, q \in Labels : \A d \in Devices :
    Holds(reg, p, d) /\ Holds(reg, q, d) => p = q

Tables == {reg \in [Labels -> Row] :
             (\A q \in Labels : Consistent(reg[q])) /\ OnePerDevice(reg)}
=============================================================================
