--------------------------- MODULE ConsoleClaims ---------------------------
(***************************************************************************)
(* What docstrings say of the composite operations of QRConsole, and the   *)
(* code does not keep.                                                     *)
(***************************************************************************)
EXTENDS QRConsole

(***************************************************************************)
(* "Device status PATCH failed after QR retire; re-bind compensation       *)
(* restored consistency" or, if not, "Device status PATCH AND re-bind      *)
(* compensation failed" (device_decommission.py:62, 71).  The compensation *)
(* of a decommissioning is never refused on account of the label's status: *)
(* only a failing NetBox or database can keep it from restoring the label. *)
(***************************************************************************)
RebindIsNotRefused ==
  \A c \in Consoles :
    task[c].at = "undo" /\ pc[c] = "done" => result[c] # "state_conflict"

(***************************************************************************)
(* "we never hard-delete a row whose NetBox device still points at it"     *)
(* (docstring of web_batches_delete, web/router.py:949).                   *)
(***************************************************************************)
NoPointedRowDeleted ==
  [][\A q \in Labels :
       /\ registry[q].status # "absent"
       /\ registry'[q].status = "absent"
       => \A d \in Devices : shows[d] # q]_cvars
=============================================================================
