------------------------------ MODULE QRClaims ------------------------------
(***************************************************************************)
(* What a document of the repository says of the sagas of QRLifecycle, and *)
(* the code does not keep.                                                 *)
(***************************************************************************)
EXTENDS QRLifecycle

AllAnswered == \A r \in Requests : pc[r] \in {"idle", "done"}

(***************************************************************************)
(* "if the DB write fails, the NetBox change is rolled back"               *)
(* (Architecture_Overview.md:247).  After a bind that qr_one_per_device    *)
(* refused, the device shows again the token of the label that holds it.   *)
(***************************************************************************)
HolderKeepsToken ==
  \A r \in Requests : \A q \in Labels :
    /\ AllAnswered /\ result[r] = "already_bound"
    /\ Holds(registry, q, New(r))
    => shows[New(r)] = q
=============================================================================
