---------------------------- MODULE QRDivergence ----------------------------
(***************************************************************************)
(* When can the registry and NetBox disagree about a device?  This module  *)
(* adds two history variables to QRLifecycle, which no action of it reads, *)
(* and states the answer.                                                  *)
(***************************************************************************)
EXTENDS QRLifecycle

VARIABLES
  saw,       \* request -> what the device showed when the client read it
  suspects   \* the requests that overlapped another one, overwrote a token, or
             \*   took for failed a write that had taken effect

\* The label and the devices request r may touch, as far as it knows them.
Touches(r) == {Label(r), New(r), old[r]} \ {None}

Footprint(r) == IF Active(r) THEN Touches(r) ELSE {}

Overlapping ==
  {r \in Requests : \E s \in Requests \ {r} : Footprint(r) \cap Footprint(s) # {}}

\* Request r's PATCH replaces the token of another label: bind does not look
\* at what the device shows.
Overwrites(r) ==
  /\ pc[r] = "patch" /\ New(r) # None
  /\ shows[New(r)] \notin {None, Label(r)}
  /\ shows'[New(r)] = Label(r)

\* Request r goes on to compensate for a write that raised, although it took
\* effect: rebind's clearing of the old device, or the registry transaction.
Misjudges(r) ==
  /\ pc'[r] = "compensate"
  /\ \/ pc[r] = "clear_old" /\ shows[old[r]] # Label(r)
     \/ pc[r] = "commit" /\ registry' # registry

HInit ==
  /\ Init
  /\ saw = [r \in Requests |-> None]
  /\ suspects = {}

HNext ==
  /\ Next
  /\ saw' = [r \in Requests |->
               IF pc[r] = "idle" /\ seen'[r] \in Devices THEN shows[seen'[r]]
                                                         ELSE saw[r]]
  /\ suspects' = suspects \cup Overlapping'
                   \cup {r \in Requests : Overwrites(r) \/ Misjudges(r)}

hvars == <<vars, saw, suspects>>

HSpec == HInit /\ [][HNext]_hvars

-----------------------------------------------------------------------------
\* Answers that tell the operator to look at NetBox.
Alarms == {"netbox_error", "inconsistent", "crashed"}

Tainted ==
  UNION {Touches(r) : r \in {s \in Requests : s \in suspects \/ result[s] \in Alarms}}

Busy == UNION {Footprint(r) : r \in Requests}

Agree(d) == \A q \in Labels : shows[d] = q <=> Holds(registry, q, d)

(***************************************************************************)
(* The registry and NetBox agree about every device, except those a        *)
(* running request touches and those touched by a request that overlapped  *)
(* another, replaced the token of another label, compensated for a write   *)
(* that had in truth taken effect, or answered one of Alarms.  So "ok", a  *)
(* refusal, QRAlreadyBoundError and the "rolled back" errors of a request  *)
(* that ran alone leave both stores in agreement: the compensations of     *)
(* lifecycle.py undo exactly what was done, failures in them included.     *)
(***************************************************************************)
DivergenceIsAttributable == \A d \in Devices \ (Tainted \cup Busy) : Agree(d)

(***************************************************************************)
(* A request about to PATCH a device finds there the qr_id its client saw  *)
(* when it read the version it sent, unless the request overlapped another *)
(* one: the re-read and compare of Step B leaves no other lost update.     *)
(***************************************************************************)
PatchesWhatItSaw ==
  \A r \in Requests \ suspects :
    pc[r] = "patch" => shows[First(r)] \in {saw[r], Token(r)}
=============================================================================
