---------------------------- MODULE QREndpoints ----------------------------
(***************************************************************************)
(* The endpoints over the sagas (backend/app/api/v1/qr.py): what a client  *)
(* of the API is told, and what the audit trail says beside it.            *)
(*                                                                         *)
(* An endpoint calls the service and maps what it raises to an error.      *)
(* When the service returned, the endpoint first reads the label's batch,  *)
(* in a transaction of its own, and asserts that it is there: by then the  *)
(* saga has committed, and a force-delete may have removed the batch with  *)
(* its rows.  A read that fails is a 500 for an operation that happened.   *)
(***************************************************************************)
EXTENDS QRLifecycle

VARIABLES
  reply,  \* request -> what its client is told, None until then
  moved   \* history: the requests whose transaction moved their label's row

evars == <<vars, reply, moved>>

\* 200; or any other status, or a connection that dies first.
Replies == {"ok", "error"}

EInit ==
  /\ Init
  /\ reply = [r \in Requests |-> None]
  /\ moved = {}

-----------------------------------------------------------------------------
\* The label moves in the step that ends request r's registry transaction.
MovesLabel(r) ==
  /\ pc[r] \in {"commit", "retire_free", "restore"} /\ pc'[r] # pc[r]
  /\ registry' # registry

ServiceStep ==
  /\ Next
  /\ moved' = moved \cup {r \in Requests : MovesLabel(r)}
  /\ UNCHANGED reply

Reply(r, told) ==
  /\ pc[r] = "done" /\ reply[r] = None
  /\ reply' = [reply EXCEPT ![r] = told]
  /\ UNCHANGED <<vars, moved>>

\* The answer to a restore, which only a form asks for, names no batch.
NeedsBatch(r) == Op(r) # "restore"

RespondOk(r) ==
  /\ result[r] = "ok"
  /\ NeedsBatch(r) => registry[Label(r)].status # "absent"
  /\ Reply(r, "ok")

\* The batch is gone, or the query for it raises.
RespondUnread(r) ==
  /\ result[r] = "ok" /\ NeedsBatch(r)
  /\ registry[Label(r)].status = "absent" \/ "commit_error" \in Faults
  /\ Reply(r, "error")

RespondError(r) ==
  /\ result[r] \notin {"ok", "crashed"}
  /\ Reply(r, "error")

ConnectionLost(r) ==
  /\ result[r] = "crashed" \/ "crash" \in Faults
  /\ Reply(r, "error")

Respond(r) ==
  RespondOk(r) \/ RespondUnread(r) \/ RespondError(r) \/ ConnectionLost(r)

\* An administrator deletes a batch.  The form unbinds its labels before, but
\* does not look at them again: any of the rows may be bound by now.
DeleteRows ==
  /\ \E B \in SUBSET Labels \ {{}} :
       registry' = [q \in Labels |-> IF q \in B THEN Absent ELSE registry[q]]
  /\ UNCHANGED <<shows, pc, locals, seen, owes, result, trail, reply, moved>>

ENext ==
  \/ ServiceStep
  \/ \E r \in Requests : Respond(r)
  \/ DeleteRows

ESpec == EInit /\ [][ENext]_evars

\* Every await of a handler returns or raises: httpx has a timeout on each
\* attempt, the retries are counted and PostgreSQL ends each transaction.
FairESpec ==
  /\ ESpec
  /\ \A r \in Requests : WF_vars(Handle(r)) /\ WF_evars(Respond(r))

-----------------------------------------------------------------------------
(***************************************************************************)
(* An auditor who reads the rows of a request that ended can tell whether  *)
(* it moved its label: if so it left a SUCCESS row and no FAILURE row, and *)
(* if not it did not leave a SUCCESS row alone, whatever its client was    *)
(* told.  bind and retire write SUCCESS before the registry transaction    *)
(* that may still fail, so this rests on their compensation's FAILURE row; *)
(* and a 500 for want of the batch stands beside a SUCCESS row alone.  A   *)
(* client that was answered 200 can rely on the move.                      *)
(***************************************************************************)
TrailTellsOutcome ==
  \A r \in Requests :
    reply[r] # None /\ result[r] # "crashed" =>
      /\ trail[r] = {"success"} <=> r \in moved
      /\ reply[r] = "ok" => r \in moved

\* Every request that arrives is answered, or its connection is lost, whatever
\* the others do and whatever fails: no step of a saga or of its compensation
\* waits for another request.
EveryRequestAnswered ==
  \A r \in Requests : pc[r] # "idle" ~> reply[r] # None
=============================================================================
