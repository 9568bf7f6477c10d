---------------------------- MODULE QRLifecycle ----------------------------
(***************************************************************************)
(* QRLifecycleService (backend/app/services/qr/lifecycle.py): bind,        *)
(* retire, restore, rebind and unbind, as many requests at a time as there *)
(* are clients.                                                            *)
(*                                                                         *)
(* A binding lives in two stores that share no transaction: the row of     *)
(* qr_codes in PostgreSQL and custom_fields.qr_id of the device in NetBox. *)
(* The service sequences the writes and compensates when a later one       *)
(* fails.  Every await of the handlers is a point where other requests     *)
(* run, so a request is one process and each action below is what it does  *)
(* between two awaits that reach PostgreSQL or NetBox.  A database         *)
(* transaction is one action: it holds the row lock (SELECT ... FOR        *)
(* UPDATE) from its re-check to its commit and awaits nothing else.        *)
(*                                                                         *)
(* A request is done when the service returns or raises.  What its caller  *)
(* makes of that is QREndpoints' matter for the requests of the API, and   *)
(* QRConsole's for the administrators' forms.                              *)
(***************************************************************************)
EXTENDS QRDomain

CONSTANTS Requests,   \* the HTTP requests the service receives
          Ops,        \* the operations they may call
          Faults,     \* the failures that may happen, see FaultKinds
          Stale       \* a last_updated that is not the device's current one

Operations == {"bind", "retire", "restore", "rebind", "unbind"}

(***************************************************************************)
(*  netbox_error    a call to NetBox raises, after its attempts if it is   *)
(*                  retried                                                *)
(*  lost_answer     an attempt of a PATCH takes effect and its answer is   *)
(*                  lost, so the client tries again                        *)
(*  commit_error    a transaction raises and is rolled back                *)
(*  commit_timeout  a transaction is committed, yet its commit raises      *)
(*  audit_error     a best-effort audit row is not written                 *)
(*  crash           the process dies, or the handler's task is cancelled   *)
(***************************************************************************)
FaultKinds == {"netbox_error", "lost_answer", "commit_error",
               "commit_timeout", "audit_error", "crash"}

VARIABLES
  registry,  \* qr_codes: label -> row, committed state
  shows,     \* NetBox: device -> custom_fields.qr_id
  pc,        \* request -> where its handler is
  call,      \* request -> the operation, the label and the target device
  seen,      \* request -> the device whose current last_updated the client
             \*   sent as expected_version; Stale once that device is modified
  old,       \* request -> bound_to_device_id as Step A read it
  owes,      \* request -> compensations still to be run
  result,    \* request -> what the service returns or raises, None until
             \*   that is known
  trail      \* request -> results of the audit rows it has written

vars == <<registry, shows, pc, call, seen, old, owes, result, trail>>
stores == <<registry, shows>>
locals == <<call, old>>

NoCall == [op |-> None, label |-> None, new |-> None]

(***************************************************************************)
(* What a client can ask: bind and rebind name a target device and the     *)
(* version of it; unbind sends the version of the device the client        *)
(* believes the label is on, retire the same or no version, restore none.  *)
(***************************************************************************)
Calls == [op : {"bind", "rebind"}, label : Labels, new : Devices] \cup
         [op : {"retire", "unbind", "restore"}, label : Labels, new : {None}]

Versions(c) == CASE c.op \in {"bind", "rebind"} -> {c.new}
                 [] c.op = "unbind"             -> Devices
                 [] c.op = "retire"             -> Devices \cup {None}
                 [] OTHER                       -> {None}

Refusals == {"not_found", "state_conflict", "missing_version", "same_device",
             "device_taken", "conflict"}

Results == Refusals \cup
  {"ok", "already_bound", "rolled_back", "inconsistent", "netbox_error",
   "db_error", "crashed"}

ASSUME ConstantsAssumption ==
  /\ Ops \subseteq Operations
  /\ Faults \subseteq FaultKinds
  /\ Stale \notin Devices /\ Stale # None
  /\ None \notin Results

Points == {"idle", "lookup", "retire_free", "restore", "read_device", "patch",
           "clear_old", "commit", "compensate", "compensate_patch", "done"}

Op(r)    == call[r].op
Label(r) == call[r].label
New(r)   == call[r].new

Active(r) == pc[r] \notin {"idle", "done"}

\* The device a request reads for its version check and PATCHes first ...
First(r) == IF New(r) # None THEN New(r) ELSE old[r]

\* Mutant of Token: device_id and qr_id swapped in the PATCH of a bind.
TokenSwapped(r) == IF New(r) # None THEN New(r) ELSE None

\* ... and the qr_id it writes there.
Token(r) == IF New(r) # None THEN Label(r) ELSE None

\* bind and retire go through patch_with_attribution; rebind and unbind call
\* the client directly and write their audit row with the registry update.
Attributed(r) == Op(r) \in {"bind", "retire"}

-----------------------------------------------------------------------------
\* Initially no request has arrived and the two stores agree.
Init ==
  /\ registry \in Tables
  /\ shows \in [Devices -> Labels \cup {None}]
  /\ \A q \in Labels, d \in Devices : shows[d] = q <=> Holds(registry, q, d)
  /\ pc = [r \in Requests |-> "idle"]
  /\ call = [r \in Requests |-> NoCall]
  /\ seen = [r \in Requests |-> None]
  /\ old = [r \in Requests |-> None]
  /\ owes = [r \in Requests |-> {}]
  /\ result = [r \in Requests |-> None]
  /\ trail = [r \in Requests |-> {}]

Goto(r, point) == pc' = [pc EXCEPT ![r] = point]

\* The service returns ("ok"), or raises.
Return(r, res) ==
  /\ Goto(r, "done")
  /\ result' = [result EXCEPT ![r] = res]

\* When device d is modified NetBox moves its last_updated, so a version read
\* before that is no longer current.
Outdated(d) == [s \in Requests |-> IF seen[s] = d THEN Stale ELSE seen[s]]

\* A PATCH that takes effect.
WriteDevice(d, v) ==
  /\ shows' = [shows EXCEPT ![d] = v]
  /\ seen' = Outdated(d)

\* An audit row written in the transaction it describes ...
Record(r, row) == trail' = [trail EXCEPT ![r] = @ \cup {row}]

\* ... and one that is best-effort (_record_audit and its siblings).
TryRecord(r, row) ==
  \/ Record(r, row)
  \/ "audit_error" \in Faults /\ UNCHANGED trail

TryRecordIf(cond, r, row) == IF cond THEN TryRecord(r, row) ELSE UNCHANGED trail

-----------------------------------------------------------------------------
\* A client sends request r, holding the last_updated of a device it read.
Send(r) ==
  /\ pc[r] = "idle"
  /\ \E c \in Calls : \E v \in Versions(c) :
       /\ c.op \in Ops
       /\ call' = [call EXCEPT ![r] = c]
       /\ seen' = [seen EXCEPT ![r] = v]
       /\ Goto(r, IF c.op = "restore" THEN "restore" ELSE "lookup")
  /\ UNCHANGED <<stores, old, owes, result, trail>>

(***************************************************************************)
(* Step A of bind, retire, rebind and unbind: read the row, no lock.       *)
(***************************************************************************)
BindRefusal(row) == IF row.status = "free" THEN None ELSE "state_conflict"

RetireRefusal(row, version) ==
  CASE row.status = "retired"                  -> "state_conflict"
    [] row.status = "bound" /\ version = None  -> "missing_version"
    [] OTHER                                   -> None

RebindRefusal(row, d) ==
  CASE row.status # "bound"                    -> "state_conflict"
    [] row.status = "bound" /\ row.device = d -> "same_device"
    [] OTHER                                   -> None

UnbindRefusal(row) == IF row.status = "bound" THEN None ELSE "state_conflict"

Refusal(r) ==
  LET row == registry[Label(r)]
  IN  IF row.status = "absent" THEN "not_found"
      ELSE CASE Op(r) = "bind"   -> BindRefusal(row)
             [] Op(r) = "retire" -> RetireRefusal(row, seen[r])
             [] Op(r) = "rebind" -> RebindRefusal(row, New(r))
             [] OTHER            -> UnbindRefusal(row)

LookupRefused(r) ==
  /\ pc[r] = "lookup"
  /\ Refusal(r) # None
  /\ Return(r, Refusal(r))
  /\ UNCHANGED <<stores, locals, seen, owes, trail>>

LookupPasses(r) ==
  /\ pc[r] = "lookup"
  /\ Refusal(r) = None
  /\ old' = [old EXCEPT ![r] = registry[Label(r)].device]
  /\ Goto(r, IF Op(r) = "retire" /\ registry[Label(r)].status = "free"
             THEN "retire_free" ELSE "read_device")
  /\ UNCHANGED <<stores, call, seen, owes, result, trail>>

LookupFails(r) ==
  /\ "commit_error" \in Faults
  /\ pc[r] = "lookup"
  /\ Return(r, "db_error")
  /\ UNCHANGED <<stores, locals, seen, owes, trail>>

(***************************************************************************)
(* _retire_free and restore: one transaction that locks the row, re-checks *)
(* it, moves it and writes the SUCCESS audit row.                          *)
(***************************************************************************)
\* Mutant of Required: the re-check under the lock is left out.
RequiredWhatItIs(r) == registry[Label(r)].status

Required(r) == IF pc[r] = "restore" THEN "retired" ELSE "free"

MovedAlone(r) == IF pc[r] = "restore" THEN Restore(registry[Label(r)])
                                      ELSE Retire(registry[Label(r)])

RegistryOnly(r) ==
  /\ pc[r] \in {"retire_free", "restore"}
  /\ registry[Label(r)].status = Required(r)
  /\ registry' = [registry EXCEPT ![Label(r)] = MovedAlone(r)]
  /\ Record(r, "success")
  /\ \/ Return(r, "ok")
     \/ "commit_timeout" \in Faults /\ Return(r, "db_error")
  /\ UNCHANGED <<shows, locals, seen, owes>>

RegistryOnlyRefused(r) ==
  /\ pc[r] \in {"retire_free", "restore"}
  /\ \/ /\ registry[Label(r)].status # Required(r)
        /\ Return(r, IF registry[Label(r)].status = "absent"
                     THEN "not_found" ELSE "state_conflict")
     \/ "commit_error" \in Faults /\ Return(r, "db_error")
  /\ UNCHANGED <<stores, locals, seen, owes, trail>>

(***************************************************************************)
(* Step B: GET the device and compare last_updated with expected_version.  *)
(* rebind first refuses a target that already shows a token; a conflict    *)
(* leaves an audit row only in patch_with_attribution.                     *)
(***************************************************************************)
TargetTaken(r) == Op(r) = "rebind" /\ shows[New(r)] # None

\* Mutant of ReadDevice: expected_version is not compared.
ReadDeviceUnchecked(r) ==
  /\ pc[r] = "read_device"
  /\ ~TargetTaken(r)
  /\ Goto(r, "patch")
  /\ UNCHANGED <<stores, locals, seen, owes, result, trail>>

ReadDevice(r) ==
  /\ pc[r] = "read_device"
  /\ ~TargetTaken(r)
  /\ seen[r] = First(r)
  /\ Goto(r, "patch")
  /\ UNCHANGED <<stores, locals, seen, owes, result, trail>>

ReadDeviceTaken(r) ==
  /\ pc[r] = "read_device"
  /\ TargetTaken(r)
  /\ Return(r, "device_taken")
  /\ UNCHANGED <<stores, locals, seen, owes, trail>>

ReadDeviceConflict(r) ==
  /\ pc[r] = "read_device"
  /\ ~TargetTaken(r)
  /\ seen[r] # First(r)
  /\ Return(r, "conflict")
  /\ TryRecordIf(Attributed(r), r, "conflict")
  /\ UNCHANGED <<stores, locals, seen, owes>>

ReadDeviceFails(r) ==
  /\ "netbox_error" \in Faults
  /\ pc[r] = "read_device"
  /\ Return(r, "netbox_error")
  /\ TryRecordIf(Attributed(r), r, "failure")
  /\ UNCHANGED <<stores, locals, seen, owes>>

(***************************************************************************)
(* The first PATCH.  It is unconditional: NetBox is not asked to compare   *)
(* versions again.  Its answer carries the device's new last_updated.  An  *)
(* error propagates without compensation.                                  *)
(***************************************************************************)
Patch(r) ==
  /\ pc[r] = "patch"
  /\ shows' = [shows EXCEPT ![First(r)] = Token(r)]
  /\ seen' = [Outdated(First(r)) EXCEPT ![r] = First(r)]
  /\ Goto(r, IF Op(r) = "rebind" THEN "clear_old" ELSE "commit")
  /\ TryRecordIf(Attributed(r), r, "success")
  /\ UNCHANGED <<registry, locals, owes, result>>

PatchFails(r) ==
  /\ "netbox_error" \in Faults
  /\ pc[r] = "patch"
  /\ Return(r, "netbox_error")
  /\ TryRecordIf(Attributed(r), r, "failure")
  /\ UNCHANGED <<stores, locals, seen, owes>>

\* A step after the first PATCH failed: compensate, then raise res.
Compensate(r, tasks, res) ==
  /\ Goto(r, "compensate")
  /\ owes' = [owes EXCEPT ![r] = tasks]
  /\ result' = [result EXCEPT ![r] = res]

(***************************************************************************)
(* rebind's second PATCH clears the device the label leaves.  When it      *)
(* fails only the new device is cleaned up.                                *)
(***************************************************************************)
ClearOld(r) ==
  /\ pc[r] = "clear_old"
  /\ WriteDevice(old[r], None)
  /\ Goto(r, "commit")
  /\ UNCHANGED <<registry, locals, owes, result, trail>>

ClearOldFails(r) ==
  /\ "netbox_error" \in Faults
  /\ pc[r] = "clear_old"
  /\ Compensate(r, {"clear"}, "rolled_back")
  /\ UNCHANGED <<stores, locals, seen, trail>>

(***************************************************************************)
(* Step C: the registry transaction.  retire re-checks the status only,    *)
(* rebind and unbind also that the label is still on the device they read. *)
(***************************************************************************)
\* Mutant of Current: decide on the row Step A read.
CurrentAsRead(r) == TRUE

Current(r) ==
  LET row == registry[Label(r)]
  IN  CASE Op(r) = "bind"   -> row.status = "free"
        [] Op(r) = "retire" -> row.status = "bound"
        [] OTHER            -> row.status = "bound" /\ row.device = old[r]

\* Mutant of Admitted: qr_one_per_device is missing.
AdmittedAlways(r) == TRUE

Admitted(r) == New(r) # None => Vacant(registry, Label(r), New(r))

Moved(r) ==
  LET row == registry[Label(r)]
  IN  CASE Op(r) = "bind"   -> Bind(row, New(r))
        [] Op(r) = "retire" -> Retire(row)
        [] Op(r) = "rebind" -> Rebind(row, New(r))
        [] OTHER            -> Unbind(row)

\* Mutant of Undo: rebind passes restore_old=False when its registry
\* transaction fails.
UndoKeepsOldCleared(r) == IF New(r) # None THEN {"clear"} ELSE {"restore"}

Undo(r) == CASE Op(r) = "bind"   -> {"clear"}
             [] Op(r) = "rebind" -> {"clear", "restore"}
             [] OTHER            -> {"restore"}

Commit(r) ==
  /\ pc[r] = "commit"
  /\ Current(r) /\ Admitted(r)
  /\ registry' = [registry EXCEPT ![Label(r)] = Moved(r)]
  /\ IF Attributed(r) THEN UNCHANGED trail ELSE Record(r, "success")
  /\ \/ Return(r, "ok") /\ UNCHANGED owes
     \/ "commit_timeout" \in Faults /\ Compensate(r, Undo(r), "rolled_back")
  /\ UNCHANGED <<shows, locals, seen>>

CommitFails(r) ==
  /\ pc[r] = "commit"
  /\ \/ ~Current(r) /\ Compensate(r, Undo(r), "rolled_back")
     \/ /\ Current(r) /\ ~Admitted(r)
        /\ Compensate(r, Undo(r), IF Op(r) = "bind" THEN "already_bound"
                                                    ELSE "rolled_back")
     \/ "commit_error" \in Faults /\ Compensate(r, Undo(r), "rolled_back")
  /\ UNCHANGED <<stores, locals, seen, trail>>

(***************************************************************************)
(* Compensation: GET the device, and PATCH it only if it shows what this   *)
(* request left there: our token, to be cleared from the new device, or no *)
(* token, to be restored on the old one.  An exception turns the error     *)
(* into "inconsistent"; rebind still runs its second compensation.         *)
(***************************************************************************)
Task(r)   == IF "clear" \in owes[r] THEN "clear" ELSE "restore"
Target(r) == IF Task(r) = "clear" THEN New(r) ELSE old[r]
Needed(r) == shows[Target(r)] = IF Task(r) = "clear" THEN Label(r) ELSE None
Undone(r) == IF Task(r) = "clear" THEN None ELSE Label(r)

\* Mutant of Discharge: the compensation leaves no audit row.
DischargeUnrecorded(r, res) ==
  /\ owes' = [owes EXCEPT ![r] = @ \ {Task(r)}]
  /\ result' = [result EXCEPT ![r] = res]
  /\ Goto(r, IF owes[r] = {Task(r)} THEN "done" ELSE "compensate")
  /\ UNCHANGED trail

\* Mutant of Discharge: a compensation that fails is tried again.
DischargeUntilDone(r, res) ==
  /\ owes' = [owes EXCEPT ![r] = IF res = "inconsistent" THEN @ ELSE @ \ {Task(r)}]
  /\ result' = [result EXCEPT ![r] = res]
  /\ IF owes'[r] = {} THEN Goto(r, "done") /\ TryRecord(r, "failure")
                      ELSE Goto(r, "compensate") /\ UNCHANGED trail

Discharge(r, res) ==
  /\ owes' = [owes EXCEPT ![r] = @ \ {Task(r)}]
  /\ result' = [result EXCEPT ![r] = res]
  /\ IF owes[r] = {Task(r)} THEN Goto(r, "done") /\ TryRecord(r, "failure")
                            ELSE Goto(r, "compensate") /\ UNCHANGED trail

CompensateNeeded(r) ==
  /\ pc[r] = "compensate"
  /\ Needed(r)
  /\ Goto(r, "compensate_patch")
  /\ UNCHANGED <<stores, locals, seen, owes, result, trail>>

CompensateNoop(r) ==
  /\ pc[r] = "compensate"
  /\ ~Needed(r)
  /\ Discharge(r, result[r])
  /\ UNCHANGED <<stores, locals, seen>>

CompensatePatch(r) ==
  /\ pc[r] = "compensate_patch"
  /\ WriteDevice(Target(r), Undone(r))
  /\ Discharge(r, result[r])
  /\ UNCHANGED <<registry, locals>>

CompensateFails(r) ==
  /\ "netbox_error" \in Faults
  /\ pc[r] \in {"compensate", "compensate_patch"}
  /\ Discharge(r, "inconsistent")
  /\ UNCHANGED <<stores, locals, seen>>

(***************************************************************************)
(* _send_impl repeats a PATCH whose answer it did not get (three attempts  *)
(* in all).  An attempt that NetBox carried out stays carried out, whether *)
(* a later one is answered or the call raises in the end.                  *)
(***************************************************************************)
LandUnanswered(r) ==
  /\ "lost_answer" \in Faults
  /\ \/ pc[r] = "patch" /\ WriteDevice(First(r), Token(r))
     \/ pc[r] = "clear_old" /\ WriteDevice(old[r], None)
     \/ pc[r] = "compensate_patch" /\ WriteDevice(Target(r), Undone(r))
  /\ UNCHANGED <<registry, pc, locals, owes, result, trail>>

-----------------------------------------------------------------------------
Crash(r) ==
  /\ "crash" \in Faults
  /\ Active(r)
  /\ Return(r, "crashed")
  /\ UNCHANGED <<stores, locals, seen, owes, trail>>

\* Somebody edits another field of the device in NetBox.
EditElsewhere(d) ==
  /\ \E r \in Requests : seen[r] = d
  /\ seen' = Outdated(d)
  /\ UNCHANGED <<stores, pc, locals, owes, result, trail>>

\* What the event loop runs for request r once it has arrived.
Handle(r) ==
  \/ LookupRefused(r) \/ LookupPasses(r) \/ LookupFails(r)
  \/ RegistryOnly(r) \/ RegistryOnlyRefused(r)
  \/ ReadDevice(r) \/ ReadDeviceTaken(r) \/ ReadDeviceConflict(r)
  \/ ReadDeviceFails(r)
  \/ Patch(r) \/ PatchFails(r)
  \/ ClearOld(r) \/ ClearOldFails(r)
  \/ Commit(r) \/ CommitFails(r)
  \/ CompensateNeeded(r) \/ CompensateNoop(r)
  \/ CompensatePatch(r) \/ CompensateFails(r)

\* All requests are done: nothing is left to do.
Quiescent == \A r \in Requests : pc[r] = "done"

Next ==
  \/ \E r \in Requests : Send(r) \/ Handle(r) \/ LandUnanswered(r) \/ Crash(r)
  \/ \E d \in Devices : EditElsewhere(d)
  \/ Quiescent /\ UNCHANGED vars

Spec == Init /\ [][Next]_vars

-----------------------------------------------------------------------------
TypeOK ==
  /\ registry \in [Labels -> Row]
  /\ shows \in [Devices -> Labels \cup {None}]
  /\ pc \in [Requests -> Points]
  /\ call \in [Requests -> Calls \cup {NoCall}]
  /\ seen \in [Requests -> Devices \cup {None, Stale}]
  /\ old \in [Requests -> Devices \cup {None}]
  /\ owes \in [Requests -> SUBSET {"clear", "restore"}]
  /\ result \in [Requests -> Results \cup {None}]
  /\ trail \in [Requests -> SUBSET {"success", "failure", "conflict"}]

(***************************************************************************)
(* The table keeps qr_state_consistency and qr_one_per_device, and changes *)
(* only by the transitions of the label's state machine, whatever requests *)
(* interleave and whatever fails: a request decides on a row it read       *)
(* without a lock, several NetBox calls earlier, and the re-check under    *)
(* FOR UPDATE is all that stands between that and an illegal transition.   *)
(***************************************************************************)
Registry == INSTANCE QRRegistry WITH registry <- registry

ImplementsRegistry == Registry!Spec

\* The constraints of the abstract registry, for the table of the services.
ConstraintsHold == Registry!ConstraintsHold

(***************************************************************************)
(* Of the requests that bind the same label, or bind to the same device,   *)
(* at most one succeeds, while clients only bind: the promise of the       *)
(* partial unique index and of the re-check of bind's Step C, whichever of *)
(* the requests reaches NetBox or PostgreSQL first and however often one   *)
(* of them is retried.                                                     *)
(***************************************************************************)
BindsOnly == \A r \in Requests : pc[r] # "idle" => Op(r) = "bind"

WinnersDiffer ==
  \A r, s \in Requests :
    /\ r # s
    /\ Op(r) = "bind" /\ Op(s) = "bind"
    /\ result[r] = "ok" /\ result[s] = "ok"
    => Label(r) # Label(s) /\ New(r) # New(s)

OneWinner == BindsOnly => WinnersDiffer
=============================================================================
