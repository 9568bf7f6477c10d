---------------------------- MODULE ShiftSessions ----------------------------
(***************************************************************************)
(* Shifts: ShiftSessionService (backend/app/services/shift_session.py),    *)
(* the endpoints that call it, the administrator's force-close             *)
(* (api/v1/admin/sessions.py and web/router.py), and the background job    *)
(* that ends aged shifts (services/auto_end_job.py) on every replica.      *)
(*                                                                         *)
(* All of them share the table shift_sessions and take no row lock: a      *)
(* shift is ended by a read and a later UPDATE ... WHERE id, each seeing   *)
(* what is committed at that moment (READ COMMITTED).  An INSERT waits for *)
(* the transactions that touch the same index entry, so it is decided on   *)
(* committed rows.  Every await in between is a point where others run.    *)
(***************************************************************************)
EXTENDS Naturals

CONSTANTS Users,     \* user_keycloak_id
          Standing,  \* the shifts that exist when the system starts
          Requests,  \* HTTP requests; a start request draws the uuid of its shift
          Replicas,  \* backend processes, each with the auto-end job
          Ops,       \* the operations requests may call
          Failures,  \* how many database failures, and crashes, may happen
          None

Operations == {"start", "end", "force", "web_force"}
EndReasons == {"manual", "auto_timeout", "forced"}
AuditResults == {"success", "conflict"}
Shifts     == Standing \cup Requests

ASSUME ShiftsAssumption ==
  /\ Ops \subseteq Operations
  /\ Failures \in Nat
  /\ Standing \cap Requests = {} /\ Replicas \cap Shifts = {}
  /\ {"asleep", "scan", "rows", "down"} \cap Shifts = {}
  /\ None \notin Users \cup Shifts \cup Replicas \cup EndReasons \cup AuditResults

VARIABLES
  shifts,   \* shift_sessions: id -> whose it is, end_reason, and the writer of
            \*   shift_end_at, which stands for the time it wrote
  aged,     \* ids whose shift_start_at is older than the threshold
  pc,       \* request -> where its handler is
  call,     \* request -> operation, caller, reason or target shift
  found,    \* request -> the shift its last SELECT returned
  result,   \* request -> its answer
  audit,    \* request -> result of the audit row it has written
  lock,     \* holder of the job's advisory lock
  job,      \* replica -> where its job is
  todo,     \* replica -> stale shifts of the scan still to be ended
  failures  \* failures so far

table    == <<shifts, aged>>
requests == <<pc, call, found, result, audit>>
jobs     == <<lock, job, todo>>
vars     == <<table, requests, jobs, failures>>

NoShift == [user |-> None, end |-> None, by |-> None]
NoCall  == [op |-> None, user |-> None, reason |-> None, target |-> None]

IsOpen(s)  == shifts[s].user # None /\ shifts[s].end = None
IsEnded(s) == shifts[s].end # None

\* get_active_for_user: what the SELECT of user u's open shift may return.
Open(u) == {s \in Shifts : shifts[s].user = u /\ shifts[s].end = None}

(***************************************************************************)
(* A user has at most one open shift (shift_sessions_one_active_per_user), *)
(* however starts, ends and the job interleave: get_active_for_user ends   *)
(* in scalar_one_or_none, which raises on two.                             *)
(***************************************************************************)
OneOpenShift ==
  \A s, t \in Shifts :
    IsOpen(s) /\ IsOpen(t) /\ shifts[s].user = shifts[t].user => s = t

Calls ==
  [op : {"start"}, user : Users, reason : {None}, target : {None}] \cup
  [op : {"end"}, user : Users, reason : {"manual", "auto_timeout"}, target : {None}] \cup
  [op : {"force", "web_force"}, user : Users, reason : {"forced"}, target : Shifts]

\* Where each handler begins: start with its pre-check, end with its SELECT,
\* force-close with the active-shift gate of the administrator.
First(op) == CASE op = "start" -> "check"
               [] op = "end"   -> "find"
               [] OTHER        -> "gate"

-----------------------------------------------------------------------------
\* Some shifts have been opened, and some of them ended, before: such a shift
\* stands for its own writer.
Init ==
  /\ \E owner \in [Standing -> Users], end \in [Standing -> EndReasons \cup {None}] :
       shifts = [s \in Shifts |->
                  IF s \in Standing
                  THEN [user |-> owner[s], end |-> end[s],
                        by |-> IF end[s] = None THEN None ELSE s]
                  ELSE NoShift]
  /\ OneOpenShift
  /\ aged \in SUBSET Standing
  /\ pc = [r \in Requests |-> "idle"]
  /\ call = [r \in Requests |-> NoCall]
  /\ found = [r \in Requests |-> None]
  /\ result = [r \in Requests |-> None]
  /\ audit = [r \in Requests |-> None]
  /\ lock = None
  /\ job = [p \in Replicas |-> "asleep"]
  /\ todo = [p \in Replicas |-> {}]
  /\ failures = 0

Goto(r, point) == pc' = [pc EXCEPT ![r] = point]

Answer(r, res) ==
  /\ Goto(r, "done")
  /\ result' = [result EXCEPT ![r] = res]

\* Mutant of End: the two columns are swapped.
EndSwapped(s, reason, by) ==
  shifts' = [shifts EXCEPT ![s].end = by, ![s].by = reason]

\* repo.update: sets shift_end_at and end_reason of the row, whatever they are.
End(s, reason, by) ==
  shifts' = [shifts EXCEPT ![s].end = reason, ![s].by = by]

Send(r) ==
  /\ pc[r] = "idle"
  /\ \E c \in Calls :
       /\ c.op \in Ops
       /\ call' = [call EXCEPT ![r] = c]
       /\ Goto(r, First(c.op))
  /\ UNCHANGED <<table, found, result, audit, jobs, failures>>

\* A shift grows older than the threshold.
Age(s) ==
  /\ IsOpen(s) /\ s \notin aged
  /\ aged' = aged \cup {s}
  /\ UNCHANGED <<shifts, requests, jobs, failures>>

(***************************************************************************)
(* A SELECT of the caller's open shift: there is none, or one that the     *)
(* handler goes on with.                                                   *)
(***************************************************************************)
SelectNone(r, point, res) ==
  /\ pc[r] = point
  /\ Open(call[r].user) = {}
  /\ Answer(r, res)
  /\ UNCHANGED <<table, call, found, audit, jobs, failures>>

SelectOpen(r, point, next) ==
  /\ pc[r] = point
  /\ \E s \in Open(call[r].user) : found' = [found EXCEPT ![r] = s]
  /\ Goto(r, next)
  /\ UNCHANGED <<table, call, result, audit, jobs, failures>>

-----------------------------------------------------------------------------
(***************************************************************************)
(* start: pre-check and INSERT in one transaction; when the index refuses  *)
(* the INSERT, a second transaction looks for the winner.                  *)
(***************************************************************************)
StartRefused(r) ==
  /\ pc[r] \in {"check", "reread"}
  /\ \E s \in Open(call[r].user) : found' = [found EXCEPT ![r] = s]
  /\ Answer(r, "already_active")
  /\ UNCHANGED <<table, call, audit, jobs, failures>>

StartCheck(r) ==
  /\ pc[r] = "check"
  /\ Open(call[r].user) = {}
  /\ Goto(r, "insert")
  /\ UNCHANGED <<table, call, found, result, audit, jobs, failures>>

\* Mutant of Admitted: shift_sessions_one_active_per_user is missing.
AdmittedAlways(u) == TRUE

Admitted(u) == Open(u) = {}

Insert(r) ==
  /\ pc[r] = "insert"
  /\ Admitted(call[r].user)
  /\ shifts' = [shifts EXCEPT ![r] = [NoShift EXCEPT !.user = call[r].user]]
  /\ Answer(r, "ok")
  /\ UNCHANGED <<aged, call, found, audit, jobs, failures>>

InsertRefused(r) ==
  /\ pc[r] = "insert"
  /\ ~Admitted(call[r].user)
  /\ Goto(r, "reread")
  /\ UNCHANGED <<table, call, found, result, audit, jobs, failures>>

\* The winner ended before the re-read: the IntegrityError surfaces as a 500.
StartLostWinner(r) == SelectNone(r, "reread", "error")

-----------------------------------------------------------------------------
\* end: SELECT the caller's open shift, then UPDATE that row.
EndRefused(r) == SelectNone(r, "find", "no_active_shift")
EndFind(r)    == SelectOpen(r, "find", "update")

EndUpdate(r) ==
  /\ pc[r] = "update"
  /\ End(found[r], call[r].reason, r)
  /\ Answer(r, "ok")
  /\ UNCHANGED <<aged, call, found, audit, jobs, failures>>

-----------------------------------------------------------------------------
(***************************************************************************)
(* force-close: the gate (require_role_with_active_shift, or               *)
(* require_web_admin and then a second SELECT that asserts its result),    *)
(* the SELECT of the target, and one commit of UPDATE and audit row.       *)
(***************************************************************************)
GateRefused(r) == SelectNone(r, "gate", "no_active_shift")

GatePasses(r) ==
  SelectOpen(r, "gate", IF call[r].op = "web_force" THEN "lookup" ELSE "target")

LookupRaises(r) == SelectNone(r, "lookup", "assertion_error")
LookupPasses(r) == SelectOpen(r, "lookup", "target")

TargetUnknown(r) ==
  /\ pc[r] = "target"
  /\ shifts[call[r].target] = NoShift
  /\ Answer(r, "not_found")
  /\ UNCHANGED <<table, call, found, audit, jobs, failures>>

TargetEnded(r) ==
  /\ pc[r] = "target"
  /\ IsEnded(call[r].target)
  /\ audit' = [audit EXCEPT ![r] = "conflict"]
  /\ Answer(r, "ok")
  /\ UNCHANGED <<table, call, found, jobs, failures>>

TargetOpen(r) ==
  /\ pc[r] = "target"
  /\ IsOpen(call[r].target)
  /\ Goto(r, "close")
  /\ UNCHANGED <<table, call, found, result, audit, jobs, failures>>

\* Mutant of ForceClose: the UPDATE names the administrator's own shift.
ForceCloseOwn(r) ==
  /\ pc[r] = "close"
  /\ End(found[r], "forced", r)
  /\ audit' = [audit EXCEPT ![r] = "success"]
  /\ Answer(r, "ok")
  /\ UNCHANGED <<aged, call, found, jobs, failures>>

ForceClose(r) ==
  /\ pc[r] = "close"
  /\ End(call[r].target, "forced", r)
  /\ audit' = [audit EXCEPT ![r] = "success"]
  /\ Answer(r, "ok")
  /\ UNCHANGED <<aged, call, found, jobs, failures>>

\* A database call of the handler raises: its transaction is rolled back.
RequestFails(r) ==
  /\ pc[r] \notin {"idle", "done"}
  /\ failures < Failures
  /\ failures' = failures + 1
  /\ Answer(r, "error")
  /\ UNCHANGED <<table, call, found, audit, jobs>>

Handle(r) ==
  \/ StartRefused(r) \/ StartCheck(r) \/ Insert(r) \/ InsertRefused(r)
  \/ StartLostWinner(r)
  \/ EndRefused(r) \/ EndFind(r) \/ EndUpdate(r)
  \/ GateRefused(r) \/ GatePasses(r) \/ LookupRaises(r) \/ LookupPasses(r)
  \/ TargetUnknown(r) \/ TargetEnded(r) \/ TargetOpen(r) \/ ForceClose(r)

-----------------------------------------------------------------------------
(***************************************************************************)
(* One iteration of the job: take the advisory lock or skip, scan for      *)
(* stale shifts, end each of them by id in a transaction of its own        *)
(* (SELECT, then UPDATE), release the lock, sleep.  The scan returns the   *)
(* oldest first; here it is any order.                                     *)
(***************************************************************************)
JobGoto(p, point) == job' = [job EXCEPT ![p] = point]

TryLock(p) ==
  /\ job[p] = "asleep"
  /\ lock = None
  /\ lock' = p
  /\ JobGoto(p, "scan")
  /\ UNCHANGED <<table, requests, todo, failures>>

Scan(p) ==
  /\ job[p] = "scan"
  /\ todo' = [todo EXCEPT ![p] = {s \in aged : IsOpen(s)}]
  /\ JobGoto(p, "rows")
  /\ UNCHANGED <<table, requests, lock, failures>>

\* end_by_id reads the row and finds it still open ...
RowOpen(p, s) ==
  /\ job[p] = "rows"
  /\ s \in todo[p]
  /\ IsOpen(s)
  /\ JobGoto(p, s)
  /\ UNCHANGED <<table, requests, lock, todo, failures>>

\* ... or ended meanwhile: IllegalShiftTransition, swallowed.
RowVanished(p, s) ==
  /\ job[p] = "rows"
  /\ s \in todo[p]
  /\ ~IsOpen(s)
  /\ todo' = [todo EXCEPT ![p] = @ \ {s}]
  /\ UNCHANGED <<table, requests, lock, job, failures>>

\* Mutant of RowEnd: end(user_keycloak_id) in place of end_by_id.
RowEndByUser(p, s) ==
  /\ job[p] = s
  /\ IF Open(shifts[s].user) = {} THEN UNCHANGED shifts
     ELSE \E t \in Open(shifts[s].user) : End(t, "auto_timeout", p)
  /\ todo' = [todo EXCEPT ![p] = @ \ {s}]
  /\ JobGoto(p, "rows")
  /\ UNCHANGED <<aged, requests, lock, failures>>

RowEnd(p, s) ==
  /\ job[p] = s
  /\ End(s, "auto_timeout", p)
  /\ todo' = [todo EXCEPT ![p] = @ \ {s}]
  /\ JobGoto(p, "rows")
  /\ UNCHANGED <<aged, requests, lock, failures>>

\* The transaction of a row raises: logged, and on to the next row.
RowFails(p, s) ==
  /\ job[p] \in {"rows", s}
  /\ s \in todo[p]
  /\ failures < Failures
  /\ failures' = failures + 1
  /\ todo' = [todo EXCEPT ![p] = @ \ {s}]
  /\ JobGoto(p, "rows")
  /\ UNCHANGED <<table, requests, lock>>

\* The finally clause: pg_advisory_unlock.
Unlock(p) ==
  /\ job[p] = "rows"
  /\ todo[p] = {}
  /\ lock' = None
  /\ JobGoto(p, "asleep")
  /\ UNCHANGED <<table, requests, todo, failures>>

\* Mutant of ScanFails: the unlock is not in a finally clause.
ScanFailsLocked(p) ==
  /\ job[p] = "scan"
  /\ failures < Failures
  /\ failures' = failures + 1
  /\ JobGoto(p, "asleep")
  /\ UNCHANGED <<table, requests, lock, todo>>

\* The scan raises: the lock is released and the loop survives.
ScanFails(p) ==
  /\ job[p] = "scan"
  /\ failures < Failures
  /\ failures' = failures + 1
  /\ lock' = None
  /\ JobGoto(p, "asleep")
  /\ UNCHANGED <<table, requests, todo>>

\* The replica dies; PostgreSQL releases the lock with its connection.
Crash(p) ==
  /\ job[p] # "down"
  /\ failures < Failures
  /\ failures' = failures + 1
  /\ lock' = IF lock = p THEN None ELSE lock
  /\ todo' = [todo EXCEPT ![p] = {}]
  /\ JobGoto(p, "down")
  /\ UNCHANGED <<table, requests>>

Restart(p) ==
  /\ job[p] = "down"
  /\ JobGoto(p, "asleep")
  /\ UNCHANGED <<table, requests, lock, todo, failures>>

Iterate(p) ==
  \/ TryLock(p) \/ Scan(p) \/ Unlock(p)
  \/ \E s \in Shifts : RowOpen(p, s) \/ RowVanished(p, s) \/ RowEnd(p, s)

-----------------------------------------------------------------------------
Next ==
  \/ \E r \in Requests : Send(r) \/ Handle(r) \/ RequestFails(r)
  \/ \E s \in Shifts : Age(s)
  \/ \E p \in Replicas :
       \/ Iterate(p) \/ ScanFails(p) \/ Crash(p) \/ Restart(p)
       \/ \E s \in Shifts : RowFails(p, s)

Spec == Init /\ [][Next]_vars

(***************************************************************************)
(* The loop sleeps for a bounded time and every database call returns or   *)
(* raises, so an iteration that began goes on, and a replica that died is  *)
(* started again.  Weak fairness is enough: a replica may find the lock    *)
(* held at each of its attempts, but then others complete iterations.      *)
(***************************************************************************)
FairSpec == Spec /\ \A p \in Replicas : WF_vars(Iterate(p)) /\ WF_vars(Restart(p))

-----------------------------------------------------------------------------
TypeOK ==
  /\ shifts \in [Shifts -> [user : Users \cup {None},
                            end  : EndReasons \cup {None},
                            by   : Shifts \cup Replicas \cup {None}]]
  /\ aged \in SUBSET Shifts
  /\ pc \in [Requests -> {"idle", "check", "insert", "reread", "find", "update",
                          "gate", "lookup", "target", "close", "done"}]
  /\ call \in [Requests -> Calls \cup {NoCall}]
  /\ found \in [Requests -> Shifts \cup {None}]
  /\ result \in [Requests -> {None, "ok", "already_active", "no_active_shift",
                              "not_found", "assertion_error", "error"}]
  /\ audit \in [Requests -> AuditResults \cup {None}]
  /\ lock \in Replicas \cup {None}
  /\ job \in [Replicas -> Shifts \cup {"asleep", "scan", "rows", "down"}]
  /\ todo \in [Replicas -> SUBSET Shifts]
  /\ failures \in 0..Failures

(***************************************************************************)
(* The audit trail of force-close tells the truth about the table: a shift *)
(* whose end_reason is "forced" has a SUCCESS row of an administrator who  *)
(* named it, and a shift that a SUCCESS or CONFLICT row names has ended    *)
(* and stays so, whoever else ends it before, meanwhile or afterwards.     *)
(***************************************************************************)
ForceCloseTrail ==
  /\ \A s \in Shifts : shifts[s].end = "forced" /\ s # shifts[s].by =>
       \E r \in Requests : audit[r] = "success" /\ call[r].target = s
  /\ \A r \in Requests : audit[r] # None => IsEnded(call[r].target)

(***************************************************************************)
(* The job ends no shift younger than the threshold: not the one its user  *)
(* opened after the scan either, although the shift the scan found is gone *)
(* by the time the job comes to it.                                        *)
(***************************************************************************)
JobEndsOnlyAged == \A s \in Shifts : shifts[s].by \in Replicas => s \in aged

\* Every aged shift ends, although replicas compete for the lock, rows and
\* scans fail, and the replica that holds the lock may die.
AgedShiftsEnd == \A s \in Shifts : s \in aged /\ IsOpen(s) ~> IsEnded(s)
=============================================================================
