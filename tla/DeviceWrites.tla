---------------------------- MODULE DeviceWrites ----------------------------
(***************************************************************************)
(* The writes to NetBox outside the QR sagas: editing a device, creating   *)
(* one and adding a comment (backend/app/api/v1/devices.py), through       *)
(* NetBoxWriteService (services/netbox_write.py) and NetBoxClient (netbox/ *)
(* client.py), whose three attempts and circuit breaker are modelled here  *)
(* attempt by attempt.                                                     *)
(*                                                                         *)
(* NetBox does not deduplicate: an attempt that it carried out and whose   *)
(* answer was lost is repeated, POSTs included.                            *)
(***************************************************************************)
EXTENDS Naturals, FiniteSets

CONSTANTS Requests,    \* the writes the service receives
          Threshold,   \* netbox_circuit_failure_threshold
          Faults,      \* the failures that may happen
          None

MaxAttempts == 3       \* len(_BACKOFF_SECONDS)

(***************************************************************************)
(*  lost        an attempt takes effect and its answer is lost             *)
(*  garbled     it is answered 2xx with a body that cannot be used         *)
(*  unreached   an attempt times out or gets a 5xx, without effect         *)
(*  refused     NetBox answers 4xx; unsupported: it answers 501            *)
(*  audit_error the best-effort audit row is not written                   *)
(*  crash       the process dies                                           *)
(***************************************************************************)
FaultKinds == {"lost", "garbled", "unreached", "refused", "unsupported",
               "audit_error", "crash"}

ASSUME WritesAssumption ==
  /\ Threshold \in Nat \ {0}
  /\ Faults \subseteq FaultKinds

VARIABLES
  at,       \* request -> the call its handler is in
  kind,     \* request -> the endpoint
  tries,    \* request -> the attempt under way in that call, 0 before the first
  fresh,    \* request -> the version its client sent is still the device's
  answer,   \* request -> what the service returns or raises
  trail,    \* request -> the results of its audit rows
  breaker,  \* the process-wide CircuitBreaker
  made,     \* NetBox: request -> effects of its POST or PATCH
  lost,     \* history: request -> effects whose answer was lost or unusable
  outage    \* history: calls that failed since one last came through

vars == <<at, kind, tries, fresh, answer, trail, breaker, made, lost, outage>>
netbox == <<fresh, made, lost>>
circuit == <<breaker, outage>>

Kinds == {"update", "create", "comment"}
Calls == {"get", "patch", "post", "journal"}
Answers == {"ok", "conflict", "refused", "failed", "circuit_open"}

ASSUME NoneAssumption == None \notin Answers \cup {"crashed"}

Init ==
  /\ at = [r \in Requests |-> "idle"]
  /\ kind = [r \in Requests |-> None]
  /\ tries = [r \in Requests |-> 0]
  /\ fresh = [r \in Requests |-> FALSE]
  /\ answer = [r \in Requests |-> None]
  /\ trail = [r \in Requests |-> {}]
  /\ breaker = [state |-> "closed", failures |-> 0]
  /\ made = [r \in Requests |-> 0]
  /\ lost = [r \in Requests |-> 0]
  /\ outage = 0

\* A write arrives.  The client of an update has read the device.
Arrive(r) ==
  /\ at[r] = "idle"
  /\ \E k \in Kinds :
       /\ kind' = [kind EXCEPT ![r] = k]
       /\ at' = [at EXCEPT ![r] = IF k = "update" THEN "get" ELSE "post"]
  /\ fresh' = [fresh EXCEPT ![r] = TRUE]
  /\ UNCHANGED <<tries, answer, trail, circuit, made, lost>>

-----------------------------------------------------------------------------
(***************************************************************************)
(* NetBoxWriteService: what follows a call that returned, and one that     *)
(* raised.  The journal entry is best-effort, and a comment is itself the  *)
(* journal entry.                                                          *)
(***************************************************************************)
Goto(r, step) ==
  /\ at' = [at EXCEPT ![r] = step]
  /\ tries' = [tries EXCEPT ![r] = 0]

\* The outcome is known; the audit row comes next.
Conclude(r, res) ==
  /\ Goto(r, "audit")
  /\ answer' = [answer EXCEPT ![r] = res]

Returned(r) ==
  CASE at[r] = "get" /\ fresh[r]  -> Goto(r, "patch") /\ UNCHANGED answer
    [] at[r] = "get" /\ ~fresh[r] -> Conclude(r, "conflict")
    [] at[r] = "patch" \/ (at[r] = "post" /\ kind[r] = "create") ->
         Goto(r, "journal") /\ UNCHANGED answer
    [] OTHER -> Conclude(r, "ok")

\* Mutant of Raised: a journal entry that fails makes the write fail.
RaisedAlways(r, res) == Conclude(r, res)

Raised(r, res) == Conclude(r, IF at[r] = "journal" THEN "ok" ELSE res)

\* Mutant of Row: a refused version is recorded like any other failure.
RowOfFailure(res) == IF res = "ok" THEN "success" ELSE "failure"

Row(res) == CASE res = "ok" -> "success" [] res = "conflict" -> "conflict"
              [] OTHER -> "failure"

RecordAudit(r) ==
  /\ at[r] = "audit"
  /\ at' = [at EXCEPT ![r] = "done"]
  /\ \/ trail' = [trail EXCEPT ![r] = @ \cup {Row(answer[r])}]
     \/ "audit_error" \in Faults /\ UNCHANGED trail
  /\ UNCHANGED <<kind, tries, answer, netbox, circuit>>

-----------------------------------------------------------------------------
(***************************************************************************)
(* The circuit breaker (package circuitbreaker): calls that end in         *)
(* NetBoxServerError or NetBoxTimeout are counted, any other end clears    *)
(* the count and closes it, whenever that call had begun.  The count stops *)
(* at Threshold here, beyond which it makes no difference.                 *)
(***************************************************************************)
Opened == breaker.state = "open"

\* Mutant of Counted: expected_exception is left at its default.
CountedAll(end) == end # "ok"

Counted(end) == end \in {"unreached", "unsupported"}

Ended(end) ==
  LET n == IF breaker.failures < Threshold THEN breaker.failures + 1 ELSE Threshold
  IN  /\ breaker' = IF ~Counted(end) THEN [state |-> "closed", failures |-> 0]
                    ELSE [state |-> IF n = Threshold THEN "open" ELSE breaker.state,
                          failures |-> n]
      /\ outage' = CASE end \in {"ok", "refused"} -> 0
                     [] outage < Threshold        -> outage + 1
                     [] OTHER                     -> outage

\* recovery_timeout has passed since it opened: calls are let through again.
RecoveryElapses ==
  /\ Opened
  /\ breaker' = [breaker EXCEPT !.state = "half_open"]
  /\ UNCHANGED <<at, kind, tries, fresh, answer, trail, made, lost, outage>>

\* The breaker is shared with every other caller in the process: searches,
\* forms, the sagas.  A call of theirs ends, having begun at any time before.
OtherCallEnds ==
  /\ \E end \in {"ok"} \cup (Faults \cap {"refused", "unreached", "unsupported"}) : Ended(end)
  /\ UNCHANGED <<at, kind, tries, fresh, answer, trail, made, lost>>

\* Mutant of Enter: a call that meets an open circuit waits.
EnterWaiting(r) ==
  /\ at[r] \in Calls /\ tries[r] = 0
  /\ ~Opened
  /\ tries' = [tries EXCEPT ![r] = 1]
  /\ UNCHANGED <<at, kind, answer, trail, netbox, circuit>>

Enter(r) ==
  /\ at[r] \in Calls /\ tries[r] = 0
  /\ IF Opened THEN Raised(r, "circuit_open")
               ELSE tries' = [tries EXCEPT ![r] = 1] /\ UNCHANGED <<at, answer>>
  /\ UNCHANGED <<kind, trail, netbox, circuit>>

(***************************************************************************)
(* NetBox carries an attempt out.  A PATCH moves last_updated: no version  *)
(* that was read before is current any more.                               *)
(***************************************************************************)
Effect(r) ==
  /\ made' = IF at[r] \in {"patch", "post"} THEN [made EXCEPT ![r] = @ + 1] ELSE made
  /\ fresh' = IF at[r] = "patch" THEN [s \in Requests |-> FALSE] ELSE fresh

UnderWay(r) == at[r] \in Calls /\ tries[r] > 0

Untold(r) ==
  lost' = IF at[r] \in {"patch", "post"} THEN [lost EXCEPT ![r] = @ + 1] ELSE lost

Answered(r) ==
  /\ UnderWay(r)
  /\ Effect(r)
  /\ Ended("ok")
  /\ Returned(r)
  /\ UNCHANGED <<kind, trail, lost>>

\* The body of a 2xx does not parse: for the breaker the call came through, for
\* the service it raised.  The id of a created object is taken outside the try,
\* so that one without leaves no audit row.  Of the journal entry nothing is read.
Unreadable(r) ==
  /\ "garbled" \in Faults
  /\ UnderWay(r) /\ at[r] # "journal"
  /\ Effect(r) /\ Untold(r)
  /\ Ended("ok")
  /\ \/ Goto(r, "audit")
     \/ at[r] = "post" /\ kind[r] = "create" /\ Goto(r, "done")
  /\ answer' = [answer EXCEPT ![r] = "failed"]
  /\ UNCHANGED <<kind, trail>>

\* The answer is an error that is not worth another attempt.
Refused(r) ==
  /\ "refused" \in Faults
  /\ UnderWay(r)
  /\ Ended("refused")
  /\ Raised(r, "refused")
  /\ UNCHANGED <<kind, trail, netbox>>

Unsupported(r) ==
  /\ "unsupported" \in Faults
  /\ UnderWay(r)
  /\ Ended("unsupported")
  /\ Raised(r, "failed")
  /\ UNCHANGED <<kind, trail, netbox>>

\* Mutant of TryAgain: one attempt too many.
TryOnceMore(r) ==
  IF tries[r] <= MaxAttempts
  THEN /\ tries' = [tries EXCEPT ![r] = @ + 1]
       /\ UNCHANGED <<at, answer, circuit>>
  ELSE Ended("unreached") /\ Raised(r, "failed")

\* No answer, or a 5xx: the attempt is repeated, the third one raises.
TryAgain(r) ==
  IF tries[r] < MaxAttempts
  THEN /\ tries' = [tries EXCEPT ![r] = @ + 1]
       /\ UNCHANGED <<at, answer, circuit>>
  ELSE Ended("unreached") /\ Raised(r, "failed")

Unreached(r) ==
  /\ "unreached" \in Faults
  /\ UnderWay(r)
  /\ TryAgain(r)
  /\ UNCHANGED <<kind, trail, netbox>>

AnswerLost(r) ==
  /\ "lost" \in Faults
  /\ UnderWay(r)
  /\ Effect(r)
  /\ Untold(r)
  /\ TryAgain(r)
  /\ UNCHANGED <<kind, trail>>

\* The process dies with all its requests; the breaker is in its memory.
Crash ==
  /\ "crash" \in Faults
  /\ \E r \in Requests : at[r] \notin {"idle", "done"}
  /\ LET cut == {r \in Requests : at[r] \notin {"idle", "done"}}
     IN  /\ at' = [r \in Requests |-> IF r \in cut THEN "done" ELSE at[r]]
         /\ tries' = [r \in Requests |-> 0]
         /\ answer' = [r \in Requests |-> IF r \in cut THEN "crashed" ELSE answer[r]]
  /\ breaker' = [state |-> "closed", failures |-> 0]
  /\ outage' = 0
  /\ UNCHANGED <<kind, trail, netbox>>

Handle(r) ==
  \/ Enter(r) \/ Answered(r) \/ Unreadable(r) \/ Refused(r) \/ Unsupported(r)
  \/ Unreached(r) \/ AnswerLost(r) \/ RecordAudit(r)

AllAnswered == \A r \in Requests : at[r] = "done"

Next ==
  \/ \E r \in Requests : Arrive(r) \/ Handle(r)
  \/ OtherCallEnds \/ RecoveryElapses
  \/ Crash
  \/ AllAnswered /\ UNCHANGED vars

Spec == Init /\ [][Next]_vars

\* httpx bounds each attempt, the attempts are counted, and a call that meets
\* an open circuit does not wait.  Nothing is assumed of the recovery timeout,
\* as requests do not depend on it.
FairSpec == Spec /\ \A r \in Requests : WF_vars(Handle(r))

-----------------------------------------------------------------------------
TypeOK ==
  /\ at \in [Requests -> Calls \cup {"idle", "audit", "done"}]
  /\ kind \in [Requests -> Kinds \cup {None}]
  /\ tries \in [Requests -> 0 .. MaxAttempts]
  /\ fresh \in [Requests -> BOOLEAN]
  /\ answer \in [Requests -> Answers \cup {None, "crashed"}]
  /\ trail \in [Requests -> SUBSET {"success", "failure", "conflict"}]
  /\ breaker \in [state : {"closed", "open", "half_open"}, failures : 0 .. Threshold]
  /\ made \in [Requests -> 0 .. MaxAttempts]
  /\ lost \in [Requests -> 0 .. MaxAttempts]
  /\ outage \in 0 .. Threshold

(***************************************************************************)
(* What the audit log says of a write is what NetBox did, but for answers  *)
(* that were lost or unusable: without those a SUCCESS row means that the  *)
(* write was carried out once, a FAILURE or CONFLICT row that it was not   *)
(* carried out, although the row is written after the calls and a failed   *)
(* journal entry does not count.  With them NetBox has at most one effect  *)
(* more than were lost.                                                    *)
(***************************************************************************)
AuditTellsEffect ==
  \A r \in Requests :
    /\ made[r] \in {lost[r], lost[r] + 1}
    /\ "success" \in trail[r] => made[r] = lost[r] + 1
    /\ trail[r] \cap {"failure", "conflict"} # {} => made[r] = lost[r]
    /\ answer[r] = "conflict" => made[r] = 0

(***************************************************************************)
(* The attempts, calls and steps of a write implement RemoteWrite: its     *)
(* outcome is decided once, by what the service knows of its effects,      *)
(* nothing of it reaches NetBox later, and the audit row says the same.    *)
(***************************************************************************)
Remote == INSTANCE RemoteWrite WITH
  carried <- [r \in Requests |-> made[r] - lost[r]],
  strays  <- lost,
  outcome <- [r \in Requests |-> CASE answer[r] = None       -> None
                                   [] answer[r] = "ok"       -> "success"
                                   [] answer[r] = "conflict" -> "conflict"
                                   [] answer[r] = "crashed"  -> "cut"
                                   [] OTHER                  -> "failure"],
  rows    <- trail

ImplementsRemoteWrite == Remote!Spec

(***************************************************************************)
(* Only an outage opens the circuit: a request is answered 503 without     *)
(* NetBox being asked only after Threshold calls in a row, of any          *)
(* requests, found it broken.  4xx answers, however many, do not count.    *)
(***************************************************************************)
OpensOnOutage == Opened => outage = Threshold

\* Every write is answered, whatever NetBox does and however long the circuit
\* stays open.
EveryWriteAnswered == \A r \in Requests : at[r] # "idle" ~> at[r] = "done"
=============================================================================
