----------------------------- MODULE ShiftProofs -----------------------------
(***************************************************************************)
(* Theorems of ShiftSessions, for any number of users, shifts, requests    *)
(* and replicas and any number of failures: a user never has two open      *)
(* shifts, the audit rows of force-close agree with the table, and the job *)
(* ends aged shifts only.                                                  *)
(*                                                                         *)
(* The strengthening says what a handler carries between its SELECT and    *)
(* its UPDATE (HandlersKnow), and that what the job has still to end is    *)
(* aged (JobsKnow), although neither holds a lock on the row.              *)
(***************************************************************************)
EXTENDS ShiftSessions, TLAPS

HandlersKnow ==
  \A r \in Requests :
    /\ pc[r] = "idle" => audit[r] = None /\ shifts[r] = NoShift
    /\ pc[r] # "idle" => call[r] \in Calls
    /\ pc[r] \in {"check", "insert"} => call[r].op = "start" /\ shifts[r] = NoShift
    /\ pc[r] = "find" => call[r].op = "end"
    /\ pc[r] = "update" =>
         call[r].op = "end" /\ found[r] \in Shifts /\ shifts[found[r]].user # None
    /\ pc[r] \in {"gate", "lookup", "target", "close"} =>
         call[r].op \in {"force", "web_force"}
    /\ pc[r] = "close" => shifts[call[r].target].user # None
    /\ pc[r] # "done" => audit[r] = None
    /\ audit[r] # None => call[r].op \in {"force", "web_force"}

JobsKnow ==
  \A p \in Replicas :
    /\ todo[p] \subseteq aged
    /\ \A s \in Shifts : job[p] = s => s \in aged

AgedExist == \A s \in aged : shifts[s].user # None

IInv ==
  /\ TypeOK
  /\ OneOpenShift
  /\ HandlersKnow
  /\ ForceCloseTrail
  /\ JobsKnow
  /\ AgedExist
  /\ JobEndsOnlyAged

-----------------------------------------------------------------------------
LEMMA InitIInv == Init => IInv
  <1> SUFFICES ASSUME Init PROVE IInv
    OBVIOUS
  <1>1. PICK owner \in [Standing -> Users], end \in [Standing -> EndReasons \cup {None}] :
          shifts = [s \in Shifts |->
                     IF s \in Standing
                     THEN [user |-> owner[s], end |-> end[s],
                           by |-> IF end[s] = None THEN None ELSE s]
                     ELSE NoShift]
    BY DEF Init
  <1>2. \A s \in Shifts :
          /\ shifts[s] \in [user : Users \cup {None}, end : EndReasons \cup {None},
                            by : Shifts \cup Replicas \cup {None}]
          /\ s \notin Standing => shifts[s] = NoShift
          /\ shifts[s].end # None => shifts[s].by = s
          /\ shifts[s].by \in {s, None}
    BY <1>1 DEF Shifts, NoShift
  <1>3. failures \in 0..Failures
    BY ShiftsAssumption DEF Init
  <1>4. shifts \in [Shifts -> [user : Users \cup {None}, end : EndReasons \cup {None},
                               by : Shifts \cup Replicas \cup {None}]]
    BY <1>1, <1>2
  <1>5. TypeOK
    BY <1>3, <1>4 DEF Init, TypeOK, Shifts
  <1>6. HandlersKnow
    BY <1>2, ShiftsAssumption DEF Init, HandlersKnow, Shifts
  <1>7. ForceCloseTrail
    BY <1>2, ShiftsAssumption DEF Init, ForceCloseTrail, EndReasons
  <1>8. JobsKnow
    BY ShiftsAssumption DEF Init, JobsKnow
  <1>9. JobEndsOnlyAged
    BY <1>2, ShiftsAssumption DEF JobEndsOnlyAged
  <1>10. AgedExist
    BY <1>1, ShiftsAssumption DEF Init, AgedExist, Shifts
  <1> QED
    BY <1>5, <1>6, <1>7, <1>8, <1>9, <1>10 DEF Init, IInv

\* The type of the table, and its rows.
LEMMA TableType ==
  ASSUME IInv
  PROVE  /\ shifts \in [Shifts -> [user : Users \cup {None}, end : EndReasons \cup {None},
                                   by : Shifts \cup Replicas \cup {None}]]
         /\ Requests \subseteq Shifts
  BY DEF IInv, TypeOK, Shifts

(***************************************************************************)
(* To end a shift opens none, and leaves the ended ones ended.             *)
(***************************************************************************)
LEMMA EndRow ==
  ASSUME IInv, NEW s \in Shifts, NEW reason \in EndReasons,
         NEW by \in Shifts \cup Replicas, End(s, reason, by)
  PROVE  /\ shifts' \in [Shifts -> [user : Users \cup {None}, end : EndReasons \cup {None},
                                    by : Shifts \cup Replicas \cup {None}]]
         /\ shifts'[s].end = reason /\ shifts'[s].by = by
         /\ \A t \in Shifts : shifts'[t].user = shifts[t].user
         /\ \A t \in Shifts \ {s} : shifts'[t] = shifts[t]
         /\ \A t \in Shifts : shifts[t].end # None => shifts'[t].end # None
         /\ OneOpenShift'
  <1>1. shifts \in [Shifts -> [user : Users \cup {None}, end : EndReasons \cup {None},
                               by : Shifts \cup Replicas \cup {None}]]
    BY TableType
  <1>2. /\ shifts'[s] = [shifts[s] EXCEPT !.end = reason, !.by = by]
        /\ \A t \in Shifts \ {s} : shifts'[t] = shifts[t]
        /\ shifts' \in [Shifts -> [user : Users \cup {None}, end : EndReasons \cup {None},
                                   by : Shifts \cup Replicas \cup {None}]]
    BY <1>1 DEF End
  <1>3. shifts'[s].end = reason /\ shifts'[s].by = by /\ shifts'[s].user = shifts[s].user
    BY <1>1, <1>2
  <1>4. reason # None
    BY ShiftsAssumption
  <1>5. ASSUME NEW t \in Shifts, shifts'[t].end = None
        PROVE  shifts'[t] = shifts[t]
    BY <1>2, <1>3, <1>4, <1>5
  <1>6. OneOpenShift'
    BY <1>5 DEF IInv, OneOpenShift, IsOpen
  <1> QED
    BY <1>2, <1>3, <1>4, <1>6

-----------------------------------------------------------------------------
(***************************************************************************)
(* A step of request r that leaves the table alone.                        *)
(***************************************************************************)
LEMMA HandlerKept ==
  ASSUME IInv, NEW r \in Requests, TypeOK', UNCHANGED <<table, jobs>>,
         pc[r] # "done",
         \A q \in Requests \ {r} :
           pc'[q] = pc[q] /\ call'[q] = call[q] /\ found'[q] = found[q] /\ audit'[q] = audit[q],
         pc'[r] # "idle" /\ call'[r] \in Calls,
         pc'[r] \in {"check", "insert"} => call'[r].op = "start" /\ shifts[r] = NoShift,
         pc'[r] = "find" => call'[r].op = "end",
         pc'[r] = "update" =>
           /\ call'[r].op = "end" /\ found'[r] \in Shifts
           /\ shifts[found'[r]].user # None,
         pc'[r] \in {"gate", "lookup", "target", "close"} =>
           call'[r].op \in {"force", "web_force"},
         pc'[r] = "close" => shifts[call'[r].target].user # None,
         pc'[r] # "done" => audit'[r] = None,
         audit'[r] \in {None, "conflict"},
         audit'[r] # None =>
           call'[r].op \in {"force", "web_force"} /\ shifts[call'[r].target].end # None
  PROVE  IInv'
  <1>1. UNCHANGED <<shifts, aged, lock, job, todo>>
    BY DEF table, jobs
  <1>2. OneOpenShift'
    BY <1>1 DEF IInv, OneOpenShift, IsOpen
  <1>3. HandlersKnow'
    BY <1>1 DEF IInv, HandlersKnow
  <1>4. audit[r] = None
    BY DEF IInv, HandlersKnow
  <1>5. ForceCloseTrail'
    <2>1. ASSUME NEW s \in Shifts, shifts'[s].end = "forced", s # shifts'[s].by
          PROVE  \E q \in Requests : audit'[q] = "success" /\ call'[q].target = s
      <3>1. PICK q \in Requests : audit[q] = "success" /\ call[q].target = s
        BY <1>1, <2>1 DEF IInv, ForceCloseTrail
      <3>2. q # r
        BY <1>4, <3>1, ShiftsAssumption DEF AuditResults
      <3>3. audit'[q] = "success" /\ call'[q].target = s
        BY <3>1, <3>2
      <3> QED
        BY <3>3
    <2>2. ASSUME NEW q \in Requests, audit'[q] # None
          PROVE  shifts'[call'[q].target].end # None
      <3>1. CASE q = r
        BY <1>1, <2>2, <3>1 DEF IsEnded
      <3>2. CASE q # r
        BY <1>1, <2>2, <3>2 DEF IInv, ForceCloseTrail, IsEnded
      <3> QED
        BY <3>1, <3>2
    <2> QED
      BY <2>1, <2>2 DEF ForceCloseTrail, IsEnded
  <1>6. JobsKnow' /\ AgedExist' /\ JobEndsOnlyAged'
    BY <1>1 DEF IInv, JobsKnow, AgedExist, JobEndsOnlyAged
  <1> QED
    BY <1>2, <1>3, <1>5, <1>6 DEF IInv

\* A call names its operation, its user, a reason that fits, and a shift when
\* the operation has one.
LEMMA CallFields ==
  ASSUME NEW c \in Calls
  PROVE  /\ c.op \in Operations /\ c.user \in Users
         /\ c.op = "end" => c.reason \in {"manual", "auto_timeout"}
         /\ c.op \in {"force", "web_force"} => c.target \in Shifts
  BY DEF Calls, Operations

LEMMA SendIInv == ASSUME IInv, NEW r \in Requests, Send(r) PROVE IInv'
  <1>1. PICK c \in Calls : call' = [call EXCEPT ![r] = c] /\ Goto(r, First(c.op))
    BY DEF Send
  <1>2. /\ pc[r] = "idle" /\ UNCHANGED <<table, found, result, audit, jobs, failures>>
    BY DEF Send
  <1>3. /\ First(c.op) \in {"check", "find", "gate"}
        /\ First(c.op) = "check" => c.op = "start"
        /\ First(c.op) = "find" => c.op = "end"
        /\ First(c.op) = "gate" => c.op \in {"force", "web_force"}
    BY CallFields DEF First, Operations
  <1>4. /\ call'[r] = c /\ pc'[r] = First(c.op)
        /\ \A q \in Requests \ {r} : pc'[q] = pc[q] /\ call'[q] = call[q]
    BY <1>1 DEF Goto, IInv, TypeOK
  <1>5. TypeOK'
    BY <1>1, <1>2, <1>3 DEF IInv, TypeOK, Goto, table, jobs
  <1>6. shifts[r] = NoShift /\ audit[r] = None
    BY <1>2 DEF IInv, HandlersKnow
  <1> QED
    BY <1>2, <1>3, <1>4, <1>5, <1>6, HandlerKept

-----------------------------------------------------------------------------
\* Request r is answered and has written nothing.
LEMMA AnswerIInv ==
  ASSUME IInv, NEW r \in Requests, pc[r] \notin {"idle", "done"},
         NEW res \in {"ok", "already_active", "no_active_shift", "not_found",
                      "assertion_error", "error"},
         Answer(r, res), UNCHANGED <<table, call, jobs>>,
         found' \in [Requests -> Shifts \cup {None}],
         \A q \in Requests \ {r} : found'[q] = found[q],
         \/ audit' = audit
         \/ /\ audit' = [audit EXCEPT ![r] = "conflict"]
            /\ call[r].op \in {"force", "web_force"}
            /\ shifts[call[r].target].end # None,
         failures' \in 0..Failures
  PROVE  IInv'
  <1>1. /\ pc'[r] = "done"
        /\ \A q \in Requests \ {r} : pc'[q] = pc[q]
    BY DEF Answer, Goto, IInv, TypeOK
  <1>2. call[r] \in Calls /\ audit[r] = None
    BY DEF IInv, HandlersKnow
  <1>3. /\ audit' \in [Requests -> AuditResults \cup {None}]
        /\ \A q \in Requests \ {r} : audit'[q] = audit[q]
        /\ audit'[r] \in {None, "conflict"}
        /\ audit'[r] # None =>
             call[r].op \in {"force", "web_force"} /\ shifts[call[r].target].end # None
    BY <1>2 DEF IInv, TypeOK, AuditResults
  <1>4. /\ pc' \in [Requests -> {"idle", "check", "insert", "reread", "find", "update",
                                 "gate", "lookup", "target", "close", "done"}]
        /\ result' \in [Requests -> {None, "ok", "already_active", "no_active_shift",
                                     "not_found", "assertion_error", "error"}]
    BY DEF Answer, Goto, IInv, TypeOK
  <1>5. TypeOK'
    BY <1>3, <1>4 DEF IInv, TypeOK, table, jobs
  <1> QED
    BY <1>1, <1>2, <1>3, <1>5, HandlerKept

\* Request r goes on to its next point and has written nothing.
LEMMA MoveIInv ==
  ASSUME IInv, NEW r \in Requests, pc[r] \notin {"idle", "done"},
         NEW point \in {"insert", "reread", "update", "lookup", "target", "close"},
         Goto(r, point), UNCHANGED <<table, call, result, audit, jobs, failures>>,
         found' \in [Requests -> Shifts \cup {None}],
         \A q \in Requests \ {r} : found'[q] = found[q],
         point = "insert" => pc[r] = "check",
         point = "update" =>
           /\ call[r].op = "end" /\ found'[r] \in Shifts
           /\ shifts[found'[r]].user # None,
         point \in {"lookup", "target", "close"} => call[r].op \in {"force", "web_force"},
         point = "close" => shifts[call[r].target].user # None
  PROVE  IInv'
  <1>1. pc'[r] = point /\ \A q \in Requests \ {r} : pc'[q] = pc[q]
    BY DEF Goto, IInv, TypeOK
  <1>2. TypeOK'
    BY DEF IInv, TypeOK, Goto, table, jobs
  <1>3. /\ call[r] \in Calls /\ audit[r] = None
        /\ pc[r] = "check" => call[r].op = "start" /\ shifts[r] = NoShift
    BY DEF IInv, HandlersKnow
  <1> QED
    BY <1>1, <1>2, <1>3, HandlerKept

LEMMA SelectNoneIInv ==
  ASSUME IInv, NEW r \in Requests, NEW point, point \notin {"idle", "done"},
         NEW res \in {"no_active_shift", "assertion_error", "error"},
         SelectNone(r, point, res)
  PROVE  IInv'
  <1>1. found' \in [Requests -> Shifts \cup {None}] /\ failures' \in 0..Failures
    BY DEF SelectNone, IInv, TypeOK
  <1> QED
    BY <1>1, AnswerIInv DEF SelectNone

LEMMA SelectOpenIInv ==
  ASSUME IInv, NEW r \in Requests, NEW point, NEW next \in {"update", "lookup", "target"},
         point \notin {"idle", "done"}, SelectOpen(r, point, next),
         next = "update" => call[r].op = "end",
         next # "update" => call[r].op \in {"force", "web_force"}
  PROVE  IInv'
  <1>1. PICK s \in Open(call[r].user) : found' = [found EXCEPT ![r] = s]
    BY DEF SelectOpen
  <1>2. s \in Shifts /\ shifts[s].user # None
    <2>1. call[r] \in Calls
      BY DEF SelectOpen, IInv, HandlersKnow
    <2> QED
      BY <2>1, CallFields, ShiftsAssumption DEF Open
  <1>3. /\ found' \in [Requests -> Shifts \cup {None}] /\ found'[r] = s
        /\ \A q \in Requests \ {r} : found'[q] = found[q]
    BY <1>1, <1>2 DEF IInv, TypeOK
  <1> QED
    BY <1>2, <1>3, MoveIInv DEF SelectOpen

-----------------------------------------------------------------------------
LEMMA StartIInv ==
  ASSUME IInv, NEW r \in Requests,
         StartRefused(r) \/ StartCheck(r) \/ InsertRefused(r) \/ StartLostWinner(r)
  PROVE  IInv'
  <1>1. CASE StartRefused(r)
    <2>1. PICK s \in Open(call[r].user) : found' = [found EXCEPT ![r] = s]
      BY <1>1 DEF StartRefused
    <2>2. /\ found' \in [Requests -> Shifts \cup {None}]
          /\ \A q \in Requests \ {r} : found'[q] = found[q]
      BY <2>1 DEF IInv, TypeOK, Open
    <2>3. failures' \in 0..Failures
      BY <1>1 DEF StartRefused, IInv, TypeOK
    <2> QED
      BY <1>1, <2>2, <2>3, AnswerIInv DEF StartRefused
  <1>2. CASE StartCheck(r) \/ InsertRefused(r)
    <2>1. found' \in [Requests -> Shifts \cup {None}]
      BY <1>2 DEF StartCheck, InsertRefused, IInv, TypeOK
    <2> QED
      BY <1>2, <2>1, MoveIInv DEF StartCheck, InsertRefused
  <1>3. CASE StartLostWinner(r)
    BY <1>3, SelectNoneIInv DEF StartLostWinner
  <1> QED
    BY <1>1, <1>2, <1>3

LEMMA SelectIInv ==
  ASSUME IInv, NEW r \in Requests,
         \/ EndRefused(r) \/ EndFind(r)
         \/ GateRefused(r) \/ GatePasses(r) \/ LookupRaises(r) \/ LookupPasses(r)
  PROVE  IInv'
  <1>1. /\ pc[r] = "find" => call[r].op = "end"
        /\ pc[r] \in {"gate", "lookup"} => call[r].op \in {"force", "web_force"}
    BY DEF IInv, HandlersKnow
  <1>2. CASE EndRefused(r) \/ GateRefused(r) \/ LookupRaises(r)
    BY <1>2, SelectNoneIInv DEF EndRefused, GateRefused, LookupRaises
  <1>3. CASE EndFind(r) \/ LookupPasses(r)
    BY <1>1, <1>3, SelectOpenIInv DEF EndFind, LookupPasses, SelectOpen
  <1>4. CASE GatePasses(r)
    BY <1>1, <1>4, SelectOpenIInv DEF GatePasses, SelectOpen
  <1> QED
    BY <1>2, <1>3, <1>4

LEMMA TargetIInv ==
  ASSUME IInv, NEW r \in Requests,
         TargetUnknown(r) \/ TargetEnded(r) \/ TargetOpen(r) \/ RequestFails(r)
  PROVE  IInv'
  <1>1. found' \in [Requests -> Shifts \cup {None}] /\ failures' \in 0..Failures
    BY ShiftsAssumption
    DEF TargetUnknown, TargetEnded, TargetOpen, RequestFails, IInv, TypeOK
  <1>2. CASE TargetUnknown(r) \/ RequestFails(r)
    BY <1>1, <1>2, AnswerIInv DEF TargetUnknown, RequestFails
  <1>3. CASE TargetEnded(r)
    <2>1. call[r].op \in {"force", "web_force"}
      BY <1>3 DEF TargetEnded, IInv, HandlersKnow
    <2> QED
      BY <1>1, <1>3, <2>1, AnswerIInv DEF TargetEnded, IsEnded
  <1>4. CASE TargetOpen(r)
    <2>1. call[r].op \in {"force", "web_force"} /\ shifts[call[r].target].user # None
      BY <1>4 DEF TargetOpen, IsOpen, IInv, HandlersKnow
    <2> QED
      BY <1>1, <1>4, <2>1, MoveIInv DEF TargetOpen
  <1> QED
    BY <1>2, <1>3, <1>4

\* An audited request names a shift.
LEMMA AuditedCalls ==
  ASSUME IInv, NEW q \in Requests, audit[q] # None
  PROVE  call[q].target \in Shifts
  <1>1. call[q] \in Calls /\ call[q].op \in {"force", "web_force"}
    BY DEF IInv, HandlersKnow
  <1> QED
    BY <1>1, CallFields

LEMMA InsertIInv == ASSUME IInv, NEW r \in Requests, Insert(r) PROVE IInv'
  <1> DEFINE u == call[r].user
  <1>1. /\ pc[r] = "insert" /\ Open(u) = {}
        /\ shifts' = [shifts EXCEPT ![r] = [NoShift EXCEPT !.user = u]]
        /\ Answer(r, "ok")
        /\ UNCHANGED <<aged, call, found, audit, jobs, failures>>
    BY DEF Insert, Admitted
  <1>2. /\ call[r] \in Calls /\ audit[r] = None /\ shifts[r] = NoShift /\ r \in Shifts
    BY <1>1 DEF IInv, HandlersKnow, Shifts
  <1>3. u \in Users /\ u # None
    BY <1>2, CallFields, ShiftsAssumption
  <1>4. /\ shifts'[r] = [user |-> u, end |-> None, by |-> None]
        /\ \A s \in Shifts \ {r} : shifts'[s] = shifts[s]
        /\ shifts' \in [Shifts -> [user : Users \cup {None}, end : EndReasons \cup {None},
                                   by : Shifts \cup Replicas \cup {None}]]
    BY <1>1, <1>2, <1>3, TableType DEF NoShift
  <1>5. /\ pc'[r] = "done" /\ \A q \in Requests \ {r} : pc'[q] = pc[q]
    BY <1>1 DEF Answer, Goto, IInv, TypeOK
  <1>6. TypeOK'
    BY <1>1, <1>4 DEF IInv, TypeOK, Answer, Goto, jobs
  <1>7. OneOpenShift'
    <2>1. \A s \in Shifts : IsOpen(s) => shifts[s].user # u
      BY <1>1, <1>3 DEF Open, IsOpen
    <2> QED
      BY <1>4, <2>1 DEF IInv, OneOpenShift, IsOpen
  <1>8. HandlersKnow'
    <2>1. \A s \in Shifts : shifts[s].user # None => shifts'[s].user # None
      BY <1>3, <1>4
    <2>2. \A q \in Requests : pc[q] = "close" => call[q].target \in Shifts
      BY CallFields DEF IInv, HandlersKnow
    <2>3. \A q \in Requests \ {r} : shifts'[q] = shifts[q]
      BY <1>4, TableType
    <2> QED
      BY <1>1, <1>2, <1>5, <2>1, <2>2, <2>3 DEF IInv, HandlersKnow
  <1>9. ForceCloseTrail'
    <2>1. \A q \in Requests : audit[q] # None => call[q].target # r
      BY <1>2 DEF IInv, ForceCloseTrail, IsEnded, NoShift
    <2>2. ASSUME NEW s \in Shifts, shifts'[s].end = "forced", s # shifts'[s].by
          PROVE  \E q \in Requests : audit[q] = "success" /\ call[q].target = s
      <3>1. s # r
        BY <1>4, <2>2, ShiftsAssumption DEF EndReasons
      <3> QED
        BY <1>4, <2>2, <3>1 DEF IInv, ForceCloseTrail
    <2>3. ASSUME NEW q \in Requests, audit[q] # None
          PROVE  shifts'[call[q].target].end # None
      <3>1. shifts[call[q].target].end # None /\ call[q].target # r
        BY <2>1, <2>3 DEF IInv, ForceCloseTrail, IsEnded
      <3>2. call[q].target \in Shifts
        BY <2>3, <3>1, AuditedCalls
      <3> QED
        BY <1>4, <3>1, <3>2
    <2> QED
      BY <1>1, <2>2, <2>3 DEF ForceCloseTrail, IsEnded
  <1>10. JobsKnow' /\ AgedExist' /\ JobEndsOnlyAged'
    BY <1>1, <1>3, <1>4, ShiftsAssumption
    DEF IInv, TypeOK, JobsKnow, AgedExist, JobEndsOnlyAged, jobs
  <1> QED
    BY <1>6, <1>7, <1>8, <1>9, <1>10 DEF IInv

-----------------------------------------------------------------------------
(***************************************************************************)
(* Request r, or a replica, ends shift s: what that leaves true of the     *)
(* others.                                                                 *)
(***************************************************************************)
LEMMA EndKeeps ==
  ASSUME IInv, NEW s \in Shifts, NEW reason \in EndReasons,
         NEW by \in Shifts \cup Replicas, End(s, reason, by),
         shifts[s].user # None
  PROVE  /\ \A q \in Requests : audit[q] # None => shifts'[call[q].target].end # None
         /\ \A q \in Requests : shifts[q] = NoShift => shifts'[q] = NoShift
         /\ reason # "forced" =>
              \A t \in Shifts : shifts'[t].end = "forced" =>
                shifts[t].end = "forced" /\ shifts'[t].by = shifts[t].by
  <1>1. ASSUME NEW q \in Requests, audit[q] # None
        PROVE  shifts'[call[q].target].end # None
    BY <1>1, AuditedCalls, EndRow DEF IInv, ForceCloseTrail, IsEnded
  <1>2. NoShift.user = None
    BY DEF NoShift
  <1>3. \A q \in Requests : shifts[q] = NoShift => q # s
    BY <1>2
  <1>4. \A q \in Requests : shifts[q] = NoShift => shifts'[q] = NoShift
    BY <1>3, EndRow, TableType
  <1> QED
    BY <1>1, <1>4, EndRow

\* What handlers know of the table survives the end of shift s by request r.
LEMMA EndHandlers ==
  ASSUME IInv, NEW s \in Shifts, NEW reason \in EndReasons, NEW r \in Requests,
         End(s, reason, r), shifts[s].user # None,
         UNCHANGED <<call, found>>,
         pc[r] \notin {"idle", "done"}, pc'[r] = "done",
         audit'[r] # None => call[r].op \in {"force", "web_force"},
         \A q \in Requests \ {r} : pc'[q] = pc[q] /\ audit'[q] = audit[q]
  PROVE  HandlersKnow'
  <1>1. r \in Shifts
    BY DEF Shifts
  <1>2. \A t \in Shifts : shifts'[t].user = shifts[t].user
    BY <1>1, EndRow
  <1>3. \A q \in Requests : shifts[q] = NoShift => shifts'[q] = NoShift
    BY <1>1, EndKeeps
  <1>4. \A q \in Requests : pc[q] = "close" => call[q].target \in Shifts
    BY CallFields DEF IInv, HandlersKnow
  <1> QED
    BY <1>2, <1>3, <1>4 DEF IInv, HandlersKnow

\* What the end of shift s leaves of the invariant, before the step's own part.
LEMMA EndInv ==
  ASSUME IInv, NEW s \in Shifts, NEW reason \in EndReasons,
         NEW by \in Shifts \cup Replicas, End(s, reason, by),
         shifts[s].user # None, aged' = aged,
         by \in Replicas => s \in aged
  PROVE  AgedExist' /\ JobEndsOnlyAged'
  <1>1. \A t \in Shifts \ {s} : shifts'[t] = shifts[t]
    BY EndRow
  <1>2. shifts'[s].by = by /\ \A t \in Shifts : shifts'[t].user = shifts[t].user
    BY EndRow
  <1>3. AgedExist'
    BY <1>2 DEF IInv, TypeOK, AgedExist
  <1>4. JobEndsOnlyAged'
    BY <1>1, <1>2 DEF IInv, JobEndsOnlyAged
  <1> QED
    BY <1>3, <1>4

LEMMA EndUpdateIInv == ASSUME IInv, NEW r \in Requests, EndUpdate(r) PROVE IInv'
  <1> DEFINE s == found[r]
  <1>1. /\ pc[r] = "update" /\ End(s, call[r].reason, r) /\ Answer(r, "ok")
        /\ UNCHANGED <<aged, call, found, audit, jobs, failures>>
    BY DEF EndUpdate
  <1>2. /\ call[r] \in Calls /\ call[r].op = "end" /\ s \in Shifts /\ shifts[s].user # None
        /\ r \in Shifts /\ audit[r] = None
    BY <1>1 DEF IInv, HandlersKnow, Shifts
  <1>3. call[r].reason \in EndReasons /\ call[r].reason # "forced"
    BY <1>2, CallFields DEF EndReasons
  <1>4. /\ pc'[r] = "done" /\ \A q \in Requests \ {r} : pc'[q] = pc[q]
    BY <1>1 DEF Answer, Goto, IInv, TypeOK
  <1>5. OneOpenShift' /\ shifts' \in [Shifts -> [user : Users \cup {None},
                                       end : EndReasons \cup {None},
                                       by : Shifts \cup Replicas \cup {None}]]
    BY <1>1, <1>2, <1>3, EndRow
  <1>6. TypeOK'
    BY <1>1, <1>5 DEF IInv, TypeOK, Answer, Goto, jobs
  <1>7. HandlersKnow'
    BY <1>1, <1>2, <1>3, <1>4, EndHandlers
  <1>8. ForceCloseTrail'
    <2>1. \A q \in Requests : audit[q] # None => shifts'[call[q].target].end # None
      BY <1>1, <1>2, <1>3, EndKeeps
    <2>2. \A t \in Shifts : shifts'[t].end = "forced" =>
            shifts[t].end = "forced" /\ shifts'[t].by = shifts[t].by
      BY <1>1, <1>2, <1>3, EndKeeps
    <2> QED
      BY <1>1, <2>1, <2>2 DEF IInv, ForceCloseTrail, IsEnded
  <1>9. JobsKnow'
    BY <1>1 DEF IInv, JobsKnow, jobs
  <1>10. AgedExist' /\ JobEndsOnlyAged'
    BY <1>1, <1>2, <1>3, EndInv, ShiftsAssumption
  <1> QED
    BY <1>5, <1>6, <1>7, <1>8, <1>9, <1>10 DEF IInv

LEMMA ForceCloseIInv == ASSUME IInv, NEW r \in Requests, ForceClose(r) PROVE IInv'
  <1> DEFINE s == call[r].target
  <1>1. /\ pc[r] = "close" /\ End(s, "forced", r) /\ Answer(r, "ok")
        /\ audit' = [audit EXCEPT ![r] = "success"]
        /\ UNCHANGED <<aged, call, found, jobs, failures>>
    BY DEF ForceClose
  <1>2. /\ call[r] \in Calls /\ call[r].op \in {"force", "web_force"}
        /\ shifts[s].user # None /\ r \in Shifts
    BY <1>1 DEF IInv, HandlersKnow, Shifts
  <1>3. s \in Shifts /\ "forced" \in EndReasons
    BY <1>2, CallFields DEF EndReasons
  <1>4. /\ pc'[r] = "done" /\ \A q \in Requests \ {r} : pc'[q] = pc[q]
        /\ audit'[r] = "success" /\ \A q \in Requests \ {r} : audit'[q] = audit[q]
    BY <1>1 DEF Answer, Goto, IInv, TypeOK
  <1>5. OneOpenShift' /\ shifts' \in [Shifts -> [user : Users \cup {None},
                                       end : EndReasons \cup {None},
                                       by : Shifts \cup Replicas \cup {None}]]
    BY <1>1, <1>2, <1>3, EndRow
  <1>6. TypeOK'
    BY <1>1, <1>5 DEF IInv, TypeOK, Answer, Goto, jobs, AuditResults
  <1>7. HandlersKnow'
    BY <1>1, <1>2, <1>3, <1>4, EndHandlers
  <1>8. ForceCloseTrail'
    <2>1. /\ \A q \in Requests : audit[q] # None => shifts'[call[q].target].end # None
          /\ shifts'[s].end # None
      BY <1>1, <1>2, <1>3, EndKeeps, EndRow, ShiftsAssumption
    <2>2. \A t \in Shifts \ {s} : shifts'[t] = shifts[t]
      BY <1>1, <1>2, <1>3, EndRow
    <2>3. ASSUME NEW t \in Shifts, shifts'[t].end = "forced", t # shifts'[t].by
          PROVE  \E q \in Requests : audit'[q] = "success" /\ call[q].target = t
      <3>1. CASE t = s
        BY <1>4, <3>1
      <3>2. CASE t # s
        <4>1. PICK q \in Requests : audit[q] = "success" /\ call[q].target = t
          BY <2>2, <2>3, <3>2 DEF IInv, ForceCloseTrail
        <4> QED
          BY <1>4, <4>1
      <3> QED
        BY <3>1, <3>2
    <2> QED
      BY <1>1, <1>4, <2>1, <2>3 DEF ForceCloseTrail, IsEnded
  <1>9. JobsKnow'
    BY <1>1 DEF IInv, JobsKnow, jobs
  <1>10. AgedExist' /\ JobEndsOnlyAged'
    BY <1>1, <1>2, <1>3, EndInv, ShiftsAssumption
  <1> QED
    BY <1>5, <1>6, <1>7, <1>8, <1>9, <1>10 DEF IInv

-----------------------------------------------------------------------------
(***************************************************************************)
(* A step of replica p that leaves the table and the requests alone: it    *)
(* only has to keep what is still to be ended aged.                        *)
(***************************************************************************)
LEMMA JobKept ==
  ASSUME IInv, NEW p \in Replicas, UNCHANGED <<table, requests>>,
         lock' \in Replicas \cup {None}, failures' \in 0..Failures,
         NEW point \in Shifts \cup {"asleep", "scan", "rows", "down"}, JobGoto(p, point),
         NEW rows \in SUBSET aged, todo' = [todo EXCEPT ![p] = rows],
         point \in Shifts => point \in aged
  PROVE  IInv'
  <1>1. UNCHANGED <<shifts, aged, pc, call, found, result, audit>>
    BY DEF table, requests
  <1>2. /\ job'[p] = point /\ \A q \in Replicas \ {p} : job'[q] = job[q]
        /\ todo'[p] = rows /\ \A q \in Replicas \ {p} : todo'[q] = todo[q]
        /\ job' \in [Replicas -> Shifts \cup {"asleep", "scan", "rows", "down"}]
    BY DEF JobGoto, IInv, TypeOK
  <1>3. todo' \in [Replicas -> SUBSET Shifts]
    BY DEF IInv, TypeOK
  <1>4. TypeOK'
    BY <1>1, <1>2, <1>3 DEF IInv, TypeOK
  <1>5. JobsKnow'
    BY <1>1, <1>2 DEF IInv, JobsKnow
  <1>6. OneOpenShift' /\ ForceCloseTrail' /\ AgedExist' /\ JobEndsOnlyAged'
    BY <1>1
    DEF IInv, OneOpenShift, IsOpen, ForceCloseTrail, IsEnded, AgedExist, JobEndsOnlyAged
  <1>7. HandlersKnow'
    BY <1>1 DEF IInv, HandlersKnow
  <1> QED
    BY <1>4, <1>5, <1>6, <1>7 DEF IInv

LEMMA JobIInv ==
  ASSUME IInv, NEW p \in Replicas,
         TryLock(p) \/ Scan(p) \/ Unlock(p) \/ ScanFails(p) \/ Crash(p) \/ Restart(p)
  PROVE  IInv'
  <1>1. /\ todo[p] \in SUBSET aged
        /\ todo = [todo EXCEPT ![p] = todo[p]]
        /\ lock \in Replicas \cup {None}
        /\ failures \in 0..Failures /\ Failures \in Nat
        /\ aged \in SUBSET Shifts
    BY ShiftsAssumption DEF IInv, TypeOK, JobsKnow
  <1>2. failures' \in 0..Failures /\ lock' \in Replicas \cup {None}
    BY <1>1 DEF TryLock, Scan, Unlock, ScanFails, Crash, Restart
  <1>3. /\ "asleep" \notin Shifts /\ "scan" \notin Shifts
        /\ "rows" \notin Shifts /\ "down" \notin Shifts
    BY ShiftsAssumption
  <1>4. CASE TryLock(p)
    BY <1>1, <1>2, <1>3, <1>4, JobKept DEF TryLock
  <1>5. CASE Scan(p)
    <2>1. {s \in aged : IsOpen(s)} \in SUBSET aged
      OBVIOUS
    <2> QED
      BY <1>2, <1>3, <1>5, <2>1, JobKept DEF Scan
  <1>6. CASE Unlock(p)
    BY <1>1, <1>2, <1>3, <1>6, JobKept DEF Unlock
  <1>7. CASE ScanFails(p)
    BY <1>1, <1>2, <1>3, <1>7, JobKept DEF ScanFails
  <1>8. CASE Crash(p)
    <2>1. {} \in SUBSET aged
      OBVIOUS
    <2>2. /\ UNCHANGED <<table, requests>> /\ JobGoto(p, "down")
          /\ todo' = [todo EXCEPT ![p] = {}]
      BY <1>8 DEF Crash
    <2> QED
      BY <1>2, <1>3, <2>1, <2>2, JobKept
  <1>9. CASE Restart(p)
    BY <1>1, <1>2, <1>3, <1>9, JobKept DEF Restart
  <1> QED
    BY <1>4, <1>5, <1>6, <1>7, <1>8, <1>9

LEMMA RowIInv ==
  ASSUME IInv, NEW p \in Replicas, NEW s \in Shifts,
         RowOpen(p, s) \/ RowVanished(p, s) \/ RowFails(p, s)
  PROVE  IInv'
  <1>1. /\ todo[p] \in SUBSET aged
        /\ todo = [todo EXCEPT ![p] = todo[p]]
        /\ job = [job EXCEPT ![p] = job[p]]
        /\ lock \in Replicas \cup {None}
        /\ failures \in 0..Failures /\ Failures \in Nat
    BY ShiftsAssumption DEF IInv, TypeOK, JobsKnow
  <1>2. failures' \in 0..Failures /\ lock' \in Replicas \cup {None}
    BY <1>1 DEF RowOpen, RowVanished, RowFails
  <1>3. "rows" \notin Shifts
    BY ShiftsAssumption
  <1>4. CASE RowOpen(p, s)
    <2>1. s \in aged
      BY <1>1, <1>4 DEF RowOpen
    <2> QED
      BY <1>1, <1>2, <1>4, <2>1, JobKept DEF RowOpen
  <1>5. todo[p] \ {s} \in SUBSET aged
    BY <1>1
  <1>6. CASE RowVanished(p, s)
    <2>1. JobGoto(p, "rows")
      BY <1>1, <1>6 DEF RowVanished, JobGoto
    <2> QED
      BY <1>2, <1>3, <1>5, <1>6, <2>1, JobKept DEF RowVanished
  <1>7. CASE RowFails(p, s)
    BY <1>2, <1>3, <1>5, <1>7, JobKept DEF RowFails
  <1> QED
    BY <1>4, <1>6, <1>7

LEMMA RowEndIInv ==
  ASSUME IInv, NEW p \in Replicas, NEW s \in Shifts, RowEnd(p, s)
  PROVE  IInv'
  <1>1. /\ job[p] = s /\ End(s, "auto_timeout", p)
        /\ todo' = [todo EXCEPT ![p] = @ \ {s}]
        /\ JobGoto(p, "rows")
        /\ UNCHANGED <<aged, pc, call, found, result, audit, lock, failures>>
    BY DEF RowEnd, requests
  <1>2. s \in aged /\ shifts[s].user # None
    BY <1>1 DEF IInv, JobsKnow, AgedExist
  <1>3. "auto_timeout" \in EndReasons /\ "auto_timeout" # "forced"
    BY DEF EndReasons
  <1>4. /\ OneOpenShift'
        /\ shifts' \in [Shifts -> [user : Users \cup {None}, end : EndReasons \cup {None},
                                   by : Shifts \cup Replicas \cup {None}]]
        /\ \A t \in Shifts : shifts'[t].user = shifts[t].user
    BY <1>1, <1>3, EndRow
  <1>5. /\ \A q \in Requests : audit[q] # None => shifts'[call[q].target].end # None
        /\ \A q \in Requests : shifts[q] = NoShift => shifts'[q] = NoShift
        /\ \A t \in Shifts : shifts'[t].end = "forced" =>
             shifts[t].end = "forced" /\ shifts'[t].by = shifts[t].by
    BY <1>1, <1>2, <1>3, EndKeeps
  <1>6. /\ job'[p] = "rows" /\ \A q \in Replicas \ {p} : job'[q] = job[q]
        /\ todo'[p] = todo[p] \ {s} /\ \A q \in Replicas \ {p} : todo'[q] = todo[q]
    BY <1>1 DEF JobGoto, IInv, TypeOK
  <1>7. TypeOK'
    BY <1>1, <1>4 DEF IInv, TypeOK, JobGoto
  <1>8. HandlersKnow'
    <2>1. \A q \in Requests : pc[q] = "close" => call[q].target \in Shifts
      BY CallFields DEF IInv, HandlersKnow
    <2> QED
      BY <1>1, <1>4, <1>5, <2>1 DEF IInv, HandlersKnow
  <1>9. ForceCloseTrail'
    BY <1>1, <1>5 DEF IInv, ForceCloseTrail, IsEnded
  <1>10. JobsKnow'
    BY <1>1, <1>6, ShiftsAssumption DEF IInv, JobsKnow
  <1>11. AgedExist' /\ JobEndsOnlyAged'
    BY <1>1, <1>2, <1>3, EndInv
  <1> QED
    BY <1>4, <1>7, <1>8, <1>9, <1>10, <1>11 DEF IInv

LEMMA AgeIInv == ASSUME IInv, NEW s \in Shifts, Age(s) PROVE IInv'
  <1>1. /\ shifts[s].user # None /\ aged' = aged \cup {s}
        /\ UNCHANGED <<shifts, pc, call, found, result, audit, lock, job, todo, failures>>
    BY DEF Age, IsOpen, requests, jobs
  <1>2. TypeOK'
    BY <1>1 DEF IInv, TypeOK
  <1>3. HandlersKnow'
    BY <1>1 DEF IInv, HandlersKnow
  <1>4. OneOpenShift' /\ ForceCloseTrail' /\ JobsKnow' /\ AgedExist' /\ JobEndsOnlyAged'
    BY <1>1
    DEF IInv, OneOpenShift, IsOpen, ForceCloseTrail, IsEnded, JobsKnow, AgedExist,
        JobEndsOnlyAged
  <1> QED
    BY <1>2, <1>3, <1>4 DEF IInv

-----------------------------------------------------------------------------
LEMMA NextIInv == IInv /\ [Next]_vars => IInv'
  <1> SUFFICES ASSUME IInv, [Next]_vars PROVE IInv'
    OBVIOUS
  <1>1. CASE UNCHANGED vars
    <2>1. UNCHANGED <<shifts, aged, pc, call, found, result, audit, lock, job, todo, failures>>
      BY <1>1 DEF vars, table, requests, jobs
    <2>2. TypeOK' /\ HandlersKnow'
      BY <2>1 DEF IInv, TypeOK, HandlersKnow
    <2>3. OneOpenShift' /\ ForceCloseTrail' /\ JobsKnow' /\ AgedExist' /\ JobEndsOnlyAged'
      BY <2>1
      DEF IInv, OneOpenShift, IsOpen, ForceCloseTrail, IsEnded, JobsKnow, AgedExist,
          JobEndsOnlyAged
    <2> QED
      BY <2>2, <2>3 DEF IInv
  <1>2. ASSUME NEW r \in Requests, Send(r) \/ Handle(r) \/ RequestFails(r)
        PROVE  IInv'
    BY <1>2, SendIInv, StartIInv, InsertIInv, SelectIInv, EndUpdateIInv, TargetIInv,
       ForceCloseIInv DEF Handle
  <1>3. ASSUME NEW s \in Shifts, Age(s) PROVE IInv'
    BY <1>3, AgeIInv
  <1>4. ASSUME NEW p \in Replicas,
               \/ Iterate(p) \/ ScanFails(p) \/ Crash(p) \/ Restart(p)
               \/ \E s \in Shifts : RowFails(p, s)
        PROVE  IInv'
    BY <1>4, JobIInv, RowIInv, RowEndIInv DEF Iterate
  <1> QED
    BY <1>1, <1>2, <1>3, <1>4 DEF Next

LEMMA IInvInvariant == Spec => []IInv
  BY InitIInv, NextIInv, PTL DEF Spec

-----------------------------------------------------------------------------
(***************************************************************************)
(* No interleaving of starts, ends, force-closes and jobs opens a second   *)
(* shift for a user (ShiftSessionService.start, the partial index).        *)
(***************************************************************************)
THEOREM NoSecondShift == Spec => []OneOpenShift
  <1>1. IInv => OneOpenShift
    BY DEF IInv
  <1> QED
    BY <1>1, IInvInvariant, PTL

(***************************************************************************)
(* The audit rows of force_close_session and of the page's force-close     *)
(* agree with the table, although neither locks the row between reading    *)
(* and ending it.                                                          *)
(***************************************************************************)
THEOREM TrailOfForceClose == Spec => []ForceCloseTrail
  <1>1. IInv => ForceCloseTrail
    BY DEF IInv
  <1> QED
    BY <1>1, IInvInvariant, PTL

(***************************************************************************)
(* The auto-end job ends no shift younger than the threshold, whatever     *)
(* happened to the shifts between its scan and its UPDATE.                 *)
(***************************************************************************)
THEOREM JobSparesYoung == Spec => []JobEndsOnlyAged
  <1>1. IInv => JobEndsOnlyAged
    BY DEF IInv
  <1> QED
    BY <1>1, IInvInvariant, PTL

(***************************************************************************)
(* Rows, handlers and jobs keep to their types: in particular end_reason   *)
(* is only ever one of the three reasons.                                  *)
(***************************************************************************)
THEOREM TypesKept == Spec => []TypeOK
  <1>1. IInv => TypeOK
    BY DEF IInv
  <1> QED
    BY <1>1, IInvInvariant, PTL
=============================================================================
