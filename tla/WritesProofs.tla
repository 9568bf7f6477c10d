---------------------------- MODULE WritesProofs ----------------------------
(***************************************************************************)
(* Theorems of DeviceWrites, for any number of writes, any threshold of    *)
(* the circuit breaker and any failures.  The strengthening (Progress)     *)
(* says at each control point how the effects in NetBox compare with those *)
(* whose answers were lost: equal until an answer comes, one more after.   *)
(***************************************************************************)
EXTENDS DeviceWrites, TLAPS

\* The outcome of r agrees with what NetBox did.
Settled(r) ==
  /\ answer[r] = "ok" => made[r] = lost[r] + 1
  /\ answer[r] # "ok" => made[r] = lost[r]
  /\ answer[r] = "conflict" => made[r] = 0

Progress(r) ==
  /\ at[r] \in {"idle", "get"} => made[r] = 0 /\ lost[r] = 0
  /\ at[r] \in {"patch", "post"} =>
       made[r] = lost[r] /\ (made[r] < tries[r] \/ made[r] = 0)
  /\ at[r] = "journal" => made[r] = lost[r] + 1
  /\ at[r] \notin {"audit", "done"} => answer[r] = None
  /\ at[r] = "audit" => answer[r] \in Answers
  /\ at[r] = "done" => answer[r] \in Answers \cup {"crashed"}
  /\ answer[r] \in Answers => Settled(r)
  /\ made[r] \in {lost[r], lost[r] + 1}
  /\ at[r] # "done" \/ answer[r] = "crashed" => trail[r] = {}
  /\ trail[r] \subseteq {Row(answer[r])}
  /\ at[r] \notin Calls => tries[r] = 0

Breaker ==
  /\ breaker.failures <= outage
  /\ OpensOnOutage

IInv ==
  /\ TypeOK
  /\ Breaker
  /\ \A r \in Requests : Progress(r)

Locals(r) == <<at[r], tries[r], answer[r], trail[r], made[r], lost[r]>>

-----------------------------------------------------------------------------
LEMMA InitIInv == Init => IInv
  BY WritesAssumption, NoneAssumption, SMT DEF Init, IInv, TypeOK, Breaker, OpensOnOutage, Opened,
     Progress, Settled, Calls, Kinds, Answers, MaxAttempts

\* A step that leaves the locals of a request alone leaves its progress alone.
LEMMA Frame ==
  ASSUME NEW r \in Requests, Progress(r), UNCHANGED Locals(r)
  PROVE  Progress(r)'
  BY DEF Progress, Settled, Locals, Row

\* A call that ends keeps the breaker's count below the outage's.
LEMMA EndedBreaker ==
  ASSUME NEW end \in {"ok", "refused", "unreached", "unsupported"},
         TypeOK, Breaker, Ended(end)
  PROVE  /\ Breaker'
         /\ breaker' \in [state : {"closed", "open", "half_open"}, failures : 0 .. Threshold]
         /\ outage' \in 0 .. Threshold
  BY WritesAssumption, SMT DEF Ended, Counted, TypeOK, Breaker, OpensOnOutage, Opened

LEMMA SameBreaker ==
  ASSUME TypeOK, Breaker, UNCHANGED circuit
  PROVE  /\ Breaker'
         /\ breaker' \in [state : {"closed", "open", "half_open"}, failures : 0 .. Threshold]
         /\ outage' \in 0 .. Threshold
  BY DEF TypeOK, Breaker, OpensOnOutage, Opened, circuit

\* What a call leads to: the request's next control point, by what raised or
\* returned.
LEMMA RaisedMoves ==
  ASSUME NEW r \in Requests, TypeOK, NEW res \in Answers \ {"ok", "conflict"}, Raised(r, res)
  PROVE  /\ at' = [at EXCEPT ![r] = "audit"]
         /\ tries' = [tries EXCEPT ![r] = 0]
         /\ answer' = [answer EXCEPT ![r] = IF at[r] = "journal" THEN "ok" ELSE res]
  BY DEF Raised, Conclude, Goto

LEMMA ReturnedMoves ==
  ASSUME NEW r \in Requests, TypeOK, UnderWay(r), Returned(r)
  PROVE  /\ tries' = [tries EXCEPT ![r] = 0]
         /\ \/ /\ at[r] = "get"
               /\ at' = [at EXCEPT ![r] = "patch"]
               /\ UNCHANGED answer
            \/ /\ at[r] = "get"
               /\ at' = [at EXCEPT ![r] = "audit"]
               /\ answer' = [answer EXCEPT ![r] = "conflict"]
            \/ /\ at[r] \in {"patch", "post"}
               /\ at' = [at EXCEPT ![r] = "journal"]
               /\ UNCHANGED answer
            \/ /\ at[r] \in {"post", "journal"}
               /\ at' = [at EXCEPT ![r] = "audit"]
               /\ answer' = [answer EXCEPT ![r] = "ok"]
  <1>1. CASE at[r] = "get" /\ fresh[r]
    BY <1>1 DEF Returned, Goto
  <1>2. CASE at[r] = "get" /\ ~fresh[r]
    BY <1>2 DEF Returned, Conclude, Goto
  <1>3. CASE at[r] = "patch" \/ (at[r] = "post" /\ kind[r] = "create")
    BY <1>3 DEF Returned, Goto
  <1>4. CASE at[r] = "journal" \/ (at[r] = "post" /\ kind[r] # "create")
    BY <1>4 DEF Returned, Conclude, Goto
  <1> QED
    BY <1>1, <1>2, <1>3, <1>4 DEF UnderWay, Calls, TypeOK

LEMMA TryAgainMoves ==
  ASSUME NEW r \in Requests, TypeOK, Breaker, TryAgain(r)
  PROVE  /\ Breaker'
         /\ breaker' \in [state : {"closed", "open", "half_open"}, failures : 0 .. Threshold]
         /\ outage' \in 0 .. Threshold
         /\ \/ /\ tries[r] < MaxAttempts
               /\ tries' = [tries EXCEPT ![r] = @ + 1]
               /\ UNCHANGED <<at, answer>>
            \/ /\ ~(tries[r] < MaxAttempts)
               /\ at' = [at EXCEPT ![r] = "audit"]
               /\ tries' = [tries EXCEPT ![r] = 0]
               /\ answer' = [answer EXCEPT ![r] = IF at[r] = "journal" THEN "ok" ELSE "failed"]
  <1>1. CASE tries[r] < MaxAttempts
    BY <1>1, SameBreaker DEF TryAgain
  <1>2. CASE ~(tries[r] < MaxAttempts)
    <2>1. Ended("unreached") /\ Raised(r, "failed")
      BY <1>2 DEF TryAgain
    <2> QED
      BY <1>2, <2>1, EndedBreaker, RaisedMoves DEF Answers
  <1> QED
    BY <1>1, <1>2

-----------------------------------------------------------------------------
LEMMA ArriveIInv ==
  ASSUME IInv, NEW q \in Requests, Arrive(q)
  PROVE  IInv'
  <1> USE DEF IInv
  <1>1. PICK k \in Kinds : /\ kind' = [kind EXCEPT ![q] = k]
                           /\ at' = [at EXCEPT ![q] = IF k = "update" THEN "get" ELSE "post"]
    BY DEF Arrive
  <1>2. TypeOK' /\ Breaker'
    BY <1>1, SameBreaker DEF Arrive, TypeOK, Calls, circuit
  <1>3. Progress(q)'
    BY <1>1, NoneAssumption DEF Arrive, TypeOK, Progress, Settled, Calls
  <1>4. ASSUME NEW r \in Requests, r # q PROVE Progress(r)'
    BY <1>1, <1>4, Frame DEF Arrive, Locals, TypeOK
  <1> QED
    BY <1>2, <1>3, <1>4

LEMMA EnterIInv ==
  ASSUME IInv, NEW q \in Requests, Enter(q)
  PROVE  IInv'
  <1> USE DEF IInv
  <1>1. CASE Opened
    <2>1. Raised(q, "circuit_open")
      BY <1>1 DEF Enter
    <2>2. /\ at' = [at EXCEPT ![q] = "audit"]
          /\ tries' = [tries EXCEPT ![q] = 0]
          /\ answer' = [answer EXCEPT ![q] = IF at[q] = "journal" THEN "ok" ELSE "circuit_open"]
      BY <2>1, RaisedMoves DEF Answers
    <2>3. TypeOK' /\ Breaker'
      BY <2>2, SameBreaker DEF Enter, TypeOK, Calls, Answers, circuit, netbox, MaxAttempts
    <2>4. Progress(q)'
      BY <2>2, NoneAssumption, SMT
      DEF Enter, TypeOK, Progress, Settled, Calls, Answers, netbox, MaxAttempts
    <2>5. ASSUME NEW r \in Requests, r # q PROVE Progress(r)'
      BY <2>2, <2>5, Frame DEF Enter, Locals, TypeOK, netbox
    <2> QED
      BY <2>3, <2>4, <2>5
  <1>2. CASE ~Opened
    <2>1. tries' = [tries EXCEPT ![q] = 1] /\ UNCHANGED <<at, answer>>
      BY <1>2 DEF Enter
    <2>2. TypeOK' /\ Breaker'
      BY <2>1, SameBreaker DEF Enter, TypeOK, circuit, netbox, MaxAttempts
    <2>3. Progress(q)'
      BY <2>1, SMT DEF Enter, TypeOK, Progress, Settled, Calls, Row, netbox, MaxAttempts
    <2>4. ASSUME NEW r \in Requests, r # q PROVE Progress(r)'
      BY <2>1, <2>4, Frame DEF Enter, Locals, TypeOK, netbox
    <2> QED
      BY <2>2, <2>3, <2>4
  <1> QED
    BY <1>1, <1>2

LEMMA RefusedIInv ==
  ASSUME IInv, NEW q \in Requests, Refused(q)
  PROVE  IInv'
  <1> USE DEF IInv
  <1>1. /\ at' = [at EXCEPT ![q] = "audit"]
        /\ tries' = [tries EXCEPT ![q] = 0]
        /\ answer' = [answer EXCEPT ![q] = IF at[q] = "journal" THEN "ok" ELSE "refused"]
    BY RaisedMoves DEF Refused, Answers
  <1>2. TypeOK' /\ Breaker'
    <2>1. Ended("refused")
      BY DEF Refused
    <2> QED
      BY <1>1, <2>1, EndedBreaker DEF Refused, TypeOK, Answers, netbox, MaxAttempts
  <1>3. Progress(q)'
    BY <1>1, NoneAssumption, SMT
    DEF Refused, UnderWay, TypeOK, Progress, Settled, Calls, Answers, netbox, MaxAttempts
  <1>4. ASSUME NEW r \in Requests, r # q PROVE Progress(r)'
    BY <1>1, <1>4, Frame DEF Refused, Locals, TypeOK, netbox
  <1> QED
    BY <1>2, <1>3, <1>4

LEMMA UnsupportedIInv ==
  ASSUME IInv, NEW q \in Requests, Unsupported(q)
  PROVE  IInv'
  <1> USE DEF IInv
  <1>1. /\ at' = [at EXCEPT ![q] = "audit"]
        /\ tries' = [tries EXCEPT ![q] = 0]
        /\ answer' = [answer EXCEPT ![q] = IF at[q] = "journal" THEN "ok" ELSE "failed"]
    BY RaisedMoves DEF Unsupported, Answers
  <1>2. TypeOK' /\ Breaker'
    <2>1. Ended("unsupported")
      BY DEF Unsupported
    <2> QED
      BY <1>1, <2>1, EndedBreaker DEF Unsupported, TypeOK, Answers, netbox, MaxAttempts
  <1>3. Progress(q)'
    BY <1>1, NoneAssumption, SMT
    DEF Unsupported, UnderWay, TypeOK, Progress, Settled, Calls, Answers, netbox, MaxAttempts
  <1>4. ASSUME NEW r \in Requests, r # q PROVE Progress(r)'
    BY <1>1, <1>4, Frame DEF Unsupported, Locals, TypeOK, netbox
  <1> QED
    BY <1>2, <1>3, <1>4

LEMMA AnsweredIInv ==
  ASSUME IInv, NEW q \in Requests, Answered(q)
  PROVE  IInv'
  <1> USE DEF IInv
  <1>1. Returned(q) /\ UnderWay(q) /\ Effect(q) /\ Ended("ok") /\ UNCHANGED <<kind, trail, lost>>
    BY DEF Answered
  <1>2. /\ made' = IF at[q] \in {"patch", "post"} THEN [made EXCEPT ![q] = @ + 1] ELSE made
        /\ fresh' \in [Requests -> BOOLEAN]
    BY <1>1 DEF Effect, TypeOK
  <1>3. /\ at[q] \in {"patch", "post"} => made[q] < MaxAttempts
        /\ at[q] \in Calls /\ answer[q] = None /\ trail[q] = {}
    BY <1>1, SMT DEF UnderWay, Progress, TypeOK, MaxAttempts, Calls
  <1>4. TypeOK' /\ Breaker'
    <2>1. made' \in [Requests -> 0 .. MaxAttempts]
      BY <1>2, <1>3, SMT DEF TypeOK, MaxAttempts
    <2>2. /\ at' \in [Requests -> Calls \cup {"idle", "audit", "done"}]
          /\ tries' \in [Requests -> 0 .. MaxAttempts]
          /\ answer' \in [Requests -> Answers \cup {None, "crashed"}]
      BY <1>1, ReturnedMoves, SMT DEF TypeOK, Calls, Answers, MaxAttempts
    <2> QED
      BY <1>1, <1>2, <2>1, <2>2, EndedBreaker DEF TypeOK
  <1>5. Progress(q)'
    <2>1. made'[q] = IF at[q] \in {"patch", "post"} THEN made[q] + 1 ELSE made[q]
      BY <1>2 DEF TypeOK
    <2>2. lost'[q] = lost[q] /\ trail'[q] = {} /\ tries'[q] = 0
      BY <1>1, <1>3, ReturnedMoves DEF TypeOK
    <2>3. CASE at[q] = "get" /\ at'[q] = "patch" /\ answer'[q] = None
      BY <2>1, <2>2, <2>3, NoneAssumption, SMT DEF Progress, Settled, Calls, TypeOK
    <2>4. CASE at[q] = "get" /\ at'[q] = "audit" /\ answer'[q] = "conflict"
      BY <2>1, <2>2, <2>4, SMT DEF Progress, Settled, Calls, Answers, TypeOK
    <2>5. CASE at[q] \in {"patch", "post"} /\ at'[q] = "journal" /\ answer'[q] = None
      BY <2>1, <2>2, <2>5, NoneAssumption, SMT DEF Progress, Settled, Calls, TypeOK
    <2>6. CASE at[q] \in {"post", "journal"} /\ at'[q] = "audit" /\ answer'[q] = "ok"
      BY <2>1, <2>2, <2>6, SMT DEF Progress, Settled, Calls, Answers, TypeOK
    <2> QED
      BY <1>1, <1>3, <2>3, <2>4, <2>5, <2>6, ReturnedMoves DEF TypeOK
  <1>6. ASSUME NEW r \in Requests, r # q PROVE Progress(r)'
    <2>1. UNCHANGED Locals(r)
      BY <1>1, <1>2, <1>6, ReturnedMoves DEF Locals, TypeOK
    <2> QED
      BY <2>1, Frame
  <1> QED
    BY <1>4, <1>5, <1>6

LEMMA UnreadableIInv ==
  ASSUME IInv, NEW q \in Requests, Unreadable(q)
  PROVE  IInv'
  <1> USE DEF IInv
  <1>1. /\ UnderWay(q) /\ at[q] # "journal" /\ Effect(q) /\ Ended("ok")
        /\ UNCHANGED <<kind, trail>>
    BY DEF Unreadable
  <1>2. /\ made' = IF at[q] \in {"patch", "post"} THEN [made EXCEPT ![q] = @ + 1] ELSE made
        /\ lost' = IF at[q] \in {"patch", "post"} THEN [lost EXCEPT ![q] = @ + 1] ELSE lost
        /\ fresh' \in [Requests -> BOOLEAN]
    BY <1>1 DEF Unreadable, Effect, Untold, TypeOK
  <1>3. /\ \E step \in {"audit", "done"} : at' = [at EXCEPT ![q] = step]
        /\ tries' = [tries EXCEPT ![q] = 0]
        /\ answer' = [answer EXCEPT ![q] = "failed"]
    BY DEF Unreadable, Goto
  <1>4. /\ at[q] \in {"get", "patch", "post"} /\ made[q] = lost[q] /\ trail[q] = {}
        /\ at[q] \in {"patch", "post"} => made[q] < MaxAttempts
    BY <1>1, SMT DEF UnderWay, Progress, TypeOK, MaxAttempts, Calls
  <1>5. TypeOK' /\ Breaker'
    <2>1. made' \in [Requests -> 0 .. MaxAttempts] /\ lost' \in [Requests -> 0 .. MaxAttempts]
      BY <1>2, <1>4, SMT DEF TypeOK, MaxAttempts
    <2>2. /\ at' \in [Requests -> Calls \cup {"idle", "audit", "done"}]
          /\ tries' \in [Requests -> 0 .. MaxAttempts]
          /\ answer' \in [Requests -> Answers \cup {None, "crashed"}]
      BY <1>3, SMT DEF TypeOK, Answers, MaxAttempts
    <2> QED
      BY <1>1, <1>2, <2>1, <2>2, EndedBreaker DEF TypeOK
  <1>6. Progress(q)'
    <2>1. /\ made'[q] = lost'[q] /\ trail'[q] = {} /\ tries'[q] = 0
          /\ at'[q] \in {"audit", "done"} /\ answer'[q] = "failed"
      BY <1>1, <1>2, <1>3, <1>4 DEF TypeOK
    <2> QED
      BY <2>1 DEF Progress, Settled, Calls, Answers
  <1>7. ASSUME NEW r \in Requests, r # q PROVE Progress(r)'
    <2>1. UNCHANGED Locals(r)
      BY <1>1, <1>2, <1>3, <1>7 DEF Locals, TypeOK
    <2> QED
      BY <2>1, Frame
  <1> QED
    BY <1>5, <1>6, <1>7

LEMMA UnreachedIInv ==
  ASSUME IInv, NEW q \in Requests, Unreached(q)
  PROVE  IInv'
  <1> USE DEF IInv
  <1>1. TryAgain(q) /\ UnderWay(q) /\ UNCHANGED <<kind, trail, netbox>>
    BY DEF Unreached
  <1>2. TypeOK' /\ Breaker'
    BY <1>1, TryAgainMoves, SMT DEF TypeOK, Answers, netbox, MaxAttempts
  <1>3. Progress(q)'
    BY <1>1, TryAgainMoves, NoneAssumption, SMT
    DEF UnderWay, TypeOK, Progress, Settled, Calls, Answers, Row, netbox, MaxAttempts
  <1>4. ASSUME NEW r \in Requests, r # q PROVE Progress(r)'
    BY <1>1, <1>4, TryAgainMoves, Frame DEF Locals, TypeOK, netbox
  <1> QED
    BY <1>2, <1>3, <1>4

LEMMA AnswerLostIInv ==
  ASSUME IInv, NEW q \in Requests, AnswerLost(q)
  PROVE  IInv'
  <1> USE DEF IInv
  <1>1. TryAgain(q) /\ UnderWay(q) /\ Effect(q) /\ UNCHANGED <<kind, trail>>
    BY DEF AnswerLost
  <1>2. /\ made' = IF at[q] \in {"patch", "post"} THEN [made EXCEPT ![q] = @ + 1] ELSE made
        /\ lost' = IF at[q] \in {"patch", "post"} THEN [lost EXCEPT ![q] = @ + 1] ELSE lost
        /\ fresh' \in [Requests -> BOOLEAN]
    BY <1>1 DEF AnswerLost, Effect, Untold, TypeOK
  <1>3. /\ at[q] \in {"patch", "post"} =>
             made[q] < MaxAttempts /\ made[q] = lost[q] /\ made[q] < tries[q]
        /\ at[q] \in Calls /\ answer[q] = None /\ trail[q] = {}
    BY <1>1, SMT DEF UnderWay, Progress, TypeOK, MaxAttempts, Calls
  <1>4. TypeOK' /\ Breaker'
    <2>1. made' \in [Requests -> 0 .. MaxAttempts] /\ lost' \in [Requests -> 0 .. MaxAttempts]
      BY <1>2, <1>3, SMT DEF TypeOK, MaxAttempts
    <2>2. /\ at' \in [Requests -> Calls \cup {"idle", "audit", "done"}]
          /\ tries' \in [Requests -> 0 .. MaxAttempts]
          /\ answer' \in [Requests -> Answers \cup {None, "crashed"}]
      BY <1>1, TryAgainMoves, SMT DEF TypeOK, Answers, MaxAttempts
    <2> QED
      BY <1>1, <1>2, <2>1, <2>2, TryAgainMoves DEF TypeOK
  <1>5. Progress(q)'
    <2>1. /\ made'[q] = IF at[q] \in {"patch", "post"} THEN made[q] + 1 ELSE made[q]
          /\ lost'[q] = IF at[q] \in {"patch", "post"} THEN lost[q] + 1 ELSE lost[q]
          /\ trail'[q] = {}
      BY <1>1, <1>2, <1>3 DEF TypeOK
    <2>2. CASE at'[q] = at[q] /\ tries'[q] = tries[q] + 1 /\ answer'[q] = None
      BY <1>3, <2>1, <2>2, NoneAssumption, SMT DEF Progress, Settled, Calls, TypeOK
    <2>3. CASE /\ at'[q] = "audit" /\ tries'[q] = 0
               /\ answer'[q] = IF at[q] = "journal" THEN "ok" ELSE "failed"
      BY <1>3, <2>1, <2>3, SMT DEF Progress, Settled, Calls, Answers, TypeOK
    <2> QED
      BY <1>1, <1>3, <2>2, <2>3, TryAgainMoves DEF TypeOK
  <1>6. ASSUME NEW r \in Requests, r # q PROVE Progress(r)'
    <2>1. UNCHANGED Locals(r)
      BY <1>1, <1>2, <1>6, TryAgainMoves DEF Locals, TypeOK
    <2> QED
      BY <2>1, Frame
  <1> QED
    BY <1>4, <1>5, <1>6

LEMMA RecordAuditIInv ==
  ASSUME IInv, NEW q \in Requests, RecordAudit(q)
  PROVE  IInv'
  <1> USE DEF IInv
  <1>1. /\ at[q] = "audit"
        /\ at' = [at EXCEPT ![q] = "done"]
        /\ trail' = trail \/ trail' = [trail EXCEPT ![q] = @ \cup {Row(answer[q])}]
        /\ UNCHANGED <<kind, tries, answer, netbox, circuit>>
    BY DEF RecordAudit
  <1>2. TypeOK' /\ Breaker'
    <2>1. Row(answer[q]) \in {"success", "failure", "conflict"}
      BY DEF Row
    <2>2. trail' \in [Requests -> SUBSET {"success", "failure", "conflict"}]
      BY <1>1, <2>1 DEF TypeOK
    <2> QED
      BY <1>1, <2>2, SameBreaker DEF TypeOK, netbox
  <1>3. Progress(q)'
    <2>1. trail'[q] \subseteq {Row(answer'[q])}
      BY <1>1 DEF Progress, TypeOK
    <2> QED
      BY <1>1, <2>1, NoneAssumption DEF Progress, Settled, Calls, Answers, TypeOK, netbox
  <1>4. ASSUME NEW r \in Requests, r # q PROVE Progress(r)'
    BY <1>1, <1>4, Frame DEF Locals, TypeOK, netbox
  <1> QED
    BY <1>2, <1>3, <1>4

LEMMA CrashIInv ==
  ASSUME IInv, Crash
  PROVE  IInv'
  <1> USE DEF IInv
  <1>1. \A r \in Requests :
          \/ /\ at[r] \notin {"idle", "done"}
             /\ at'[r] = "done" /\ answer'[r] = "crashed"
          \/ /\ at[r] \in {"idle", "done"}
             /\ at'[r] = at[r] /\ answer'[r] = answer[r]
    BY DEF Crash
  <1>2. TypeOK' /\ Breaker'
    BY WritesAssumption, SMT
    DEF Crash, TypeOK, Breaker, OpensOnOutage, Opened, netbox, MaxAttempts
  <1>3. ASSUME NEW r \in Requests PROVE Progress(r)'
    <2>1. tries'[r] = 0 /\ UNCHANGED <<trail[r], made[r], lost[r]>>
      BY DEF Crash, netbox
    <2> QED
      BY <1>1, <2>1, NoneAssumption DEF Progress, Settled, Calls, Answers, TypeOK, Row
  <1> QED
    BY <1>2, <1>3

\* Steps of the breaker alone.
LEMMA BreakerIInv ==
  ASSUME IInv, OtherCallEnds \/ RecoveryElapses
  PROVE  IInv'
  <1> USE DEF IInv
  <1>1. UNCHANGED <<at, kind, tries, fresh, answer, trail, made, lost>>
    BY DEF OtherCallEnds, RecoveryElapses
  <1>2. TypeOK' /\ Breaker'
    <2>1. CASE OtherCallEnds
      <3>1. PICK end \in {"ok"} \cup (Faults \cap {"refused", "unreached", "unsupported"}) : Ended(end)
        BY <2>1 DEF OtherCallEnds
      <3> QED
        BY <1>1, <3>1, EndedBreaker DEF TypeOK
    <2>2. CASE RecoveryElapses
      BY <1>1, <2>2, SMT DEF RecoveryElapses, TypeOK, Breaker, OpensOnOutage, Opened
    <2> QED
      BY <2>1, <2>2
  <1>3. ASSUME NEW r \in Requests PROVE Progress(r)'
    BY <1>1, Frame DEF Locals
  <1> QED
    BY <1>2, <1>3

LEMMA NextIInv == IInv /\ [Next]_vars => IInv'
  <1> SUFFICES ASSUME IInv, [Next]_vars PROVE IInv'
    OBVIOUS
  <1>1. CASE UNCHANGED vars
    <2>1. TypeOK' /\ Breaker'
      BY <1>1, SameBreaker DEF IInv, TypeOK, vars, circuit
    <2>2. ASSUME NEW r \in Requests PROVE Progress(r)'
      BY <1>1, Frame DEF IInv, Locals, vars
    <2> QED
      BY <2>1, <2>2 DEF IInv
  <1>2. ASSUME NEW r \in Requests, Arrive(r) \/ Handle(r) PROVE IInv'
    BY <1>2, ArriveIInv, EnterIInv, AnsweredIInv, UnreadableIInv, RefusedIInv, UnsupportedIInv,
       UnreachedIInv, AnswerLostIInv, RecordAuditIInv DEF Handle
  <1> QED
    BY <1>1, <1>2, CrashIInv, BreakerIInv DEF Next

LEMMA IInvInvariant == Spec => []IInv
  BY InitIInv, NextIInv, PTL DEF Spec

-----------------------------------------------------------------------------
(***************************************************************************)
(* The refinement: what a request becomes in RemoteWrite.                  *)
(***************************************************************************)
Outcome(r) == CASE answer[r] = None       -> None
                [] answer[r] = "ok"       -> "success"
                [] answer[r] = "conflict" -> "conflict"
                [] answer[r] = "crashed"  -> "cut"
                [] OTHER                  -> "failure"

LEMMA NoUpdate ==
  ASSUME NEW S, NEW F, F = [x \in S |-> F[x]], NEW q \in S, NEW v, v = F[q]
  PROVE  [F EXCEPT ![q] = v] = F
  OBVIOUS

\* A step of request q: how its effects and its answer may move together, and
\* that each such move is a step of RemoteWrite.
LEMMA StepOf ==
  ASSUME IInv, NEW q \in Requests,
         answer' = [answer EXCEPT ![q] = answer'[q]],
         made' = [made EXCEPT ![q] = made'[q]],
         lost' = [lost EXCEPT ![q] = lost'[q]],
         UNCHANGED trail,
         \/ UNCHANGED answer
         \/ answer[q] = None /\ answer'[q] \in Answers,
         \/ UNCHANGED <<made, lost>>
         \/ made[q] = lost[q] /\ made'[q] = made[q] + 1 /\ lost'[q] = lost[q] + 1
         \/ made[q] = lost[q] /\ made'[q] = made[q] + 1 /\ lost'[q] = lost[q],
         made'[q] # made[q] => answer[q] = None,
         answer'[q] # answer[q] =>
           /\ answer'[q] = "ok" => made'[q] = lost'[q] + 1
           /\ answer'[q] # "ok" => made'[q] = lost'[q]
           /\ answer'[q] = "conflict" => made'[q] = 0
  PROVE  [Remote!Next]_(Remote!vars)
  <1>1. /\ made \in [Requests -> 0 .. MaxAttempts] /\ lost \in [Requests -> 0 .. MaxAttempts]
        /\ answer \in [Requests -> Answers \cup {None, "crashed"}]
    BY DEF IInv, TypeOK
  <1>2. \A r \in Requests \ {q} : UNCHANGED <<answer[r], made[r], lost[r]>>
    BY <1>1
  <1> DEFINE c == [r \in Requests |-> made[r] - lost[r]]
             o == [r \in Requests |-> Outcome(r)]
  <1>3. c' = [c EXCEPT ![q] = made'[q] - lost'[q]]
    BY <1>1, <1>2
  <1>4. o' = [o EXCEPT ![q] = Outcome(q)']
    <2>1. \A r \in Requests \ {q} : Outcome(r)' = Outcome(r)
      BY <1>2 DEF Outcome
    <2> QED
      BY <2>1
  <1>5. /\ c = [r \in Requests |-> c[r]] /\ o = [r \in Requests |-> o[r]]
        /\ c[q] = made[q] - lost[q] /\ o[q] = Outcome(q)
    <2>1. c = [r \in Requests |-> c[r]]
      OBVIOUS
    <2>2. o = [r \in Requests |-> o[r]]
      OBVIOUS
    <2>3. c[q] = made[q] - lost[q]
      OBVIOUS
    <2>4. o[q] = Outcome(q)
      OBVIOUS
    <2> QED
      BY <2>1, <2>2, <2>3, <2>4
  <1>6. answer[q] = None => Outcome(q) = None
    BY NoneAssumption DEF Outcome, Answers
  <1>7. /\ made[q] \in Nat /\ lost[q] \in Nat
        /\ made'[q] \in Nat /\ lost'[q] \in Nat
        /\ made[q] \in {lost[q], lost[q] + 1}
    <2>1. made[q] \in {lost[q], lost[q] + 1}
      BY DEF IInv, Progress
    <2> QED
      BY <1>1, <2>1, SMT DEF MaxAttempts
  <1>8. CASE UNCHANGED <<answer, made, lost>>
    <2>1. c' = c /\ o' = o /\ lost' = lost
      BY <1>8 DEF Outcome
    <2> QED
      BY <2>1 DEF Remote!vars, Outcome
  <1>9. CASE answer' = answer /\ made'[q] = made[q] + 1 /\ lost'[q] = lost[q] + 1
    <2>1. /\ Outcome(q)' = o[q] /\ made'[q] - lost'[q] = c[q]
          /\ answer[q] = None /\ made[q] = lost[q]
      <3>1. Outcome(q)' = Outcome(q)
        BY <1>9 DEF Outcome
      <3>2. answer[q] = None /\ made[q] = lost[q] /\ made'[q] - lost'[q] = made[q] - lost[q]
        BY <1>7, <1>9, SMT
      <3> QED
        BY <1>5, <3>1, <3>2
    <2>2. o[q] = None /\ c[q] = 0
      BY <1>5, <1>6, <1>7, <2>1, SMT
    <2> HIDE DEF c, o
    <2>3. c' = c /\ o' = o
      BY <1>3, <1>4, <1>5, <2>1, NoUpdate
    <2>4. lost' = [lost EXCEPT ![q] = @ + 1]
      BY <1>9
    <2>5. Remote!Stray(q)
      BY <2>2, <2>3, <2>4 DEF Remote!Stray, Remote!Open, c, o, Outcome
    <2> QED
      BY <2>5 DEF Remote!Next
  <1>10. CASE made'[q] = made[q] + 1 /\ lost'[q] = lost[q]
    <2>1. /\ answer[q] = None /\ made[q] = lost[q] /\ lost' = lost
          /\ made'[q] - lost'[q] = 1
      <3>1. answer[q] = None /\ made[q] = lost[q] /\ made'[q] - lost'[q] = 1
        BY <1>7, <1>10, SMT
      <3> QED
        BY <1>1, <1>10, <3>1
    <2>2. o[q] = None /\ c[q] = 0
      BY <1>5, <1>6, <1>7, <2>1, SMT
    <2>3. Outcome(q)' = o[q] \/ Outcome(q)' = "success"
      BY <1>5, <1>7, <1>10, <2>1, SMT DEF Outcome
    <2> HIDE DEF c, o
    <2>4. o' = o \/ o' = [o EXCEPT ![q] = "success"]
      BY <1>4, <1>5, <2>3, NoUpdate
    <2>5. Remote!CarryOut(q)
      BY <1>3, <2>1, <2>2, <2>4 DEF Remote!CarryOut, Remote!Open, c, o, Outcome
    <2> QED
      BY <2>5 DEF Remote!Next
  <1>11. CASE /\ UNCHANGED <<made, lost>> /\ answer[q] = None /\ answer'[q] \in Answers
    <2>1. answer'[q] # answer[q]
      BY <1>11, NoneAssumption
    <2>2. o[q] = None /\ made'[q] - lost'[q] = c[q]
      BY <1>5, <1>6, <1>11
    <2>3. \/ Outcome(q)' = "success" /\ c[q] = 1
          \/ Outcome(q)' = "conflict" /\ c[q] = 0 /\ lost[q] = 0
          \/ Outcome(q)' = "failure" /\ c[q] = 0
      BY <1>5, <1>7, <1>11, <2>1, NoneAssumption, SMT DEF Outcome, Answers
    <2> HIDE DEF c, o
    <2>4. c' = c
      BY <1>3, <1>5, <2>2, NoUpdate
    <2>5. Remote!Decide(q)
      BY <1>4, <1>11, <2>2, <2>3, <2>4 DEF Remote!Decide, c, o, Outcome
    <2> QED
      BY <2>5 DEF Remote!Next
  <1>12. CASE /\ made'[q] = made[q] + 1 /\ lost'[q] = lost[q] + 1
              /\ answer[q] = None /\ answer'[q] \in Answers
    <2>1. answer'[q] # answer[q] /\ made[q] = lost[q] /\ made'[q] # 0
      BY <1>7, <1>12, NoneAssumption, SMT
    <2>2. o[q] = None /\ made'[q] - lost'[q] = c[q] /\ c[q] = 0
      BY <1>5, <1>6, <1>7, <1>12, <2>1, SMT
    <2>3. Outcome(q)' = "failure"
      BY <1>7, <1>12, <2>1, NoneAssumption, SMT DEF Outcome, Answers
    <2> HIDE DEF c, o
    <2>4. c' = c
      BY <1>3, <1>5, <2>2, NoUpdate
    <2>5. lost' = [lost EXCEPT ![q] = @ + 1]
      BY <1>12
    <2>6. Remote!Decide(q)
      BY <1>4, <2>2, <2>3, <2>4, <2>5 DEF Remote!Decide, c, o, Outcome
    <2> QED
      BY <2>6 DEF Remote!Next
  <1> QED
    BY <1>7, <1>8, <1>9, <1>10, <1>11, <1>12, SMT

LEMMA NextRefines == IInv /\ [Next]_vars => [Remote!Next]_(Remote!vars)
  <1> SUFFICES ASSUME IInv, [Next]_vars PROVE [Remote!Next]_(Remote!vars)
    OBVIOUS
  <1>1. ASSUME UNCHANGED <<answer, trail, made, lost>>
        PROVE  [Remote!Next]_(Remote!vars)
    BY <1>1 DEF Remote!vars
  <1>2. ASSUME NEW q \in Requests, Enter(q) \/ Refused(q) \/ Unsupported(q)
        PROVE  [Remote!Next]_(Remote!vars)
    <2>1. /\ UNCHANGED <<trail, made, lost>> /\ at[q] \in Calls
          /\ \/ UNCHANGED answer
             \/ \E res \in Answers \ {"ok", "conflict"} :
                  answer' = [answer EXCEPT ![q] = IF at[q] = "journal" THEN "ok" ELSE res]
      <3>1. CASE Enter(q)
        BY <3>1, RaisedMoves DEF Enter, netbox, Answers, IInv
      <3>2. CASE Refused(q)
        BY <3>2, RaisedMoves DEF Refused, UnderWay, netbox, Answers, IInv
      <3>3. CASE Unsupported(q)
        BY <3>3, RaisedMoves DEF Unsupported, UnderWay, netbox, Answers, IInv
      <3> QED
        BY <1>2, <3>1, <3>2, <3>3
    <2>2. CASE ~UNCHANGED answer
      <3>1. PICK res \in Answers \ {"ok", "conflict"} :
              answer' = [answer EXCEPT ![q] = IF at[q] = "journal" THEN "ok" ELSE res]
        BY <2>1, <2>2
      <3>2. /\ answer[q] = None
            /\ at[q] = "journal" => made[q] = lost[q] + 1
            /\ at[q] # "journal" => made[q] = lost[q]
        BY <2>1, SMT DEF IInv, Progress, Calls
      <3>3. /\ answer'[q] = IF at[q] = "journal" THEN "ok" ELSE res
            /\ made' = [made EXCEPT ![q] = made'[q]]
            /\ lost' = [lost EXCEPT ![q] = lost'[q]]
        BY <2>1, <3>1 DEF IInv, TypeOK
      <3>4. answer' = [answer EXCEPT ![q] = answer'[q]] /\ answer'[q] \in Answers
        BY <3>1, <3>3 DEF IInv, TypeOK, Answers
      <3>5. /\ answer'[q] = "ok" => made'[q] = lost'[q] + 1
            /\ answer'[q] # "ok" => made'[q] = lost'[q]
            /\ answer'[q] # "conflict"
        BY <2>1, <3>2, <3>3
      <3>6. made'[q] = made[q]
        BY <2>1
      <3> QED
        BY <2>1, <3>2, <3>3, <3>4, <3>5, <3>6, StepOf
    <2> QED
      BY <1>1, <2>1, <2>2
  <1>3. ASSUME NEW q \in Requests, Answered(q)
        PROVE  [Remote!Next]_(Remote!vars)
    <2>1. /\ Returned(q) /\ UnderWay(q) /\ UNCHANGED <<trail, lost>>
          /\ made' = IF at[q] \in {"patch", "post"} THEN [made EXCEPT ![q] = @ + 1] ELSE made
      BY <1>3 DEF Answered, Effect
    <2>2. /\ answer[q] = None
          /\ at[q] = "get" => made[q] = 0 /\ lost[q] = 0
          /\ at[q] \in {"patch", "post"} => made[q] = lost[q]
          /\ at[q] = "journal" => made[q] = lost[q] + 1
      BY <2>1 DEF IInv, Progress, UnderWay, Calls
    <2>3. /\ made' = [made EXCEPT ![q] = made'[q]]
          /\ lost' = [lost EXCEPT ![q] = lost'[q]]
          /\ made'[q] = IF at[q] \in {"patch", "post"} THEN made[q] + 1 ELSE made[q]
          /\ lost'[q] = lost[q]
      BY <2>1 DEF IInv, TypeOK
    <2>4. /\ answer' = [answer EXCEPT ![q] = answer'[q]]
          /\ \/ UNCHANGED answer
             \/ at[q] = "get" /\ answer'[q] = "conflict"
             \/ at[q] \in {"post", "journal"} /\ answer'[q] = "ok"
      BY <2>1, ReturnedMoves DEF IInv, TypeOK
    <2>5. \/ UNCHANGED <<made, lost>>
          \/ made[q] = lost[q] /\ made'[q] = made[q] + 1 /\ lost'[q] = lost[q]
      BY <2>1, <2>2, <2>3
    <2>6. answer'[q] # answer[q] =>
            /\ answer'[q] = "ok" => made'[q] = lost'[q] + 1
            /\ answer'[q] # "ok" => made'[q] = lost'[q]
            /\ answer'[q] = "conflict" => made'[q] = 0
      BY <2>2, <2>3, <2>4
    <2> QED
      BY <2>1, <2>2, <2>3, <2>4, <2>5, <2>6, StepOf DEF Answers
  <1>4. ASSUME NEW q \in Requests, Unreached(q) \/ AnswerLost(q)
        PROVE  [Remote!Next]_(Remote!vars)
    <2>1. /\ TryAgain(q) /\ UnderWay(q) /\ UNCHANGED trail
          /\ \/ UNCHANGED <<made, lost>>
             \/ /\ at[q] \in {"patch", "post"}
                /\ made' = [made EXCEPT ![q] = @ + 1]
                /\ lost' = [lost EXCEPT ![q] = @ + 1]
      BY <1>4 DEF Unreached, AnswerLost, Effect, Untold, netbox
    <2>2. /\ answer[q] = None
          /\ at[q] = "journal" => made[q] = lost[q] + 1
          /\ at[q] # "journal" => made[q] = lost[q]
      BY <2>1 DEF IInv, Progress, UnderWay, Calls
    <2>3. /\ made' = [made EXCEPT ![q] = made'[q]]
          /\ lost' = [lost EXCEPT ![q] = lost'[q]]
          /\ \/ UNCHANGED <<made, lost>>
             \/ /\ at[q] \in {"patch", "post"} /\ made[q] = lost[q]
                /\ made'[q] = made[q] + 1 /\ lost'[q] = lost[q] + 1
      BY <2>1, <2>2 DEF IInv, TypeOK
    <2>4. /\ answer' = [answer EXCEPT ![q] = answer'[q]]
          /\ \/ UNCHANGED answer
             \/ answer'[q] = IF at[q] = "journal" THEN "ok" ELSE "failed"
      BY <2>1, TryAgainMoves DEF IInv, TypeOK
    <2>5. answer'[q] # answer[q] =>
            /\ answer'[q] = "ok" => made'[q] = lost'[q] + 1
            /\ answer'[q] # "ok" => made'[q] = lost'[q]
            /\ answer'[q] # "conflict"
      BY <2>2, <2>3, <2>4
    <2> QED
      BY <2>1, <2>2, <2>3, <2>4, <2>5, StepOf DEF Answers
  <1>5. ASSUME NEW q \in Requests, Unreadable(q)
        PROVE  [Remote!Next]_(Remote!vars)
    <2>1. /\ UnderWay(q) /\ at[q] # "journal" /\ UNCHANGED trail
          /\ answer' = [answer EXCEPT ![q] = "failed"]
          /\ \/ UNCHANGED <<made, lost>>
             \/ /\ made' = [made EXCEPT ![q] = @ + 1]
                /\ lost' = [lost EXCEPT ![q] = @ + 1]
      BY <1>5 DEF Unreadable, Effect, Untold
    <2>2. answer[q] = None /\ made[q] = lost[q]
      BY <2>1 DEF IInv, Progress, UnderWay, Calls
    <2>3. /\ answer' = [answer EXCEPT ![q] = answer'[q]] /\ answer'[q] = "failed"
          /\ made' = [made EXCEPT ![q] = made'[q]]
          /\ lost' = [lost EXCEPT ![q] = lost'[q]]
          /\ \/ UNCHANGED <<made, lost>>
             \/ made'[q] = made[q] + 1 /\ lost'[q] = lost[q] + 1
      BY <2>1 DEF IInv, TypeOK
    <2>4. made'[q] = lost'[q]
      BY <2>2, <2>3
    <2> QED
      BY <2>1, <2>2, <2>3, <2>4, StepOf DEF Answers
  <1>6. ASSUME NEW q \in Requests, RecordAudit(q)
        PROVE  [Remote!Next]_(Remote!vars)
    <2>1. /\ UNCHANGED <<answer, made, lost>> /\ answer[q] \in Answers /\ trail[q] = {}
          /\ trail' = trail \/ trail' = [trail EXCEPT ![q] = @ \cup {Row(answer[q])}]
      BY <1>6 DEF RecordAudit, netbox, IInv, Progress
    <2>2. CASE trail' = [trail EXCEPT ![q] = @ \cup {Row(answer[q])}]
      <3> DEFINE o == [r \in Requests |-> Outcome(r)]
      <3>1. Outcome(q) = Row(answer[q]) /\ Row(answer[q]) \in {"success", "failure", "conflict"}
        BY <2>1, NoneAssumption DEF Outcome, Row, Answers
      <3>2. o[q] = Outcome(q)
        OBVIOUS
      <3>3. o' = o
        BY <2>1 DEF Outcome
      <3>4. trail' = [trail EXCEPT ![q] = {Row(answer[q])}]
        BY <2>1, <2>2
      <3> HIDE DEF o
      <3>5. Remote!RecordRow(q)
        BY <2>1, <3>1, <3>2, <3>3, <3>4 DEF Remote!RecordRow, Remote!Results, o, Outcome
      <3> QED
        BY <3>5 DEF Remote!Next
    <2> QED
      BY <1>1, <2>1, <2>2
  <1>7. ASSUME Crash
        PROVE  [Remote!Next]_(Remote!vars)
    <2> DEFINE S == {r \in Requests : at[r] \notin {"idle", "done"}}
               o == [r \in Requests |-> Outcome(r)]
    <2>1. UNCHANGED <<trail, made, lost>>
      BY <1>7 DEF Crash, netbox
    <2>2. S \in SUBSET {r \in Requests : trail[r] = {}}
      BY DEF IInv, Progress
    <2>3. \A r \in Requests : Outcome(r)' = IF r \in S THEN "cut" ELSE Outcome(r)
      <3>1. \A r \in Requests : answer'[r] = IF r \in S THEN "crashed" ELSE answer[r]
        BY <1>7 DEF Crash
      <3> QED
        BY <3>1, NoneAssumption DEF Outcome, Answers
    <2>4. o' = [r \in Requests |-> IF r \in S THEN "cut" ELSE o[r]]
      BY <2>3
    <2> HIDE DEF S, o
    <2>5. Remote!Cut
      BY <2>1, <2>2, <2>4 DEF Remote!Cut, o, Outcome
    <2> QED
      BY <2>5 DEF Remote!Next
  <1> QED
    BY <1>1, <1>2, <1>3, <1>4, <1>5, <1>6, <1>7
    DEF Next, Handle, Arrive, OtherCallEnds, RecoveryElapses, vars

-----------------------------------------------------------------------------
(***************************************************************************)
(* Requests, calls and the breaker keep to their types: in particular no   *)
(* call makes more than three attempts, and a write no more effects.       *)
(***************************************************************************)
THEOREM TypesKept == Spec => []TypeOK
  <1>1. IInv => TypeOK
    BY DEF IInv
  <1> QED
    BY <1>1, IInvInvariant, PTL

(***************************************************************************)
(* The audit rows and the answers of a write tell what NetBox did, but for *)
(* effects whose answers were lost.                                        *)
(***************************************************************************)
THEOREM AuditTells == Spec => []AuditTellsEffect
  <1>1. IInv => AuditTellsEffect
    <2> SUFFICES ASSUME IInv, NEW r \in Requests
                 PROVE  /\ made[r] \in {lost[r], lost[r] + 1}
                        /\ "success" \in trail[r] => made[r] = lost[r] + 1
                        /\ trail[r] \cap {"failure", "conflict"} # {} => made[r] = lost[r]
                        /\ answer[r] = "conflict" => made[r] = 0
      BY DEF AuditTellsEffect
    <2>1. trail[r] # {} => answer[r] \in Answers
      BY DEF IInv, Progress
    <2>2. answer[r] = "conflict" => Settled(r)
      BY DEF IInv, Progress, Answers
    <2>3. "success" \in trail[r] => answer[r] = "ok"
      BY DEF IInv, Progress, Row
    <2>4. trail[r] \cap {"failure", "conflict"} # {} => answer[r] # "ok"
      BY DEF IInv, Progress, Row
    <2> QED
      BY <2>1, <2>2, <2>3, <2>4 DEF IInv, Progress, Settled
  <1> QED
    BY <1>1, IInvInvariant, PTL

(***************************************************************************)
(* The circuit is open only if Threshold calls in a row found NetBox       *)
(* broken, however many callers share the breaker.                         *)
(***************************************************************************)
THEOREM OutageOnly == Spec => []OpensOnOutage
  <1>1. IInv => OpensOnOutage
    BY DEF IInv, Breaker
  <1> QED
    BY <1>1, IInvInvariant, PTL

(***************************************************************************)
(* Writes implement RemoteWrite: decided once, by what is known of their   *)
(* effects, with nothing reaching NetBox later.                            *)
(***************************************************************************)
THEOREM RefinesRemoteWrite == Spec => ImplementsRemoteWrite
  <1>1. Init => Remote!Init
    <2> SUFFICES ASSUME Init PROVE Remote!Init
      OBVIOUS
    <2>1. [r \in Requests |-> made[r] - lost[r]] = [r \in Requests |-> 0]
      BY SMT DEF Init
    <2>2. [r \in Requests |-> Outcome(r)] = [r \in Requests |-> None]
      <3>1. \A r \in Requests : Outcome(r) = None
        BY NoneAssumption DEF Init, Outcome, Answers
      <3> QED
        BY <3>1
    <2> QED
      BY <2>1, <2>2 DEF Init, Remote!Init, Outcome
  <1>2. IInv /\ [Next]_vars => [Remote!Next]_(Remote!vars)
    BY NextRefines
  <1> QED
    BY <1>1, <1>2, IInvInvariant, PTL DEF Spec, ImplementsRemoteWrite, Remote!Spec
=============================================================================
