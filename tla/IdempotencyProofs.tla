-------------------------- MODULE IdempotencyProofs --------------------------
(***************************************************************************)
(* Theorems of Idempotency, for any number of keys, payloads and           *)
(* deliveries, through either wrapper, and any number of failures.         *)
(*                                                                         *)
(* The invariants are not inductive by themselves: that no row is          *)
(* overwritten rests on who holds a placeholder (ClaimsHeld), and that an  *)
(* answer stays true on its request having been answered (RowsKept).       *)
(***************************************************************************)
EXTENDS Idempotency, TLAPS

\* What holds of a request at each point of its handler.
RequestInv(r) ==
  /\ pc[r] # "idle" => call[r] \in Calls
  /\ pc[r] \in {"check", "claim", "store", "reread"} => Keyed(r)
  /\ pc[r] \in {"claim", "commit", "failure"} => call[r].endpoint = "batch"
  /\ pc[r] = "store" => call[r].endpoint = "outer"
  /\ pc[r] \in {"commit", "store"} => outcome[r] # None
  /\ pc[r] = "reread" =>
       Found(r) /\ (call[r].endpoint = "outer" => outcome[r] # None)
  /\ pc[r] \in {"work", "commit"} /\ call[r].endpoint = "batch" /\ Keyed(r)
       => claim[Key(r)] = r
  /\ pc[r] # "answered" =>
       /\ answer[r] = None
       /\ r \in effects => pc[r] # "idle" /\ call[r].endpoint = "outer"
       /\ audit[r] # "failure"

\* A placeholder is of a batch at work, and its key is not yet committed.
ClaimsHeld ==
  \A k \in Keys : claim[k] # None =>
    /\ keys[k] = NoRow
    /\ call[claim[k]].key = k /\ call[claim[k]].endpoint = "batch"
    /\ pc[claim[k]] \in {"work", "commit"}

\* A row is of a request that was answered, and keeps its response.
RowsKept ==
  \A k \in Keys : keys[k] # NoRow =>
    /\ keys[k].by \in Requests
    /\ call[keys[k].by].key = k
    /\ keys[k].payload = call[keys[k].by].payload
    /\ outcome[keys[k].by] # None
    /\ pc[keys[k].by] = "answered"

AnswersFinal ==
  \A r \in Requests : answer[r] \in Requests /\ Keyed(r) => pc[answer[r]] = "answered"

IInv ==
  /\ TypeOK
  /\ \A r \in Requests : RequestInv(r)
  /\ ClaimsHeld
  /\ RowsKept
  /\ OneBatchPerKey
  /\ AnswersAgree
  /\ AnswersFinal

-----------------------------------------------------------------------------
LEMMA InitIInv == Init => IInv
  <1> SUFFICES ASSUME Init PROVE IInv
    OBVIOUS
  <1>1. TypeOK
    <2>1. failures \in 0..Failures
      BY IdempotencyAssumption DEF Init
    <2> QED
      BY <2>1 DEF Init, TypeOK
  <1>2. \A r \in Requests : RequestInv(r)
    BY IdempotencyAssumption DEF Init, RequestInv, Audits
  <1>3. ClaimsHeld /\ RowsKept
    BY DEF Init, ClaimsHeld, RowsKept
  <1>4. OneBatchPerKey /\ AnswersAgree /\ AnswersFinal
    BY IdempotencyAssumption
    DEF Init, OneBatchPerKey, AnswersAgree, AnswersFinal, Keyed, NoCall
  <1> QED
    BY <1>1, <1>2, <1>3, <1>4 DEF IInv

\* A step of request r leaves the others alone.
Others(r) ==
  \A s \in Requests \ {r} :
    /\ pc'[s] = pc[s] /\ call'[s] = call[s] /\ outcome'[s] = outcome[s]
    /\ answer'[s] = answer[s] /\ audit'[s] = audit[s]
    /\ s \in effects' <=> s \in effects

\* The answer of request r is the one its key keeps.
Agrees(r) ==
  answer[r] \in Requests /\ Keyed(r) =>
    /\ call[answer[r]].key = Key(r)
    /\ call[answer[r]].payload = call[r].payload
    /\ outcome[answer[r]] # None
    /\ answer[r] \in gone \/ keys[Key(r)].by = answer[r]
    /\ pc[answer[r]] = "answered"

(***************************************************************************)
(* A step of r that writes no row; it may insert its placeholder or roll   *)
(* it back.                                                                *)
(***************************************************************************)
WritesNoRow(r) ==
  /\ TypeOK' /\ Others(r)
  /\ pc[r] # "answered"
  /\ keys' = keys /\ gone' = gone
  /\ \A k \in Keys :
       \/ claim'[k] = claim[k]
       \/ claim[k] = r /\ claim'[k] = None
       \/ /\ claim[k] = None /\ claim'[k] = r
          /\ keys[k] = NoRow /\ call[r].key = k /\ call[r].endpoint = "batch"
  /\ \A k \in Keys : claim'[k] = r =>
       call'[r] = call[r] /\ pc'[r] \in {"work", "commit"}
  /\ RequestInv(r)'
  /\ r \in effects' /\ call'[r].endpoint = "batch" =>
       call'[r].key = None /\ audit'[r] # "failure"
  /\ Agrees(r)'

LEMMA Kept == ASSUME IInv, NEW r \in Requests, WritesNoRow(r) PROVE IInv'
  <1> USE DEF WritesNoRow
  <1>1. ASSUME NEW s \in Requests PROVE RequestInv(s)'
    <2>1. CASE s = r
      BY <2>1
    <2>2. CASE s # r
      <3>1. RequestInv(s)
        BY DEF IInv
      <3>2. /\ pc'[s] = pc[s] /\ call'[s] = call[s] /\ outcome'[s] = outcome[s]
            /\ answer'[s] = answer[s] /\ audit'[s] = audit[s]
            /\ s \in effects' <=> s \in effects
        BY <2>2 DEF Others
      <3>3. Keyed(s) /\ pc[s] # "idle" => Key(s) \in Keys
        BY <3>1 DEF RequestInv, Calls, Keyed, Key
      <3>4. Keyed(s) /\ pc[s] # "idle" /\ claim[Key(s)] = s => claim'[Key(s)] = s
        BY <2>2, <3>3, IdempotencyAssumption
      <3> QED
        BY <3>1, <3>2, <3>4 DEF RequestInv, Keyed, Key, Found
    <2> QED
      BY <2>1, <2>2
  <1>2. ClaimsHeld'
    <2> SUFFICES ASSUME NEW k \in Keys, claim'[k] # None
                 PROVE  /\ keys'[k] = NoRow
                        /\ call'[claim'[k]].key = k
                        /\ call'[claim'[k]].endpoint = "batch"
                        /\ pc'[claim'[k]] \in {"work", "commit"}
      BY DEF ClaimsHeld
    <2>1. CASE claim'[k] = claim[k]
      <3>1. claim[k] \in Requests
        BY <2>1 DEF IInv, TypeOK
      <3> QED
        BY <2>1, <3>1 DEF IInv, ClaimsHeld, Others
    <2>2. CASE claim'[k] # claim[k]
      BY <2>2
    <2> QED
      BY <2>1, <2>2
  <1>3. RowsKept'
    BY DEF IInv, RowsKept, Others
  <1>4. OneBatchPerKey'
    BY DEF IInv, TypeOK, OneBatchPerKey, Others, Keyed, Key
  <1>5. AnswersAgree' /\ AnswersFinal'
    <2> SUFFICES ASSUME NEW s \in Requests, answer'[s] \in Requests, call'[s].key # None
                 PROVE  Agrees(s)'
      BY DEF AnswersAgree, AnswersFinal, Agrees, Keyed, Key
    <2>1. CASE s = r
      BY <2>1
    <2>2. CASE s # r
      BY <2>2 DEF IInv, AnswersAgree, AnswersFinal, Agrees, Others, Keyed, Key
    <2> QED
      BY <2>1, <2>2
  <1> QED
    BY <1>1, <1>2, <1>3, <1>4, <1>5 DEF IInv

(***************************************************************************)
(* A step of r that writes the row of its key, which no one had committed  *)
(* and no one else holds a placeholder for.                                *)
(***************************************************************************)
LEMMA Stored ==
  ASSUME IInv, NEW r \in Requests,
         TypeOK', Others(r), pc[r] # "answered", pc'[r] = "answered",
         Keyed(r), Key(r) \in Keys, outcome[r] # None,
         keys[Key(r)] = NoRow, claim[Key(r)] \in {r, None},
         keys' = [keys EXCEPT ![Key(r)] = RowOf(r, r)],
         \A k \in Keys : IF claim[k] = r THEN claim'[k] = None ELSE claim'[k] = claim[k],
         UNCHANGED <<call, outcome, gone>>,
         answer'[r] \in {r, "error"},
         call[r].endpoint = "batch" => audit'[r] # "failure"
  PROVE  IInv'
  <1> DEFINE k0 == Key(r)
  <1>1. /\ keys'[k0] = RowOf(r, r) /\ claim'[k0] = None
        /\ \A k \in Keys \ {k0} : keys'[k] = keys[k]
    BY IdempotencyAssumption DEF IInv, TypeOK
  <1>2. keys'[k0] # NoRow /\ keys'[k0].by = r /\ keys'[k0].payload = call[r].payload
    BY <1>1, IdempotencyAssumption DEF RowOf, NoRow
  <1>3. NoRow.by = None
    BY DEF NoRow
  <1>4. ASSUME NEW s \in Requests PROVE RequestInv(s)'
    <2>1. CASE s = r
      <3>1. call[r] \in Calls
        BY DEF IInv, TypeOK, NoCall, Keyed, Key
      <3> QED
        BY <2>1, <3>1 DEF RequestInv
    <2>2. CASE s # r
      <3>1. RequestInv(s)
        BY DEF IInv
      <3>2. /\ pc'[s] = pc[s] /\ call'[s] = call[s] /\ outcome'[s] = outcome[s]
            /\ answer'[s] = answer[s] /\ audit'[s] = audit[s]
            /\ s \in effects' <=> s \in effects
        BY <2>2 DEF Others
      <3>3. Keyed(s) /\ pc[s] # "idle" => Key(s) \in Keys
        BY <3>1 DEF RequestInv, Calls, Keyed, Key
      <3>4. Keyed(s) /\ pc[s] # "idle" /\ claim[Key(s)] = s => claim'[Key(s)] = s
        BY <2>2, <3>3
      <3>5. Keyed(s) /\ pc[s] # "idle" /\ Found(s) => keys'[Key(s)] # NoRow
        BY <3>3, <1>1, <1>2 DEF Found
      <3> QED
        BY <3>1, <3>2, <3>4, <3>5 DEF RequestInv, Keyed, Key, Found
    <2> QED
      BY <2>1, <2>2
  <1>5. ClaimsHeld'
    <2> SUFFICES ASSUME NEW k \in Keys, claim'[k] # None
                 PROVE  /\ keys'[k] = NoRow
                        /\ call'[claim'[k]].key = k
                        /\ call'[claim'[k]].endpoint = "batch"
                        /\ pc'[claim'[k]] \in {"work", "commit"}
      BY DEF ClaimsHeld
    <2>1. claim'[k] = claim[k] /\ claim[k] \in Requests /\ claim[k] # r /\ k # k0
      BY <1>1 DEF IInv, TypeOK
    <2> QED
      BY <2>1, <1>1 DEF IInv, ClaimsHeld, Others
  <1>6. RowsKept'
    <2> SUFFICES ASSUME NEW k \in Keys, keys'[k] # NoRow
                 PROVE  /\ keys'[k].by \in Requests
                        /\ call'[keys'[k].by].key = k
                        /\ keys'[k].payload = call'[keys'[k].by].payload
                        /\ outcome'[keys'[k].by] # None
                        /\ pc'[keys'[k].by] = "answered"
      BY DEF RowsKept
    <2>1. CASE k = k0
      BY <2>1, <1>2 DEF Key
    <2>2. CASE k # k0
      BY <2>2, <1>1 DEF IInv, RowsKept, Others
    <2> QED
      BY <2>1, <2>2
  <1>7. OneBatchPerKey'
    <2> SUFFICES ASSUME NEW s \in effects', call[s].endpoint = "batch"
                 PROVE  /\ Keyed(s) => s \in gone \/ keys'[Key(s)].by = s
                        /\ audit'[s] # "failure"
      BY DEF OneBatchPerKey, Keyed, Key
    <2>1. CASE s = r
      BY <2>1, <1>2
    <2>2. CASE s # r
      <3>1. s \in Requests /\ s \in effects /\ audit'[s] = audit[s]
        BY <2>2 DEF TypeOK, Others
      <3>2. audit[s] # "failure" /\ (Keyed(s) => s \in gone \/ keys[Key(s)].by = s)
        BY <3>1 DEF IInv, OneBatchPerKey
      <3>3. Keyed(s) => Key(s) \in Keys
        BY <3>1 DEF IInv, RequestInv, TypeOK, Calls, NoCall, Keyed, Key
      <3> QED
        BY <3>1, <3>2, <3>3, <1>1, <1>3, IdempotencyAssumption
    <2> QED
      BY <2>1, <2>2
  <1>8. AnswersAgree' /\ AnswersFinal'
    <2> SUFFICES ASSUME NEW s \in Requests, answer'[s] \in Requests, Keyed(s)
                 PROVE  /\ call[answer'[s]].key = Key(s)
                        /\ call[answer'[s]].payload = call[s].payload
                        /\ outcome[answer'[s]] # None
                        /\ answer'[s] \in gone \/ keys'[Key(s)].by = answer'[s]
                        /\ pc'[answer'[s]] = "answered"
      BY DEF AnswersAgree, AnswersFinal, Keyed, Key
    <2>1. CASE s = r
      BY <2>1, <1>2, IdempotencyAssumption DEF Key, Denials
    <2>2. CASE s # r
      <3>1. answer'[s] = answer[s]
        BY <2>2 DEF Others
      <3>2. /\ call[answer[s]].key = Key(s)
            /\ call[answer[s]].payload = call[s].payload
            /\ outcome[answer[s]] # None
            /\ answer[s] \in gone \/ keys[Key(s)].by = answer[s]
            /\ pc[answer[s]] = "answered"
        BY <3>1 DEF IInv, AnswersAgree, AnswersFinal
      <3>3. Key(s) \in Keys
        BY DEF IInv, TypeOK, Calls, NoCall, Keyed, Key
      <3>4. Key(s) = k0 => answer[s] \in gone
        BY <3>1, <3>2, <1>3, IdempotencyAssumption
      <3> QED
        BY <3>1, <3>2, <3>3, <3>4, <1>1 DEF Others
    <2> QED
      BY <2>1, <2>2
  <1> QED
    BY <1>4, <1>5, <1>6, <1>7, <1>8 DEF IInv

-----------------------------------------------------------------------------
\* What the types give about one step of request r.
LEMMA Step ==
  ASSUME IInv, NEW r \in Requests
  PROVE  /\ RequestInv(r)
         /\ Keyed(r) => Key(r) \in Keys
         /\ \A k \in Keys : claim[k] = r => k = Key(r) /\ pc[r] \in {"work", "commit"}
  BY IdempotencyAssumption
  DEF IInv, TypeOK, ClaimsHeld, Calls, NoCall, Keyed, Key

LEMMA SendIInv == ASSUME IInv, NEW r \in Requests, Send(r) PROVE IInv'
  <1>1. PICK c \in Calls :
          /\ call' = [call EXCEPT ![r] = c]
          /\ Goto(r, IF c.key = None THEN "work" ELSE "check")
    BY DEF Send
  <1>2. /\ pc[r] = "idle"
        /\ UNCHANGED <<keys, claim, outcome, answer, audit, effects, gone, failures>>
    BY DEF Send
  <1>3. RequestInv(r) /\ \A k \in Keys : claim[k] # r
    BY <1>2, Step
  <1>4. call'[r] = c /\ pc'[r] = IF c.key = None THEN "work" ELSE "check"
    BY <1>1 DEF Goto, IInv, TypeOK
  <1>5. TypeOK'
    BY <1>1, <1>2 DEF IInv, TypeOK, Goto
  <1>6. Others(r)
    BY <1>1, <1>2 DEF Others, Goto, IInv, TypeOK
  <1>7. answer'[r] = None /\ r \notin effects /\ audit'[r] # "failure"
    BY <1>2, <1>3 DEF RequestInv
  <1>8. RequestInv(r)'
    BY <1>2, <1>4, <1>7 DEF RequestInv, Keyed, Key
  <1>9. Agrees(r)'
    BY <1>7, IdempotencyAssumption DEF Agrees
  <1> QED
    BY <1>2, <1>3, <1>5, <1>6, <1>7, <1>8, <1>9, Kept DEF WritesNoRow

(***************************************************************************)
(* Request r is answered res, and holds no placeholder any more.  When res *)
(* is a response, it is the one of its key, unless r sent none.            *)
(***************************************************************************)
LEMMA Replied ==
  ASSUME IInv, NEW r \in Requests, NEW res \in Requests \cup Denials,
         pc[r] \notin {"idle", "answered"}, Answer(r, res),
         UNCHANGED <<keys, call, gone>>,
         \/ claim' = claim /\ \A k \in Keys : claim[k] # r
         \/ Release(r),
         outcome' = outcome,
         \/ audit' = audit
         \/ audit' = [audit EXCEPT ![r] = "failure"] /\ call[r].endpoint = "batch",
         effects' = effects \/ (effects' = effects \cup {r} /\ call[r].endpoint = "outer"),
         failures' \in 0..Failures,
         res \in Requests /\ Keyed(r) =>
           /\ call[res].key = Key(r) /\ call[res].payload = call[r].payload
           /\ outcome[res] # None
           /\ keys[Key(r)].by = res
           /\ pc[res] = "answered"
  PROVE  IInv'
  <1>1. /\ pc'[r] = "answered" /\ answer'[r] = res
        /\ \A s \in Requests \ {r} : pc'[s] = pc[s] /\ answer'[s] = answer[s]
    BY DEF Answer, Goto, IInv, TypeOK
  <1>2. /\ claim' \in [Keys -> Requests \cup {None}]
        /\ \A k \in Keys : claim'[k] # r
        /\ \A k \in Keys : claim'[k] = claim[k] \/ (claim[k] = r /\ claim'[k] = None)
    BY IdempotencyAssumption DEF Release, IInv, TypeOK
  <1>3. /\ audit' \in [Requests -> Audits \cup {None}]
        /\ \A s \in Requests \ {r} : audit'[s] = audit[s]
    BY DEF IInv, TypeOK, Audits
  <1>4. /\ pc' \in [Requests -> {"idle", "check", "claim", "work", "commit", "failure",
                                 "store", "reread", "answered"}]
        /\ answer' \in [Requests -> Requests \cup Denials \cup {None}]
    BY DEF Answer, Goto, IInv, TypeOK
  <1>5. TypeOK'
    BY <1>2, <1>3, <1>4 DEF IInv, TypeOK
  <1>6. Others(r)
    BY <1>1, <1>3 DEF Others
  <1>7. RequestInv(r) /\ (Keyed(r) => Key(r) \in Keys)
    BY Step
  <1>8. RequestInv(r)'
    BY <1>1, <1>7 DEF RequestInv
  <1>9. r \in effects' => call'[r].endpoint = "outer"
    BY <1>7 DEF RequestInv
  <1>10. Agrees(r)'
    BY <1>1, IdempotencyAssumption DEF Agrees, Keyed, Key, Denials
  <1> QED
    BY <1>2, <1>5, <1>6, <1>8, <1>9, <1>10, Kept DEF WritesNoRow

LEMMA ReplayIInv == ASSUME IInv, NEW r \in Requests, Replay(r) PROVE IInv'
  <1>1. /\ pc[r] \in {"check", "reread"} /\ keys[Key(r)] # NoRow
        /\ UNCHANGED <<keys, claim, call, outcome, audit, effects, gone, failures>>
    BY DEF Replay, Found
  <1>2. Key(r) \in Keys /\ Keyed(r) /\ \A k \in Keys : claim[k] # r
    BY <1>1, Step DEF RequestInv
  <1>3. keys[Key(r)].by \in Requests /\ keys[Key(r)].by # None
    BY <1>1, <1>2, IdempotencyAssumption DEF IInv, RowsKept
  <1>4. Answer(r, keys[Key(r)].by) /\ keys[Key(r)].payload = call[r].payload
    BY <1>3 DEF Replay, Mine
  <1>5. failures' \in 0..Failures
    BY <1>1 DEF IInv, TypeOK
  <1>6. LET w == keys[Key(r)].by IN
        /\ call[w].key = Key(r) /\ call[w].payload = call[r].payload
        /\ outcome[w] # None /\ pc[w] = "answered"
    BY <1>1, <1>2, <1>4 DEF IInv, RowsKept
  <1> QED
    BY <1>1, <1>2, <1>3, <1>4, <1>5, <1>6, Replied

LEMMA DeniedIInv ==
  ASSUME IInv, NEW r \in Requests,
         Conflict(r) \/ Fail(r) \/ RecordFailure(r)
  PROVE  IInv'
  <1>1. CASE Conflict(r)
    <2>1. \A k \in Keys : claim[k] # r
      BY <1>1, Step DEF Conflict
    <2>2. failures' \in 0..Failures
      BY <1>1 DEF Conflict, IInv, TypeOK
    <2> QED
      BY <1>1, <2>1, <2>2, Replied, IdempotencyAssumption
      DEF Conflict, Denials
  <1>2. CASE Fail(r)
    <2>1. failures' \in 0..Failures
      BY <1>2, IdempotencyAssumption DEF Fail, IInv, TypeOK
    <2> QED
      BY <1>2, <2>1, Replied, IdempotencyAssumption DEF Fail, Denials
  <1>3. CASE RecordFailure(r)
    <2>1. /\ pc[r] = "failure" /\ Release(r) /\ Answer(r, "error")
          /\ keys' = [k \in Keys |-> IF claim[k] = r THEN RowOf(r, None) ELSE keys[k]]
          /\ audit' = [audit EXCEPT ![r] = "failure"]
          /\ UNCHANGED <<call, outcome, effects, gone, failures>>
      BY <1>3 DEF RecordFailure
    <2>2. call[r].endpoint = "batch" /\ \A k \in Keys : claim[k] # r
      BY <2>1, Step DEF RequestInv
    <2>3. keys' = keys
      BY <2>1, <2>2 DEF IInv, TypeOK
    <2>4. failures' \in 0..Failures
      BY <2>1 DEF IInv, TypeOK
    <2> QED
      BY <2>1, <2>2, <2>3, <2>4, Replied, IdempotencyAssumption DEF Denials
  <1> QED
    BY <1>1, <1>2, <1>3

-----------------------------------------------------------------------------
(***************************************************************************)
(* Request r goes on to another point without an answer.                   *)
(***************************************************************************)
LEMMA Moved ==
  ASSUME IInv, NEW r \in Requests,
         NEW point \in {"claim", "work", "commit", "failure", "reread"},
         pc[r] \notin {"idle", "answered"}, Goto(r, point),
         UNCHANGED <<keys, call, answer, audit, effects, gone>>,
         outcome' \in [Requests -> Outcomes \cup {None}],
         \A s \in Requests \ {r} : outcome'[s] = outcome[s],
         \/ claim' = claim /\ \A k \in Keys : claim[k] = r => point \in {"work", "commit"}
         \/ Release(r) /\ point = "failure",
         failures' \in 0..Failures,
         RequestInv(r)'
  PROVE  IInv'
  <1>1. pc'[r] = point /\ \A s \in Requests \ {r} : pc'[s] = pc[s]
    BY DEF Goto, IInv, TypeOK
  <1>2. /\ claim' \in [Keys -> Requests \cup {None}]
        /\ \A k \in Keys : claim'[k] = r => point \in {"work", "commit"}
        /\ \A k \in Keys : claim'[k] = claim[k] \/ (claim[k] = r /\ claim'[k] = None)
    BY IdempotencyAssumption DEF Release, IInv, TypeOK
  <1>3. TypeOK'
    BY <1>2 DEF IInv, TypeOK, Goto
  <1>4. Others(r)
    BY <1>1 DEF Others
  <1>5. RequestInv(r)
    BY Step
  <1>6. answer'[r] = None /\ (r \in effects' => call'[r].endpoint = "outer")
    BY <1>5 DEF RequestInv
  <1>7. Agrees(r)'
    BY <1>6, IdempotencyAssumption DEF Agrees
  <1> QED
    BY <1>1, <1>2, <1>3, <1>4, <1>6, <1>7, Kept DEF WritesNoRow

LEMMA MovedIInv ==
  ASSUME IInv, NEW r \in Requests,
         CheckNone(r) \/ InsertRefused(r) \/ Generate(r) \/ GenerateFails(r)
  PROVE  IInv'
  <1>1. CASE CheckNone(r)
    <2> DEFINE point == IF call[r].endpoint = "batch" THEN "claim" ELSE "work"
    <2>1. /\ pc[r] = "check" /\ Goto(r, point)
          /\ UNCHANGED <<keys, claim, call, outcome, answer, audit, effects, gone, failures>>
      BY <1>1 DEF CheckNone
    <2>2. RequestInv(r) /\ (\A k \in Keys : claim[k] # r) /\ pc'[r] = point
      BY <2>1, Step DEF Goto, IInv, TypeOK
    <2>3. RequestInv(r)'
      BY <2>1, <2>2 DEF RequestInv, Keyed, Key
    <2>4. failures' \in 0..Failures /\ outcome' \in [Requests -> Outcomes \cup {None}]
      BY <2>1 DEF IInv, TypeOK
    <2> QED
      BY <2>1, <2>2, <2>3, <2>4, Moved
  <1>2. CASE InsertRefused(r)
    <2>1. /\ pc[r] \in {"claim", "store"} /\ Goto(r, "reread") /\ Found(r)
          /\ UNCHANGED <<keys, claim, call, outcome, answer, audit, effects, gone, failures>>
      BY <1>2 DEF InsertRefused
    <2>2. RequestInv(r) /\ (\A k \in Keys : claim[k] # r) /\ pc'[r] = "reread"
      BY <2>1, Step DEF Goto, IInv, TypeOK
    <2>3. RequestInv(r)'
      BY <2>1, <2>2 DEF RequestInv, Keyed, Key, Found
    <2>4. failures' \in 0..Failures /\ outcome' \in [Requests -> Outcomes \cup {None}]
      BY <2>1 DEF IInv, TypeOK
    <2> QED
      BY <2>1, <2>2, <2>3, <2>4, Moved
  <1>3. CASE Generate(r)
    <2>1. /\ pc[r] = "work" /\ call[r].endpoint = "batch" /\ Goto(r, "commit")
          /\ outcome' = [outcome EXCEPT ![r] = "done"]
          /\ UNCHANGED <<keys, claim, call, answer, audit, effects, gone, failures>>
      BY <1>3 DEF Generate
    <2>2. RequestInv(r) /\ pc'[r] = "commit" /\ outcome'[r] = "done"
      BY <2>1, Step DEF Goto, IInv, TypeOK
    <2>3. RequestInv(r)'
      BY <2>1, <2>2, IdempotencyAssumption DEF RequestInv, Keyed, Key, Outcomes
    <2>4. /\ failures' \in 0..Failures
          /\ outcome' \in [Requests -> Outcomes \cup {None}]
          /\ \A s \in Requests \ {r} : outcome'[s] = outcome[s]
      BY <2>1 DEF IInv, TypeOK, Outcomes
    <2> QED
      BY <2>1, <2>3, <2>4, Moved
  <1>4. CASE GenerateFails(r)
    <2>1. /\ pc[r] = "work" /\ call[r].endpoint = "batch" /\ Goto(r, "failure") /\ Release(r)
          /\ UNCHANGED <<keys, call, outcome, answer, audit, effects, gone>>
      BY <1>4 DEF GenerateFails
    <2>2. RequestInv(r) /\ pc'[r] = "failure"
      BY <2>1, Step DEF Goto, IInv, TypeOK
    <2>3. RequestInv(r)'
      BY <2>1, <2>2 DEF RequestInv, Keyed, Key
    <2>4. failures' \in 0..Failures /\ outcome' \in [Requests -> Outcomes \cup {None}]
      BY <1>4, IdempotencyAssumption DEF GenerateFails, IInv, TypeOK
    <2> QED
      BY <2>1, <2>3, <2>4, Moved
  <1> QED
    BY <1>1, <1>2, <1>3, <1>4

LEMMA WorkIInv ==
  ASSUME IInv, NEW r \in Requests, Work(r) \/ WorkRaises(r) PROVE IInv'
  <1>1. /\ pc[r] = "work" /\ call[r].endpoint = "outer"
        /\ UNCHANGED <<keys, claim, call, audit, gone>>
        /\ effects' \in {effects, effects \cup {r}}
    BY DEF Work, WorkRaises
  <1>2. RequestInv(r) /\ \A k \in Keys : claim[k] # r
    <2>1. \A k \in Keys : claim[k] # None => call[claim[k]].endpoint = "batch"
      BY DEF IInv, ClaimsHeld
    <2> QED
      BY <1>1, <2>1, Step, IdempotencyAssumption
  <1>3. failures' \in 0..Failures
    BY IdempotencyAssumption DEF Work, WorkRaises, IInv, TypeOK
  <1>4. CASE WorkRaises(r)
    BY <1>1, <1>2, <1>3, <1>4, Replied, IdempotencyAssumption DEF WorkRaises, Denials
  <1>5. CASE Work(r)
    <2>1. PICK o \in Outcomes : outcome' = [outcome EXCEPT ![r] = o]
      BY <1>5 DEF Work
    <2>2. /\ outcome'[r] = o /\ o # None
          /\ outcome' \in [Requests -> Outcomes \cup {None}]
          /\ \A s \in Requests \ {r} : outcome'[s] = outcome[s]
      BY <2>1, IdempotencyAssumption DEF IInv, TypeOK
    <2>3. CASE Keyed(r)
      <3>1. Goto(r, "store") /\ answer' = answer
        BY <1>5, <2>3 DEF Work
      <3>2. pc'[r] = "store" /\ \A s \in Requests \ {r} : pc'[s] = pc[s]
        BY <3>1 DEF Goto, IInv, TypeOK
      <3>3. TypeOK'
        BY <1>1, <1>3, <2>2, <3>1 DEF IInv, TypeOK, Goto
      <3>4. Others(r)
        BY <1>1, <2>2, <3>1, <3>2 DEF Others
      <3>5. RequestInv(r)'
        BY <1>1, <1>2, <2>2, <2>3, <3>1, <3>2 DEF RequestInv, Keyed, Key
      <3>6. Agrees(r)'
        BY <1>1, <1>2, <3>1, IdempotencyAssumption DEF Agrees, RequestInv
      <3> QED
        BY <1>1, <1>2, <3>3, <3>4, <3>5, <3>6, Kept DEF WritesNoRow
    <2>4. CASE ~Keyed(r)
      <3>1. Answer(r, r)
        BY <1>5, <2>4 DEF Work
      <3>2. /\ pc'[r] = "answered"
            /\ \A s \in Requests \ {r} : pc'[s] = pc[s] /\ answer'[s] = answer[s]
        BY <3>1 DEF Answer, Goto, IInv, TypeOK
      <3>3. TypeOK'
        BY <1>1, <1>3, <2>2, <3>1 DEF IInv, TypeOK, Answer, Goto
      <3>4. Others(r)
        BY <1>1, <2>2, <3>2 DEF Others
      <3>5. RequestInv(r)'
        BY <1>1, <1>2, <3>2 DEF RequestInv
      <3>6. Agrees(r)'
        BY <1>1, <2>4 DEF Agrees, Keyed
      <3> QED
        BY <1>1, <1>2, <3>3, <3>4, <3>5, <3>6, Kept DEF WritesNoRow
    <2> QED
      BY <2>3, <2>4
  <1> QED
    BY <1>4, <1>5

-----------------------------------------------------------------------------
LEMMA ClaimIInv == ASSUME IInv, NEW r \in Requests, Claim(r) PROVE IInv'
  <1>1. /\ pc[r] = "claim" /\ Goto(r, "work")
        /\ claim[Key(r)] = None /\ keys[Key(r)] = NoRow
        /\ claim' = [claim EXCEPT ![Key(r)] = r]
        /\ UNCHANGED <<keys, call, outcome, answer, audit, effects, gone, failures>>
    BY DEF Claim, Insertable
  <1>2. /\ RequestInv(r) /\ Keyed(r) /\ Key(r) \in Keys /\ call[r].endpoint = "batch"
        /\ \A k \in Keys : claim[k] # r
    BY <1>1, Step DEF RequestInv
  <1>3. pc'[r] = "work" /\ \A s \in Requests \ {r} : pc'[s] = pc[s]
    BY <1>1 DEF Goto, IInv, TypeOK
  <1>4. claim'[Key(r)] = r /\ \A k \in Keys \ {Key(r)} : claim'[k] = claim[k]
    BY <1>1, <1>2 DEF IInv, TypeOK
  <1>5. TypeOK'
    BY <1>1, <1>2 DEF IInv, TypeOK, Goto
  <1>6. Others(r)
    BY <1>1, <1>3 DEF Others
  <1>7. RequestInv(r)'
    BY <1>1, <1>2, <1>3, <1>4 DEF RequestInv, Keyed, Key
  <1>8. answer'[r] = None /\ r \notin effects'
    BY <1>1, <1>2 DEF RequestInv
  <1>9. Agrees(r)'
    BY <1>8, IdempotencyAssumption DEF Agrees
  <1> QED
    BY <1>1, <1>2, <1>3, <1>4, <1>5, <1>6, <1>7, <1>8, <1>9, Kept
    DEF WritesNoRow, Key

LEMMA StoreResponseIInv ==
  ASSUME IInv, NEW r \in Requests, NEW seen \in BOOLEAN, StoreResponse(r, seen)
  PROVE  IInv'
  <1> DEFINE res == IF seen THEN r ELSE "error"
  <1>1. /\ pc[r] = "store" /\ claim[Key(r)] = None /\ keys[Key(r)] = NoRow
        /\ Store(r) /\ Answer(r, res)
        /\ UNCHANGED <<claim, call, outcome, audit, effects, gone>>
    BY DEF StoreResponse, Insertable
  <1>2. /\ Keyed(r) /\ Key(r) \in Keys /\ call[r].endpoint = "outer"
        /\ outcome[r] # None /\ \A k \in Keys : claim[k] # r
    BY <1>1, Step DEF RequestInv
  <1>3. keys' = [keys EXCEPT ![Key(r)] = RowOf(r, r)]
    BY <1>1, <1>2 DEF Store
  <1>4. /\ pc'[r] = "answered" /\ answer'[r] = res
        /\ \A s \in Requests \ {r} : pc'[s] = pc[s] /\ answer'[s] = answer[s]
    BY <1>1 DEF Answer, Goto, IInv, TypeOK
  <1>5. failures' \in 0..Failures
    BY IdempotencyAssumption DEF StoreResponse, IInv, TypeOK
  <1>6. RowOf(r, r) \in Row
    BY <1>2 DEF IInv, TypeOK, RowOf, Row, Calls, NoCall, Keyed, Key
  <1>7. TypeOK'
    BY <1>1, <1>3, <1>5, <1>6 DEF IInv, TypeOK, Answer, Goto, Denials
  <1>8. Others(r)
    BY <1>1, <1>4 DEF Others
  <1> QED
    BY <1>1, <1>2, <1>3, <1>4, <1>7, <1>8, Stored

LEMMA CommitIInv ==
  ASSUME IInv, NEW r \in Requests, NEW seen \in BOOLEAN, Commit(r, seen)
  PROVE  IInv'
  <1> DEFINE res == IF seen THEN r ELSE "error"
  <1>1. /\ pc[r] = "commit" /\ Store(r) /\ Release(r) /\ Answer(r, res)
        /\ effects' = effects \cup {r}
        /\ audit' = [audit EXCEPT ![r] = "success"]
        /\ UNCHANGED <<call, outcome, gone>>
    BY DEF Commit
  <1>2. /\ RequestInv(r) /\ (Keyed(r) => Key(r) \in Keys)
        /\ call[r].endpoint = "batch" /\ outcome[r] # None
        /\ Keyed(r) => claim[Key(r)] = r
        /\ \A k \in Keys : claim[k] = r => k = Key(r)
    BY <1>1, Step DEF RequestInv
  <1>3. /\ pc'[r] = "answered" /\ answer'[r] = res /\ audit'[r] = "success"
        /\ \A s \in Requests \ {r} :
             pc'[s] = pc[s] /\ answer'[s] = answer[s] /\ audit'[s] = audit[s]
    BY <1>1 DEF Answer, Goto, IInv, TypeOK
  <1>4. failures' \in 0..Failures
    BY IdempotencyAssumption DEF Commit, IInv, TypeOK
  <1>5. /\ \A k \in Keys : IF claim[k] = r THEN claim'[k] = None ELSE claim'[k] = claim[k]
        /\ claim' \in [Keys -> Requests \cup {None}]
    BY <1>1 DEF Release, IInv, TypeOK
  <1>6. Keyed(r) => RowOf(r, r) \in Row
    BY DEF IInv, TypeOK, RowOf, Row, Calls, NoCall, Keyed, Key
  <1>7. keys' \in [Keys -> Row \cup {NoRow}]
    BY <1>1, <1>6 DEF Store, IInv, TypeOK
  <1>8. TypeOK'
    BY <1>1, <1>4, <1>5, <1>7 DEF IInv, TypeOK, Answer, Goto, Denials, Audits
  <1>9. Others(r)
    BY <1>1, <1>3 DEF Others
  <1>10. CASE Keyed(r)
    <2>1. keys' = [keys EXCEPT ![Key(r)] = RowOf(r, r)]
      BY <1>1, <1>10 DEF Store
    <2>2. keys[Key(r)] = NoRow
      BY <1>2, <1>10, IdempotencyAssumption DEF IInv, ClaimsHeld
    <2> QED
      BY <1>1, <1>2, <1>3, <1>5, <1>8, <1>9, <1>10, <2>1, <2>2, Stored
  <1>11. CASE ~Keyed(r)
    <2>1. keys' = keys
      BY <1>1, <1>11 DEF Store
    <2>2. RequestInv(r)'
      BY <1>1, <1>2, <1>3 DEF RequestInv
    <2>3. Agrees(r)'
      BY <1>1, <1>11 DEF Agrees, Keyed
    <2>4. /\ \A k \in Keys : claim'[k] # r
          /\ call'[r].key = None
      BY <1>1, <1>5, <1>11, IdempotencyAssumption DEF Keyed
    <2> QED
      BY <1>1, <1>3, <1>5, <1>8, <1>9, <2>1, <2>2, <2>3, <2>4, Kept DEF WritesNoRow
  <1> QED
    BY <1>10, <1>11

LEMMA CleanUpIInv == ASSUME IInv, NEW k \in Keys, CleanUp(k) PROVE IInv'
  <1>1. /\ keys[k] # NoRow
        /\ \A r \in Requests : Key(r) = k => pc[r] \in {"check", "answered"}
        /\ keys' = [keys EXCEPT ![k] = NoRow]
        /\ gone' = gone \cup ({keys[k].by} \cap Requests)
        /\ UNCHANGED <<claim, pc, call, outcome, answer, audit, effects, failures>>
    BY DEF CleanUp, handlers
  <1>2. keys'[k] = NoRow /\ \A j \in Keys \ {k} : keys'[j] = keys[j]
    BY <1>1 DEF IInv, TypeOK
  <1>3. keys[k].by \in gone'
    BY <1>1 DEF IInv, RowsKept
  <1>4. TypeOK'
    BY <1>1 DEF IInv, TypeOK
  <1>5. ASSUME NEW r \in Requests PROVE RequestInv(r)'
    <2>1. RequestInv(r) /\ (Keyed(r) => Key(r) \in Keys)
      BY Step
    <2>2. pc[r] = "reread" => keys'[Key(r)] = keys[Key(r)]
      BY <1>1, <1>2, <2>1 DEF RequestInv
    <2> QED
      BY <1>1, <2>1, <2>2 DEF RequestInv, Keyed, Key, Found
  <1>6. ClaimsHeld'
    BY <1>1, <1>2 DEF IInv, ClaimsHeld
  <1>7. RowsKept'
    BY <1>1, <1>2 DEF IInv, RowsKept
  <1>8. OneBatchPerKey'
    <2> SUFFICES ASSUME NEW r \in effects, call[r].endpoint = "batch"
                 PROVE  /\ Keyed(r) => r \in gone' \/ keys'[Key(r)].by = r
                        /\ audit[r] # "failure"
      BY <1>1 DEF OneBatchPerKey, Keyed, Key
    <2>1. r \in Requests /\ (Keyed(r) => Key(r) \in Keys)
      BY Step DEF IInv, TypeOK
    <2>2. audit[r] # "failure" /\ (Keyed(r) => r \in gone \/ keys[Key(r)].by = r)
      BY DEF IInv, OneBatchPerKey
    <2> QED
      BY <1>1, <1>2, <1>3, <2>1, <2>2
  <1>9. AnswersAgree' /\ AnswersFinal'
    <2> SUFFICES ASSUME NEW r \in Requests, answer[r] \in Requests, Keyed(r)
                 PROVE  /\ call[answer[r]].key = Key(r)
                        /\ call[answer[r]].payload = call[r].payload
                        /\ outcome[answer[r]] # None
                        /\ answer[r] \in gone' \/ keys'[Key(r)].by = answer[r]
                        /\ pc[answer[r]] = "answered"
      BY <1>1 DEF AnswersAgree, AnswersFinal, Keyed, Key
    <2>1. Key(r) \in Keys
      BY Step
    <2>2. /\ call[answer[r]].key = Key(r)
          /\ call[answer[r]].payload = call[r].payload
          /\ outcome[answer[r]] # None
          /\ answer[r] \in gone \/ keys[Key(r)].by = answer[r]
          /\ pc[answer[r]] = "answered"
      BY DEF IInv, AnswersAgree, AnswersFinal
    <2> QED
      BY <1>1, <1>2, <1>3, <2>1, <2>2
  <1> QED
    BY <1>4, <1>5, <1>6, <1>7, <1>8, <1>9 DEF IInv

-----------------------------------------------------------------------------
LEMMA NextIInv == IInv /\ [Next]_vars => IInv'
  <1> SUFFICES ASSUME IInv, [Next]_vars PROVE IInv'
    OBVIOUS
  <1>1. ASSUME NEW r \in Requests, Send(r) \/ Handle(r) \/ Break(r) PROVE IInv'
    <2>1. CASE Send(r)
      BY <2>1, SendIInv
    <2>2. CASE Replay(r)
      BY <2>2, ReplayIInv
    <2>3. CASE Conflict(r) \/ Fail(r) \/ RecordFailure(r)
      BY <2>3, DeniedIInv
    <2>4. CASE CheckNone(r) \/ InsertRefused(r) \/ Generate(r) \/ GenerateFails(r)
      BY <2>4, MovedIInv
    <2>5. CASE Claim(r)
      BY <2>5, ClaimIInv
    <2>6. CASE Work(r) \/ WorkRaises(r)
      BY <2>6, WorkIInv
    <2>7. CASE Commit(r, TRUE) \/ Commit(r, FALSE)
      BY <2>7, CommitIInv
    <2>8. CASE StoreResponse(r, TRUE) \/ StoreResponse(r, FALSE)
      BY <2>8, StoreResponseIInv
    <2> QED
      BY <1>1, <2>1, <2>2, <2>3, <2>4, <2>5, <2>6, <2>7, <2>8 DEF Handle, Break
  <1>2. ASSUME NEW k \in Keys, CleanUp(k) PROVE IInv'
    BY <1>2, CleanUpIInv
  <1>3. CASE UNCHANGED vars
    BY <1>3 DEF vars, handlers, IInv, TypeOK, RequestInv, ClaimsHeld, RowsKept,
                OneBatchPerKey, AnswersAgree, AnswersFinal, Keyed, Key, Found
  <1> QED
    BY <1>1, <1>2, <1>3 DEF Next

LEMMA IInvInvariant == Spec => []IInv
  BY InitIInv, NextIInv, PTL DEF Spec

(***************************************************************************)
(* One key makes at most one batch (services/idempotency.py:96-168 in      *)
(* create_batch), however often and however concurrently its request is    *)
(* delivered, whichever wrapper else uses the key, and whatever fails.     *)
(***************************************************************************)
THEOREM BatchOnce == Spec => []OneBatchPerKey
  <1>1. IInv => OneBatchPerKey
    BY DEF IInv
  <1> QED
    BY <1>1, IInvInvariant, PTL

(***************************************************************************)
(* Deliveries of one key that are given a response are given the same one, *)
(* produced by a request with their payload (both wrappers).               *)
(***************************************************************************)
THEOREM SameAnswer == Spec => []AnswersAgree
  <1>1. IInv => AnswersAgree
    BY DEF IInv
  <1> QED
    BY <1>1, IInvInvariant, PTL

(***************************************************************************)
(* No placeholder is ever committed, so no replay is empty, and the        *)
(* asserted re-read after a refused INSERT finds its row.                  *)
(***************************************************************************)
THEOREM PlaceholderStaysPrivate == Spec => []NoEmptyReplay
  <1>1. IInv => NoEmptyReplay
    BY IdempotencyAssumption DEF IInv, RowsKept, RequestInv, NoEmptyReplay
  <1> QED
    BY <1>1, IInvInvariant, PTL

\* The variables of Idempotency keep their types.
THEOREM TypesKept == Spec => []TypeOK
  <1>1. IInv => TypeOK
    BY DEF IInv
  <1> QED
    BY <1>1, IInvInvariant, PTL
=============================================================================
