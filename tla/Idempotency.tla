----------------------------- MODULE Idempotency -----------------------------
(***************************************************************************)
(* Idempotency keys (backend/app/services/idempotency.py): what a retried  *)
(* POST or PATCH does and is answered.  Two wrappers share the table       *)
(* idempotency_keys.  with_idempotency (POST /admin/batches/) inserts a    *)
(* placeholder in the transaction of the work, so a second INSERT of the   *)
(* key waits for that transaction.  with_optional_idempotency_outer (every *)
(* other write) looks for the key, works in transactions of its own, and   *)
(* stores the response afterwards, in three sessions.                      *)
(***************************************************************************)
EXTENDS Naturals

CONSTANTS Keys,      \* pairs of user_keycloak_id and Idempotency-Key
          Payloads,  \* request bodies, as their hashes tell them apart
          Requests,  \* deliveries of a request: the first, and its retries
          Endpoints, \* the wrappers the requests go through
          Failures,  \* how many of them may be cut short
          None

Outcomes == {"done", "refused", "rolled_back"}
Denials  == {"error", "conflict", "empty"}
Audits   == {"success", "failure"}

ASSUME IdempotencyAssumption ==
  /\ Endpoints \subseteq {"batch", "outer"}
  /\ Failures \in Nat
  /\ None \notin Keys \cup Requests \cup Outcomes \cup Denials \cup Audits
  /\ Requests \cap Denials = {}

VARIABLES
  keys,     \* idempotency_keys, as committed: key -> payload, and the request
            \*   whose response the row keeps (None while it is a placeholder)
  claim,    \* key -> the request whose transaction holds a placeholder for it
  pc,       \* request -> where its handler is
  call,     \* request -> endpoint, key (None without the header), payload
  outcome,  \* request -> what its work returned
  answer,   \* request -> the request whose response it is answered, "error",
            \*   "conflict" (422, the key was used with another payload), or
            \*   "empty" (a replay of a placeholder)
  audit,    \* request -> result of the audit row of its batch
  effects,  \* requests whose work has taken effect
  gone,     \* requests whose row was cleaned up
  failures  \* failures so far

handlers == <<pc, call, outcome, answer>>
vars     == <<keys, claim, handlers, audit, effects, gone, failures>>

Row    == [payload : Payloads, by : Requests \cup {None}]
NoRow  == [payload |-> None, by |-> None]
NoCall == [endpoint |-> None, key |-> None, payload |-> None]
Calls  == [endpoint : Endpoints, key : Keys \cup {None}, payload : Payloads]

Key(r)   == call[r].key
Keyed(r) == call[r].key # None

\* Mutant of RowOf: the columns are swapped.
RowOfSwapped(r, by) == [payload |-> by, by |-> call[r].payload]

\* What the request's INSERT or UPDATE leaves in its row.
RowOf(r, by) == [payload |-> call[r].payload, by |-> by]

-----------------------------------------------------------------------------
Init ==
  /\ keys = [k \in Keys |-> NoRow]
  /\ claim = [k \in Keys |-> None]
  /\ pc = [r \in Requests |-> "idle"]
  /\ call = [r \in Requests |-> NoCall]
  /\ outcome = [r \in Requests |-> None]
  /\ answer = [r \in Requests |-> None]
  /\ audit = [r \in Requests |-> None]
  /\ effects = {}
  /\ gone = {}
  /\ failures = 0

Goto(r, point) == pc' = [pc EXCEPT ![r] = point]

Answer(r, res) ==
  /\ Goto(r, "answered")
  /\ answer' = [answer EXCEPT ![r] = res]

\* A transaction of r ends: its placeholder is kept or rolled back.
Release(r) == claim' = [k \in Keys |-> IF claim[k] = r THEN None ELSE claim[k]]

Store(r) ==
  keys' = IF Keyed(r) THEN [keys EXCEPT ![Key(r)] = RowOf(r, r)] ELSE keys

Send(r) ==
  /\ pc[r] = "idle"
  /\ \E c \in Calls :
       /\ call' = [call EXCEPT ![r] = c]
       /\ Goto(r, IF c.key = None THEN "work" ELSE "check")
  /\ UNCHANGED <<keys, claim, outcome, answer, audit, effects, gone, failures>>

-----------------------------------------------------------------------------
(***************************************************************************)
(* The SELECT of the key, at the start (check) and after a refused INSERT  *)
(* (reread).  The outer wrapper takes a placeholder for no row at the      *)
(* start, and prefers its own response to it in the end.  A reread that    *)
(* finds no row fails an assertion; NoEmptyReplay says that none does.     *)
(***************************************************************************)
Found(r) == keys[Key(r)] # NoRow

\* Mutant of Mine: request_hash is not compared.
MineUnchecked(r) == TRUE

Mine(r)  == keys[Key(r)].payload = call[r].payload

Replay(r) ==
  /\ pc[r] \in {"check", "reread"}
  /\ Found(r) /\ Mine(r)
  /\ IF keys[Key(r)].by # None THEN Answer(r, keys[Key(r)].by)
     ELSE CASE call[r].endpoint = "batch" -> Answer(r, "empty")
            [] pc[r] = "check"            -> Goto(r, "work") /\ UNCHANGED answer
            [] OTHER                      -> Answer(r, r)
  /\ UNCHANGED <<keys, claim, call, outcome, audit, effects, gone, failures>>

Conflict(r) ==
  /\ pc[r] \in {"check", "reread"}
  /\ Found(r) /\ ~Mine(r)
  /\ Answer(r, "conflict")
  /\ UNCHANGED <<keys, claim, call, outcome, audit, effects, gone, failures>>

CheckNone(r) ==
  /\ pc[r] = "check"
  /\ ~Found(r)
  /\ Goto(r, IF call[r].endpoint = "batch" THEN "claim" ELSE "work")
  /\ UNCHANGED <<keys, claim, call, outcome, answer, audit, effects, gone, failures>>

-----------------------------------------------------------------------------
\* Mutant of Insertable: UNIQUE (user_keycloak_id, key) is missing.
InsertableAlways(k) == TRUE

\* An INSERT of the key goes through; while another transaction holds a
\* placeholder it waits, and when the key is committed it is refused.
Insertable(k) == claim[k] = None /\ keys[k] = NoRow

InsertRefused(r) ==
  /\ pc[r] \in {"claim", "store"}
  /\ claim[Key(r)] = None /\ Found(r)
  /\ Goto(r, "reread")
  /\ UNCHANGED <<keys, claim, call, outcome, answer, audit, effects, gone, failures>>

(***************************************************************************)
(* create_batch: the placeholder, the batch with its codes and SUCCESS     *)
(* row, and the response are one transaction.  When generate_batch fails   *)
(* it rolls all of it back and writes a FAILURE row in a second one.       *)
(***************************************************************************)
Claim(r) ==
  /\ pc[r] = "claim"
  /\ Insertable(Key(r))
  /\ claim' = [claim EXCEPT ![Key(r)] = r]
  /\ Goto(r, "work")
  /\ UNCHANGED <<keys, call, outcome, answer, audit, effects, gone, failures>>

Generate(r) ==
  /\ pc[r] = "work" /\ call[r].endpoint = "batch"
  /\ outcome' = [outcome EXCEPT ![r] = "done"]
  /\ Goto(r, "commit")
  /\ UNCHANGED <<keys, claim, call, answer, audit, effects, gone, failures>>

\* Mutant of GenerateFails: no rollback before the FAILURE row.
GenerateFailsClaimed(r) ==
  /\ pc[r] = "work" /\ call[r].endpoint = "batch"
  /\ failures < Failures
  /\ failures' = failures + 1
  /\ Goto(r, "failure")
  /\ UNCHANGED <<keys, claim, call, outcome, answer, audit, effects, gone>>

GenerateFails(r) ==
  /\ pc[r] = "work" /\ call[r].endpoint = "batch"
  /\ failures < Failures
  /\ failures' = failures + 1
  /\ Release(r)
  /\ Goto(r, "failure")
  /\ UNCHANGED <<keys, call, outcome, answer, audit, effects, gone>>

\* The commit of the FAILURE row keeps whatever its transaction holds.
RecordFailure(r) ==
  /\ pc[r] = "failure"
  /\ audit' = [audit EXCEPT ![r] = "failure"]
  /\ keys' = [k \in Keys |-> IF claim[k] = r THEN RowOf(r, None) ELSE keys[k]]
  /\ Release(r)
  /\ Answer(r, "error")
  /\ UNCHANGED <<call, outcome, effects, gone, failures>>

\* The commit takes effect; seen says whether the handler learns of it.
Commit(r, seen) ==
  /\ pc[r] = "commit"
  /\ effects' = effects \cup {r}
  /\ audit' = [audit EXCEPT ![r] = "success"]
  /\ Store(r)
  /\ Release(r)
  /\ IF seen THEN Answer(r, r) /\ UNCHANGED failures
     ELSE /\ failures < Failures
          /\ failures' = failures + 1
          /\ Answer(r, "error")
  /\ UNCHANGED <<call, outcome, gone>>

-----------------------------------------------------------------------------
(***************************************************************************)
(* with_optional_idempotency_outer: do_work commits by itself and returns  *)
(* a 2xx, a refusal (4xx), or a saga that was rolled back (500); the       *)
(* response is stored in a transaction of its own.                         *)
(***************************************************************************)
Work(r) ==
  /\ pc[r] = "work" /\ call[r].endpoint = "outer"
  /\ \E o \in Outcomes :
       /\ outcome' = [outcome EXCEPT ![r] = o]
       /\ effects' = IF o = "done" THEN effects \cup {r} ELSE effects
  /\ IF Keyed(r) THEN Goto(r, "store") /\ UNCHANGED answer ELSE Answer(r, r)
  /\ UNCHANGED <<keys, claim, call, audit, gone, failures>>

\* do_work raises, before or after it took effect.
WorkRaises(r) ==
  /\ pc[r] = "work" /\ call[r].endpoint = "outer"
  /\ failures < Failures
  /\ failures' = failures + 1
  /\ effects' \in {effects, effects \cup {r}}
  /\ Answer(r, "error")
  /\ UNCHANGED <<keys, claim, call, outcome, audit, gone>>

StoreResponse(r, seen) ==
  /\ pc[r] = "store"
  /\ Insertable(Key(r))
  /\ Store(r)
  /\ IF seen THEN Answer(r, r) /\ UNCHANGED failures
     ELSE /\ failures < Failures
          /\ failures' = failures + 1
          /\ Answer(r, "error")
  /\ UNCHANGED <<claim, call, outcome, audit, effects, gone>>

-----------------------------------------------------------------------------
\* Mutant of Fail: the session is neither rolled back nor closed.
FailHoldingClaim(r) ==
  /\ pc[r] \notin {"idle", "answered"}
  /\ failures < Failures
  /\ failures' = failures + 1
  /\ Answer(r, "error")
  /\ UNCHANGED <<keys, claim, call, outcome, audit, effects, gone>>

\* A database call raises or the process dies: the open transaction is rolled
\* back and the client has no answer.
Fail(r) ==
  /\ pc[r] \notin {"idle", "answered"}
  /\ failures < Failures
  /\ failures' = failures + 1
  /\ Release(r)
  /\ Answer(r, "error")
  /\ UNCHANGED <<keys, call, outcome, audit, effects, gone>>

(***************************************************************************)
(* scripts/idempotency_cleanup.sh deletes rows older than 24 hours.  A     *)
(* request that is past its first SELECT saw no row, so the row is younger *)
(* than the request, and no request takes that long.                       *)
(***************************************************************************)
CleanUp(k) ==
  /\ keys[k] # NoRow
  /\ \A r \in Requests : Key(r) = k => pc[r] \in {"check", "answered"}
  /\ keys' = [keys EXCEPT ![k] = NoRow]
  /\ gone' = gone \cup ({keys[k].by} \cap Requests)
  /\ UNCHANGED <<claim, handlers, audit, effects, failures>>

Handle(r) ==
  \/ Replay(r) \/ Conflict(r) \/ CheckNone(r)
  \/ InsertRefused(r)
  \/ Claim(r) \/ Generate(r) \/ RecordFailure(r) \/ Commit(r, TRUE)
  \/ Work(r) \/ StoreResponse(r, TRUE)

Break(r) ==
  \/ GenerateFails(r) \/ Commit(r, FALSE)
  \/ WorkRaises(r) \/ StoreResponse(r, FALSE)
  \/ Fail(r)

Next ==
  \/ \E r \in Requests : Send(r) \/ Handle(r) \/ Break(r)
  \/ \E k \in Keys : CleanUp(k)

Spec == Init /\ [][Next]_vars

\* Every call a handler awaits returns or raises; an INSERT that waits for
\* another transaction goes on when that one ends.
FairSpec == Spec /\ \A r \in Requests : WF_vars(Handle(r))

-----------------------------------------------------------------------------
\* Every variable has its type.
TypeOK ==
  /\ keys \in [Keys -> Row \cup {NoRow}]
  /\ claim \in [Keys -> Requests \cup {None}]
  /\ pc \in [Requests -> {"idle", "check", "claim", "work", "commit", "failure",
                          "store", "reread", "answered"}]
  /\ call \in [Requests -> Calls \cup {NoCall}]
  /\ outcome \in [Requests -> Outcomes \cup {None}]
  /\ answer \in [Requests -> Requests \cup Denials \cup {None}]
  /\ audit \in [Requests -> Audits \cup {None}]
  /\ effects \subseteq Requests
  /\ gone \subseteq Requests
  /\ failures \in 0..Failures

(***************************************************************************)
(* A key creates at most one batch while its row is kept, however often    *)
(* and however concurrently the request is delivered, and whatever fails:  *)
(* the batch that exists is the one the row answers with.  A FAILURE row   *)
(* never belongs to a batch that exists.                                   *)
(***************************************************************************)
OneBatchPerKey ==
  \A r \in effects : call[r].endpoint = "batch" =>
    /\ Keyed(r) => r \in gone \/ keys[Key(r)].by = r
    /\ audit[r] # "failure"

(***************************************************************************)
(* All requests with one key that are given a response are given the same  *)
(* one, that of a request with their payload whose work returned: the      *)
(* loser of a race gets the winner's response, not its own, although both  *)
(* did the work.  The answer of a key is what its row keeps.               *)
(***************************************************************************)
AnswersAgree ==
  \A r \in Requests : answer[r] \in Requests /\ Keyed(r) =>
    /\ call[answer[r]].key = Key(r)
    /\ call[answer[r]].payload = call[r].payload
    /\ outcome[answer[r]] # None
    /\ answer[r] \in gone \/ keys[Key(r)].by = answer[r]

(***************************************************************************)
(* A placeholder is never committed, so no retry is answered 201 with an   *)
(* empty body: the batch that failed leaves its key as it was, and the     *)
(* retry is a fresh attempt.  Nor does a reader of the key find it gone    *)
(* after its INSERT was refused.                                           *)
(***************************************************************************)
NoEmptyReplay ==
  /\ \A k \in Keys : keys[k] # NoRow => keys[k].by # None
  /\ \A r \in Requests : pc[r] = "reread" => Found(r)

\* Every delivered request is answered: those that wait for a placeholder wait
\* for a transaction that ends.
EveryRequestAnswered == \A r \in Requests : pc[r] # "idle" ~> pc[r] = "answered"
=============================================================================
