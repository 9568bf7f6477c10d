---------------------------- MODULE RemoteWrite ----------------------------
(***************************************************************************)
(* What a write to NetBox through the service promises (services/          *)
(* netbox_write.py): it is carried out at most once that the service knows *)
(* of, possibly after strays, effects without a usable answer; its outcome *)
(* is decided when that is known and never revised, unless by a crash;     *)
(* nothing of it reaches NetBox afterwards, and the audit log records that *)
(* outcome or nothing.                                                     *)
(***************************************************************************)
EXTENDS Naturals

CONSTANTS Requests, None

VARIABLES carried,  \* request -> effects the service knows of: none or one
          strays,   \* request -> effects the service does not know of
          outcome,  \* request -> None until it is decided
          rows      \* request -> the results of its audit rows

vars == <<carried, strays, outcome, rows>>

Results == {"success", "conflict", "failure"}

Init ==
  /\ carried = [r \in Requests |-> 0]
  /\ strays = [r \in Requests |-> 0]
  /\ outcome = [r \in Requests |-> None]
  /\ rows = [r \in Requests |-> {}]

Open(r) == outcome[r] = None /\ carried[r] = 0

\* An attempt takes effect and its answer is lost or cannot be used.
Stray(r) ==
  /\ Open(r)
  /\ strays' = [strays EXCEPT ![r] = @ + 1]
  /\ UNCHANGED <<carried, outcome, rows>>

\* An attempt takes effect and is answered, which may decide the write.
CarryOut(r) ==
  /\ Open(r)
  /\ carried' = [carried EXCEPT ![r] = 1]
  /\ outcome' \in {outcome, [outcome EXCEPT ![r] = "success"]}
  /\ UNCHANGED <<strays, rows>>

\* The outcome is decided, by the effect if there is one.  The version of the
\* device is compared before anything is sent, so a conflict has no strays.  The
\* last attempt may be a stray one.
Decide(r) ==
  /\ outcome[r] = None
  /\ \/ /\ carried[r] = 1
        /\ outcome' = [outcome EXCEPT ![r] = "success"]
        /\ UNCHANGED strays
     \/ /\ carried[r] = 0 /\ strays[r] = 0
        /\ outcome' = [outcome EXCEPT ![r] = "conflict"]
        /\ UNCHANGED strays
     \/ /\ carried[r] = 0
        /\ outcome' = [outcome EXCEPT ![r] = "failure"]
        /\ strays' \in {strays, [strays EXCEPT ![r] = @ + 1]}
  /\ UNCHANGED <<carried, rows>>

\* The audit row, which is best-effort, comes after the outcome.
RecordRow(r) ==
  /\ outcome[r] \in Results
  /\ rows' = [rows EXCEPT ![r] = {outcome[r]}]
  /\ UNCHANGED <<carried, strays, outcome>>

\* The process dies: writes whose outcome is not on record are cut.
Cut ==
  /\ \E S \in SUBSET {r \in Requests : rows[r] = {}} :
       outcome' = [r \in Requests |-> IF r \in S THEN "cut" ELSE outcome[r]]
  /\ UNCHANGED <<carried, strays, rows>>

Next ==
  \/ \E r \in Requests : Stray(r) \/ CarryOut(r) \/ Decide(r) \/ RecordRow(r)
  \/ Cut

Spec == Init /\ [][Next]_vars
=============================================================================
