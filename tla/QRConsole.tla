----------------------------- MODULE QRConsole -----------------------------
(***************************************************************************)
(* The composite operations: the administrators' forms that call several   *)
(* sagas of QRLifecycleService one after the other (backend/app/web/       *)
(* router.py) and the decommissioning of a device, from its form or from   *)
(* POST /devices/{id}/decommission (services/device_decommission.py).      *)
(*                                                                         *)
(* A console is a request whose handler, instead of being one saga, works  *)
(* through a list of items: it reads the registry or the device, calls a   *)
(* saga, judges what the saga raised and goes on.  It uses the slot of its *)
(* own name in QRLifecycle for the saga it is in; the other requests are   *)
(* clients, which run a saga of their own at the same time.                *)
(***************************************************************************)
EXTENDS QRDivergence

CONSTANTS Consoles,   \* the requests that are composite operations
          Batch       \* the labels of the batch that may be force-deleted

ASSUME ConsoleAssumption == Consoles \subseteq Requests /\ Batch \subseteq Labels

Clients == Requests \ Consoles

VARIABLES
  task,           \* console -> the operation it performs, see TaskType
  decommissioned, \* the devices whose NetBox status was set
  crossed,        \* history: the consoles that another request crossed
  blamed          \* history: what tainted sagas of consoles touched, of those
                  \*   whose slot was used again

consoleVars == <<task, decommissioned, crossed, blamed>>
cvars == <<hvars, consoleVars>>

Kinds == {"retire", "restore", "unbind", "rebind", "decommission", "delete",
          "replace"}

Items == [label : Labels \cup {None}, device : Devices \cup {None}]

\* "next": about to take an item; "read", "get": reads the registry, the
\* device; "saga", "undo": waits for a saga; "status_get", "status_patch":
\* patch_with_attribution of the status; "delete": the transaction that deletes.
Steps == {"idle", "next", "read", "get", "saga", "status_get", "status_patch",
          "undo", "delete", "done"}

TaskType == [kind : Kinds \cup {None}, at : Steps, items : SUBSET Items,
             todo : SUBSET Items, item : Items, found : Labels \cup {None},
             failed : SUBSET (Labels \cup Devices), undo : {None, "rolled_back", "inconsistent"},
             said : {None, "ok", "failed", "raised", "crashed"}]

Item(q, d) == [label |-> q, device |-> d]

\* What the handler's list of failures names an item by.
Id(i) == IF i.label # None THEN i.label ELSE i.device

NoTask == [kind |-> None, at |-> "idle", items |-> {}, todo |-> {},
           item |-> Item(None, None), found |-> None, failed |-> {},
           undo |-> None, said |-> None]

Kind(c) == task[c].kind
At(c, step) == task[c].at = step
TheLabel(c) == task[c].item.label
TheDevice(c) == task[c].item.device

CInit ==
  /\ HInit
  /\ task = [c \in Consoles |-> NoTask]
  /\ decommissioned = {}
  /\ crossed = {}
  /\ blamed = {}

(***************************************************************************)
(* History.  A console's slot is judged saga by saga: when it is used      *)
(* again, what a tainted saga touched is kept in blamed.  The rows of the  *)
(* batch are touched for as long as a force-delete runs.                   *)
(***************************************************************************)
Running(c) == task[c].at \notin {"idle", "done"}

Extent(r) ==
  Footprint(r) \cup (IF r \in Consoles /\ Running(r) /\ Kind(r) = "delete"
                     THEN Batch ELSE {})

Scope(c) ==
  IF Running(c)
  THEN Extent(c) \cup {task[c].found}
         \cup UNION {{i.label, i.device} : i \in task[c].items \cup {task[c].item}}
  ELSE {}

Meeting == {r \in Requests : \E s \in Requests \ {r} : Extent(r) \cap Extent(s) # {}}

Reused == {c \in Consoles : pc[c] = "done" /\ pc'[c] # "done"}

Blameworthy(r) == r \in suspects \/ result[r] \in Alarms

Track ==
  /\ UNCHANGED saw
  /\ suspects' = (suspects \ Reused) \cup Meeting'
                   \cup {r \in Requests : Overwrites(r) \/ Misjudges(r)}
  /\ blamed' = blamed \cup UNION {Touches(c) : c \in {s \in Reused : Blameworthy(s)}}
  /\ crossed' = crossed \cup
       {c \in Consoles : \E r \in Requests \ {c} :
          (Scope(c)' \cap (Footprint(r)' \cup IF r \in Consoles THEN Scope(r)' ELSE {}))
             \ {None} # {}}

-----------------------------------------------------------------------------
(***************************************************************************)
(* A saga returns to its console, and a loop goes on to its next item,     *)
(* without an await: no other request runs in between.                     *)
(***************************************************************************)
Between(c) == At(c, "next") \/ (task[c].at \in {"saga", "undo"} /\ pc[c] = "done")

Settled == \A c \in Consoles : ~Between(c)

\* The console's handler resumes at an await.
Resumes(c, step) == Settled /\ At(c, step)

Update(c, t) == task' = [task EXCEPT ![c] = t]

Move(c, step) == Update(c, [task[c] EXCEPT !.at = step])

\* The operation ends, its locals with it.
Say(c, answer) ==
  Update(c, [task[c] EXCEPT !.at = "done", !.said = answer, !.todo = {},
               !.item = Item(None, None), !.found = None])

\* The current item is done, or counted as failed.
Succeed(c) == Move(c, "next")
Miss(c) == Update(c, [task[c] EXCEPT !.at = "next", !.failed = @ \cup {Id(task[c].item)}])

Slot == <<call, seen, pc, old, owes, result, trail>>

\* The handler awaits a saga: operation o on label q and device d, with
\* version v.
Invoke(c, o, q, d, v) ==
  /\ call' = [call EXCEPT ![c] = [op |-> o, label |-> q, new |-> d]]
  /\ seen' = [seen EXCEPT ![c] = v]
  /\ Goto(c, IF o = "restore" THEN "restore" ELSE "lookup")
  /\ old' = [old EXCEPT ![c] = None]
  /\ owes' = [owes EXCEPT ![c] = {}]
  /\ result' = [result EXCEPT ![c] = None]
  /\ trail' = [trail EXCEPT ![c] = {}]

\* What an administrator submits.
Selections(kind) ==
  CASE kind = "retire"              -> {{Item(q, None) : q \in S} : S \in SUBSET Labels \ {{}}}
    [] kind \in {"restore", "unbind"} -> {{Item(q, None)} : q \in Labels}
    [] kind \in {"rebind", "replace"} -> {{Item(q, d)} : q \in Labels, d \in Devices}
    [] kind = "decommission"        -> {{Item(None, d) : d \in S} : S \in SUBSET Devices \ {{}}}
    [] OTHER                        -> {{}}

Submit(c) ==
  /\ Resumes(c, "idle")
  /\ \E kind \in Kinds : \E items \in Selections(kind) :
       Update(c, [NoTask EXCEPT !.kind = kind, !.items = items, !.todo = items,
                    !.at = IF kind = "delete" THEN "read" ELSE "next"])
  /\ UNCHANGED <<stores, Slot, decommissioned>>
  /\ Track

(***************************************************************************)
(* The next item of the list.  retire and restore call the saga at once,   *)
(* with no version; the others first read the registry or the device.      *)
(***************************************************************************)
Take(c) ==
  /\ At(c, "next")
  /\ \E i \in task[c].todo :
       LET t == [task[c] EXCEPT !.item = i, !.todo = @ \ {i}, !.found = None]
       IN  IF Kind(c) \in {"retire", "restore"}
           THEN /\ Invoke(c, Kind(c), i.label, None, None)
                /\ Update(c, [t EXCEPT !.at = "saga"])
           ELSE /\ Update(c, [t EXCEPT !.at =
                        IF Kind(c) \in {"unbind", "replace"} THEN "read" ELSE "get"])
                /\ UNCHANGED Slot
  /\ UNCHANGED <<stores, decommissioned>>
  /\ Track

\* Mutant of Finish: a batch is deleted although a label could not be unbound.
FinishAnyway(c) ==
  /\ At(c, "next")
  /\ task[c].todo = {}
  /\ IF Kind(c) = "delete"
     THEN Move(c, "delete")
     ELSE Say(c, IF task[c].failed = {} THEN "ok" ELSE "failed")
  /\ UNCHANGED <<stores, Slot, decommissioned>>
  /\ Track

\* Every item has been worked on.  A batch is deleted only if each of its
\* bound labels was unbound.
Finish(c) ==
  /\ At(c, "next")
  /\ task[c].todo = {}
  /\ IF Kind(c) = "delete" /\ task[c].failed = {}
     THEN Move(c, "delete")
     ELSE Say(c, IF task[c].failed = {} THEN "ok" ELSE "failed")
  /\ UNCHANGED <<stores, Slot, decommissioned>>
  /\ Track

(***************************************************************************)
(* The read of the registry, in a transaction of its own: the row of the   *)
(* label to unbind, the bound rows of the batch to delete, or the label    *)
(* that is bound to the device.                                            *)
(***************************************************************************)
Holder(d) == {q \in Labels : Holds(registry, q, d)}

ReadLabel(c) ==
  /\ Resumes(c, "read") /\ Kind(c) = "unbind"
  /\ LET row == registry[TheLabel(c)]
     IN  IF row.status = "bound"
         THEN Update(c, [task[c] EXCEPT !.at = "get", !.item.device = row.device])
         ELSE Miss(c)
  /\ UNCHANGED <<stores, Slot, decommissioned>>
  /\ Track

ReadBatch(c) ==
  /\ Resumes(c, "read") /\ Kind(c) = "delete"
  /\ IF \A q \in Batch : registry[q].status = "absent"
     THEN Say(c, "failed")
     ELSE LET bound == {q \in Batch : registry[q].status = "bound"}
              items == {Item(q, registry[q].device) : q \in bound}
          IN  Update(c, [task[c] EXCEPT !.at = "next", !.items = items, !.todo = items])
  /\ UNCHANGED <<stores, Slot, decommissioned>>
  /\ Track

\* decommission retires the label it finds, with the version of the device it
\* was given; replace-qr goes on to read the device, unless the label that is
\* to be bound is bound there already.
FindHolder(c) ==
  /\ Resumes(c, "read") /\ Kind(c) \in {"decommission", "replace"}
  /\ \E q \in IF Holder(TheDevice(c)) = {} THEN {None} ELSE Holder(TheDevice(c)) :
       LET t == [task[c] EXCEPT !.found = q]
       IN  CASE Kind(c) = "decommission" /\ q # None ->
                  /\ Invoke(c, "retire", q, None, seen[c])
                  /\ Update(c, [t EXCEPT !.at = "saga"])
             [] Kind(c) = "decommission" /\ q = None ->
                  Update(c, [t EXCEPT !.at = "status_get"]) /\ UNCHANGED Slot
             [] Kind(c) = "replace" /\ q # TheLabel(c) ->
                  Update(c, [t EXCEPT !.at = "get"]) /\ UNCHANGED Slot
             [] OTHER -> Succeed(c) /\ UNCHANGED Slot
  /\ UNCHANGED <<stores, decommissioned>>
  /\ Track

ReadRegistryFails(c) ==
  /\ "commit_error" \in Faults
  /\ Resumes(c, "read")
  /\ Say(c, "raised")
  /\ UNCHANGED <<stores, Slot, decommissioned>>
  /\ Track

(***************************************************************************)
(* get_device: the version the saga is called with.  replace-qr unbinds    *)
(* the label it found and then reads the device again for the bind.        *)
(***************************************************************************)
GetDevice(c) ==
  LET d == TheDevice(c)
      q == TheLabel(c)
      Saga(o, label, new) == Invoke(c, o, label, new, d) /\ Move(c, "saga")
  IN  /\ Resumes(c, "get")
      /\ CASE Kind(c) = "decommission" ->
                /\ Move(c, "read")
                /\ seen' = [seen EXCEPT ![c] = d]
                /\ UNCHANGED <<call, pc, old, owes, result, trail>>
           [] Kind(c) \in {"unbind", "delete"} -> Saga("unbind", q, None)
           [] Kind(c) = "rebind"               -> Saga("rebind", q, d)
           [] Kind(c) = "replace" /\ task[c].found # None ->
                Saga("unbind", task[c].found, None)
           [] OTHER                            -> Saga("bind", q, d)
      /\ UNCHANGED <<stores, decommissioned>>
      /\ Track

GetDeviceFails(c) ==
  /\ "netbox_error" \in Faults
  /\ Resumes(c, "get")
  /\ Say(c, "raised")
  /\ UNCHANGED <<stores, Slot, decommissioned>>
  /\ Track

-----------------------------------------------------------------------------
(***************************************************************************)
(* The saga returned or raised: what each handler catches is a failure of  *)
(* the item, what it does not catch ends the whole operation.              *)
(***************************************************************************)
RolledBack == {"rolled_back", "inconsistent"}

Caught(c) ==
  CASE Kind(c) = "retire"  -> {"state_conflict", "not_found", "missing_version"} \cup RolledBack
    [] Kind(c) = "restore" -> {"state_conflict", "not_found"}
    [] Kind(c) \in {"unbind", "delete"} ->
         {"state_conflict", "not_found", "conflict"} \cup RolledBack
    [] Kind(c) = "rebind"  -> Refusals \cup RolledBack
    [] Kind(c) = "decommission" -> {"state_conflict", "conflict", "rolled_back"}
    [] Op(c) = "unbind"    -> {"state_conflict", "conflict"} \cup RolledBack
    [] OTHER               -> {"state_conflict", "not_found", "conflict"} \cup RolledBack

\* A retire that finds its label retired already counts as done, and so does
\* a rebind to the device the label is on.
Lenient(c) ==
  \/ /\ Kind(c) = "retire" /\ result[c] = "state_conflict"
     /\ registry[TheLabel(c)].status = "retired"
  \/ Kind(c) = "rebind" /\ result[c] = "same_device"

\* What follows a saga that succeeded.  The decommissioning of a device
\* asserts that retire returned a device, which it does for a bound label only.
GoOn(c) ==
  CASE Kind(c) = "decommission" ->
         IF old[c] = None THEN Say(c, "raised") ELSE Move(c, "status_get")
    [] Kind(c) = "replace" /\ Op(c) = "unbind" ->
         Update(c, [task[c] EXCEPT !.at = "get", !.found = None])
    [] OTHER -> Succeed(c)

\* Mutant of Judge: the failure of an item is not counted.
JudgeCountless(c) ==
  CASE result[c] = "ok"        -> GoOn(c)
    [] result[c] \in Caught(c) -> Succeed(c)
    [] OTHER                   -> Say(c, "raised")

Judge(c) ==
  CASE result[c] = "ok"        -> GoOn(c)
    [] Lenient(c)              -> Succeed(c)
    [] result[c] \in Caught(c) /\ ~Lenient(c) -> Miss(c)
    [] OTHER                   -> Say(c, "raised")

SagaReturns(c) ==
  /\ At(c, "saga") /\ pc[c] = "done"
  /\ Judge(c)
  /\ UNCHANGED <<stores, Slot, decommissioned>>
  /\ Track

(***************************************************************************)
(* Decommissioning, Step C: patch_with_attribution sets the status.  When  *)
(* it fails after a label was retired, the service binds the label again,  *)
(* with the version the retire returned.                                   *)
(***************************************************************************)
StatusFails(c, caught) ==
  IF task[c].found = None
  THEN (IF caught THEN Miss(c) ELSE Say(c, "raised")) /\ UNCHANGED Slot
  ELSE /\ Invoke(c, "bind", task[c].found, TheDevice(c), seen[c])
       /\ Move(c, "undo")

StatusCompare(c) ==
  /\ Resumes(c, "status_get")
  /\ IF seen[c] = TheDevice(c) THEN Move(c, "status_patch") /\ UNCHANGED Slot
                               ELSE StatusFails(c, TRUE)
  /\ UNCHANGED <<stores, decommissioned>>
  /\ Track

SetStatus(c) ==
  /\ decommissioned' = decommissioned \cup {TheDevice(c)}
  /\ seen' = Outdated(TheDevice(c))
  /\ UNCHANGED <<stores, call, pc, old, owes, result, trail>>

StatusPatch(c) ==
  /\ Resumes(c, "status_patch")
  /\ SetStatus(c)
  /\ Succeed(c)
  /\ Track

StatusLandsUnanswered(c) ==
  /\ "lost_answer" \in Faults
  /\ Resumes(c, "status_patch")
  /\ SetStatus(c)
  /\ UNCHANGED task
  /\ Track

StatusRaises(c) ==
  /\ "netbox_error" \in Faults
  /\ Resumes(c, "status_get") \/ At(c, "status_patch")
  /\ StatusFails(c, FALSE)
  /\ UNCHANGED <<stores, decommissioned>>
  /\ Track

\* Mutant of UndoReturns: the answer of the bind is passed on.
UndoPassedOn(c) ==
  /\ At(c, "undo") /\ pc[c] = "done"
  /\ Update(c, [task[c] EXCEPT !.at = "next", !.undo = result[c]])
  /\ UNCHANGED <<stores, Slot, decommissioned>>
  /\ Track

\* _compensate_rebind_or_inconsistency: whatever the bind raises is caught.
UndoReturns(c) ==
  /\ At(c, "undo") /\ pc[c] = "done"
  /\ Update(c, [task[c] EXCEPT !.at = "next", !.failed = @ \cup {Id(task[c].item)},
                  !.undo = IF result[c] = "ok" THEN "rolled_back" ELSE "inconsistent"])
  /\ UNCHANGED <<stores, Slot, decommissioned>>
  /\ Track

(***************************************************************************)
(* The transaction that deletes a batch: a DELETE of its rows, whatever    *)
(* their status, and of the batch.                                         *)
(***************************************************************************)
DeleteBatch(c) ==
  /\ Resumes(c, "delete")
  /\ registry' = [q \in Labels |-> IF q \in Batch THEN Absent ELSE registry[q]]
  /\ \/ Say(c, "ok")
     \/ "commit_timeout" \in Faults /\ Say(c, "raised")
  /\ UNCHANGED <<shows, Slot, decommissioned>>
  /\ Track

DeleteBatchFails(c) ==
  /\ "commit_error" \in Faults
  /\ Resumes(c, "delete")
  /\ Say(c, "raised")
  /\ UNCHANGED <<stores, Slot, decommissioned>>
  /\ Track

ConsoleCrash(c) ==
  /\ "crash" \in Faults
  /\ Settled /\ Running(c)
  /\ IF Active(c) THEN Return(c, "crashed") ELSE UNCHANGED <<pc, result>>
  /\ Say(c, "crashed")
  /\ UNCHANGED <<stores, call, seen, old, owes, trail, decommissioned>>
  /\ Track

-----------------------------------------------------------------------------
SagaStep(r) ==
  /\ Settled
  /\ Handle(r) \/ LandUnanswered(r)
  /\ UNCHANGED <<task, decommissioned>>
  /\ Track

ClientStep(r) ==
  /\ Settled
  /\ Send(r) \/ Crash(r)
  /\ UNCHANGED <<task, decommissioned>>
  /\ Track

Edit(d) ==
  /\ Settled
  /\ EditElsewhere(d)
  /\ UNCHANGED <<task, decommissioned>>
  /\ Track

AllDone == (\A r \in Clients : pc[r] = "done") /\ \A c \in Consoles : At(c, "done")

Await(c) ==
  \/ ReadLabel(c) \/ ReadBatch(c) \/ FindHolder(c) \/ ReadRegistryFails(c)
  \/ GetDevice(c) \/ GetDeviceFails(c)
  \/ StatusCompare(c) \/ StatusPatch(c) \/ StatusRaises(c)
  \/ DeleteBatch(c) \/ DeleteBatchFails(c)

CNext ==
  \/ \E c \in Consoles :
       \/ Submit(c) \/ Take(c) \/ Finish(c) \/ SagaReturns(c) \/ UndoReturns(c)
       \/ Await(c) \/ StatusLandsUnanswered(c) \/ ConsoleCrash(c)
  \/ \E r \in Requests : SagaStep(r)
  \/ \E r \in Clients : ClientStep(r)
  \/ \E d \in Devices : Edit(d)
  \/ AllDone /\ UNCHANGED cvars

CSpec == CInit /\ [][CNext]_cvars

-----------------------------------------------------------------------------
CTypeOK ==
  /\ TypeOK
  /\ task \in [Consoles -> TaskType]
  /\ decommissioned \subseteq Devices
  /\ crossed \subseteq Consoles
  /\ blamed \subseteq Labels \cup Devices

(***************************************************************************)
(* However the sagas are chained, the registry and NetBox agree about      *)
(* every device, except those that some saga which overlapped another or a *)
(* force-delete of its label, overwrote a token, misjudged a write or      *)
(* answered one of Alarms touched.  In particular an operation that stops  *)
(* half-way, or deletes rows, leaves no token behind on its own.           *)
(***************************************************************************)
Excused == Tainted \cup blamed

ChainsDivergeAttributably ==
  \A d \in Devices \ (Excused \cup Busy) : Agree(d)

(***************************************************************************)
(* The flash an administrator reads is true when it is written, unless     *)
(* another request crossed the operation: each item that is not counted as *)
(* failed has reached what was asked for, in the registry and on every     *)
(* device that is not excused above, and a batch that is reported not      *)
(* deleted still has its rows.                                             *)
(***************************************************************************)
ShowsNone(q) == \A d \in Devices \ Excused : shows[d] # q

Achieved(kind, i) ==
  CASE kind = "retire"       -> registry[i.label].status = "retired" /\ ShowsNone(i.label)
    [] kind = "restore"      -> registry[i.label].status = "free"
    [] kind = "unbind"       -> registry[i.label].status = "free" /\ ShowsNone(i.label)
    [] kind = "decommission" -> /\ i.device \in decommissioned
                                /\ Holder(i.device) = {}
                                /\ i.device \notin Excused => shows[i.device] = None
    [] kind = "delete"       -> registry[i.label].status = "absent" /\ ShowsNone(i.label)
    [] OTHER                 -> /\ Holds(registry, i.label, i.device)
                                /\ i.device \notin Excused => shows[i.device] = i.label

Truthful(c) ==
  LET t == task[c]
  IN  /\ Kind(c) # "delete" /\ t.said \in {"ok", "failed"} =>
           \A i \in t.items : Id(i) \notin t.failed => Achieved(Kind(c), i)
      /\ Kind(c) = "delete" /\ t.said = "ok" =>
           \A q \in Batch : Achieved("delete", Item(q, None))
      /\ Kind(c) = "delete" /\ t.said = "failed" =>
           \A i \in t.items : registry[i.label].status # "absent"

AnswersAreTrue ==
  [][\A c \in Consoles :
       task[c].said = None /\ task[c].said' # None /\ c \notin crossed'
         => Truthful(c)']_cvars
=============================================================================
