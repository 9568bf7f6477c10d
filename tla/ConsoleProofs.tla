--------------------------- MODULE ConsoleProofs ---------------------------
(***************************************************************************)
(* Theorems about the composite operations of QRConsole, for any labels,   *)
(* devices, requests and consoles, any batch and any failures.             *)
(*                                                                         *)
(* A step of CSpec is a step of one saga, or the start of a saga by its    *)
(* console, or the deletion of a batch, or it touches no saga and neither  *)
(* store; the lemmas of QRLifecycleProofs and DivergenceProofs cover the   *)
(* first kind.  What remains is what the consoles add: a slot that is used *)
(* again, whose doubts pass to blamed, and rows that are deleted, of which *)
(* Cleared says that none is still bound to a device in agreement.  The    *)
(* last part, on the truth of the answers, follows an operation item by    *)
(* item: Reliable says what its locals mean as long as nobody crosses it.  *)
(***************************************************************************)
EXTENDS QRConsole, DivergenceProofs

\* What an item of each kind of operation names.
Fits(kind, i) ==
  /\ kind # "decommission" => i.label \in Labels
  /\ kind \in {"rebind", "replace", "decommission"} => i.device \in Devices

\* Where a handler works on an item.
Working == {"read", "get", "saga", "undo", "status_get", "status_patch"}

\* How the locals of an operation fit its control point.
TaskOK(t) ==
  /\ t.at # "idle" => t.kind \in Kinds
  /\ \A i \in t.todo : Fits(t.kind, i)
  /\ t.at \in Working /\ ~(t.at = "read" /\ t.kind = "delete") => Fits(t.kind, t.item)
  /\ t.at \in {"status_get", "status_patch", "undo"} => t.kind = "decommission"
  /\ t.at = "get" => t.kind \notin {"retire", "restore"}
  /\ t.at = "delete" => t.kind = "delete" /\ t.todo = {} /\ t.failed = {}

GoodTasks == {t \in TaskType : TaskOK(t)}

\* A console is in its slot while it waits for a saga, and only then; that of
\* a force-delete unbinds the label of the item.
SlotOK(c) ==
  /\ task[c].at \notin {"saga", "undo"} => ~Active(c)
  /\ At(c, "saga") /\ Kind(c) = "delete" => Op(c) = "unbind" /\ Label(c) = TheLabel(c)

CTypes ==
  /\ task \in [Consoles -> GoodTasks]
  /\ decommissioned \subseteq Devices
  /\ crossed \subseteq Consoles
  /\ blamed \subseteq Labels \cup Devices

CIInv == IInv /\ CTypes /\ \A c \in Consoles : SlotOK(c)

-----------------------------------------------------------------------------
(***************************************************************************)
(* The kinds of steps, as far as the sagas and the stores see them.        *)
(***************************************************************************)
Begin(op) == IF op = "restore" THEN "restore" ELSE "lookup"

\* Console c starts a saga, with call k.
Starts(c, k) ==
  /\ ~Active(c) /\ k \in Calls
  /\ call' = [call EXCEPT ![c] = k]
  /\ pc' = [pc EXCEPT ![c] = Begin(k.op)]
  /\ old' = [old EXCEPT ![c] = None]
  /\ owes' = [owes EXCEPT ![c] = {}]
  /\ result' = [result EXCEPT ![c] = None]
  /\ trail' = [trail EXCEPT ![c] = {}]
  /\ seen' \in [Requests -> Devices \cup {None, Stale}]
  /\ UNCHANGED stores

\* Only versions move.
Waits ==
  /\ UNCHANGED <<stores, call, pc, old, owes, result, trail>>
  /\ seen' \in [Requests -> Devices \cup {None, Stale}]

\* The rows of the batch go, and nothing else.
Deletes ==
  /\ registry' = [q \in Labels |-> IF q \in Batch THEN Absent ELSE registry[q]]
  /\ UNCHANGED <<shows, Slot>>

\* One step of a saga: of a client, or of one a console has started.
Works(r) == Moves(r) /\ (r \in Consoles => Active(r))

-----------------------------------------------------------------------------
LEMMA ConsolesAre == Consoles \subseteq Requests /\ Clients \subseteq Requests
  BY ConsoleAssumption DEF Clients

LEMMA Updated ==
  ASSUME CTypes, NEW c \in Consoles, NEW t \in GoodTasks, Update(c, t)
  PROVE  /\ task' \in [Consoles -> GoodTasks] /\ task'[c] = t
         /\ \A s \in Consoles \ {c} : task'[s] = task[s]
  BY DEF CTypes, Update

\* The fields of a task.
LEMMA TaskFields ==
  ASSUME CTypes, NEW c \in Consoles
  PROVE  /\ task[c] \in TaskType /\ TaskOK(task[c])
         /\ task[c].kind \in Kinds \cup {None} /\ task[c].at \in Steps
         /\ task[c].items \subseteq Items /\ task[c].todo \subseteq Items
         /\ task[c].item \in Items /\ task[c].found \in Labels \cup {None}
         /\ task[c].failed \subseteq Labels \cup Devices
         /\ task[c].item.label \in Labels \cup {None}
         /\ task[c].item.device \in Devices \cup {None}
  BY DEF CTypes, GoodTasks, TaskType, Items

\* The failures are named by the item's label or device.
LEMMA IdOf ==
  ASSUME NEW kind, NEW i \in Items, Fits(kind, i)
  PROVE  Id(i) \in Labels \cup Devices
  BY NoneAssumption DEF Fits, Items, Id

LEMMA NoItem == Item(None, None) \in Items
  BY DEF Item, Items

\* The operation ends.
LEMMA Said ==
  ASSUME CTypes, NEW c \in Consoles, ~At(c, "idle"),
         NEW a \in {"ok", "failed", "raised", "crashed"}, Say(c, a)
  PROVE  /\ task' \in [Consoles -> GoodTasks]
         /\ \A s \in Consoles \ {c} : task'[s] = task[s]
         /\ task'[c].at = "done" /\ task'[c].kind = task[c].kind
  <1> DEFINE t == [task[c] EXCEPT !.at = "done", !.said = a, !.todo = {},
                                  !.item = Item(None, None), !.found = None]
  <1>1. t \in TaskType /\ t.at = "done" /\ t.kind = task[c].kind /\ t.todo = {}
    BY TaskFields, NoItem DEF TaskType, Steps
  <1>2. TaskOK(t)
    BY <1>1, TaskFields DEF TaskOK, Working, At
  <1> HIDE DEF t
  <1>3. t \in GoodTasks
    BY <1>1, <1>2 DEF GoodTasks
  <1>4. Update(c, t)
    BY DEF Say, t
  <1> QED
    BY <1>1, <1>3, <1>4, Updated

\* It goes on to another step with its locals as they are.
LEMMA MovedOn ==
  ASSUME CTypes, NEW c \in Consoles, NEW step \in Steps, Move(c, step),
         TaskOK([task[c] EXCEPT !.at = step])
  PROVE  /\ task' \in [Consoles -> GoodTasks]
         /\ \A s \in Consoles \ {c} : task'[s] = task[s]
         /\ task'[c] = [task[c] EXCEPT !.at = step]
         /\ task'[c].at = step /\ task'[c].kind = task[c].kind
         /\ task'[c].item = task[c].item /\ task'[c].todo = task[c].todo
         /\ task'[c].failed = task[c].failed
  <1> DEFINE t == [task[c] EXCEPT !.at = step]
  <1>1. /\ t \in TaskType /\ t.at = step /\ t.kind = task[c].kind
        /\ t.item = task[c].item /\ t.todo = task[c].todo /\ t.failed = task[c].failed
    BY TaskFields DEF TaskType
  <1>2. Update(c, t) /\ TaskOK(t)
    BY DEF Move
  <1> HIDE DEF t
  <1>3. t \in GoodTasks
    BY <1>1, <1>2 DEF GoodTasks
  <1>4. task' \in [Consoles -> GoodTasks] /\ task'[c] = t
        /\ \A s \in Consoles \ {c} : task'[s] = task[s]
    BY <1>2, <1>3, Updated
  <1> QED
    BY <1>1, <1>4 DEF t

\* It goes on to its next item.
LEMMA Advanced ==
  ASSUME CTypes, NEW c \in Consoles, ~At(c, "idle"), Succeed(c)
  PROVE  /\ task' \in [Consoles -> GoodTasks]
         /\ \A s \in Consoles \ {c} : task'[s] = task[s]
         /\ task'[c].at = "next" /\ task'[c].kind = task[c].kind
         /\ task'[c].todo = task[c].todo /\ task'[c].failed = task[c].failed
  <1>1. "next" \in Steps /\ TaskOK([task[c] EXCEPT !.at = "next"])
    BY TaskFields DEF TaskOK, TaskType, Steps, Working, At
  <1> QED
    BY <1>1, MovedOn DEF Succeed

\* An item is counted as failed.
LEMMA Missed ==
  ASSUME CTypes, NEW c \in Consoles, ~At(c, "idle"),
         NEW n \in {None, "rolled_back", "inconsistent"},
         Fits(Kind(c), task[c].item),
         Update(c, [task[c] EXCEPT !.at = "next", !.failed = @ \cup {Id(task[c].item)},
                                   !.undo = n])
         \/ Miss(c)
  PROVE  /\ task' \in [Consoles -> GoodTasks]
         /\ \A s \in Consoles \ {c} : task'[s] = task[s]
         /\ task'[c].at = "next" /\ task'[c].kind = task[c].kind
         /\ task'[c].failed # {}
  <1>1. Id(task[c].item) \in Labels \cup Devices
    BY TaskFields, IdOf
  <1>2. PICK f \in SUBSET (Labels \cup Devices) : f = task[c].failed \cup {Id(task[c].item)}
    BY <1>1, TaskFields
  <1>3. PICK m \in {None, "rolled_back", "inconsistent"} :
          Update(c, [task[c] EXCEPT !.at = "next", !.failed = f, !.undo = m])
    <2>1. CASE Miss(c)
      <3>1. [task[c] EXCEPT !.at = "next", !.failed = f]
              = [task[c] EXCEPT !.at = "next", !.failed = f, !.undo = task[c].undo]
        BY TaskFields DEF TaskType
      <3>2. task[c].undo \in {None, "rolled_back", "inconsistent"}
        BY TaskFields DEF TaskType
      <3>3. Update(c, [task[c] EXCEPT !.at = "next", !.failed = f])
        BY <1>2, <2>1 DEF Miss
      <3> QED
        BY <3>1, <3>2, <3>3
    <2> QED
      BY <1>2, <2>1
  <1> DEFINE t == [task[c] EXCEPT !.at = "next", !.failed = f, !.undo = m]
  <1>4. /\ t \in TaskType /\ t.at = "next" /\ t.kind = task[c].kind /\ t.failed = f
        /\ t.todo = task[c].todo
    BY TaskFields DEF TaskType, Steps
  <1>5. TaskOK(t)
    BY <1>4, TaskFields DEF TaskOK, Working, At
  <1>6. Update(c, t)
    BY <1>3
  <1> HIDE DEF t
  <1>7. t \in GoodTasks
    BY <1>4, <1>5 DEF GoodTasks
  <1> QED
    BY <1>2, <1>4, <1>6, <1>7, Updated

-----------------------------------------------------------------------------
(***************************************************************************)
(* What a step of console c's handler does to its task, and which kind of  *)
(* step it is.                                                             *)
(***************************************************************************)
Typed(c) ==
  /\ task' \in [Consoles -> GoodTasks]
  /\ \A s \in Consoles \ {c} : task'[s] = task[s]

\* How the force-delete of a batch gets from one step to the next: as long as
\* no item failed, a label leaves the list to be worked on, and leaves that
\* when its saga has answered "ok".
DeleteTurn(c) ==
  task'[c].kind = "delete" /\ task'[c].at \notin {"read", "done"} /\ task'[c].failed = {} =>
    /\ Kind(c) = "delete" /\ Running(c) /\ task[c].failed = {}
    /\ \/ /\ At(c, "next") /\ task'[c].at = "get" /\ task'[c].item \in task[c].todo
          /\ task'[c].todo = task[c].todo \ {task'[c].item}
       \/ /\ At(c, "next") /\ task'[c].at = "delete" /\ task[c].todo = {}
       \/ /\ At(c, "get") /\ task'[c].at = "saga" /\ task'[c].item = task[c].item
          /\ task'[c].todo = task[c].todo /\ pc'[c] # "done"
       \/ /\ At(c, "saga") /\ pc[c] = "done" /\ result[c] = "ok" /\ task'[c].at = "next"
          /\ task'[c].todo = task[c].todo
       \/ /\ At(c, "read") /\ task'[c].at = "next"
          /\ \A q \in Batch : registry[q].status = "bound" =>
               \E i \in task'[c].todo : i.label = q

\* What every step of console c's handler is shown to be.
Turn(c) ==
  /\ Typed(c) /\ SlotOK(c)' /\ DeleteTurn(c)
  /\ Waits \/ \E k \in Calls : Starts(c, k)

\* A step that touches no slot.
LEMMA Still ==
  ASSUME IInv, UNCHANGED <<stores, Slot>>
  PROVE  Waits
  BY DEF Waits, Slot, IInv, TypeOK

\* What a step leaves alone in the slots it is not about.
LEMMA WaitsSlots ==
  ASSUME Waits, NEW c
  PROVE  /\ Active(c)' <=> Active(c)
         /\ Op(c)' = Op(c) /\ Label(c)' = Label(c) /\ pc'[c] = pc[c]
  BY DEF Waits, Active, Op, Label

\* A handler calls a saga.
LEMMA Invoked ==
  ASSUME IInv, NEW c \in Consoles, ~Active(c), UNCHANGED stores,
         NEW o, NEW q \in Labels, NEW d, NEW v \in Devices \cup {None, Stale},
         \/ o \in {"bind", "rebind"} /\ d \in Devices
         \/ o \in {"retire", "unbind", "restore"} /\ d = None,
         Invoke(c, o, q, d, v)
  PROVE  \E k \in Calls : Starts(c, k) /\ k.op = o /\ k.label = q
  <1> DEFINE k == [op |-> o, label |-> q, new |-> d]
  <1>1. k \in Calls /\ k.op = o /\ k.label = q
    BY DEF Calls
  <1>2. seen' \in [Requests -> Devices \cup {None, Stale}]
    BY DEF Invoke, IInv, TypeOK
  <1>3. Starts(c, k)
    BY <1>1, <1>2 DEF Starts, Invoke, Goto, Begin
  <1> QED
    BY <1>1, <1>3

LEMMA StartedSlot ==
  ASSUME IInv, NEW c \in Consoles, NEW k, Starts(c, k)
  PROVE  /\ pc'[c] \in {"lookup", "restore"} /\ Active(c)'
         /\ Op(c)' = k.op /\ Label(c)' = k.label
  BY ConsolesAre DEF Starts, Begin, Active, Op, Label, IInv, TypeOK

\* The turns that touch no slot, and end the operation ...
LEMMA EndTurn ==
  ASSUME CIInv, NEW c \in Consoles, Waits, ~Active(c), ~At(c, "idle"),
         NEW a \in {"ok", "failed", "raised", "crashed"}, Say(c, a)
  PROVE  Turn(c)
  <1>1. Typed(c) /\ task'[c].at = "done"
    BY Said DEF CIInv, Typed
  <1>2. SlotOK(c)'
    BY <1>1, WaitsSlots DEF SlotOK, At
  <1> QED
    BY <1>1, <1>2 DEF Turn, DeleteTurn

\* ... or count an item as failed ...
LEMMA MissTurn ==
  ASSUME CIInv, NEW c \in Consoles, Waits, ~Active(c), ~At(c, "idle"),
         NEW n \in {None, "rolled_back", "inconsistent"},
         Fits(Kind(c), task[c].item),
         Update(c, [task[c] EXCEPT !.at = "next", !.failed = @ \cup {Id(task[c].item)},
                                   !.undo = n])
         \/ Miss(c)
  PROVE  Turn(c)
  <1>1. Typed(c) /\ task'[c].at = "next" /\ task'[c].failed # {}
    BY Missed DEF CIInv, Typed
  <1>2. SlotOK(c)'
    BY <1>1, WaitsSlots DEF SlotOK, At
  <1> QED
    BY <1>1, <1>2 DEF Turn, DeleteTurn

\* ... or go on, for a kind of operation that deletes nothing.
LEMMA OnTurn ==
  ASSUME CIInv, NEW c \in Consoles, Waits, ~Active(c),
         NEW t \in GoodTasks, t.kind # "delete", t.at \notin {"saga", "undo"},
         Update(c, t)
  PROVE  Turn(c)
  <1>1. Typed(c) /\ task'[c] = t
    BY Updated DEF CIInv, Typed
  <1>2. SlotOK(c)'
    BY <1>1, WaitsSlots DEF SlotOK, At
  <1> QED
    BY <1>1, <1>2 DEF Turn, DeleteTurn

\* The same of a turn that starts a saga.
LEMMA StartTurn ==
  ASSUME CIInv, NEW c \in Consoles, NEW k \in Calls, Starts(c, k),
         NEW t \in GoodTasks, t.kind # "delete", t.at \in {"saga", "undo"},
         Update(c, t)
  PROVE  Turn(c)
  <1>1. Typed(c) /\ task'[c] = t
    BY Updated DEF CIInv, Typed
  <1>2. SlotOK(c)'
    BY <1>1 DEF SlotOK, At, Kind
  <1> QED
    BY <1>1, <1>2 DEF Turn, DeleteTurn

-----------------------------------------------------------------------------
\* A handler that is not in its saga is not in its slot.
LEMMA Free ==
  ASSUME CIInv, NEW c \in Consoles, task[c].at \notin {"saga", "undo"} \/ pc[c] = "done"
  PROVE  ~Active(c)
  BY DEF CIInv, SlotOK, Active

LEMMA SelectionsFit ==
  ASSUME NEW kind \in Kinds, NEW items \in Selections(kind)
  PROVE  items \subseteq Items /\ \A i \in items : Fits(kind, i)
  BY DEF Kinds, Selections, Items, Item, Fits

LEMMA SubmitTurn ==
  ASSUME CIInv, NEW c \in Consoles, Submit(c)
  PROVE  Turn(c)
  <1>1. Waits /\ ~Active(c)
    BY Still, Free DEF Submit, Resumes, At, CIInv
  <1>0. PICK kind \in Kinds : \E items \in Selections(kind) :
          Update(c, [NoTask EXCEPT !.kind = kind, !.items = items, !.todo = items,
                       !.at = IF kind = "delete" THEN "read" ELSE "next"])
    BY DEF Submit
  <1>2. PICK items \in Selections(kind) :
          Update(c, [NoTask EXCEPT !.kind = kind, !.items = items, !.todo = items,
                       !.at = IF kind = "delete" THEN "read" ELSE "next"])
    BY <1>0
  <1>3. items \subseteq Items /\ \A i \in items : Fits(kind, i)
    BY SelectionsFit
  <1> DEFINE t == [NoTask EXCEPT !.kind = kind, !.items = items, !.todo = items,
                     !.at = IF kind = "delete" THEN "read" ELSE "next"]
  <1>4. /\ t \in TaskType /\ t.kind = kind /\ t.todo = items
        /\ t.at = IF kind = "delete" THEN "read" ELSE "next"
    BY <1>3, NoItem DEF NoTask, TaskType, Steps
  <1>5. TaskOK(t)
    BY <1>3, <1>4 DEF TaskOK, Working
  <1>6. Update(c, t)
    BY <1>2
  <1> HIDE DEF t
  <1>7. t \in GoodTasks
    BY <1>4, <1>5 DEF GoodTasks
  <1>8. Typed(c) /\ task'[c] = t
    BY <1>6, <1>7, Updated DEF CIInv, Typed
  <1>9. SlotOK(c)'
    BY <1>1, <1>4, <1>8, WaitsSlots DEF SlotOK, At
  <1> QED
    BY <1>1, <1>4, <1>8, <1>9 DEF Turn, DeleteTurn

LEMMA TakeTurn ==
  ASSUME CIInv, NEW c \in Consoles, Take(c)
  PROVE  Turn(c)
  <1>1. At(c, "next") /\ ~Active(c) /\ UNCHANGED stores
    BY Free DEF Take, At
  <1> DEFINE T(i, step) == [task[c] EXCEPT !.item = i, !.todo = @ \ {i}, !.found = None,
                                           !.at = step]
  <1>2. ASSUME NEW i \in task[c].todo, NEW step \in Steps
        PROVE  /\ T(i, step) \in TaskType /\ T(i, step).at = step /\ T(i, step).item = i
               /\ T(i, step).todo = task[c].todo \ {i} /\ T(i, step).kind = Kind(c)
               /\ T(i, step).failed = task[c].failed
    BY TaskFields DEF TaskType, CIInv, Kind
  <1>3. ASSUME NEW i \in task[c].todo, NEW step \in {"saga", "read", "get"},
               step = "get" => Kind(c) \notin {"retire", "restore"}
        PROVE  T(i, step) \in GoodTasks
    <2>1. TaskOK(task[c]) /\ Fits(Kind(c), i)
      BY TaskFields DEF CIInv, TaskOK, Kind
    <2>2. T(i, step) \in TaskType /\ TaskOK(T(i, step))
      <3> HIDE DEF T
      <3>1. step \in Steps
        BY DEF Steps
      <3> QED
        BY <1>1, <1>2, <1>3, <2>1, <3>1 DEF TaskOK, At, Kind, Working
    <2> QED
      BY <2>2 DEF GoodTasks
  <1>4. ASSUME NEW i \in task[c].todo, Kind(c) \in {"retire", "restore"},
               Invoke(c, Kind(c), i.label, None, None), Update(c, T(i, "saga"))
        PROVE  Turn(c)
    <2>1. i.label \in Labels
      BY <1>4, TaskFields DEF CIInv, TaskOK, Fits, Kind
    <2>2. \E k \in Calls : Starts(c, k)
      BY <1>1, <1>4, <2>1, Invoked DEF CIInv
    <2>3. T(i, "saga") \in GoodTasks
      BY <1>3
    <2> HIDE DEF T
    <2>4. T(i, "saga").kind # "delete" /\ T(i, "saga").at = "saga"
      BY <1>2, <1>4 DEF Steps
    <2> QED
      BY <1>4, <2>2, <2>3, <2>4, StartTurn
  <1>5. ASSUME NEW i \in task[c].todo, Kind(c) \notin {"retire", "restore"}, UNCHANGED Slot,
               Update(c, T(i, IF Kind(c) \in {"unbind", "replace"} THEN "read" ELSE "get"))
        PROVE  Turn(c)
    <2>1. PICK step \in {"read", "get"} :
            step = IF Kind(c) \in {"unbind", "replace"} THEN "read" ELSE "get"
      OBVIOUS
    <2>2. T(i, step) \in GoodTasks
      BY <1>3, <1>5
    <2> HIDE DEF T
    <2>3. /\ T(i, step).at = step /\ T(i, step).item = i
          /\ T(i, step).todo = task[c].todo \ {i} /\ T(i, step).kind = Kind(c)
          /\ T(i, step).failed = task[c].failed
      BY <1>2 DEF Steps
    <2>4. Waits
      BY <1>1, <1>5, Still DEF CIInv
    <2>5. Update(c, T(i, step))
      BY <1>5, <2>1
    <2>6. Typed(c) /\ task'[c] = T(i, step)
      BY <2>2, <2>5, Updated DEF CIInv, Typed
    <2>7. SlotOK(c)'
      BY <1>1, <2>3, <2>4, <2>6, WaitsSlots DEF SlotOK, At
    <2>8. DeleteTurn(c)
      BY <1>1, <2>1, <2>3, <2>6 DEF DeleteTurn, At, Running, Kind
    <2> QED
      BY <2>4, <2>6, <2>7, <2>8 DEF Turn
  <1>6. PICK i \in task[c].todo :
          IF Kind(c) \in {"retire", "restore"}
          THEN Invoke(c, Kind(c), i.label, None, None) /\ Update(c, T(i, "saga"))
          ELSE /\ Update(c, T(i, IF Kind(c) \in {"unbind", "replace"} THEN "read" ELSE "get"))
               /\ UNCHANGED Slot
    BY DEF Take
  <1> HIDE DEF T
  <1> QED
    BY <1>4, <1>5, <1>6

LEMMA FinishTurn ==
  ASSUME CIInv, NEW c \in Consoles, Finish(c)
  PROVE  Turn(c)
  <1>1. At(c, "next") /\ ~Active(c) /\ Waits /\ task[c].todo = {} /\ ~At(c, "idle")
    BY Free, Still DEF Finish, At, CIInv
  <1>2. CASE Kind(c) = "delete" /\ task[c].failed = {}
    <2>1. "delete" \in Steps /\ TaskOK([task[c] EXCEPT !.at = "delete"])
      BY <1>1, <1>2, TaskFields DEF CIInv, TaskOK, TaskType, Steps, Working, At, Kind
    <2>2. Typed(c) /\ task'[c].at = "delete"
      BY <1>2, <2>1, MovedOn DEF Finish, CIInv, Typed
    <2>3. SlotOK(c)'
      BY <1>1, <2>2, WaitsSlots DEF SlotOK, At
    <2>4. DeleteTurn(c)
      BY <1>1, <1>2, <2>2 DEF DeleteTurn, At, Running
    <2> QED
      BY <1>1, <2>2, <2>3, <2>4 DEF Turn
  <1>3. CASE ~(Kind(c) = "delete" /\ task[c].failed = {})
    BY <1>1, <1>3, EndTurn DEF Finish
  <1> QED
    BY <1>2, <1>3

\* A row of the registry, as a handler reads it.
LEMMA RowRead ==
  ASSUME IInv, NEW q \in Labels
  PROVE  registry[q].device \in Devices \cup {None}
  BY DEF IInv, TypeOK, Row

LEMMA ReadLabelTurn ==
  ASSUME CIInv, NEW c \in Consoles, ReadLabel(c)
  PROVE  Turn(c)
  <1>1. /\ At(c, "read") /\ Kind(c) = "unbind" /\ ~Active(c) /\ Waits /\ ~At(c, "idle")
    BY Free, Still DEF ReadLabel, Resumes, At, CIInv
  <1>2. Fits(Kind(c), task[c].item) /\ TheLabel(c) \in Labels
    BY <1>1, TaskFields DEF CIInv, TaskOK, Working, At, Kind, Fits, TheLabel
  <1>3. CASE registry[TheLabel(c)].status = "bound"
    <2> DEFINE t == [task[c] EXCEPT !.at = "get", !.item.device = registry[TheLabel(c)].device]
    <2>1. PICK d \in Devices \cup {None} : d = registry[TheLabel(c)].device
      BY <1>2, RowRead DEF CIInv
    <2>2. task[c].item \in Items
      BY TaskFields DEF CIInv
    <2>3. [task[c].item EXCEPT !.device = d] \in Items
      BY <2>1, <2>2 DEF Items
    <2>4. /\ t \in TaskType /\ t.at = "get" /\ t.kind = Kind(c) /\ t.todo = task[c].todo
          /\ t.item.label = TheLabel(c)
      BY <2>1, <2>2, <2>3, TaskFields DEF CIInv, TaskType, Steps, Kind, TheLabel, Items
    <2>5. TaskOK(task[c])
      BY TaskFields DEF CIInv
    <2>6. TaskOK(t)
      <3> HIDE DEF t
      <3> QED
        BY <1>1, <1>2, <2>4, <2>5 DEF TaskOK, Fits, Kind, Working, Kinds, At
    <2>7. Update(c, t)
      BY <1>3 DEF ReadLabel
    <2> HIDE DEF t
    <2> QED
      BY <1>1, <2>4, <2>6, <2>7, OnTurn DEF GoodTasks
  <1>4. CASE registry[TheLabel(c)].status # "bound"
    <2>1. Miss(c)
      BY <1>4 DEF ReadLabel
    <2> QED
      BY <1>1, <1>2, <2>1, MissTurn
  <1> QED
    BY <1>3, <1>4

LEMMA ReadBatchTurn ==
  ASSUME CIInv, NEW c \in Consoles, ReadBatch(c)
  PROVE  Turn(c)
  <1>1. /\ At(c, "read") /\ Kind(c) = "delete" /\ ~Active(c) /\ Waits /\ ~At(c, "idle")
    BY Free, Still DEF ReadBatch, Resumes, At, CIInv
  <1>2. CASE \A q \in Batch : registry[q].status = "absent"
    BY <1>1, <1>2, EndTurn DEF ReadBatch
  <1>3. CASE ~(\A q \in Batch : registry[q].status = "absent")
    <2> DEFINE items == {Item(q, registry[q].device) :
                           q \in {p \in Batch : registry[p].status = "bound"}}
               t == [task[c] EXCEPT !.at = "next", !.items = items, !.todo = items]
    <2>1. /\ items \subseteq Items /\ \A i \in items : i.label \in Labels
      BY RowRead, ConsoleAssumption DEF Item, Items, CIInv
    <2>2. ASSUME NEW q \in Batch, registry[q].status = "bound"
          PROVE  \E i \in items : i.label = q
      <3>1. Item(q, registry[q].device) \in items
        BY <2>2
      <3>2. Item(q, registry[q].device).label = q
        BY DEF Item
      <3> HIDE DEF items
      <3> QED
        BY <3>1, <3>2
    <2>3. Update(c, t)
      BY <1>3 DEF ReadBatch
    <2> HIDE DEF items
    <2>4. /\ t \in TaskType /\ t.at = "next" /\ t.kind = Kind(c) /\ t.todo = items
          /\ t.failed = task[c].failed
      BY <2>1, TaskFields DEF CIInv, TaskType, Steps, Kind
    <2>5. TaskOK(t)
      <3> HIDE DEF t
      <3> QED
        BY <1>1, <2>1, <2>4 DEF TaskOK, Fits, Kind, Working, Kinds
    <2> HIDE DEF t
    <2>6. Typed(c) /\ task'[c] = t
      BY <2>3, <2>4, <2>5, Updated DEF CIInv, Typed, GoodTasks
    <2>7. SlotOK(c)'
      BY <1>1, <2>4, <2>6, WaitsSlots DEF SlotOK, At
    <2>8. DeleteTurn(c)
      BY <1>1, <2>2, <2>4, <2>6 DEF DeleteTurn, At, Running
    <2> QED
      BY <1>1, <2>6, <2>7, <2>8 DEF Turn
  <1> QED
    BY <1>2, <1>3

\* The task of a decommission or of replace-qr that has found label q.
LEMMA FoundTask ==
  ASSUME CTypes, NEW c \in Consoles, At(c, "read"), Kind(c) \in {"decommission", "replace"},
         NEW q \in Labels \cup {None}, NEW step \in {"saga", "status_get", "get", "next"},
         step = "status_get" => Kind(c) = "decommission"
  PROVE  LET t == [task[c] EXCEPT !.found = q, !.at = step]
         IN  /\ t \in GoodTasks /\ t.kind = Kind(c) /\ t.at = step
             /\ Fits(Kind(c), task[c].item)
  <1> DEFINE t == [task[c] EXCEPT !.found = q, !.at = step]
  <1>1. /\ t \in TaskType /\ t.at = step /\ t.kind = Kind(c) /\ t.todo = task[c].todo
        /\ t.item = task[c].item
    BY TaskFields DEF TaskType, Steps, Kind
  <1>2. TaskOK(task[c])
    BY TaskFields
  <1>3. Fits(Kind(c), task[c].item)
    BY <1>2 DEF TaskOK, At, Kind, Working
  <1> HIDE DEF t
  <1>4. TaskOK(t)
    BY <1>1, <1>2, <1>3 DEF TaskOK, At, Kind, Working, Kinds
  <1> QED
    BY <1>1, <1>3, <1>4 DEF GoodTasks, t

LEMMA FindHolderTurn ==
  ASSUME CIInv, NEW c \in Consoles, FindHolder(c)
  PROVE  Turn(c)
  <1>1. /\ At(c, "read") /\ Kind(c) \in {"decommission", "replace"} /\ ~Active(c)
        /\ UNCHANGED stores /\ ~At(c, "idle")
    BY Free DEF FindHolder, Resumes, At
  <1> DEFINE T(q, step) == [task[c] EXCEPT !.found = q, !.at = step]
  <1>2. PICK q \in IF Holder(TheDevice(c)) = {} THEN {None} ELSE Holder(TheDevice(c)) :
          \/ /\ Kind(c) = "decommission" /\ q # None
             /\ Invoke(c, "retire", q, None, seen[c]) /\ Update(c, T(q, "saga"))
          \/ Kind(c) = "decommission" /\ Update(c, T(q, "status_get")) /\ UNCHANGED Slot
          \/ Kind(c) = "replace" /\ Update(c, T(q, "get")) /\ UNCHANGED Slot
          \/ Succeed(c) /\ UNCHANGED Slot
    BY DEF FindHolder
  <1>3. q \in Labels \cup {None}
    BY DEF Holder
  <1>4. UNCHANGED Slot => Waits
    BY <1>1, Still DEF CIInv
  <1>5. CASE /\ Kind(c) = "decommission" /\ q # None
             /\ Invoke(c, "retire", q, None, seen[c]) /\ Update(c, T(q, "saga"))
    <2>1. seen[c] \in Devices \cup {None, Stale}
      BY ConsolesAre DEF CIInv, IInv, TypeOK
    <2>2. \E k \in Calls : Starts(c, k)
      BY <1>1, <1>3, <1>5, <2>1, Invoked DEF CIInv
    <2>3. T(q, "saga") \in GoodTasks /\ T(q, "saga").kind = Kind(c) /\ T(q, "saga").at = "saga"
      BY <1>1, <1>3, FoundTask DEF CIInv
    <2> HIDE DEF T
    <2> QED
      BY <1>5, <2>2, <2>3, StartTurn
  <1>6. ASSUME NEW step \in {"status_get", "get"}, Update(c, T(q, step)), UNCHANGED Slot,
               step = "status_get" => Kind(c) = "decommission"
        PROVE  Turn(c)
    <2>0. CTypes /\ step \in {"saga", "status_get", "get", "next"}
      BY <1>6 DEF CIInv
    <2>1. T(q, step) \in GoodTasks /\ T(q, step).kind = Kind(c) /\ T(q, step).at = step
      BY <1>1, <1>3, <1>6, <2>0, FoundTask
    <2> HIDE DEF T
    <2> QED
      BY <1>1, <1>4, <1>6, <2>1, OnTurn
  <1>7. CASE Succeed(c) /\ UNCHANGED Slot
    <2>1. /\ Typed(c) /\ task'[c].at = "next" /\ task'[c].kind = Kind(c)
      BY <1>1, <1>7, Advanced DEF CIInv, Typed, Kind
    <2>2. SlotOK(c)'
      BY <1>1, <1>4, <1>7, <2>1, WaitsSlots DEF SlotOK, At
    <2> QED
      BY <1>1, <1>4, <1>7, <2>1, <2>2 DEF Turn, DeleteTurn
  <1> HIDE DEF T
  <1> QED
    BY <1>2, <1>5, <1>6, <1>7

\* A handler whose read, or whose transaction, raises.
LEMMA RaisesTurn ==
  ASSUME CIInv, NEW c \in Consoles,
         ReadRegistryFails(c) \/ GetDeviceFails(c) \/ DeleteBatchFails(c)
  PROVE  Turn(c)
  <1>1. /\ task[c].at \in {"read", "get", "delete"} /\ ~At(c, "idle")
        /\ UNCHANGED <<stores, Slot>> /\ Say(c, "raised")
    BY DEF ReadRegistryFails, GetDeviceFails, DeleteBatchFails, Resumes, At
  <1>2. Waits /\ ~Active(c)
    BY <1>1, Still, Free DEF CIInv
  <1> QED
    BY <1>1, <1>2, EndTurn

-----------------------------------------------------------------------------
\* The task of a handler that goes on to work on the same item.
LEMMA MovedTask ==
  ASSUME CTypes, NEW c \in Consoles, task[c].at \in Working,
         ~(At(c, "read") /\ Kind(c) = "delete"), NEW step \in Working,
         step \in {"status_get", "status_patch", "undo"} => Kind(c) = "decommission",
         step = "get" => Kind(c) \notin {"retire", "restore"}
  PROVE  LET t == [task[c] EXCEPT !.at = step]
         IN  /\ t \in GoodTasks /\ t.kind = Kind(c) /\ t.at = step
             /\ t.item = task[c].item /\ t.todo = task[c].todo /\ t.failed = task[c].failed
  <1> DEFINE t == [task[c] EXCEPT !.at = step]
  <1>1. /\ t \in TaskType /\ t.at = step /\ t.kind = Kind(c) /\ t.todo = task[c].todo
        /\ t.item = task[c].item /\ t.failed = task[c].failed
    BY TaskFields DEF TaskType, Steps, Kind, Working
  <1>2. TaskOK(task[c])
    BY TaskFields
  <1> HIDE DEF t
  <1>3. TaskOK(t)
    BY <1>1, <1>2 DEF TaskOK, At, Kind, Working
  <1> QED
    BY <1>1, <1>3 DEF GoodTasks, t

\* The item a handler works on.
LEMMA ItemFits ==
  ASSUME CTypes, NEW c \in Consoles, task[c].at \in Working,
         ~(At(c, "read") /\ Kind(c) = "delete")
  PROVE  /\ Fits(Kind(c), task[c].item) /\ Kind(c) \in Kinds
         /\ Kind(c) # "decommission" => TheLabel(c) \in Labels
         /\ Kind(c) \in {"rebind", "replace", "decommission"} => TheDevice(c) \in Devices
         /\ task[c].at \in {"status_get", "status_patch", "undo"} => Kind(c) = "decommission"
  BY TaskFields DEF TaskOK, Fits, At, Kind, Working, TheLabel, TheDevice

\* The item is done.
LEMMA SucceedTurn ==
  ASSUME CIInv, NEW c \in Consoles, Waits, ~Active(c), ~At(c, "idle"), Succeed(c),
         Kind(c) = "delete" => At(c, "saga") /\ pc[c] = "done" /\ result[c] = "ok"
  PROVE  Turn(c)
  <1>1. /\ Typed(c) /\ task'[c].at = "next" /\ task'[c].kind = Kind(c)
        /\ task'[c].todo = task[c].todo /\ task'[c].failed = task[c].failed
    BY Advanced DEF CIInv, Typed, Kind
  <1>2. SlotOK(c)'
    BY <1>1, WaitsSlots DEF SlotOK, At
  <1>3. DeleteTurn(c)
    BY <1>1 DEF DeleteTurn, At, Running
  <1> QED
    BY <1>1, <1>2, <1>3 DEF Turn

\* GetDevice, where it calls a saga.
LEMMA GetDeviceStarts ==
  ASSUME CIInv, NEW c \in Consoles, At(c, "get"), UNCHANGED stores,
         NEW o, NEW q \in Labels, NEW d,
         \/ o \in {"bind", "rebind"} /\ d \in Devices
         \/ o = "unbind" /\ d = None,
         NEW v \in Devices \cup {None, Stale},
         Kind(c) = "delete" => o = "unbind" /\ q = TheLabel(c),
         Invoke(c, o, q, d, v), Move(c, "saga")
  PROVE  Turn(c)
  <1>1. ~Active(c)
    BY Free DEF At
  <1>2. PICK k \in Calls : Starts(c, k) /\ k.op = o /\ k.label = q
    BY <1>1, Invoked DEF CIInv
  <1> DEFINE t == [task[c] EXCEPT !.at = "saga"]
  <1>3. /\ t \in GoodTasks /\ t.kind = Kind(c) /\ t.at = "saga"
        /\ t.item = task[c].item /\ t.todo = task[c].todo /\ t.failed = task[c].failed
    BY MovedTask DEF CIInv, Working, At
  <1>4. Update(c, t)
    BY DEF Move
  <1> HIDE DEF t
  <1>5. Typed(c) /\ task'[c] = t
    BY <1>3, <1>4, Updated DEF CIInv, Typed
  <1>6. /\ pc'[c] # "done" /\ Op(c)' = o /\ Label(c)' = q
    BY <1>2, StartedSlot DEF CIInv
  <1>7. SlotOK(c)'
    BY <1>3, <1>5, <1>6 DEF SlotOK, At, Kind, TheLabel
  <1>8. DeleteTurn(c)
    BY <1>3, <1>5, <1>6 DEF DeleteTurn, At, Running, Kind
  <1> QED
    BY <1>2, <1>5, <1>7, <1>8 DEF Turn

LEMMA GetDeviceTurn ==
  ASSUME CIInv, NEW c \in Consoles, GetDevice(c)
  PROVE  Turn(c)
  <1>1. At(c, "get") /\ UNCHANGED stores /\ ~Active(c)
    BY Free DEF GetDevice, Resumes, At
  <1>2. /\ Kind(c) \in Kinds \ {"retire", "restore"}
        /\ Kind(c) # "decommission" => TheLabel(c) \in Labels
        /\ Kind(c) \in {"rebind", "replace", "decommission"} => TheDevice(c) \in Devices
        /\ TheDevice(c) \in Devices \cup {None}
        /\ task[c].found \in Labels \cup {None}
    BY <1>1, ItemFits, TaskFields DEF CIInv, At, Working, TaskOK, Kind, TheDevice
  <1>3. CASE Kind(c) = "decommission"
    <2>1. /\ Move(c, "read") /\ UNCHANGED <<call, pc, old, owes, result, trail>>
          /\ seen' = [seen EXCEPT ![c] = TheDevice(c)]
      BY <1>3 DEF GetDevice
    <2>2. Waits
      BY <1>1, <1>2, <1>3, <2>1 DEF Waits, CIInv, IInv, TypeOK
    <2> DEFINE t == [task[c] EXCEPT !.at = "read"]
    <2>3. t \in GoodTasks /\ t.kind = Kind(c) /\ t.at = "read"
      BY <1>1, <1>3, MovedTask DEF CIInv, Working, At
    <2>4. Update(c, t)
      BY <2>1 DEF Move
    <2> HIDE DEF t
    <2> QED
      BY <1>1, <1>3, <2>2, <2>3, <2>4, OnTurn
  <1>4. CASE Kind(c) # "decommission"
    <2>1. CASE Kind(c) \in {"unbind", "delete"}
      <3>1. Invoke(c, "unbind", TheLabel(c), None, TheDevice(c)) /\ Move(c, "saga")
        BY <2>1 DEF GetDevice
      <3> QED
        BY <1>1, <1>2, <1>4, <3>1, GetDeviceStarts
    <2>2. CASE Kind(c) = "rebind"
      <3>1. Invoke(c, "rebind", TheLabel(c), TheDevice(c), TheDevice(c)) /\ Move(c, "saga")
        BY <2>2 DEF GetDevice
      <3> QED
        BY <1>1, <1>2, <2>2, <3>1, GetDeviceStarts
    <2>3. CASE Kind(c) = "replace" /\ task[c].found # None
      <3>1. Invoke(c, "unbind", task[c].found, None, TheDevice(c)) /\ Move(c, "saga")
        BY <2>3 DEF GetDevice
      <3> QED
        BY <1>1, <1>2, <2>3, <3>1, GetDeviceStarts
    <2>4. CASE Kind(c) = "replace" /\ task[c].found = None
      <3>1. Invoke(c, "bind", TheLabel(c), TheDevice(c), TheDevice(c)) /\ Move(c, "saga")
        BY <2>4 DEF GetDevice
      <3> QED
        BY <1>1, <1>2, <2>4, <3>1, GetDeviceStarts
    <2> QED
      BY <1>2, <1>4, <2>1, <2>2, <2>3, <2>4 DEF Kinds
  <1> QED
    BY <1>3, <1>4

\* What a handler does with the answer of its saga.
LEMMA SagaReturnsTurn ==
  ASSUME CIInv, NEW c \in Consoles, SagaReturns(c)
  PROVE  Turn(c)
  <1>1. At(c, "saga") /\ pc[c] = "done" /\ Waits /\ ~Active(c) /\ ~At(c, "idle")
    BY Free, Still DEF SagaReturns, CIInv, At
  <1>2. Fits(Kind(c), task[c].item)
    BY <1>1, ItemFits DEF CIInv, At, Working
  <1>3. CASE Say(c, "raised")
    BY <1>1, <1>3, EndTurn
  <1>4. CASE Miss(c)
    BY <1>1, <1>2, <1>4, MissTurn
  <1>5. CASE Succeed(c) /\ (Kind(c) = "delete" => result[c] = "ok")
    BY <1>1, <1>5, SucceedTurn
  <1>6. CASE Kind(c) = "decommission" /\ Move(c, "status_get")
    <2> DEFINE t == [task[c] EXCEPT !.at = "status_get"]
    <2>1. t \in GoodTasks /\ t.kind = Kind(c) /\ t.at = "status_get"
      BY <1>1, <1>6, MovedTask DEF CIInv, Working, At
    <2>2. Update(c, t)
      BY <1>6 DEF Move
    <2> HIDE DEF t
    <2> QED
      BY <1>1, <1>6, <2>1, <2>2, OnTurn
  <1>7. CASE Kind(c) = "replace" /\ Update(c, [task[c] EXCEPT !.at = "get", !.found = None])
    <2> DEFINE t == [task[c] EXCEPT !.at = "get", !.found = None]
    <2>1. /\ t \in TaskType /\ t.at = "get" /\ t.kind = Kind(c) /\ t.todo = task[c].todo
          /\ t.item = task[c].item
      BY TaskFields DEF CIInv, TaskType, Steps, Kind
    <2>2. TaskOK(task[c])
      BY TaskFields DEF CIInv
    <2> HIDE DEF t
    <2>3. TaskOK(t)
      BY <1>1, <1>7, <2>1, <2>2 DEF TaskOK, At, Kind, Working
    <2> QED
      BY <1>1, <1>7, <2>1, <2>3, OnTurn DEF GoodTasks, t
  <1>8. Judge(c)
    BY DEF SagaReturns
  <1>9. CASE result[c] = "ok"
    <2>1. GoOn(c)
      BY <1>8, <1>9 DEF Judge, Caught, Lenient, Refusals, RolledBack
    <2> QED
      BY <1>3, <1>5, <1>6, <1>7, <1>9, <2>1 DEF GoOn
  <1>10. CASE result[c] # "ok"
    <2>1. Lenient(c) => Kind(c) # "delete"
      BY DEF Lenient
    <2>2. (Lenient(c) /\ Succeed(c)) \/ Miss(c) \/ Say(c, "raised")
      BY <1>8, <1>10 DEF Judge
    <2> QED
      BY <1>3, <1>4, <1>5, <2>1, <2>2
  <1> QED
    BY <1>9, <1>10

LEMMA UndoReturnsTurn ==
  ASSUME CIInv, NEW c \in Consoles, UndoReturns(c)
  PROVE  Turn(c)
  <1>1. At(c, "undo") /\ pc[c] = "done" /\ Waits /\ ~Active(c) /\ ~At(c, "idle")
    BY Free, Still DEF UndoReturns, CIInv, At
  <1>2. Fits(Kind(c), task[c].item)
    BY <1>1, ItemFits DEF CIInv, At, Working
  <1>3. PICK n \in {None, "rolled_back", "inconsistent"} :
          Update(c, [task[c] EXCEPT !.at = "next", !.failed = @ \cup {Id(task[c].item)},
                                    !.undo = n])
    BY DEF UndoReturns
  <1> QED
    BY <1>1, <1>2, <1>3, MissTurn

\* The steps of a decommission around the PATCH of the status.
LEMMA StatusTask ==
  ASSUME CIInv, NEW c \in Consoles, task[c].at \in {"status_get", "status_patch"}
  PROVE  /\ Kind(c) = "decommission" /\ ~Active(c) /\ ~At(c, "idle")
         /\ TheDevice(c) \in Devices /\ Fits(Kind(c), task[c].item)
         /\ seen[c] \in Devices \cup {None, Stale} /\ task[c].found \in Labels \cup {None}
  BY ItemFits, TaskFields, Free, ConsolesAre DEF CIInv, IInv, TypeOK, Working, At

LEMMA StatusFailsTurn ==
  ASSUME CIInv, NEW c \in Consoles, task[c].at \in {"status_get", "status_patch"},
         UNCHANGED stores, NEW caught, StatusFails(c, caught)
  PROVE  Turn(c)
  <1>1. CASE task[c].found = None
    <2>1. Waits /\ (Miss(c) \/ Say(c, "raised"))
      BY <1>1, Still DEF StatusFails, CIInv
    <2> QED
      BY <2>1, StatusTask, MissTurn, EndTurn
  <1>2. CASE task[c].found # None
    <2>1. Invoke(c, "bind", task[c].found, TheDevice(c), seen[c]) /\ Move(c, "undo")
      BY <1>2 DEF StatusFails
    <2>2. task[c].found \in Labels
      BY <1>2, StatusTask
    <2>3. \E k \in Calls : Starts(c, k)
      BY <2>1, <2>2, StatusTask, Invoked DEF CIInv
    <2> DEFINE t == [task[c] EXCEPT !.at = "undo"]
    <2>4. t \in GoodTasks /\ t.kind = Kind(c) /\ t.at = "undo"
      BY StatusTask, MovedTask DEF CIInv, Working, At
    <2>5. Update(c, t)
      BY <2>1 DEF Move
    <2> HIDE DEF t
    <2> QED
      BY <2>3, <2>4, <2>5, StatusTask, StartTurn
  <1> QED
    BY <1>1, <1>2

LEMMA StatusTurn ==
  ASSUME CIInv, NEW c \in Consoles,
         \/ StatusCompare(c) \/ StatusPatch(c) \/ StatusLandsUnanswered(c)
         \/ StatusRaises(c)
  PROVE  Turn(c)
  <1>1. task[c].at \in {"status_get", "status_patch"}
    BY DEF StatusCompare, StatusPatch, StatusLandsUnanswered, StatusRaises, Resumes, At
  <1>2. CASE StatusCompare(c)
    <2>1. CASE Move(c, "status_patch") /\ UNCHANGED Slot
      <3>1. Waits
        BY <1>2, <2>1, Still DEF StatusCompare, CIInv
      <3> DEFINE t == [task[c] EXCEPT !.at = "status_patch"]
      <3>2. t \in GoodTasks /\ t.kind = Kind(c) /\ t.at = "status_patch"
        BY <1>1, StatusTask, MovedTask DEF CIInv, Working, At
      <3>3. Update(c, t)
        BY <2>1 DEF Move
      <3> HIDE DEF t
      <3> QED
        BY <1>1, <3>1, <3>2, <3>3, StatusTask, OnTurn
    <2>2. CASE StatusFails(c, TRUE)
      BY <1>1, <1>2, <2>2, StatusFailsTurn DEF StatusCompare
    <2> QED
      BY <1>2, <2>1, <2>2 DEF StatusCompare
  <1>3. SetStatus(c) => Waits
    BY DEF SetStatus, Outdated, Waits, CIInv, IInv, TypeOK
  <1>4. CASE StatusPatch(c)
    BY <1>1, <1>3, <1>4, StatusTask, SucceedTurn DEF StatusPatch
  <1>5. CASE StatusLandsUnanswered(c)
    <2>1. Waits /\ task' = task
      BY <1>3, <1>5 DEF StatusLandsUnanswered
    <2>2. Typed(c)
      BY <2>1 DEF Typed, CIInv, CTypes
    <2>3. SlotOK(c)' /\ DeleteTurn(c)
      BY <1>1, <2>1, StatusTask, WaitsSlots DEF SlotOK, At, DeleteTurn, Kind
    <2> QED
      BY <2>1, <2>2, <2>3 DEF Turn
  <1>6. CASE StatusRaises(c)
    BY <1>1, <1>6, StatusFailsTurn DEF StatusRaises
  <1> QED
    BY <1>2, <1>4, <1>5, <1>6

\* The transaction that deletes the batch ends the operation, and so does the
\* end of the process.
LEMMA DeleteEnds ==
  ASSUME CIInv, NEW c \in Consoles, DeleteBatch(c)
  PROVE  /\ Deletes /\ At(c, "delete") /\ Kind(c) = "delete" /\ ~Active(c)
         /\ Typed(c) /\ task'[c].at = "done" /\ SlotOK(c)'
  <1>1. At(c, "delete") /\ ~Active(c) /\ ~At(c, "idle") /\ Kind(c) = "delete"
    BY Free, TaskFields DEF DeleteBatch, Resumes, At, CIInv, TaskOK, Kind
  <1>2. Deletes /\ (Say(c, "ok") \/ Say(c, "raised"))
    BY DEF DeleteBatch, Deletes, Slot
  <1>3. Typed(c) /\ task'[c].at = "done"
    BY <1>1, <1>2, Said DEF CIInv, Typed
  <1>4. SlotOK(c)'
    BY <1>1, <1>2, <1>3 DEF SlotOK, At, Deletes, Slot, Active
  <1> QED
    BY <1>1, <1>2, <1>3, <1>4

LEMMA CrashEnds ==
  ASSUME CIInv, NEW c \in Consoles, ConsoleCrash(c)
  PROVE  /\ Works(c) \/ Waits
         /\ Typed(c) /\ task'[c].at = "done" /\ SlotOK(c)'
  <1>1. ~At(c, "idle") /\ Say(c, "crashed") /\ "crash" \in Faults
        /\ UNCHANGED <<stores, call, seen, old, owes, trail>>
    BY DEF ConsoleCrash, Running, At
  <1>2. Typed(c) /\ task'[c].at = "done"
    BY <1>1, Said DEF CIInv, Typed
  <1>3. CASE Active(c)
    <2>1. Crash(c)
      BY <1>1, <1>3 DEF ConsoleCrash, Crash, locals
    <2>2. pc'[c] = "done"
      BY <2>1, ConsolesAre DEF Crash, Return, Goto, CIInv, IInv, TypeOK
    <2> QED
      BY <1>2, <1>3, <2>1, <2>2 DEF Works, Moves, SlotOK, At, Active
  <1>4. CASE ~Active(c)
    <2>1. UNCHANGED <<stores, Slot>>
      BY <1>1, <1>4 DEF ConsoleCrash, Slot
    <2> QED
      BY <1>2, <1>4, <2>1, Still, WaitsSlots DEF SlotOK, At, CIInv
  <1> QED
    BY <1>3, <1>4

-----------------------------------------------------------------------------
\* The operation of console c is over.
Ends(c) == Typed(c) /\ task'[c].at = "done" /\ SlotOK(c)'

LEMMA Acts ==
  ASSUME NEW r, Handle(r) \/ LandUnanswered(r)
  PROVE  Active(r)
  BY DEF Handle, LandUnanswered, Active, LookupRefused, LookupPasses, LookupFails,
         RegistryOnly, RegistryOnlyRefused, ReadDevice, ReadDeviceTaken, ReadDeviceConflict,
         ReadDeviceFails, Patch, PatchFails, ClearOld, ClearOldFails, Commit, CommitFails,
         CompensateNeeded, CompensateNoop, CompensatePatch, CompensateFails

\* A step of console c's handler.
Handles(c) ==
  \/ Submit(c) \/ Take(c) \/ Finish(c) \/ SagaReturns(c) \/ UndoReturns(c)
  \/ Await(c) \/ StatusLandsUnanswered(c) \/ ConsoleCrash(c)

LEMMA HandlerKinds ==
  ASSUME CIInv, NEW c \in Consoles, Handles(c)
  PROVE  \/ Turn(c)
         \/ Ends(c) /\ (Works(c) \/ Waits)
         \/ Ends(c) /\ Deletes /\ At(c, "delete") /\ Kind(c) = "delete" /\ ~Active(c)
  <1>1. Submit(c) \/ Take(c) \/ Finish(c) => Turn(c)
    BY SubmitTurn, TakeTurn, FinishTurn
  <1>2. SagaReturns(c) \/ UndoReturns(c) => Turn(c)
    BY SagaReturnsTurn, UndoReturnsTurn
  <1>3. ReadLabel(c) \/ ReadBatch(c) \/ FindHolder(c) \/ GetDevice(c) => Turn(c)
    BY ReadLabelTurn, ReadBatchTurn, FindHolderTurn, GetDeviceTurn
  <1>4. ReadRegistryFails(c) \/ GetDeviceFails(c) \/ DeleteBatchFails(c) => Turn(c)
    BY RaisesTurn
  <1>5. \/ StatusCompare(c) \/ StatusPatch(c) \/ StatusLandsUnanswered(c) \/ StatusRaises(c)
        => Turn(c)
    BY StatusTurn
  <1>6. DeleteBatch(c) =>
          Ends(c) /\ Deletes /\ At(c, "delete") /\ Kind(c) = "delete" /\ ~Active(c)
    BY DeleteEnds DEF Ends
  <1>7. ConsoleCrash(c) => Ends(c) /\ (Works(c) \/ Waits)
    BY CrashEnds DEF Ends
  <1> QED
    BY <1>1, <1>2, <1>3, <1>4, <1>5, <1>6, <1>7 DEF Handles, Await

\* The steps of no handler.
LEMMA OtherKinds ==
  ASSUME CIInv, [CNext]_cvars, \A c \in Consoles : ~Handles(c)
  PROVE  task' = task /\ UNCHANGED decommissioned /\ (Waits \/ \E r \in Requests : Works(r))
  <1>1. ASSUME NEW r \in Requests, SagaStep(r)
        PROVE  task' = task /\ UNCHANGED decommissioned /\ Works(r)
    BY <1>1, Acts DEF SagaStep, Works, Moves
  <1>2. ASSUME NEW r \in Clients, ClientStep(r)
        PROVE  task' = task /\ UNCHANGED decommissioned /\ Works(r) /\ r \in Requests
    BY <1>2 DEF ClientStep, Works, Moves, Clients
  <1>3. ASSUME NEW d \in Devices, Edit(d)
        PROVE  task' = task /\ UNCHANGED decommissioned /\ Waits
    BY <1>3 DEF Edit, EditElsewhere, Outdated, stores, locals, Waits, CIInv, IInv, TypeOK
  <1>4. ASSUME UNCHANGED cvars
        PROVE  task' = task /\ UNCHANGED decommissioned /\ Waits
    BY <1>4, Still DEF cvars, hvars, vars, consoleVars, stores, Slot, CIInv
  <1> QED
    BY <1>1, <1>2, <1>3, <1>4 DEF CNext, Handles

\* Every step is of one of the kinds above.
LEMMA StepKinds ==
  ASSUME CIInv, CNext
  PROVE  \/ \E c \in Consoles : Turn(c)
         \/ \E c \in Consoles : Ends(c) /\ (Works(c) \/ Waits)
         \/ \E c \in Consoles :
              Ends(c) /\ Deletes /\ At(c, "delete") /\ Kind(c) = "delete" /\ ~Active(c)
         \/ task' = task /\ (Waits \/ \E r \in Requests : Works(r))
  BY HandlerKinds, OtherKinds

\* ... and keeps the history, ...
LEMMA CNextTracks == CNext => Track \/ UNCHANGED cvars
  BY DEF CNext, Await, Submit, Take, Finish, SagaReturns, UndoReturns, ReadLabel, ReadBatch,
         FindHolder, ReadRegistryFails, GetDevice, GetDeviceFails, StatusCompare,
         StatusPatch, StatusRaises, StatusLandsUnanswered, DeleteBatch, DeleteBatchFails,
         ConsoleCrash, SagaStep, ClientStep, Edit

\* ... and decommissions devices.
LEMMA Decommissions ==
  ASSUME CIInv, CNext
  PROVE  decommissioned' \subseteq Devices
  <1>1. ASSUME NEW c \in Consoles, StatusPatch(c) \/ StatusLandsUnanswered(c)
        PROVE  decommissioned' \subseteq Devices
    <2>1. task[c].at \in {"status_get", "status_patch"}
          /\ decommissioned' = decommissioned \cup {TheDevice(c)}
      BY <1>1 DEF StatusPatch, StatusLandsUnanswered, SetStatus, Resumes, At
    <2> QED
      BY <2>1, StatusTask DEF CIInv, CTypes
  <1>2. CASE ~ \E c \in Consoles : StatusPatch(c) \/ StatusLandsUnanswered(c)
    <2>1. UNCHANGED decommissioned
      BY <1>2
         DEF CNext, Await, Submit, Take, Finish, SagaReturns, UndoReturns, ReadLabel,
             ReadBatch, FindHolder, ReadRegistryFails, GetDevice, GetDeviceFails,
             StatusCompare, StatusRaises, DeleteBatch, DeleteBatchFails, ConsoleCrash,
             SagaStep, ClientStep, Edit, cvars, consoleVars
    <2> QED
      BY <2>1 DEF CIInv, CTypes
  <1> QED
    BY <1>1, <1>2

\* A step of a saga is one of Next, uses no slot again and keeps the calls.
LEMMA WorksNext ==
  ASSUME IInv, NEW r \in Requests, Works(r)
  PROVE  /\ Next /\ IInv' /\ Reused = {}
         /\ \A c \in Consoles : call'[c] = call[c] /\ (Active(c)' => Active(c))
  <1>1. Next
    BY DEF Works, Moves, Next
  <1>2. IInv'
    BY <1>1, NextIInv
  <1>3. \A c \in Requests \ {r} : pc'[c] = pc[c] /\ call'[c] = call[c]
    BY OthersKeep DEF Works
  <1>4. r \in Consoles => Active(r) /\ call'[r] = call[r]
    BY <1>1, CallsStay DEF Works, Active
  <1> QED
    BY <1>1, <1>2, <1>3, <1>4, ConsolesAre DEF Reused, Active

LEMMA WaitsIInv ==
  ASSUME IInv, Waits
  PROVE  IInv'
  BY DEF IInv, TypeOK, CallInv, Waits, stores, Op, New

LEMMA DeletesIInv ==
  ASSUME IInv, Deletes
  PROVE  IInv'
  <1>1. registry' \in [Labels -> Row]
    BY DEF Deletes, IInv, TypeOK, Row, Absent
  <1> QED
    BY <1>1 DEF IInv, TypeOK, CallInv, Deletes, Slot, Op, New

LEMMA StartsIInv ==
  ASSUME IInv, NEW c \in Consoles, NEW k \in Calls, Starts(c, k)
  PROVE  IInv'
  <1>1. c \in Requests
    BY ConsolesAre
  <1>2. TypeOK'
    BY <1>1 DEF Starts, Begin, IInv, TypeOK, Points, stores
  <1>3. CallInv'
    BY <1>1 DEF Starts, Begin, IInv, TypeOK, CallInv, PastLookup, Op, New
  <1> QED
    BY <1>2, <1>3 DEF IInv

LEMMA CNextIInv ==
  ASSUME CIInv, CNext
  PROVE  IInv'
  <1>1. Waits => IInv'
    BY WaitsIInv DEF CIInv
  <1>2. Deletes => IInv'
    BY DeletesIInv DEF CIInv
  <1>3. ASSUME NEW r \in Requests, Works(r) PROVE IInv'
    BY <1>3, WorksNext DEF CIInv
  <1>4. ASSUME NEW c \in Consoles, NEW k \in Calls, Starts(c, k) PROVE IInv'
    BY <1>4, StartsIInv DEF CIInv
  <1> QED
    BY <1>1, <1>2, <1>3, <1>4, StepKinds, ConsolesAre DEF Turn

\* What a step does to the slots of the consoles whose handler does not run.
LEMMA SlotsKept ==
  ASSUME CIInv, NEW c \in Consoles, task'[c] = task[c],
         \/ Waits \/ Deletes
         \/ \E s \in Consoles \ {c} : \E k \in Calls : Starts(s, k)
         \/ \E r \in Requests : Works(r)
  PROVE  SlotOK(c)'
  <1>1. SlotOK(c)
    BY DEF CIInv
  <1>2. Op(c)' = Op(c) /\ Label(c)' = Label(c) /\ (Active(c)' => Active(c))
    <2>1. CASE Waits
      BY <2>1, WaitsSlots
    <2>2. CASE Deletes
      BY <2>2 DEF Deletes, Slot, Active, Op, Label
    <2>3. ASSUME NEW s \in Consoles \ {c}, NEW k \in Calls, Starts(s, k)
          PROVE  Op(c)' = Op(c) /\ Label(c)' = Label(c) /\ (Active(c)' => Active(c))
      BY <2>3, ConsolesAre DEF Starts, Active, Op, Label, CIInv, IInv, TypeOK
    <2>4. ASSUME NEW r \in Requests, Works(r)
          PROVE  Op(c)' = Op(c) /\ Label(c)' = Label(c) /\ (Active(c)' => Active(c))
      BY <2>4, WorksNext DEF Active, Op, Label, CIInv
    <2> QED
      BY <2>1, <2>2, <2>3, <2>4
  <1> QED
    BY <1>1, <1>2 DEF SlotOK, At, Kind, TheLabel

LEMMA CNextSlots ==
  ASSUME CIInv, CNext
  PROVE  task' \in [Consoles -> GoodTasks] /\ \A c \in Consoles : SlotOK(c)'
  <1>1. ASSUME NEW c \in Consoles, Turn(c)
        PROVE  task' \in [Consoles -> GoodTasks] /\ \A s \in Consoles : SlotOK(s)'
    BY <1>1, SlotsKept DEF Turn, Typed
  <1>2. ASSUME NEW c \in Consoles, Ends(c), Works(c) \/ Waits \/ Deletes
        PROVE  task' \in [Consoles -> GoodTasks] /\ \A s \in Consoles : SlotOK(s)'
    BY <1>2, SlotsKept, ConsolesAre DEF Ends, Typed
  <1>3. ASSUME task' = task, Waits \/ \E r \in Requests : Works(r)
        PROVE  task' \in [Consoles -> GoodTasks] /\ \A s \in Consoles : SlotOK(s)'
    BY <1>3, SlotsKept DEF CIInv, CTypes
  <1> QED
    BY <1>1, <1>2, <1>3, StepKinds

LEMMA CNextCIInv ==
  ASSUME CIInv, [CNext]_cvars
  PROVE  CIInv'
  <1>1. CASE UNCHANGED cvars
    <2>1. IInv'
      BY <1>1, WaitsIInv, Still DEF CIInv, cvars, hvars, vars, stores, Slot
    <2> QED
      BY <1>1, <2>1 DEF CIInv, CTypes, SlotOK, At, Kind, TheLabel, Active, Op, Label,
                        cvars, hvars, vars, consoleVars
  <1>2. CASE CNext
    <2>1. IInv' /\ decommissioned' \subseteq Devices
      BY <1>2, CNextIInv, Decommissions
    <2>2. task' \in [Consoles -> GoodTasks] /\ \A c \in Consoles : SlotOK(c)'
      BY <1>2, CNextSlots
    <2>3. ASSUME NEW c \in Reused PROVE Touches(c) \subseteq Labels \cup Devices
      <3>1. c \in Requests /\ pc[c] # "idle"
        BY ConsolesAre DEF Reused
      <3> QED
        BY <3>1, Arrived DEF Touches, CIInv
    <2>4. blamed' \subseteq Labels \cup Devices /\ crossed' \subseteq Consoles
      BY <1>2, <2>3, CNextTracks DEF Track, CIInv, CTypes, cvars, consoleVars
    <2> QED
      BY <2>1, <2>2, <2>4 DEF CIInv, CTypes
  <1> QED
    BY <1>1, <1>2

LEMMA InitCIInv ==
  ASSUME CInit
  PROVE  CIInv
  <1>1. IInv
    BY InitIInv DEF CInit, HInit
  <1>2. NoTask \in GoodTasks
    BY NoItem DEF GoodTasks, TaskType, NoTask, TaskOK, Working, Steps
  <1>3. \A c \in Consoles : task[c].at = "idle" /\ ~Active(c)
    BY ConsolesAre DEF CInit, HInit, Init, NoTask, Active
  <1> QED
    BY <1>1, <1>2, <1>3 DEF CInit, CIInv, CTypes, SlotOK, At

LEMMA CIInvInvariant == CSpec => []CIInv
  BY InitCIInv, CNextCIInv, PTL DEF CSpec

(***************************************************************************)
(* Every variable of the composite operations keeps its type, the locals   *)
(* of a handler included, whatever the sagas answer and whatever fails.    *)
(***************************************************************************)
THEOREM ConsoleTypes == CSpec => []CTypeOK
  <1>1. CIInv => CTypeOK
    BY DEF CIInv, IInv, CTypes, GoodTasks, CTypeOK
  <1> QED
    BY <1>1, CIInvInvariant, PTL

-----------------------------------------------------------------------------
(***************************************************************************)
(* The composite operations keep the state machine of the labels and the   *)
(* constraints of the table, the force-deletion of a batch included.       *)
(***************************************************************************)
LEMMA CNextRefines ==
  ASSUME CIInv, [CNext]_cvars
  PROVE  [Registry!Next]_registry
  <1>1. Deletes => Registry!Next
    BY ConsoleAssumption
       DEF Deletes, Registry!Next, Registry!DeleteLabels, Registry!Absent, Absent
  <1>2. ASSUME NEW r \in Requests, Works(r) PROVE [Registry!Next]_registry
    BY <1>2, WorksNext, NextRefines DEF CIInv
  <1>3. Waits => UNCHANGED registry
    BY DEF Waits, stores
  <1>4. ASSUME NEW c, NEW k, Starts(c, k) PROVE UNCHANGED registry
    BY <1>4 DEF Starts, stores
  <1>5. UNCHANGED cvars => UNCHANGED registry
    BY DEF cvars, hvars, vars
  <1> QED
    BY <1>1, <1>2, <1>3, <1>4, <1>5, StepKinds, ConsolesAre DEF Turn

\* The registry, driven by the consoles, implements the abstract registry.
THEOREM ConsolesRefineRegistry == CSpec => ImplementsRegistry
  <1>1. CInit => Registry!Init
    BY SameRows DEF CInit, HInit, Init, Registry!Init
  <1>2. CIInv /\ [CNext]_cvars => [Registry!Next]_registry
    BY CNextRefines
  <1> QED
    BY <1>1, <1>2, CIInvInvariant, PTL DEF CSpec, ImplementsRegistry, Registry!Spec

\* So the table keeps its two constraints.
LEMMA TablesInvariant == CSpec => [](registry \in Tables)
  <1>1. Registry!ConstraintsHold <=> registry \in Tables
    BY SameRows DEF Registry!ConstraintsHold
  <1> QED
    BY <1>1, ConsolesRefineRegistry, ConstraintsInvariant, PTL DEF ImplementsRegistry

-----------------------------------------------------------------------------
(***************************************************************************)
(* What the registry and NetBox have to do with each other.  DInv is the   *)
(* invariant of DivergenceProofs, with the devices in blamed waived; what  *)
(* the consoles add to it is Cleared.                                      *)
(***************************************************************************)

\* The force-delete c has still to unbind label q.
Pending(c, q) ==
  \/ \E i \in task[c].todo : i.label = q
  \/ /\ task[c].at \in {"get", "saga"} /\ TheLabel(c) = q
     /\ ~(At(c, "saga") /\ pc[c] = "done" /\ result[c] = "ok")

\* The force-delete c has read the batch, and no label failed so far.
Deleting(c) ==
  Running(c) /\ Kind(c) = "delete" /\ ~At(c, "read") /\ task[c].failed = {}

\* What it has not still to unbind is not bound, to a device that is accounted
\* for.
Cleared(c) ==
  Deleting(c) =>
    \A q \in Batch, d \in Devices \ Excused : Holds(registry, q, d) => Pending(c, q)

\* What a saga that compensates is going to answer.
Failures == {"rolled_back", "already_bound", "inconsistent"}
Failing == \A r \in Requests : pc[r] \in Compensating => result[r] \in Failures

CDInv == \A X : X = blamed => DInv(X)

CXInv ==
  /\ CDInv /\ Failing
  /\ Meeting \subseteq suspects
  /\ \A c \in Consoles : Cleared(c)

\* All that is assumed of a state.
CBase == CIInv /\ registry \in Tables /\ CXInv

LEMMA BaseOf ==
  ASSUME CBase, NEW X, X = blamed
  PROVE  Base /\ DInv(X) /\ Excused = Waived(X)
  <1>1. DInv(X)
    BY DEF CBase, CXInv, CDInv
  <1> QED
    BY <1>1 DEF CBase, CIInv, Base, DInv, Excused, Waived

-----------------------------------------------------------------------------
\* The history: what a step without a new use of a slot records, ...
LEMMA OverlapsMeet == Overlapping \subseteq Meeting
  BY DEF Overlapping, Meeting, Extent

LEMMA TrackRecords ==
  ASSUME Track, Reused = {}
  PROVE  Recorded /\ blamed' = blamed
  <1>1. Overlapping' \subseteq Meeting'
    BY DEF Overlapping, Meeting, Extent
  <1>2. /\ suspects' = suspects \cup Meeting'
                         \cup {r \in Requests : Overwrites(r) \/ Misjudges(r)}
        /\ blamed' = blamed
    BY DEF Track
  <1> QED
    BY <1>1, <1>2 DEF Recorded

LEMMA CNextRecords ==
  ASSUME CNext, Meeting \subseteq suspects, Reused = {}
  PROVE  Recorded \/ UNCHANGED suspects
  BY CNextTracks, TrackRecords DEF cvars, hvars

\* ... and that those who meet are always suspects.
LEMMA MeetingKept ==
  ASSUME [CNext]_cvars, Meeting \subseteq suspects
  PROVE  (Meeting \subseteq suspects)'
  <1>1. CASE UNCHANGED cvars
    <2>1. \A r : Extent(r)' = Extent(r)
      BY <1>1 DEF cvars, hvars, vars, consoleVars, Extent, Footprint, Touches, Active,
                  Label, New, Running, Kind
    <2> QED
      BY <1>1, <2>1 DEF Meeting, cvars, hvars
  <1>2. CASE Track
    BY <1>2 DEF Track
  <1> QED
    BY <1>1, <1>2, CNextTracks

\* A force-delete meets every saga on a label of its batch.
LEMMA MeetsBatch ==
  ASSUME Meeting \subseteq suspects, NEW c \in Consoles, Running(c), Kind(c) = "delete",
         NEW r \in Requests \ {c}, Active(r), NEW q \in Batch, q = Label(r)
  PROVE  r \in suspects
  <1>1. q # None
    BY ConsoleAssumption, NoneAssumption
  <1>2. q \in Extent(r) \cap Extent(c)
    BY <1>1 DEF Extent, Footprint, Touches
  <1> QED
    BY <1>2, ConsolesAre DEF Meeting

-----------------------------------------------------------------------------
(***************************************************************************)
(* No step clears a device: doubts are forgotten with the slot that is     *)
(* used again, and then they are in blamed.                                *)
(***************************************************************************)
\* A console starts a saga.
LEMMA StartDoubts ==
  ASSUME IInv, NEW c \in Consoles, NEW k \in Calls, Starts(c, k), Track,
         \A r \in Requests : Flow(r),
         NEW X, X = blamed, NEW Y, Y = blamed'
  PROVE  /\ \A s \in Requests \ {c} :
              /\ Doubted(s) => Doubted(s)'
              /\ Touches(s)' = Touches(s) /\ Hands(s)' = Hands(s)
              /\ pc'[s] = pc[s] /\ call'[s] = call[s] /\ old'[s] = old[s]
              /\ owes'[s] = owes[s] /\ result'[s] = result[s]
         /\ Waived(X) \subseteq Waived(Y)'
         /\ UNCHANGED stores
  <1>0. c \in Requests
    BY ConsolesAre
  <1>1. \A s \in Requests \ {c} :
          /\ pc'[s] = pc[s] /\ call'[s] = call[s] /\ old'[s] = old[s]
          /\ owes'[s] = owes[s] /\ result'[s] = result[s]
    BY DEF Starts, IInv, TypeOK
  <1>2. \A s \in Requests \ {c} : Touches(s)' = Touches(s) /\ Hands(s)' = Hands(s)
    BY <1>1 DEF Touches, Hands, Label, New
  <1>3. Reused \subseteq {c}
    BY <1>1, ConsolesAre DEF Reused
  <1>4. \A s \in Requests \ {c} : Doubted(s) => Doubted(s)'
    BY <1>1, <1>3 DEF Doubted, Track
  <1>5. Doubted(c) => Touches(c) \subseteq Y
    <2>1. CASE pc[c] = "idle"
      <3>1. call[c] = NoCall /\ old[c] = None
        BY <1>0, <2>1 DEF Flow
      <3> QED
        BY <3>1 DEF NoCall, Touches, Label, New
    <2>2. CASE pc[c] = "done"
      <3>1. pc'[c] # "done"
        BY StartedSlot
      <3>2. Reused = {c}
        BY <1>3, <2>2, <3>1 DEF Reused
      <3> QED
        BY <3>2 DEF Track, Blameworthy, Doubted
    <2> QED
      BY <2>1, <2>2 DEF Starts, Active
  <1>6. X \subseteq Y
    BY DEF Track
  <1>7. ASSUME NEW d \in Tainted PROVE d \in Waived(Y)'
    <2>1. PICK r \in Requests : Doubted(r) /\ d \in Touches(r)
      BY TaintedBy
    <2>2. CASE r = c
      BY <1>5, <2>1, <2>2 DEF Waived
    <2>3. CASE r # c
      <3>1. Doubted(r)' /\ d \in Touches(r)'
        BY <1>2, <1>4, <2>1, <2>3
      <3> QED
        BY <3>1 DEF Waived, Tainted, Doubted
    <2> QED
      BY <2>2, <2>3
  <1> QED
    BY <1>1, <1>2, <1>4, <1>6, <1>7 DEF Waived, Starts

LEMMA StillDoubts ==
  ASSUME UNCHANGED <<call, old, result>>, Recorded \/ UNCHANGED suspects, NEW X
  PROVE  Waived(X) \subseteq Waived(X)' /\ \A s \in Requests : Doubted(s) => Doubted(s)'
  BY DEF Recorded, Waived, Tainted, Doubted, Touches, Label, New

LEMMA StartDInv ==
  ASSUME CBase, NEW c \in Consoles, NEW k \in Calls, Starts(c, k), Track,
         NEW X, X = blamed, NEW Y, Y = blamed'
  PROVE  DInv(Y)'
  <1> USE DEF Op, Label, New
  <1>1. Base /\ DInv(X) /\ IInv /\ c \in Requests /\ \A r \in Requests : Flow(r)
    BY BaseOf, ConsolesAre DEF Base
  <1>2. /\ \A s \in Requests \ {c} :
              /\ Doubted(s) => Doubted(s)'
              /\ Hands(s)' = Hands(s)
              /\ pc'[s] = pc[s] /\ call'[s] = call[s] /\ old'[s] = old[s]
              /\ owes'[s] = owes[s] /\ result'[s] = result[s]
        /\ Waived(X) \subseteq Waived(Y)'
        /\ UNCHANGED stores
    BY <1>1, StartDoubts
  <1>3. /\ pc'[c] = Begin(k.op) /\ call'[c] = k /\ old'[c] = None
        /\ result'[c] = None /\ ~Active(c)
    BY <1>1 DEF Starts, IInv, TypeOK
  <1>4. pc'[c] \in {"lookup", "restore"} /\ Active(c)'
    BY <1>3 DEF Begin, Active
  <1>5. \A d : (Agree(d)' <=> Agree(d)) /\ (Unheld(d)' <=> Unheld(d))
    BY <1>2 DEF Agree, Unheld, Holds, stores
  <1>6. (Overlapping \subseteq suspects)'
    <2>1. Overlapping' \subseteq Meeting'
      BY DEF Overlapping, Meeting, Extent
    <2> QED
      BY <2>1 DEF Track
  <1>7. ASSUME NEW s \in Requests PROVE Flow(s)'
    <2>1. CASE s = c
      BY <1>3, <1>4, <2>1 DEF Flow, Begin, AfterStepA, PastLookup, Compensating
    <2>2. CASE s # c
      BY <1>1, <1>2, <2>2 DEF Flow
    <2> QED
      BY <2>1, <2>2
  <1>8. \A d \in Devices : d \in Held => d \in Held'
    BY <1>2, <1>3 DEF Held, Active
  <1>9. ASSUME NEW s \in Requests \ {c}, Active(s)', ~Doubted(s)'
        PROVE  Known(Y, s)'
    <2>1. Active(s) /\ ~Doubted(s)
      BY <1>2, <1>9 DEF Active
    <2>2. Known(X, s)
      BY <1>1, <2>1 DEF DInv
    <2>3. AsStepA(s)' <=> AsStepA(s)
      BY <1>2 DEF AsStepA, stores
    <2>4. NewAsLeft(s) => NewAsLeft(s)'
      BY <1>2, <1>5 DEF NewAsLeft, stores
    <2>5. OldAsLeft(s) => OldAsLeft(s)'
      BY <1>2, <1>5 DEF OldAsLeft, stores
    <2> QED
      BY <1>2, <2>2, <2>3, <2>4, <2>5 DEF Known
  <1>10. ASSUME ~Doubted(c)' PROVE Known(Y, c)'
    <2>1. AsStepA(c)' /\ old'[c] \notin Devices
      BY <1>3, <1>4, NoneAssumption DEF AsStepA, AfterStepA, PastLookup, Compensating
    <2>2. ASSUME New(c)' \in Devices, New(c)' \notin Waived(Y)' PROVE NewAsLeft(c)'
      <3>1. New(c)' \notin Held
        <4> SUFFICES ASSUME NEW s \in Requests, Active(s), New(c)' \in Hands(s) PROVE FALSE
          BY <2>2 DEF Held
        <4>1. s # c /\ Active(s)' /\ New(c)' \in Hands(s)'
          BY <1>2, <1>3 DEF Active
        <4>2. New(c)' # None
          BY <2>2, NoneAssumption
        <4>3. New(c)' \in Touches(c)' /\ New(c)' \in Touches(s)'
          BY <4>1, <4>2 DEF Touches, Hands
        <4>4. c \in Overlapping'
          BY <1>1, <1>4, <4>1, <4>3 DEF Overlapping, Footprint
        <4> QED
          BY <1>6, <1>10, <4>4 DEF Doubted
      <3>2. New(c)' \notin Waived(X)
        BY <1>2, <2>2
      <3>3. Agree(New(c)')
        BY <1>1, <2>2, <3>1, <3>2 DEF DInv
      <3>4. Agree(New(c))'
        BY <1>2, <3>3 DEF Agree, Holds, stores
      <3> QED
        BY <1>4, <3>4 DEF NewAsLeft
    <2> QED
      BY <2>1, <2>2 DEF Known
  <1>11. ASSUME NEW s \in Requests PROVE Traced(Y, s)'
    <2>1. CASE s = c
      BY <1>4, <2>1 DEF Traced, PastLookup
    <2>2. CASE s # c
      <3>1. Traced(X, s)
        BY <1>1 DEF DInv
      <3> QED
        BY <1>2, <2>2, <3>1 DEF Traced, stores
    <2> QED
      BY <2>1, <2>2
  <1>12. \A d \in Devices : d \notin (Waived(Y) \cup Held)' => Agree(d)'
    <2>1. \A d \in Devices \ (Waived(X) \cup Held) : Agree(d)
      BY <1>1 DEF DInv
    <2> QED
      BY <1>2, <1>5, <1>8, <2>1
  <1> QED
    BY <1>6, <1>7, <1>9, <1>10, <1>11, <1>12 DEF DInv

\* The batch is deleted.
LEMMA DeleteHolds ==
  ASSUME CBase, NEW c \in Consoles, At(c, "delete"), Kind(c) = "delete", Deletes,
         NEW d \in Devices \ Excused, NEW q \in Labels
  PROVE  Holds(registry', q, d) <=> Holds(registry, q, d)
  <1>1. registry'[q] = IF q \in Batch THEN Absent ELSE registry[q]
    BY DEF Deletes
  <1>2. CASE q \in Batch
    <2>1. Running(c) /\ task[c].failed = {} /\ task[c].todo = {}
      BY TaskFields DEF CBase, CIInv, TaskOK, Running, At
    <2>2. ~Pending(c, q)
      BY <2>1 DEF Pending, At
    <2>3. ~Holds(registry, q, d)
      BY <1>2, <2>1, <2>2 DEF CBase, CXInv, Cleared, Deleting, At
    <2> QED
      BY <1>1, <1>2, <2>3 DEF Holds, Absent
  <1>3. CASE q \notin Batch
    BY <1>1, <1>3 DEF Holds
  <1> QED
    BY <1>2, <1>3

LEMMA DeleteDInv ==
  ASSUME CBase, NEW c \in Consoles, At(c, "delete"), Kind(c) = "delete", ~Active(c),
         Deletes, Recorded \/ UNCHANGED suspects, NEW X, X = blamed
  PROVE  DInv(X)'
  <1> USE DEF Op, Label, New, Hands
  <1>1. Base /\ DInv(X) /\ Excused = Waived(X)
    BY BaseOf
  <1>2. UNCHANGED <<shows, call, pc, old, owes, result>>
    BY DEF Deletes, Slot
  <1>3. /\ suspects \subseteq suspects' /\ (Overlapping \subseteq suspects)'
        /\ Waived(X) \subseteq Waived(X)'
        /\ \A s \in Requests : Doubted(s) => Doubted(s)'
    <2>1. Overlapping' = Overlapping
      BY <1>2 DEF Overlapping, Footprint, Active, Touches
    <2> QED
      BY <1>1, <1>2, <2>1, StillDoubts DEF Recorded, DInv
  <1>4. ASSUME NEW d \in Devices \ Waived(X)
        PROVE  (Agree(d)' <=> Agree(d)) /\ (Unheld(d)' <=> Unheld(d))
    <2>1. \A q \in Labels : Holds(registry', q, d) <=> Holds(registry, q, d)
      BY <1>1, DeleteHolds
    <2> QED
      BY <1>2, <2>1 DEF Agree, Unheld, Holds
  <1>5. ASSUME NEW s \in Requests, Active(s), ~Doubted(s)
        PROVE  registry'[Label(s)] = registry[Label(s)]
    <2>1. Label(s) \in Labels
      BY <1>1, <1>5, Arrived DEF Base, Active
    <2>2. Running(c)
      BY DEF Running, At
    <2>3. Label(s) \notin Batch
      BY <1>5, <2>2, MeetsBatch DEF CBase, CXInv, Doubted
    <2> QED
      BY <2>1, <2>3 DEF Deletes
  <1>6. /\ \A s \in Requests : Flow(s)' <=> Flow(s)
        /\ \A s \in Requests : Active(s)' <=> Active(s)
        /\ \A d \in Devices : d \in Held' <=> d \in Held
    BY <1>2 DEF Flow, Active, Held
  <1>7. ASSUME NEW s \in Requests, Active(s)', ~Doubted(s)'
        PROVE  Known(X, s)'
    <2>1. Active(s) /\ ~Doubted(s) /\ Known(X, s)
      BY <1>1, <1>3, <1>6, <1>7 DEF DInv
    <2>2. AsStepA(s)' <=> AsStepA(s)
      BY <1>2, <1>5, <2>1 DEF AsStepA
    <2>3. ASSUME New(s) \in Devices \ Waived(X), NewAsLeft(s) PROVE NewAsLeft(s)'
      BY <1>2, <1>4, <2>3 DEF NewAsLeft
    <2>4. ASSUME old[s] \in Devices \ Waived(X), OldAsLeft(s) PROVE OldAsLeft(s)'
      BY <1>2, <1>4, <2>4 DEF OldAsLeft
    <2> QED
      BY <1>2, <1>3, <2>1, <2>2, <2>3, <2>4 DEF Known
  <1>8. ASSUME NEW s \in Requests PROVE Traced(X, s)'
    <2>1. Traced(X, s)
      BY <1>1 DEF DInv
    <2>2. ASSUME pc[s] \in PastLookup
          PROVE  registry'[Label(s)].device \in {registry[Label(s)].device, None}
      <3>1. Label(s) \in Labels
        BY <1>1, <2>2, Arrived DEF Base, PastLookup
      <3> QED
        BY <3>1 DEF Deletes, Absent
    <2> QED
      BY <1>2, <1>3, <2>1, <2>2 DEF Traced
  <1>9. \A d \in Devices : d \notin (Waived(X) \cup Held)' => Agree(d)'
    <2>1. \A d \in Devices \ (Waived(X) \cup Held) : Agree(d)
      BY <1>1 DEF DInv
    <2> QED
      BY <1>3, <1>4, <1>6, <2>1
  <1> QED
    BY <1>1, <1>3, <1>6, <1>7, <1>8, <1>9 DEF DInv

-----------------------------------------------------------------------------
(***************************************************************************)
(* The sagas of a force-delete.                                            *)
(***************************************************************************)
\* A saga that goes on to compensate has failed.
LEMMA FailsOnce ==
  ASSUME IInv, Failing, NEW r \in Requests, Moves(r), pc'[r] \in Compensating
  PROVE  result'[r] \in Failures
  <1>1. CASE ClearOldFails(r) \/ CommitFails(r)
    BY <1>1 DEF ClearOldFails, CommitFails, Compensate, IInv, TypeOK, Failures
  <1>2. CASE Commit(r)
    <2>1. Compensate(r, Undo(r), "rolled_back")
      BY <1>2 DEF Commit, Return, Goto, Compensating, IInv, TypeOK
    <2> QED
      BY <2>1 DEF Compensate, IInv, TypeOK, Failures
  <1>3. CASE CompensateNeeded(r) \/ CompensateNoop(r) \/ CompensatePatch(r) \/ CompensateFails(r)
    <2>1. pc[r] \in Compensating /\ result[r] \in Failures
      BY <1>3 DEF CompensateNeeded, CompensateNoop, CompensatePatch, CompensateFails,
                  Compensating, Failing
    <2>2. result'[r] \in {result[r], "inconsistent"}
      BY <1>3 DEF CompensateNeeded, CompensateNoop, CompensatePatch, CompensateFails,
                  Discharge, IInv, TypeOK
    <2> QED
      BY <2>1, <2>2 DEF Failures
  <1>4. CASE LandUnanswered(r)
    BY <1>4 DEF LandUnanswered, Failing
  <1>5. CASE ~ \/ ClearOldFails(r) \/ CommitFails(r) \/ Commit(r) \/ CompensateNeeded(r)
               \/ CompensateNoop(r) \/ CompensatePatch(r) \/ CompensateFails(r)
               \/ LandUnanswered(r)
    <2>1. pc'[r] \notin Compensating
      BY <1>5 DEF Moves, Handle, Send, Crash, LookupRefused, LookupPasses, LookupFails,
                  RegistryOnly, RegistryOnlyRefused, ReadDevice, ReadDeviceTaken,
                  ReadDeviceConflict, ReadDeviceFails, Patch, PatchFails, ClearOld,
                  Return, Goto, Compensating, IInv, TypeOK
    <2> QED
      BY <2>1
  <1> QED
    BY <1>1, <1>2, <1>3, <1>4, <1>5

LEMMA FailingKept ==
  ASSUME CIInv, CNext, Failing
  PROVE  Failing'
  <1>1. CASE Waits \/ Deletes
    BY <1>1 DEF Failing, Waits, Deletes, Slot
  <1>2. ASSUME NEW c \in Consoles, NEW k \in Calls, Starts(c, k) PROVE Failing'
    <2>1. pc'[c] \notin Compensating
      BY <1>2, StartedSlot DEF CIInv, Compensating
    <2>2. \A r \in Requests \ {c} : pc'[r] = pc[r] /\ result'[r] = result[r]
      BY <1>2 DEF Starts, CIInv, IInv, TypeOK
    <2> QED
      BY <2>1, <2>2 DEF Failing
  <1>3. ASSUME NEW r \in Requests, Works(r) PROVE Failing'
    <2>1. Moves(r)
      BY <1>3 DEF Works
    <2>2. \A s \in Requests \ {r} : pc'[s] = pc[s] /\ result'[s] = result[s]
      BY <2>1, OthersKeep DEF CIInv
    <2>3. pc'[r] \in Compensating => result'[r] \in Failures
      BY <2>1, FailsOnce DEF CIInv
    <2> QED
      BY <2>2, <2>3 DEF Failing
  <1> QED
    BY <1>1, <1>2, <1>3, StepKinds, ConsolesAre DEF Turn

\* Where an answer that leaves a row as asked for comes from: Step C, the
\* transaction of the registry alone, or the refusal of a rebind to where the
\* label is.
LEMMA AnswersCome ==
  ASSUME Base, Failing, NEW r \in Requests, Moves(r), Active(r), pc'[r] = "done",
         result'[r] \in {"ok", "same_device"}
  PROVE  \/ result'[r] = "ok" /\ (Commit(r) \/ RegistryOnly(r))
         \/ result'[r] = Refusal(r) /\ Refusal(r) = "same_device" /\ UNCHANGED registry
  <1>1. CASE pc[r] \in Compensating
    <2>1. \/ LandUnanswered(r) \/ Crash(r) \/ CompensateNeeded(r) \/ CompensateNoop(r)
          \/ CompensatePatch(r) \/ CompensateFails(r)
      BY <1>1 DEF Moves, Handle, Compensating, Send, LookupRefused, LookupPasses,
                  LookupFails, RegistryOnly, RegistryOnlyRefused, ReadDevice,
                  ReadDeviceTaken, ReadDeviceConflict, ReadDeviceFails, Patch,
                  PatchFails, ClearOld, ClearOldFails, Commit, CommitFails
    <2>2. result'[r] \in {result[r], "inconsistent", "crashed"}
      BY <2>1 DEF LandUnanswered, Crash, CompensateNeeded, CompensateNoop,
                  CompensatePatch, CompensateFails, Return, Discharge, Base, IInv, TypeOK
    <2> QED
      BY <1>1, <2>2 DEF Failing, Failures
  <1>2. CASE LookupRefused(r)
    <2>1. result'[r] = Refusal(r) /\ UNCHANGED registry
      BY <1>2 DEF LookupRefused, Return, stores, Base, IInv, TypeOK
    <2>2. Refusal(r) # "ok"
      BY ConstantsAssumption
         DEF Refusal, BindRefusal, RetireRefusal, RebindRefusal, UnbindRefusal, Results
    <2> QED
      BY <2>1, <2>2
  <1>3. CASE Commit(r) \/ RegistryOnly(r)
    BY <1>3 DEF Commit, RegistryOnly, Return, Compensate, Goto, Base, IInv, TypeOK
  <1>4. CASE pc[r] \notin Compensating /\ ~(LookupRefused(r) \/ Commit(r) \/ RegistryOnly(r))
    <2>1. result[r] = None /\ None \notin Results
      BY <1>4, ConstantsAssumption DEF Base, Flow, Active
    <2>2. result'[r] = None \/ result'[r] \in Results \ {"ok", "same_device"}
      BY <1>4, <2>1
         DEF Moves, Handle, Send, Crash, LandUnanswered, LookupPasses, LookupFails,
             RegistryOnlyRefused, ReadDevice, ReadDeviceTaken, ReadDeviceConflict,
             ReadDeviceFails, Patch, PatchFails, ClearOld, ClearOldFails, CommitFails,
             CompensateNeeded, CompensateNoop, CompensatePatch, CompensateFails, Return,
             Compensate, Results, Refusals, Compensating, Base, IInv, TypeOK
    <2> QED
      BY <2>1, <2>2 DEF Results, Refusals
  <1> QED
    BY <1>1, <1>2, <1>3, <1>4

\* What the row of its label is when a saga answers.
LEMMA AnswersHold ==
  ASSUME Base, Failing, NEW r \in Requests, Moves(r), Active(r), pc'[r] = "done"
  PROVE  /\ result'[r] = "ok" /\ Op(r) = "retire" => registry'[Label(r)].status = "retired"
         /\ result'[r] = "ok" /\ Op(r) \in {"unbind", "restore"} =>
              registry'[Label(r)].status = "free"
         /\ \/ result'[r] = "ok" /\ Op(r) \in {"bind", "rebind"}
            \/ result'[r] = "same_device" /\ Op(r) = "rebind"
            => Holds(registry', Label(r), New(r))
  <1>1. /\ Label(r) \in Labels /\ registry[Label(r)] \in Row /\ registry \in [Labels -> Row]
        /\ Op(r) \in Operations /\ (Op(r) \in {"bind", "rebind"} <=> New(r) # None)
    BY Arrived DEF Base, Active, Tables
  <1>2. CASE Commit(r) /\ result'[r] = "ok"
    <2>1. registry'[Label(r)] = Moved(r) /\ Current(r) /\ pc[r] = "commit"
      BY <1>1, <1>2 DEF Commit
    <2>2. Op(r) # "restore"
      BY <2>1 DEF Base, Flow, AfterStepA, PastLookup
    <2> QED
      BY <1>1, <1>2, <2>1, <2>2
         DEF Moved, Current, Bind, Retire, Rebind, Unbind, Row, Holds, Operations
  <1>3. CASE RegistryOnly(r) /\ ~Commit(r) /\ result'[r] = "ok"
    <2>1. registry'[Label(r)] = MovedAlone(r) /\ pc[r] \in {"retire_free", "restore"}
      BY <1>1, <1>3 DEF RegistryOnly
    <2>2. IF pc[r] = "restore" THEN Op(r) = "restore" ELSE Op(r) = "retire"
      BY <2>1 DEF Base, Flow
    <2> QED
      BY <1>1, <1>3, <2>1, <2>2 DEF MovedAlone, Restore, Retire, Row
  <1>4. CASE result'[r] = "same_device" /\ Refusal(r) = "same_device" /\ UNCHANGED registry
    <2>1. registry[Label(r)].status = "bound" /\ registry[Label(r)].device = New(r)
      BY <1>4, ConstantsAssumption
         DEF Refusal, BindRefusal, RetireRefusal, RebindRefusal, UnbindRefusal, Results,
             Refusals
    <2> QED
      BY <1>4, <2>1 DEF Holds
  <1> QED
    BY <1>2, <1>3, <1>4, AnswersCome

\* A label is bound by a saga on it and on the device it is then on.
LEMMA BoundBy ==
  ASSUME Base, NEW r \in Requests, Moves(r), NEW q \in Labels, NEW d \in Devices,
         ~Holds(registry, q, d), Holds(registry', q, d)
  PROVE  Active(r) /\ q = Label(r) /\ d = New(r)
  <1>1. Commit(r) \/ RegistryOnly(r)
    BY StoresOf DEF Holds
  <1>2. Active(r) /\ q = Label(r) /\ Commit(r)
    BY <1>1, RowsOf DEF Holds
  <1>3. /\ Op(r) \in Operations /\ registry[q] \in Row /\ registry \in [Labels -> Row]
        /\ Op(r) \in {"bind", "rebind"} <=> New(r) # None
    BY <1>2, Arrived DEF Base, Active, Tables
  <1>4. Current(r) /\ registry'[q] = Moved(r)
    BY <1>2, <1>3 DEF Commit
  <1>5. CASE Op(r) = "bind"
    BY <1>2, <1>3, <1>4, <1>5 DEF Moved, Bind, Holds, Row
  <1>6. CASE Op(r) = "rebind"
    BY <1>2, <1>3, <1>4, <1>6 DEF Moved, Rebind, Holds, Row
  <1>7. CASE Op(r) \notin {"bind", "rebind"}
    BY <1>2, <1>3, <1>4, <1>7 DEF Moved, Retire, Unbind, Holds
  <1> QED
    BY <1>2, <1>5, <1>6, <1>7

\* A saga, of anybody, leaves what the force-delete has cleared cleared.
LEMMA WorksCleared ==
  ASSUME CBase, NEW r \in Requests, Works(r), Recorded, blamed' = blamed,
         NEW c \in Consoles, task'[c] = task[c]
  PROVE  Cleared(c)'
  <1> SUFFICES ASSUME Deleting(c)', NEW q \in Batch, NEW d \in Devices, d \notin Excused',
                      Holds(registry', q, d)
               PROVE  Pending(c, q)'
    BY DEF Cleared, Holds
  <1>1. PICK X : X = blamed
    OBVIOUS
  <1>2. Base /\ Moves(r) /\ Failing /\ Excused = Waived(X) /\ q \in Labels
    BY <1>1, BaseOf, ConsoleAssumption DEF Works, CBase, CXInv
  <1>3. Excused' = Waived(X)'
    BY <1>1 DEF Excused, Waived
  <1>4. d \notin Excused
    BY <1>2, <1>3, DoubtGrows
  <1>5. Deleting(c)
    BY DEF Deleting, Running, Kind, At
  <1>6. CASE Holds(registry, q, d)
    <2>1. Pending(c, q)
      BY <1>4, <1>5, <1>6 DEF CBase, CXInv, Cleared
    <2>2. CASE r = c
      <3>1. At(c, "saga") /\ Op(c) = "unbind" /\ Label(c) = TheLabel(c)
        <4>1. Active(c)
          BY <2>2 DEF Works
        <4>2. task[c].at \in {"saga", "undo"} /\ ~At(c, "undo")
          BY <1>5, <4>1, ItemFits DEF CBase, CIInv, SlotOK, Deleting, At, Working
        <4> QED
          BY <1>5, <4>2 DEF CBase, CIInv, SlotOK, Deleting, At
      <3>2. ASSUME pc'[c] = "done", result'[c] = "ok", TheLabel(c) = q PROVE FALSE
        BY <1>2, <2>2, <3>1, <3>2, AnswersHold DEF Works, Holds
      <3> QED
        BY <2>1, <3>2 DEF Pending, At, TheLabel
    <2>3. CASE r # c
      <3>1. pc'[c] = pc[c] /\ result'[c] = result[c]
        BY <1>2, <2>3, OthersKeep, ConsolesAre DEF Base
      <3> QED
        BY <2>1, <3>1 DEF Pending, At, TheLabel
    <2> QED
      BY <2>2, <2>3
  <1>7. CASE ~Holds(registry, q, d)
    <2>1. Active(r) /\ q = Label(r) /\ d = New(r)
      BY <1>2, <1>7, BoundBy
    <2>2. r # c
      <3> SUFFICES ASSUME r = c PROVE FALSE
        OBVIOUS
      <3>1. task[c].at \in {"saga", "undo"} /\ ~At(c, "undo")
        BY <1>5, <2>1, ItemFits DEF CBase, CIInv, SlotOK, Deleting, At, Working
      <3>2. Op(r) = "unbind"
        BY <1>5, <3>1 DEF CBase, CIInv, SlotOK, Deleting, At
      <3> QED
        BY <1>2, <2>1, <3>2, Arrived, NoneAssumption DEF Base, Active
    <2>3. r \in suspects
      BY <1>5, <2>1, <2>2, MeetsBatch DEF CBase, CXInv, Deleting
    <2>4. d \in Tainted
      BY <2>1, <2>3, NoneAssumption DEF Tainted, Touches
    <2> QED
      BY <1>4, <2>4 DEF Excused
  <1> QED
    BY <1>6, <1>7

\* Nor do steps that leave the registry and the slot alone, or delete rows.
LEMMA RestCleared ==
  ASSUME CBase, NEW c \in Consoles, task'[c] = task[c], Excused \subseteq Excused',
         \A q \in Batch, d \in Devices : Holds(registry', q, d) => Holds(registry, q, d),
         pc'[c] = pc[c], result'[c] = result[c]
  PROVE  Cleared(c)'
  <1> SUFFICES ASSUME Deleting(c)', NEW q \in Batch, NEW d \in Devices, d \notin Excused',
                      Holds(registry', q, d)
               PROVE  Pending(c, q)'
    BY DEF Cleared, Holds
  <1>1. Deleting(c)
    BY DEF Deleting, Running, Kind, At
  <1>2. Pending(c, q)
    BY <1>1 DEF CBase, CXInv, Cleared
  <1> QED
    BY <1>2 DEF Pending, At, TheLabel

\* The handler's own steps: a label leaves the list for the saga, and is
\* unbound when that answers "ok".
LEMMA TurnCleared ==
  ASSUME CBase, NEW c \in Consoles, Turn(c), Excused \subseteq Excused',
         UNCHANGED registry
  PROVE  Cleared(c)'
  <1> SUFFICES ASSUME Deleting(c)', NEW q \in Batch, NEW d \in Devices, d \notin Excused',
                      Holds(registry', q, d)
               PROVE  Pending(c, q)'
    BY DEF Cleared, Holds
  <1>1. /\ Kind(c) = "delete" /\ Running(c) /\ task[c].failed = {}
        /\ \/ /\ At(c, "next") /\ task'[c].at = "get" /\ task'[c].item \in task[c].todo
              /\ task'[c].todo = task[c].todo \ {task'[c].item}
           \/ /\ At(c, "next") /\ task'[c].at = "delete" /\ task[c].todo = {}
           \/ /\ At(c, "get") /\ task'[c].at = "saga" /\ task'[c].item = task[c].item
              /\ task'[c].todo = task[c].todo /\ pc'[c] # "done"
           \/ /\ At(c, "saga") /\ pc[c] = "done" /\ result[c] = "ok" /\ task'[c].at = "next"
              /\ task'[c].todo = task[c].todo
           \/ /\ At(c, "read") /\ task'[c].at = "next"
              /\ \A p \in Batch : registry[p].status = "bound" =>
                   \E i \in task'[c].todo : i.label = p
    BY DEF Turn, DeleteTurn, Deleting, Running, Kind, At
  <1>2. CASE At(c, "read")
    BY <1>1, <1>2 DEF Pending, At, Holds
  <1>3. CASE ~At(c, "read")
    <2>1. Pending(c, q)
      BY <1>1, <1>3 DEF CBase, CXInv, Cleared, Deleting
    <2> QED
      BY <1>1, <1>3, <2>1 DEF Pending, At, TheLabel
  <1> QED
    BY <1>2, <1>3

-----------------------------------------------------------------------------
LEMMA CNextCXInv ==
  ASSUME CBase, [CNext]_cvars
  PROVE  CXInv'
  <1>1. (Meeting \subseteq suspects)'
    BY MeetingKept DEF CBase, CXInv
  <1>2. PICK X, Y : X = blamed /\ Y = blamed'
    OBVIOUS
  <1>3. Base /\ DInv(X) /\ Excused = Waived(X) /\ Excused' = Waived(Y)'
    BY <1>2, BaseOf DEF Excused, Waived
  <1> DEFINE Kept == Failing' /\ DInv(Y)' /\ \A c \in Consoles : Cleared(c)'
  <1>4. ASSUME UNCHANGED cvars PROVE Kept
    <2>1. UNCHANGED <<registry, shows, pc, call, old, owes, result, suspects, task, blamed>>
      BY <1>4 DEF cvars, hvars, vars, consoleVars
    <2>2. DInv(Y)' /\ Waived(X) \subseteq Waived(X)'
      BY <1>2, <1>3, <2>1, StillDInv, StillDoubts
    <2>3. \A c \in Consoles : Cleared(c)'
      BY <1>2, <1>3, <2>1, <2>2, RestCleared DEF Holds
    <2>4. Failing'
      BY <2>1 DEF Failing, CBase, CXInv
    <2> QED
      BY <2>2, <2>3, <2>4
  <1>5. ASSUME CNext PROVE Kept
    <2>1. Failing'
      BY <1>5, FailingKept DEF CBase, CXInv
    <2>2. Track \/ UNCHANGED cvars
      BY <1>5, CNextTracks
    <2>3. ASSUME Reused = {} PROVE (Recorded \/ UNCHANGED suspects) /\ Y = X
      BY <1>2, <2>2, <2>3, TrackRecords DEF cvars, hvars, consoleVars
    \* A step that moves no saga and no store.
    <2>4. ASSUME Waits, NEW S, \A s \in Consoles \ S : task'[s] = task[s],
                 \A s \in Consoles \cap S : Turn(s) \/ ~Deleting(s)'
          PROVE  Kept
      <3>1. UNCHANGED <<registry, shows, pc, call, old, owes, result>> /\ Reused = {}
        BY <2>4 DEF Waits, stores, Reused
      <3>2. DInv(Y)' /\ Excused \subseteq Excused'
        BY <1>3, <2>3, <3>1, StillDInv, StillDoubts
      <3>3. ASSUME NEW s \in Consoles PROVE Cleared(s)'
        <4>1. CASE s \in S
          BY <2>4, <3>1, <3>2, <4>1, TurnCleared DEF Cleared
        <4>2. CASE s \notin S
          BY <2>4, <3>1, <3>2, <4>2, RestCleared DEF Holds
        <4> QED
          BY <4>1, <4>2
      <3> QED
        BY <2>1, <3>2, <3>3
    \* A step that starts a saga.
    <2>5. ASSUME NEW c \in Consoles, Turn(c), NEW k \in Calls, Starts(c, k)
          PROVE  Kept
      <3>1. UNCHANGED stores /\ pc'[c] # pc[c]
            /\ \A s \in Requests \ {c} : pc'[s] = pc[s] /\ result'[s] = result[s]
        BY <1>3, <2>5, StartedSlot DEF Starts, Active, Base, IInv, TypeOK
      <3>2. Track
        BY <2>2, <3>1 DEF cvars, hvars, vars
      <3>3. DInv(Y)'
        BY <1>2, <2>5, <3>2, StartDInv
      <3>4. Excused \subseteq Excused'
        BY <1>2, <1>3, <2>5, <3>2, StartDoubts DEF Base
      <3>5. ASSUME NEW s \in Consoles PROVE Cleared(s)'
        <4>1. CASE s = c
          BY <2>5, <3>1, <3>4, <4>1, TurnCleared DEF stores
        <4>2. CASE s # c
          <5>1. pc'[s] = pc[s] /\ result'[s] = result[s] /\ task'[s] = task[s]
            BY <2>5, <3>1, <4>2, ConsolesAre DEF Turn, Typed
          <5> QED
            BY <3>1, <3>4, <5>1, RestCleared DEF Holds, stores
        <4> QED
          BY <4>1, <4>2
      <3> QED
        BY <2>1, <3>3, <3>5
    \* A step of a saga.
    <2>6. ASSUME NEW r \in Requests, Works(r), NEW S,
                 \A s \in Consoles \ S : task'[s] = task[s],
                 \A s \in Consoles \cap S : ~Deleting(s)'
          PROVE  Kept
      <3>1. Moves(r) /\ Reused = {} /\ X = Y
        BY <1>3, <2>3, <2>6, WorksNext DEF Works, Base
      <3>2. CASE Recorded
        <4>1. DInv(Y)' /\ blamed' = blamed
          BY <1>2, <1>3, <3>1, <3>2, MovesDInv
        <4>2. \A s \in Consoles : Cleared(s)'
          BY <2>6, <3>2, <4>1, WorksCleared DEF Cleared
        <4> QED
          BY <2>1, <4>1, <4>2
      <3>3. CASE UNCHANGED cvars
        <4>1. Waits
          BY <3>3, Still DEF cvars, hvars, vars, stores, Slot, CBase, CIInv
        <4> QED
          BY <2>4, <2>6, <4>1
      <3> QED
        BY <2>2, <3>1, <3>2, <3>3, TrackRecords
    \* The transaction that deletes the batch.
    <2>7. ASSUME NEW c \in Consoles, Ends(c), Deletes, At(c, "delete"),
                 Kind(c) = "delete", ~Active(c)
          PROVE  Kept
      <3>1. UNCHANGED <<call, pc, old, owes, result>> /\ Reused = {}
        BY <2>7 DEF Deletes, Slot, Reused
      <3>2. DInv(Y)'
        BY <1>2, <2>3, <2>7, <3>1, DeleteDInv
      <3>3. Excused \subseteq Excused'
        BY <1>3, <2>3, <3>1, StillDoubts
      <3>4. \A q \in Batch, d \in Devices : ~Holds(registry', q, d)
        BY ConsoleAssumption, <2>7 DEF Deletes, Holds, Absent
      <3>5. ASSUME NEW s \in Consoles PROVE Cleared(s)'
        <4>1. CASE s = c
          BY <2>7, <4>1 DEF Ends, Cleared, Deleting, Running
        <4>2. CASE s # c
          <5>1. task'[s] = task[s] /\ pc'[s] = pc[s] /\ result'[s] = result[s]
            BY <2>7, <3>1, <4>2 DEF Ends, Typed
          <5> QED
            BY <3>3, <3>4, <5>1, RestCleared
        <4> QED
          BY <4>1, <4>2
      <3> QED
        BY <2>1, <3>2, <3>5
    <2>8. ASSUME NEW c \in Consoles, Ends(c)
          PROVE  ~Deleting(c)' /\ \A s \in Consoles \ {c} : task'[s] = task[s]
      BY <2>8 DEF Ends, Typed, Deleting, Running
    <2>9. ASSUME task' = task, Waits \/ \E r \in Requests : Works(r)
          PROVE  Kept
      <3>1. PICK S : S = {}
        OBVIOUS
      <3> QED
        BY <2>4, <2>6, <2>9, <3>1
    <2>10. ASSUME NEW c \in Consoles, Turn(c), Waits
           PROVE  Kept
      <3>1. \A s \in Consoles \ {c} : task'[s] = task[s]
        BY <2>10 DEF Turn, Typed
      <3>2. \A s \in Consoles \cap {c} : Turn(s) \/ ~Deleting(s)'
        BY <2>10
      <3> HIDE DEF Kept
      <3> QED
        BY <2>4, <2>10, <3>1, <3>2
    <2>11. ASSUME NEW c \in Consoles, Ends(c), Works(c) \/ Waits
           PROVE  Kept
      <3>1. \A s \in Consoles \cap {c} : ~Deleting(s)'
        BY <2>8, <2>11
      <3>2. c \in Requests /\ \A s \in Consoles \ {c} : task'[s] = task[s]
        BY <2>8, <2>11, ConsolesAre
      <3> QED
        BY <2>4, <2>6, <2>11, <3>1, <3>2
    <2> HIDE DEF Kept
    <2>12. \/ \E c \in Consoles : Turn(c)
           \/ \E c \in Consoles : Ends(c) /\ (Works(c) \/ Waits)
           \/ \E c \in Consoles :
                Ends(c) /\ Deletes /\ At(c, "delete") /\ Kind(c) = "delete" /\ ~Active(c)
           \/ task' = task /\ (Waits \/ \E r \in Requests : Works(r))
      BY <1>5, StepKinds DEF CBase
    <2>13. ASSUME NEW c \in Consoles, Turn(c) PROVE Kept
      BY <2>5, <2>10, <2>13 DEF Turn
    <2> QED
      BY <2>7, <2>9, <2>11, <2>12, <2>13
  <1>6. Failing' /\ DInv(Y)' /\ \A c \in Consoles : Cleared(c)'
    BY <1>4, <1>5
  <1>7. CDInv'
    BY <1>2, <1>6 DEF CDInv
  <1> QED
    BY <1>1, <1>6, <1>7 DEF CXInv

LEMMA InitCXInv ==
  ASSUME CInit
  PROVE  CXInv
  <1>1. CDInv
    BY InitDInv DEF CInit, CDInv
  <1>2. \A r \in Requests : pc[r] = "idle" /\ call[r] = NoCall /\ old[r] = None
    BY DEF CInit, HInit, Init
  <1>3. \A c \in Consoles : ~Running(c)
    BY DEF CInit, NoTask, Running
  <1>4. Failing
    BY <1>2 DEF Failing, Compensating
  <1>5. \A r \in Requests : Extent(r) = {}
    BY <1>2, <1>3 DEF Extent, Footprint, Active
  <1>6. Meeting = {}
    BY <1>5 DEF Meeting
  <1> QED
    BY <1>1, <1>3, <1>4, <1>6 DEF CXInv, Cleared, Deleting

\* All that is assumed of a state holds in every state.
LEMMA BaseInvariant == CSpec => []CBase
  <1>1. CIInv /\ registry \in Tables /\ CXInv /\ [CNext]_cvars => CXInv'
    BY CNextCXInv DEF CBase
  <1> QED
    BY <1>1, InitCXInv, CIInvInvariant, TablesInvariant, PTL DEF CSpec, CBase

(***************************************************************************)
(* However the sagas are chained, and a force-delete included, the stores  *)
(* agree about every device that no running saga touches, unless a doubted *)
(* saga touched it.                                                        *)
(***************************************************************************)
THEOREM ChainsAlwaysAttributable == CSpec => []ChainsDivergeAttributably
  <1>1. CBase => ChainsDivergeAttributably
    <2> SUFFICES ASSUME CBase, NEW d \in Devices \ (Excused \cup Busy) PROVE Agree(d)
      BY DEF ChainsDivergeAttributably
    <2>1. PICK X : X = blamed
      OBVIOUS
    <2>2. DInv(X) /\ d \notin Waived(X)
      BY <2>1, BaseOf
    <2>3. d \notin Held
      BY NoneAssumption DEF Held, Busy, Footprint, Touches, Hands
    <2> QED
      BY <2>2, <2>3 DEF DInv
  <1> QED
    BY <1>1, BaseInvariant, PTL

-----------------------------------------------------------------------------
(***************************************************************************)
(* What the administrators are told.  As long as nobody crosses operation  *)
(* c, a row it has moved and a device it has emptied stay as they are, so  *)
(* what an item needs of the registry is known from the step that did it   *)
(* to the flash; what it needs of NetBox then follows from CXInv.          *)
(***************************************************************************)

\* Nobody else touches what operation c works on.
Alone(c) ==
  \A r \in Requests \ {c} :
    Scope(c) \cap (Footprint(r) \cup IF r \in Consoles THEN Scope(r) ELSE {}) \subseteq {None}

\* It works on its current item.
InWork(t) == t.at \in Working /\ ~(t.at = "read" /\ t.kind = "delete")

\* How the list of an operation fits its kind and its current item.
Orderly(t) ==
  /\ t.said = None /\ t.todo \subseteq t.items
  /\ \A i \in t.items : Fits(t.kind, i) /\ (t.kind = "decommission" => i.label = None)
  /\ \A i, j \in t.items : Id(i) = Id(j) \/ t.kind = "replace" => i = j
  /\ InWork(t) => /\ \E i \in t.items : Id(i) = Id(t.item)
                  /\ t.kind # "unbind" => t.item \in t.items
  /\ t.kind = "delete" /\ t.at = "read" => t.items = {}

\* What an item needs of the registry to count as done.
Deed(kind, i) ==
  /\ kind = "retire" => registry[i.label].status = "retired"
  /\ kind \in {"restore", "unbind"} => registry[i.label].status = "free"
  /\ kind = "decommission" => i.device \in decommissioned /\ Holder(i.device) = {}
  /\ kind \in {"rebind", "replace"} => Holds(registry, i.label, i.device)

\* Every item that has left the list is counted as failed, or done, or it is
\* the current one.
Worked(t) ==
  \A i \in t.items \ t.todo :
    Id(i) \in t.failed \/ Deed(t.kind, i) \/ (InWork(t) /\ Id(i) = Id(t.item))

\* The saga in a console's slot is the one its current item asks for.
Linked(c) ==
  task[c].at \in {"saga", "undo"} =>
    /\ Kind(c) \in {"retire", "restore", "unbind", "rebind"} => Op(c) = Kind(c)
    /\ Kind(c) \in {"retire", "restore", "unbind", "rebind", "delete"} => Label(c) = TheLabel(c)
    /\ Kind(c) = "delete" => Op(c) = "unbind"
    /\ Kind(c) = "rebind" => New(c) = TheDevice(c)
    /\ Kind(c) = "replace" =>
         \/ Op(c) = "unbind" /\ Label(c) = task[c].found
         \/ Op(c) = "bind" /\ Label(c) = TheLabel(c) /\ New(c) = TheDevice(c)
    /\ Kind(c) = "decommission" =>
         /\ Label(c) = task[c].found
         /\ Op(c) = "retire" \/ (At(c, "undo") /\ Op(c) = "bind" /\ New(c) = TheDevice(c))

\* What its answer says of the row.
Outcome(c) ==
  At(c, "saga") /\ pc[c] = "done" =>
    /\ result[c] = "ok" /\ Op(c) = "retire" => registry[Label(c)].status = "retired"
    /\ result[c] = "ok" /\ Op(c) \in {"unbind", "restore"} => registry[Label(c)].status = "free"
    /\ \/ result[c] = "ok" /\ Op(c) \in {"bind", "rebind"}
       \/ result[c] = "same_device" /\ Op(c) = "rebind"
       => Holds(registry, Label(c), New(c))

\* What a decommission has found on its device, and a force-delete in the batch.
Found(c) ==
  /\ Kind(c) = "decommission" /\ At(c, "saga") => Holder(TheDevice(c)) \subseteq {task[c].found}
  /\ task[c].at \in {"status_get", "status_patch"} => Holder(TheDevice(c)) = {}
  /\ Kind(c) = "delete" => \A i \in task[c].items : registry[i.label].status # "absent"

\* All that is known of a running operation nobody has crossed.
Told(c) ==
  Running(c) => Orderly(task[c]) /\ Worked(task[c]) /\ Linked(c) /\ Outcome(c) /\ Found(c)

Reliable == \A c \in Consoles : c \notin crossed => Alone(c) /\ Told(c)

\* What CXInv says of a label that is not bound, and of a device nobody works on.
Shown ==
  /\ \A q \in Labels :
       registry[q].status # "bound" /\ (\A r \in Requests : Active(r) => Label(r) # q)
         => ShowsNone(q)
  /\ \A d \in Devices \ Excused :
       (\A r \in Requests : Active(r) => d \notin Touches(r)) => Agree(d)

LEMMA ShownBase ==
  ASSUME CBase
  PROVE  Shown
  <1>1. PICK X : X = blamed
    OBVIOUS
  <1>2. Base /\ DInv(X) /\ Excused = Waived(X)
    BY <1>1, BaseOf
  <1>3. ASSUME NEW d \in Devices \ Excused, d \notin Held PROVE Agree(d)
    BY <1>2, <1>3 DEF DInv
  <1>4. ASSUME NEW q \in Labels, registry[q].status # "bound",
               \A r \in Requests : Active(r) => Label(r) # q,
               NEW d \in Devices \ Excused
        PROVE  shows[d] # q
    <2>1. Agree(d) => shows[d] # q
      BY <1>4 DEF Agree, Holds
    <2>2. CASE d \notin Held
      BY <1>3, <2>1, <2>2
    <2>3. CASE d \in Held
      <3>1. PICK r \in Requests : Active(r) /\ d \in Hands(r)
        BY <2>3 DEF Held
      <3>2. ~Doubted(r)
        BY <1>2, <3>1, NoneAssumption DEF Waived, Tainted, Doubted, Touches, Hands
      <3>3. Known(X, r) /\ Label(r) # q /\ d \notin Waived(X)
        BY <1>2, <1>4, <3>1, <3>2 DEF DInv
      <3>4. CASE d = New(r)
        <4>1. Agree(d) \/ shows[d] \in {None, Label(r)}
          BY <3>3, <3>4 DEF Known, NewAsLeft
        <4> QED
          BY <2>1, <3>3, <4>1, NoneAssumption
      <3>5. CASE d = old[r]
        <4>1. Agree(d) \/ shows[d] \in {None, Label(r)}
          BY <3>3, <3>5 DEF Known, OldAsLeft
        <4> QED
          BY <2>1, <3>3, <4>1, NoneAssumption
      <3> QED
        BY <3>1, <3>4, <3>5 DEF Hands
    <2> QED
      BY <2>2, <2>3
  <1>5. ASSUME NEW d \in Devices \ Excused,
               \A r \in Requests : Active(r) => d \notin Touches(r)
        PROVE  Agree(d)
    BY <1>3, <1>5, NoneAssumption DEF Held, Hands, Touches
  <1> QED
    BY <1>4, <1>5 DEF Shown, ShowsNone

-----------------------------------------------------------------------------
\* Nobody crosses an operation that is not recorded as crossed.
LEMMA AloneKept ==
  ASSUME Track, NEW c \in Consoles, c \notin crossed'
  PROVE  c \notin crossed /\ Alone(c)'
  BY DEF Track, Alone

\* What a running operation works on is its own.
LEMMA OwnLabel ==
  ASSUME NEW c \in Consoles, Alone(c), Running(c), NEW i \in task[c].items \cup {task[c].item},
         NEW r \in Requests \ {c}, Active(r)
  PROVE  /\ i.label # None => i.label # Label(r)
         /\ i.device # None => i.device # New(r)
  <1>1. {i.label, i.device} \subseteq Scope(c)
    BY DEF Scope
  <1>2. Touches(r) = Footprint(r)
    BY DEF Footprint
  <1> QED
    BY <1>1, <1>2 DEF Alone, Touches

LEMMA OwnFound ==
  ASSUME NEW c \in Consoles, Alone(c), Running(c), NEW r \in Requests \ {c}, Active(r)
  PROVE  task[c].found # None => task[c].found # Label(r)
  <1>1. task[c].found \in Scope(c)
    BY DEF Scope
  <1> QED
    BY <1>1 DEF Alone, Touches, Footprint

\* So is the label and the target of its saga.
LEMMA OwnSlot ==
  ASSUME CIInv, NEW c \in Consoles, Alone(c), Running(c), pc[c] = "done", Linked(c), At(c, "saga"),
         NEW r \in Requests \ {c}, Active(r), Label(c) \in Labels
  PROVE  Label(c) # Label(r)
  <1>1. task[c].item.label \in Labels \/ Kind(c) = "decommission"
    BY ItemFits DEF CIInv, At, Working, TheLabel
  <1>2. Kind(c) \in Kinds
    BY ItemFits DEF CIInv, At, Working
  <1>3. \/ Label(c) = task[c].item.label \/ Label(c) = task[c].found
    BY <1>2 DEF Linked, At, Kinds, TheLabel
  <1> QED
    BY <1>3, OwnLabel, OwnFound, NoneAssumption

-----------------------------------------------------------------------------
(***************************************************************************)
(* How far a step of a saga reaches in the registry.                       *)
(***************************************************************************)
LEMMA RowsReach ==
  ASSUME Base, NEW r \in Requests, Moves(r)
  PROVE  /\ \A q \in Labels : (Active(r) => q # Label(r)) => registry'[q] = registry[q]
         /\ \A d \in Devices : (Active(r) => d # New(r)) => Holder(d)' \subseteq Holder(d)
  <1>1. ASSUME NEW q \in Labels, Active(r) => q # Label(r)
        PROVE  registry'[q] = registry[q]
    BY <1>1, StoresOf, RowsOf
  <1>2. ASSUME NEW d \in Devices, Active(r) => d # New(r)
        PROVE  Holder(d)' \subseteq Holder(d)
    BY <1>2, BoundBy DEF Holder, Holds
  <1> QED
    BY <1>1, <1>2

\* No saga makes a row absent.
LEMMA RowsRemain ==
  ASSUME Base, NEW r \in Requests, Moves(r), NEW q \in Labels, registry[q].status # "absent"
  PROVE  registry'[q].status # "absent"
  <1>1. CASE ~(Commit(r) \/ RegistryOnly(r)) \/ q # Label(r)
    BY <1>1, StoresOf, RowsOf
  <1>2. registry[q] \in Row /\ registry \in [Labels -> Row]
    BY DEF Base, Tables
  <1>3. CASE Commit(r) /\ q = Label(r)
    <2>1. registry'[q] = Moved(r) /\ Current(r)
      BY <1>2, <1>3 DEF Commit
    <2> QED
      BY <1>2, <1>3, <2>1 DEF Moved, Current, Bind, Retire, Rebind, Unbind, Row
  <1>4. CASE RegistryOnly(r) /\ q = Label(r)
    <2>1. registry'[q] = MovedAlone(r)
      BY <1>2, <1>4 DEF RegistryOnly
    <2> QED
      BY <1>2, <1>4, <2>1 DEF MovedAlone, Restore, Retire, Row
  <1> QED
    BY <1>1, <1>3, <1>4


\* What console c's operation knows stays, in a step that changes neither its
\* task and its slot nor the rows it works on, nor binds its devices.
LEMMA ToldStays ==
  ASSUME CIInv, NEW c \in Consoles, Told(c), task'[c] = task[c],
         decommissioned \subseteq decommissioned',
         pc'[c] = pc[c], call'[c] = call[c], result'[c] = result[c],
         Running(c) =>
           /\ \A i \in task[c].items : i.label \in Labels => registry'[i.label] = registry[i.label]
           /\ At(c, "saga") /\ pc[c] = "done" => registry'[Label(c)] = registry[Label(c)]
           /\ \A i \in task[c].items \cup {task[c].item} :
                i.device \in Devices => Holder(i.device)' \subseteq Holder(i.device)
  PROVE  Told(c)'
  <1> SUFFICES ASSUME Running(c)'
               PROVE  /\ Orderly(task'[c]) /\ Worked(task[c])'
                      /\ Linked(c)' /\ Outcome(c)' /\ Found(c)'
    BY DEF Told
  <1>1. Running(c) /\ Orderly(task[c]) /\ Worked(task[c]) /\ Linked(c) /\ Outcome(c) /\ Found(c)
    BY DEF Told, Running
  <1>2. task[c].kind \in Kinds
    BY <1>1, TaskFields DEF CIInv, TaskOK, Running
  <1>3. ASSUME NEW i \in task[c].items, Deed(task[c].kind, i) PROVE Deed(task[c].kind, i)'
    <2>1. Fits(task[c].kind, i)
      BY <1>1 DEF Orderly
    <2> QED
      BY <1>1, <1>2, <1>3, <2>1 DEF Deed, Fits, Kinds, Holds
  <1>4. Worked(task[c])'
    BY <1>1, <1>3 DEF Worked
  <1>5. Linked(c)' /\ Outcome(c)'
    BY <1>1 DEF Linked, Outcome, At, Kind, Op, Label, New, TheLabel, TheDevice, Holds
  <1>6. Found(c)'
    <2>1. CASE Kind(c) = "decommission" /\ task[c].at \in {"saga", "status_get", "status_patch"}
      <3>1. TheDevice(c) \in Devices
        BY <2>1, ItemFits DEF CIInv, Working, At
      <3>2. Holder(TheDevice(c))' \subseteq Holder(TheDevice(c))
        BY <1>1, <3>1 DEF TheDevice
      <3> QED
        BY <1>1, <2>1, <3>2 DEF Found, At, Kind, TheDevice
    <2>2. CASE Kind(c) = "delete"
      <3>1. \A i \in task[c].items : i.label \in Labels
        BY <1>1, <2>2 DEF Orderly, Fits, Kind
      <3>2. task[c].at \notin {"status_get", "status_patch"}
        BY <2>2, ItemFits DEF CIInv, Working, At
      <3> QED
        BY <1>1, <2>2, <3>1, <3>2 DEF Found, At, Kind
    <2>3. task[c].at \in {"status_get", "status_patch"} => Kind(c) = "decommission"
      BY ItemFits DEF CIInv, Working, At
    <2> QED
      BY <1>1, <2>1, <2>2, <2>3 DEF Found, At, Kind
  <1> QED
    BY <1>1, <1>4, <1>5, <1>6

\* The label of a saga that has returned to its console.
LEMMA ReturnedLabel ==
  ASSUME CIInv, NEW c \in Consoles, pc[c] = "done"
  PROVE  Label(c) \in Labels
  BY ConsolesAre, Arrived DEF CIInv

\* A step of somebody else's saga.
LEMMA OthersWork ==
  ASSUME CBase, NEW c \in Consoles, Alone(c), Told(c), NEW r \in Requests \ {c}, Works(r),
         task'[c] = task[c], decommissioned \subseteq decommissioned'
  PROVE  Told(c)'
  <1>1. Base /\ Moves(r) /\ CIInv /\ c \in Requests
    BY BaseOf, ConsolesAre DEF Works, CBase
  <1>2. pc'[c] = pc[c] /\ call'[c] = call[c] /\ result'[c] = result[c]
    BY <1>1, OthersKeep DEF Base
  <1>3. ASSUME Running(c), NEW i \in task[c].items, i.label \in Labels
        PROVE  registry'[i.label] = registry[i.label]
    BY <1>1, <1>3, RowsReach, OwnLabel, NoneAssumption
  <1>4. ASSUME Running(c), At(c, "saga"), pc[c] = "done"
        PROVE  registry'[Label(c)] = registry[Label(c)]
    <2>1. Label(c) \in Labels /\ Linked(c)
      BY <1>1, <1>4, ReturnedLabel DEF Told
    <2> QED
      BY <1>1, <1>4, <2>1, RowsReach, OwnSlot
  <1>5. ASSUME Running(c), NEW i \in task[c].items \cup {task[c].item}, i.device \in Devices
        PROVE  Holder(i.device)' \subseteq Holder(i.device)
    BY <1>1, <1>5, RowsReach, OwnLabel, NoneAssumption
  <1> QED
    BY <1>1, <1>2, <1>3, <1>4, <1>5, ToldStays

\* A step of another handler, and the deletion of its batch.
LEMMA OthersTurn ==
  ASSUME CBase, NEW c \in Consoles, Alone(c), Told(c), task'[c] = task[c],
         decommissioned \subseteq decommissioned',
         \/ Waits
         \/ \E s \in Consoles \ {c} : \E k \in Calls : Starts(s, k)
         \/ \E s \in Consoles \ {c} : Deletes /\ At(s, "delete") /\ Kind(s) = "delete"
  PROVE  Told(c)'
  <1>1. CIInv /\ c \in Requests
    BY ConsolesAre DEF CBase
  <1>2. pc'[c] = pc[c] /\ call'[c] = call[c] /\ result'[c] = result[c]
    BY <1>1, ConsolesAre DEF Waits, Starts, Deletes, Slot, CIInv, IInv, TypeOK
  <1>3. CASE UNCHANGED registry
    BY <1>1, <1>2, <1>3, ToldStays DEF Holder, Holds
  <1>4. ASSUME NEW s \in Consoles \ {c}, Deletes, At(s, "delete"), Kind(s) = "delete"
        PROVE  Told(c)'
    <2>1. Batch \subseteq Scope(s) /\ s \in Requests \ {c}
      BY <1>4, ConsolesAre DEF Scope, Extent, Running, At
    <2>2. \A q \in Labels : registry'[q] = IF q \in Batch THEN Absent ELSE registry[q]
      BY <1>4 DEF Deletes
    <2>3. ASSUME NEW q \in Scope(c), q \in Labels PROVE registry'[q] = registry[q]
      BY <2>1, <2>2, <2>3, NoneAssumption DEF Alone
    <2>4. ASSUME Running(c) PROVE \A i \in task[c].items \cup {task[c].item} : i.label \in Scope(c)
      BY <2>4 DEF Scope
    <2>5. ASSUME Running(c), At(c, "saga"), pc[c] = "done"
          PROVE  registry'[Label(c)] = registry[Label(c)]
      <3>0. Kind(c) \in Kinds
        BY <1>1, <2>5, ItemFits DEF CIInv, At, Working
      <3>1. Label(c) \in Labels /\ Linked(c) /\ Kind(c) \in Kinds
        BY <1>1, <2>5, <3>0, ReturnedLabel DEF Told
      <3>2. Label(c) \in {task[c].item.label, task[c].found}
        BY <2>5, <3>1 DEF Linked, At, Kinds, TheLabel
      <3>3. task[c].found \in Scope(c)
        BY <2>5 DEF Scope
      <3> QED
        BY <2>3, <2>4, <2>5, <3>1, <3>2, <3>3
    <2>6. \A d : Holder(d)' \subseteq Holder(d)
      BY <2>2 DEF Holder, Holds, Absent
    <2> QED
      BY <1>1, <1>2, <2>3, <2>4, <2>5, <2>6, ToldStays
  <1> QED
    BY <1>3, <1>4 DEF Waits, Starts, stores

\* A step of its own saga.
LEMMA OwnWork ==
  ASSUME CBase, NEW c \in Consoles, Told(c), Works(c), task'[c] = task[c],
         decommissioned \subseteq decommissioned'
  PROVE  Told(c)'
  <1> SUFFICES ASSUME Running(c)'
               PROVE  /\ Orderly(task'[c]) /\ Worked(task[c])'
                      /\ Linked(c)' /\ Outcome(c)' /\ Found(c)'
    BY DEF Told
  <1>1. /\ Base /\ Moves(c) /\ Active(c) /\ Failing /\ CIInv /\ c \in Requests
    BY BaseOf, ConsolesAre DEF Works, CBase, CXInv
  <1>2. Orderly(task[c]) /\ Worked(task[c]) /\ Linked(c) /\ Found(c)
    BY DEF Told, Running
  <1>3. task[c].at \in {"saga", "undo"} /\ Kind(c) \in Kinds /\ InWork(task[c])
    <2>1. task[c].at \in {"saga", "undo"}
      BY <1>1 DEF CIInv, SlotOK
    <2> QED
      BY <1>1, <2>1, ItemFits DEF CIInv, At, Working, InWork
  <1>4. /\ Fits(Kind(c), task[c].item)
        /\ Label(c) \in Labels /\ Op(c) \in Operations
        /\ Op(c) \in {"bind", "rebind"} <=> New(c) # None
    <2>1. pc[c] # "idle"
      BY <1>1 DEF Active
    <2> QED
      BY <1>1, <1>3, <2>1, Arrived, ItemFits DEF CIInv, At, Working
  <1>5. call'[c] = call[c]
    BY <1>1, WorksNext DEF CIInv
  <1>6. /\ \A q \in Labels \ {Label(c)} : registry'[q] = registry[q]
        /\ \A d \in Devices \ {New(c)} : Holder(d)' \subseteq Holder(d)
    BY <1>1, RowsReach
  <1>7. Linked(c)'
    BY <1>2, <1>5 DEF Linked, At, Kind, Op, Label, New, TheLabel, TheDevice
  <1>8. Outcome(c)'
    BY <1>1, <1>5, AnswersHold DEF Outcome, Op, Label, New, Holds
  <1>9. Found(c)'
    <2>1. Kind(c) = "decommission" /\ At(c, "saga") =>
            Holder(TheDevice(c))' \subseteq Holder(TheDevice(c))
      BY <1>2, <1>4, <1>6, NoneAssumption DEF Linked, At, Fits, TheDevice, Kind
    <2>2. Kind(c) = "delete" => \A i \in task[c].items : registry'[i.label].status # "absent"
      BY <1>1, <1>2, RowsRemain DEF Found, Orderly, Fits, Kind
    <2> QED
      BY <1>2, <1>3, <2>1, <2>2 DEF Found, At, Kind, TheDevice
  <1>10. ASSUME NEW i \in task[c].items, Id(i) # Id(task[c].item), Deed(task[c].kind, i)
         PROVE  Deed(task[c].kind, i)'
    <2>1. /\ Fits(Kind(c), i) /\ (Kind(c) = "decommission" => i.label = None)
          /\ Kind(c) # "unbind" => task[c].item \in task[c].items
          /\ Kind(c) = "replace" => i = task[c].item
      BY <1>2, <1>3 DEF Orderly, Kind
    <2>2. CASE Kind(c) = "decommission"
      <3>1. i.device # TheDevice(c) /\ i.device \in Devices
        BY <1>2, <1>4, <1>10, <2>1, <2>2 DEF Orderly, Id, Fits, TheDevice, Kind, InWork
      <3>2. i.device # New(c)
        BY <1>2, <1>3, <1>4, <2>2, <3>1, NoneAssumption DEF Linked
      <3> QED
        BY <1>6, <1>10, <2>2, <3>1, <3>2 DEF Deed, Kind
    <2>3. CASE Kind(c) # "decommission"
      <3>1. i.label \in Labels /\ TheLabel(c) \in Labels /\ i.label # TheLabel(c)
        BY <1>4, <1>10, <2>1, <2>3, NoneAssumption DEF Fits, Id, TheLabel
      <3>2. Kind(c) # "replace"
        BY <1>10, <2>1
      <3>3. Label(c) = TheLabel(c)
        BY <1>2, <1>3, <2>3, <3>2 DEF Linked, Kinds
      <3>4. registry'[i.label] = registry[i.label]
        BY <1>6, <3>1, <3>3
      <3> QED
        BY <1>10, <2>3, <3>2, <3>4 DEF Deed, Holds, Kind
    <2> QED
      BY <2>2, <2>3
  <1>11. Worked(task[c])'
    BY <1>2, <1>3, <1>10 DEF Worked
  <1> QED
    BY <1>2, <1>7, <1>8, <1>9, <1>11

-----------------------------------------------------------------------------
(***************************************************************************)
(* The steps of its own handler.                                           *)
(***************************************************************************)
\* An item is named as the current one is: then it is the current one, but
\* for the device that unbind reads.
LEMMA SameItem ==
  ASSUME CIInv, NEW c \in Consoles, Told(c), Running(c), InWork(task[c]),
         NEW i \in task[c].items, Id(i) = Id(task[c].item)
  PROVE  IF Kind(c) = "unbind" THEN i.label = TheLabel(c) ELSE i = task[c].item
  <1>1. Orderly(task[c]) /\ Fits(Kind(c), task[c].item)
    BY ItemFits DEF Told, CIInv, InWork, Working, At, Kind
  <1>2. Fits(Kind(c), i)
    BY <1>1 DEF Orderly, Kind
  <1> QED
    BY <1>1, <1>2, NoneAssumption DEF Orderly, Fits, Id, Kind, TheLabel

LEMMA DeedStays ==
  ASSUME UNCHANGED registry, decommissioned \subseteq decommissioned', NEW k, NEW i, Deed(k, i)
  PROVE  Deed(k, i)'
  BY DEF Deed, Holder, Holds

\* The handler goes on with its list as it is: its item is still in work, or
\* counted as failed, or done.
LEMMA GoesOn ==
  ASSUME CIInv, NEW c \in Consoles, Told(c), Running(c), UNCHANGED registry,
         decommissioned \subseteq decommissioned',
         NEW t, task'[c] = t, t.kind = Kind(c), t.items = task[c].items,
         t.todo = task[c].todo, t.said = task[c].said, task[c].failed \subseteq t.failed,
         InWork(t) => /\ InWork(task[c]) /\ Id(t.item) = Id(task[c].item)
                      /\ Kind(c) # "unbind" => t.item = task[c].item,
         ~InWork(t) => t.at # "read", NEW j, j = task[c].item,
         InWork(t) \/ ~InWork(task[c]) \/ Id(j) \in t.failed \/ Deed(t.kind, j)'
  PROVE  /\ Orderly(task'[c]) /\ Worked(task[c])'
         /\ t.kind = "delete" => \A i \in t.items : registry'[i.label].status # "absent"
  <1>1. Orderly(task[c]) /\ Worked(task[c]) /\ Found(c)
    BY DEF Told
  <1>2. Orderly(task'[c])
    BY <1>1 DEF Orderly, Kind, InWork
  <1>3. ASSUME NEW i \in t.items \ t.todo
        PROVE  Id(i) \in t.failed \/ Deed(t.kind, i)' \/ (InWork(t) /\ Id(i) = Id(t.item))
    <2>1. CASE Id(i) \in task[c].failed
      BY <2>1
    <2>2. CASE Deed(Kind(c), i)
      BY <2>2, DeedStays
    <2>3. CASE InWork(task[c]) /\ Id(i) = Id(task[c].item)
      <3>1. CASE InWork(t) \/ Id(j) \in t.failed
        BY <2>3, <3>1
      <3>2. CASE Deed(t.kind, j)'
        <4>1. IF Kind(c) = "unbind" THEN i.label = TheLabel(c) ELSE i = j
          BY <2>3, SameItem
        <4>2. CASE Kind(c) = "unbind"
          <5>1. i.label = j.label
            BY <4>1, <4>2 DEF TheLabel
          <5> QED
            BY <3>2, <4>2, <5>1 DEF Deed
        <4>3. CASE Kind(c) # "unbind"
          BY <3>2, <4>1, <4>3
        <4> QED
          BY <4>2, <4>3
      <3> QED
        BY <2>3, <3>1, <3>2
    <2> QED
      BY <1>1, <2>1, <2>2, <2>3 DEF Worked, Kind
  <1>4. Worked(task[c])'
    BY <1>3 DEF Worked
  <1> QED
    BY <1>1, <1>2, <1>4 DEF Found, Kind

\* What the slot of a console has to do with it matters in two states only.
LEMMA NotInSaga ==
  ASSUME NEW c \in Consoles, task'[c].at \notin {"saga", "undo"}
  PROVE  Linked(c)' /\ Outcome(c)'
  BY DEF Linked, Outcome, At

\* The operation has ended.
LEMMA NotRunning ==
  ASSUME NEW c \in Consoles, task'[c].at \in {"idle", "done"}
  PROVE  Told(c)'
  BY DEF Told, Running

LEMMA SaidTold ==
  ASSUME CIInv, NEW c \in Consoles, NEW a, Say(c, a)
  PROVE  Told(c)'
  <1>1. task'[c].at = "done"
    BY DEF Say, Update, CIInv, CTypes, GoodTasks, TaskType
  <1> QED
    BY <1>1, NotRunning

\* The item is done, ...
LEMMA SucceedTold ==
  ASSUME CIInv, NEW c \in Consoles, Told(c), Running(c), UNCHANGED registry,
         decommissioned \subseteq decommissioned', Succeed(c),
         NEW k, k = Kind(c), NEW j, j = task[c].item, Deed(k, j)'
  PROVE  Told(c)'
  <1> DEFINE t == [task[c] EXCEPT !.at = "next"]
  <1>1. /\ t.kind = k /\ t.items = task[c].items /\ t.at = "next"
        /\ t.todo = task[c].todo /\ t.said = task[c].said /\ t.failed = task[c].failed
    BY TaskFields DEF CIInv, TaskType, Kind
  <1>2. task'[c] = t
    BY DEF Succeed, Move, Update, CIInv, CTypes
  <1> HIDE DEF t
  <1>3. ~InWork(t)
    BY <1>1 DEF InWork, Working
  <1>4. /\ Orderly(task'[c]) /\ Worked(task[c])'
        /\ t.kind = "delete" => \A i \in t.items : registry'[i.label].status # "absent"
    BY <1>1, <1>2, <1>3, GoesOn
  <1> QED
    BY <1>1, <1>2, <1>4, NotInSaga DEF Told, Found, At, Kind

\* ... or counted as failed.
LEMMA MissTold ==
  ASSUME CIInv, NEW c \in Consoles, Told(c), Running(c), UNCHANGED registry,
         decommissioned \subseteq decommissioned', NEW n,
         Update(c, [task[c] EXCEPT !.at = "next", !.failed = @ \cup {Id(task[c].item)},
                                   !.undo = n])
         \/ Miss(c)
  PROVE  Told(c)'
  <1>1. PICK m : Update(c, [task[c] EXCEPT !.at = "next",
                              !.failed = task[c].failed \cup {Id(task[c].item)}, !.undo = m])
    <2>1. CASE Miss(c)
      <3>1. [task[c] EXCEPT !.at = "next", !.failed = @ \cup {Id(task[c].item)}]
              = [task[c] EXCEPT !.at = "next", !.failed = @ \cup {Id(task[c].item)},
                                !.undo = task[c].undo]
        BY TaskFields DEF CIInv, TaskType
      <3> QED
        BY <2>1, <3>1 DEF Miss
    <2> QED
      BY <2>1
  <1> DEFINE t == [task[c] EXCEPT !.at = "next",
                     !.failed = task[c].failed \cup {Id(task[c].item)}, !.undo = m]
  <1>2. /\ t.kind = Kind(c) /\ t.items = task[c].items /\ t.at = "next"
        /\ t.todo = task[c].todo /\ t.said = task[c].said
        /\ t.failed = task[c].failed \cup {Id(task[c].item)}
    BY TaskFields DEF CIInv, TaskType, Kind
  <1>3. task'[c] = t
    BY <1>1 DEF Update, CIInv, CTypes
  <1> HIDE DEF t
  <1>4. ~InWork(t)
    BY <1>2 DEF InWork, Working
  <1>5. /\ Orderly(task'[c]) /\ Worked(task[c])'
        /\ t.kind = "delete" => \A i \in t.items : registry'[i.label].status # "absent"
    BY <1>2, <1>3, <1>4, GoesOn
  <1> QED
    BY <1>2, <1>3, <1>5, NotInSaga DEF Told, Found, At, Kind

\* What an administrator submits is a list without repetitions.
LEMMA SelectionsDiffer ==
  ASSUME NEW kind \in Kinds, NEW items \in Selections(kind)
  PROVE  /\ \A i \in items : kind = "decommission" => i.label = None
         /\ \A i, j \in items : Id(i) = Id(j) \/ kind = "replace" => i = j
         /\ kind = "delete" => items = {}
  <1>1. CASE kind = "retire"
    BY <1>1, NoneAssumption DEF Selections, Item, Id
  <1>2. CASE kind \in {"restore", "unbind"}
    BY <1>2 DEF Selections, Item
  <1>3. CASE kind \in {"rebind", "replace"}
    BY <1>3 DEF Selections, Item
  <1>4. CASE kind = "decommission"
    BY <1>4 DEF Selections, Item, Id
  <1>5. CASE kind = "delete"
    BY <1>5 DEF Selections
  <1> QED
    BY <1>1, <1>2, <1>3, <1>4, <1>5 DEF Kinds

LEMMA SubmitTold ==
  ASSUME CIInv, NEW c \in Consoles, Submit(c)
  PROVE  Told(c)'
  <1>0. PICK kind \in Kinds : \E items \in Selections(kind) :
          Update(c, [NoTask EXCEPT !.kind = kind, !.items = items, !.todo = items,
                       !.at = IF kind = "delete" THEN "read" ELSE "next"])
    BY DEF Submit
  <1>1. PICK items \in Selections(kind) :
          Update(c, [NoTask EXCEPT !.kind = kind, !.items = items, !.todo = items,
                       !.at = IF kind = "delete" THEN "read" ELSE "next"])
    BY <1>0
  <1> DEFINE t == [NoTask EXCEPT !.kind = kind, !.items = items, !.todo = items,
                     !.at = IF kind = "delete" THEN "read" ELSE "next"]
  <1>2. /\ t.kind = kind /\ t.items = items /\ t.todo = items /\ t.said = None
        /\ t.at = IF kind = "delete" THEN "read" ELSE "next"
    BY DEF NoTask
  <1>3. task'[c] = t
    BY <1>1 DEF Update, CIInv, CTypes
  <1> HIDE DEF t
  <1>4. /\ \A i \in items : Fits(kind, i) /\ (kind = "decommission" => i.label = None)
        /\ \A i, j \in items : Id(i) = Id(j) \/ kind = "replace" => i = j
        /\ kind = "delete" => items = {}
    BY SelectionsFit, SelectionsDiffer
  <1>5. Orderly(task'[c])
    BY <1>2, <1>3, <1>4 DEF Orderly, InWork, Working
  <1>6. Worked(task[c])'
    BY <1>2, <1>3 DEF Worked
  <1> QED
    BY <1>2, <1>3, <1>4, <1>5, <1>6, NotInSaga DEF Told, Found, At, Kind

\* The console's saga, where its handler calls one.
LEMMA InvokedSlot ==
  ASSUME IInv, NEW c \in Consoles, NEW o, NEW q, NEW d, NEW v, Invoke(c, o, q, d, v)
  PROVE  Op(c)' = o /\ Label(c)' = q /\ New(c)' = d /\ pc'[c] # "done"
  BY ConsolesAre DEF Invoke, Goto, Op, Label, New, IInv, TypeOK

LEMMA TakeTold ==
  ASSUME CIInv, NEW c \in Consoles, Told(c), Take(c)
  PROVE  Told(c)'
  <1>1. /\ At(c, "next") /\ UNCHANGED <<registry, decommissioned>>
        /\ Orderly(task[c]) /\ Worked(task[c]) /\ Kind(c) \in Kinds
        /\ Found(c) /\ ~InWork(task[c])
    BY TaskFields DEF Take, stores, Told, Running, At, CIInv, TaskOK, InWork, Working, Kind
  <1> DEFINE T(i, step) == [task[c] EXCEPT !.item = i, !.todo = @ \ {i}, !.found = None,
                                           !.at = step]
  <1>2. ASSUME NEW i \in task[c].todo, NEW step
        PROVE  /\ T(i, step).at = step /\ T(i, step).item = i
               /\ T(i, step).todo = task[c].todo \ {i} /\ T(i, step).kind = Kind(c)
               /\ T(i, step).items = task[c].items /\ T(i, step).failed = task[c].failed
               /\ T(i, step).said = task[c].said
    BY TaskFields DEF TaskType, CIInv, Kind
  <1> HIDE DEF T
  <1>3. ASSUME NEW i \in task[c].todo, NEW step \in {"saga", "read", "get"},
               step = "read" => Kind(c) # "delete",
               step = "saga" => Kind(c) # "decommission",
               NEW t, t = T(i, step), task'[c] = t, Linked(c)', Outcome(c)'
        PROVE  Told(c)'
    <2>0. /\ t.at = step /\ t.item = i /\ t.todo = task[c].todo \ {i} /\ t.kind = Kind(c)
          /\ t.items = task[c].items /\ t.failed = task[c].failed /\ t.said = task[c].said
      BY <1>2, <1>3
    <2>1. /\ i \in task[c].items /\ InWork(t)
          /\ t.at \notin {"status_get", "status_patch"}
      BY <1>1, <1>3, <2>0 DEF Orderly, InWork, Working
    <2>2. Orderly(task'[c])
      BY <1>1, <1>3, <2>0, <2>1 DEF Orderly, Kind
    <2>3. ASSUME NEW j \in t.items \ t.todo
          PROVE  \/ Id(j) \in t.failed \/ Deed(t.kind, j)'
                 \/ (InWork(t) /\ Id(j) = Id(t.item))
      <3>1. CASE j = i
        BY <2>0, <2>1, <3>1
      <3>2. CASE j # i
        <4>1. Id(j) \in t.failed \/ Deed(t.kind, j)
          BY <1>1, <2>0, <2>3, <3>2 DEF Worked, Kind
        <4> QED
          BY <1>1, <4>1, DeedStays
      <3> QED
        BY <3>1, <3>2
    <2>5. Worked(task[c])'
      BY <1>3, <2>3 DEF Worked
    <2>6. Found(c)'
      BY <1>1, <1>3, <2>0, <2>1 DEF Found, At, Kind
    <2> QED
      BY <1>3, <2>2, <2>5, <2>6 DEF Told
  <1>4. PICK i \in task[c].todo :
          IF Kind(c) \in {"retire", "restore"}
          THEN Invoke(c, Kind(c), i.label, None, None) /\ Update(c, T(i, "saga"))
          ELSE Update(c, T(i, IF Kind(c) \in {"unbind", "replace"} THEN "read" ELSE "get"))
    BY DEF Take, T
  <1>5. CASE Kind(c) \in {"retire", "restore"}
    <2>1. task'[c] = T(i, "saga")
      BY <1>4, <1>5 DEF Update, CIInv, CTypes
    <2>2. Op(c)' = Kind(c) /\ Label(c)' = i.label /\ pc'[c] # "done"
      BY <1>4, <1>5, InvokedSlot DEF CIInv
    <2>3. Linked(c)' /\ Outcome(c)'
      BY <1>2, <1>5, <2>1, <2>2 DEF Linked, Outcome, At, Kind, TheLabel
    <2> QED
      BY <1>3, <1>5, <2>1, <2>3
  <1>6. CASE Kind(c) \notin {"retire", "restore"}
    <2>1. PICK step \in {"read", "get"} :
            step = IF Kind(c) \in {"unbind", "replace"} THEN "read" ELSE "get"
      OBVIOUS
    <2>2. task'[c] = T(i, step)
      BY <1>4, <1>6, <2>1 DEF Update, CIInv, CTypes
    <2>3. Linked(c)' /\ Outcome(c)'
      BY <1>2, <2>2, NotInSaga
    <2> QED
      BY <1>3, <2>1, <2>2, <2>3
  <1> QED
    BY <1>5, <1>6

LEMMA FinishTold ==
  ASSUME CIInv, NEW c \in Consoles, Told(c), Finish(c)
  PROVE  Told(c)'
  <1>1. At(c, "next") /\ UNCHANGED <<registry, decommissioned>> /\ Running(c) /\ ~InWork(task[c])
    BY DEF Finish, stores, At, Running, InWork, Working
  <1>2. CASE Move(c, "delete")
    <2> DEFINE t == [task[c] EXCEPT !.at = "delete"]
    <2>1. /\ t.kind = Kind(c) /\ t.items = task[c].items /\ t.at = "delete"
          /\ t.todo = task[c].todo /\ t.said = task[c].said /\ t.failed = task[c].failed
      BY TaskFields DEF CIInv, TaskType, Kind
    <2>2. task'[c] = t
      BY <1>2 DEF Move, Update, CIInv, CTypes
    <2> HIDE DEF t
    <2>3. ~InWork(t)
      BY <2>1 DEF InWork, Working
    <2>4. /\ Orderly(task'[c]) /\ Worked(task[c])'
          /\ t.kind = "delete" => \A i \in t.items : registry'[i.label].status # "absent"
      BY <1>1, <2>1, <2>2, <2>3, GoesOn
    <2> QED
      BY <2>1, <2>2, <2>4, NotInSaga DEF Told, Found, At, Kind
  <1>3. CASE ~Move(c, "delete")
    BY <1>3, SaidTold DEF Finish
  <1> QED
    BY <1>2, <1>3

LEMMA ReadLabelTold ==
  ASSUME CIInv, NEW c \in Consoles, Told(c), ReadLabel(c)
  PROVE  Told(c)'
  <1>1. /\ At(c, "read") /\ Kind(c) = "unbind" /\ UNCHANGED <<registry, decommissioned>>
        /\ Running(c) /\ InWork(task[c])
    BY DEF ReadLabel, Resumes, stores, At, Kind, Running, InWork, Working
  <1>2. CASE registry[TheLabel(c)].status = "bound"
    <2> DEFINE t == [task[c] EXCEPT !.at = "get", !.item.device = registry[TheLabel(c)].device]
    <2>1. /\ t.kind = Kind(c) /\ t.items = task[c].items /\ t.at = "get"
          /\ t.todo = task[c].todo /\ t.said = task[c].said /\ t.failed = task[c].failed
          /\ t.item.label = task[c].item.label
      BY TaskFields DEF CIInv, TaskType, Items, Kind
    <2>2. task'[c] = t
      BY <1>2 DEF ReadLabel, Update, CIInv, CTypes
    <2> HIDE DEF t
    <2>3. TheLabel(c) \in Labels
      BY <1>1, ItemFits DEF CIInv, InWork, Working, At, Kind
    <2>4. Id(t.item) = Id(task[c].item)
      BY <2>1, <2>3, NoneAssumption DEF Id, TheLabel
    <2>5. InWork(t)
      BY <2>1 DEF InWork, Working
    <2>6. Orderly(task'[c]) /\ Worked(task[c])'
      BY <1>1, <2>1, <2>2, <2>4, <2>5, GoesOn
    <2> QED
      BY <1>1, <2>1, <2>2, <2>6, NotInSaga DEF Told, Found, At, Kind
  <1>3. CASE registry[TheLabel(c)].status # "bound"
    BY <1>1, <1>3, MissTold DEF ReadLabel
  <1> QED
    BY <1>2, <1>3

LEMMA ReadBatchTold ==
  ASSUME CIInv, NEW c \in Consoles, Told(c), ReadBatch(c)
  PROVE  Told(c)'
  <1>1. CASE \A q \in Batch : registry[q].status = "absent"
    BY <1>1, SaidTold DEF ReadBatch
  <1>2. CASE ~(\A q \in Batch : registry[q].status = "absent")
    <2> DEFINE items == {Item(q, registry[q].device) :
                           q \in {p \in Batch : registry[p].status = "bound"}}
    <2>1. \A i \in items : /\ i.label \in Batch /\ registry[i.label].status = "bound"
                           /\ i.device = registry[i.label].device
      BY DEF Item
    <2>2. \A i, j \in items : i.label = j.label => i = j
      BY DEF Item
    <2>3. PICK list : list = items
      OBVIOUS
    <2> HIDE DEF items
    <2> DEFINE t == [task[c] EXCEPT !.at = "next", !.items = list, !.todo = list]
    <2>4. task'[c] = t
      BY <1>2, <2>3 DEF ReadBatch, Update, CIInv, CTypes, items
    <2>5. /\ t.kind = Kind(c) /\ t.items = list /\ t.at = "next"
          /\ t.todo = list /\ t.said = task[c].said
      BY TaskFields DEF CIInv, TaskType, Kind
    <2> HIDE DEF t
    <2>6. Kind(c) = "delete" /\ UNCHANGED registry /\ t.said = None
      BY <2>5 DEF ReadBatch, Resumes, Told, Running, Orderly, At, stores
    <2>7. \A i \in list : i.label \in Labels /\ Id(i) = i.label
      BY <2>1, <2>3, ConsoleAssumption, NoneAssumption DEF Id
    <2>8. Orderly(task'[c])
      BY <2>2, <2>3, <2>4, <2>5, <2>6, <2>7 DEF Orderly, InWork, Working, Fits
    <2>9. Worked(task[c])'
      BY <2>4, <2>5 DEF Worked
    <2>10. \A i \in list : registry'[i.label].status # "absent"
      BY <2>1, <2>3, <2>6
    <2> QED
      BY <2>4, <2>5, <2>6, <2>8, <2>9, <2>10, NotInSaga DEF Told, Found, At, Kind
  <1> QED
    BY <1>1, <1>2

\* At most one label is bound to a device.
LEMMA OneHolder ==
  ASSUME registry \in Tables, NEW d \in Devices, NEW p \in Holder(d), NEW q \in Holder(d)
  PROVE  p = q
  BY DEF Tables, OnePerDevice, Holder

LEMMA FindHolderTold ==
  ASSUME CIInv, registry \in Tables, NEW c \in Consoles, Told(c), FindHolder(c)
  PROVE  Told(c)'
  <1>1. /\ At(c, "read") /\ Kind(c) \in {"decommission", "replace"} /\ Running(c)
        /\ UNCHANGED <<registry, decommissioned>> /\ InWork(task[c])
        /\ TheDevice(c) \in Devices /\ (Kind(c) # "decommission" => TheLabel(c) \in Labels)
    <2>1. /\ At(c, "read") /\ Kind(c) \in {"decommission", "replace"}
          /\ UNCHANGED <<registry, decommissioned>>
      BY DEF FindHolder, Resumes, stores
    <2> QED
      BY <2>1, ItemFits DEF Running, InWork, Working, At, Kind, CIInv
  <1> DEFINE T(q, step) == [task[c] EXCEPT !.found = q, !.at = step]
  <1>2. PICK q \in IF Holder(TheDevice(c)) = {} THEN {None} ELSE Holder(TheDevice(c)) :
          \/ /\ Kind(c) = "decommission" /\ q # None
             /\ Invoke(c, "retire", q, None, seen[c]) /\ Update(c, T(q, "saga"))
          \/ Kind(c) = "decommission" /\ q = None /\ Update(c, T(q, "status_get"))
          \/ Kind(c) = "replace" /\ Update(c, T(q, "get"))
          \/ Kind(c) = "replace" /\ q = TheLabel(c) /\ Succeed(c)
    BY <1>1 DEF FindHolder
  <1>3. /\ q # None => q \in Holder(TheDevice(c)) /\ Holder(TheDevice(c)) \subseteq {q}
        /\ q = None => Holder(TheDevice(c)) = {}
    BY <1>1, <1>2, OneHolder, NoneAssumption DEF Holder
  <1>4. ASSUME NEW step
        PROVE  /\ T(q, step).at = step /\ T(q, step).item = task[c].item
               /\ T(q, step).todo = task[c].todo /\ T(q, step).kind = Kind(c)
               /\ T(q, step).items = task[c].items /\ T(q, step).failed = task[c].failed
               /\ T(q, step).said = task[c].said /\ T(q, step).found = q
    BY TaskFields DEF TaskType, CIInv, Kind
  <1> HIDE DEF T
  <1>5. ASSUME NEW step \in {"saga", "status_get", "get"}, Update(c, T(q, step))
        PROVE  /\ task'[c] = T(q, step) /\ Holder(TheDevice(c))' = Holder(TheDevice(c))
               /\ Orderly(task'[c]) /\ Worked(task[c])'
    <2>1. PICK t : t = T(q, step)
      OBVIOUS
    <2>2. task'[c] = t
      BY <1>5, <2>1 DEF Update, CIInv, CTypes
    <2>3. /\ t.at = step /\ t.item = task[c].item /\ t.todo = task[c].todo /\ t.kind = Kind(c)
          /\ t.items = task[c].items /\ t.failed = task[c].failed /\ t.said = task[c].said
      BY <1>4, <2>1
    <2>4. InWork(t)
      BY <2>3 DEF InWork, Working
    <2>5. Orderly(task'[c]) /\ Worked(task[c])'
      BY <1>1, <2>2, <2>3, <2>4, GoesOn
    <2> QED
      BY <1>1, <2>1, <2>2, <2>3, <2>5 DEF Holder, Holds, TheDevice
  <1>6. CASE /\ Kind(c) = "decommission" /\ q # None
             /\ Invoke(c, "retire", q, None, seen[c]) /\ Update(c, T(q, "saga"))
    <2>1. Op(c)' = "retire" /\ Label(c)' = q /\ pc'[c] # "done"
      BY <1>6, InvokedSlot DEF CIInv
    <2>2. Linked(c)' /\ Outcome(c)'
      BY <1>4, <1>5, <1>6, <2>1 DEF Linked, Outcome, At, Kind
    <2>3. Found(c)'
      BY <1>3, <1>4, <1>5, <1>6 DEF Found, At, Kind
    <2> QED
      BY <1>5, <1>6, <2>2, <2>3 DEF Told
  <1>7. CASE Kind(c) = "decommission" /\ q = None /\ Update(c, T(q, "status_get"))
    <2>1. Found(c)'
      BY <1>3, <1>4, <1>5, <1>7 DEF Found, At, Kind
    <2> QED
      BY <1>4, <1>5, <1>7, <2>1, NotInSaga DEF Told
  <1>8. CASE Kind(c) = "replace" /\ Update(c, T(q, "get"))
    <2>1. Found(c)'
      BY <1>4, <1>5, <1>8 DEF Found, At, Kind
    <2> QED
      BY <1>4, <1>5, <1>8, <2>1, NotInSaga DEF Told
  <1>9. CASE Kind(c) = "replace" /\ q = TheLabel(c) /\ Succeed(c)
    <2>1. Holds(registry, TheLabel(c), TheDevice(c))
      BY <1>1, <1>3, <1>9, NoneAssumption DEF Holder
    <2>2. Deed(Kind(c), task[c].item)
      BY <1>9, <2>1 DEF Deed, TheLabel, TheDevice
    <2>3. PICK k, j : k = Kind(c) /\ j = task[c].item
      OBVIOUS
    <2>4. Deed(k, j)'
      BY <1>1, <2>2, <2>3, DeedStays
    <2> QED
      BY <1>1, <1>9, <2>3, <2>4, SucceedTold
  <1> QED
    BY <1>2, <1>6, <1>7, <1>8, <1>9

\* The handler goes on to work on the same item.
LEMMA WorksOn ==
  ASSUME CIInv, NEW c \in Consoles, Told(c), Running(c), UNCHANGED registry,
         decommissioned \subseteq decommissioned', InWork(task[c]),
         NEW t, task'[c] = t, NEW step \in Working, t.at = step, t.kind = Kind(c),
         step = "read" => Kind(c) # "delete",
         t.items = task[c].items, t.todo = task[c].todo, t.said = task[c].said,
         t.failed = task[c].failed, t.item = task[c].item,
         Linked(c)', Outcome(c)',
         Kind(c) = "decommission" /\ step = "saga" => Holder(TheDevice(c)) \subseteq {t.found},
         step \in {"status_get", "status_patch"} => Holder(TheDevice(c)) = {}
  PROVE  Told(c)'
  <1>1. InWork(t)
    BY DEF InWork
  <1>2. /\ Orderly(task'[c]) /\ Worked(task[c])'
        /\ t.kind = "delete" => \A i \in t.items : registry'[i.label].status # "absent"
    BY <1>1, GoesOn
  <1>3. Holder(TheDevice(c))' = Holder(TheDevice(c))
    BY DEF Holder, Holds, TheDevice
  <1> QED
    BY <1>2, <1>3 DEF Told, Found, At, Kind

\* The same, with no other change of its locals.
LEMMA MovedTold ==
  ASSUME CIInv, NEW c \in Consoles, Told(c), Running(c), UNCHANGED registry,
         decommissioned \subseteq decommissioned', InWork(task[c]),
         NEW step \in Working, Move(c, step), step = "read" => Kind(c) # "delete",
         Linked(c)', Outcome(c)',
         Kind(c) = "decommission" /\ step = "saga" =>
           Holder(TheDevice(c)) \subseteq {task[c].found},
         step \in {"status_get", "status_patch"} => Holder(TheDevice(c)) = {}
  PROVE  Told(c)'
  <1> DEFINE t == [task[c] EXCEPT !.at = step]
  <1>1. /\ t.at = step /\ t.kind = Kind(c) /\ t.items = task[c].items /\ t.todo = task[c].todo
        /\ t.said = task[c].said /\ t.failed = task[c].failed /\ t.item = task[c].item
        /\ t.found = task[c].found
    BY TaskFields DEF CIInv, TaskType, Kind
  <1>2. task'[c] = t
    BY DEF Move, Update, CIInv, CTypes
  <1> HIDE DEF t
  <1> QED
    BY <1>1, <1>2, WorksOn

\* What a move leaves of a task.
LEMMA MovedFields ==
  ASSUME CIInv, NEW c \in Consoles, NEW step, Move(c, step)
  PROVE  /\ At(c, step)' /\ Kind(c)' = Kind(c) /\ TheLabel(c)' = TheLabel(c)
         /\ TheDevice(c)' = TheDevice(c) /\ task'[c].found = task[c].found
  <1> DEFINE t == [task[c] EXCEPT !.at = step]
  <1>1. t.at = step /\ t.kind = Kind(c) /\ t.item = task[c].item /\ t.found = task[c].found
    BY TaskFields DEF CIInv, TaskType, Kind
  <1>2. task'[c] = t
    BY DEF Move, Update, CIInv, CTypes
  <1> HIDE DEF t
  <1> QED
    BY <1>1, <1>2 DEF At, Kind, TheLabel, TheDevice

LEMMA GetDeviceTold ==
  ASSUME CIInv, NEW c \in Consoles, Told(c), GetDevice(c)
  PROVE  Told(c)'
  <1>1. /\ At(c, "get") /\ UNCHANGED <<registry, decommissioned>> /\ Running(c) /\ InWork(task[c])
        /\ Kind(c) \in Kinds \ {"retire", "restore"}
    <2>1. At(c, "get") /\ UNCHANGED <<registry, decommissioned>>
      BY DEF GetDevice, Resumes, stores
    <2> QED
      BY <2>1, ItemFits, TaskFields DEF Running, InWork, Working, At, Kind, CIInv, TaskOK
  <1>2. CASE Kind(c) = "decommission"
    <2>1. Move(c, "read")
      BY <1>2 DEF GetDevice
    <2>2. At(c, "read")'
      BY <2>1, MovedFields
    <2>3. Linked(c)' /\ Outcome(c)'
      BY <2>2, NotInSaga DEF At
    <2> QED
      BY <1>1, <1>2, <2>1, <2>3, MovedTold DEF Working
  <1>3. ASSUME Kind(c) # "decommission",
               NEW o, NEW q, NEW d, Invoke(c, o, q, d, TheDevice(c)), Move(c, "saga"),
               \/ Kind(c) \in {"unbind", "delete"} /\ o = "unbind" /\ q = TheLabel(c)
               \/ Kind(c) = "rebind" /\ o = "rebind" /\ q = TheLabel(c) /\ d = TheDevice(c)
               \/ Kind(c) = "replace" /\ o = "unbind" /\ q = task[c].found
               \/ Kind(c) = "replace" /\ o = "bind" /\ q = TheLabel(c) /\ d = TheDevice(c)
        PROVE  Told(c)'
    <2>1. Op(c)' = o /\ Label(c)' = q /\ New(c)' = d /\ pc'[c] # "done"
      BY <1>3, InvokedSlot DEF CIInv
    <2>2. /\ At(c, "saga")' /\ Kind(c)' = Kind(c) /\ TheLabel(c)' = TheLabel(c)
          /\ TheDevice(c)' = TheDevice(c) /\ task'[c].found = task[c].found
      BY <1>3, MovedFields
    <2>3. Linked(c)' /\ Outcome(c)'
      BY <1>3, <2>1, <2>2 DEF Linked, Outcome, At
    <2> QED
      BY <1>1, <1>3, <2>3, MovedTold DEF Working
  <1>4. CASE Kind(c) \in {"unbind", "delete"}
    <2>1. Invoke(c, "unbind", TheLabel(c), None, TheDevice(c)) /\ Move(c, "saga")
      BY <1>4 DEF GetDevice
    <2> QED
      BY <1>3, <1>4, <2>1
  <1>5. CASE Kind(c) = "rebind"
    <2>1. Invoke(c, "rebind", TheLabel(c), TheDevice(c), TheDevice(c)) /\ Move(c, "saga")
      BY <1>5 DEF GetDevice
    <2> QED
      BY <1>3, <1>5, <2>1
  <1>6. CASE Kind(c) = "replace" /\ task[c].found # None
    <2>1. Invoke(c, "unbind", task[c].found, None, TheDevice(c)) /\ Move(c, "saga")
      BY <1>6 DEF GetDevice
    <2> QED
      BY <1>3, <1>6, <2>1
  <1>7. CASE Kind(c) = "replace" /\ task[c].found = None
    <2>1. Invoke(c, "bind", TheLabel(c), TheDevice(c), TheDevice(c)) /\ Move(c, "saga")
      BY <1>7 DEF GetDevice
    <2> QED
      BY <1>3, <1>7, <2>1
  <1> QED
    BY <1>1, <1>2, <1>4, <1>5, <1>6, <1>7 DEF Kinds

LEMMA SagaReturnsTold ==
  ASSUME CIInv, NEW c \in Consoles, Told(c), SagaReturns(c)
  PROVE  Told(c)'
  <1>1. /\ At(c, "saga") /\ pc[c] = "done" /\ UNCHANGED <<registry, decommissioned>>
        /\ Running(c) /\ InWork(task[c]) /\ Kind(c) \in Kinds
        /\ Linked(c) /\ Outcome(c) /\ Found(c)
    <2>1. At(c, "saga") /\ pc[c] = "done" /\ UNCHANGED <<registry, decommissioned>>
      BY DEF SagaReturns, stores
    <2> QED
      BY <2>1, ItemFits DEF Running, InWork, Working, At, Kind, CIInv, Told
  <1>2. CASE Say(c, "raised")
    BY <1>2, SaidTold
  <1>3. CASE Miss(c)
    BY <1>1, <1>3, MissTold
  <1>4. ASSUME Succeed(c), Deed(Kind(c), task[c].item) PROVE Told(c)'
    <2>1. PICK k, j : k = Kind(c) /\ j = task[c].item
      OBVIOUS
    <2>2. Deed(k, j)'
      BY <1>1, <1>4, <2>1, DeedStays
    <2> QED
      BY <1>1, <1>4, <2>1, <2>2, SucceedTold
  <1>5. CASE result[c] = "ok"
    <2>1. GoOn(c)
      BY <1>5 DEF SagaReturns, Judge, Caught, Lenient, Refusals, RolledBack
    <2>2. CASE Kind(c) = "decommission" /\ ~Say(c, "raised")
      <3>1. Move(c, "status_get")
        BY <2>1, <2>2 DEF GoOn
      <3>2. Op(c) = "retire" /\ Label(c) = task[c].found
        BY <1>1, <2>2 DEF Linked, At
      <3>3. registry[task[c].found].status = "retired"
        BY <1>1, <1>5, <3>2 DEF Outcome
      <3>4. Holder(TheDevice(c)) = {}
        BY <1>1, <2>2, <3>3 DEF Found, Holder, Holds
      <3>5. Linked(c)' /\ Outcome(c)'
        BY <3>1, MovedFields, NotInSaga DEF At
      <3> QED
        BY <1>1, <3>1, <3>4, <3>5, MovedTold DEF Working
    <2>3. CASE Kind(c) = "replace" /\ Op(c) = "unbind"
      <3> DEFINE t == [task[c] EXCEPT !.at = "get", !.found = None]
      <3>1. /\ t.at = "get" /\ t.kind = Kind(c) /\ t.items = task[c].items
            /\ t.todo = task[c].todo /\ t.said = task[c].said /\ t.failed = task[c].failed
            /\ t.item = task[c].item
        BY TaskFields DEF CIInv, TaskType, Kind
      <3>2. task'[c] = t
        BY <2>1, <2>3 DEF GoOn, Update, CIInv, CTypes
      <3> HIDE DEF t
      <3>3. Linked(c)' /\ Outcome(c)'
        BY <3>1, <3>2, NotInSaga
      <3> QED
        BY <1>1, <2>3, <3>1, <3>2, <3>3, WorksOn DEF Working
    <2>4. CASE Kind(c) # "decommission" /\ ~(Kind(c) = "replace" /\ Op(c) = "unbind")
      <3>1. Succeed(c)
        BY <2>1, <2>4 DEF GoOn
      <3>2. Deed(Kind(c), task[c].item)
        BY <1>1, <1>5, <2>4 DEF Deed, Linked, Outcome, At, TheLabel, TheDevice
      <3> QED
        BY <1>4, <3>1, <3>2
    <2> QED
      BY <1>2, <2>2, <2>3, <2>4
  <1>6. CASE result[c] # "ok" /\ Lenient(c)
    <2>1. Succeed(c)
      BY <1>6 DEF SagaReturns, Judge
    <2>2. Deed(Kind(c), task[c].item)
      BY <1>1, <1>6 DEF Lenient, Deed, Linked, Outcome, At, TheLabel, TheDevice
    <2> QED
      BY <1>4, <2>1, <2>2
  <1>7. CASE result[c] # "ok" /\ ~Lenient(c)
    <2>1. Miss(c) \/ Say(c, "raised")
      BY <1>7 DEF SagaReturns, Judge
    <2> QED
      BY <1>2, <1>3, <2>1
  <1> QED
    BY <1>5, <1>6, <1>7

LEMMA UndoReturnsTold ==
  ASSUME CIInv, NEW c \in Consoles, Told(c), UndoReturns(c)
  PROVE  Told(c)'
  <1>1. PICK n : Update(c, [task[c] EXCEPT !.at = "next",
                              !.failed = @ \cup {Id(task[c].item)}, !.undo = n])
    BY DEF UndoReturns
  <1>2. UNCHANGED <<registry, decommissioned>> /\ Running(c)
    BY DEF UndoReturns, stores, Running, At
  <1> QED
    BY <1>1, <1>2, MissTold

LEMMA StatusFailsTold ==
  ASSUME CIInv, NEW c \in Consoles, Told(c), task[c].at \in {"status_get", "status_patch"},
         UNCHANGED <<registry, decommissioned>>, NEW caught, StatusFails(c, caught)
  PROVE  Told(c)'
  <1>1. Running(c) /\ InWork(task[c]) /\ Kind(c) = "decommission"
    BY StatusTask DEF Running, InWork, Working
  <1>2. CASE task[c].found = None
    BY <1>1, <1>2, MissTold, SaidTold DEF StatusFails
  <1>3. CASE task[c].found # None
    <2>1. Invoke(c, "bind", task[c].found, TheDevice(c), seen[c]) /\ Move(c, "undo")
      BY <1>3 DEF StatusFails
    <2>2. Op(c)' = "bind" /\ Label(c)' = task[c].found /\ New(c)' = TheDevice(c)
      BY <2>1, InvokedSlot DEF CIInv
    <2>3. /\ At(c, "undo")' /\ Kind(c)' = Kind(c) /\ TheDevice(c)' = TheDevice(c)
          /\ task'[c].found = task[c].found
      BY <2>1, MovedFields
    <2>4. Linked(c)' /\ Outcome(c)'
      BY <1>1, <2>2, <2>3 DEF Linked, Outcome, At
    <2> QED
      BY <1>1, <2>1, <2>4, MovedTold DEF Working
  <1> QED
    BY <1>2, <1>3

LEMMA StatusTold ==
  ASSUME CIInv, NEW c \in Consoles, Told(c),
         \/ StatusCompare(c) \/ StatusPatch(c) \/ StatusLandsUnanswered(c)
         \/ StatusRaises(c)
  PROVE  Told(c)'
  <1>1. /\ task[c].at \in {"status_get", "status_patch"} /\ UNCHANGED registry
        /\ decommissioned \subseteq decommissioned'
    BY DEF StatusCompare, StatusPatch, StatusLandsUnanswered, StatusRaises, SetStatus,
           Resumes, At, stores
  <1>2. /\ Running(c) /\ InWork(task[c]) /\ Kind(c) = "decommission"
        /\ Holder(TheDevice(c)) = {}
    BY <1>1, StatusTask DEF Told, Found, Running, InWork, Working
  <1>3. CASE StatusCompare(c)
    <2>1. CASE Move(c, "status_patch")
      <3>1. Linked(c)' /\ Outcome(c)'
        BY <2>1, MovedFields, NotInSaga DEF At
      <3> QED
        BY <1>1, <1>2, <2>1, <3>1, MovedTold DEF Working
    <2>2. CASE StatusFails(c, TRUE)
      BY <1>1, <1>3, <2>2, StatusFailsTold DEF StatusCompare
    <2> QED
      BY <1>3, <2>1, <2>2 DEF StatusCompare
  <1>4. CASE StatusPatch(c)
    <2>1. PICK k, j : k = Kind(c) /\ j = task[c].item
      OBVIOUS
    <2>2. j.device \in decommissioned' /\ Holder(j.device) = {}
      BY <1>2, <1>4, <2>1 DEF StatusPatch, SetStatus, TheDevice
    <2>3. Deed(k, j)'
      BY <1>1, <1>2, <2>1, <2>2 DEF Deed, Holder, Holds
    <2> QED
      BY <1>1, <1>2, <1>4, <2>1, <2>3, SucceedTold DEF StatusPatch
  <1>5. CASE StatusLandsUnanswered(c)
    <2>1. /\ pc'[c] = pc[c] /\ call'[c] = call[c] /\ result'[c] = result[c]
          /\ task'[c] = task[c]
      BY <1>5 DEF StatusLandsUnanswered, SetStatus
    <2>2. \A d : Holder(d)' = Holder(d)
      BY <1>1 DEF Holder, Holds
    <2> QED
      BY <1>1, <2>1, <2>2, ToldStays
  <1>6. CASE StatusRaises(c)
    BY <1>1, <1>6, StatusFailsTold DEF StatusRaises
  <1> QED
    BY <1>3, <1>4, <1>5, <1>6

-----------------------------------------------------------------------------
LEMMA OwnTold ==
  ASSUME CBase, NEW c \in Consoles, Told(c), Handles(c)
  PROVE  Told(c)'
  <1>1. CIInv /\ registry \in Tables
    BY DEF CBase
  <1>2. \/ ReadRegistryFails(c) \/ GetDeviceFails(c) \/ DeleteBatch(c) \/ DeleteBatchFails(c)
        \/ ConsoleCrash(c)
        => Told(c)'
    BY <1>1, SaidTold DEF ReadRegistryFails, GetDeviceFails, DeleteBatch, DeleteBatchFails,
                          ConsoleCrash
  <1>3. \/ Submit(c) \/ Take(c) \/ Finish(c) \/ ReadLabel(c) \/ ReadBatch(c) \/ FindHolder(c)
        => Told(c)'
    BY <1>1, SubmitTold, TakeTold, FinishTold, ReadLabelTold, ReadBatchTold, FindHolderTold
  <1>4. GetDevice(c) \/ SagaReturns(c) \/ UndoReturns(c) => Told(c)'
    BY <1>1, GetDeviceTold, SagaReturnsTold, UndoReturnsTold
  <1>5. \/ StatusCompare(c) \/ StatusPatch(c) \/ StatusLandsUnanswered(c) \/ StatusRaises(c)
        => Told(c)'
    BY <1>1, StatusTold
  <1> QED
    BY <1>2, <1>3, <1>4, <1>5 DEF Handles, Await

LEMMA OthersTold ==
  ASSUME CBase, [CNext]_cvars, NEW c \in Consoles, Alone(c), Told(c), ~Handles(c),
         decommissioned \subseteq decommissioned'
  PROVE  Told(c)' /\ task'[c] = task[c]
  <1>1. CIInv
    BY DEF CBase
  <1>2. ASSUME NEW s \in Consoles, Handles(s)
        PROVE  Told(c)' /\ task'[c] = task[c]
    <2>1. s # c /\ s \in Requests \ {c}
      BY <1>2, ConsolesAre
    <2>2. /\ Typed(s)
          /\ \/ Waits \/ Works(s) \/ \E k \in Calls : Starts(s, k)
             \/ Deletes /\ At(s, "delete") /\ Kind(s) = "delete"
      BY <1>1, <1>2, HandlerKinds DEF Turn, Ends
    <2>3. task'[c] = task[c]
      BY <2>1, <2>2 DEF Typed
    <2> QED
      BY <2>1, <2>2, <2>3, OthersWork, OthersTurn
  <1>3. CASE \A s \in Consoles : ~Handles(s)
    <2>1. task' = task /\ (Waits \/ \E r \in Requests : Works(r))
      BY <1>1, <1>3, OtherKinds
    <2> QED
      BY <2>1, OthersWork, OwnWork, OthersTurn
  <1> QED
    BY <1>2, <1>3

LEMMA NoneRecommissioned ==
  ASSUME [CNext]_cvars
  PROVE  decommissioned \subseteq decommissioned'
  BY DEF CNext, Await, Submit, Take, Finish, SagaReturns, UndoReturns, ReadLabel, ReadBatch,
         FindHolder, ReadRegistryFails, GetDevice, GetDeviceFails, StatusCompare,
         StatusPatch, StatusRaises, StatusLandsUnanswered, SetStatus, DeleteBatch,
         DeleteBatchFails, ConsoleCrash, SagaStep, ClientStep, Edit, cvars, consoleVars

LEMMA ReliableKept ==
  ASSUME CBase, Reliable, [CNext]_cvars
  PROVE  Reliable'
  <1> SUFFICES ASSUME NEW c \in Consoles, c \notin crossed'
               PROVE  Alone(c)' /\ Told(c)'
    BY DEF Reliable
  <1>1. decommissioned \subseteq decommissioned'
    BY NoneRecommissioned
  <1>2. CASE Track
    <2>1. c \notin crossed /\ Alone(c)'
      BY <1>2, AloneKept
    <2> QED
      BY <1>1, <2>1, OwnTold, OthersTold DEF Reliable
  <1>3. CASE UNCHANGED cvars
    <2>1. Alone(c) /\ Told(c)
      BY <1>3 DEF Reliable, cvars, consoleVars
    <2>2. Alone(c)'
      BY <1>3, <2>1 DEF Alone, Scope, Extent, Footprint, Touches, Active, Running, Kind,
                        Label, New, cvars, hvars, vars, consoleVars
    <2>3. Told(c)'
      BY <1>1, <2>1, OwnTold, OthersTold
    <2> QED
      BY <2>2, <2>3
  <1> QED
    BY <1>2, <1>3, CNextTracks

LEMMA InitReliable ==
  ASSUME CInit
  PROVE  Reliable
  <1>1. \A c \in Consoles : ~Running(c)
    BY DEF CInit, NoTask, Running
  <1> QED
    BY <1>1 DEF Reliable, Alone, Told, Scope

LEMMA ReliableInvariant == CSpec => []Reliable
  BY InitReliable, ReliableKept, BaseInvariant, PTL DEF CSpec

-----------------------------------------------------------------------------
(***************************************************************************)
(* What the invariants say when an answer is given.                        *)
(***************************************************************************)
\* No other request is on a label or a device of an operation nobody crosses.
LEMMA ShownAt ==
  ASSUME Shown', NEW c \in Consoles, Alone(c), Running(c), ~Active(c),
         UNCHANGED <<pc, call, old>>
  PROVE  /\ \A q \in Labels \cap Scope(c) : registry'[q].status # "bound" => ShowsNone(q)'
         /\ \A d \in Devices \cap Scope(c) : d \notin Excused' => Agree(d)'
  <1>1. ASSUME NEW r \in Requests, Active(r)'
        PROVE  Label(r)' = Label(r) /\ Touches(r)' = Touches(r)
               /\ Touches(r) \cap Scope(c) \subseteq {None}
    <2>1. Active(r) /\ r # c
      BY <1>1 DEF Active
    <2>2. Footprint(r) = Touches(r)
      BY <2>1 DEF Footprint
    <2> QED
      BY <2>1, <2>2 DEF Alone, Touches, Label, New
  <1>2. ASSUME NEW q \in Labels \cap Scope(c), NEW r \in Requests, Active(r)'
        PROVE  Label(r)' # q
    BY <1>1, <1>2, NoneAssumption DEF Touches
  <1>3. ASSUME NEW d \in Devices \cap Scope(c), NEW r \in Requests, Active(r)'
        PROVE  d \notin Touches(r)'
    BY <1>1, <1>3, NoneAssumption
  <1> QED
    BY <1>2, <1>3 DEF Shown

\* What the answer leaves of the task.
LEMMA SaidFields ==
  ASSUME CIInv, NEW c \in Consoles, NEW a, Say(c, a)
  PROVE  /\ task'[c].said = a /\ task'[c].kind = Kind(c)
         /\ task'[c].items = task[c].items /\ task'[c].failed = task[c].failed
  <1> DEFINE t == [task[c] EXCEPT !.at = "done", !.said = a, !.todo = {},
                                  !.item = Item(None, None), !.found = None]
  <1>1. /\ t.said = a /\ t.kind = Kind(c) /\ t.items = task[c].items
        /\ t.failed = task[c].failed
    BY TaskFields DEF CIInv, TaskType, Kind
  <1>2. task'[c] = t
    BY DEF Say, Update, CIInv, CTypes
  <1> HIDE DEF t
  <1> QED
    BY <1>1, <1>2

\* A deed is an achievement, seen from the registry.
LEMMA DeedAchieved ==
  ASSUME Shown', shows' \in [Devices -> Labels \cup {None}],
         NEW c \in Consoles, Alone(c), Running(c), ~Active(c),
         UNCHANGED <<registry, decommissioned, pc, call, old>>,
         NEW i \in task[c].items, NEW k \in Kinds, k # "delete", Fits(k, i), Deed(k, i)
  PROVE  Achieved(k, i)'
  <1>1. {i.label, i.device} \subseteq Scope(c)
    BY DEF Scope
  <1>2. Deed(k, i)'
    BY DeedStays
  <1>3. i.label \in Labels /\ registry'[i.label].status # "bound" => ShowsNone(i.label)'
    BY <1>1, ShownAt
  <1>4. i.device \in Devices /\ i.device \notin Excused' => Agree(i.device)'
    BY <1>1, ShownAt
  <1>5. CASE k \in {"retire", "restore", "unbind"}
    BY <1>2, <1>3, <1>5 DEF Deed, Achieved, Fits
  <1>6. CASE k = "decommission"
    <2>1. i.device \in Devices /\ i.device \in decommissioned' /\ Holder(i.device)' = {}
      BY <1>2, <1>6 DEF Deed, Fits
    <2>2. i.device \notin Excused' => shows'[i.device] = None
      BY <1>4, <2>1 DEF Agree, Holder
    <2> QED
      BY <1>6, <2>1, <2>2 DEF Achieved
  <1>7. CASE k \in {"rebind", "replace"}
    <2>1. i.device \in Devices /\ i.label \in Labels /\ Holds(registry', i.label, i.device)
      BY <1>2, <1>7 DEF Deed, Fits
    <2>2. i.device \notin Excused' => shows'[i.device] = i.label
      BY <1>4, <2>1 DEF Agree
    <2> QED
      BY <1>7, <2>1, <2>2 DEF Achieved
  <1> QED
    BY <1>5, <1>6, <1>7 DEF Kinds

\* The three places where an operation answers by itself.
LEMMA FinishTrue ==
  ASSUME CBase, CIInv', Shown', NEW c \in Consoles, Alone(c), Told(c), Finish(c), ~Running(c)'
  PROVE  Truthful(c)'
  <1>1. /\ CIInv /\ At(c, "next") /\ Running(c) /\ ~Active(c) /\ task[c].todo = {}
        /\ UNCHANGED <<registry, decommissioned, pc, call, old>> /\ Kind(c) \in Kinds
    BY Free, TaskFields
       DEF Finish, stores, Slot, At, Running, CBase, CIInv, TaskOK, Kind
  <1>2. ~Move(c, "delete")
    BY <1>1, MovedFields DEF Running, At
  <1>3. PICK a \in {"ok", "failed"} :
          Say(c, a) /\ (Kind(c) = "delete" => a = "failed")
    BY <1>2 DEF Finish
  <1>4. /\ task'[c].said = a /\ task'[c].kind = Kind(c)
        /\ task'[c].items = task[c].items /\ task'[c].failed = task[c].failed
    BY <1>1, <1>3, SaidFields
  <1>5. CASE Kind(c) = "delete"
    <2>1. \A i \in task[c].items : registry[i.label].status # "absent"
      BY <1>1, <1>5 DEF Told, Found
    <2> QED
      BY <1>1, <1>3, <1>4, <1>5, <2>1 DEF Truthful, Kind
  <1>6. CASE Kind(c) # "delete"
    <2>1. PICK k : k = Kind(c)
      OBVIOUS
    <2>2. ASSUME NEW i \in task[c].items, Id(i) \notin task[c].failed
          PROVE  Achieved(k, i)'
      <3>1. Fits(k, i) /\ Deed(k, i)
        BY <1>1, <2>1, <2>2 DEF Told, Orderly, Worked, InWork, Working, At, Kind
      <3>2. shows' \in [Devices -> Labels \cup {None}]
        BY DEF CIInv, IInv, TypeOK
      <3> QED
        BY <1>1, <1>6, <2>1, <3>1, <3>2, DeedAchieved
    <2>3. \A i \in task'[c].items : Id(i) \notin task'[c].failed => Achieved(k, i)'
      BY <1>4, <2>2
    <2> QED
      BY <1>3, <1>4, <1>6, <2>1, <2>3 DEF Truthful, Kind
  <1> QED
    BY <1>5, <1>6

LEMMA ReadBatchTrue ==
  ASSUME CBase, NEW c \in Consoles, Told(c), ReadBatch(c), ~Running(c)'
  PROVE  Truthful(c)'
  <1>1. CIInv /\ Running(c) /\ Kind(c) = "delete" /\ At(c, "read")
    BY DEF ReadBatch, Resumes, Running, At, CBase
  <1>2. Say(c, "failed")
    <2>1. CASE \A q \in Batch : registry[q].status = "absent"
      BY <2>1 DEF ReadBatch
    <2>2. CASE ~(\A q \in Batch : registry[q].status = "absent")
      <3>1. PICK items : Update(c, [task[c] EXCEPT !.at = "next", !.items = items,
                                                   !.todo = items])
        BY <2>2 DEF ReadBatch
      <3>2. task'[c].at = "next"
        BY <1>1, <3>1, TaskFields DEF Update, CIInv, CTypes, TaskType
      <3> QED
        BY <3>2 DEF Running
    <2> QED
      BY <2>1, <2>2
  <1>3. task'[c].said = "failed" /\ task'[c].kind = "delete" /\ task'[c].items = {}
    BY <1>1, <1>2, SaidFields DEF Told, Orderly, At, Kind
  <1> QED
    BY <1>3 DEF Truthful, Kind

LEMMA DeleteBatchTrue ==
  ASSUME CBase, Shown', NEW c \in Consoles, Alone(c), DeleteBatch(c)
  PROVE  Truthful(c)'
  <1>1. /\ CIInv /\ Running(c) /\ ~Active(c) /\ Kind(c) = "delete"
        /\ UNCHANGED <<pc, call, old>>
        /\ registry' = [q \in Labels |-> IF q \in Batch THEN Absent ELSE registry[q]]
    BY DeleteEnds DEF CBase, Deletes, Slot, Running, At
  <1>2. PICK a \in {"ok", "raised"} : Say(c, a)
    BY DEF DeleteBatch
  <1>3. task'[c].said = a /\ task'[c].kind = "delete"
    BY <1>1, <1>2, SaidFields
  <1>4. ASSUME NEW q \in Batch
        PROVE  registry'[q].status = "absent" /\ ShowsNone(q)'
    <2>1. q \in Labels \cap Scope(c)
      BY <1>1, ConsoleAssumption, ConsolesAre DEF Scope, Extent
    <2>2. registry'[q].status = "absent"
      BY <1>1, <2>1 DEF Absent
    <2> QED
      BY <1>1, <2>1, <2>2, ShownAt
  <1>5. \A q \in Batch : Achieved("delete", Item(q, None))'
    BY <1>4 DEF Achieved, Item
  <1> QED
    BY <1>3, <1>5 DEF Truthful, Kind

\* Every other end is an exception, or a crash.
LEMMA RaisedTrue ==
  ASSUME CBase, NEW c \in Consoles, Say(c, "raised") \/ Say(c, "crashed")
  PROVE  Truthful(c)'
  <1>1. task'[c].said \in {"raised", "crashed"}
    BY SaidFields DEF CBase
  <1> QED
    BY <1>1 DEF Truthful

LEMMA StatusEnds ==
  ASSUME CIInv, NEW c \in Consoles, ~Running(c)',
         \/ StatusCompare(c) \/ StatusPatch(c) \/ StatusLandsUnanswered(c)
         \/ StatusRaises(c)
  PROVE  Say(c, "raised")
  <1>1. task[c].at \in {"status_get", "status_patch"}
    BY DEF StatusCompare, StatusPatch, StatusLandsUnanswered, StatusRaises, Resumes, At
  <1>2. ~Miss(c) /\ \A step \in {"next", "undo", "status_patch"} : ~Move(c, step)
    <2>1. ~Miss(c)
      BY TaskFields DEF Miss, Update, Running, CIInv, CTypes, TaskType
    <2> QED
      BY <2>1, MovedFields DEF Running, At
  <1>3. task' # task
    BY <1>1 DEF Running
  <1> QED
    BY <1>2, <1>3 DEF StatusCompare, StatusPatch, StatusLandsUnanswered, StatusRaises,
                      StatusFails, Succeed

LEMMA JudgedEnds ==
  ASSUME CIInv, NEW c \in Consoles, ~Running(c)', SagaReturns(c)
  PROVE  Say(c, "raised")
  <1>1. ~Miss(c) /\ \A step \in {"next", "status_get"} : ~Move(c, step)
    <2>1. ~Miss(c)
      BY TaskFields DEF Miss, Update, Running, CIInv, CTypes, TaskType
    <2> QED
      BY <2>1, MovedFields DEF Running, At
  <1>2. ~Update(c, [task[c] EXCEPT !.at = "get", !.found = None])
    BY TaskFields DEF Update, Running, CIInv, CTypes, TaskType
  <1>3. GoOn(c) => Say(c, "raised")
    BY <1>1, <1>2 DEF GoOn, Succeed
  <1> QED
    BY <1>1, <1>3 DEF SagaReturns, Judge, Succeed, Caught, Lenient, Refusals, RolledBack

\* The steps that end no operation.
LEMMA GoOnRunning ==
  ASSUME CIInv, NEW c \in Consoles,
         \/ Submit(c) \/ Take(c) \/ ReadLabel(c) \/ FindHolder(c) \/ GetDevice(c)
         \/ UndoReturns(c)
  PROVE  Running(c)'
  <1>1. ASSUME NEW t, t.at \notin {"idle", "done"}, Update(c, t) PROVE Running(c)'
    BY <1>1 DEF Update, Running, CIInv, CTypes
  <1>2. ASSUME NEW step \in {"next", "read", "saga"}, Move(c, step) PROVE Running(c)'
    BY <1>2, MovedFields DEF Running, At
  <1>3. CASE Submit(c)
    <2>1. PICK kind, items : Update(c, [NoTask EXCEPT !.kind = kind, !.items = items,
            !.todo = items, !.at = IF kind = "delete" THEN "read" ELSE "next"])
      BY <1>3 DEF Submit
    <2>2. [NoTask EXCEPT !.kind = kind, !.items = items, !.todo = items,
             !.at = IF kind = "delete" THEN "read" ELSE "next"].at \in {"read", "next"}
      BY DEF NoTask
    <2> QED
      BY <1>1, <2>1, <2>2
  <1>4. CASE Take(c)
    <2>0. PICK i \in task[c].todo :
            IF Kind(c) \in {"retire", "restore"}
            THEN Update(c, [task[c] EXCEPT !.item = i, !.todo = @ \ {i}, !.found = None,
                                           !.at = "saga"])
            ELSE Update(c, [task[c] EXCEPT !.item = i, !.todo = @ \ {i}, !.found = None,
                              !.at = IF Kind(c) \in {"unbind", "replace"}
                                     THEN "read" ELSE "get"])
      BY <1>4 DEF Take
    <2>1. PICK step \in {"saga", "read", "get"} :
            Update(c, [task[c] EXCEPT !.item = i, !.todo = @ \ {i}, !.found = None,
                                      !.at = step])
      BY <2>0
    <2>2. [task[c] EXCEPT !.item = i, !.todo = @ \ {i}, !.found = None, !.at = step].at = step
      BY TaskFields DEF CIInv, TaskType
    <2> QED
      BY <1>1, <2>1, <2>2
  <1>5. CASE ReadLabel(c)
    <2>1. CASE Miss(c)
      BY <1>1, <2>1, TaskFields DEF Miss, CIInv, TaskType
    <2>2. CASE ~Miss(c)
      <3>1. PICK d : Update(c, [task[c] EXCEPT !.at = "get", !.item.device = d])
        BY <1>5, <2>2 DEF ReadLabel
      <3>2. [task[c] EXCEPT !.at = "get", !.item.device = d].at = "get"
        BY TaskFields DEF CIInv, TaskType
      <3> QED
        BY <1>1, <3>1, <3>2
    <2> QED
      BY <2>1, <2>2
  <1>6. CASE FindHolder(c)
    <2>1. \/ Succeed(c)
          \/ \E q : \E step \in {"saga", "status_get", "get"} :
               Update(c, [task[c] EXCEPT !.found = q, !.at = step])
      BY <1>6 DEF FindHolder
    <2>2. ASSUME NEW q, NEW step \in {"saga", "status_get", "get"},
                 Update(c, [task[c] EXCEPT !.found = q, !.at = step])
          PROVE  Running(c)'
      <3>1. [task[c] EXCEPT !.found = q, !.at = step].at = step
        BY TaskFields DEF CIInv, TaskType
      <3> QED
        BY <1>1, <2>2, <3>1
    <2> QED
      BY <1>2, <2>1, <2>2 DEF Succeed
  <1>7. CASE GetDevice(c)
    <2>1. Move(c, "read") \/ Move(c, "saga")
      BY <1>7 DEF GetDevice
    <2> QED
      BY <1>2, <2>1
  <1>8. CASE UndoReturns(c)
    <2>1. PICK n : Update(c, [task[c] EXCEPT !.at = "next",
                                !.failed = @ \cup {Id(task[c].item)}, !.undo = n])
      BY <1>8 DEF UndoReturns
    <2>2. [task[c] EXCEPT !.at = "next", !.failed = @ \cup {Id(task[c].item)},
                          !.undo = n].at = "next"
      BY TaskFields DEF CIInv, TaskType
    <2> QED
      BY <1>1, <2>1, <2>2
  <1> QED
    BY <1>3, <1>4, <1>5, <1>6, <1>7, <1>8

LEMMA HandlerTrue ==
  ASSUME CBase, CIInv', Shown', NEW c \in Consoles, Alone(c), Told(c), Handles(c), ~Running(c)'
  PROVE  Truthful(c)'
  <1>1. CIInv
    BY DEF CBase
  <1>2. \/ ReadRegistryFails(c) \/ GetDeviceFails(c) \/ DeleteBatchFails(c) \/ ConsoleCrash(c)
        => Truthful(c)'
    BY RaisedTrue DEF ReadRegistryFails, GetDeviceFails, DeleteBatchFails, ConsoleCrash
  <1>3. Finish(c) \/ ReadBatch(c) \/ DeleteBatch(c) => Truthful(c)'
    BY FinishTrue, ReadBatchTrue, DeleteBatchTrue
  <1>4. \/ StatusCompare(c) \/ StatusPatch(c) \/ StatusLandsUnanswered(c) \/ StatusRaises(c)
        \/ SagaReturns(c)
        => Truthful(c)'
    BY <1>1, StatusEnds, JudgedEnds, RaisedTrue
  <1> QED
    BY <1>1, <1>2, <1>3, <1>4, GoOnRunning DEF Handles, Await

LEMMA StepTrue ==
  ASSUME CBase, Reliable, CBase', Shown', [CNext]_cvars, NEW c \in Consoles,
         task[c].said = None, task'[c].said # None, c \notin crossed'
  PROVE  Truthful(c)'
  <1>1. CIInv' /\ decommissioned \subseteq decommissioned' /\ Told(c)'
    BY ReliableKept, NoneRecommissioned DEF CBase, Reliable
  <1>2. Track
    BY CNextTracks DEF cvars, consoleVars
  <1>3. Alone(c) /\ Told(c)
    BY <1>2, AloneKept DEF Reliable
  <1>4. Handles(c)
    BY <1>1, <1>3, OthersTold
  <1>5. ~Running(c)'
    BY <1>1 DEF Told, Orderly
  <1> QED
    BY <1>1, <1>3, <1>4, <1>5, HandlerTrue

(***************************************************************************)
(* What an operation that nobody crossed reports is so: every item that it *)
(* does not count as failed has reached what was asked for in both stores, *)
(* but for the devices that are excused, and a batch reported not deleted  *)
(* has its rows.                                                           *)
(***************************************************************************)
THEOREM AnswersTrue == CSpec => AnswersAreTrue
  <1> DEFINE A == \A c \in Consoles :
                    task[c].said = None /\ task[c].said' # None /\ c \notin crossed'
                      => Truthful(c)'
  <1>1. CBase => Shown
    BY ShownBase
  <1>2. CBase /\ Reliable /\ CBase' /\ Shown' /\ [CNext]_cvars => [A]_cvars
    BY StepTrue
  <1> QED
    BY <1>1, <1>2, BaseInvariant, ReliableInvariant, PTL DEF CSpec, AnswersAreTrue
=============================================================================
