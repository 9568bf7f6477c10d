-------------------------- MODULE DivergenceProofs --------------------------
(***************************************************************************)
(* Theorems of QRDivergence, for any sets of labels, devices and requests  *)
(* and any failures.                                                       *)
(*                                                                         *)
(* The strengthening says, for each control point of a request that gives  *)
(* no reason for doubt, what the two stores hold of its two devices        *)
(* (NewAsLeft, OldAsLeft) and of its label (AsStepA); for one that gives a *)
(* reason, that the device its commit takes the label from is accounted    *)
(* for (Traced).  No lock protects any of it: that another request does    *)
(* not disturb it rests on the two having nothing in common, or both being *)
(* suspects.                                                               *)
(***************************************************************************)
EXTENDS QRDivergence, QRLifecycleProofs

Compensating == {"compensate", "compensate_patch"}
AfterStepA == PastLookup \cup Compensating

\* There is a reason to doubt what request r left behind.
Doubted(r) == r \in suspects \/ result[r] \in Alarms

\* How the locals of a handler fit its control point.
Flow(r) ==
  /\ pc[r] = "idle" => call[r] = NoCall
  /\ pc[r] \in {"idle", "lookup"} => old[r] = None
  /\ pc[r] \in {"lookup"} \cup AfterStepA => Op(r) # "restore"
  /\ pc[r] = "restore" => Op(r) = "restore"
  /\ pc[r] = "retire_free" => Op(r) = "retire"
  /\ pc[r] = "clear_old" => Op(r) = "rebind"
  /\ pc[r] \notin Compensating \cup {"done"} => result[r] = None
  /\ pc[r] \in AfterStepA =>
       /\ Op(r) = "bind" => old[r] = None
       /\ Op(r) # "bind" => old[r] # None
       /\ Op(r) = "rebind" => old[r] # New(r)
  /\ pc[r] \in Compensating =>
       /\ owes[r] # {}
       /\ "clear" \in owes[r] => New(r) # None
       /\ "restore" \in owes[r] => Op(r) # "bind"

\* Label r's row is as Step A read it.
AsStepA(r) ==
  pc[r] \in AfterStepA =>
    LET row == registry[Label(r)]
    IN  IF Op(r) = "bind" THEN row.status = "free"
        ELSE row.status = "bound" /\ row.device = old[r]

Unheld(d) == \A q \in Labels : ~Holds(registry, q, d)

\* What an undoubted request knows of its target device ...
NewAsLeft(r) ==
  LET d == New(r)
      written(tokens) == Unheld(d) /\ shows[d] \in tokens
  IN  CASE pc[r] = "patch" -> Agree(d) \/ written({None, Label(r)})
        [] pc[r] \in {"clear_old", "commit"} -> written({Label(r)})
        [] pc[r] = "compensate" /\ "clear" \in owes[r] -> written({Label(r)})
        [] pc[r] = "compensate_patch" /\ "clear" \in owes[r] -> written({None, Label(r)})
        [] OTHER -> Agree(d)

\* ... and of the device its label was on.
OldAsLeft(r) ==
  LET d == old[r]
  IN  CASE pc[r] = "patch" /\ New(r) = None -> shows[d] \in {None, Label(r)}
        [] pc[r] = "clear_old" -> shows[d] \in {None, Label(r)}
        [] pc[r] = "commit" -> shows[d] = None
        [] pc[r] = "compensate" /\ "restore" \in owes[r] -> shows[d] = None
        [] pc[r] = "compensate_patch" /\ owes[r] = {"restore"} -> shows[d] \in {None, Label(r)}
        [] pc[r] = "compensate_patch" /\ owes[r] = {"clear", "restore"} -> shows[d] = None
        [] OTHER -> Agree(d)

(***************************************************************************)
(* The devices of which nothing is claimed: the tainted ones, and a set X  *)
(* of others, for specifications that excuse more than this one.           *)
(***************************************************************************)
Waived(X) == Tainted \cup X

Known(X, r) ==
  /\ AsStepA(r)
  /\ New(r) \in Devices \ Waived(X) => NewAsLeft(r)
  /\ old[r] \in Devices \ Waived(X) => OldAsLeft(r)

\* The device from which the commit of r takes the label is the one Step A
\* read, or is waived.
Traced(X, r) == pc[r] \in PastLookup =>
               registry[Label(r)].device \in Waived(X) \cup {old[r], None}

\* The devices request r works on, and those that running requests do.
Hands(r) == {New(r), old[r]}
Held == {d \in Devices : \E r \in Requests : Active(r) /\ d \in Hands(r)}

DInv(X) ==
  /\ \A r \in Requests : Flow(r)
  /\ Overlapping \subseteq suspects
  /\ \A r \in Requests : Active(r) /\ ~Doubted(r) => Known(X, r)
  /\ \A r \in Requests : Traced(X, r)
  /\ \A d \in Devices \ (Waived(X) \cup Held) : Agree(d)

\* What a request has seen of the device it is going to PATCH.
Sighting(r) ==
  /\ pc[r] \in {"lookup", "read_device"} /\ seen[r] \in Devices => shows[seen[r]] = saw[r]
  /\ pc[r] = "patch" /\ r \notin suspects => shows[First(r)] \in {saw[r], Token(r)}

Sightings == \A r \in Requests : Sighting(r)

-----------------------------------------------------------------------------
(***************************************************************************)
(* One step of request r.                                                  *)
(***************************************************************************)
Moves(r) == Send(r) \/ Handle(r) \/ LandUnanswered(r) \/ Crash(r)

\* What is assumed of a state: types, the table's constraints, and Flow.
Base == IInv /\ registry \in Tables /\ \A r \in Requests : Flow(r)

\* A step of r leaves the locals of the other requests alone.
LEMMA OthersKeep ==
  ASSUME IInv, NEW r \in Requests, Moves(r), NEW s \in Requests \ {r}
  PROVE  /\ pc'[s] = pc[s] /\ call'[s] = call[s] /\ old'[s] = old[s]
         /\ owes'[s] = owes[s] /\ result'[s] = result[s]
  <1> USE DEF Return, Compensate, Discharge, Goto, locals, stores, IInv, TypeOK
  <1>1. CASE Send(r) \/ LandUnanswered(r) \/ Crash(r)
    BY <1>1 DEF Send, LandUnanswered, Crash
  <1>2. CASE LookupRefused(r) \/ LookupPasses(r) \/ LookupFails(r)
    BY <1>2 DEF LookupRefused, LookupPasses, LookupFails
  <1>3. CASE RegistryOnly(r) \/ RegistryOnlyRefused(r)
    BY <1>3 DEF RegistryOnly, RegistryOnlyRefused
  <1>4. CASE ReadDevice(r) \/ ReadDeviceTaken(r) \/ ReadDeviceConflict(r) \/ ReadDeviceFails(r)
    BY <1>4 DEF ReadDevice, ReadDeviceTaken, ReadDeviceConflict, ReadDeviceFails
  <1>5. CASE Patch(r) \/ PatchFails(r) \/ ClearOld(r) \/ ClearOldFails(r)
    BY <1>5 DEF Patch, PatchFails, ClearOld, ClearOldFails
  <1>6. CASE Commit(r) \/ CommitFails(r)
    BY <1>6 DEF Commit, CommitFails
  <1>7. CASE \/ CompensateNeeded(r) \/ CompensateNoop(r)
             \/ CompensatePatch(r) \/ CompensateFails(r)
    BY <1>7 DEF CompensateNeeded, CompensateNoop, CompensatePatch, CompensateFails
  <1> QED
    BY <1>1, <1>2, <1>3, <1>4, <1>5, <1>6, <1>7 DEF Moves, Handle

\* The types of a request that has arrived.
LEMMA Arrived ==
  ASSUME IInv, NEW r \in Requests, pc[r] # "idle"
  PROVE  /\ Op(r) \in Operations /\ Label(r) \in Labels
         /\ New(r) \in Devices \cup {None} /\ old[r] \in Devices \cup {None}
         /\ Op(r) \in {"bind", "rebind"} <=> New(r) # None
         /\ registry[Label(r)] \in Row
         /\ owes[r] \subseteq {"clear", "restore"}
  BY CallFields, NoneAssumption DEF IInv, CallInv, TypeOK, Op, Label, New

-----------------------------------------------------------------------------
\* Flow, for the request that moves.  First the steps that end it, ...
LEMMA FlowDone ==
  ASSUME Base, NEW r \in Requests, pc'[r] = "done", Op(r)' = Op(r)
  PROVE  Flow(r)'
  BY DEF Flow, AfterStepA, PastLookup, Compensating

\* ... then those that move it on with the locals of Step A, ...
LEMMA FlowOn ==
  ASSUME Base, NEW r \in Requests,
         pc[r] \in AfterStepA, pc'[r] \in AfterStepA, UNCHANGED locals,
         pc'[r] = "clear_old" => Op(r) = "rebind",
         pc'[r] \notin Compensating => result'[r] = None,
         pc'[r] \in Compensating =>
           /\ owes'[r] # {}
           /\ "clear" \in owes'[r] => New(r) # None
           /\ "restore" \in owes'[r] => Op(r) # "bind"
  PROVE  Flow(r)'
  BY DEF Base, Flow, AfterStepA, PastLookup, Compensating, locals, Op, New

LEMMA FlowSend ==
  ASSUME Base, NEW r \in Requests, Send(r)
  PROVE  Flow(r)'
  <1>1. /\ pc[r] = "idle" /\ UNCHANGED <<old, result>>
        /\ \E c \in Calls : call' = [call EXCEPT ![r] = c] /\
             Goto(r, IF c.op = "restore" THEN "restore" ELSE "lookup")
    BY DEF Send
  <1>2. old[r] = None /\ result[r] = None
    BY <1>1 DEF Base, Flow, Compensating
  <1>3. PICK c \in Calls :
          /\ call' = [call EXCEPT ![r] = c]
          /\ Goto(r, IF c.op = "restore" THEN "restore" ELSE "lookup")
    BY <1>1
  <1>4. call'[r] = c /\ pc'[r] = IF c.op = "restore" THEN "restore" ELSE "lookup"
    BY <1>3 DEF Base, IInv, TypeOK, Goto
  <1> QED
    BY <1>1, <1>2, <1>4 DEF Flow, AfterStepA, PastLookup, Compensating, Op

LEMMA FlowLookup ==
  ASSUME Base, NEW r \in Requests, LookupPasses(r)
  PROVE  /\ Flow(r)'
         /\ pc'[r] \in {"retire_free", "read_device"}
         /\ old'[r] = registry[Label(r)].device
         /\ pc'[r] = "read_device" => AsStepA(r)'
  <1> DEFINE row == registry[Label(r)]
  <1>1. /\ pc[r] = "lookup" /\ Refusal(r) = None
        /\ old' = [old EXCEPT ![r] = row.device]
        /\ Goto(r, IF Op(r) = "retire" /\ row.status = "free"
                   THEN "retire_free" ELSE "read_device")
        /\ UNCHANGED <<registry, call, result>>
    BY DEF LookupPasses, stores
  <1>2. /\ Op(r) \in Operations \ {"restore"} /\ Label(r) \in Labels
        /\ row \in Row /\ Consistent(row) /\ result[r] = None
        /\ None \notin Results
    BY <1>1, Arrived, ConstantsAssumption DEF Base, Flow, Tables, Compensating
  <1>3. /\ Op(r) = "bind" => row.status = "free"
        /\ Op(r) = "rebind" => row.status = "bound" /\ row.device # New(r)
        /\ Op(r) = "unbind" => row.status = "bound"
        /\ Op(r) = "retire" => row.status \in {"free", "bound"}
    BY <1>1, <1>2 DEF Refusal, BindRefusal, RetireRefusal, RebindRefusal, UnbindRefusal,
                      Results, Refusals, Operations, Row
  <1>4. /\ row.status = "free" => row.device = None
        /\ row.status = "bound" => row.device # None
    BY <1>2 DEF Consistent
  <1>5. /\ pc'[r] = IF Op(r) = "retire" /\ row.status = "free" THEN "retire_free"
                                                               ELSE "read_device"
        /\ old'[r] = row.device /\ call'[r] = call[r] /\ result'[r] = None
        /\ registry'[Label(r)'] = row
    BY <1>1, <1>2 DEF Base, IInv, TypeOK, Goto, Label
  <1>6. Flow(r)'
    BY <1>2, <1>3, <1>4, <1>5 DEF Flow, AfterStepA, PastLookup, Compensating, Op, New,
                                  Operations
  <1>7. pc'[r] = "read_device" => AsStepA(r)'
    BY <1>2, <1>3, <1>5 DEF AsStepA, Op, Label, Operations
  <1> QED
    BY <1>5, <1>6, <1>7

LEMMA FlowReads ==
  ASSUME Base, NEW r \in Requests,
         \/ LookupRefused(r) \/ LookupFails(r) \/ RegistryOnly(r) \/ RegistryOnlyRefused(r)
         \/ ReadDevice(r) \/ ReadDeviceTaken(r) \/ ReadDeviceConflict(r) \/ ReadDeviceFails(r)
         \/ PatchFails(r) \/ Crash(r)
  PROVE  Flow(r)'
  <1> USE DEF Return, Goto, locals, Base, IInv, TypeOK, Op
  <1>1. CASE ReadDevice(r)
    BY <1>1, FlowOn DEF ReadDevice, Flow, AfterStepA, PastLookup, Compensating
  <1>2. CASE LookupRefused(r) \/ LookupFails(r) \/ RegistryOnly(r) \/ RegistryOnlyRefused(r)
    BY <1>2, FlowDone DEF LookupRefused, LookupFails, RegistryOnly, RegistryOnlyRefused
  <1>3. CASE \/ ReadDeviceTaken(r) \/ ReadDeviceConflict(r) \/ ReadDeviceFails(r)
             \/ PatchFails(r) \/ Crash(r)
    BY <1>3, FlowDone DEF ReadDeviceTaken, ReadDeviceConflict, ReadDeviceFails,
                          PatchFails, Crash
  <1> QED
    BY <1>1, <1>2, <1>3

\* ... the writes and the transaction, ...
LEMMA FlowWrites ==
  ASSUME Base, NEW r \in Requests,
         \/ Patch(r) \/ ClearOld(r) \/ ClearOldFails(r) \/ Commit(r) \/ CommitFails(r)
         \/ LandUnanswered(r)
  PROVE  Flow(r)'
  <1> USE DEF Goto, locals, Base, IInv, TypeOK, AfterStepA, PastLookup, Compensating
  <1>1. CASE Patch(r)
    BY <1>1, FlowOn DEF Patch, Flow
  <1>2. CASE ClearOld(r)
    BY <1>2, FlowOn DEF ClearOld, Flow
  <1>3. CASE LandUnanswered(r)
    BY <1>3, FlowOn DEF LandUnanswered, Flow
  <1>4. CASE ClearOldFails(r)
    <2>1. pc[r] = "clear_old" /\ Op(r) = "rebind" /\ New(r) # None
      BY <1>4, Arrived DEF ClearOldFails, Flow
    <2> QED
      BY <1>4, <2>1, FlowOn DEF ClearOldFails, Compensate
  <1>5. ASSUME NEW res \in Results, Compensate(r, Undo(r), res), pc[r] = "commit",
               UNCHANGED locals
        PROVE  Flow(r)'
    <2>1. /\ Op(r) \in {"bind", "rebind"} <=> New(r) # None
          /\ Op(r) \in Operations
      BY <1>5, Arrived
    <2>2. pc'[r] = "compensate" /\ owes'[r] = Undo(r)
      BY <1>5, UndoType DEF Compensate
    <2>3. /\ Undo(r) # {}
          /\ "clear" \in Undo(r) => New(r) # None
          /\ "restore" \in Undo(r) => Op(r) # "bind"
      BY <2>1 DEF Undo
    <2> QED
      BY <1>5, <2>2, <2>3, FlowOn
  <1>6. CASE Commit(r)
    BY <1>5, <1>6, FlowDone DEF Commit, Return, Results, Op
  <1>7. CASE CommitFails(r)
    BY <1>5, <1>7 DEF CommitFails, Results
  <1> QED
    BY <1>1, <1>2, <1>3, <1>4, <1>6, <1>7

\* ... and the compensation, of which one task is run at a time.
LEMMA TaskOwed ==
  ASSUME Base, NEW r \in Requests, pc[r] \in Compensating
  PROVE  /\ Task(r) \in owes[r]
         /\ Task(r) = "restore" => owes[r] = {"restore"}
         /\ Task(r) = "clear" => owes[r] = {"clear"} \/ owes[r] = {"clear", "restore"}
         /\ Target(r) \in Devices
         /\ Task(r) = "restore" => Op(r) # "bind"
         /\ Task(r) \in {"clear", "restore"}
  <1>1. /\ pc[r] # "idle" /\ owes[r] # {} /\ owes[r] \subseteq {"clear", "restore"}
        /\ New(r) \in Devices \cup {None} /\ old[r] \in Devices \cup {None}
        /\ "clear" \in owes[r] => New(r) # None
        /\ "restore" \in owes[r] => Op(r) # "bind"
        /\ Op(r) # "bind" => old[r] # None
    BY Arrived DEF Base, Flow, Compensating, AfterStepA
  <1> QED
    BY <1>1 DEF Task, Target

LEMMA FlowCompensation ==
  ASSUME Base, NEW r \in Requests,
         \/ CompensateNeeded(r) \/ CompensateNoop(r)
         \/ CompensatePatch(r) \/ CompensateFails(r)
  PROVE  Flow(r)'
  <1>1. /\ pc[r] \in Compensating /\ UNCHANGED locals
        /\ \/ Goto(r, "compensate_patch") /\ UNCHANGED owes
           \/ \E res : Discharge(r, res)
    BY DEF CompensateNeeded, CompensateNoop, CompensatePatch, CompensateFails, Compensating
  <1>2. \/ pc'[r] = "compensate_patch" /\ owes'[r] = owes[r]
        \/ /\ owes'[r] = owes[r] \ {Task(r)}
           /\ pc'[r] = IF owes[r] = {Task(r)} THEN "done" ELSE "compensate"
    BY <1>1 DEF Discharge, Goto, Base, IInv, TypeOK
  <1>3. CASE pc'[r] = "done"
    BY <1>1, <1>3, FlowDone DEF locals, Op
  <1>4. CASE pc'[r] # "done"
    <2>1. owes'[r] \subseteq owes[r] /\ owes'[r] # {} /\ pc'[r] \in Compensating
      BY <1>1, <1>2, <1>4, TaskOwed DEF Compensating, Base, Flow
    <2> QED
      BY <1>1, <2>1, FlowOn DEF AfterStepA, Compensating, PastLookup, Base, Flow
  <1> QED
    BY <1>3, <1>4

LEMMA FlowKept ==
  ASSUME Base, NEW r \in Requests, Moves(r), NEW s \in Requests
  PROVE  Flow(s)'
  <1>1. CASE s = r
    BY <1>1, FlowSend, FlowLookup, FlowReads, FlowWrites, FlowCompensation DEF Moves, Handle
  <1>2. CASE s # r
    BY <1>2, OthersKeep DEF Base, Flow, Op, New
  <1> QED
    BY <1>1, <1>2

-----------------------------------------------------------------------------
(***************************************************************************)
(* Doubt only grows: neither a request nor a device is ever cleared of it. *)
(***************************************************************************)
LEMMA Touching ==
  ASSUME NEW d, d # None, NEW r
  PROVE  d \in Touches(r) <=> d = Label(r) \/ d \in Hands(r)
  BY DEF Touches, Hands

LEMMA TaintedBy ==
  ASSUME NEW d
  PROVE  d \in Tainted <=> \E r \in Requests : Doubted(r) /\ d \in Touches(r)
  BY DEF Tainted, Doubted

\* What a step must leave in the history: the requests it puts in doubt.
Recorded ==
  /\ suspects \subseteq suspects' /\ Overlapping' \subseteq suspects'
  /\ \A r \in Requests : Overwrites(r) \/ Misjudges(r) => r \in suspects'

LEMMA Noted == HNext => Recorded
  BY DEF HNext, Recorded

\* Two running requests with something in common are suspects.
LEMMA Apart ==
  ASSUME Overlapping \subseteq suspects, NEW r \in Requests, NEW s \in Requests \ {r},
         Active(r), Active(s), NEW x \in Touches(r), x \in Touches(s)
  PROVE  r \in suspects /\ s \in suspects
  <1>1. Footprint(r) \cap Footprint(s) # {}
    BY DEF Footprint
  <1> QED
    BY <1>1 DEF Overlapping

\* A request takes a call when it is sent and an old device at Step A, and
\* keeps both.
LEMMA LocalsOf ==
  ASSUME Base, NEW r \in Requests, Moves(r)
  PROVE  \/ UNCHANGED locals
         \/ Send(r) /\ call[r] = NoCall /\ old[r] = None
         \/ LookupPasses(r) /\ UNCHANGED call /\ old[r] = None
  <1>1. CASE Send(r)
    BY <1>1 DEF Send, Base, Flow
  <1>2. CASE LookupPasses(r)
    BY <1>2 DEF LookupPasses, Base, Flow
  <1>3. CASE ~(Send(r) \/ LookupPasses(r))
    BY <1>3 DEF Moves, Handle, LandUnanswered, Crash, LookupRefused, LookupFails,
                RegistryOnly, RegistryOnlyRefused, ReadDevice, ReadDeviceTaken,
                ReadDeviceConflict, ReadDeviceFails, Patch, PatchFails, ClearOld,
                ClearOldFails, Commit, CommitFails, CompensateNeeded, CompensateNoop,
                CompensatePatch, CompensateFails
  <1> QED
    BY <1>1, <1>2, <1>3

LEMMA TouchesGrow ==
  ASSUME Base, NEW r \in Requests, Moves(r), NEW s \in Requests
  PROVE  Touches(s) \subseteq Touches(s)'
  <1>1. CASE s # r
    BY <1>1, OthersKeep DEF Base, Touches, Label, New
  <1>2. CASE s = r
    <2>1. CASE UNCHANGED locals
      BY <2>1 DEF locals, Touches, Label, New
    <2>2. CASE call[r] = NoCall /\ old[r] = None
      BY <1>2, <2>2 DEF Touches, Label, New, NoCall
    <2>3. CASE UNCHANGED call /\ old[r] = None
      BY <1>2, <2>3 DEF Touches, Label, New
    <2> QED
      BY <2>1, <2>2, <2>3, LocalsOf
  <1> QED
    BY <1>1, <1>2

\* A request that has an alarming answer keeps it.
LEMMA AlarmsStay ==
  ASSUME Base, NEW r \in Requests, Moves(r), NEW s \in Requests, result[s] \in Alarms
  PROVE  result'[s] \in Alarms
  <1>1. CASE s # r
    BY <1>1, OthersKeep DEF Base
  <1>2. CASE s = r
    <2>1. pc[r] \in Compensating \cup {"done"}
      BY <1>2, ConstantsAssumption DEF Base, Flow, Alarms, Results
    <2>2. \/ LandUnanswered(r) \/ Crash(r) \/ CompensateNeeded(r) \/ CompensateNoop(r)
          \/ CompensatePatch(r) \/ CompensateFails(r)
      BY <2>1 DEF Moves, Handle, Compensating, Send, LookupRefused, LookupPasses,
                  LookupFails, RegistryOnly, RegistryOnlyRefused, ReadDevice,
                  ReadDeviceTaken, ReadDeviceConflict, ReadDeviceFails, Patch,
                  PatchFails, ClearOld, ClearOldFails, Commit, CommitFails
    <2>3. result'[r] \in {result[r], "inconsistent", "crashed"}
      BY <2>2 DEF LandUnanswered, Crash, CompensateNeeded, CompensateNoop,
                  CompensatePatch, CompensateFails, Return, Discharge, Base, IInv, TypeOK
    <2> QED
      BY <1>2, <2>3 DEF Alarms
  <1> QED
    BY <1>1, <1>2

LEMMA DoubtGrows ==
  ASSUME NEW X, Base, Recorded, NEW r \in Requests, Moves(r)
  PROVE  /\ \A s \in Requests : Doubted(s) => Doubted(s)'
         /\ Tainted \subseteq Tainted' /\ Waived(X) \subseteq Waived(X)'
  <1>1. \A s \in Requests : Doubted(s) => Doubted(s)'
    BY AlarmsStay DEF Doubted, Recorded
  <1>2. ASSUME NEW d \in Tainted PROVE d \in Tainted'
    <2>1. PICK s \in Requests : Doubted(s) /\ d \in Touches(s)
      BY TaintedBy
    <2>2. Doubted(s)' /\ d \in Touches(s)'
      BY <1>1, <2>1, TouchesGrow
    <2> QED
      BY <2>2 DEF Tainted, Doubted
  <1> QED
    BY <1>1, <1>2 DEF Waived

-----------------------------------------------------------------------------
(***************************************************************************)
(* How far a step of request r reaches: the devices in its hands, its      *)
(* label, and a device the label leaves.                                   *)
(***************************************************************************)
LEMMA StoresOf ==
  ASSUME NEW r \in Requests, Moves(r)
  PROVE  /\ \/ UNCHANGED shows
            \/ /\ pc[r] \in {"patch", "clear_old", "compensate_patch"}
               /\ \E d \in {First(r), old[r], Target(r)} : \E v : shows' = [shows EXCEPT ![d] = v]
         /\ UNCHANGED registry \/ Commit(r) \/ RegistryOnly(r)
  BY DEF Moves, Handle, Send, LandUnanswered, Crash, LookupRefused, LookupPasses,
         LookupFails, RegistryOnly, RegistryOnlyRefused, ReadDevice, ReadDeviceTaken,
         ReadDeviceConflict, ReadDeviceFails, Patch, PatchFails, ClearOld,
         ClearOldFails, Commit, CommitFails, CompensateNeeded, CompensateNoop,
         CompensatePatch, CompensateFails, WriteDevice, stores

LEMMA RowsOf ==
  ASSUME Base, NEW r \in Requests, Commit(r) \/ RegistryOnly(r)
  PROVE  LET row == registry[Label(r)]
         IN  /\ Active(r) /\ Label(r) \in Labels /\ row \in Row /\ registry'[Label(r)] \in Row
             /\ \A q \in Labels \ {Label(r)} : registry'[q] = registry[q]
             /\ registry'[Label(r)].device \in {row.device, None, New(r)}
             /\ Commit(r) \/ (row.status # "bound" /\ registry'[Label(r)].status # "bound")
  <1>1. Active(r) /\ pc[r] # "idle"
    BY DEF Commit, RegistryOnly, Active
  <1>2. /\ Label(r) \in Labels /\ registry[Label(r)] \in Row
        /\ Op(r) \in {"bind", "rebind"} <=> New(r) # None
        /\ New(r) \in Devices \cup {None}
    BY <1>1, Arrived DEF Base
  <1>3. registry \in [Labels -> Row]
    BY DEF Base, Tables
  <1>4. CASE Commit(r)
    <2>1. Moved(r) \in Row /\ Moved(r).device \in {registry[Label(r)].device, None, New(r)}
      BY <1>2 DEF Moved, Bind, Rebind, Retire, Unbind, Row
    <2> QED
      BY <1>1, <1>2, <1>3, <1>4, <2>1 DEF Commit
  <1>5. CASE RegistryOnly(r)
    <2>1. /\ MovedAlone(r) \in Row /\ MovedAlone(r).device \in {registry[Label(r)].device, None}
          /\ MovedAlone(r).status # "bound" /\ registry[Label(r)].status # "bound"
      BY <1>2, <1>5 DEF MovedAlone, Retire, Restore, Row, RegistryOnly, Required
    <2> QED
      BY <1>1, <1>2, <1>3, <1>5, <2>1 DEF RegistryOnly
  <1> QED
    BY <1>4, <1>5

LEMMA IdleStores ==
  ASSUME Base, NEW r \in Requests, Moves(r), ~Active(r)
  PROVE  UNCHANGED stores
  BY StoresOf, RowsOf DEF Active, stores

LEMMA ShowsReach ==
  ASSUME Base, NEW r \in Requests, Moves(r), NEW d \in Devices \ Hands(r)
  PROVE  shows'[d] = shows[d]
  <1>1. CASE UNCHANGED shows
    BY <1>1
  <1>2. CASE /\ pc[r] \in {"patch", "clear_old", "compensate_patch"}
             /\ \E e \in {First(r), old[r], Target(r)} : \E v : shows' = [shows EXCEPT ![e] = v]
    <2>1. {First(r), old[r], Target(r)} \subseteq Hands(r)
      BY DEF First, Target, Hands
    <2> QED
      BY <1>2, <2>1 DEF Base, IInv, TypeOK
  <1> QED
    BY <1>1, <1>2, StoresOf

LEMMA HoldsReach ==
  ASSUME NEW X, Base, NEW r \in Requests, Moves(r), Traced(X, r),
         NEW d \in Devices \ (Hands(r) \cup Waived(X)), NEW q \in Labels
  PROVE  Holds(registry', q, d) <=> Holds(registry, q, d)
  <1>1. CASE UNCHANGED registry
    BY <1>1 DEF Holds
  <1>2. CASE (Commit(r) \/ RegistryOnly(r)) /\ q # Label(r)
    BY <1>2, RowsOf DEF Holds
  <1>3. CASE RegistryOnly(r) /\ q = Label(r) /\ ~Commit(r)
    BY <1>3, RowsOf DEF Holds
  <1>4. CASE Commit(r) /\ q = Label(r)
    <2>1. registry[q].device # d
      BY <1>4, NoneAssumption DEF Traced, Commit, PastLookup, Hands
    <2>2. registry'[q].device # d
      BY <1>4, <2>1, RowsOf, NoneAssumption DEF Hands
    <2> QED
      BY <2>1, <2>2 DEF Holds
  <1> QED
    BY <1>1, <1>2, <1>3, <1>4, StoresOf

\* So nothing is different about a device out of its reach.
LEMMA OutOfReach ==
  ASSUME NEW X, Base, NEW r \in Requests, Moves(r), Traced(X, r),
         NEW d \in Devices \ (Hands(r) \cup Waived(X))
  PROVE  /\ shows'[d] = shows[d]
         /\ Agree(d)' <=> Agree(d)
         /\ Unheld(d)' <=> Unheld(d)
  BY ShowsReach, HoldsReach DEF Agree, Unheld, Holds

\* What an undoubted request knows, a step of another request leaves true.
LEMMA KnownKept ==
  ASSUME NEW X, Base, Recorded, Overlapping \subseteq suspects,
         NEW r \in Requests, Moves(r), Traced(X, r),
         NEW s \in Requests \ {r}, Active(s), ~Doubted(s), Known(X, s)
  PROVE  Known(X, s)'
  <1>1. /\ pc'[s] = pc[s] /\ call'[s] = call[s] /\ old'[s] = old[s] /\ owes'[s] = owes[s]
    BY OthersKeep DEF Base
  <1>2. Waived(X) \subseteq Waived(X)'
    BY DoubtGrows
  <1>3. ASSUME Active(r), NEW x \in Touches(s) PROVE x \notin Touches(r)
    BY <1>3, Apart DEF Doubted
  <1>4. ASSUME NEW d \in Devices \ Waived(X), d \in Hands(s)
        PROVE  /\ shows'[d] = shows[d]
               /\ Agree(d)' <=> Agree(d)
               /\ Unheld(d)' <=> Unheld(d)
    <2>1. CASE Active(r)
      <3>1. d \notin Hands(r)
        BY <1>3, <1>4, <2>1, Touching, NoneAssumption
      <3> QED
        BY <1>4, <3>1, OutOfReach
    <2>2. CASE ~Active(r)
      BY <2>2, IdleStores DEF stores, Agree, Unheld, Holds
    <2> QED
      BY <2>1, <2>2
  <1>5. registry'[Label(s)] = registry[Label(s)]
    <2>1. Label(s) \in Labels /\ Label(s) # None /\ Label(s) \in Touches(s)
      BY Arrived, NoneAssumption DEF Base, Active, Touches
    <2>2. CASE Active(r)
      <3>1. Label(r) # Label(s)
        BY <1>3, <2>1, <2>2 DEF Touches
      <3> QED
        BY <2>1, <3>1, StoresOf, RowsOf
    <2>3. CASE ~Active(r)
      BY <2>3, IdleStores DEF stores
    <2> QED
      BY <2>2, <2>3
  <1>6. Label(s)' = Label(s) /\ New(s)' = New(s) /\ Op(s)' = Op(s)
    BY <1>1 DEF Label, New, Op
  <1>7. AsStepA(s)'
    BY <1>1, <1>5, <1>6 DEF Known, AsStepA
  <1>8. ASSUME New(s) \in Devices \ Waived(X) PROVE NewAsLeft(s)'
    <2>1. /\ shows'[New(s)] = shows[New(s)]
          /\ Agree(New(s))' <=> Agree(New(s))
          /\ Unheld(New(s))' <=> Unheld(New(s))
      BY <1>4, <1>8, <1>6 DEF Hands
    <2> QED
      BY <1>1, <1>6, <1>8, <2>1 DEF Known, NewAsLeft
  <1>9. ASSUME old[s] \in Devices \ Waived(X) PROVE OldAsLeft(s)'
    <2>1. /\ shows'[old[s]] = shows[old[s]]
          /\ Agree(old[s])' <=> Agree(old[s])
      BY <1>1, <1>4, <1>9 DEF Hands
    <2> QED
      BY <1>1, <1>6, <1>9, <2>1 DEF Known, OldAsLeft
  <1> QED
    BY <1>1, <1>2, <1>6, <1>7, <1>8, <1>9 DEF Known

\* The device a label is on when its commit comes is accounted for: only a
\* request with the same label can have moved it, and both are suspects then.
LEMMA TracedKept ==
  ASSUME NEW X, Base, Recorded, Overlapping \subseteq suspects, \A s \in Requests : Traced(X, s),
         NEW r \in Requests, Moves(r), NEW s \in Requests
  PROVE  Traced(X, s)'
  <1> SUFFICES ASSUME pc'[s] \in PastLookup
               PROVE  registry'[Label(s)'].device \in Waived(X)' \cup {old'[s], None}
    BY DEF Traced
  <1>1. Waived(X) \subseteq Waived(X)'
    BY DoubtGrows
  <1>2. CASE s = r
    <2>1. CASE LookupPasses(r)
      <3>1. old'[r] = registry[Label(r)].device /\ UNCHANGED <<registry, call>>
        BY <2>1, FlowLookup DEF LookupPasses, stores
      <3> QED
        BY <1>2, <3>1 DEF Label
    <2>2. CASE ~LookupPasses(r)
      <3>1. pc[r] \in PastLookup /\ UNCHANGED <<registry, locals>>
        <4>1. CASE Send(r)
          BY <1>2, <4>1, FlowSend DEF Send, Goto, PastLookup, Base, IInv, TypeOK
        <4>2. CASE ReadDevice(r) \/ Patch(r) \/ ClearOld(r) \/ LandUnanswered(r)
          BY <1>2, <4>2 DEF ReadDevice, Patch, ClearOld, LandUnanswered, PastLookup, stores
        <4>3. CASE /\ ~(Send(r) \/ LookupPasses(r))
                   /\ ~(ReadDevice(r) \/ Patch(r) \/ ClearOld(r) \/ LandUnanswered(r))
          <5>1. pc'[r] \in {"done", "compensate", "compensate_patch"}
            BY <4>3 DEF Moves, Handle, Crash, LookupRefused, LookupFails, RegistryOnly,
                        RegistryOnlyRefused, ReadDeviceTaken, ReadDeviceConflict,
                        ReadDeviceFails, PatchFails, ClearOldFails, Commit, CommitFails,
                        CompensateNeeded, CompensateNoop, CompensatePatch,
                        CompensateFails, Return, Compensate, Discharge, Goto, Base,
                        IInv, TypeOK
          <5> QED
            BY <1>2, <5>1 DEF PastLookup
        <4> QED
          BY <2>2, <4>1, <4>2, <4>3
      <3> QED
        BY <1>1, <1>2, <3>1 DEF Traced, locals, Label
    <2> QED
      BY <2>1, <2>2
  <1>3. CASE s # r
    <2>1. pc'[s] = pc[s] /\ old'[s] = old[s] /\ Label(s)' = Label(s)
      BY <1>3, OthersKeep DEF Base, Label
    <2>2. registry[Label(s)].device \in Waived(X)' \cup {old'[s], None}
      BY <1>1, <2>1 DEF Traced
    <2>3. Active(s) /\ Label(s) \in Labels /\ Label(s) \in Touches(s)
      BY <2>1, Arrived, NoneAssumption DEF Active, PastLookup, Base, Touches
    <2>4. CASE registry'[Label(s)] = registry[Label(s)]
      BY <2>1, <2>2, <2>4
    <2>5. CASE registry'[Label(s)] # registry[Label(s)]
      <3>1. /\ Active(r) /\ Label(r) = Label(s)
            /\ registry'[Label(r)].device \in {registry[Label(r)].device, None, New(r)}
        BY <2>3, <2>5, StoresOf, RowsOf
      <3>2. r \in suspects
        BY <1>3, <2>3, <3>1, Apart, NoneAssumption DEF Touches
      <3>3. New(r) # None => New(r) \in Waived(X)'
        BY <1>1, <3>2, DoubtGrows, TaintedBy DEF Touches, Doubted, Waived
      <3> QED
        BY <2>1, <2>2, <3>1, <3>3
    <2> QED
      BY <2>4, <2>5
  <1> QED
    BY <1>2, <1>3

-----------------------------------------------------------------------------
(***************************************************************************)
(* What a request that stays undoubted knows after a step of its own.      *)
(***************************************************************************)
LEMMA HeldAgrees ==
  ASSUME Base, NEW d \in Devices, NEW q \in Labels,
         Holds(registry, q, d), shows[d] = q
  PROVE  Agree(d)
  BY DEF Base, Tables, OnePerDevice, Agree

LEMMA Emptied ==
  ASSUME NEW d, Unheld(d), shows[d] = None
  PROVE  Agree(d)
  BY NoneAssumption DEF Unheld, Agree

LEMMA OwnStep ==
  ASSUME NEW X, Base, Recorded, NEW r \in Requests, Moves(r), UNCHANGED locals,
         AsStepA(r)',
         New(r) \in Devices \ Waived(X) => NewAsLeft(r)',
         old[r] \in Devices \ Waived(X) => OldAsLeft(r)'
  PROVE  Known(X, r)'
  <1>1. Waived(X) \subseteq Waived(X)' /\ New(r)' = New(r) /\ old'[r] = old[r]
    BY DoubtGrows DEF locals, New
  <1> QED
    BY <1>1 DEF Known

LEMMA RowKept ==
  ASSUME NEW r \in Requests, AsStepA(r), UNCHANGED <<registry, locals>>,
         pc'[r] \in AfterStepA => pc[r] \in AfterStepA
  PROVE  AsStepA(r)'
  BY DEF AsStepA, locals, Op, Label

\* The device a label is bound to shows it, unless the request knows why not.
LEMMA OldShows ==
  ASSUME Base, NEW r \in Requests, pc[r] \in AfterStepA, AsStepA(r), old[r] \in Devices
  PROVE  /\ Label(r) \in Labels /\ Op(r) # "bind"
         /\ Holds(registry, Label(r), old[r])
         /\ Agree(old[r]) => shows[old[r]] = Label(r)
         /\ shows[old[r]] = Label(r) => Agree(old[r])
  <1>1. Label(r) \in Labels /\ Op(r) # "bind"
    BY Arrived, NoneAssumption DEF Base, Flow, AfterStepA, PastLookup, Compensating
  <1>2. Holds(registry, Label(r), old[r])
    BY <1>1 DEF AsStepA, Holds
  <1> QED
    BY <1>1, <1>2, HeldAgrees DEF Agree

\* A request is sent, or passes Step A: it takes into its hands a device of
\* which nothing is in doubt, or that is in the hands of another one.
LEMMA Taken ==
  ASSUME NEW X, Base, DInv(X), Recorded, NEW r \in Requests, Moves(r), ~Doubted(r)',
         Active(r)', UNCHANGED stores,
         NEW d \in Devices \ Waived(X), d \in Hands(r)', d \notin Hands(r) \/ ~Active(r)
  PROVE  Agree(d)'
  <1>1. \A s \in Requests \ {r} : ~(Active(s) /\ d \in Hands(s))
    <2> SUFFICES ASSUME NEW s \in Requests \ {r}, Active(s), d \in Hands(s) PROVE FALSE
      OBVIOUS
    <2>1. pc'[s] = pc[s] /\ d \in Hands(s)'
      BY OthersKeep DEF Base, Hands, New
    <2>2. d \in Touches(r)' /\ d \in Touches(s)'
      BY <2>1, NoneAssumption DEF Touches, Hands
    <2>3. Active(s)'
      BY <2>1 DEF Active
    <2>4. Footprint(r)' \cap Footprint(s)' # {}
      BY <2>2, <2>3 DEF Footprint
    <2>5. r \in Overlapping'
      BY <2>4 DEF Overlapping
    <2> QED
      BY <2>5 DEF Recorded, Doubted
  <1>2. d \notin Held
    BY <1>1 DEF Held
  <1> QED
    BY <1>2 DEF DInv, stores, Agree, Holds

LEMMA MineSend ==
  ASSUME NEW X, Base, DInv(X), Recorded, NEW r \in Requests, Send(r), ~Doubted(r)'
  PROVE  Known(X, r)'
  <1>1. Moves(r) /\ ~Active(r) /\ UNCHANGED stores /\ old'[r] = None
    BY DEF Moves, Active, Send, Base, Flow
  <1>2. pc'[r] \in {"lookup", "restore"}
    BY DEF Send, Goto, Base, IInv, TypeOK
  <1>3. Active(r)' /\ AsStepA(r)'
    BY <1>2 DEF Active, AsStepA, AfterStepA, PastLookup, Compensating
  <1>4. ASSUME New(r)' \in Devices \ Waived(X)' PROVE Agree(New(r))'
    <2>1. New(r)' \in Devices \ Waived(X) /\ New(r)' \in Hands(r)'
      BY <1>1, <1>4, DoubtGrows DEF Hands
    <2>2. \A d \in Devices \ Waived(X) : d \in Hands(r)' => Agree(d)'
      BY <1>1, <1>3, Taken
    <2> QED
      BY <2>1, <2>2 DEF Agree
  <1> QED
    BY <1>1, <1>2, <1>3, <1>4, NoneAssumption DEF Known, NewAsLeft

LEMMA MineLookup ==
  ASSUME NEW X, Base, DInv(X), Recorded, NEW r \in Requests, LookupPasses(r), ~Doubted(r)'
  PROVE  Known(X, r)'
  <1>1. /\ Moves(r) /\ Active(r) /\ UNCHANGED stores /\ New(r)' = New(r) /\ pc[r] = "lookup"
    BY DEF Moves, Handle, Active, LookupPasses, stores, New
  <1>2. ~Doubted(r) /\ Known(X, r) /\ Waived(X) \subseteq Waived(X)'
    BY <1>1, DoubtGrows DEF DInv
  <1>3. pc'[r] \in {"retire_free", "read_device"} /\ (pc'[r] = "read_device" => AsStepA(r)')
    BY FlowLookup
  <1>4. Active(r)' /\ AsStepA(r)'
    BY <1>3 DEF Active, AsStepA, AfterStepA, PastLookup, Compensating
  <1>5. \A d \in Devices : Agree(d)' <=> Agree(d)
    BY <1>1 DEF stores, Agree, Holds
  <1>6. ASSUME New(r) \in Devices \ Waived(X)' PROVE Agree(New(r))'
    <2>1. Agree(New(r))
      BY <1>1, <1>2, <1>6 DEF Known, NewAsLeft
    <2> QED
      BY <1>1, <1>6, <2>1 DEF stores, Agree, Holds
  <1>7. ASSUME old'[r] \in Devices \ Waived(X)' PROVE Agree(old[r])'
    <2>1. old'[r] \in Devices \ Waived(X) /\ old'[r] \in Hands(r)'
      BY <1>2, <1>7 DEF Hands
    <2>2. \A d \in Devices \ Waived(X) : d \in Hands(r)' /\ d \notin Hands(r) => Agree(d)'
      BY <1>1, <1>4, Taken
    <2>3. CASE old'[r] \notin Hands(r)
      BY <2>1, <2>2, <2>3 DEF Agree
    <2>4. CASE old'[r] \in Hands(r)
      <3>1. old'[r] = New(r)
        BY <1>1, <1>7, <2>4, NoneAssumption DEF Hands, Base, Flow
      <3> QED
        BY <1>6, <1>7, <3>1, <1>1 DEF Agree
    <2> QED
      BY <2>3, <2>4
  <1> QED
    BY <1>1, <1>3, <1>4, <1>6, <1>7 DEF Known, NewAsLeft, OldAsLeft

\* Steps that end a request which has written nothing to NetBox.
LEMMA MineEnds ==
  ASSUME NEW X, Base, Recorded, NEW r \in Requests, Moves(r), UNCHANGED locals, Known(X, r),
         pc[r] \in {"lookup", "retire_free", "restore", "read_device"}, pc'[r] = "done",
         \A d \in Devices : Agree(d) => Agree(d)'
  PROVE  Known(X, r)'
  <1>1. New(r) \in Devices \ Waived(X) => Agree(New(r))
    BY DEF Known, NewAsLeft
  <1>2. old[r] \in Devices \ Waived(X) => Agree(old[r])
    BY DEF Known, OldAsLeft
  <1>3. AsStepA(r)'
    BY DEF AsStepA, AfterStepA, PastLookup, Compensating
  <1>4. New(r)' = New(r) /\ old'[r] = old[r]
    BY DEF locals, New
  <1>5. New(r) \in Devices \ Waived(X) => Agree(New(r))'
    BY <1>1, <1>4 DEF Agree
  <1>6. old[r] \in Devices \ Waived(X) => Agree(old[r])'
    BY <1>2, <1>4 DEF Agree
  <1> QED
    BY <1>3, <1>5, <1>6, OwnStep DEF NewAsLeft, OldAsLeft

LEMMA MineReads ==
  ASSUME NEW X, Base, DInv(X), Recorded, NEW r \in Requests, ~Doubted(r)',
         \/ LookupRefused(r) \/ LookupFails(r) \/ RegistryOnly(r) \/ RegistryOnlyRefused(r)
         \/ ReadDeviceTaken(r) \/ ReadDeviceConflict(r)
  PROVE  Known(X, r)'
  <1>1. /\ Moves(r) /\ UNCHANGED <<shows, locals>>
        /\ pc[r] \in {"lookup", "retire_free", "restore", "read_device"}
    BY DEF Moves, Handle, LookupRefused, LookupFails, RegistryOnly,
           RegistryOnlyRefused, ReadDeviceTaken, ReadDeviceConflict, stores
  <1>2. pc'[r] = "done"
    BY DEF LookupRefused, LookupFails, RegistryOnly, RegistryOnlyRefused,
           ReadDeviceTaken, ReadDeviceConflict, Return, Goto, Base, IInv, TypeOK
  <1>3. Known(X, r)
    BY <1>1, DoubtGrows DEF DInv, Active
  <1>4. \A d \in Devices : Agree(d) => Agree(d)'
    <2>1. \A d \in Devices, q \in Labels : Holds(registry', q, d) <=> Holds(registry, q, d)
      <3>1. CASE RegistryOnly(r)
        <4>1. ~Commit(r)
          BY <1>1 DEF Commit
        <4> QED
          BY <3>1, <4>1, RowsOf DEF Holds
      <3>2. CASE UNCHANGED registry
        BY <3>2 DEF Holds
      <3> QED
        BY <3>1, <3>2 DEF LookupRefused, LookupFails, RegistryOnlyRefused, ReadDeviceTaken,
                          ReadDeviceConflict, stores
    <2> QED
      BY <1>1, <2>1 DEF Agree
  <1> QED
    BY <1>1, <1>2, <1>3, <1>4, MineEnds

LEMMA MineReadDevice ==
  ASSUME NEW X, Base, DInv(X), Recorded, NEW r \in Requests, ReadDevice(r), ~Doubted(r)'
  PROVE  Known(X, r)'
  <1>1. /\ Moves(r) /\ UNCHANGED <<stores, locals>> /\ pc[r] = "read_device"
        /\ pc'[r] = "patch"
    BY DEF Moves, Handle, ReadDevice, Goto, Base, IInv, TypeOK
  <1>2. Known(X, r)
    BY <1>1, DoubtGrows DEF DInv, Active
  <1>3. AsStepA(r) /\ AsStepA(r)' /\ pc[r] \in AfterStepA
    BY <1>1, <1>2, RowKept DEF Known, stores, AfterStepA, PastLookup
  <1>4. /\ New(r) \in Devices \ Waived(X) => Agree(New(r))
        /\ old[r] \in Devices \ Waived(X) => Agree(old[r])
    BY <1>1, <1>2 DEF Known, NewAsLeft, OldAsLeft
  <1>5. New(r)' = New(r) /\ old'[r] = old[r] /\ Label(r)' = Label(r)
    BY <1>1 DEF locals, New, Label
  <1>6. New(r) \in Devices \ Waived(X) => Agree(New(r))'
    BY <1>1, <1>4, <1>5 DEF Agree, stores, Holds
  <1>7. old[r] \in Devices \ Waived(X) => Agree(old[r])' /\ shows'[old[r]] = Label(r)
    BY <1>1, <1>3, <1>4, <1>5, OldShows DEF Agree, stores, Holds
  <1> QED
    BY <1>1, <1>3, <1>5, <1>6, <1>7, OwnStep DEF NewAsLeft, OldAsLeft

\* The first PATCH, answered or not.
LEMMA MinePatch ==
  ASSUME NEW X, Base, DInv(X), Recorded, NEW r \in Requests, ~Doubted(r)', pc[r] = "patch",
         Patch(r) \/ LandUnanswered(r)
  PROVE  Known(X, r)'
  <1>1. /\ Moves(r) /\ UNCHANGED <<registry, locals>>
        /\ shows' = [shows EXCEPT ![First(r)] = Token(r)]
    BY DEF Moves, Handle, Patch, LandUnanswered, WriteDevice
  <1>2. pc'[r] = IF ~Patch(r) THEN "patch"
                 ELSE IF Op(r) = "rebind" THEN "clear_old" ELSE "commit"
    BY DEF Patch, LandUnanswered, Goto, Base, IInv, TypeOK
  <1>3. Known(X, r)
    BY DoubtGrows, <1>1 DEF DInv, Active
  <1>4. AsStepA(r) /\ AsStepA(r)' /\ pc[r] \in AfterStepA
    BY <1>1, <1>3, RowKept DEF Known, AfterStepA, PastLookup
  <1>5. New(r)' = New(r) /\ old'[r] = old[r] /\ Label(r)' = Label(r)
    BY <1>1 DEF locals, New, Label
  <1>6. /\ Label(r) \in Labels /\ New(r) \in Devices \cup {None}
        /\ old[r] \in Devices \cup {None} /\ Op(r) \in Operations
        /\ Op(r) \in {"bind", "rebind"} <=> New(r) # None
        /\ Op(r) = "rebind" => old[r] # New(r)
        /\ Op(r) = "bind" => old[r] = None
        /\ shows \in [Devices -> Labels \cup {None}]
    BY <1>4, Arrived DEF Base, Flow, IInv, TypeOK
  <1>7. CASE New(r) # None
    <2>1. shows' = [shows EXCEPT ![New(r)] = Label(r)]
      BY <1>1, <1>7 DEF First, Token
    <2>2. shows[New(r)] \in {None, Label(r)}
      <3>1. ~Overwrites(r)
        BY DEF Recorded, Doubted
      <3> QED
        BY <1>6, <1>7, <2>1, <3>1 DEF Overwrites
    <2>3. ASSUME New(r) \in Devices \ Waived(X) PROVE Unheld(New(r))
      <3>1. Agree(New(r)) \/ Unheld(New(r))
        BY <1>3, <2>3 DEF Known, NewAsLeft
      <3>2. ~Holds(registry, Label(r), New(r))
        BY <1>4, <1>6, <1>7 DEF AsStepA, Holds
      <3> QED
        BY <2>2, <3>1, <3>2, NoneAssumption DEF Agree, Unheld
    <2>4. ASSUME New(r) \in Devices \ Waived(X) PROVE NewAsLeft(r)'
      <3>1. Unheld(New(r))' /\ shows'[New(r)] = Label(r)
        BY <1>1, <1>5, <1>6, <2>1, <2>3, <2>4 DEF Unheld, Holds
      <3> QED
        BY <1>2, <1>5, <3>1 DEF NewAsLeft
    <2>5. ASSUME old[r] \in Devices \ Waived(X) PROVE OldAsLeft(r)'
      <3>1. Op(r) = "rebind" /\ shows'[old[r]] = shows[old[r]]
        BY <1>6, <1>7, <2>1, <2>5, NoneAssumption
      <3>2. Agree(old[r])
        BY <1>3, <1>7, <2>5 DEF Known, OldAsLeft
      <3>3. shows'[old[r]] = Label(r)
        BY <1>4, <2>5, <3>1, <3>2, OldShows
      <3>4. Agree(old[r])'
        BY <1>1, <1>5, <3>1, <3>2 DEF Agree, Holds
      <3> QED
        BY <1>2, <1>5, <1>7, <3>1, <3>3, <3>4 DEF OldAsLeft
    <2> QED
      BY <1>1, <1>4, <2>4, <2>5, OwnStep
  <1>8. CASE New(r) = None
    <2>1. shows' = [shows EXCEPT ![old[r]] = None] /\ Op(r) # "rebind"
      BY <1>1, <1>6, <1>8 DEF First, Token
    <2>2. old[r] \in Devices => shows'[old[r]] = None
      BY <1>6, <2>1
    <2> QED
      BY <1>1, <1>2, <1>4, <1>5, <1>8, <2>1, <2>2, NoneAssumption, OwnStep DEF OldAsLeft
  <1> QED
    BY <1>7, <1>8

\* The PATCH that clears the old device of a rebind, and its failure.
LEMMA MineClearOld ==
  ASSUME NEW X, Base, DInv(X), Recorded, NEW r \in Requests, ~Doubted(r)', pc[r] = "clear_old",
         ClearOld(r) \/ ClearOldFails(r) \/ LandUnanswered(r)
  PROVE  Known(X, r)'
  <1>1. Moves(r) /\ UNCHANGED <<registry, locals>>
    BY DEF Moves, Handle, ClearOld, ClearOldFails, LandUnanswered, stores
  <1>2. Known(X, r)
    BY DoubtGrows, <1>1 DEF DInv, Active
  <1>3. AsStepA(r) /\ AsStepA(r)' /\ pc[r] \in AfterStepA
    BY <1>1, <1>2, RowKept DEF Known, AfterStepA, PastLookup
  <1>4. New(r)' = New(r) /\ old'[r] = old[r] /\ Label(r)' = Label(r)
    BY <1>1 DEF locals, New, Label
  <1>5. /\ New(r) \in Devices /\ old[r] \in Devices /\ old[r] # New(r) /\ Op(r) = "rebind"
        /\ shows \in [Devices -> Labels \cup {None}]
    BY <1>3, Arrived DEF Base, Flow, IInv, TypeOK
  <1>6. New(r) \in Devices \ Waived(X) => Unheld(New(r)) /\ shows[New(r)] = Label(r)
    BY <1>2 DEF Known, NewAsLeft
  <1>7. CASE ClearOld(r) \/ LandUnanswered(r)
    <2>1. shows' = [shows EXCEPT ![old[r]] = None] /\ pc'[r] \in {"clear_old", "commit"}
      BY <1>7 DEF ClearOld, LandUnanswered, WriteDevice, Goto, Base, IInv, TypeOK
    <2>2. shows'[old[r]] = None /\ shows'[New(r)] = shows[New(r)]
      BY <1>5, <2>1
    <2>3. New(r) \in Devices \ Waived(X) => NewAsLeft(r)'
      BY <1>1, <1>4, <1>6, <2>1, <2>2 DEF NewAsLeft, Unheld, Holds
    <2>4. OldAsLeft(r)'
      BY <1>4, <2>1, <2>2 DEF OldAsLeft
    <2> QED
      BY <1>1, <1>3, <2>3, <2>4, OwnStep
  <1>8. CASE ClearOldFails(r)
    <2>1. /\ pc'[r] = "compensate" /\ owes'[r] = {"clear"} /\ UNCHANGED shows
      BY <1>8 DEF ClearOldFails, Compensate, Goto, stores, Base, IInv, TypeOK
    <2>2. shows[old[r]] = Label(r)
      BY <2>1 DEF Recorded, Doubted, Misjudges
    <2>3. Agree(old[r])'
      <3>1. Agree(old[r])
        BY <1>3, <1>5, <2>2, OldShows
      <3> QED
        BY <1>1, <1>4, <2>1, <3>1 DEF Agree, Holds
    <2>4. New(r) \in Devices \ Waived(X) => NewAsLeft(r)'
      BY <1>1, <1>4, <1>6, <2>1 DEF NewAsLeft, Unheld, Holds
    <2>5. OldAsLeft(r)'
      BY <1>4, <2>1, <2>3 DEF OldAsLeft
    <2> QED
      BY <1>1, <1>3, <2>4, <2>5, OwnStep
  <1> QED
    BY <1>7, <1>8

\* The registry transaction: it moves the label to where the two PATCHes put
\* the token, ...
LEMMA MineCommit ==
  ASSUME NEW X, Base, DInv(X), Recorded, NEW r \in Requests, ~Doubted(r)', Commit(r)
  PROVE  Known(X, r)'
  <1> DEFINE q == Label(r)
             row == registry[q]
  <1>1. /\ pc[r] = "commit" /\ Moves(r) /\ UNCHANGED <<shows, locals>>
        /\ registry' = [registry EXCEPT ![q] = Moved(r)] /\ Current(r)
    BY DEF Commit, Moves, Handle
  <1>2. Known(X, r)
    BY DoubtGrows, <1>1 DEF DInv, Active
  <1>3. AsStepA(r) /\ pc[r] \in AfterStepA
    BY <1>1, <1>2 DEF Known, AfterStepA, PastLookup
  <1>4. New(r)' = New(r) /\ old'[r] = old[r] /\ Label(r)' = q
    BY <1>1 DEF locals, New, Label
  <1>5. /\ q \in Labels /\ row \in Row /\ Op(r) \in Operations \ {"restore"}
        /\ New(r) \in Devices \cup {None} /\ old[r] \in Devices \cup {None}
        /\ Op(r) \in {"bind", "rebind"} <=> New(r) # None
        /\ Op(r) = "rebind" => old[r] # New(r)
        /\ Op(r) = "bind" => old[r] = None
        /\ registry \in [Labels -> Row] /\ OnePerDevice(registry)
    BY <1>1, <1>3, Arrived DEF Base, Flow, Tables
  <1>6. /\ registry'[q] = Moved(r)
        /\ \A p \in Labels \ {q} : registry'[p] = registry[p]
    BY <1>1, <1>5
  <1>7. /\ New(r) # None => Moved(r).status = "bound" /\ Moved(r).device = New(r)
        /\ New(r) = None => Moved(r).status # "bound"
    BY <1>1, <1>5 DEF Moved, Bind, Rebind, Retire, Unbind, Row, Current, Operations
  <1>8. registry' # registry
    BY <1>1, <1>3, <1>5, <1>6, <1>7 DEF AsStepA
  <1>9. pc'[r] = "done"
    <2>1. pc'[r] # "compensate"
      BY <1>1, <1>8 DEF Recorded, Doubted, Misjudges
    <2> QED
      BY <2>1 DEF Commit, Return, Compensate, Goto, Base, IInv, TypeOK
  <1>10. AsStepA(r)'
    BY <1>9 DEF AsStepA, AfterStepA, PastLookup, Compensating
  <1>11. ASSUME New(r) \in Devices \ Waived(X) PROVE Agree(New(r))'
    <2>1. Unheld(New(r)) /\ shows[New(r)] = q
      BY <1>1, <1>2, <1>11 DEF Known, NewAsLeft
    <2>2. \A p \in Labels : Holds(registry', p, New(r)) <=> p = q
      BY <1>5, <1>6, <1>7, <1>11, <2>1, NoneAssumption DEF Unheld, Holds
    <2> QED
      BY <1>1, <1>4, <2>1, <2>2 DEF Agree
  <1>12. ASSUME old[r] \in Devices \ Waived(X) PROVE Agree(old[r])'
    <2>1. shows[old[r]] = None
      BY <1>1, <1>2, <1>12 DEF Known, OldAsLeft
    <2>2. Holds(registry, q, old[r])
      BY <1>3, <1>12, OldShows
    <2>3. \A p \in Labels : ~Holds(registry', p, old[r])
      BY <1>5, <1>6, <1>7, <1>12, <2>2, NoneAssumption DEF OnePerDevice, Holds
    <2> QED
      BY <1>1, <1>4, <2>1, <2>3, NoneAssumption DEF Agree
  <1> QED
    BY <1>1, <1>9, <1>10, <1>11, <1>12, OwnStep DEF NewAsLeft, OldAsLeft

\* ... or it fails with the table as it was.
LEMMA MineCommitFails ==
  ASSUME NEW X, Base, DInv(X), Recorded, NEW r \in Requests, ~Doubted(r)', CommitFails(r)
  PROVE  Known(X, r)'
  <1>1. /\ pc[r] = "commit" /\ Moves(r) /\ UNCHANGED <<stores, locals>>
        /\ pc'[r] = "compensate" /\ owes'[r] = Undo(r)
    BY UndoType DEF CommitFails, Compensate, Moves, Handle, Goto, Base, IInv, TypeOK
  <1>2. Known(X, r)
    BY DoubtGrows, <1>1 DEF DInv, Active
  <1>3. AsStepA(r) /\ AsStepA(r)' /\ pc[r] \in AfterStepA
    BY <1>1, <1>2, RowKept DEF Known, AfterStepA, PastLookup, stores
  <1>4. New(r)' = New(r) /\ old'[r] = old[r] /\ Label(r)' = Label(r)
    BY <1>1 DEF locals, New, Label
  <1>5. /\ New(r) # None => "clear" \in Undo(r)
        /\ old[r] # None => "restore" \in Undo(r)
    BY <1>1, <1>3, Arrived DEF Base, Flow, Undo
  <1>6. New(r) \in Devices \ Waived(X) => NewAsLeft(r)'
    BY <1>1, <1>2, <1>4, <1>5, NoneAssumption
       DEF Known, NewAsLeft, Unheld, Holds, stores
  <1>7. old[r] \in Devices \ Waived(X) => OldAsLeft(r)'
    BY <1>1, <1>2, <1>4, <1>5, NoneAssumption DEF Known, OldAsLeft, stores
  <1> QED
    BY <1>1, <1>3, <1>6, <1>7, OwnStep

\* A compensation that has nothing to do, or is about to write.
LEMMA MineCompensateReads ==
  ASSUME NEW X, Base, DInv(X), Recorded, NEW r \in Requests, ~Doubted(r)',
         CompensateNeeded(r) \/ CompensateNoop(r)
  PROVE  Known(X, r)'
  <1>1. pc[r] = "compensate" /\ Moves(r) /\ UNCHANGED <<stores, locals>>
    BY DEF CompensateNeeded, CompensateNoop, Moves, Handle
  <1>2. Known(X, r)
    BY DoubtGrows, <1>1 DEF DInv, Active
  <1>3. AsStepA(r) /\ AsStepA(r)' /\ pc[r] \in AfterStepA /\ pc[r] \in Compensating
    BY <1>1, <1>2, RowKept DEF Known, AfterStepA, Compensating, stores
  <1>4. New(r)' = New(r) /\ old'[r] = old[r] /\ Label(r)' = Label(r)
    BY <1>1 DEF locals, New, Label
  <1>5. /\ Agree(New(r)) => Agree(New(r))'
        /\ Unheld(New(r)) => Unheld(New(r))'
        /\ Agree(old[r]) => Agree(old[r])'
        /\ UNCHANGED shows
    BY <1>1, <1>4 DEF stores, Agree, Unheld, Holds
  <1>6. CASE CompensateNeeded(r)
    <2>1. pc'[r] = "compensate_patch" /\ owes'[r] = owes[r]
      BY <1>6 DEF CompensateNeeded, Goto, Base, IInv, TypeOK
    <2>2. New(r) \in Devices \ Waived(X) => NewAsLeft(r)'
      BY <1>1, <1>2, <1>4, <1>5, <2>1 DEF Known, NewAsLeft
    <2>3. old[r] \in Devices \ Waived(X) => OldAsLeft(r)'
      BY <1>1, <1>2, <1>3, <1>4, <1>5, <2>1, TaskOwed DEF Known, OldAsLeft
    <2> QED
      BY <1>1, <1>3, <2>2, <2>3, OwnStep
  <1>7. CASE CompensateNoop(r)
    <2>1. /\ owes'[r] = owes[r] \ {Task(r)} /\ ~Needed(r)
          /\ pc'[r] = IF owes[r] = {Task(r)} THEN "done" ELSE "compensate"
      BY <1>7 DEF CompensateNoop, Discharge, Goto, Base, IInv, TypeOK
    <2>2. pc'[r] \in {"done", "compensate"} /\ "clear" \notin owes'[r]
      BY <1>3, <2>1, TaskOwed
    <2>3. ASSUME New(r) \in Devices \ Waived(X) PROVE NewAsLeft(r)'
      <3>1. Task(r) # "clear"
        BY <1>1, <1>2, <1>3, <2>1, <2>3, TaskOwed DEF Known, NewAsLeft, Needed, Target
      <3>2. "clear" \notin owes[r]
        BY <3>1 DEF Task
      <3>3. Agree(New(r))'
        BY <1>1, <1>2, <1>5, <2>3, <3>2 DEF Known, NewAsLeft
      <3> QED
        BY <1>4, <2>2, <3>3 DEF NewAsLeft
    <2>4. ASSUME old[r] \in Devices \ Waived(X) PROVE OldAsLeft(r)'
      <3>1. Task(r) # "restore"
        BY <1>1, <1>2, <1>3, <2>1, <2>4, TaskOwed DEF Known, OldAsLeft, Needed, Target
      <3>2. Task(r) = "clear" /\ ("restore" \in owes'[r] <=> "restore" \in owes[r])
        BY <1>3, <2>1, <3>1, TaskOwed
      <3>3. "restore" \in owes[r] => pc'[r] = "compensate"
        BY <2>1, <3>2
      <3> QED
        BY <1>1, <1>2, <1>4, <1>5, <2>2, <2>4, <3>2, <3>3 DEF Known, OldAsLeft
    <2> QED
      BY <1>1, <1>3, <2>3, <2>4, OwnStep
  <1> QED
    BY <1>6, <1>7

\* The PATCH of a compensation, answered or not.
LEMMA MineCompensatePatch ==
  ASSUME NEW X, Base, DInv(X), Recorded, NEW r \in Requests, ~Doubted(r)', pc[r] = "compensate_patch",
         CompensatePatch(r) \/ LandUnanswered(r)
  PROVE  Known(X, r)'
  <1>1. /\ Moves(r) /\ UNCHANGED <<registry, locals>>
        /\ shows' = [shows EXCEPT ![Target(r)] = Undone(r)]
    BY DEF CompensatePatch, LandUnanswered, Moves, Handle, WriteDevice
  <1>2. \/ pc'[r] = "compensate_patch" /\ owes'[r] = owes[r]
        \/ /\ owes'[r] = owes[r] \ {Task(r)}
           /\ pc'[r] = IF owes[r] = {Task(r)} THEN "done" ELSE "compensate"
    BY DEF CompensatePatch, LandUnanswered, Discharge, Goto, Base, IInv, TypeOK
  <1>3. Known(X, r)
    BY DoubtGrows, <1>1 DEF DInv, Active
  <1>4. AsStepA(r) /\ AsStepA(r)' /\ pc[r] \in AfterStepA /\ pc[r] \in Compensating
    BY <1>1, <1>3, RowKept DEF Known, AfterStepA, Compensating
  <1>5. New(r)' = New(r) /\ old'[r] = old[r] /\ Label(r)' = Label(r)
    BY <1>1 DEF locals, New, Label
  <1>6. /\ New(r) \in Devices \cup {None} /\ old[r] \in Devices \cup {None}
        /\ Label(r) \in Labels
        /\ New(r) # None => old[r] # New(r)
        /\ shows \in [Devices -> Labels \cup {None}]
        /\ Target(r) \in Devices
    BY <1>4, Arrived, TaskOwed DEF Base, Flow, IInv, TypeOK
  <1>7. CASE Task(r) = "clear"
    <2>1. shows' = [shows EXCEPT ![New(r)] = None] /\ New(r) \in Devices /\ "clear" \in owes[r]
      BY <1>1, <1>4, <1>6, <1>7, TaskOwed DEF Target, Undone
    <2>2. New(r) \in Devices \ Waived(X) => Unheld(New(r))'
      BY <1>1, <1>3, <1>5, <2>1 DEF Known, NewAsLeft, Unheld, Holds
    <2>3. shows'[New(r)] = None
      BY <1>6, <2>1
    <2>4. Unheld(New(r))' => Agree(New(r))'
      BY <1>5, <2>3, NoneAssumption DEF Unheld, Agree
    <2>5. New(r) \in Devices \ Waived(X) => NewAsLeft(r)'
      BY <1>2, <1>5, <1>7, <2>2, <2>3, <2>4 DEF NewAsLeft
    <2>6. ASSUME old[r] \in Devices \ Waived(X) PROVE OldAsLeft(r)'
      <3>1. shows'[old[r]] = shows[old[r]]
        BY <1>6, <2>1, <2>6, NoneAssumption
      <3>2. Agree(old[r]) => Agree(old[r])'
        BY <1>1, <1>5, <3>1 DEF Agree, Holds
      <3>3. owes[r] = {"clear"} \/ owes[r] = {"clear", "restore"}
        BY <1>4, <1>7, TaskOwed
      <3>4. CASE owes[r] = {"clear"}
        <4>1. Agree(old[r])
          BY <1>3, <2>6, <3>4 DEF Known, OldAsLeft
        <4>2. \/ pc'[r] = "compensate_patch" /\ owes'[r] = {"clear"}
              \/ pc'[r] = "done"
          BY <1>2, <1>7, <3>4
        <4> QED
          BY <1>5, <3>2, <4>1, <4>2 DEF OldAsLeft
      <3>5. CASE owes[r] = {"clear", "restore"}
        <4>1. shows[old[r]] = None
          BY <1>3, <2>6, <3>5 DEF Known, OldAsLeft
        <4>2. \/ pc'[r] = "compensate_patch" /\ owes'[r] = {"clear", "restore"}
              \/ pc'[r] = "compensate" /\ owes'[r] = {"restore"}
          BY <1>2, <1>7, <3>5
        <4> QED
          BY <1>5, <3>1, <4>1, <4>2 DEF OldAsLeft
      <3> QED
        BY <3>3, <3>4, <3>5
    <2> QED
      BY <1>1, <1>4, <2>5, <2>6, OwnStep
  <1>8. CASE Task(r) # "clear"
    <2>1. Task(r) = "restore" /\ owes[r] = {"restore"}
      BY <1>4, <1>8, TaskOwed
    <2>2. shows' = [shows EXCEPT ![old[r]] = Label(r)] /\ old[r] \in Devices
      BY <1>1, <1>6, <1>8 DEF Target, Undone
    <2>3. \/ pc'[r] = "compensate_patch" /\ owes'[r] = {"restore"}
          \/ pc'[r] = "done"
      BY <1>2, <2>1
    <2>4. shows'[old[r]] = Label(r)
      BY <1>6, <2>2
    <2>5. Agree(old[r])'
      <3>1. \A p \in Labels : Holds(registry, p, old[r]) <=> p = Label(r)
        BY <1>4, <2>2, OldShows DEF Base, Tables, OnePerDevice
      <3> QED
        BY <1>1, <1>5, <2>4, <3>1 DEF Agree, Holds
    <2>6. OldAsLeft(r)'
      BY <1>5, <2>3, <2>4, <2>5 DEF OldAsLeft
    <2>7. ASSUME New(r) \in Devices \ Waived(X) PROVE NewAsLeft(r)'
      <3>1. shows'[New(r)] = shows[New(r)]
        BY <1>6, <2>2, <2>7, NoneAssumption
      <3>2. Agree(New(r))
        BY <1>3, <2>1, <2>7 DEF Known, NewAsLeft
      <3>3. Agree(New(r))'
        BY <1>1, <1>5, <3>1, <3>2 DEF Agree, Holds
      <3> QED
        BY <1>5, <2>3, <3>3 DEF NewAsLeft
    <2> QED
      BY <1>1, <1>4, <2>6, <2>7, OwnStep
  <1> QED
    BY <1>7, <1>8

-----------------------------------------------------------------------------
(***************************************************************************)
(* DInv is inductive.                                                      *)
(***************************************************************************)
LEMMA OwnKnowledge ==
  ASSUME NEW X, Base, DInv(X), Recorded, NEW r \in Requests, Moves(r), ~Doubted(r)'
  PROVE  Known(X, r)'
  <1>1. ~Crash(r) /\ ~ReadDeviceFails(r) /\ ~PatchFails(r) /\ ~CompensateFails(r)
    <2>1. result'[r] \notin Alarms
      BY DEF Doubted
    <2> QED
      BY <2>1 DEF Crash, ReadDeviceFails, PatchFails, CompensateFails, Return, Discharge,
                  Alarms, Base, IInv, TypeOK
  <1>2. Patch(r) => pc[r] = "patch"
    BY DEF Patch
  <1>3. ClearOld(r) \/ ClearOldFails(r) => pc[r] = "clear_old"
    BY DEF ClearOld, ClearOldFails
  <1>4. CompensatePatch(r) => pc[r] = "compensate_patch"
    BY DEF CompensatePatch
  <1>5. LandUnanswered(r) => pc[r] \in {"patch", "clear_old", "compensate_patch"}
    BY DEF LandUnanswered
  <1> QED
    BY <1>1, <1>2, <1>3, <1>4, <1>5, MineSend, MineLookup, MineReads, MineReadDevice,
       MinePatch, MineClearOld, MineCommit, MineCommitFails, MineCompensateReads,
       MineCompensatePatch
       DEF Moves, Handle

\* A device that no request holds and that is not waived was left so by the
\* last request that had it in its hands.
LEMMA RestAgrees ==
  ASSUME NEW X, Base, DInv(X), Recorded, NEW r \in Requests, Moves(r),
         NEW d \in Devices, d \notin Waived(X)', d \notin Held'
  PROVE  Agree(d)'
  <1>1. d # None /\ d \notin Waived(X) /\ Traced(X, r)
    BY DoubtGrows, NoneAssumption DEF DInv
  <1>2. CASE d \in Hands(r)'
    <2>1. ~Active(r)'
      BY <1>2 DEF Held
    <2>2. ~Doubted(r)'
      <3>1. d \in Touches(r)'
        BY <1>1, <1>2 DEF Touches, Hands
      <3> QED
        BY <3>1 DEF Waived, Tainted, Doubted
    <2>3. Known(X, r)'
      BY <2>2, OwnKnowledge
    <2>4. pc'[r] \in {"idle", "done"}
      BY <2>1 DEF Active
    <2>5. /\ New(r)' \in Devices \ Waived(X)' => Agree(New(r))'
          /\ old'[r] \in Devices \ Waived(X)' => Agree(old[r])'
      BY <2>3, <2>4 DEF Known, NewAsLeft, OldAsLeft
    <2> QED
      BY <1>2, <2>5 DEF Hands, Agree
  <1>3. CASE d \notin Hands(r)'
    <2>1. d \notin Hands(r)
      BY <1>1, <1>3, LocalsOf DEF Hands, locals, New, NoCall
    <2>2. d \notin Held
      <3> SUFFICES ASSUME NEW s \in Requests, Active(s), d \in Hands(s) PROVE FALSE
        BY DEF Held
      <3>1. s # r
        BY <2>1
      <3>2. Active(s)' /\ d \in Hands(s)'
        BY <3>1, OthersKeep DEF Base, Active, Hands, New
      <3> QED
        BY <3>2 DEF Held
    <2>3. Agree(d)
      BY <1>1, <2>2 DEF DInv
    <2> QED
      BY <1>1, <2>1, <2>3, OutOfReach
  <1> QED
    BY <1>2, <1>3

LEMMA MovesDInv ==
  ASSUME NEW X, Base, DInv(X), Recorded, NEW r \in Requests, Moves(r)
  PROVE  DInv(X)'
  <1>1. \A s \in Requests : Flow(s)'
    BY FlowKept
  <1>2. (Overlapping \subseteq suspects)'
    BY DEF Recorded
  <1>3. ASSUME NEW s \in Requests, Active(s)', ~Doubted(s)'
        PROVE  Known(X, s)'
    <2>1. CASE s = r
      BY <1>3, <2>1, OwnKnowledge
    <2>2. CASE s # r
      <3>1. Active(s) /\ ~Doubted(s)
        BY <1>3, <2>2, OthersKeep, DoubtGrows DEF Base, Active
      <3> QED
        BY <2>2, <3>1, KnownKept DEF DInv
    <2> QED
      BY <2>1, <2>2
  <1>4. \A s \in Requests : Traced(X, s)'
    BY TracedKept DEF DInv
  <1>5. \A d \in Devices : d \notin (Waived(X) \cup Held)' => Agree(d)'
    BY RestAgrees
  <1> QED
    BY <1>1, <1>2, <1>3, <1>4, <1>5 DEF DInv

\* Steps of nobody: an edit elsewhere in NetBox, or none at all.
LEMMA StillDInv ==
  ASSUME NEW X, DInv(X), UNCHANGED <<registry, shows, pc, call, old, owes, result>>,
         Recorded \/ UNCHANGED suspects
  PROVE  DInv(X)'
  <1> USE DEF Op, Label, New, Hands
  <1>1. suspects \subseteq suspects' /\ (Overlapping \subseteq suspects)'
    BY DEF Recorded, DInv, Overlapping, Footprint, Active, Touches
  <1>2. /\ Waived(X) \subseteq Waived(X)'
        /\ \A s \in Requests : Doubted(s) => Doubted(s)'
    BY <1>1 DEF Waived, Tainted, Doubted, Touches
  <1>3. /\ \A s \in Requests : Flow(s)' <=> Flow(s)
        /\ \A s \in Requests : Active(s)' <=> Active(s)
        /\ \A d \in Devices : d \in Held' <=> d \in Held
    BY DEF Flow, Active, Held
  <1>4. \A d : Agree(d)' <=> Agree(d)
    BY DEF Agree, Holds
  <1>5. ASSUME NEW s \in Requests, Known(X, s) PROVE Known(X, s)'
    <2>1. AsStepA(s)' <=> AsStepA(s)
      BY DEF AsStepA
    <2>2. NewAsLeft(s) => NewAsLeft(s)'
      BY DEF NewAsLeft, Agree, Unheld, Holds
    <2>3. OldAsLeft(s) => OldAsLeft(s)'
      BY DEF OldAsLeft, Agree, Holds
    <2> QED
      BY <1>2, <1>5, <2>1, <2>2, <2>3 DEF Known
  <1>6. ASSUME NEW s \in Requests, Traced(X, s) PROVE Traced(X, s)'
    BY <1>2, <1>6 DEF Traced
  <1> QED
    BY <1>1, <1>2, <1>3, <1>4, <1>5, <1>6 DEF DInv

LEMMA InitDInv ==
  ASSUME NEW X, HInit
  PROVE  DInv(X)
  <1>1. \A r \in Requests : /\ pc[r] = "idle" /\ call[r] = NoCall
                            /\ old[r] = None /\ result[r] = None
    BY DEF HInit, Init
  <1>2. \A r \in Requests : Flow(r) /\ Traced(X, r) /\ ~Active(r)
    BY <1>1 DEF Flow, Traced, Active, AfterStepA, PastLookup, Compensating
  <1>3. Overlapping = {}
    BY <1>2 DEF Overlapping, Footprint
  <1>4. \A d \in Devices : Agree(d)
    BY DEF HInit, Init, Agree
  <1> QED
    BY <1>2, <1>3, <1>4 DEF DInv

LEMMA NextDInv ==
  ASSUME NEW X, IInv, registry \in Tables, DInv(X), [HNext]_hvars
  PROVE  DInv(X)'
  <1>1. Base
    BY DEF Base, DInv
  <1>2. CASE UNCHANGED hvars
    BY <1>2, StillDInv DEF hvars, vars
  <1>3. CASE HNext
    <2>1. ASSUME NEW r \in Requests, Moves(r) PROVE DInv(X)'
      BY <1>1, <1>3, <2>1, Noted, MovesDInv
    <2>2. ASSUME NEW d \in Devices, EditElsewhere(d) PROVE DInv(X)'
      BY <1>3, <2>2, Noted, StillDInv DEF EditElsewhere, stores, locals
    <2>3. CASE UNCHANGED vars
      BY <1>3, <2>3, Noted, StillDInv DEF vars
    <2> QED
      BY <1>3, <2>1, <2>2, <2>3 DEF HNext, Next, Moves
  <1> QED
    BY <1>2, <1>3

-----------------------------------------------------------------------------
\* The history variables do not restrict the sagas, so what holds of them
\* holds here.
LEMMA Underlying == HSpec => Spec /\ [](IInv /\ registry \in Tables)
  <1>1. HInit => Init
    BY DEF HInit
  <1>2. [HNext]_hvars => [Next]_vars
    BY DEF HNext, hvars
  <1>3. ConstraintsHold <=> registry \in Tables
    BY SameRows DEF ConstraintsHold, Registry!ConstraintsHold
  <1> QED
    BY <1>1, <1>2, <1>3, IInvInvariant, ConstraintsAlwaysHold, PTL DEF HSpec, Spec

LEMMA DInvInvariant == HSpec => []DInv({})
  <1>1. IInv /\ registry \in Tables /\ DInv({}) /\ [HNext]_hvars => DInv({})'
    BY NextDInv
  <1>2. HInit => DInv({})
    BY InitDInv
  <1> QED
    BY <1>1, <1>2, Underlying, PTL DEF HSpec

(***************************************************************************)
(* The registry and NetBox agree about every device that no running        *)
(* request and no doubted one touches.                                     *)
(***************************************************************************)
THEOREM DivergenceAlwaysAttributable == HSpec => []DivergenceIsAttributable
  <1>1. DInv({}) => DivergenceIsAttributable
    <2> SUFFICES ASSUME DInv({}), NEW d \in Devices \ (Tainted \cup Busy) PROVE Agree(d)
      BY DEF DivergenceIsAttributable
    <2>1. d \notin Held
      BY NoneAssumption DEF Held, Busy, Footprint, Touches, Hands
    <2> QED
      BY <2>1 DEF DInv, Waived
  <1> QED
    BY <1>1, DInvInvariant, PTL

-----------------------------------------------------------------------------
(***************************************************************************)
(* What a request has seen of the device it will PATCH stays true: a write *)
(* to that device moves its version, and after the comparison only a       *)
(* request with the same device writes to it.                              *)
(***************************************************************************)
LEMMA SawOf ==
  ASSUME HNext, NEW s \in Requests
  PROVE  saw'[s] = IF pc[s] = "idle" /\ seen'[s] \in Devices THEN shows[seen'[s]] ELSE saw[s]
  BY DEF HNext

\* A version that is still current is that of a device nobody wrote to.
LEMMA SeenOf ==
  ASSUME Base, NEW r \in Requests, Moves(r), NEW s \in Requests \ {r},
         seen'[s] \in Devices
  PROVE  seen'[s] = seen[s] /\ shows'[seen[s]] = shows[seen[s]]
  <1>1. Stale \notin Devices /\ seen \in [Requests -> Devices \cup {None, Stale}]
        /\ shows \in [Devices -> Labels \cup {None}]
    BY ConstantsAssumption DEF Base, IInv, TypeOK
  <1>2. \/ UNCHANGED shows /\ seen'[s] = seen[s]
        \/ \E d, v : /\ shows' = [shows EXCEPT ![d] = v]
                     /\ seen'[s] = IF seen[s] = d THEN Stale ELSE seen[s]
    <2>1. CASE Send(r)
      BY <2>1, <1>1 DEF Send, stores
    <2>2. CASE Patch(r)
      BY <2>2 DEF Patch, Outdated
    <2>3. CASE ClearOld(r) \/ CompensatePatch(r) \/ LandUnanswered(r)
      BY <2>3 DEF ClearOld, CompensatePatch, LandUnanswered, WriteDevice, Outdated
    <2>4. CASE ~(Send(r) \/ Patch(r) \/ ClearOld(r) \/ CompensatePatch(r) \/ LandUnanswered(r))
      BY <2>4 DEF Moves, Handle, Crash, LookupRefused, LookupPasses, LookupFails,
                  RegistryOnly, RegistryOnlyRefused, ReadDevice, ReadDeviceTaken,
                  ReadDeviceConflict, ReadDeviceFails, PatchFails, ClearOldFails, Commit,
                  CommitFails, CompensateNeeded, CompensateNoop, CompensateFails, stores
    <2> QED
      BY <2>1, <2>2, <2>3, <2>4
  <1> QED
    BY <1>1, <1>2

LEMMA FirstDevice ==
  ASSUME Base, NEW r \in Requests, pc[r] \in {"read_device", "patch"}
  PROVE  First(r) \in Devices /\ First(r) \in Hands(r)
  <1>1. New(r) \in Devices \cup {None} /\ old[r] \in Devices \cup {None}
        /\ (Op(r) \in {"bind", "rebind"} <=> New(r) # None)
        /\ (Op(r) # "bind" => old[r] # None)
    BY Arrived DEF Base, Flow, AfterStepA, PastLookup
  <1> QED
    BY <1>1 DEF First, Hands

LEMMA MovesSightings ==
  ASSUME Base, DInv({}), HNext, Sightings, NEW r \in Requests, Moves(r), NEW s \in Requests
  PROVE  Sighting(s)'
  <1>1. CASE s # r
    <2>1. /\ pc'[s] = pc[s] /\ First(s)' = First(s) /\ Token(s)' = Token(s)
      BY <1>1, OthersKeep DEF Base, First, Token, New, Label
    <2>2. pc[s] # "idle" => saw'[s] = saw[s]
      BY SawOf
    <2>3. ASSUME pc[s] \in {"lookup", "read_device"}, seen'[s] \in Devices
          PROVE  shows'[seen'[s]] = saw'[s]
      BY <1>1, <2>2, <2>3, SeenOf DEF Sightings, Sighting
    <2>4. ASSUME pc[s] = "patch", s \notin suspects'
          PROVE  shows'[First(s)] \in {saw'[s], Token(s)}
      <3>1. s \notin suspects /\ Active(s)
        BY <2>4, Noted DEF Active, Recorded
      <3>2. shows'[First(s)] = shows[First(s)]
        <4>1. CASE ~Active(r)
          BY <4>1, IdleStores DEF stores
        <4>2. CASE Active(r)
          <5>1. First(s) \in Devices /\ First(s) \in Touches(s)
            BY <2>4, FirstDevice, Touching, NoneAssumption
          <5>2. First(s) \notin Hands(r)
            BY <1>1, <3>1, <4>2, <5>1, Apart, Touching, NoneAssumption DEF DInv
          <5> QED
            BY <5>1, <5>2, ShowsReach
        <4> QED
          BY <4>1, <4>2
      <3> QED
        BY <2>2, <2>4, <3>1, <3>2 DEF Sightings, Sighting
    <2> QED
      BY <2>1, <2>3, <2>4 DEF Sighting
  <1>2. CASE s = r
    <2>1. CASE Send(r)
      <3>1. pc[r] = "idle" /\ pc'[r] # "patch" /\ UNCHANGED shows
        BY <2>1 DEF Send, Goto, stores, Base, IInv, TypeOK
      <3> QED
        BY <1>2, <3>1, SawOf DEF Sighting
    <2>2. CASE LookupPasses(r)
      <3>1. pc[r] = "lookup" /\ pc'[r] # "patch" /\ UNCHANGED <<shows, seen>>
        BY <2>2, FlowLookup DEF LookupPasses, stores
      <3> QED
        BY <1>2, <3>1, SawOf DEF Sightings, Sighting
    <2>3. CASE ReadDevice(r)
      <3>1. /\ pc[r] = "read_device" /\ pc'[r] = "patch" /\ seen[r] = First(r)
            /\ UNCHANGED <<shows, call, old>>
        BY <2>3 DEF ReadDevice, Goto, stores, locals, Base, IInv, TypeOK
      <3>2. shows[First(r)] = saw[r] /\ saw'[r] = saw[r]
        BY <3>1, FirstDevice, SawOf DEF Sightings, Sighting
      <3> QED
        BY <1>2, <3>1, <3>2 DEF Sighting, First, New
    <2>4. CASE LandUnanswered(r)
      <3>1. pc'[r] = pc[r] /\ pc[r] \notin {"lookup", "read_device"} /\ UNCHANGED <<call, old>>
        BY <2>4 DEF LandUnanswered, locals
      <3>2. ASSUME pc[r] = "patch" PROVE shows'[First(r)] = Token(r)
        BY <2>4, <3>2, FirstDevice DEF LandUnanswered, WriteDevice, Base, IInv, TypeOK
      <3> QED
        BY <1>2, <3>1, <3>2 DEF Sighting, First, Token, New, Label
    <2>5. CASE ~(Send(r) \/ LookupPasses(r) \/ ReadDevice(r) \/ LandUnanswered(r))
      <3>1. pc'[r] \notin {"lookup", "read_device", "patch"}
        BY <2>5 DEF Moves, Handle, Crash, LookupRefused, LookupFails, RegistryOnly,
                    RegistryOnlyRefused, ReadDeviceTaken, ReadDeviceConflict,
                    ReadDeviceFails, Patch, PatchFails, ClearOld, ClearOldFails, Commit,
                    CommitFails, CompensateNeeded, CompensateNoop, CompensatePatch,
                    CompensateFails, Return, Compensate, Discharge, Goto, Base, IInv, TypeOK
      <3> QED
        BY <1>2, <3>1 DEF Sighting
    <2> QED
      BY <2>1, <2>2, <2>3, <2>4, <2>5
  <1> QED
    BY <1>1, <1>2

LEMMA NextSightings ==
  ASSUME IInv, registry \in Tables, DInv({}), Sightings, [HNext]_hvars
  PROVE  Sightings'
  <1>1. Base
    BY DEF Base, DInv
  <1>2. CASE UNCHANGED hvars
    BY <1>2 DEF hvars, vars, Sightings, Sighting, First, Token, New, Label
  <1>3. CASE HNext
    <2>1. ASSUME NEW r \in Requests, Moves(r) PROVE Sightings'
      BY <1>1, <1>3, <2>1, MovesSightings DEF Sightings
    <2>2. ASSUME UNCHANGED <<stores, pc, locals>>,
                 \A s \in Requests : seen'[s] \in Devices => seen'[s] = seen[s]
          PROVE  Sightings'
      <3> SUFFICES ASSUME NEW s \in Requests PROVE Sighting(s)'
        BY DEF Sightings
      <3>1. First(s)' = First(s) /\ Token(s)' = Token(s)
        BY <2>2 DEF locals, First, Token, New, Label
      <3>2. pc[s] # "idle" => saw'[s] = saw[s]
        BY <1>3, SawOf
      <3> QED
        BY <1>3, <2>2, <3>1, <3>2, Noted DEF Sightings, Sighting, stores, Recorded
    <2>3. ASSUME NEW d \in Devices, EditElsewhere(d) PROVE Sightings'
      <3>1. \A s \in Requests : seen'[s] \in Devices => seen'[s] = seen[s]
        BY <2>3, ConstantsAssumption DEF EditElsewhere, Outdated
      <3> QED
        BY <2>2, <2>3, <3>1 DEF EditElsewhere
    <2>4. CASE UNCHANGED vars
      BY <2>2, <2>4 DEF vars, stores, locals
    <2> QED
      BY <1>3, <2>1, <2>3, <2>4 DEF HNext, Next, Moves
  <1> QED
    BY <1>2, <1>3

(***************************************************************************)
(* A request about to PATCH a device finds there the qr_id its client saw, *)
(* or the token its own unanswered attempt left, unless it is a suspect.   *)
(***************************************************************************)
THEOREM AlwaysPatchesWhatItSaw == HSpec => []PatchesWhatItSaw
  <1>1. HInit => Sightings
    BY DEF HInit, Init, Sightings, Sighting
  <1>2. /\ IInv /\ registry \in Tables /\ DInv({}) /\ Sightings /\ [HNext]_hvars => Sightings'
    BY NextSightings
  <1>3. Sightings => PatchesWhatItSaw
    BY DEF Sightings, Sighting, PatchesWhatItSaw
  <1> QED
    BY <1>1, <1>2, <1>3, Underlying, DInvInvariant, PTL DEF HSpec
=============================================================================
