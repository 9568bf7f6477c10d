------------------------- MODULE QRLifecycleProofs -------------------------
(***************************************************************************)
(* Theorems about QRLifecycle and QREndpoints, for any sets of labels,     *)
(* devices and requests and any choice of operations and faults: the types *)
(* of the sagas, the table as an implementation of QRRegistry, and what    *)
(* the answers mean.  An acknowledged bind is the only one of its label    *)
(* and of its device while clients only bind, and the audit rows of a      *)
(* request tell whether it moved its label while they are kept.            *)
(***************************************************************************)
EXTENDS QREndpoints, TLAPS

\* Where a request is once Step A has read its label's row.
PastLookup == {"read_device", "patch", "clear_old", "commit"}

(***************************************************************************)
(* What the types leave out: a request that has arrived carries a call,    *)
(* and a rebind that has passed Step A moves the label to another device.  *)
(***************************************************************************)
CallInv ==
  \A r \in Requests :
    /\ pc[r] # "idle" => call[r] \in Calls
    /\ pc[r] \in PastLookup /\ Op(r) = "rebind" => old[r] # New(r)

IInv == TypeOK /\ CallInv

LEMMA CallFields ==
  ASSUME NEW c \in Calls
  PROVE  /\ c.op \in Operations
         /\ c.label \in Labels
         /\ c.new \in Devices \cup {None}
         /\ c.op \in {"bind", "rebind"} => c.new \in Devices
         /\ c.op \notin {"bind", "rebind"} => c.new = None
  BY DEF Calls, Operations

LEMMA RowTransitions ==
  ASSUME NEW row \in Row, NEW d \in Devices
  PROVE  /\ Bind(row, d) \in Row
         /\ Rebind(row, d) \in Row
         /\ Retire(row) \in Row
         /\ Unbind(row) \in Row
         /\ Restore(row) \in Row
  BY DEF Row, Bind, Rebind, Retire, Unbind, Restore

-----------------------------------------------------------------------------
LEMMA InitIInv == Init => IInv
  <1> SUFFICES ASSUME Init PROVE IInv
    OBVIOUS
  <1>1. TypeOK
    BY DEF Init, TypeOK, Tables, Points
  <1> QED
    BY <1>1 DEF IInv, CallInv, Init, PastLookup

\* The parts most actions are made of keep the types of what they assign.
LEMMA GotoType ==
  ASSUME TypeOK, NEW r \in Requests, NEW p \in Points, Goto(r, p)
  PROVE  pc' \in [Requests -> Points] /\ pc'[r] = p
  BY DEF TypeOK, Goto

LEMMA ReturnType ==
  ASSUME TypeOK, NEW r \in Requests, NEW res \in Results, Return(r, res)
  PROVE  /\ pc' \in [Requests -> Points] /\ pc'[r] = "done"
         /\ result' \in [Requests -> Results \cup {None}]
  BY DEF TypeOK, Return, Goto, Points

LEMMA WriteType ==
  ASSUME TypeOK, NEW d, NEW v \in Labels \cup {None}, WriteDevice(d, v)
  PROVE  /\ shows' \in [Devices -> Labels \cup {None}]
         /\ seen' \in [Requests -> Devices \cup {None, Stale}]
  BY DEF TypeOK, WriteDevice, Outdated

LEMMA RecordType ==
  ASSUME TypeOK, NEW r \in Requests,
         NEW row \in {"success", "failure", "conflict"},
         Record(r, row) \/ TryRecord(r, row) \/ UNCHANGED trail
  PROVE  trail' \in [Requests -> SUBSET {"success", "failure", "conflict"}]
  BY DEF TypeOK, Record, TryRecord

LEMMA CompensateType ==
  ASSUME TypeOK, NEW r \in Requests,
         NEW tasks \in SUBSET {"clear", "restore"}, NEW res \in Results,
         Compensate(r, tasks, res)
  PROVE  /\ pc' \in [Requests -> Points] /\ pc'[r] = "compensate"
         /\ owes' \in [Requests -> SUBSET {"clear", "restore"}]
         /\ result' \in [Requests -> Results \cup {None}]
  BY DEF TypeOK, Compensate, Goto, Points

LEMMA DischargeType ==
  ASSUME TypeOK, NEW r \in Requests, NEW res \in Results \cup {None},
         Discharge(r, res)
  PROVE  /\ pc' \in [Requests -> Points] /\ pc'[r] \in {"done", "compensate"}
         /\ owes' \in [Requests -> SUBSET {"clear", "restore"}]
         /\ result' \in [Requests -> Results \cup {None}]
         /\ trail' \in [Requests -> SUBSET {"success", "failure", "conflict"}]
  BY RecordType DEF TypeOK, Discharge, Goto, Points

\* An action of a request that has arrived, and that neither sends it nor is
\* its Step A, keeps CallInv.
LEMMA CallInvKept ==
  ASSUME CallInv, NEW r \in Requests,
         pc[r] # "idle",
         UNCHANGED locals,
         \A s \in Requests \ {r} : pc'[s] = pc[s],
         pc'[r] \in PastLookup => pc[r] \in PastLookup
  PROVE  CallInv'
  BY DEF CallInv, locals, Op, New

LEMMA SendIInv == ASSUME IInv, NEW r \in Requests, Send(r) PROVE IInv'
  <1> USE DEF IInv
  <1>1. PICK c \in Calls : \E v \in Versions(c) :
          /\ call' = [call EXCEPT ![r] = c]
          /\ seen' = [seen EXCEPT ![r] = v]
          /\ Goto(r, IF c.op = "restore" THEN "restore" ELSE "lookup")
    BY DEF Send
  <1>2. PICK v \in Versions(c) :
          /\ call' = [call EXCEPT ![r] = c]
          /\ seen' = [seen EXCEPT ![r] = v]
          /\ Goto(r, IF c.op = "restore" THEN "restore" ELSE "lookup")
    BY <1>1
  <1>3. v \in Devices \cup {None}
    BY CallFields DEF Versions
  <1>4. pc' \in [Requests -> Points] /\ pc'[r] \in {"restore", "lookup"}
    BY <1>2, GotoType DEF Points
  <1>5. TypeOK'
    BY <1>2, <1>3, <1>4 DEF TypeOK, Send, stores
  <1>6. CallInv'
    BY <1>2, <1>4 DEF CallInv, TypeOK, Send, Goto, PastLookup, Op, New
  <1> QED
    BY <1>5, <1>6

LEMMA LookupIInv ==
  ASSUME IInv, NEW r \in Requests,
         LookupRefused(r) \/ LookupPasses(r) \/ LookupFails(r)
  PROVE  IInv'
  <1> USE DEF IInv
  <1>1. pc[r] = "lookup" /\ call[r] \in Calls /\ Label(r) \in Labels
    BY CallFields DEF LookupRefused, LookupPasses, LookupFails, CallInv, Label
  <1>2. ASSUME NEW res \in Results, Return(r, res),
               UNCHANGED <<stores, locals, seen, owes, trail>>
        PROVE  IInv'
    <2>1. TypeOK'
      BY <1>2, ReturnType DEF TypeOK, stores, locals
    <2>2. CallInv'
      BY <1>1, <1>2, CallInvKept DEF TypeOK, Return, Goto, PastLookup
    <2> QED
      BY <2>1, <2>2
  <1>3. CASE LookupRefused(r)
    <2>1. Refusal(r) \in Results
      BY <1>3 DEF LookupRefused, Refusal, BindRefusal, RetireRefusal,
                  RebindRefusal, UnbindRefusal, Results, Refusals
    <2> QED
      BY <1>2, <1>3, <2>1 DEF LookupRefused
  <1>4. CASE LookupPasses(r)
    <2> DEFINE p == IF Op(r) = "retire" /\ registry[Label(r)].status = "free"
                    THEN "retire_free" ELSE "read_device"
    <2>1. registry[Label(r)] \in Row
      BY <1>1 DEF TypeOK
    <2>2. p \in Points /\ Goto(r, p)
      BY <1>4 DEF LookupPasses, Points
    <2>3. TypeOK'
      BY <1>4, <2>1, <2>2, GotoType DEF LookupPasses, TypeOK, stores, Row
    <2>4. CallInv'
      <3>1. ASSUME Op(r) = "rebind" PROVE registry[Label(r)].device # New(r)
        BY <1>4, <3>1, ConstantsAssumption
           DEF LookupPasses, Refusal, RebindRefusal, Results, Refusals
      <3> QED
        BY <1>1, <1>4, <2>2, <3>1
           DEF LookupPasses, CallInv, TypeOK, Goto, PastLookup, Op, New
    <2> QED
      BY <2>3, <2>4
  <1>5. CASE LookupFails(r)
    BY <1>2, <1>5 DEF LookupFails, Results
  <1> QED
    BY <1>3, <1>4, <1>5

\* An action that ends request r with answer res and at most one audit row.
LEMMA ReturnIInv ==
  ASSUME IInv, NEW r \in Requests, pc[r] # "idle",
         NEW res \in Results, Return(r, res),
         NEW row \in {"success", "failure", "conflict"},
         Record(r, row) \/ TryRecord(r, row) \/ UNCHANGED trail,
         UNCHANGED <<stores, locals, seen, owes>>
  PROVE  IInv'
  <1> USE DEF IInv
  <1>1. TypeOK'
    BY ReturnType, RecordType DEF TypeOK, stores, locals
  <1>2. CallInv'
    BY CallInvKept DEF TypeOK, Return, Goto, PastLookup
  <1> QED
    BY <1>1, <1>2

LEMMA RegistryOnlyIInv ==
  ASSUME IInv, NEW r \in Requests, RegistryOnly(r) \/ RegistryOnlyRefused(r)
  PROVE  IInv'
  <1> USE DEF IInv
  <1>1. /\ pc[r] \in {"retire_free", "restore"}
        /\ Label(r) \in Labels
        /\ registry[Label(r)] \in Row
    BY CallFields DEF RegistryOnly, RegistryOnlyRefused, CallInv, Label, TypeOK
  <1>2. CASE RegistryOnly(r)
    <2>1. MovedAlone(r) \in Row
      BY <1>1 DEF MovedAlone, Row, Retire, Restore
    <2>2. registry' \in [Labels -> Row]
      BY <1>2, <2>1 DEF RegistryOnly, TypeOK
    <2>3. PICK res \in {"ok", "db_error"} : Return(r, res)
      BY <1>2 DEF RegistryOnly
    <2>4. res \in Results
      BY DEF Results
    <2>5. TypeOK'
      BY <1>2, <2>2, <2>3, <2>4, ReturnType, RecordType
         DEF RegistryOnly, TypeOK, locals
    <2>6. CallInv'
      BY <1>1, <1>2, <2>3, CallInvKept
         DEF RegistryOnly, TypeOK, Return, Goto, PastLookup
    <2> QED
      BY <2>5, <2>6
  <1>3. CASE RegistryOnlyRefused(r)
    <2>1. PICK res \in {"not_found", "state_conflict", "db_error"} : Return(r, res)
      BY <1>3 DEF RegistryOnlyRefused
    <2>2. res \in Results
      BY DEF Results, Refusals
    <2> QED
      BY <1>1, <1>3, <2>1, <2>2, ReturnIInv DEF RegistryOnlyRefused
  <1> QED
    BY <1>2, <1>3

LEMMA ReadDeviceIInv ==
  ASSUME IInv, NEW r \in Requests,
         \/ ReadDevice(r) \/ ReadDeviceTaken(r)
         \/ ReadDeviceConflict(r) \/ ReadDeviceFails(r)
  PROVE  IInv'
  <1>1. CASE ReadDevice(r)
    <2>1. pc[r] = "read_device" /\ Goto(r, "patch")
      BY <1>1 DEF ReadDevice
    <2>2. TypeOK'
      BY <1>1, <2>1, GotoType DEF IInv, ReadDevice, TypeOK, stores, locals, Points
    <2>3. CallInv'
      BY <1>1, <2>1, CallInvKept DEF IInv, ReadDevice, TypeOK, Goto, PastLookup
    <2> QED
      BY <2>2, <2>3 DEF IInv
  <1>2. CASE ReadDeviceTaken(r)
    BY <1>2, ReturnIInv DEF ReadDeviceTaken, Results, Refusals
  <1>3. CASE ReadDeviceConflict(r)
    BY <1>3, ReturnIInv DEF ReadDeviceConflict, TryRecordIf, Results, Refusals
  <1>4. CASE ReadDeviceFails(r)
    BY <1>4, ReturnIInv DEF ReadDeviceFails, TryRecordIf, Results
  <1> QED
    BY <1>1, <1>2, <1>3, <1>4

LEMMA PatchIInv ==
  ASSUME IInv, NEW r \in Requests, Patch(r) \/ PatchFails(r)
  PROVE  IInv'
  <1>1. CASE Patch(r)
    <2> DEFINE p == IF Op(r) = "rebind" THEN "clear_old" ELSE "commit"
    <2>1. pc[r] = "patch" /\ Goto(r, p) /\ p \in Points /\ p \in PastLookup
      BY <1>1 DEF Patch, Points, PastLookup
    <2>2. Token(r) \in Labels \cup {None}
      BY <2>1, CallFields DEF IInv, CallInv, Token, Label
    <2>3. First(r) \in Devices \cup {None}
      BY <2>1, CallFields DEF IInv, TypeOK, CallInv, First, New
    <2>4. /\ shows' \in [Devices -> Labels \cup {None}]
          /\ seen' \in [Requests -> Devices \cup {None, Stale}]
      BY <1>1, <2>2, <2>3 DEF IInv, TypeOK, Patch, Outdated
    <2>5. TypeOK'
      BY <1>1, <2>1, <2>4, GotoType, RecordType
         DEF IInv, Patch, TypeOK, locals, TryRecordIf
    <2>6. CallInv'
      BY <1>1, <2>1, CallInvKept DEF IInv, Patch, TypeOK, Goto, PastLookup
    <2> QED
      BY <2>5, <2>6 DEF IInv
  <1>2. CASE PatchFails(r)
    BY <1>2, ReturnIInv DEF PatchFails, TryRecordIf, Results
  <1> QED
    BY <1>1, <1>2

LEMMA ClearOldIInv ==
  ASSUME IInv, NEW r \in Requests, ClearOld(r) \/ ClearOldFails(r)
  PROVE  IInv'
  <1>1. CASE ClearOld(r)
    <2>1. pc[r] = "clear_old" /\ Goto(r, "commit")
      BY <1>1 DEF ClearOld
    <2>2. TypeOK'
      BY <1>1, <2>1, GotoType, WriteType
         DEF IInv, ClearOld, TypeOK, locals, Points
    <2>3. CallInv'
      BY <1>1, <2>1, CallInvKept DEF IInv, ClearOld, TypeOK, Goto, PastLookup
    <2> QED
      BY <2>2, <2>3 DEF IInv
  <1>2. CASE ClearOldFails(r)
    <2>1. pc[r] = "clear_old" /\ Compensate(r, {"clear"}, "rolled_back")
      BY <1>2 DEF ClearOldFails
    <2>2. TypeOK'
      BY <1>2, <2>1, CompensateType
         DEF IInv, ClearOldFails, TypeOK, stores, locals, Results
    <2>3. CallInv'
      BY <1>2, <2>1, CallInvKept
         DEF IInv, ClearOldFails, TypeOK, Compensate, Goto, PastLookup
    <2> QED
      BY <2>2, <2>3 DEF IInv
  <1> QED
    BY <1>1, <1>2

LEMMA UndoType == ASSUME NEW r PROVE Undo(r) \in SUBSET {"clear", "restore"}
  BY DEF Undo

LEMMA MovedType ==
  ASSUME IInv, NEW r \in Requests, pc[r] # "idle"
  PROVE  Label(r) \in Labels /\ registry[Label(r)] \in Row /\ Moved(r) \in Row
  <1>1. Label(r) \in Labels /\ (Op(r) \in {"bind", "rebind"} => New(r) \in Devices)
    BY CallFields DEF IInv, CallInv, Label, Op, New
  <1>2. registry[Label(r)] \in Row
    BY <1>1 DEF IInv, TypeOK
  <1> QED
    BY <1>1, <1>2, RowTransitions DEF Moved, Row, Bind, Rebind, Retire, Unbind

LEMMA CommitIInv ==
  ASSUME IInv, NEW r \in Requests, Commit(r) \/ CommitFails(r)
  PROVE  IInv'
  <1>1. pc[r] = "commit"
    BY DEF Commit, CommitFails
  <1>2. CASE Commit(r)
    <2>1. registry' \in [Labels -> Row]
      BY <1>1, <1>2, MovedType DEF Commit, IInv, TypeOK
    <2>2. trail' \in [Requests -> SUBSET {"success", "failure", "conflict"}]
      BY <1>2, RecordType DEF Commit, IInv
    <2>3. CASE Return(r, "ok") /\ UNCHANGED owes
      <3>1. TypeOK'
        BY <1>2, <2>1, <2>2, <2>3, ReturnType
           DEF Commit, IInv, TypeOK, locals, Results
      <3>2. CallInv'
        BY <1>1, <1>2, <2>3, CallInvKept
           DEF Commit, IInv, TypeOK, Return, Goto, PastLookup
      <3> QED
        BY <3>1, <3>2 DEF IInv
    <2>4. CASE Compensate(r, Undo(r), "rolled_back")
      <3>1. TypeOK'
        BY <1>2, <2>1, <2>2, <2>4, CompensateType, UndoType
           DEF Commit, IInv, TypeOK, locals, Results
      <3>2. CallInv'
        BY <1>1, <1>2, <2>4, CallInvKept
           DEF Commit, IInv, TypeOK, Compensate, Goto, PastLookup
      <3> QED
        BY <3>1, <3>2 DEF IInv
    <2> QED
      BY <1>2, <2>3, <2>4 DEF Commit
  <1>3. CASE CommitFails(r)
    <2>1. PICK res \in {"rolled_back", "already_bound"} : Compensate(r, Undo(r), res)
      BY <1>3 DEF CommitFails
    <2>2. TypeOK'
      BY <1>3, <2>1, CompensateType, UndoType
         DEF CommitFails, IInv, TypeOK, stores, locals, Results
    <2>3. CallInv'
      BY <1>1, <1>3, <2>1, CallInvKept
         DEF CommitFails, IInv, TypeOK, Compensate, Goto, PastLookup
    <2> QED
      BY <2>2, <2>3 DEF IInv
  <1> QED
    BY <1>2, <1>3

LEMMA CompensationIInv ==
  ASSUME IInv, NEW r \in Requests,
         \/ CompensateNeeded(r) \/ CompensateNoop(r)
         \/ CompensatePatch(r) \/ CompensateFails(r)
  PROVE  IInv'
  <1>1. pc[r] \in {"compensate", "compensate_patch"} /\ Label(r) \in Labels
    BY CallFields DEF CompensateNeeded, CompensateNoop, CompensatePatch,
                      CompensateFails, IInv, CallInv, Label
  <1>2. CASE CompensateNeeded(r)
    <2>1. TypeOK'
      BY <1>2, GotoType DEF CompensateNeeded, IInv, TypeOK, stores, locals, Points
    <2>2. CallInv'
      BY <1>1, <1>2, CallInvKept
         DEF CompensateNeeded, IInv, TypeOK, Goto, PastLookup
    <2> QED
      BY <2>1, <2>2 DEF IInv
  <1>3. ASSUME NEW res \in Results \cup {None}, Discharge(r, res),
               UNCHANGED <<registry, locals>>,
               \/ UNCHANGED <<shows, seen>>
               \/ WriteDevice(Target(r), Undone(r))
        PROVE  IInv'
    <2>1. Undone(r) \in Labels \cup {None}
      BY <1>1 DEF Undone
    <2>2. TypeOK'
      BY <1>3, <2>1, DischargeType, WriteType DEF IInv, TypeOK, locals
    <2>3. CallInv'
      BY <1>1, <1>3, CallInvKept DEF IInv, TypeOK, Discharge, Goto, PastLookup
    <2> QED
      BY <2>2, <2>3 DEF IInv
  <1>4. result[r] \in Results \cup {None}
    BY DEF IInv, TypeOK
  <1>5. CASE CompensateNoop(r)
    BY <1>3, <1>4, <1>5 DEF CompensateNoop, stores
  <1>6. CASE CompensatePatch(r)
    BY <1>3, <1>4, <1>6 DEF CompensatePatch
  <1>7. CASE CompensateFails(r)
    BY <1>3, <1>7 DEF CompensateFails, stores, Results
  <1> QED
    BY <1>2, <1>5, <1>6, <1>7

LEMMA EnvironmentIInv ==
  ASSUME IInv, NEW r \in Requests, LandUnanswered(r) \/ Crash(r)
  PROVE  IInv'
  <1>1. CASE LandUnanswered(r)
    <2>1. pc[r] # "idle" /\ Label(r) \in Labels
      BY <1>1, CallFields DEF LandUnanswered, IInv, CallInv, Label
    <2>2. Token(r) \in Labels \cup {None} /\ Undone(r) \in Labels \cup {None}
      BY <2>1 DEF Token, Undone
    <2>3. /\ shows' \in [Devices -> Labels \cup {None}]
          /\ seen' \in [Requests -> Devices \cup {None, Stale}]
      BY <1>1, <2>2, WriteType DEF LandUnanswered, IInv
    <2>4. TypeOK'
      BY <1>1, <2>3 DEF LandUnanswered, IInv, TypeOK, locals
    <2>5. CallInv'
      BY <1>1, <2>1, CallInvKept DEF LandUnanswered, IInv
    <2> QED
      BY <2>4, <2>5 DEF IInv
  <1>2. CASE Crash(r)
    BY <1>2, ReturnIInv DEF Crash, Active, Results
  <1> QED
    BY <1>1, <1>2

LEMMA EditIInv ==
  ASSUME IInv, NEW d \in Devices, EditElsewhere(d)
  PROVE  IInv'
  BY DEF EditElsewhere, Outdated, IInv, TypeOK, CallInv, stores, locals, Op, New

LEMMA NextIInv == IInv /\ [Next]_vars => IInv'
  <1> SUFFICES ASSUME IInv, [Next]_vars PROVE IInv'
    OBVIOUS
  <1>1. CASE UNCHANGED vars
    BY <1>1 DEF vars, IInv, TypeOK, CallInv, Op, New
  <1>2. ASSUME NEW r \in Requests, Send(r) PROVE IInv'
    BY <1>2, SendIInv
  <1>3. ASSUME NEW r \in Requests, Handle(r) PROVE IInv'
    BY <1>3, LookupIInv, RegistryOnlyIInv, ReadDeviceIInv, PatchIInv,
       ClearOldIInv, CommitIInv, CompensationIInv DEF Handle
  <1>4. ASSUME NEW r \in Requests, LandUnanswered(r) \/ Crash(r) PROVE IInv'
    BY <1>4, EnvironmentIInv
  <1>5. ASSUME NEW d \in Devices, EditElsewhere(d) PROVE IInv'
    BY <1>5, EditIInv
  <1> QED
    BY <1>1, <1>2, <1>3, <1>4, <1>5 DEF Next

LEMMA IInvInvariant == Spec => []IInv
  BY InitIInv, NextIInv, PTL DEF Spec

\* Every variable of the sagas keeps its type, whatever requests arrive and
\* whatever fails.
THEOREM TypeCorrectness == Spec => []TypeOK
  <1>1. IInv => TypeOK
    BY DEF IInv
  <1> QED
    BY <1>1, IInvInvariant, PTL

-----------------------------------------------------------------------------
(***************************************************************************)
(* Only the two transactions change the registry, and what each re-checks  *)
(* under its lock makes the change a transition of the abstract registry.  *)
(***************************************************************************)
\* The abstract registry speaks of the same rows.
LEMMA SameRows ==
  /\ Registry!Tables = Tables
  /\ \A row, d : Registry!Bind(row, d) = Bind(row, d)
  /\ \A row, d : Registry!Rebind(row, d) = Rebind(row, d)
  /\ \A row : Registry!Retire(row) = Retire(row)
  /\ \A row : Registry!Unbind(row) = Unbind(row)
  /\ \A row : Registry!Restore(row) = Restore(row)
  /\ \A reg, q, d : Registry!Vacant(reg, q, d) = Vacant(reg, q, d)
  BY DEF Registry!Tables, Registry!Row, Registry!Consistent,
         Registry!OnePerDevice, Registry!Holds, Registry!Vacant,
         Registry!Bind, Registry!Rebind, Registry!Retire, Registry!Unbind,
         Registry!Restore, Tables, Row, Consistent, OnePerDevice, Holds, Vacant,
         Bind, Rebind, Retire, Unbind, Restore

LEMMA CommitRefines ==
  ASSUME IInv, NEW r \in Requests, Commit(r)
  PROVE  Registry!Next
  <1> DEFINE q == Label(r)
             d == New(r)
  <1>1. /\ pc[r] = "commit" /\ Current(r) /\ Admitted(r)
        /\ registry' = [registry EXCEPT ![q] = Moved(r)]
    BY DEF Commit
  <1>2. /\ q \in Labels
        /\ Op(r) \in Operations
        /\ Op(r) \in {"bind", "rebind"} => d \in Devices
        /\ Op(r) = "rebind" => old[r] # d
    BY <1>1, CallFields DEF IInv, CallInv, PastLookup, Label, Op, New
  <1>3. Op(r) \in {"bind", "rebind"} => Vacant(registry, q, d)
    BY <1>1, <1>2, NoneAssumption DEF Admitted
  <1>4. CASE Op(r) = "bind"
    <2>1. Registry!BindLabel(q, d)
      BY <1>1, <1>3, <1>4, SameRows DEF Registry!BindLabel, Registry!Put, Current, Moved
    <2> QED
      BY <1>2, <1>4, <2>1 DEF Registry!Next
  <1>5. CASE Op(r) = "rebind"
    <2>1. Registry!RebindLabel(q, d)
      BY <1>1, <1>2, <1>3, <1>5, SameRows
         DEF Registry!RebindLabel, Registry!Put, Current, Moved
    <2> QED
      BY <1>2, <1>5, <2>1 DEF Registry!Next
  <1>6. CASE Op(r) = "retire"
    <2>1. Registry!RetireLabel(q)
      BY <1>1, <1>6, SameRows DEF Registry!RetireLabel, Registry!Put, Current, Moved
    <2> QED
      BY <1>2, <2>1 DEF Registry!Next
  <1>7. CASE Op(r) \in {"unbind", "restore"}
    <2>1. Registry!UnbindLabel(q)
      BY <1>1, <1>7, SameRows DEF Registry!UnbindLabel, Registry!Put, Current, Moved
    <2> QED
      BY <1>2, <2>1 DEF Registry!Next
  <1> QED
    BY <1>2, <1>4, <1>5, <1>6, <1>7 DEF Operations

LEMMA RegistryOnlyRefines ==
  ASSUME IInv, NEW r \in Requests, RegistryOnly(r)
  PROVE  Registry!Next
  <1> DEFINE q == Label(r)
  <1>1. /\ pc[r] \in {"retire_free", "restore"}
        /\ registry[q].status = Required(r)
        /\ registry' = [registry EXCEPT ![q] = MovedAlone(r)]
    BY DEF RegistryOnly
  <1>2. q \in Labels
    BY <1>1, CallFields DEF IInv, CallInv, Label
  <1>3. CASE pc[r] = "retire_free"
    <2>1. Registry!RetireLabel(q)
      BY <1>1, <1>3, SameRows
         DEF Registry!RetireLabel, Registry!Put, Required, MovedAlone
    <2> QED
      BY <1>2, <2>1 DEF Registry!Next
  <1>4. CASE pc[r] = "restore"
    <2>1. Registry!RestoreLabel(q)
      BY <1>1, <1>4, SameRows
         DEF Registry!RestoreLabel, Registry!Put, Required, MovedAlone
    <2> QED
      BY <1>2, <2>1 DEF Registry!Next
  <1> QED
    BY <1>1, <1>3, <1>4

LEMMA NextRefines == IInv /\ [Next]_vars => [Registry!Next]_registry
  <1> SUFFICES ASSUME IInv, [Next]_vars PROVE [Registry!Next]_registry
    OBVIOUS
  <1>1. CASE UNCHANGED vars
    BY <1>1 DEF vars
  <1>2. ASSUME NEW r \in Requests, Send(r) \/ LandUnanswered(r) \/ Crash(r)
        PROVE  UNCHANGED registry
    BY <1>2 DEF Send, LandUnanswered, Crash, stores
  <1>3. ASSUME NEW r \in Requests, Handle(r)
        PROVE  [Registry!Next]_registry
    <2>1. CASE Commit(r) \/ RegistryOnly(r)
      BY <2>1, CommitRefines, RegistryOnlyRefines
    <2>2. CASE ~(Commit(r) \/ RegistryOnly(r))
      BY <1>3, <2>2
         DEF Handle, LookupRefused, LookupPasses, LookupFails,
             RegistryOnlyRefused, ReadDevice, ReadDeviceTaken,
             ReadDeviceConflict, ReadDeviceFails, Patch, PatchFails, ClearOld,
             ClearOldFails, CommitFails, CompensateNeeded, CompensateNoop,
             CompensatePatch, CompensateFails, stores
    <2> QED
      BY <2>1, <2>2
  <1>4. ASSUME NEW d \in Devices, EditElsewhere(d)
        PROVE  UNCHANGED registry
    BY <1>4 DEF EditElsewhere, stores
  <1> QED
    BY <1>1, <1>2, <1>3, <1>4 DEF Next

\* The sagas implement the abstract registry: whatever they interleave and
\* whatever fails, the table makes only legal transitions.
THEOREM RefinesRegistry == Spec => ImplementsRegistry
  <1>1. Init => Registry!Init
    BY SameRows DEF Init, Registry!Init
  <1> QED
    BY <1>1, IInvInvariant, NextRefines, PTL
       DEF Spec, ImplementsRegistry, Registry!Spec

\* A consistent row that meets the index may replace any row.
LEMMA PutConstraints ==
  ASSUME registry \in Tables,
         NEW q \in Labels, NEW row \in Row,
         Consistent(row),
         row.status = "bound" => Vacant(registry, q, row.device),
         registry' = [registry EXCEPT ![q] = row]
  PROVE  registry' \in Tables
  <1> USE DEF Tables
  <1>1. /\ registry' \in [Labels -> Row]
        /\ registry'[q] = row
        /\ \A p \in Labels \ {q} : registry'[p] = registry[p]
    OBVIOUS
  <1>2. \A p \in Labels : Consistent(registry'[p])
    BY <1>1
  <1>3. ASSUME NEW p1 \in Labels, NEW p2 \in Labels, NEW d \in Devices,
               Holds(registry', p1, d), Holds(registry', p2, d)
        PROVE  p1 = p2
    BY <1>1, <1>3 DEF Holds, OnePerDevice, Vacant
  <1> QED
    BY <1>1, <1>2, <1>3 DEF OnePerDevice

\* Every transition of the abstract registry keeps its constraints.
LEMMA NextConstraints ==
  registry \in Tables /\ [Registry!Next]_registry => registry' \in Tables
  <1> SUFFICES ASSUME registry \in Tables, [Registry!Next]_registry
               PROVE  registry' \in Tables
    OBVIOUS
  <1>1. \A q \in Labels : registry[q] \in Row /\ Consistent(registry[q])
    BY DEF Tables
  <1>2. ASSUME NEW q \in Labels, NEW d \in Devices, Registry!BindLabel(q, d)
        PROVE  registry' \in Tables
    <2> DEFINE row == Bind(registry[q], d)
    <2>1. row \in Row /\ row.status = "bound" /\ row.device = d
      BY <1>1 DEF Row, Bind
    <2> QED
      BY <1>2, <2>1, PutConstraints, NoneAssumption, SameRows
         DEF Registry!BindLabel, Registry!Put, Consistent
  <1>3. ASSUME NEW q \in Labels, NEW d \in Devices, Registry!RebindLabel(q, d)
        PROVE  registry' \in Tables
    <2> DEFINE row == Rebind(registry[q], d)
    <2>1. row \in Row /\ row.status = "bound" /\ row.device = d
      BY <1>1, <1>3, SameRows DEF Row, Rebind, Registry!RebindLabel
    <2> QED
      BY <1>3, <2>1, PutConstraints, NoneAssumption, SameRows
         DEF Registry!RebindLabel, Registry!Put, Consistent
  <1>4. ASSUME NEW q \in Labels, Registry!RetireLabel(q)
        PROVE  registry' \in Tables
    <2> DEFINE row == Retire(registry[q])
    <2>1. row \in Row /\ row.status = "retired"
      BY <1>1 DEF Row, Retire
    <2> QED
      BY <1>4, <2>1, PutConstraints, SameRows
         DEF Registry!RetireLabel, Registry!Put, Consistent
  <1>5. ASSUME NEW q \in Labels, Registry!UnbindLabel(q)
        PROVE  registry' \in Tables
    <2> DEFINE row == Unbind(registry[q])
    <2>1. row \in Row /\ row.status = "free" /\ row.device = None
      BY <1>1 DEF Row, Unbind
    <2> QED
      BY <1>5, <2>1, PutConstraints, SameRows
         DEF Registry!UnbindLabel, Registry!Put, Consistent
  <1>6. ASSUME NEW q \in Labels, Registry!RestoreLabel(q)
        PROVE  registry' \in Tables
    <2> DEFINE row == Restore(registry[q])
    <2>1. row \in Row /\ row.status = "free" /\ row.device = None
      BY <1>1 DEF Row, Restore
    <2> QED
      BY <1>6, <2>1, PutConstraints, SameRows
         DEF Registry!RestoreLabel, Registry!Put, Consistent
  <1>7. ASSUME NEW batch \in SUBSET Labels, Registry!DeleteLabels(batch)
        PROVE  registry' \in Tables
    <2>1. /\ Absent \in Row /\ Consistent(Absent)
          /\ Absent.status # "bound"
      BY DEF Absent, Row, Consistent
    <2>2. /\ registry' \in [Labels -> Row]
          /\ \A q \in Labels : registry'[q] \in {Absent, registry[q]}
      BY <1>1, <1>7, <2>1, SameRows DEF Registry!DeleteLabels, Registry!Absent, Absent
    <2>3. \A q \in Labels : Consistent(registry'[q])
      BY <1>1, <2>1, <2>2
    <2>4. \A q \in Labels, d \in Devices :
            Holds(registry', q, d) => Holds(registry, q, d)
      BY <2>1, <2>2 DEF Holds
    <2> QED
      BY <2>2, <2>3, <2>4 DEF Tables, OnePerDevice
  <1>8. CASE UNCHANGED registry
    BY <1>8
  <1> QED
    BY <1>2, <1>3, <1>4, <1>5, <1>6, <1>7, <1>8 DEF Registry!Next

\* The abstract registry never leaves its constraints, for any number of
\* labels and devices.
THEOREM ConstraintsInvariant == Registry!Spec => []Registry!ConstraintsHold
  <1>1. Registry!ConstraintsHold <=> registry \in Tables
    BY SameRows DEF Registry!ConstraintsHold
  <1>2. Registry!Init => Registry!ConstraintsHold
    BY <1>1, SameRows DEF Registry!Init
  <1>3. Registry!ConstraintsHold /\ [Registry!Next]_registry => Registry!ConstraintsHold'
    BY SameRows, NextConstraints DEF Registry!ConstraintsHold
  <1> QED
    BY <1>2, <1>3, PTL DEF Registry!Spec

\* So the table of the services never leaves its two constraints.
THEOREM ConstraintsAlwaysHold == Spec => []ConstraintsHold
  BY RefinesRegistry, ConstraintsInvariant, PTL DEF ImplementsRegistry, ConstraintsHold

-----------------------------------------------------------------------------
(***************************************************************************)
(* When clients only bind, an acknowledged bind stays in the registry: the *)
(* row under the lock was free, the index admitted it, and no bind moves a *)
(* row that is not free.                                                   *)
(***************************************************************************)
OnlyBinds ==
  \A r \in Requests :
    pc[r] # "idle" => Op(r) = "bind" /\ pc[r] \notin {"retire_free", "restore"}

WinnersHold ==
  \A r \in Requests :
    result[r] = "ok" => pc[r] = "done" /\ Holds(registry, Label(r), New(r))

WInv == OnlyBinds /\ WinnersHold /\ WinnersDiffer

LEMMA InitWInv == Init => WInv
  BY ConstantsAssumption DEF Init, WInv, OnlyBinds, WinnersHold, WinnersDiffer, Results

\* A step of request r that neither moves a row nor acknowledges it.
LEMMA WInvKept ==
  ASSUME WInv, NEW r \in Requests,
         Active(r), pc'[r] \notin {"idle", "retire_free", "restore"},
         result'[r] # "ok",
         UNCHANGED <<registry, call>>,
         \A s \in Requests \ {r} : pc'[s] = pc[s] /\ result'[s] = result[s]
  PROVE  WInv'
  <1>1. \A s \in Requests : result'[s] = "ok" => s # r /\ result[s] = "ok"
    OBVIOUS
  <1>2. OnlyBinds'
    BY DEF WInv, OnlyBinds, Active, Op
  <1>3. WinnersHold'
    BY <1>1 DEF WInv, WinnersHold, Label, New
  <1>4. WinnersDiffer'
    BY <1>1 DEF WInv, WinnersDiffer, Op, Label, New
  <1> QED
    BY <1>2, <1>3, <1>4 DEF WInv

LEMMA SendWInv ==
  ASSUME IInv, WInv, NEW r \in Requests, Send(r), BindsOnly'
  PROVE  WInv'
  <1>1. PICK c \in Calls :
          /\ c.op \in Ops
          /\ call' = [call EXCEPT ![r] = c]
          /\ Goto(r, IF c.op = "restore" THEN "restore" ELSE "lookup")
    BY DEF Send
  <1>2. pc[r] = "idle" /\ UNCHANGED <<registry, result>>
    BY DEF Send, stores
  <1>3. c.op = "bind" /\ result[r] # "ok"
    <2>1. call'[r] = c /\ pc'[r] # "idle"
      BY <1>1 DEF IInv, TypeOK, Goto
    <2>2. c.op = "bind"
      BY <2>1 DEF BindsOnly, Op
    <2> QED
      BY <1>2, <2>2 DEF WInv, WinnersHold
  <1>4. /\ call'[r] = c /\ pc'[r] = "lookup"
        /\ \A s \in Requests \ {r} : call'[s] = call[s] /\ pc'[s] = pc[s]
    BY <1>1, <1>3 DEF IInv, TypeOK, Goto
  <1>5. OnlyBinds'
    BY <1>3, <1>4 DEF WInv, OnlyBinds, Op
  <1>6. WinnersHold'
    BY <1>2, <1>3, <1>4 DEF WInv, WinnersHold, Label, New
  <1>7. WinnersDiffer'
    BY <1>2, <1>3, <1>4 DEF WInv, WinnersDiffer, Op, Label, New
  <1> QED
    BY <1>5, <1>6, <1>7 DEF WInv

\* The registry transaction of a bind: the row becomes the request's.
LEMMA CommitWInv ==
  ASSUME IInv, WInv, NEW r \in Requests, Commit(r)
  PROVE  WInv'
  <1> DEFINE q == Label(r)
             d == New(r)
  <1>1. pc[r] = "commit" /\ Op(r) = "bind" /\ q \in Labels /\ d \in Devices
    BY CallFields DEF Commit, WInv, OnlyBinds, IInv, CallInv, Op, Label, New
  <1>2. /\ registry[q].status = "free"
        /\ \A p \in Labels \ {q} : ~Holds(registry, p, d)
        /\ registry' = [registry EXCEPT ![q] = Bind(registry[q], d)]
        /\ UNCHANGED call
    BY <1>1, NoneAssumption DEF Commit, Current, Admitted, Moved, Vacant, locals
  <1>3. /\ Holds(registry', q, d)
        /\ \A p \in Labels, e \in Devices : Holds(registry, p, e) => Holds(registry', p, e)
    BY <1>1, <1>2 DEF IInv, TypeOK, Row, Holds, Bind
  <1>4. /\ \A s \in Requests \ {r} : pc'[s] = pc[s] /\ result'[s] = result[s]
        /\ pc'[r] \in {"done", "compensate"}
        /\ result'[r] = "ok" => pc'[r] = "done"
    BY DEF Commit, Return, Compensate, Goto, IInv, TypeOK
  <1>5. \A s \in Requests : result[s] = "ok" =>
          Label(s) \in Labels /\ New(s) \in Devices /\ Holds(registry, Label(s), New(s))
    BY CallFields DEF WInv, WinnersHold, OnlyBinds, IInv, CallInv, Op, Label, New
  <1>6. \A s \in Requests : result[s] = "ok" => Label(s) # q /\ New(s) # d
    BY <1>1, <1>2, <1>5 DEF Holds
  <1>7. OnlyBinds'
    BY <1>1, <1>2, <1>4 DEF WInv, OnlyBinds, Op
  <1>8. WinnersHold'
    BY <1>2, <1>3, <1>4, <1>5 DEF WInv, WinnersHold, Label, New
  <1>9. WinnersDiffer'
    BY <1>2, <1>4, <1>6 DEF WInv, WinnersDiffer, Op, Label, New
  <1> QED
    BY <1>7, <1>8, <1>9 DEF WInv

LEMMA HandleWInv ==
  ASSUME IInv, WInv, NEW r \in Requests, Handle(r) \/ LandUnanswered(r) \/ Crash(r)
  PROVE  WInv'
  <1>1. CASE Commit(r)
    BY <1>1, CommitWInv
  <1>2. CASE LandUnanswered(r)
    BY <1>2 DEF LandUnanswered, WInv, OnlyBinds, WinnersHold, WinnersDiffer, locals,
                Op, Label, New
  <1>3. ASSUME ~Commit(r), ~LandUnanswered(r) PROVE WInv'
    <2>1. Active(r) /\ Op(r) = "bind" /\ ~RegistryOnly(r) /\ ~RegistryOnlyRefused(r)
      BY <1>3 DEF Handle, LookupRefused, LookupPasses, LookupFails, RegistryOnly,
           RegistryOnlyRefused, ReadDevice, ReadDeviceTaken, ReadDeviceConflict,
           ReadDeviceFails, Patch, PatchFails, ClearOld, ClearOldFails,
           CommitFails, CompensateNeeded, CompensateNoop, CompensatePatch,
           CompensateFails, Crash, Active, WInv, OnlyBinds
    <2>2. result[r] # "ok"
      BY <2>1 DEF WInv, WinnersHold, Active
    <2>3. CASE LookupRefused(r) \/ LookupPasses(r) \/ LookupFails(r)
      <3>1. Refusal(r) # "ok"
        BY ConstantsAssumption DEF Refusal, BindRefusal, RetireRefusal, RebindRefusal, UnbindRefusal,
               Results
      <3> QED
        BY <2>1, <2>2, <2>3, <3>1, WInvKept
           DEF LookupRefused, LookupPasses, LookupFails, Return, Goto, stores,
               locals, IInv, TypeOK
    <2>4. CASE \/ ReadDevice(r) \/ ReadDeviceTaken(r)
               \/ ReadDeviceConflict(r) \/ ReadDeviceFails(r)
      BY <2>1, <2>2, <2>4, WInvKept
         DEF ReadDevice, ReadDeviceTaken, ReadDeviceConflict, ReadDeviceFails,
             Return, Goto, stores, locals, IInv, TypeOK
    <2>5. CASE Patch(r) \/ PatchFails(r) \/ ClearOld(r) \/ ClearOldFails(r)
      BY <2>1, <2>2, <2>5, WInvKept
         DEF Patch, PatchFails, ClearOld, ClearOldFails, Compensate, Return,
             Goto, stores, locals, IInv, TypeOK
    <2>6. CASE CommitFails(r) \/ Crash(r)
      BY <2>1, <2>2, <2>6, WInvKept
         DEF CommitFails, Crash, Compensate, Return, Goto, stores, locals, IInv,
             TypeOK
    <2>7. CASE \/ CompensateNeeded(r) \/ CompensateNoop(r)
               \/ CompensatePatch(r) \/ CompensateFails(r)
      BY <2>1, <2>2, <2>7, WInvKept
         DEF CompensateNeeded, CompensateNoop, CompensatePatch, CompensateFails,
             Discharge, Goto, stores, locals, IInv, TypeOK
    <2> QED
      BY <1>3, <2>1, <2>3, <2>4, <2>5, <2>6, <2>7 DEF Handle
  <1> QED
    BY <1>1, <1>2, <1>3

\* The calls of the requests that have arrived stay what they are.
LEMMA CallsStay ==
  ASSUME IInv, [Next]_vars, NEW r \in Requests, pc[r] # "idle"
  PROVE  pc'[r] # "idle" /\ call'[r] = call[r]
  <1>1. CASE UNCHANGED vars
    BY <1>1 DEF vars
  <1>2. ASSUME NEW d \in Devices, EditElsewhere(d) PROVE pc' = pc /\ call' = call
    BY <1>2 DEF EditElsewhere, locals
  <1>3. ASSUME NEW s \in Requests, Send(s)
        PROVE  s # r /\ pc'[r] = pc[r] /\ call'[r] = call[r]
    BY <1>3 DEF Send, Goto, IInv, TypeOK
  <1>4. ASSUME NEW s \in Requests, Handle(s) \/ LandUnanswered(s) \/ Crash(s)
        PROVE  call' = call /\ pc'[r] # "idle"
    <2>1. CASE \/ LookupRefused(s) \/ LookupPasses(s) \/ LookupFails(s)
               \/ RegistryOnly(s) \/ RegistryOnlyRefused(s)
      BY <2>1 DEF LookupRefused, LookupPasses, LookupFails, RegistryOnly,
           RegistryOnlyRefused, Return, Goto, locals, IInv, TypeOK
    <2>2. CASE \/ ReadDevice(s) \/ ReadDeviceTaken(s)
               \/ ReadDeviceConflict(s) \/ ReadDeviceFails(s)
      BY <2>2 DEF ReadDevice, ReadDeviceTaken, ReadDeviceConflict, ReadDeviceFails,
           Return, Goto, locals, IInv, TypeOK
    <2>3. CASE \/ Patch(s) \/ PatchFails(s) \/ ClearOld(s) \/ ClearOldFails(s)
               \/ LandUnanswered(s) \/ Crash(s)
      BY <2>3 DEF Patch, PatchFails, ClearOld, ClearOldFails, LandUnanswered, Crash,
           Compensate, Return, Goto, locals, IInv, TypeOK
    <2>4. CASE Commit(s) \/ CommitFails(s)
      BY <2>4 DEF Commit, CommitFails, Compensate, Return, Goto, locals, IInv, TypeOK
    <2>5. CASE \/ CompensateNeeded(s) \/ CompensateNoop(s)
               \/ CompensatePatch(s) \/ CompensateFails(s)
      BY <2>5 DEF CompensateNeeded, CompensateNoop, CompensatePatch, CompensateFails,
           Discharge, Goto, locals, IInv, TypeOK
    <2> QED
      BY <1>4, <2>1, <2>2, <2>3, <2>4, <2>5 DEF Handle
  <1> QED
    BY <1>1, <1>2, <1>3, <1>4 DEF Next

(***************************************************************************)
(* While clients only bind, at most one bind of a label, and at most one   *)
(* bind to a device, is acknowledged.                                      *)
(***************************************************************************)
THEOREM OneBindWins == Spec => []OneWinner
  <1> DEFINE J == BindsOnly => WInv
  <1>1. Init => J
    BY InitWInv
  <1>2. IInv /\ J /\ [Next]_vars => J'
    <2> SUFFICES ASSUME IInv, J, [Next]_vars, BindsOnly' PROVE WInv'
      OBVIOUS
    <2>1. WInv
      BY CallsStay DEF BindsOnly, Op
    <2>2. CASE UNCHANGED vars
      BY <2>1, <2>2 DEF vars, WInv, OnlyBinds, WinnersHold, WinnersDiffer, Op, Label, New
    <2>3. ASSUME NEW d \in Devices, EditElsewhere(d) PROVE WInv'
      BY <2>1, <2>3 DEF EditElsewhere, stores, locals, WInv, OnlyBinds, WinnersHold,
                        WinnersDiffer, Op, Label, New
    <2> QED
      BY <2>1, <2>2, <2>3, SendWInv, HandleWInv DEF Next
  <1>3. J => OneWinner
    BY DEF WInv, OneWinner
  <1> HIDE DEF J
  <1> QED
    BY <1>1, <1>2, <1>3, IInvInvariant, PTL DEF Spec

-----------------------------------------------------------------------------
(***************************************************************************)
(* What a request has written to the audit trail, at each of its control   *)
(* points, when its best-effort rows are not lost.  bind and retire record *)
(* success with the PATCH, so from there until the registry transaction    *)
(* the trail is ahead of the outcome; a request that compensates will      *)
(* record its failure and no longer answer 200.                            *)
(***************************************************************************)
Unrecorded == {"idle", "lookup", "retire_free", "restore", "read_device",
               "patch", "clear_old"}

TrailInv ==
  \A r \in Requests :
    /\ pc[r] \in Unrecorded => trail[r] = {}
    /\ pc[r] = "clear_old" => ~Attributed(r)
    /\ pc[r] = "commit" => trail[r] = IF Attributed(r) THEN {"success"} ELSE {}
    /\ pc[r] # "done" => result[r] # "ok"
    /\ pc[r] = "done" /\ result[r] # "crashed" =>
         (trail[r] = {"success"} <=> result[r] = "ok")

\* The failures the theorem excludes: a lost best-effort row, and a commit
\* that took effect and raised.
TrailIsKept == Faults \cap {"audit_error", "commit_timeout"} = {}

LEMMA InitTrailInv == Init => TrailInv
  BY ConstantsAssumption DEF Init, TrailInv, Unrecorded, Results

\* A step of request r changes no other request's trail, answer or place.
LEMMA TrailInvKept ==
  ASSUME TrailInv, NEW r \in Requests,
         \A s \in Requests \ {r} :
           /\ pc'[s] = pc[s] /\ trail'[s] = trail[s]
           /\ result'[s] = result[s] /\ call'[s] = call[s],
         /\ pc'[r] \in Unrecorded => trail'[r] = {}
         /\ pc'[r] = "clear_old" => ~Attributed(r)'
         /\ pc'[r] = "commit" =>
              trail'[r] = IF Attributed(r)' THEN {"success"} ELSE {}
         /\ pc'[r] # "done" => result'[r] # "ok"
         /\ pc'[r] = "done" /\ result'[r] # "crashed" =>
              (trail'[r] = {"success"} <=> result'[r] = "ok")
  PROVE  TrailInv'
  BY DEF TrailInv, Attributed, Op

\* A request that has no row yet ends with an answer other than 200 and at
\* most one row, which is not a success.
LEMMA RefusedTrail ==
  ASSUME TrailIsKept, IInv, TrailInv, NEW r \in Requests,
         pc[r] \in Unrecorded,
         NEW res, res # "ok", Return(r, res),
         NEW row \in {"failure", "conflict"},
         TryRecord(r, row) \/ UNCHANGED trail,
         UNCHANGED call
  PROVE  TrailInv'
  <1>1. trail[r] = {} /\ trail'[r] \in {{}, {row}}
    BY DEF TrailInv, TryRecord, Record, IInv, TypeOK
  <1>2. pc'[r] = "done" /\ result'[r] # "ok"
    BY DEF Return, Goto, IInv, TypeOK
  <1>3. \A s \in Requests \ {r} :
          pc'[s] = pc[s] /\ trail'[s] = trail[s] /\ result'[s] = result[s]
    BY DEF Return, Goto, TryRecord, Record, IInv, TypeOK
  <1> QED
    BY <1>1, <1>2, <1>3, TrailInvKept DEF Unrecorded

LEMMA EarlyTrail ==
  ASSUME TrailIsKept, IInv, TrailInv, NEW r \in Requests,
         \/ LookupRefused(r) \/ LookupFails(r) \/ RegistryOnlyRefused(r)
         \/ ReadDeviceTaken(r) \/ ReadDeviceConflict(r) \/ ReadDeviceFails(r)
         \/ PatchFails(r)
  PROVE  TrailInv'
  <1>1. Refusal(r) # "ok"
    BY ConstantsAssumption
       DEF Refusal, BindRefusal, RetireRefusal, RebindRefusal, UnbindRefusal, Results
  <1> QED
    BY <1>1, RefusedTrail
       DEF LookupRefused, LookupFails, RegistryOnlyRefused, ReadDeviceTaken,
           ReadDeviceConflict, ReadDeviceFails, PatchFails, TryRecordIf,
           Unrecorded, locals

LEMMA RegistryOnlyTrail ==
  ASSUME TrailIsKept, IInv, TrailInv, NEW r \in Requests, RegistryOnly(r)
  PROVE  TrailInv'
  <1>1. Return(r, "ok") /\ Record(r, "success") /\ UNCHANGED call /\ trail[r] = {}
    BY DEF RegistryOnly, TrailIsKept, TrailInv, Unrecorded, locals
  <1> QED
    BY <1>1, TrailInvKept DEF Return, Goto, Record, IInv, TypeOK, Unrecorded

\* Steps to another control point, with the row that belongs to them.
LEMMA ForwardTrail ==
  ASSUME TrailIsKept, IInv, TrailInv, NEW r \in Requests,
         LookupPasses(r) \/ ReadDevice(r) \/ Patch(r) \/ ClearOld(r)
  PROVE  TrailInv'
  <1>1. UNCHANGED <<call, result>>
    BY DEF LookupPasses, ReadDevice, Patch, ClearOld, locals
  <1>2. /\ trail[r] = {} /\ result[r] # "ok"
        /\ pc[r] = "clear_old" => ~Attributed(r)
    BY DEF LookupPasses, ReadDevice, Patch, ClearOld, TrailInv, Unrecorded
  <1>3. CASE LookupPasses(r) \/ ReadDevice(r)
    BY <1>1, <1>2, <1>3, TrailInvKept
       DEF LookupPasses, ReadDevice, Goto, IInv, TypeOK, Unrecorded
  <1>4. CASE Patch(r)
    <2>1. IF Attributed(r) THEN Record(r, "success") ELSE UNCHANGED trail
      BY <1>4 DEF Patch, TryRecordIf, TryRecord, TrailIsKept
    <2>2. /\ Goto(r, IF Op(r) = "rebind" THEN "clear_old" ELSE "commit")
          /\ Op(r) = "rebind" => ~Attributed(r)
      BY <1>4 DEF Patch, Attributed
    <2>3. \A s \in Requests \ {r} : pc'[s] = pc[s] /\ trail'[s] = trail[s]
      BY <2>1, <2>2 DEF Record, Goto, IInv, TypeOK
    <2>4. Attributed(r)' = Attributed(r)
      BY <1>1 DEF Attributed, Op
    <2>5. CASE Op(r) = "rebind"
      BY <1>1, <1>2, <2>1, <2>2, <2>3, <2>4, <2>5, TrailInvKept
         DEF Goto, IInv, TypeOK, Unrecorded
    <2>6. CASE Op(r) # "rebind"
      <3>1. pc'[r] = "commit"
        BY <2>2, <2>6 DEF Goto, IInv, TypeOK
      <3>2. trail'[r] = IF Attributed(r) THEN {"success"} ELSE {}
        <4>1. CASE Attributed(r)
          BY <1>2, <2>1, <4>1 DEF Record, IInv, TypeOK
        <4>2. CASE ~Attributed(r)
          BY <1>2, <2>1, <4>2
        <4> QED
          BY <4>1, <4>2
      <3> QED
        BY <1>1, <1>2, <2>3, <2>4, <3>1, <3>2, TrailInvKept DEF Unrecorded
    <2> QED
      BY <2>5, <2>6
  <1>5. CASE ClearOld(r)
    BY <1>1, <1>2, <1>5, TrailInvKept
       DEF ClearOld, Goto, IInv, TypeOK, Unrecorded, Attributed, Op
  <1> QED
    BY <1>3, <1>4, <1>5

LEMMA CommitTrail ==
  ASSUME TrailIsKept, IInv, TrailInv, NEW r \in Requests, Commit(r)
  PROVE  TrailInv'
  <1>1. Return(r, "ok") /\ UNCHANGED call
    BY DEF Commit, TrailIsKept, locals
  <1>2. /\ trail'[r] = {"success"}
        /\ \A s \in Requests \ {r} : trail'[s] = trail[s]
    BY DEF Commit, Record, TrailInv, IInv, TypeOK
  <1> QED
    BY <1>1, <1>2, TrailInvKept DEF Return, Goto, IInv, TypeOK, Unrecorded

LEMMA CompensateTrail ==
  ASSUME TrailIsKept, IInv, TrailInv, NEW r \in Requests,
         ClearOldFails(r) \/ CommitFails(r) \/ CompensateNeeded(r)
  PROVE  TrailInv'
  <1>1. UNCHANGED <<call, trail>>
    BY DEF ClearOldFails, CommitFails, CompensateNeeded, locals
  <1>2. /\ pc'[r] \in {"compensate", "compensate_patch"} /\ result'[r] # "ok"
        /\ \A s \in Requests \ {r} : pc'[s] = pc[s] /\ result'[s] = result[s]
    BY DEF ClearOldFails, CommitFails, CompensateNeeded, Compensate, Goto, IInv,
           TypeOK, TrailInv
  <1> QED
    BY <1>1, <1>2, TrailInvKept DEF Unrecorded

LEMMA DischargeTrail ==
  ASSUME TrailIsKept, IInv, TrailInv, NEW r \in Requests,
         CompensateNoop(r) \/ CompensatePatch(r) \/ CompensateFails(r)
  PROVE  TrailInv'
  <1>1. PICK res \in {result[r], "inconsistent"} : Discharge(r, res)
    BY DEF CompensateNoop, CompensatePatch, CompensateFails
  <1>2. res # "ok" /\ UNCHANGED call
    BY <1>1 DEF CompensateNoop, CompensatePatch, CompensateFails, TrailInv, locals
  <1>3. /\ result'[r] # "ok"
        /\ \/ pc'[r] = "done" /\ Record(r, "failure")
           \/ pc'[r] = "compensate" /\ UNCHANGED trail
        /\ \A s \in Requests \ {r} : pc'[s] = pc[s] /\ result'[s] = result[s]
    <2>1. /\ result' = [result EXCEPT ![r] = res]
          /\ \/ Goto(r, "done") /\ TryRecord(r, "failure")
             \/ Goto(r, "compensate") /\ UNCHANGED trail
      BY <1>1 DEF Discharge
    <2>2. TryRecord(r, "failure") => Record(r, "failure")
      BY DEF TryRecord, TrailIsKept
    <2> QED
      BY <1>2, <2>1, <2>2 DEF Goto, IInv, TypeOK
  <1>4. /\ \A s \in Requests \ {r} : trail'[s] = trail[s]
        /\ pc'[r] = "done" => "failure" \in trail'[r]
    BY <1>3 DEF Record, IInv, TypeOK
  <1> QED
    BY <1>2, <1>3, <1>4, TrailInvKept DEF Unrecorded

LEMMA SendTrail ==
  ASSUME IInv, TrailInv, NEW r \in Requests, Send(r)
  PROVE  TrailInv'
  <1>1. /\ trail'[r] = {} /\ pc'[r] \in {"lookup", "restore"}
        /\ UNCHANGED <<trail, result>> /\ result[r] # "ok"
        /\ \A s \in Requests \ {r} : pc'[s] = pc[s] /\ call'[s] = call[s]
    BY DEF Send, Goto, IInv, TypeOK, TrailInv, Unrecorded
  <1> QED
    BY <1>1, TrailInvKept DEF Unrecorded

LEMMA TrailKept ==
  ASSUME TrailIsKept, IInv, TrailInv, [Next]_vars
  PROVE  TrailInv'
  <1>1. CASE UNCHANGED vars
    BY <1>1 DEF vars, TrailInv, Attributed, Op
  <1>2. ASSUME NEW d \in Devices, EditElsewhere(d) PROVE TrailInv'
    BY <1>2 DEF EditElsewhere, locals, TrailInv, Attributed, Op
  <1>3. ASSUME NEW r \in Requests, LandUnanswered(r) PROVE TrailInv'
    BY <1>3 DEF LandUnanswered, locals, TrailInv, Attributed, Op
  <1>4. ASSUME NEW r \in Requests, Crash(r) PROVE TrailInv'
    <2>1. /\ pc'[r] = "done" /\ result'[r] = "crashed"
          /\ UNCHANGED <<trail, call>>
          /\ \A s \in Requests \ {r} : pc'[s] = pc[s] /\ result'[s] = result[s]
      BY <1>4 DEF Crash, Return, Goto, locals, IInv, TypeOK
    <2> QED
      BY <2>1, TrailInvKept DEF Unrecorded
  <1>5. ASSUME NEW r \in Requests, Handle(r) PROVE TrailInv'
    BY <1>5, EarlyTrail, RegistryOnlyTrail, ForwardTrail, CommitTrail,
       CompensateTrail, DischargeTrail DEF Handle
  <1> QED
    BY <1>1, <1>2, <1>3, <1>4, <1>5, SendTrail DEF Next

-----------------------------------------------------------------------------
(***************************************************************************)
(* While no commit leaves its outcome unknown, the requests that moved     *)
(* their label are those whose service returned.                           *)
(***************************************************************************)
MovedInv == moved = {r \in Requests : result[r] = "ok"}

\* A step of request s that neither moves a row nor returns.
LEMMA NotMoved ==
  ASSUME MovedInv, NEW s \in Requests,
         UNCHANGED registry,
         \A r \in Requests \ {s} : result'[r] = result[r],
         result[s] # "ok", result'[s] # "ok",
         moved' = moved \cup {r \in Requests : MovesLabel(r)}
  PROVE  MovedInv'
  BY DEF MovedInv, MovesLabel

\* The end of request s's registry transaction.
LEMMA MovedNow ==
  ASSUME MovedInv, NEW s \in Requests,
         pc[s] \in {"commit", "retire_free", "restore"}, pc'[s] = "done",
         registry' # registry,
         \A r \in Requests \ {s} : pc'[r] = pc[r] /\ result'[r] = result[r],
         result'[s] = "ok",
         moved' = moved \cup {r \in Requests : MovesLabel(r)}
  PROVE  MovedInv'
  BY DEF MovedInv, MovesLabel

LEMMA CommitMoves ==
  ASSUME TrailIsKept, IInv, NEW s \in Requests, Commit(s) \/ RegistryOnly(s)
  PROVE  /\ Return(s, "ok")
         /\ pc[s] \in {"commit", "retire_free", "restore"}
         /\ registry' # registry
  <1>1. Label(s) \in Labels /\ registry \in [Labels -> Row]
    BY CallFields DEF IInv, CallInv, TypeOK, Commit, RegistryOnly, Label
  <1>2. CASE Commit(s)
    <2>1. /\ Return(s, "ok") /\ pc[s] = "commit" /\ Current(s)
          /\ registry' = [registry EXCEPT ![Label(s)] = Moved(s)]
      BY <1>2 DEF Commit, TrailIsKept
    <2>2. Op(s) = "rebind" => old[s] # New(s)
      BY <2>1 DEF IInv, CallInv, PastLookup
    <2>3. Moved(s) # registry[Label(s)]
      BY <1>1, <2>1, <2>2
         DEF Current, Moved, Row, Bind, Retire, Rebind, Unbind
    <2> QED
      BY <1>1, <2>1, <2>3
  <1>3. CASE RegistryOnly(s)
    <2>1. /\ Return(s, "ok") /\ pc[s] \in {"retire_free", "restore"}
          /\ registry[Label(s)].status = Required(s)
          /\ registry' = [registry EXCEPT ![Label(s)] = MovedAlone(s)]
      BY <1>3 DEF RegistryOnly, TrailIsKept
    <2>2. MovedAlone(s) # registry[Label(s)]
      BY <1>1, <2>1 DEF Required, MovedAlone, Row, Restore, Retire
    <2> QED
      BY <1>1, <2>1, <2>2
  <1> QED
    BY <1>2, <1>3

\* The other steps of a request that has arrived leave the table alone, and
\* none of them returns.
LEMMA OthersLinger ==
  ASSUME IInv, TrailInv, NEW s \in Requests,
         Handle(s) \/ LandUnanswered(s) \/ Crash(s),
         ~Commit(s), ~RegistryOnly(s)
  PROVE  /\ UNCHANGED registry
         /\ result[s] # "ok" /\ result'[s] # "ok"
         /\ \A r \in Requests \ {s} : pc'[r] = pc[r] /\ result'[r] = result[r]
  <1>1. pc[s] # "done"
    BY DEF Handle, LookupRefused, LookupPasses, LookupFails, RegistryOnlyRefused,
         ReadDevice, ReadDeviceTaken, ReadDeviceConflict, ReadDeviceFails, Patch,
         PatchFails, ClearOld, ClearOldFails, CommitFails, CompensateNeeded,
         CompensateNoop, CompensatePatch, CompensateFails, LandUnanswered, Crash,
         Active
  <1>2. result[s] # "ok"
    BY <1>1 DEF TrailInv
  <1>3. Refusal(s) # "ok"
    BY ConstantsAssumption
       DEF Refusal, BindRefusal, RetireRefusal, RebindRefusal, UnbindRefusal, Results
  <1>4. CASE \/ LookupRefused(s) \/ LookupPasses(s) \/ LookupFails(s)
             \/ RegistryOnlyRefused(s)
    BY <1>2, <1>3, <1>4
       DEF LookupRefused, LookupPasses, LookupFails, RegistryOnlyRefused, Return,
           Goto, stores, IInv, TypeOK
  <1>5. CASE \/ ReadDevice(s) \/ ReadDeviceTaken(s)
             \/ ReadDeviceConflict(s) \/ ReadDeviceFails(s)
    BY <1>2, <1>5
       DEF ReadDevice, ReadDeviceTaken, ReadDeviceConflict, ReadDeviceFails,
           Return, Goto, stores, IInv, TypeOK
  <1>6. CASE Patch(s) \/ PatchFails(s) \/ ClearOld(s) \/ ClearOldFails(s)
    BY <1>2, <1>6
       DEF Patch, PatchFails, ClearOld, ClearOldFails, Compensate, Return, Goto,
           stores, IInv, TypeOK
  <1>7. CASE CommitFails(s) \/ Crash(s) \/ LandUnanswered(s)
    BY <1>2, <1>7
       DEF CommitFails, Crash, LandUnanswered, Compensate, Return, Goto, stores,
           IInv, TypeOK
  <1>8. CASE \/ CompensateNeeded(s) \/ CompensateNoop(s)
             \/ CompensatePatch(s) \/ CompensateFails(s)
    BY <1>2, <1>8
       DEF CompensateNeeded, CompensateNoop, CompensatePatch, CompensateFails,
           Discharge, Goto, stores, IInv, TypeOK
  <1> QED
    BY <1>4, <1>5, <1>6, <1>7, <1>8 DEF Handle

LEMMA ServiceMoves ==
  ASSUME TrailIsKept, IInv, TrailInv, MovedInv, ServiceStep
  PROVE  MovedInv'
  <1>1. Next /\ moved' = moved \cup {r \in Requests : MovesLabel(r)}
    BY DEF ServiceStep
  <1>2. CASE UNCHANGED vars
    BY <1>1, <1>2 DEF vars, MovedInv, MovesLabel
  <1>3. ASSUME NEW d \in Devices, EditElsewhere(d) PROVE MovedInv'
    BY <1>1, <1>3 DEF EditElsewhere, stores, MovedInv, MovesLabel
  <1>4. ASSUME NEW s \in Requests, Send(s) PROVE MovedInv'
    BY <1>1, <1>4 DEF Send, stores, MovedInv, MovesLabel
  <1>5. ASSUME NEW s \in Requests, Commit(s) \/ RegistryOnly(s) PROVE MovedInv'
    <2>1. /\ pc'[s] = "done" /\ result'[s] = "ok"
          /\ \A r \in Requests \ {s} : pc'[r] = pc[r] /\ result'[r] = result[r]
      BY <1>5, CommitMoves DEF Return, Goto, IInv, TypeOK, Results
    <2> QED
      BY <1>1, <1>5, <2>1, CommitMoves, MovedNow
  <1>6. ASSUME NEW s \in Requests, Handle(s) \/ LandUnanswered(s) \/ Crash(s),
               ~Commit(s), ~RegistryOnly(s)
        PROVE  MovedInv'
    BY <1>1, <1>6, OthersLinger, NotMoved
  <1> QED
    BY <1>1, <1>2, <1>3, <1>4, <1>5, <1>6 DEF Next

-----------------------------------------------------------------------------
(***************************************************************************)
(* A client is told only once the service has ended, and told 200 only if  *)
(* it returned; from then on its request takes no step.                    *)
(***************************************************************************)
ReplyInv ==
  /\ reply \in [Requests -> Replies \cup {None}]
  /\ \A r \in Requests :
       /\ reply[r] # None => pc[r] = "done"
       /\ reply[r] = "ok" => result[r] = "ok"

EInv == IInv /\ TrailInv /\ MovedInv /\ ReplyInv

LEMMA InitEInv == EInit => EInv
  BY InitIInv, InitTrailInv, ConstantsAssumption
     DEF EInit, Init, EInv, MovedInv, ReplyInv, Results

\* A request whose service has ended stays as it is.
LEMMA DoneStays ==
  ASSUME IInv, Next, NEW r \in Requests, pc[r] = "done"
  PROVE  pc'[r] = "done" /\ result'[r] = result[r]
  <1>1. CASE UNCHANGED vars
    BY <1>1 DEF vars
  <1>2. ASSUME NEW d \in Devices, EditElsewhere(d) PROVE pc' = pc /\ result' = result
    BY <1>2 DEF EditElsewhere
  <1>3. ASSUME NEW s \in Requests, Send(s) PROVE pc'[r] = pc[r] /\ result' = result
    BY <1>3 DEF Send, Goto, IInv, TypeOK
  <1>4. ASSUME NEW s \in Requests, Handle(s) \/ LandUnanswered(s) \/ Crash(s)
        PROVE  pc'[r] = pc[r] /\ result'[r] = result[r]
    <2>1. CASE \/ LookupRefused(s) \/ LookupPasses(s) \/ LookupFails(s)
               \/ RegistryOnly(s) \/ RegistryOnlyRefused(s)
      BY <2>1 DEF LookupRefused, LookupPasses, LookupFails, RegistryOnly,
           RegistryOnlyRefused, Return, Goto, IInv, TypeOK
    <2>2. CASE \/ ReadDevice(s) \/ ReadDeviceTaken(s)
               \/ ReadDeviceConflict(s) \/ ReadDeviceFails(s)
      BY <2>2 DEF ReadDevice, ReadDeviceTaken, ReadDeviceConflict, ReadDeviceFails,
           Return, Goto, IInv, TypeOK
    <2>3. CASE \/ Patch(s) \/ PatchFails(s) \/ ClearOld(s) \/ ClearOldFails(s)
               \/ LandUnanswered(s) \/ Crash(s)
      BY <2>3 DEF Patch, PatchFails, ClearOld, ClearOldFails, LandUnanswered, Crash,
           Active, Compensate, Return, Goto, IInv, TypeOK
    <2>4. CASE Commit(s) \/ CommitFails(s)
      BY <2>4 DEF Commit, CommitFails, Compensate, Return, Goto, IInv, TypeOK
    <2>5. CASE \/ CompensateNeeded(s) \/ CompensateNoop(s)
               \/ CompensatePatch(s) \/ CompensateFails(s)
      BY <2>5 DEF CompensateNeeded, CompensateNoop, CompensatePatch, CompensateFails,
           Discharge, Goto, IInv, TypeOK
    <2> QED
      BY <1>4, <2>1, <2>2, <2>3, <2>4, <2>5 DEF Handle
  <1> QED
    BY <1>1, <1>2, <1>3, <1>4 DEF Next

LEMMA ENextEInv ==
  ASSUME TrailIsKept, EInv, [ENext]_evars
  PROVE  EInv'
  <1> USE DEF EInv
  <1>1. CASE UNCHANGED evars
    <2>1. UNCHANGED vars /\ UNCHANGED <<reply, moved>>
      BY <1>1 DEF evars
    <2> QED
      BY <2>1, NextIInv, TrailKept DEF MovedInv, ReplyInv, vars
  <1>2. CASE ServiceStep
    <2>1. Next /\ UNCHANGED reply
      BY <1>2 DEF ServiceStep
    <2>2. ReplyInv'
      BY <2>1, DoneStays, ConstantsAssumption DEF ReplyInv, Results
    <2> QED
      BY <1>2, <2>1, <2>2, NextIInv, TrailKept, ServiceMoves
  <1>3. ASSUME NEW r \in Requests, Respond(r) PROVE EInv'
    <2>1. PICK told \in Replies : Reply(r, told) /\ (told = "ok" => result[r] = "ok")
      BY <1>3 DEF Respond, RespondOk, RespondUnread, RespondError, ConnectionLost, Replies
    <2>2. /\ pc[r] = "done" /\ reply' = [reply EXCEPT ![r] = told]
          /\ UNCHANGED vars /\ UNCHANGED moved
      BY <2>1 DEF Reply
    <2>3. UNCHANGED <<pc, result>>
      BY <2>2 DEF vars
    <2>4. ReplyInv'
      BY <2>1, <2>2, <2>3 DEF ReplyInv
    <2>5. MovedInv'
      BY <2>2, <2>3 DEF MovedInv
    <2> QED
      BY <2>2, <2>4, <2>5, NextIInv, TrailKept
  <1>4. CASE DeleteRows
    <2>1. registry' \in [Labels -> Row]
      BY <1>4 DEF DeleteRows, Absent, Row, IInv, TypeOK
    <2>2. UNCHANGED <<shows, pc, call, old, seen, owes, result, trail, reply, moved>>
      BY <1>4 DEF DeleteRows, locals
    <2>3. IInv'
      BY <2>1, <2>2 DEF IInv, TypeOK, CallInv, Op, New
    <2>4. TrailInv' /\ MovedInv' /\ ReplyInv'
      BY <2>2 DEF TrailInv, MovedInv, ReplyInv, Attributed, Op
    <2> QED
      BY <2>3, <2>4
  <1> QED
    BY <1>1, <1>2, <1>3, <1>4 DEF ENext

\* If no audit row is lost and no commit leaves its outcome unknown, the rows
\* of a request that ended tell whether it moved its label, whatever its client
\* was told: a batch that cannot be read after the commit makes a 500 of an
\* operation that happened, and only the client is misled.
THEOREM TrailTells ==
  ASSUME TrailIsKept
  PROVE  ESpec => []TrailTellsOutcome
  <1>1. EInv /\ [ENext]_evars => EInv'
    BY ENextEInv
  <1>2. EInv => TrailTellsOutcome
    BY DEF EInv, TrailInv, MovedInv, ReplyInv, TrailTellsOutcome
  <1> QED
    BY <1>1, <1>2, InitEInv, PTL DEF ESpec
=============================================================================
