--------------------------- MODULE NodeRpcProofs ---------------------------
(***************************************************************************)
(* What holds of NodeRpc for any nodes, targets, slots, pods and hazards.  *)
(* Every step of a handler, of the orchestrator or of the controller is,   *)
(* seen from the record, a step of AlcubManager's general client; what     *)
(* AlcubManagerProofs shows of that client therefore holds here.  The last *)
(* part is about devices, mounts and pods.                                 *)
(***************************************************************************)
EXTENDS NodeRpc, AlcubManagerProofs

(* The part of NodeTypeOK about the handlers and the pods. *)
CallTypes ==
    /\ call \in [Nodes -> [Slots -> Call]]
    /\ \A n \in Nodes, s \in Slots :
          call[n][s].pc # "idle" => call[n][s].tgt \in Targets
    /\ pod \in [Nodes -> [Targets -> Pod]]
    /\ pods \in 0..MaxPods

(* The part about the storage service and the kernel. *)
DeviceTypes == conn \in SUBSET Nodes /\ mounted \in [Nodes -> SUBSET Targets]

NodeInv == TypeInv /\ CallTypes /\ DeviceTypes

-----------------------------------------------------------------------------
LEMMA IdleTypes ==
    /\ IdleCall \in Call /\ IdleCall.pc = "idle"
    /\ NoPod \in Pod
    /\ EmptyStatus \in Status
BY DEF IdleCall, Call, NoPod, Pod, EmptyStatus, Status, NodeOrNone

(* A slot may take any well-formed handler. *)
LEMMA SlotTypes ==
    ASSUME CallTypes, NEW n \in Nodes, NEW s \in Slots, NEW k \in Call,
           k.pc # "idle" => k.tgt \in Targets,
           call' = [call EXCEPT ![n][s] = k]
    PROVE  /\ call' \in [Nodes -> [Slots -> Call]]
           /\ \A m \in Nodes, r \in Slots :
                 call'[m][r].pc # "idle" => call'[m][r].tgt \in Targets
BY DEF CallTypes

LEMMA PodTypes ==
    ASSUME CallTypes, NEW n \in Nodes, NEW t \in Targets, NEW p \in Pod,
           pod' = [pod EXCEPT ![n][t] = p]
    PROVE  pod' \in [Nodes -> [Targets -> Pod]]
BY DEF CallTypes

LEMMA GotoTypes ==
    ASSUME CallTypes, NEW n \in Nodes, NEW s \in Slots,
           NEW pc \in PublishPcs \cup UnpublishPcs,
           call[n][s].pc # "idle", Goto(n, s, pc)
    PROVE  CallTypes'
<1> DEFINE k == [call[n][s] EXCEPT !.pc = pc]
<1>1. k \in Call /\ k.tgt \in Targets
  <2>1. call[n][s] \in Call /\ call[n][s].tgt \in Targets
    BY DEF CallTypes
  <2> QED BY <2>1 DEF Call, PublishPcs, UnpublishPcs
<1>2. call' = [call EXCEPT ![n][s] = k]
  BY DEF Goto, CallTypes
<1> QED BY <1>1, <1>2, SlotTypes DEF Goto, CallTypes

LEMMA FailTypes ==
    ASSUME CallTypes, NEW n \in Nodes, NEW s \in Slots, Fail(n, s)
    PROVE  CallTypes'
BY IdleTypes, SlotTypes DEF Fail, CallTypes

LEMMA SucceedTypes ==
    ASSUME CallTypes, NEW n \in Nodes, NEW s \in Slots, NEW p \in Pod,
           call[n][s].pc # "idle", Succeed(n, s, p)
    PROVE  CallTypes'
<1>1. call[n][s].tgt \in Targets
  BY DEF CallTypes
<1>2. pod' \in [Nodes -> [Targets -> Pod]]
  BY <1>1, PodTypes DEF Succeed, CallTypes
<1> QED BY <1>2, IdleTypes, SlotTypes DEF Succeed, CallTypes

(* What a handler writes is a status. *)
LEMMA StatusTypes ==
    ASSUME CallTypes, NEW n \in Nodes, NEW s \in Slots
    PROVE  /\ RecordedStatus(n, call[n][s].snap) \in Status
           /\ [call[n][s].snap EXCEPT !.node = NoNode] \in Status
<1>1. call[n][s].snap \in Status
  <2>1. call[n][s] \in Call
    BY DEF CallTypes
  <2> QED BY <2>1 DEF Call
<1> QED BY <1>1 DEF RecordedStatus, Status, NodeOrNone

-----------------------------------------------------------------------------
(* Seen from the record, a step of a handler is a status write, a call     *)
(* that failed, or nothing.                                                *)
LEMMA HandlerRefines ==
    ASSUME CallTypes, NEW n \in Nodes, NEW s \in Slots, HandlerStep(n, s)
    PROVE  \/ ClientWrite(n) /\ (UNCHANGED faults \/ Fault)
           \/ CallFails
           \/ UNCHANGED managerVars
<1> DEFINE Ok == \/ ClientWrite(n) /\ (UNCHANGED faults \/ Fault)
                 \/ CallFails
                 \/ UNCHANGED managerVars
<1>1. ASSUME UNCHANGED recordVars, UNCHANGED faults \/ Fault
      PROVE  CallFails \/ UNCHANGED managerVars
  BY <1>1 DEF recordVars, managerVars, CallFails
<1>2. ASSUME NEW st \in Status, NEW p, UpdateStatus(n, s, st, p) PROVE Ok
  BY <1>1, <1>2 DEF UpdateStatus, ClientWrite, managerVars, recordVars
<1>3. CASE attachDevice(n, s) \/ UndoAttach(n, s) \/ detachDevice(n, s)
  BY <1>1, <1>3 DEF attachDevice, UndoAttach, detachDevice, DoConn, DoDisConn
<1>4. CASE ProbeTarget(n, s) \/ FormatAndMount(n, s) \/ UnmountTarget(n, s)
  BY <1>1, <1>4 DEF ProbeTarget, FormatAndMount, UnmountTarget
<1>5. CASE RecordPublish(n, s) \/ ClearRecord(n, s)
  BY <1>2, <1>5, StatusTypes DEF RecordPublish, ClearRecord
<1> QED BY <1>3, <1>4, <1>5 DEF HandlerStep

LEMMA NodeRefines ==
    ASSUME CallTypes, [NodeNext]_vars
    PROVE  [ManagerNext]_managerVars
<1>1. CASE UNCHANGED vars
  BY <1>1 DEF vars
<1>2. ASSUME NEW n \in Nodes, NodeStep(n) PROVE [ManagerNext]_managerVars
  <2>1. n \in Procs
    BY NodeAssumption
  <2>2. CASE PluginRestart(n)
    BY <2>1, <2>2 DEF PluginRestart, ManagerNext
  <2>3. ASSUME NEW t \in Targets, SchedulePod(n, t) \/ DeletePod(n, t)
        PROVE  UNCHANGED managerVars
    BY <2>3 DEF SchedulePod, DeletePod
  <2>4. ASSUME NEW s \in Slots, NEW t \in Targets,
               NodePublishVolume(n, s, t) \/ NodeUnpublishVolume(n, s, t)
        PROVE  UNCHANGED managerVars
    BY <2>4 DEF NodePublishVolume, NodeUnpublishVolume
  <2>5. ASSUME NEW s \in Slots, HandlerStep(n, s)
        PROVE  [ManagerNext]_managerVars
    BY <2>1, <2>5, HandlerRefines DEF ManagerNext, ClientNext
  <2>6. ASSUME NEW s \in Slots, CallerTimeout(n, s) PROVE CallFails
    BY <2>6 DEF CallerTimeout, CallFails, recordVars
  <2> QED
    BY <1>2, <2>2, <2>3, <2>4, <2>5, <2>6 DEF NodeStep, ManagerNext, ClientNext
<1>3. ASSUME NEW p \in Procs \ Nodes, ControllerStep(p) PROVE ManagerNext
  BY <1>3 DEF ControllerStep, ManagerNext, ClientNext, ClientWrite
<1>4. ASSUME NEW p \in Procs, CacheStep(p) PROVE ManagerNext
  BY <1>4 DEF ManagerNext
<1> QED BY <1>1, <1>2, <1>3, <1>4 DEF NodeNext

-----------------------------------------------------------------------------
LEMMA HandlerTypes ==
    ASSUME CallTypes, DeviceTypes, NEW n \in Nodes, NEW s \in Slots,
           HandlerStep(n, s)
    PROVE  CallTypes' /\ DeviceTypes'
<1> USE DEF PublishPcs, UnpublishPcs, At
<1> DEFINE t == call[n][s].tgt
<1>1. ASSUME DoConn(n, TRUE) \/ DoConn(n, FALSE) \/ DoDisConn(n, TRUE)
               \/ DoDisConn(n, FALSE)
      PROVE  conn' \in SUBSET Nodes
  BY <1>1 DEF DoConn, DoDisConn, DeviceTypes
<1>2. ASSUME NEW st, NEW p \in Pod, UpdateStatus(n, s, st, p),
             call[n][s].pc # "idle"
      PROVE  CallTypes'
  BY <1>2, SucceedTypes, FailTypes DEF UpdateStatus
<1>3. CASE attachDevice(n, s)
  <2>1. CallTypes'
    BY <1>3, GotoTypes, FailTypes DEF attachDevice
  <2> QED BY <1>1, <1>3, <2>1 DEF attachDevice, DeviceTypes
<1>4. CASE ProbeTarget(n, s)
  <2>1. CallTypes'
    BY <1>4, GotoTypes DEF ProbeTarget
  <2> QED BY <1>4, <2>1 DEF ProbeTarget, DeviceTypes
<1>5. CASE FormatAndMount(n, s)
  <2>1. CallTypes'
    BY <1>5, GotoTypes DEF FormatAndMount
  <2>2. t \in Targets
    BY <1>5 DEF FormatAndMount, CallTypes
  <2> QED BY <1>5, <2>1, <2>2 DEF FormatAndMount, DeviceTypes
<1>6. CASE UndoAttach(n, s)
  <2>1. CallTypes'
    BY <1>6, FailTypes DEF UndoAttach
  <2> QED BY <1>1, <1>6, <2>1 DEF UndoAttach, DeviceTypes
<1>7. CASE RecordPublish(n, s)
  <2>1. t \in Targets
    BY <1>7 DEF RecordPublish, CallTypes
  <2>2. [pod[n][t] EXCEPT !.st = "published"] \in Pod
    <3>1. pod[n][t] \in Pod
      BY <2>1 DEF CallTypes
    <3> QED BY <3>1 DEF Pod
  <2>3. CallTypes'
    BY <1>2, <1>7, <2>2 DEF RecordPublish
  <2> QED BY <1>7, <2>3 DEF RecordPublish, DeviceTypes
<1>8. CASE UnmountTarget(n, s)
  <2>1. CallTypes'
    BY <1>8, GotoTypes, FailTypes DEF UnmountTarget
  <2> QED BY <1>8, <2>1 DEF UnmountTarget, DeviceTypes
<1>9. CASE detachDevice(n, s)
  <2>1. CallTypes'
    BY <1>9, GotoTypes, FailTypes DEF detachDevice
  <2> QED BY <1>1, <1>9, <2>1 DEF detachDevice, DeviceTypes
<1>10. CASE ClearRecord(n, s)
  <2>1. CallTypes'
    BY <1>2, <1>10, IdleTypes DEF ClearRecord
  <2> QED BY <1>10, <2>1 DEF ClearRecord, DeviceTypes
<1> QED
  BY <1>3, <1>4, <1>5, <1>6, <1>7, <1>8, <1>9, <1>10 DEF HandlerStep

LEMMA NodeStepTypes ==
    ASSUME NodeInv, NEW n \in Nodes, NodeStep(n)
    PROVE  CallTypes' /\ DeviceTypes'
<1> USE DEF NodeInv
<1>1. CASE PluginRestart(n)
  <2>1. [s \in Slots |-> IdleCall] \in [Slots -> Call]
    BY IdleTypes
  <2>2. /\ call' \in [Nodes -> [Slots -> Call]]
        /\ \A m \in Nodes, s \in Slots :
              call'[m][s].pc # "idle" => call'[m][s].tgt \in Targets
    BY <1>1, <2>1, IdleTypes DEF PluginRestart, CallTypes
  <2> QED BY <1>1, <2>2 DEF PluginRestart, CallTypes, DeviceTypes
<1>2. ASSUME NEW t \in Targets, SchedulePod(n, t)
      PROVE  CallTypes' /\ DeviceTypes'
  <2>1. [st |-> "placed", vol |-> Current.uuid] \in Pod
    BY ReadTypes DEF TypeInv, Object, Pod
  <2>2. pod' \in [Nodes -> [Targets -> Pod]]
    BY <1>2, <2>1, PodTypes DEF SchedulePod
  <2>3. pods' \in 0..MaxPods
    BY <1>2, NodeAssumption DEF SchedulePod, CallTypes
  <2> QED BY <1>2, <2>2, <2>3 DEF SchedulePod, CallTypes, DeviceTypes
<1>3. ASSUME NEW t \in Targets, DeletePod(n, t)
      PROVE  CallTypes' /\ DeviceTypes'
  <2>1. [pod[n][t] EXCEPT !.st = "unpublishing"] \in Pod
    <3>1. pod[n][t] \in Pod
      BY DEF CallTypes
    <3> QED BY <3>1 DEF Pod
  <2>2. \E p \in Pod : pod' = [pod EXCEPT ![n][t] = p]
    BY <1>3, <2>1, IdleTypes DEF DeletePod, CallTypes
  <2>3. pod' \in [Nodes -> [Targets -> Pod]]
    BY <2>2, PodTypes
  <2> QED BY <1>3, <2>3 DEF DeletePod, CallTypes, DeviceTypes
<1>4. ASSUME NEW s \in Slots, CallerTimeout(n, s)
      PROVE  CallTypes' /\ DeviceTypes'
  <2> DEFINE k == [call[n][s] EXCEPT !.waiting = FALSE]
  <2>1. k \in Call /\ (k.pc # "idle" => k.tgt \in Targets)
    <3>1. /\ call[n][s] \in Call
          /\ call[n][s].pc # "idle" => call[n][s].tgt \in Targets
      BY DEF CallTypes
    <3> QED BY <3>1 DEF Call
  <2>2. call' = [call EXCEPT ![n][s] = k]
    BY <1>4 DEF CallerTimeout, CallTypes
  <2> QED
    BY <1>4, <2>1, <2>2, SlotTypes DEF CallerTimeout, CallTypes, DeviceTypes
<1>5. ASSUME NEW s \in Slots, HandlerStep(n, s)
      PROVE  CallTypes' /\ DeviceTypes'
  BY <1>5, HandlerTypes
<1>6. Cached(n).status \in Status
  BY ReadTypes, NodeAssumption DEF TypeInv, Object
<1>7. ASSUME NEW s \in Slots, NEW t \in Targets, NodePublishVolume(n, s, t)
      PROVE  CallTypes' /\ DeviceTypes'
  <2>1. preMountValid(n, t) \in Call /\ preMountValid(n, t).tgt \in Targets
    BY <1>6 DEF preMountValid, Call, PublishPcs
  <2>2. [pod[n][t] EXCEPT !.st = "publishing"] \in Pod
    <3>1. pod[n][t] \in Pod
      BY DEF CallTypes
    <3> QED BY <3>1 DEF Pod
  <2>3. pod' = [pod EXCEPT ![n][t] = [pod[n][t] EXCEPT !.st = "publishing"]]
    BY <1>7 DEF NodePublishVolume, CallTypes
  <2>4. pod' \in [Nodes -> [Targets -> Pod]]
    BY <2>2, <2>3, PodTypes
  <2> QED
    BY <1>7, <2>1, <2>4, SlotTypes DEF NodePublishVolume, CallTypes, DeviceTypes
<1>8. ASSUME NEW s \in Slots, NEW t \in Targets, NodeUnpublishVolume(n, s, t)
      PROVE  CallTypes' /\ DeviceTypes'
  <2> DEFINE k == [pc |-> "unmount", tgt |-> t, snap |-> Cached(n).status,
                   waiting |-> TRUE]
  <2>1. k \in Call /\ k.tgt \in Targets
    BY <1>6 DEF Call, UnpublishPcs
  <2> QED
    BY <1>8, <2>1, SlotTypes DEF NodeUnpublishVolume, CallTypes, DeviceTypes
<1> QED
  BY <1>1, <1>2, <1>3, <1>4, <1>5, <1>7, <1>8 DEF NodeStep

LEMMA NodeInvInit == NodeInit => NodeInv
<1> SUFFICES ASSUME NodeInit PROVE NodeInv
  OBVIOUS
<1>1. TypeInv
  BY TypeInit DEF NodeInit
<1>2. CallTypes
  BY IdleTypes, NodeAssumption DEF NodeInit, CallTypes
<1>3. DeviceTypes
  BY DEF NodeInit, DeviceTypes
<1> QED BY <1>1, <1>2, <1>3 DEF NodeInv

LEMMA NodeInvNext == NodeInv /\ [NodeNext]_vars => NodeInv'
<1> SUFFICES ASSUME NodeInv, [NodeNext]_vars PROVE NodeInv'
  OBVIOUS
<1>1. TypeInv'
  BY NodeRefines, TypeNext DEF NodeInv
<1>2. CASE UNCHANGED nodeVars
  BY <1>1, <1>2 DEF NodeInv, nodeVars, CallTypes, DeviceTypes
<1>3. ASSUME NEW n \in Nodes, NodeStep(n) PROVE NodeInv'
  BY <1>1, <1>3, NodeStepTypes DEF NodeInv
<1> QED
  BY <1>2, <1>3 DEF NodeNext, ControllerStep, vars

(* Type correctness of the node service and of the record it shares. *)
THEOREM NodeTypeCorrect == NodeSpec => []NodeTypeOK
<1>1. NodeInv => NodeTypeOK
  BY DEF NodeInv, TypeInv, CallTypes, DeviceTypes, NodeTypeOK
<1> QED BY <1>1, NodeInvInit, NodeInvNext, PTL DEF NodeSpec

(* However the handlers of all nodes interleave, crash and are repeated,   *)
(* they use the record only as AlcubManager allows.                        *)
THEOREM NodeImplementsManager == NodeSpec => ImplementsManager
<1>1. NodeInit => ManagerInit
  BY DEF NodeInit
<1>2. NodeInv /\ [NodeNext]_vars => [ManagerNext]_managerVars
  BY NodeRefines DEF NodeInv
<1> QED
  BY <1>1, <1>2, NodeInvInit, NodeInvNext, PTL
     DEF NodeSpec, ImplementsManager, ManagerSpec

-----------------------------------------------------------------------------
(***************************************************************************)
(* Which statuses get into the record.  A handler writes one it built from *)
(* the status it read at its beginning (snap); all other writes keep the   *)
(* current status or empty it.                                             *)
(***************************************************************************)
Written(st) ==
    \/ st = EmptyStatus
    \/ st = Current.status
    \/ \E n \in Nodes, s \in Slots :
          \/ st = RecordedStatus(n, call[n][s].snap)
          \/ st = [call[n][s].snap EXCEPT !.node = NoNode]

LEMMA NodeWrites ==
    ASSUME NodeInv, [NodeNext]_vars
    PROVE  \/ log' = log
           \/ \E o \in Object : log' = Append(log, o) /\ Written(o.status)
<1> DEFINE Ok == \/ log' = log
                 \/ \E o \in Object : /\ log' = Append(log, o)
                                      /\ Written(o.status)
<1> USE ReadTypes, ObjectTypes DEF NodeInv, TypeInv
<1>1. CASE UNCHANGED managerVars
  BY <1>1 DEF managerVars
<1>2. ASSUME NEW n \in Nodes, NEW s \in Slots, NEW st \in Status, Written(st),
             NEW p, UpdateStatus(n, s, st, p)
      PROVE  Ok
  <2>1. CASE Update(n, st)
    <3>1. n \in Procs
      BY NodeAssumption
    <3>2. log' = Append(log, [Cached(n) EXCEPT !.status = st])
      BY <2>1 DEF Update, ClientCommit, Commit
    <3>3. [Cached(n) EXCEPT !.status = st].status = st
      BY <3>1 DEF Object
    <3>4. [Cached(n) EXCEPT !.status = st] \in Object
      BY <3>1
    <3> QED BY <1>2, <3>2, <3>3, <3>4
  <2> QED
    BY <1>2, <2>1 DEF UpdateStatus, managerVars, recordVars
<1>3. ASSUME NEW n \in Nodes, NEW s \in Slots,
             RecordPublish(n, s) \/ ClearRecord(n, s)
      PROVE  Ok
  <2>1. /\ Written(RecordedStatus(n, call[n][s].snap))
        /\ Written([call[n][s].snap EXCEPT !.node = NoNode])
    BY DEF Written
  <2> QED BY <1>2, <1>3, <2>1, StatusTypes DEF RecordPublish, ClearRecord
<1>4. ASSUME NEW p \in Procs, Delete(p) PROVE Ok
  <2>1. log' = Append(log, [Current EXCEPT !.phase = "Terminating"])
    BY <1>4 DEF Delete, ClientCommit, Commit
  <2>2. Written([Current EXCEPT !.phase = "Terminating"].status)
    BY DEF Object, Written
  <2> QED BY <2>1, <2>2
<1>5. ASSUME NEW p \in Procs, NEW u \in Uuids, ClientCreate(p, u) PROVE Ok
  <2>1. ASSUME NEW c \in Caps, CreateApply(p, u, c) PROVE Ok
    BY <2>1 DEF CreateApply, ClientCommit, Commit, NewObject, Written
  <2> QED
    BY <1>5, <2>1
       DEF ClientCreate, CreateBegin, CreateReturn, CreateRefused, CreateError
<1>6. ASSUME NEW p \in Procs, CacheStep(p) \/ Restart(p) PROVE Ok
  <2>1. CASE Commit(NoObject)
    BY <2>1 DEF Commit, NoObject, Written
  <2> QED
    BY <1>6, <2>1
       DEF CacheStep, WatchEvent, Resync, Reconcile, RemoveFinalizer, Restart
<1>7. ASSUME NEW n \in Nodes, NodeStep(n) PROVE Ok
  <2>1. CASE PluginRestart(n)
    BY <1>6, <2>1, NodeAssumption DEF PluginRestart
  <2>2. ASSUME NEW s \in Slots, HandlerStep(n, s) PROVE Ok
    BY <1>3, <2>2
       DEF HandlerStep, attachDevice, ProbeTarget, FormatAndMount, UndoAttach,
           UnmountTarget, detachDevice, recordVars
  <2>3. CASE UNCHANGED log
    BY <2>3
  <2> QED
    BY <1>7, <2>1, <2>2, <2>3
       DEF NodeStep, SchedulePod, DeletePod, CallerTimeout, NodePublishVolume,
           NodeUnpublishVolume, managerVars, recordVars
<1>8. ASSUME NEW p \in Procs \ Nodes, ControllerStep(p) PROVE Ok
  BY <1>4, <1>5, <1>6, <1>8 DEF ControllerStep
<1> QED BY <1>1, <1>6, <1>7, <1>8 DEF NodeNext, vars

-----------------------------------------------------------------------------
(* The address in a status that names a user is that user's own. *)
OwnAddress ==
    \A i \in DOMAIN log : log[i].status.node \in {NoNode, log[i].status.vi}

LEMMA OwnAddressNext ==
    NodeInv /\ OwnAddress /\ [NodeNext]_vars => OwnAddress'
<1> SUFFICES ASSUME NodeInv, OwnAddress, [NodeNext]_vars PROVE OwnAddress'
  OBVIOUS
<1> USE DEF NodeInv, TypeInv
<1>1. ASSUME NEW st, Written(st) PROVE st.node \in {NoNode, st.vi}
  <2>1. Current.status.node \in {NoNode, Current.status.vi}
    BY DEF OwnAddress, Current, ManagerTypeOK
  <2>2. \A n \in Nodes, s \in Slots : call[n][s].snap \in Status
    <3>1. \A n \in Nodes, s \in Slots : call[n][s] \in Call
      BY DEF CallTypes
    <3> QED BY <3>1 DEF Call
  <2>3. \A n \in Nodes, s \in Slots :
          [call[n][s].snap EXCEPT !.node = NoNode].node = NoNode
    BY <2>2 DEF Status
  <2>4. \A n \in Nodes, s \in Slots :
          RecordedStatus(n, call[n][s].snap).node
            = RecordedStatus(n, call[n][s].snap).vi
    BY DEF RecordedStatus
  <2>5. EmptyStatus.node = NoNode
    BY DEF EmptyStatus
  <2> QED BY <1>1, <2>1, <2>3, <2>4, <2>5 DEF Written
<1>2. CASE log' = log
  BY <1>2 DEF OwnAddress
<1>3. ASSUME NEW o \in Object, log' = Append(log, o), Written(o.status)
      PROVE  OwnAddress'
  BY <1>1, <1>3 DEF OwnAddress, ManagerTypeOK
<1> QED BY <1>2, <1>3, NodeWrites

(* The storage address any process holds for a node is that node's own,    *)
(* whichever stale status a handler wrote back: it was reported by a       *)
(* status that named the node (ManagerNodeInfo), and such a status carries *)
(* the node's own address.                                                 *)
THEOREM NodeInfoIsRight == NodeSpec => []NodeInfoRight
<1>1. NodeInit => OwnAddress
  BY DEF NodeInit, ManagerInit, OwnAddress, NoObject, EmptyStatus
<1>2. NodeInfoReported /\ OwnAddress => NodeInfoRight
  BY ResourceAssumption DEF NodeInfoReported, OwnAddress, NodeInfoRight
<1>3. NodeSpec => ManagerSpec
  BY NodeImplementsManager DEF ImplementsManager
<1> QED
  BY <1>1, <1>2, <1>3, NodeInvInit, NodeInvNext, OwnAddressNext,
     ManagerNodeInfo, PTL DEF NodeSpec

-----------------------------------------------------------------------------
(* The status a handler works with is one the record really had. *)
SnapsSeen ==
    \A n \in Nodes, s \in Slots :
        \/ call[n][s].snap = EmptyStatus
        \/ \E i \in DOMAIN log : call[n][s].snap = log[i].status

(* A handler keeps the status it read, or is over, or has just read one. *)
LEMMA SnapChange ==
    ASSUME NodeInv, [NodeNext]_vars, NEW m \in Nodes, NEW r \in Slots
    PROVE  call'[m][r].snap \in
               {call[m][r].snap, EmptyStatus, Cached(m).status}
<1> DEFINE Ok == call'[m][r].snap \in
                   {call[m][r].snap, EmptyStatus, Cached(m).status}
<1> USE DEF NodeInv, CallTypes
<1>1. CASE UNCHANGED call
  BY <1>1
<1>2. ASSUME NEW n \in Nodes, NEW s \in Slots, NEW k \in Call,
             call' = [call EXCEPT ![n][s] = k],
             k.snap \in {call[n][s].snap, EmptyStatus, Cached(n).status}
      PROVE  Ok
  BY <1>2
<1>3. IdleCall \in Call /\ IdleCall.snap = EmptyStatus
  BY IdleTypes DEF IdleCall
<1>4. ASSUME NEW n \in Nodes, NEW s \in Slots, HandlerStep(n, s) PROVE Ok
  <2>1. ASSUME NEW pc, Goto(n, s, pc) PROVE Ok
    <3>1. \A q \in Slots : call'[n][q].snap = call[n][q].snap
      <4>1. call[n] \in [Slots -> Call] /\ call[n][s] \in Call
        OBVIOUS
      <4>2. call' = [call EXCEPT ![n] = [call[n] EXCEPT
                       ![s] = [call[n][s] EXCEPT !.pc = pc]]]
        BY <2>1 DEF Goto
      <4>3. [call[n][s] EXCEPT !.pc = pc].snap = call[n][s].snap
        BY <4>1 DEF Call
      <4> QED BY <4>1, <4>2, <4>3
    <3>2. m # n => call'[m] = call[m]
      BY <2>1 DEF Goto
    <3> QED BY <3>1, <3>2
  <2>2. CASE call' = [call EXCEPT ![n][s] = IdleCall]
    BY <1>2, <1>3, <2>2
  <2> QED
    BY <1>4, <2>1, <2>2
       DEF HandlerStep, attachDevice, ProbeTarget, FormatAndMount, UndoAttach,
           RecordPublish, UnmountTarget, detachDevice, ClearRecord,
           UpdateStatus, Fail, Succeed
<1>5. ASSUME NEW n \in Nodes, NEW s \in Slots, CallerTimeout(n, s) PROVE Ok
  <2> DEFINE k == [call[n][s] EXCEPT !.waiting = FALSE]
  <2>1. k \in Call /\ k.snap = call[n][s].snap
    <3>1. call[n][s] \in Call
      OBVIOUS
    <3> QED BY <3>1 DEF Call
  <2>2. call' = [call EXCEPT ![n][s] = k]
    BY <1>5 DEF CallerTimeout
  <2> QED BY <1>2, <2>1, <2>2
<1>6. ASSUME NEW n \in Nodes, NEW s \in Slots, NEW t \in Targets,
             NodePublishVolume(n, s, t) \/ NodeUnpublishVolume(n, s, t)
      PROVE  Ok
  <2>1. Cached(n).status \in Status
    BY ReadTypes, NodeAssumption DEF TypeInv, Object
  <2>2. ASSUME NEW pc \in {"attach", "unmount"}
        PROVE  [pc |-> pc, tgt |-> t, snap |-> Cached(n).status,
                waiting |-> TRUE] \in Call
    BY <2>1 DEF Call, PublishPcs, UnpublishPcs
  <2>3. CASE NodePublishVolume(n, s, t)
    <3>1. /\ preMountValid(n, t) \in Call
          /\ preMountValid(n, t).snap = Cached(n).status
      BY <2>2 DEF preMountValid
    <3> QED BY <1>2, <2>3, <3>1 DEF NodePublishVolume
  <2>4. CASE NodeUnpublishVolume(n, s, t)
    BY <1>2, <2>2, <2>4 DEF NodeUnpublishVolume
  <2> QED BY <1>6, <2>3, <2>4
<1>7. ASSUME NEW n \in Nodes, PluginRestart(n) PROVE Ok
  <2>1. m = n => call'[m][r] = IdleCall
    BY <1>7 DEF PluginRestart
  <2>2. m # n => call'[m] = call[m]
    BY <1>7 DEF PluginRestart
  <2> QED BY <1>3, <2>1, <2>2
<1> QED
  BY <1>1, <1>4, <1>5, <1>6, <1>7
     DEF NodeNext, NodeStep, SchedulePod, DeletePod, ControllerStep, vars,
         nodeVars

LEMMA SnapsNext == NodeInv /\ SnapsSeen /\ [NodeNext]_vars => SnapsSeen'
<1> SUFFICES ASSUME NodeInv, SnapsSeen, [NodeNext]_vars,
                    NEW n \in Nodes, NEW s \in Slots
             PROVE  \/ call'[n][s].snap = EmptyStatus
                    \/ \E i \in DOMAIN log' : call'[n][s].snap = log'[i].status
  BY DEF SnapsSeen
<1>1. \A i \in DOMAIN log : i \in DOMAIN log' /\ log'[i] = log[i]
  BY NodeRefines, StepWrites, LogGrows DEF NodeInv, TypeInv, managerVars
<1>2. \E i \in DOMAIN log : Cached(n).status = log[i].status
  <2>1. n \in Procs
    BY NodeAssumption
  <2>2. seen[n] \in 1..Len(log) /\ DOMAIN log = 1..Len(log)
    BY <2>1 DEF NodeInv, TypeInv, ManagerTypeOK
  <2> QED BY <2>2, Zenon DEF Cached
<1> QED BY <1>1, <1>2, SnapChange DEF SnapsSeen

(* A prenode in a status about to be written names a user on record. *)
LEMMA PrenodeNext ==
    NodeInv /\ SnapsSeen /\ PrenodeWasUser /\ [NodeNext]_vars
        => PrenodeWasUser'
<1> SUFFICES ASSUME NodeInv, SnapsSeen, PrenodeWasUser, [NodeNext]_vars
             PROVE  PrenodeWasUser'
  OBVIOUS
<1> USE DEF NodeInv, TypeInv
<1> DEFINE User(x) == \E j \in DOMAIN log : log[j].status.node = x
<1>1. Len(log) \in Nat \ {0} /\ DOMAIN log = 1..Len(log)
  BY DEF ManagerTypeOK
<1>2. ASSUME NEW i \in DOMAIN log, log[i].status.prenode # NoNode
      PROVE  User(log[i].status.prenode)
  BY <1>1, <1>2 DEF PrenodeWasUser
<1>3. EmptyStatus.prenode = NoNode /\ EmptyStatus.node = NoNode
  BY DEF EmptyStatus
<1>4. ASSUME NEW n \in Nodes, NEW s \in Slots
      PROVE  /\ call[n][s].snap \in Status
             /\ call[n][s].snap.prenode # NoNode => User(call[n][s].snap.prenode)
             /\ call[n][s].snap.node # NoNode => User(call[n][s].snap.node)
  <2>1. call[n][s].snap \in Status
    <3>1. call[n][s] \in Call
      BY DEF CallTypes
    <3> QED BY <3>1 DEF Call
  <2> QED BY <1>2, <1>3, <2>1 DEF SnapsSeen
<1>5. ASSUME NEW st, Written(st), st.prenode # NoNode PROVE User(st.prenode)
  <2>1. CASE st = EmptyStatus
    BY <1>3, <1>5, <2>1
  <2>2. CASE st = Current.status
    BY <1>1, <1>2, <1>5, <2>2 DEF Current
  <2>3. ASSUME NEW n \in Nodes, NEW s \in Slots,
               st = RecordedStatus(n, call[n][s].snap)
        PROVE  User(st.prenode)
    BY <1>4, <1>5, <2>3 DEF RecordedStatus
  <2>4. ASSUME NEW n \in Nodes, NEW s \in Slots,
               st = [call[n][s].snap EXCEPT !.node = NoNode]
        PROVE  User(st.prenode)
    BY <1>4, <1>5, <2>4 DEF Status
  <2> QED BY <1>5, <2>1, <2>2, <2>3, <2>4 DEF Written
<1>6. CASE log' = log
  BY <1>6 DEF PrenodeWasUser
<1>7. ASSUME NEW o \in Object, log' = Append(log, o), Written(o.status)
      PROVE  PrenodeWasUser'
  <2>1. /\ DOMAIN log' = 1..(Len(log) + 1) /\ log'[Len(log) + 1] = o
        /\ \A i \in 1..Len(log) : log'[i] = log[i]
    BY <1>7 DEF ManagerTypeOK
  <2> SUFFICES ASSUME NEW i \in DOMAIN log', log'[i].status.prenode # NoNode
               PROVE  \E j \in 1..(i - 1) :
                          log'[j].status.node = log'[i].status.prenode
    BY DEF PrenodeWasUser
  <2>2. CASE i \in 1..Len(log)
    BY <1>1, <2>1, <2>2 DEF PrenodeWasUser
  <2>3. CASE i = Len(log) + 1
    BY <1>1, <1>5, <1>7, <2>1, <2>3
  <2> QED BY <1>1, <2>1, <2>2, <2>3
<1> QED BY <1>6, <1>7, NodeWrites

(* prenode always names a node that an earlier version recorded as the     *)
(* user, although successfn derives it from a status read before the       *)
(* device was attached and mounted and others wrote in between.            *)
THEOREM NodePrenodeWasUser == NodeSpec => []PrenodeWasUser
<1>1. NodeInit => PrenodeWasUser
  BY DEF NodeInit, ManagerInit, PrenodeWasUser, NoObject, EmptyStatus
<1>2. NodeInit => SnapsSeen
  BY DEF NodeInit, SnapsSeen, IdleCall
<1> QED
  BY <1>1, <1>2, NodeInvInit, NodeInvNext, SnapsNext, PrenodeNext, PTL
     DEF NodeSpec

-----------------------------------------------------------------------------
(***************************************************************************)
(* Devices, mounts and the record in step with the pods.  Every step is    *)
(* first reduced to what it does to handlers, pods, devices and the        *)
(* recorded user (NodeEffect).                                             *)
(***************************************************************************)

(* The handlers of all other slots go on undisturbed. *)
OtherCalls(n, s) ==
    \A m \in Nodes, r \in Slots : m # n \/ r # s => call'[m][r] = call[m][r]

Moves(n, s, pc) ==
    /\ call'[n][s].pc = pc /\ call'[n][s].tgt = call[n][s].tgt
    /\ call'[n][s].waiting = call[n][s].waiting
    /\ OtherCalls(n, s)

Ends(n, s) == call'[n][s].pc = "idle" /\ OtherCalls(n, s)

Begins(n, s, pc, t) ==
    /\ ~Awaited(n, t) /\ call[n][s].pc = "idle"
    /\ call'[n][s].pc = pc /\ call'[n][s].tgt = t /\ call'[n][s].waiting = TRUE
    /\ OtherCalls(n, s)

(* The pod at target t of node n gets into state st. *)
PodGets(n, t, st) ==
    /\ pod'[n][t].st = st
    /\ \A m \in Nodes, u \in Targets : m # n \/ u # t => pod'[m][u] = pod[m][u]

(* The record names x as its user. *)
UserSet(x) == Exists(Current') /\ Current'.status.node = x

(* A record that names a user stays and goes on naming it. *)
UserKept ==
    /\ Current'.status.node \in {Current.status.node, NoNode}
    /\ Exists(Current) /\ Current.status.node # NoNode
         => UserSet(Current.status.node)

(* What a handler does to devices and mounts, up to its last step. *)
DeviceEffect(n, s) ==
    \/ /\ call[n][s].pc = "attach" /\ UNCHANGED mounted
       /\ \/ conn' = conn \cup {n} /\ Moves(n, s, "probe")
          \/ conn' \in {conn, conn \cup {n}} /\ Ends(n, s)
    \/ /\ call[n][s].pc = "probe" /\ UNCHANGED <<conn, mounted>>
       /\ \/ call[n][s].tgt \in mounted[n] /\ Moves(n, s, "record")
          \/ Moves(n, s, "format") \/ Moves(n, s, "undo")
    \/ /\ call[n][s].pc = "format" /\ UNCHANGED conn
       /\ \/ /\ mounted' = [mounted EXCEPT ![n] = @ \cup {call[n][s].tgt}]
             /\ Moves(n, s, "record")
          \/ UNCHANGED mounted /\ Moves(n, s, "undo")
    \/ /\ call[n][s].pc = "undo" /\ UNCHANGED mounted
       /\ conn' \in {conn, conn \ {n}} /\ Ends(n, s)
    \/ /\ call[n][s].pc = "unmount" /\ UNCHANGED conn
       /\ \/ /\ mounted' = [mounted EXCEPT ![n] = @ \ {call[n][s].tgt}]
             /\ Moves(n, s, "detach") \/ Ends(n, s)
          \/ UNCHANGED mounted /\ Ends(n, s)
    \/ /\ call[n][s].pc = "detach" /\ UNCHANGED mounted
       /\ \/ conn' = conn \ {n} /\ Moves(n, s, "clear")
          \/ /\ "silentdetach" \in Hazards
             /\ UNCHANGED conn /\ Moves(n, s, "clear")
          \/ conn' \in {conn, conn \ {n}} /\ Ends(n, s)

(* What the last step of a handler does: the record, if it gets through,   *)
(* names x, and a waiting caller sees the pod become st.                   *)
LastEffect(n, s, x, st) ==
    /\ UNCHANGED <<conn, mounted>> /\ Ends(n, s)
    /\ \/ /\ UserSet(x)
          /\ \/ call[n][s].waiting /\ PodGets(n, call[n][s].tgt, st)
             \/ UNCHANGED pod
       \/ UserKept /\ UNCHANGED pod

HandlerEffect(n, s) ==
    \/ DeviceEffect(n, s) /\ UserKept /\ UNCHANGED pod
    \/ call[n][s].pc = "record" /\ LastEffect(n, s, n, "published")
    \/ call[n][s].pc = "clear" /\ LastEffect(n, s, NoNode, "none")

(* What the orchestrator does. *)
PodEffect(n, t) ==
    \/ /\ pod[n][t].st = "none" /\ PodGets(n, t, "placed") /\ UNCHANGED call
       /\ "takeover" \in Hazards \/ \A m \in Nodes \ {n} : NoPodOn(m)
    \/ /\ ~Awaited(n, t) /\ UNCHANGED call
       /\ \/ /\ \/ pod[n][t].st = "published"
                \/ pod[n][t].st = "publishing" /\ "abort" \in Hazards
             /\ PodGets(n, t, "unpublishing")
          \/ pod[n][t].st = "placed" /\ PodGets(n, t, "none")
    \/ \E s \in Slots :
          \/ /\ pod[n][t].st \in {"placed", "publishing"}
             /\ PodGets(n, t, "publishing") /\ Begins(n, s, "attach", t)
          \/ /\ pod[n][t].st = "unpublishing" /\ UNCHANGED pod
             /\ Begins(n, s, "unmount", t)

(* What else happens to the handlers. *)
CallEffect(n) ==
    /\ UNCHANGED pod
    /\ \/ \A m \in Nodes, s \in Slots :
             \/ call'[m][s].pc = "idle"
             \/ m # n /\ call'[m][s] = call[m][s]
       \/ /\ "timeout" \in Hazards
          /\ \E s \in Slots :
                /\ call'[n][s].pc = call[n][s].pc
                /\ call'[n][s].tgt = call[n][s].tgt
                /\ call'[n][s].waiting = FALSE /\ OtherCalls(n, s)

NodeEffect ==
    \/ UNCHANGED <<conn, mounted, call, pod>> /\ UserKept
    \/ \E n \in Nodes :
          \/ UNCHANGED <<conn, mounted>> /\ UserKept /\ CallEffect(n)
          \/ \E t \in Targets :
                UNCHANGED <<conn, mounted>> /\ UserKept /\ PodEffect(n, t)
          \/ \E s \in Slots : HandlerEffect(n, s)

-----------------------------------------------------------------------------
LEMMA SlotSet ==
    ASSUME CallTypes, NEW n \in Nodes, NEW s \in Slots, NEW k,
           call' = [call EXCEPT ![n][s] = k]
    PROVE  call'[n][s] = k /\ OtherCalls(n, s)
BY DEF CallTypes, OtherCalls

LEMMA GotoMoves ==
    ASSUME CallTypes, NEW n \in Nodes, NEW s \in Slots, NEW pc, Goto(n, s, pc)
    PROVE  Moves(n, s, pc) /\ UNCHANGED pod
<1> DEFINE k == [call[n][s] EXCEPT !.pc = pc]
<1>1. call[n][s] \in Call
  BY DEF CallTypes
<1>2. k.pc = pc /\ k.tgt = call[n][s].tgt /\ k.waiting = call[n][s].waiting
  BY <1>1 DEF Call
<1>3. call' = [call EXCEPT ![n][s] = k]
  BY DEF Goto, CallTypes
<1>4. call'[n][s] = k /\ OtherCalls(n, s)
  BY <1>3, SlotSet
<1> HIDE DEF k
<1> QED BY <1>2, <1>4 DEF Moves, Goto

LEMMA FailEnds ==
    ASSUME CallTypes, NEW n \in Nodes, NEW s \in Slots,
           call' = [call EXCEPT ![n][s] = IdleCall]
    PROVE  Ends(n, s)
BY SlotSet, IdleTypes DEF Ends

LEMMA PodSet ==
    ASSUME CallTypes, NEW n \in Nodes, NEW t \in Targets, NEW p,
           pod' = [pod EXCEPT ![n][t] = p]
    PROVE  PodGets(n, t, p.st)
BY DEF CallTypes, PodGets

(* Whatever is not a handler's status write keeps the user there is: the   *)
(* finalizer holds a record that names one.                                *)
LEMMA UserKeptCases ==
    ASSUME TypeInv
    PROVE  /\ log' = log => UserKept
           /\ \A p \in Procs :
                 CacheStep(p) \/ Restart(p) \/ Delete(p) => UserKept
           /\ \A p \in Procs, u \in Uuids : ClientCreate(p, u) => UserKept
<1> USE ReadTypes, ObjectTypes DEF TypeInv, UserKept, UserSet
<1>1. log' = log => UserKept
  BY DEF Current
<1>2. ASSUME NEW p \in Procs, Delete(p) PROVE UserKept
  <2>1. log' = Append(log, [Current EXCEPT !.phase = "Terminating"])
    BY <1>2 DEF Delete, ClientCommit, Commit
  <2>2. Current' = [Current EXCEPT !.phase = "Terminating"]
    BY <2>1, AppendEffect
  <2> QED BY <2>2 DEF Object, Exists
<1>3. ASSUME NEW p \in Procs, CacheStep(p) \/ Restart(p) PROVE UserKept
  <2>1. CASE /\ Cached(p).phase = "Terminating" /\ validBeDelete(Cached(p))
             /\ Writable(p) /\ Commit(NoObject)
    <3>1. Current.status.node = NoNode
      BY <2>1 DEF validBeDelete, Writable
    <3>2. Current' = NoObject
      BY <2>1, AppendEffect DEF Commit
    <3> QED BY <3>1, <3>2 DEF NoObject, EmptyStatus
  <2> QED
    BY <1>1, <1>3, <2>1
       DEF CacheStep, WatchEvent, Resync, Reconcile, RemoveFinalizer, Restart
<1>4. ASSUME NEW p \in Procs, NEW u \in Uuids, ClientCreate(p, u)
      PROVE  UserKept
  <2>1. ASSUME NEW c \in Caps, CreateApply(p, u, c) PROVE UserKept
    <3>1. Current.phase = "Absent" /\ Current' = NewObject(u, c)
      BY <2>1, AppendEffect DEF CreateApply, ClientCommit, Commit
    <3> QED BY <3>1 DEF NewObject, EmptyStatus, Exists
  <2> QED
    BY <1>1, <1>4, <2>1
       DEF ClientCreate, CreateBegin, CreateReturn, CreateRefused, CreateError
<1> QED BY <1>1, <1>2, <1>3, <1>4

LEMMA UpdateSets ==
    ASSUME TypeInv, NEW n \in Nodes, NEW st \in Status, Update(n, st)
    PROVE  UserSet(st.node)
<1> USE ReadTypes, ObjectTypes, NodeAssumption DEF TypeInv
<1>1. /\ Exists(Cached(n)) /\ Cached(n) \in Object
      /\ log' = Append(log, [Cached(n) EXCEPT !.status = st])
  BY DEF Update, Writable, ClientCommit, Commit
<1>2. Current' = [Cached(n) EXCEPT !.status = st]
  BY <1>1, AppendEffect
<1> QED BY <1>1, <1>2 DEF Object, UserSet, Exists

LEMMA UpdateStatusEffect ==
    ASSUME NodeInv, NEW n \in Nodes, NEW s \in Slots, NEW st \in Status, NEW p,
           call[n][s].tgt \in Targets, UNCHANGED <<conn, mounted>>,
           UpdateStatus(n, s, st, p)
    PROVE  LastEffect(n, s, st.node, p.st)
<1> USE DEF NodeInv, TypeInv
<1>1. Ends(n, s)
  BY FailEnds DEF UpdateStatus, Succeed, Fail
<1>2. CASE Update(n, st) /\ Succeed(n, s, p)
  <2>1. UserSet(st.node)
    BY <1>2, UpdateSets
  <2>2. \/ call[n][s].waiting /\ PodGets(n, call[n][s].tgt, p.st)
        \/ UNCHANGED pod
    BY <1>2, PodSet DEF Succeed
  <2> QED BY <1>1, <2>1, <2>2 DEF LastEffect
<1>3. CASE Update(n, st) /\ Fail(n, s)
  BY <1>1, <1>3, UpdateSets DEF LastEffect, Fail
<1>4. CASE log' = log /\ Fail(n, s)
  BY <1>1, <1>4, UserKeptCases DEF LastEffect, Fail
<1> QED BY <1>2, <1>3, <1>4 DEF UpdateStatus, managerVars, recordVars

LEMMA HandlerEffects ==
    ASSUME NodeInv, NEW n \in Nodes, NEW s \in Slots, HandlerStep(n, s)
    PROVE  HandlerEffect(n, s)
<1> USE DEF NodeInv, At
<1>1. \A pc : Goto(n, s, pc) => Moves(n, s, pc) /\ UNCHANGED pod
  BY GotoMoves
<1>2. Fail(n, s) => Ends(n, s) /\ UNCHANGED pod
  BY FailEnds DEF Fail
<1>3. ASSUME UNCHANGED recordVars, DeviceEffect(n, s), UNCHANGED pod
      PROVE  HandlerEffect(n, s)
  BY <1>3, UserKeptCases DEF recordVars, HandlerEffect
<1>4. ASSUME NEW ok \in BOOLEAN, DoDisConn(n, ok)
      PROVE  conn' \in {conn, conn \ {n}}
  BY <1>4 DEF DoDisConn
<1>5. CASE attachDevice(n, s)
  <2>1. DeviceEffect(n, s) /\ UNCHANGED pod
    BY <1>1, <1>2, <1>5 DEF attachDevice, DoConn, DeviceEffect
  <2> QED BY <1>3, <1>5, <2>1 DEF attachDevice
<1>6. CASE ProbeTarget(n, s)
  <2>1. DeviceEffect(n, s) /\ UNCHANGED pod
    BY <1>1, <1>6 DEF ProbeTarget, DeviceEffect
  <2> QED BY <1>3, <1>6, <2>1 DEF ProbeTarget
<1>7. CASE FormatAndMount(n, s)
  <2>1. DeviceEffect(n, s) /\ UNCHANGED pod
    BY <1>1, <1>7 DEF FormatAndMount, DeviceEffect
  <2> QED BY <1>3, <1>7, <2>1 DEF FormatAndMount
<1>8. CASE UndoAttach(n, s)
  <2>1. DeviceEffect(n, s) /\ UNCHANGED pod
    BY <1>2, <1>4, <1>8 DEF UndoAttach, DeviceEffect
  <2> QED BY <1>3, <1>8, <2>1 DEF UndoAttach
<1>9. CASE UnmountTarget(n, s)
  <2>1. DeviceEffect(n, s) /\ UNCHANGED pod
    BY <1>1, <1>2, <1>9 DEF UnmountTarget, DeviceEffect
  <2> QED BY <1>3, <1>9, <2>1 DEF UnmountTarget
<1>10. CASE detachDevice(n, s)
  <2>1. CASE DoDisConn(n, TRUE) /\ Goto(n, s, "clear")
    <3>1. conn' = conn \ {n} \/ ("silentdetach" \in Hazards /\ UNCHANGED conn)
      BY <2>1 DEF DoDisConn, May
    <3>2. DeviceEffect(n, s) /\ UNCHANGED pod
      BY <1>1, <1>10, <2>1, <3>1 DEF detachDevice, DeviceEffect
    <3> QED BY <1>3, <1>10, <3>2 DEF detachDevice
  <2>2. CASE DoDisConn(n, FALSE) /\ Fail(n, s)
    <3>1. DeviceEffect(n, s) /\ UNCHANGED pod
      BY <1>2, <1>4, <1>10, <2>2 DEF detachDevice, DeviceEffect
    <3> QED BY <1>3, <1>10, <3>1 DEF detachDevice
  <2> QED BY <1>10, <2>1, <2>2 DEF detachDevice
<1>11. CASE RecordPublish(n, s)
  <2>1. call[n][s].tgt \in Targets /\ pod[n][call[n][s].tgt] \in Pod
    BY <1>11 DEF RecordPublish, CallTypes
  <2>2. [pod[n][call[n][s].tgt] EXCEPT !.st = "published"].st = "published"
    BY <2>1 DEF Pod
  <2>3. RecordedStatus(n, call[n][s].snap) \in Status
        /\ RecordedStatus(n, call[n][s].snap).node = n
    BY StatusTypes DEF RecordedStatus
  <2>4. LastEffect(n, s, n, "published")
    BY <1>11, <2>1, <2>2, <2>3, UpdateStatusEffect DEF RecordPublish
  <2> QED BY <1>11, <2>4 DEF RecordPublish, HandlerEffect
<1>12. CASE ClearRecord(n, s)
  <2>1. call[n][s].tgt \in Targets /\ call[n][s].snap \in Status
    <3>1. call[n][s] \in Call
      BY DEF CallTypes
    <3> QED BY <1>12, <3>1 DEF ClearRecord, CallTypes, Call
  <2>2. [call[n][s].snap EXCEPT !.node = NoNode] \in Status
        /\ [call[n][s].snap EXCEPT !.node = NoNode].node = NoNode
        /\ NoPod.st = "none"
    BY <2>1, StatusTypes DEF Status, NoPod
  <2>3. LastEffect(n, s, NoNode, "none")
    BY <1>12, <2>1, <2>2, UpdateStatusEffect DEF ClearRecord
  <2> QED BY <1>12, <2>3 DEF ClearRecord, HandlerEffect
<1> QED
  BY <1>5, <1>6, <1>7, <1>8, <1>9, <1>10, <1>11, <1>12 DEF HandlerStep

LEMMA PodEffects ==
    ASSUME NodeInv, NEW n \in Nodes, NEW t \in Targets,
           \/ SchedulePod(n, t) \/ DeletePod(n, t)
           \/ \E s \in Slots :
                 NodePublishVolume(n, s, t) \/ NodeUnpublishVolume(n, s, t)
    PROVE  UNCHANGED <<conn, mounted>> /\ UserKept /\ PodEffect(n, t)
<1> USE DEF NodeInv
<1>1. UserKept /\ UNCHANGED <<conn, mounted>>
  BY UserKeptCases
     DEF SchedulePod, DeletePod, NodePublishVolume, NodeUnpublishVolume,
         managerVars
<1>2. \A st : [pod[n][t] EXCEPT !.st = st].st = st
  <2>1. pod[n][t] \in Pod
    BY DEF CallTypes
  <2> QED BY <2>1 DEF Pod
<1>3. ASSUME NEW st, pod' = [pod EXCEPT ![n][t].st = st]
      PROVE  PodGets(n, t, st)
  <2>1. pod' = [pod EXCEPT ![n][t] = [pod[n][t] EXCEPT !.st = st]]
    BY <1>3 DEF CallTypes
  <2> HIDE <1>3
  <2> QED BY <1>2, <2>1, PodSet
<1>4. CASE SchedulePod(n, t)
  <2>1. pod' = [pod EXCEPT ![n][t] = [st |-> "placed", vol |-> Current.uuid]]
    BY <1>4 DEF SchedulePod
  <2>2. PodGets(n, t, [st |-> "placed", vol |-> Current.uuid].st)
    BY <2>1, PodSet
  <2> QED BY <1>1, <1>4, <2>2 DEF SchedulePod, May, PodEffect
<1>5. CASE DeletePod(n, t)
  <2>1. pod' = [pod EXCEPT ![n][t] = NoPod] => PodGets(n, t, "none")
    <3>1. NoPod.st = "none"
      BY DEF NoPod
    <3> QED BY <3>1, PodSet
  <2> QED BY <1>1, <1>3, <1>5, <2>1 DEF DeletePod, May, PodEffect
<1>6. ASSUME NEW s \in Slots, NodePublishVolume(n, s, t)
      PROVE  PodEffect(n, t)
  <2>1. call'[n][s] = preMountValid(n, t) /\ OtherCalls(n, s)
    BY <1>6, SlotSet DEF NodePublishVolume
  <2>2. Begins(n, s, "attach", t)
    BY <1>6, <2>1 DEF NodePublishVolume, At, preMountValid, Begins
  <2> QED BY <1>3, <1>6, <2>2 DEF NodePublishVolume, PodEffect
<1>7. ASSUME NEW s \in Slots, NodeUnpublishVolume(n, s, t)
      PROVE  PodEffect(n, t)
  <2>1. call'[n][s] = [pc |-> "unmount", tgt |-> t, snap |-> Cached(n).status,
                       waiting |-> TRUE] /\ OtherCalls(n, s)
    BY <1>7, SlotSet DEF NodeUnpublishVolume
  <2>2. Begins(n, s, "unmount", t)
    BY <1>7, <2>1 DEF NodeUnpublishVolume, At, Begins
  <2> QED BY <1>7, <2>2 DEF NodeUnpublishVolume, PodEffect
<1> QED BY <1>1, <1>4, <1>5, <1>6, <1>7

LEMMA NodeEffects ==
    ASSUME NodeInv, [NodeNext]_vars
    PROVE  NodeEffect
<1> USE DEF NodeInv
<1>1. CASE UNCHANGED vars
  BY <1>1, UserKeptCases DEF vars, managerVars, nodeVars, NodeEffect
<1>2. ASSUME NEW n \in Nodes, PluginRestart(n) PROVE NodeEffect
  <2>1. UserKept
    BY <1>2, UserKeptCases, NodeAssumption DEF PluginRestart
  <2>2. \A m \in Nodes, s \in Slots :
             call'[m][s].pc = "idle" \/ (m # n /\ call'[m][s] = call[m][s])
    BY <1>2, IdleTypes DEF PluginRestart, CallTypes
  <2> QED BY <1>2, <2>1, <2>2 DEF PluginRestart, CallEffect, NodeEffect
<1>3. ASSUME NEW n \in Nodes, NEW t \in Targets,
             \/ SchedulePod(n, t) \/ DeletePod(n, t)
             \/ \E s \in Slots :
                   NodePublishVolume(n, s, t) \/ NodeUnpublishVolume(n, s, t)
      PROVE  NodeEffect
  BY <1>3, PodEffects DEF NodeEffect
<1>4. ASSUME NEW n \in Nodes, NEW s \in Slots, HandlerStep(n, s)
      PROVE  NodeEffect
  BY <1>4, HandlerEffects DEF NodeEffect
<1>5. ASSUME NEW n \in Nodes, NEW s \in Slots, CallerTimeout(n, s)
      PROVE  NodeEffect
  <2> DEFINE k == [call[n][s] EXCEPT !.waiting = FALSE]
  <2>1. call[n][s] \in Call
    BY DEF CallTypes
  <2>2. k.pc = call[n][s].pc /\ k.tgt = call[n][s].tgt /\ k.waiting = FALSE
    BY <2>1 DEF Call
  <2>3. call' = [call EXCEPT ![n][s] = k]
    BY <1>5 DEF CallerTimeout, CallTypes
  <2>4. call'[n][s] = k /\ OtherCalls(n, s)
    BY <2>3, SlotSet
  <2>5. UserKept
    BY <1>5, UserKeptCases DEF CallerTimeout, recordVars
  <2> HIDE DEF k
  <2> QED BY <1>5, <2>2, <2>4, <2>5
             DEF CallerTimeout, May, CallEffect, NodeEffect
<1>6. ASSUME NEW p \in Procs \ Nodes, ControllerStep(p) PROVE NodeEffect
  BY <1>6, UserKeptCases DEF ControllerStep, nodeVars, NodeEffect
<1>7. ASSUME NEW p \in Procs, CacheStep(p), UNCHANGED nodeVars PROVE NodeEffect
  BY <1>7, UserKeptCases DEF nodeVars, NodeEffect
<1> QED
  BY <1>1, <1>2, <1>3, <1>4, <1>5, <1>6, <1>7 DEF NodeNext, NodeStep

-----------------------------------------------------------------------------
(* One node at a time has a pod. *)
OneUser == \A m, n \in Nodes : m = n \/ NoPodOn(m) \/ NoPodOn(n)

(* One handler at a time runs on a node. *)
OneHandler ==
    \A n \in Nodes, s, r \in Slots :
        call[n][s].pc # "idle" /\ call[n][r].pc # "idle" => s = r

(* A disconnect that the storage service reports was performed. *)
Honest == "silentdetach" \notin Hazards

NoHandler(n) == \A s \in Slots : call[n][s].pc = "idle"

(* How far a pod is and what there is of the volume on its node. *)
PodDevice ==
    \A n \in Nodes, t \in Targets :
        /\ pod[n][t].st \in {"none", "placed"} =>
              NoHandler(n) /\ mounted[n] = {} /\ (Honest => n \notin conn)
        /\ pod[n][t].st = "published" =>
              NoHandler(n) /\ n \in conn /\ t \in mounted[n]

(* How far a pod is and whom the record names. *)
PodRecord ==
    \A n \in Nodes, t \in Targets :
        /\ pod[n][t].st \in {"none", "placed"} => Current.status.node # n
        /\ pod[n][t].st = "published" =>
              Exists(Current) /\ Current.status.node = n

(* How far a handler is and what there is of the volume on its node. *)
HandlerState ==
    \A n \in Nodes, s \in Slots :
        /\ call[n][s].pc \in {"probe", "format", "record"} => n \in conn
        /\ call[n][s].pc = "record" => call[n][s].tgt \in mounted[n]
        /\ call[n][s].pc \in {"detach", "clear"} =>
              call[n][s].tgt \notin mounted[n]
        /\ call[n][s].pc = "clear" /\ Honest => n \notin conn
        /\ call[n][s].pc # "idle" /\ call[n][s].waiting =>
              pod[n][call[n][s].tgt].st =
                  IF call[n][s].pc \in PublishPcs THEN "publishing"
                                                  ELSE "unpublishing"
        /\ call[n][s].pc # "idle" /\ "timeout" \notin Hazards =>
              call[n][s].waiting

(* Every node by itself. *)
DeviceSafe == OneHandler /\ PodDevice /\ HandlerState

NodeSafe == DeviceSafe /\ OneUser /\ PodRecord

(* How the orchestrator is meant to use a node: the volume has one place   *)
(* on it, and a call that is given up is not overtaken by its own retry,   *)
(* because none is given up or because the plugin serves one call at a     *)
(* time.                                                                   *)
NodeOrderly ==
    /\ \A t, u \in Targets : t = u
    /\ "timeout" \notin Hazards \/ \A s, r \in Slots : s = r

(* And the nodes: the volume has its pod on one at a time. *)
Orderly == NodeOrderly /\ "takeover" \notin Hazards

(* Pods stay where the others are. *)
LEMMA OneUserNext ==
    ASSUME Orderly, NodeInv, NodeSafe, NodeEffect
    PROVE  OneUser'
<1> USE DEF NodeSafe, DeviceSafe, OneUser, NoPodOn
<1>1. CASE UNCHANGED pod
  BY <1>1
<1>2. ASSUME NEW n \in Nodes, NEW t \in Targets, NEW st, PodGets(n, t, st),
             pod[n][t].st # "none"
      PROVE  OneUser'
  BY <1>2 DEF PodGets
<1>3. ASSUME NEW n \in Nodes, NEW t \in Targets, PodEffect(n, t) PROVE OneUser'
  BY <1>1, <1>2, <1>3 DEF PodEffect, PodGets, Orderly
<1>4. ASSUME NEW n \in Nodes, NEW s \in Slots, HandlerEffect(n, s)
      PROVE  OneUser'
  <2>1. CASE call[n][s].pc \in {"record", "clear"}
    <3>1. call[n][s].tgt \in Targets /\ pod[n][call[n][s].tgt].st # "none"
      BY <2>1 DEF NodeInv, CallTypes, PodDevice, NoHandler
    <3> QED BY <1>1, <1>2, <1>4, <2>1, <3>1 DEF HandlerEffect, LastEffect
  <2> QED BY <1>1, <1>4, <2>1 DEF HandlerEffect
<1> QED BY <1>1, <1>3, <1>4 DEF NodeEffect, CallEffect

(* Handlers of a node follow one another. *)
LEMMA BeginsAlone ==
    ASSUME NodeOrderly, NodeInv, DeviceSafe, NEW n \in Nodes, NEW s \in Slots,
           NEW t \in Targets, NEW pc, Begins(n, s, pc, t)
    PROVE  NoHandler(n)
<1>1. \A r \in Slots : call[n][r].pc # "idle" => call[n][r].tgt = t
  BY DEF NodeOrderly, NodeInv, CallTypes
<1> QED BY <1>1
           DEF Begins, Awaited, At, NodeOrderly, DeviceSafe, HandlerState,
               NoHandler

LEMMA OneHandlerNext ==
    ASSUME NodeOrderly, NodeInv, DeviceSafe, NodeEffect
    PROVE  OneHandler'
<1> USE DEF DeviceSafe, OneHandler
<1>1. CASE UNCHANGED call
  BY <1>1
<1>2. ASSUME NEW n \in Nodes, CallEffect(n) PROVE OneHandler'
  BY <1>2 DEF CallEffect, OtherCalls
<1>3. ASSUME NEW n \in Nodes, NEW s \in Slots, NEW t \in Targets, NEW pc,
             Begins(n, s, pc, t)
      PROVE  OneHandler'
  <2>1. NoHandler(n)
    BY <1>3, BeginsAlone
  <2> QED BY <1>3, <2>1 DEF Begins, OtherCalls, NoHandler
<1>4. ASSUME NEW n \in Nodes, NEW t \in Targets, PodEffect(n, t)
      PROVE  OneHandler'
  BY <1>1, <1>3, <1>4 DEF PodEffect
<1>5. ASSUME NEW n \in Nodes, NEW s \in Slots, OtherCalls(n, s),
             call[n][s].pc # "idle"
      PROVE  OneHandler'
  BY <1>5 DEF OtherCalls
<1>6. ASSUME NEW n \in Nodes, NEW s \in Slots, HandlerEffect(n, s)
      PROVE  OtherCalls(n, s) /\ call[n][s].pc # "idle"
  BY <1>6 DEF HandlerEffect, DeviceEffect, LastEffect, Moves, Ends
<1> QED BY <1>1, <1>2, <1>4, <1>5, <1>6 DEF NodeEffect

(* A node with a running handler has its pod half way. *)
LEMMA BusyPod ==
    ASSUME NodeOrderly, NodeInv, DeviceSafe, NEW n \in Nodes,
           NEW s \in Slots, call[n][s].pc # "idle"
    PROVE  /\ call[n][s].tgt \in Targets
           /\ pod[n][call[n][s].tgt].st \in {"publishing", "unpublishing"}
<1>1. call[n][s].tgt \in Targets /\ pod[n][call[n][s].tgt] \in Pod
  BY DEF NodeInv, CallTypes
<1> QED BY <1>1 DEF DeviceSafe, PodDevice, NoHandler, Pod

(* A handler leaves the other nodes alone. *)
LEMMA OtherNodes ==
    ASSUME NodeInv, NEW n \in Nodes, NEW s \in Slots, HandlerEffect(n, s),
           NEW m \in Nodes, m # n
    PROVE  /\ \A r \in Slots : call'[m][r] = call[m][r]
           /\ \A u \in Targets : pod'[m][u] = pod[m][u]
           /\ (m \in conn' <=> m \in conn) /\ mounted'[m] = mounted[m]
<1>1. OtherCalls(n, s)
  BY DEF HandlerEffect, DeviceEffect, LastEffect, Moves, Ends
<1>2. \A u \in Targets : pod'[m][u] = pod[m][u]
  BY DEF HandlerEffect, LastEffect, PodGets
<1>3. (m \in conn' <=> m \in conn) /\ mounted'[m] = mounted[m]
  BY DEF HandlerEffect, DeviceEffect, LastEffect, NodeInv, DeviceTypes
<1> QED BY <1>1, <1>2, <1>3 DEF OtherCalls

LEMMA PodDeviceNext ==
    ASSUME NodeOrderly, NodeInv, DeviceSafe, NodeEffect
    PROVE  PodDevice'
<1> SUFFICES ASSUME NEW m \in Nodes, NEW u \in Targets
             PROVE  /\ pod'[m][u].st \in {"none", "placed"} =>
                          /\ NoHandler(m)' /\ mounted'[m] = {}
                          /\ Honest => m \notin conn'
                    /\ pod'[m][u].st = "published" =>
                          NoHandler(m)' /\ m \in conn' /\ u \in mounted'[m]
  BY DEF PodDevice
<1> DEFINE Out == /\ NoHandler(m) /\ mounted[m] = {}
                  /\ Honest => m \notin conn
           In == NoHandler(m) /\ m \in conn /\ u \in mounted[m]
           Ok == /\ pod'[m][u].st \in {"none", "placed"} => Out'
                 /\ pod'[m][u].st = "published" => In'
<1> SUFFICES Ok
  OBVIOUS
<1>1. /\ pod[m][u].st \in {"none", "placed"} => Out
      /\ pod[m][u].st = "published" => In
  BY DEF DeviceSafe, PodDevice
<1>2. ASSUME m \in conn' <=> m \in conn, mounted'[m] = mounted[m],
             NoHandler(m) => NoHandler(m)'
      PROVE  (Out => Out') /\ (In => In')
  BY <1>2
<1>3. CASE UNCHANGED <<conn, mounted, call, pod>>
  <2>1. NoHandler(m) => NoHandler(m)'
    BY <1>3 DEF NoHandler
  <2> QED BY <1>1, <1>2, <1>3, <2>1
<1>4. ASSUME NEW n \in Nodes, UNCHANGED <<conn, mounted>>, CallEffect(n)
      PROVE  Ok
  <2>1. NoHandler(m) => NoHandler(m)'
    BY <1>4 DEF CallEffect, OtherCalls, NoHandler
  <2> QED BY <1>1, <1>2, <1>4, <2>1 DEF CallEffect
<1>5. ASSUME NEW n \in Nodes, NEW t \in Targets, UNCHANGED <<conn, mounted>>,
             PodEffect(n, t)
      PROVE  Ok
  <2>1. CASE UNCHANGED call
    <3>1. (Out => Out') /\ (In => In')
      BY <1>2, <1>5, <2>1 DEF NoHandler
    <3>2. \/ pod'[m][u] = pod[m][u]
          \/ pod'[m][u].st = "unpublishing"
          \/ pod[m][u].st = "placed" /\ pod'[m][u].st = "none"
          \/ pod[m][u].st = "none" /\ pod'[m][u].st = "placed"
      <4>1. \A pc : \A s \in Slots : Begins(n, s, pc, t) => pc = "idle"
        BY <2>1 DEF Begins
      <4>2. CASE m = n /\ u = t
        BY <1>5, <4>1, <4>2 DEF PodEffect, PodGets
      <4>3. CASE m # n \/ u # t
        BY <1>5, <4>1, <4>3 DEF PodEffect, PodGets
      <4> QED BY <4>2, <4>3
    <3> HIDE DEF Out, In
    <3> QED BY <1>1, <3>1, <3>2
  <2>2. ASSUME NEW s \in Slots, NEW pc, Begins(n, s, pc, t), m # n
        PROVE  (Out => Out') /\ (In => In')
    BY <1>2, <1>5, <2>2 DEF Begins, OtherCalls, NoHandler
  <2>3. ASSUME NEW s \in Slots, NEW pc, Begins(n, s, pc, t),
               pod'[n][t].st \in {"publishing", "unpublishing"},
               \A q \in Nodes, v \in Targets :
                   q # n \/ v # t => pod'[q][v] = pod[q][v]
        PROVE  Ok
    <3>1. CASE m = n
      BY <2>3, <3>1 DEF NodeOrderly
    <3>2. CASE m # n
      BY <1>1, <2>2, <2>3, <3>2
    <3> QED BY <3>1, <3>2
  <2> QED BY <1>5, <2>1, <2>3 DEF PodEffect, PodGets
<1>6. ASSUME NEW n \in Nodes, NEW s \in Slots, HandlerEffect(n, s) PROVE Ok
  <2> DEFINE t == call[n][s].tgt
  <2>1. OtherCalls(n, s) /\ call[n][s].pc # "idle"
    BY <1>6 DEF HandlerEffect, DeviceEffect, LastEffect, Moves, Ends
  <2>2. t \in Targets /\ pod[n][t].st \in {"publishing", "unpublishing"}
    BY <2>1, BusyPod
  <2>3. CASE m # n
    BY <1>1, <1>6, <2>3, OtherNodes DEF NoHandler
  <2>4. CASE m = n
    <3>1. u = t
      BY <2>2 DEF NodeOrderly
    <3>2. CASE UNCHANGED pod
      BY <2>2, <2>4, <3>1, <3>2
    <3>3. Ends(n, s) => NoHandler(n)'
      BY <2>1 DEF DeviceSafe, OneHandler, Ends, OtherCalls, NoHandler
    <3>4. CASE /\ call[n][s].pc = "record" /\ LastEffect(n, s, n, "published")
               /\ pod' # pod
      <4>1. n \in conn /\ t \in mounted[n]
        BY <3>4 DEF DeviceSafe, HandlerState
      <4> QED BY <2>4, <3>1, <3>3, <3>4, <4>1 DEF LastEffect, PodGets
    <3>5. CASE /\ call[n][s].pc = "clear" /\ LastEffect(n, s, NoNode, "none")
               /\ pod' # pod
      <4>1. (Honest => n \notin conn) /\ t \notin mounted[n]
        BY <3>5 DEF DeviceSafe, HandlerState
      <4>2. mounted[n] = {}
        BY <2>2, <4>1 DEF NodeOrderly, NodeInv, DeviceTypes
      <4> QED BY <2>4, <3>1, <3>3, <3>5, <4>1, <4>2 DEF LastEffect, PodGets
    <3> QED BY <1>6, <3>2, <3>4, <3>5 DEF HandlerEffect
  <2> QED BY <2>3, <2>4
<1> QED BY <1>3, <1>4, <1>5, <1>6 DEF NodeEffect

LEMMA PodRecordNext ==
    ASSUME Orderly, NodeInv, NodeSafe, NodeEffect
    PROVE  PodRecord'
<1> SUFFICES ASSUME NEW m \in Nodes, NEW u \in Targets
             PROVE  /\ pod'[m][u].st \in {"none", "placed"} =>
                          Current'.status.node # m
                    /\ pod'[m][u].st = "published" =>
                          Exists(Current') /\ Current'.status.node = m
  BY DEF PodRecord
<1>1. /\ pod[m][u].st \in {"none", "placed"} => Current.status.node # m
      /\ pod[m][u].st = "published" =>
            Exists(Current) /\ Current.status.node = m
  BY DEF NodeSafe, PodRecord
<1>2. m # NoNode
  BY ResourceAssumption
<1>3. ASSUME UserKept,
             \/ pod'[m][u] = pod[m][u]
             \/ pod'[m][u].st \in {"publishing", "unpublishing"}
             \/ /\ pod[m][u].st \in {"none", "placed"}
                /\ pod'[m][u].st \in {"none", "placed"}
      PROVE  /\ pod'[m][u].st \in {"none", "placed"} =>
                   Current'.status.node # m
             /\ pod'[m][u].st = "published" =>
                   Exists(Current') /\ Current'.status.node = m
  BY <1>1, <1>2, <1>3 DEF UserKept, UserSet
<1>4. CASE UNCHANGED pod /\ UserKept
  BY <1>3, <1>4
<1>5. ASSUME NEW n \in Nodes, NEW t \in Targets, PodEffect(n, t)
      PROVE  \/ pod'[m][u] = pod[m][u]
             \/ pod'[m][u].st \in {"publishing", "unpublishing"}
             \/ /\ pod[m][u].st \in {"none", "placed"}
                /\ pod'[m][u].st \in {"none", "placed"}
  <2>1. CASE m = n /\ u = t
    BY <1>5, <2>1 DEF PodEffect, PodGets
  <2>2. CASE m # n \/ u # t
    BY <1>5, <2>2 DEF PodEffect, PodGets
  <2> QED BY <2>1, <2>2
<1>6. ASSUME NEW n \in Nodes, NEW s \in Slots, HandlerEffect(n, s),
             ~(UNCHANGED pod /\ UserKept)
      PROVE  /\ pod'[m][u].st \in {"none", "placed"} =>
                   Current'.status.node # m
             /\ pod'[m][u].st = "published" =>
                   Exists(Current') /\ Current'.status.node = m
  <2> DEFINE t == call[n][s].tgt
  <2>1. /\ call[n][s].pc # "idle"
        /\ \/ UserSet(n) /\ (PodGets(n, t, "published") \/ UNCHANGED pod)
           \/ UserSet(NoNode) /\ (PodGets(n, t, "none") \/ UNCHANGED pod)
    BY <1>6 DEF HandlerEffect, LastEffect
  <2>2. t \in Targets /\ pod[n][t].st \in {"publishing", "unpublishing"}
    BY <2>1, BusyPod DEF Orderly, NodeSafe
  <2>3. CASE m # n
    <3>1. pod[m][u].st = "none" /\ pod'[m][u] = pod[m][u]
      BY <1>6, <2>2, <2>3, OtherNodes DEF NodeSafe, OneUser, NoPodOn
    <3> QED BY <1>2, <2>1, <2>3, <3>1 DEF UserSet
  <2>4. CASE m = n
    <3>1. u = t
      BY <2>2 DEF Orderly, NodeOrderly
    <3> QED BY <1>2, <2>1, <2>2, <2>4, <3>1 DEF UserSet, PodGets
  <2> QED BY <2>3, <2>4
<1> QED BY <1>3, <1>4, <1>5, <1>6 DEF NodeEffect, CallEffect

LEMMA HandlerStateNext ==
    ASSUME NodeOrderly, NodeInv, DeviceSafe, NodeEffect
    PROVE  HandlerState'
<1> DEFINE Held(m, r) ==
        /\ call[m][r].pc \in {"probe", "format", "record"} => m \in conn
        /\ call[m][r].pc = "record" => call[m][r].tgt \in mounted[m]
        /\ call[m][r].pc \in {"detach", "clear"} =>
              call[m][r].tgt \notin mounted[m]
        /\ call[m][r].pc = "clear" /\ Honest => m \notin conn
           Asked(m, r) ==
        /\ call[m][r].pc # "idle" /\ call[m][r].waiting =>
              pod[m][call[m][r].tgt].st =
                  IF call[m][r].pc \in PublishPcs THEN "publishing"
                                                  ELSE "unpublishing"
        /\ call[m][r].pc # "idle" /\ "timeout" \notin Hazards =>
              call[m][r].waiting
<1> SUFFICES ASSUME NEW m \in Nodes, NEW r \in Slots
             PROVE  Held(m, r)' /\ Asked(m, r)'
  BY DEF HandlerState
<1>1. Held(m, r) /\ Asked(m, r)
  BY DEF DeviceSafe, HandlerState
<1>2. CASE call'[m][r].pc = "idle"
  BY <1>2
<1>3. CASE UNCHANGED <<conn, mounted, call, pod>>
  BY <1>1, <1>3
<1>4. ASSUME NEW n \in Nodes, UNCHANGED <<conn, mounted>>, CallEffect(n)
      PROVE  Held(m, r)' /\ Asked(m, r)'
  BY <1>1, <1>4 DEF CallEffect, OtherCalls
<1>5. ASSUME NEW n \in Nodes, NEW t \in Targets, UNCHANGED <<conn, mounted>>,
             PodEffect(n, t), call'[m][r].pc # "idle"
      PROVE  Held(m, r)' /\ Asked(m, r)'
  <2>1. CASE UNCHANGED call
    <3>1. Held(m, r)'
      BY <1>1, <1>5, <2>1
    <3>2. call[m][r].tgt \in Targets
      BY <1>5, <2>1 DEF NodeInv, CallTypes
    <3>3. call[m][r].waiting =>
             pod'[m][call[m][r].tgt] = pod[m][call[m][r].tgt]
      <4>1. CASE ~Awaited(n, t)
        BY <1>5, <2>1, <3>2, <4>1 DEF PodEffect, PodGets, Awaited, At
      <4>2. CASE pod[n][t].st = "none"
        <5>1. m # n
          BY <1>5, <2>1, <4>2 DEF DeviceSafe, PodDevice, NoHandler
        <5> QED BY <1>5, <2>1, <3>2, <5>1 DEF PodEffect, PodGets
      <4> QED BY <1>5, <2>1, <4>1, <4>2 DEF PodEffect, Begins
    <3> QED BY <1>1, <2>1, <3>1, <3>3
  <2>2. ASSUME NEW s \in Slots, NEW pc \in {"attach", "unmount"},
               Begins(n, s, pc, t),
               pod'[n][t].st = IF pc = "attach" THEN "publishing"
                                                ELSE "unpublishing",
               \A q \in Nodes, v \in Targets :
                   q # n \/ v # t => pod'[q][v] = pod[q][v]
        PROVE  Held(m, r)' /\ Asked(m, r)'
    <3>1. NoHandler(n)
      BY <2>2, BeginsAlone
    <3>2. CASE m = n
      <4>1. r = s
        BY <1>5, <2>2, <3>1, <3>2 DEF Begins, OtherCalls, NoHandler
      <4> QED BY <2>2, <3>2, <4>1 DEF Begins, PublishPcs
    <3>3. CASE m # n
      <4>1. call'[m][r] = call[m][r] /\ call[m][r].tgt \in Targets
        BY <1>5, <2>2, <3>3 DEF Begins, OtherCalls, NodeInv, CallTypes
      <4>2. pod'[m][call[m][r].tgt] = pod[m][call[m][r].tgt]
        BY <2>2, <3>3, <4>1
      <4> QED BY <1>1, <1>5, <4>1, <4>2
    <3> QED BY <3>2, <3>3
  <2> QED BY <1>5, <2>1, <2>2 DEF PodEffect, PodGets
<1>6. ASSUME NEW n \in Nodes, NEW s \in Slots, HandlerEffect(n, s),
             call'[m][r].pc # "idle"
      PROVE  Held(m, r)' /\ Asked(m, r)'
  <2>1. OtherCalls(n, s) /\ call[n][s].pc # "idle"
    BY <1>6 DEF HandlerEffect, DeviceEffect, LastEffect, Moves, Ends
  <2>2. CASE m # n
    <3>1. call'[m][r] = call[m][r] /\ call[m][r].tgt \in Targets
      BY <1>6, <2>1, <2>2 DEF OtherCalls, NodeInv, CallTypes
    <3>2. pod'[m][call[m][r].tgt] = pod[m][call[m][r].tgt]
      BY <1>6, <2>2, <3>1 DEF HandlerEffect, LastEffect, PodGets
    <3>3. (m \in conn' <=> m \in conn) /\ mounted'[m] = mounted[m]
      BY <1>6, <2>2
         DEF HandlerEffect, DeviceEffect, LastEffect, NodeInv, DeviceTypes
    <3> QED BY <1>1, <3>1, <3>2, <3>3
  <2>3. CASE m = n
    <3>1. r = s
      BY <1>6, <2>1, <2>3 DEF DeviceSafe, OneHandler, OtherCalls
    <3>2. DeviceEffect(n, s) /\ UNCHANGED pod
      BY <1>6, <2>3, <3>1 DEF HandlerEffect, LastEffect, Ends
    <3>3. Held(n, s)'
      BY <1>1, <1>6, <2>3, <3>1, <3>2
         DEF DeviceEffect, Moves, Ends, Honest, NodeInv, DeviceTypes
    <3>4. Asked(n, s)'
      BY <1>1, <1>6, <2>3, <3>1, <3>2 DEF DeviceEffect, Moves, Ends, PublishPcs
    <3> QED BY <2>3, <3>1, <3>3, <3>4
  <2> QED BY <2>2, <2>3
<1> QED BY <1>2, <1>3, <1>4, <1>5, <1>6 DEF NodeEffect

(* A pod that had its volume keeps the device until it is unmounted: only  *)
(* handlers of NodeUnpublishVolume run, which disconnect last.             *)
MountHeld ==
    \A n \in Nodes, t \in Targets : pod[n][t].st = "unpublishing" =>
        /\ \A s \in Slots : call[n][s].pc \in {"idle"} \cup UnpublishPcs
        /\ t \in mounted[n] => n \in conn

LEMMA MountHeldNext ==
    ASSUME NodeOrderly, "abort" \notin Hazards, NodeInv, DeviceSafe,
           MountHeld, NodeEffect
    PROVE  MountHeld'
<1> SUFFICES ASSUME NEW m \in Nodes, NEW u \in Targets,
                    pod'[m][u].st = "unpublishing"
             PROVE  /\ \A r \in Slots :
                          call'[m][r].pc \in {"idle"} \cup UnpublishPcs
                    /\ u \in mounted'[m] => m \in conn'
  BY DEF MountHeld
<1>1. ASSUME pod[m][u].st = "published"
      PROVE  NoHandler(m) /\ m \in conn
  BY <1>1 DEF DeviceSafe, PodDevice
<1>2. ASSUME pod[m][u].st = "unpublishing"
      PROVE  /\ \A r \in Slots : call[m][r].pc \in {"idle"} \cup UnpublishPcs
             /\ u \in mounted[m] => m \in conn
  BY <1>2 DEF MountHeld
<1>3. CASE UNCHANGED <<conn, mounted, call, pod>>
  BY <1>2, <1>3
<1>4. ASSUME NEW n \in Nodes, UNCHANGED <<conn, mounted>>, CallEffect(n)
      PROVE  /\ \A r \in Slots :
                   call'[m][r].pc \in {"idle"} \cup UnpublishPcs
             /\ u \in mounted'[m] => m \in conn'
  BY <1>2, <1>4 DEF CallEffect, OtherCalls
<1>5. ASSUME NEW n \in Nodes, NEW t \in Targets, UNCHANGED <<conn, mounted>>,
             PodEffect(n, t)
      PROVE  /\ \A r \in Slots :
                   call'[m][r].pc \in {"idle"} \cup UnpublishPcs
             /\ u \in mounted'[m] => m \in conn'
  <2>1. CASE UNCHANGED call
    <3>1. \A pc : \A s \in Slots : Begins(n, s, pc, t) => pc = "idle"
      BY <2>1 DEF Begins
    <3>2. pod[m][u].st \in {"published", "unpublishing"}
      <4>1. CASE m = n /\ u = t
        BY <1>5, <3>1, <4>1 DEF PodEffect, PodGets
      <4>2. CASE m # n \/ u # t
        BY <1>5, <3>1, <4>2 DEF PodEffect, PodGets
      <4> QED BY <4>1, <4>2
    <3> QED BY <1>1, <1>2, <1>5, <2>1, <3>2 DEF NoHandler
  <2>2. ASSUME NEW s \in Slots, pod'[n][t].st = "publishing",
               PodGets(n, t, "publishing"), Begins(n, s, "attach", t)
        PROVE  pod'[m][u] = pod[m][u] /\ m # n
    BY <2>2 DEF PodGets, NodeOrderly
  <2>3. ASSUME NEW s \in Slots, UNCHANGED pod, Begins(n, s, "unmount", t)
        PROVE  \A r \in Slots : call'[m][r].pc \in {"idle"} \cup UnpublishPcs
    BY <1>2, <2>3 DEF Begins, OtherCalls, UnpublishPcs
  <2>4. ASSUME NEW s \in Slots, PodGets(n, t, "publishing"),
               Begins(n, s, "attach", t)
        PROVE  \A r \in Slots : call'[m][r].pc \in {"idle"} \cup UnpublishPcs
    BY <1>2, <2>2, <2>4 DEF Begins, OtherCalls, PodGets
  <2>5. ASSUME NEW s \in Slots, PodGets(n, t, "publishing")
        PROVE  pod[m][u].st = "unpublishing"
    BY <2>5 DEF PodGets
  <2> QED BY <1>2, <1>5, <2>1, <2>3, <2>4, <2>5 DEF PodEffect
<1>6. ASSUME NEW n \in Nodes, NEW s \in Slots, HandlerEffect(n, s)
      PROVE  /\ \A r \in Slots :
                   call'[m][r].pc \in {"idle"} \cup UnpublishPcs
             /\ u \in mounted'[m] => m \in conn'
  <2>1. OtherCalls(n, s) /\ call[n][s].pc # "idle"
    BY <1>6 DEF HandlerEffect, DeviceEffect, LastEffect, Moves, Ends
  <2>2. /\ call[n][s].tgt \in Targets
        /\ pod[n][call[n][s].tgt].st \in {"publishing", "unpublishing"}
    BY <2>1, BusyPod
  <2>3. CASE m # n
    BY <1>2, <1>6, <2>3, OtherNodes
  <2>4. CASE m = n
    <3>1. pod[n][u].st = "unpublishing" /\ u = call[n][s].tgt
      BY <1>6, <2>2, <2>4 DEF NodeOrderly, HandlerEffect, LastEffect, PodGets
    <3>2. call[n][s].pc \in UnpublishPcs
      BY <1>2, <2>1, <2>4, <3>1
    <3>3. u \notin mounted[n] \/ call[n][s].pc = "unmount"
      BY <3>1, <3>2 DEF DeviceSafe, HandlerState, UnpublishPcs
    <3>4. /\ call'[n][s].pc \in {"idle"} \cup UnpublishPcs
          /\ u \in mounted'[n] => u \in mounted[n] /\ conn' = conn
      BY <1>6, <3>2, <3>3
         DEF HandlerEffect, DeviceEffect, LastEffect, Moves, Ends,
             UnpublishPcs, NodeInv, DeviceTypes
    <3> QED BY <1>2, <2>1, <2>4, <3>1, <3>4 DEF OtherCalls
  <2> QED BY <2>3, <2>4
<1> QED BY <1>3, <1>4, <1>5, <1>6 DEF NodeEffect

LEMMA NodeSafeInit == NodeInit => NodeSafe
<1>1. NodeInit => Current.status.node = NoNode
  BY DEF NodeInit, ManagerInit, Current, NoObject, EmptyStatus
<1> QED
  BY <1>1, ResourceAssumption, IdleTypes
     DEF NodeInit, NodeSafe, DeviceSafe, OneUser, OneHandler, PodDevice,
         PodRecord, HandlerState, NoPodOn, NoHandler, NoPod

LEMMA DeviceSafeNext ==
    ASSUME NodeOrderly, NodeInv, DeviceSafe, NodeEffect
    PROVE  DeviceSafe'
BY OneHandlerNext, PodDeviceNext, HandlerStateNext DEF DeviceSafe

LEMMA NodeSafeNext ==
    ASSUME Orderly, NodeInv, NodeSafe, NodeEffect
    PROVE  NodeSafe'
BY DeviceSafeNext, OneUserNext, PodRecordNext DEF NodeSafe, Orderly

LEMMA NodeSafeAlways ==
    ASSUME Orderly
    PROVE  NodeSpec => [](NodeInv /\ NodeSafe)
<1>1. NodeInit => NodeInv /\ NodeSafe
  BY NodeInvInit, NodeSafeInit
<1>2. (NodeInv /\ NodeSafe) /\ [NodeNext]_vars => (NodeInv /\ NodeSafe)'
  BY NodeInvNext, NodeEffects, NodeSafeNext
<1> QED BY <1>1, <1>2, PTL DEF NodeSpec

(* InUseRecorded holds for any number of nodes, records, restarts, lost    *)
(* answers and aborted calls: whatever a failed NodePublishVolume left     *)
(* behind, a pod that was told its volume is published has it connected    *)
(* and mounted and is named in the record, which Reconcile therefore       *)
(* keeps.                                                                  *)
THEOREM NodeInUseRecorded ==
    ASSUME Orderly
    PROVE  NodeSpec => []InUseRecorded
<1>1. NodeInv /\ NodeSafe => InUseRecorded
  BY DEF NodeSafe, DeviceSafe, PodDevice, PodRecord, InUseRecorded
<1> QED BY <1>1, NodeSafeAlways, PTL

(* TornDownClean, where disconnects that are reported were performed:      *)
(* NodeUnpublishVolume answers only after unmount, disconnect and the      *)
(* cleared status, and a publish that failed half way is cleaned up by the *)
(* unpublish the orchestrator still makes, so a node without pods keeps    *)
(* neither device nor mount nor is it named in the record.                 *)
THEOREM NodeTornDownClean ==
    ASSUME Orderly, Honest, Targets # {}
    PROVE  NodeSpec => []TornDownClean
<1>1. NodeInv /\ NodeSafe => TornDownClean
  BY DEF NodeSafe, DeviceSafe, PodDevice, PodRecord, NoPodOn, TornDownClean
<1> QED BY <1>1, NodeSafeAlways, PTL

(* OneNodeConnected, under the same conditions: attachDevice never looks   *)
(* whether another node has the image; one connection at a time follows    *)
(* from pods being torn down on one node before the next one gets one.     *)
THEOREM NodeOneConnected ==
    ASSUME Orderly, Honest, Targets # {}
    PROVE  NodeSpec => []OneNodeConnected
<1>1. NodeInv /\ NodeSafe => OneNodeConnected
  <2> SUFFICES ASSUME NodeInv, NodeSafe, NEW m \in conn, NEW n \in conn
               PROVE  m = n
    BY DEF OneNodeConnected
  <2>1. m \in Nodes /\ n \in Nodes
    BY DEF NodeInv, DeviceTypes
  <2>2. ~NoPodOn(m) /\ ~NoPodOn(n)
    BY <2>1 DEF NodeSafe, DeviceSafe, PodDevice, NoPodOn
  <2> QED BY <2>1, <2>2 DEF NodeSafe, OneUser
<1> QED BY <1>1, NodeSafeAlways, PTL
=============================================================================
