---------------------------- MODULE SystemProofs ----------------------------
(***************************************************************************)
(* What holds of the driver as a whole for any number of nodes, slots,     *)
(* uuids and faults.  NodeRpcProofs and ControlSafetyProofs reduce a step  *)
(* of one service to its effect and show their invariants from that effect *)
(* alone.  Here every step of the system is shown to have an effect of     *)
(* both kinds: a step of the controller looks to the nodes like a creation *)
(* or a deletion of the record, a step of a node looks to the controller   *)
(* like a write of the status.  So the invariants of both services hold in *)
(* the system, and the properties that need both follow.                   *)
(***************************************************************************)
EXTENDS System, TLAPS

NP == INSTANCE NodeRpcProofs WITH call <- ncall, Slots <- NodeSlots,
                                  Hazards <- NodeHazards

CP == INSTANCE ControlSafetyProofs WITH call <- ccall, use <- Use,
                                        Slots <- ControlSlots,
                                        Hazards <- ControlHazards

-----------------------------------------------------------------------------
(* NP and NodeService, CP and ControlService are the same specification    *)
(* under two names: what the system is built from, and what the theorems   *)
(* are about.                                                              *)
LEMMA SameKinds ==
    /\ NP!HazardKinds = NodeService!HazardKinds
    /\ CP!HazardKinds = ControlService!HazardKinds
BY DEF NP!HazardKinds, NodeService!HazardKinds, CP!HazardKinds,
       ControlService!HazardKinds

LEMMA SameInit == SystemInit => NP!NodeInit /\ CP!ControlInit
BY DEF SystemInit, NodeService!NodeInit, NP!NodeInit, NodeService!ManagerInit,
       NP!ManagerInit, NodeService!NoObject, NP!NoObject,
       NodeService!EmptyStatus, NP!EmptyStatus, NodeService!NoNodeInfo,
       NP!NoNodeInfo, NodeService!IdleCall, NP!IdleCall, NodeService!NoPod,
       NP!NoPod,
       ControlService!ControlInit, CP!ControlInit, ControlService!ManagerInit,
       CP!ManagerInit, ControlService!NoObject, CP!NoObject,
       ControlService!EmptyStatus, CP!EmptyStatus, ControlService!NoNodeInfo,
       CP!NoNodeInfo, ControlService!IdleCall, CP!IdleCall,
       ControlService!NoImage, CP!NoImage

LEMMA SameCacheStep ==
    ASSUME NEW p
    PROVE  CacheStep(p) => NP!CacheStep(p) /\ CP!CacheStep(p)
<1> USE DEF CacheStep, WatchEvent, Resync, Reconcile, RemoveFinalizer,
            validBeDelete, Writable, UpToDate, Exists, Cached, Current, Commit,
            Fault, NoObject, EmptyStatus, reverseUuid, reverseNode
<1>1. CacheStep(p) => NP!CacheStep(p)
  BY DEF NP!CacheStep, NP!WatchEvent, NP!Resync, NP!Reconcile,
         NP!RemoveFinalizer, NP!validBeDelete, NP!Writable, NP!UpToDate,
         NP!Exists, NP!Cached, NP!Current, NP!Commit, NP!Fault, NP!NoObject,
         NP!EmptyStatus, NP!reverseUuid, NP!reverseNode
<1>2. CacheStep(p) => CP!CacheStep(p)
  BY DEF CP!CacheStep, CP!WatchEvent, CP!Resync, CP!Reconcile,
         CP!RemoveFinalizer, CP!validBeDelete, CP!Writable, CP!UpToDate,
         CP!Exists, CP!Cached, CP!Current, CP!Commit, CP!Fault, CP!NoObject,
         CP!EmptyStatus, CP!reverseUuid, CP!reverseNode
<1> QED BY <1>1, <1>2

LEMMA SameNodeHandler ==
    ASSUME NEW n, NEW s
    PROVE  NodeService!HandlerStep(n, s) => NP!HandlerStep(n, s)
<1> USE DEF NodeService!At, NP!At, NodeService!Goto, NP!Goto, NodeService!Fail,
            NP!Fail, NodeService!IdleCall, NP!IdleCall,
            NodeService!EmptyStatus, NP!EmptyStatus, NodeService!Fault,
            NP!Fault, NodeService!recordVars, NP!recordVars, NodeService!May,
            NP!May
<1>1. NodeService!attachDevice(n, s) => NP!attachDevice(n, s)
  BY DEF NodeService!attachDevice, NP!attachDevice, NodeService!DoConn,
         NP!DoConn
<1>2. NodeService!ProbeTarget(n, s) => NP!ProbeTarget(n, s)
  BY DEF NodeService!ProbeTarget, NP!ProbeTarget
<1>3. NodeService!FormatAndMount(n, s) => NP!FormatAndMount(n, s)
  BY DEF NodeService!FormatAndMount, NP!FormatAndMount
<1>4. NodeService!UndoAttach(n, s) => NP!UndoAttach(n, s)
  BY DEF NodeService!UndoAttach, NP!UndoAttach, NodeService!DoDisConn,
         NP!DoDisConn
<1>5. NodeService!detachDevice(n, s) => NP!detachDevice(n, s)
  BY DEF NodeService!detachDevice, NP!detachDevice, NodeService!DoDisConn,
         NP!DoDisConn
<1>6. NodeService!UnmountTarget(n, s) => NP!UnmountTarget(n, s)
  BY DEF NodeService!UnmountTarget, NP!UnmountTarget
<1>7. ASSUME NEW st, NEW p, NodeService!UpdateStatus(n, s, st, p)
      PROVE  NP!UpdateStatus(n, s, st, p)
  BY <1>7 DEF NodeService!UpdateStatus, NP!UpdateStatus, NodeService!Update,
         NP!Update, NodeService!Writable, NP!Writable, NodeService!UpToDate,
         NP!UpToDate, NodeService!Cached, NP!Cached, NodeService!Exists,
         NP!Exists, NodeService!ClientCommit, NP!ClientCommit,
         NodeService!Commit, NP!Commit, NodeService!Succeed, NP!Succeed,
         NodeService!managerVars, NP!managerVars
<1>8. NodeService!RecordPublish(n, s) => NP!RecordPublish(n, s)
  BY <1>7 DEF NodeService!RecordPublish, NP!RecordPublish,
              NodeService!RecordedStatus, NP!RecordedStatus
<1>9. NodeService!ClearRecord(n, s) => NP!ClearRecord(n, s)
  BY <1>7 DEF NodeService!ClearRecord, NP!ClearRecord,
              NodeService!NoPod, NP!NoPod
<1> QED BY <1>1, <1>2, <1>3, <1>4, <1>5, <1>6, <1>8, <1>9
           DEF NodeService!HandlerStep, NP!HandlerStep

LEMMA SameNodeStep ==
    ASSUME NEW n
    PROVE  /\ NodeService!PluginRestart(n) => NP!PluginRestart(n)
           /\ \A t \in Targets :
                 /\ NodeService!SchedulePod(n, t) => NP!SchedulePod(n, t)
                 /\ NodeService!DeletePod(n, t) => NP!DeletePod(n, t)
           /\ \A s \in NodeSlots :
                 NodeService!CallerTimeout(n, s) => NP!CallerTimeout(n, s)
           /\ \A s \in NodeSlots, t \in Targets :
                 /\ NodeService!NodePublishVolume(n, s, t)
                    => NP!NodePublishVolume(n, s, t)
                 /\ NodeService!NodeUnpublishVolume(n, s, t)
                    => NP!NodeUnpublishVolume(n, s, t)
<1> USE DEF NodeService!At, NP!At, NodeService!IdleCall, NP!IdleCall,
            NodeService!EmptyStatus, NP!EmptyStatus, NodeService!Fault,
            NP!Fault, NodeService!recordVars, NP!recordVars, NodeService!May,
            NP!May, NodeService!managerVars, NP!managerVars,
            NodeService!Awaited, NP!Awaited, NodeService!Cached, NP!Cached,
            NodeService!Exists, NP!Exists, NodeService!Current, NP!Current
<1>1. NodeService!PluginRestart(n) => NP!PluginRestart(n)
  BY DEF NodeService!PluginRestart, NP!PluginRestart, NodeService!Restart,
         NP!Restart, NodeService!NoNodeInfo, NP!NoNodeInfo
<1>2. ASSUME NEW t \in Targets
      PROVE  NodeService!SchedulePod(n, t) => NP!SchedulePod(n, t)
  BY DEF NodeService!SchedulePod, NP!SchedulePod, NodeService!NoPodOn,
         NP!NoPodOn
<1>3. ASSUME NEW t \in Targets
      PROVE  NodeService!DeletePod(n, t) => NP!DeletePod(n, t)
  BY DEF NodeService!DeletePod, NP!DeletePod, NodeService!NoPod, NP!NoPod
<1>4. ASSUME NEW s \in NodeSlots
      PROVE  NodeService!CallerTimeout(n, s) => NP!CallerTimeout(n, s)
  BY DEF NodeService!CallerTimeout, NP!CallerTimeout
<1>5. ASSUME NEW s \in NodeSlots, NEW t \in Targets
      PROVE  /\ NodeService!NodePublishVolume(n, s, t)
                => NP!NodePublishVolume(n, s, t)
             /\ NodeService!NodeUnpublishVolume(n, s, t)
                => NP!NodeUnpublishVolume(n, s, t)
  BY DEF NodeService!NodePublishVolume, NP!NodePublishVolume,
         NodeService!NodeUnpublishVolume, NP!NodeUnpublishVolume,
         NodeService!preMountValid, NP!preMountValid,
         NodeService!preUnmountValid, NP!preUnmountValid,
         NodeService!GetByUuid, NP!GetByUuid, NodeService!GetByName,
         NP!GetByName, NodeService!getNameByuuid, NP!getNameByuuid
<1> QED BY <1>1, <1>2, <1>3, <1>4, <1>5

LEMMA SameControlHandler ==
    ASSUME NEW s
    PROVE  ControlService!HandlerStep(s) => CP!HandlerStep(s)
<1> USE DEF ControlService!At, CP!At, ControlService!Goto, CP!Goto,
            ControlService!Fail, CP!Fail, ControlService!IdleCall, CP!IdleCall,
            ControlService!Return, CP!Return, ControlService!Fault, CP!Fault,
            ControlService!recordVars, CP!recordVars, ControlService!May,
            CP!May, ControlService!NoImage, CP!NoImage
<1>1. ControlService!CreateImage(s) => CP!CreateImage(s)
  BY DEF ControlService!CreateImage, CP!CreateImage,
         ControlService!RoundUpSize, CP!RoundUpSize
<1>2. ControlService!SubmitRecord(s) => CP!SubmitRecord(s)
  BY DEF ControlService!SubmitRecord, CP!SubmitRecord,
         ControlService!CreateBegin, CP!CreateBegin, ControlService!UsedUuids,
         CP!UsedUuids, ControlService!reverseUuid, CP!reverseUuid
<1>3. ControlService!ApplyRecord(s) => CP!ApplyRecord(s)
  BY DEF ControlService!ApplyRecord, CP!ApplyRecord,
         ControlService!CreateApply, CP!CreateApply, ControlService!UsedUuids,
         CP!UsedUuids, ControlService!Current, CP!Current,
         ControlService!ClientCommit, CP!ClientCommit, ControlService!Commit,
         CP!Commit, ControlService!NewObject, CP!NewObject,
         ControlService!EmptyStatus, CP!EmptyStatus,
         ControlService!controlVars, CP!controlVars
<1>4. ControlService!FinishCreate(s) => CP!FinishCreate(s)
  BY DEF ControlService!FinishCreate, CP!FinishCreate,
         ControlService!CreateReturn, CP!CreateReturn,
         ControlService!CreateRefused, CP!CreateRefused,
         ControlService!CreateError, CP!CreateError, ControlService!UsedUuids,
         CP!UsedUuids, ControlService!releaseUuid, CP!releaseUuid,
         ControlService!Created, CP!Created, ControlService!Exists, CP!Exists,
         ControlService!Current, CP!Current
<1>5. ControlService!UndoCreate(s) => CP!UndoCreate(s)
  BY DEF ControlService!UndoCreate, CP!UndoCreate, ControlService!rbdStatus,
         CP!rbdStatus, ControlService!rbdRm, CP!rbdRm, ControlService!Watched,
         CP!Watched
<1>6. ControlService!DeleteTheImage(s) => CP!DeleteTheImage(s)
  BY DEF ControlService!DeleteTheImage, CP!DeleteTheImage,
         ControlService!rbdStatus, CP!rbdStatus, ControlService!rbdRm,
         CP!rbdRm, ControlService!Watched, CP!Watched
<1>7. ControlService!DeleteRecord(s) => CP!DeleteRecord(s)
  BY DEF ControlService!DeleteRecord, CP!DeleteRecord, ControlService!Delete,
         CP!Delete, ControlService!Deleted, CP!Deleted, ControlService!Exists,
         CP!Exists, ControlService!Cached, CP!Cached, ControlService!Current,
         CP!Current, ControlService!ClientCommit, CP!ClientCommit,
         ControlService!Commit, CP!Commit, ControlService!managerVars,
         CP!managerVars
<1> QED BY <1>1, <1>2, <1>3, <1>4, <1>5, <1>6, <1>7
           DEF ControlService!HandlerStep, CP!HandlerStep

LEMMA SameControlStep ==
    /\ ControlService!Failover => CP!Failover
    /\ \A s \in ControlSlots :
          /\ ControlService!CallerTimeout(s) => CP!CallerTimeout(s)
          /\ ControlService!DeleteVolume(s) => CP!DeleteVolume(s)
    /\ \A s \in ControlSlots, c \in Caps :
          ControlService!CreateVolume(s, c) => CP!CreateVolume(s, c)
<1> USE DEF ControlService!At, CP!At, ControlService!IdleCall, CP!IdleCall,
            ControlService!Fault, CP!Fault, ControlService!recordVars,
            CP!recordVars, ControlService!May, CP!May,
            ControlService!managerVars, CP!managerVars,
            ControlService!Awaited, CP!Awaited, ControlService!Cached,
            CP!Cached, ControlService!Exists, CP!Exists,
            ControlService!Current, CP!Current, ControlService!GetByName,
            CP!GetByName
<1>1. ControlService!Failover => CP!Failover
  BY DEF ControlService!Failover, CP!Failover, ControlService!Restart,
         CP!Restart, ControlService!NoNodeInfo, CP!NoNodeInfo
<1>2. ASSUME NEW s \in ControlSlots
      PROVE  ControlService!CallerTimeout(s) => CP!CallerTimeout(s)
  BY DEF ControlService!CallerTimeout, CP!CallerTimeout,
         ControlService!CreatePcs, CP!CreatePcs
<1>3. ASSUME NEW s \in ControlSlots
      PROVE  ControlService!DeleteVolume(s) => CP!DeleteVolume(s)
  BY DEF ControlService!DeleteVolume, CP!DeleteVolume,
         ControlService!GetByUuid, CP!GetByUuid, ControlService!getNameByuuid,
         CP!getNameByuuid, ControlService!Deleted, CP!Deleted
<1>4. ASSUME NEW s \in ControlSlots, NEW c \in Caps
      PROVE  ControlService!CreateVolume(s, c) => CP!CreateVolume(s, c)
  BY DEF ControlService!CreateVolume, CP!CreateVolume,
         ControlService!Created, CP!Created, ControlService!Fresh, CP!Fresh,
         ControlService!UsedUuids, CP!UsedUuids
<1> QED BY <1>1, <1>2, <1>3, <1>4

LEMMA SameTypes ==
    /\ NP!TypeInv = CP!TypeInv
    /\ (NP!TypeInv)' = (CP!TypeInv)'
BY DEF NP!TypeInv, CP!TypeInv, NP!ManagerTypeOK, CP!ManagerTypeOK,
       NP!HasUuid, CP!HasUuid, NP!Object, CP!Object, NP!Status, CP!Status,
       NP!NodeOrNone, CP!NodeOrNone, NP!Exists, CP!Exists

-----------------------------------------------------------------------------
(* Whose step a step of the system is, and what the services allow each    *)
(* other to do.                                                            *)
PodTurn(n) ==
    \/ NP!PluginRestart(n)
    \/ \E t \in Targets : NP!DeletePod(n, t)
    \/ \E s \in NodeSlots : NP!CallerTimeout(n, s)
    \/ \E s \in NodeSlots, t \in Targets :
          NP!NodePublishVolume(n, s, t) \/ NP!NodeUnpublishVolume(n, s, t)

PlaceTurn(n) ==
    /\ want = "created" /\ \E a \in acked : a.uuid = Current.uuid
    /\ \E t \in Targets : NP!SchedulePod(n, t)

HandlerTurn(n) ==
    \E s \in NodeSlots :
        \/ /\ ncall[n][s].pc = "attach" => img # CP!NoImage
           /\ NP!HandlerStep(n, s)
        \/ /\ ncall[n][s].pc = "attach" /\ NP!Fail(n, s)
           /\ UNCHANGED <<managerVars, conn, mounted>>

NodeTurn(n) ==
    /\ PodTurn(n) \/ PlaceTurn(n) \/ HandlerTurn(n)
    /\ UNCHANGED controlVars

ControlTurn ==
    /\ \/ CP!Failover
       \/ \E s \in ControlSlots : \/ CP!HandlerStep(s)
                                  \/ CP!CallerTimeout(s)
                                  \/ CP!DeleteVolume(s)
       \/ \E s \in ControlSlots, c \in Caps : CP!CreateVolume(s, c)
    /\ UNCHANGED nodeVars

CacheTurn ==
    /\ \E p \in Procs : NP!CacheStep(p) /\ CP!CacheStep(p)
    /\ UNCHANGED <<nodeVars, controlVars>>

LEMMA SystemTurns ==
    ASSUME [SystemNext]_vars
    PROVE  \/ \E n \in Nodes : NodeTurn(n)
           \/ ControlTurn \/ CacheTurn \/ RequestDelete \/ UNCHANGED vars
<1>1. ASSUME NEW n \in Nodes, NodeStep(n)
      PROVE  NodeTurn(n)
  <2>1. ASSUME NEW s \in NodeSlots, NodeHandlerStep(n, s)
        PROVE  HandlerTurn(n) /\ UNCHANGED controlVars
    <3>1. CASE AttachNothing(n, s)
      BY <3>1 DEF HandlerTurn, AttachNothing, NodeService!At, NodeService!Fail,
                  NP!Fail, NodeService!IdleCall, NP!IdleCall,
                  NodeService!EmptyStatus, NP!EmptyStatus
    <3> QED BY <2>1, <3>1, SameNodeHandler
            DEF NodeHandlerStep, HandlerTurn, NodeService!At,
                ControlService!NoImage, CP!NoImage
  <2>2. ASSUME NEW t \in Targets,
               PlacePod(n, t) \/ Publish(n, t) \/ Unpublish(n, t)
        PROVE  (PodTurn(n) \/ PlaceTurn(n)) /\ UNCHANGED controlVars
    BY <2>2, SameNodeStep DEF PlacePod, Publish, Unpublish, PodTurn, PlaceTurn
  <2> QED BY <1>1, <2>1, <2>2, SameNodeStep DEF NodeStep, NodeTurn, PodTurn
<1>2. ASSUME ControlStep
      PROVE  ControlTurn \/ RequestDelete
  BY <1>2, SameControlHandler, SameControlStep
     DEF ControlStep, ControlHandlerStep, Create, DeleteVolume, ControlTurn
<1>3. ASSUME NEW p \in Procs, Background(CacheStep(p))
      PROVE  CacheTurn
  BY <1>3, SameCacheStep DEF Background, CacheTurn
<1> QED BY <1>1, <1>2, <1>3 DEF SystemNext

(* The inductive invariant behind SystemTypeOK: that of either service. *)
SystemInv == NP!NodeInv /\ CP!ControlInv

LEMMA UseTypes ==
    Use' \in {"no", "attached", "recorded", "detached", "done"}
BY DEF Use

(* Types are preserved: the acting service's by its own proof, the other   *)
(* one's because its variables do not change.                              *)
LEMMA SystemInvNext ==
    ASSUME SystemInv, [SystemNext]_vars
    PROVE  SystemInv'
<1> USE ResourceAssumption, ManagerAssumption, SystemAssumption, SameKinds
<1>1. NP!NodeInv /\ CP!ControlInv
  BY DEF SystemInv
<1>2. ASSUME UNCHANGED controlVars, NP!NodeInv'
      PROVE  SystemInv'
  <2>1. (CP!TypeInv)'
    BY <1>2, SameTypes DEF NP!NodeInv
  <2>2. (CP!CallTypes)' /\ (CP!RequestTypes)'
    BY <1>1, <1>2, UseTypes
       DEF CP!ControlInv, CP!CallTypes, CP!RequestTypes, controlVars
  <2> QED BY <1>2, <2>1, <2>2 DEF SystemInv, CP!ControlInv
<1>3. ASSUME UNCHANGED nodeVars, (CP!ControlInv)'
      PROVE  SystemInv'
  <2>1. (NP!TypeInv)'
    BY <1>3, SameTypes DEF CP!ControlInv
  <2>2. (NP!CallTypes)' /\ (NP!DeviceTypes)'
    BY <1>1, <1>3 DEF NP!NodeInv, NP!CallTypes, NP!DeviceTypes, nodeVars
  <2> QED BY <1>3, <2>1, <2>2 DEF SystemInv, NP!NodeInv
<1>4. ASSUME NEW n \in Nodes, NodeTurn(n)
      PROVE  SystemInv'
  <2>1. CASE \/ PodTurn(n) \/ PlaceTurn(n)
             \/ \E s \in NodeSlots : NP!HandlerStep(n, s)
    <3>1. NP!NodeStep(n)
      BY <2>1 DEF PodTurn, PlaceTurn, NP!NodeStep
    <3>2. (NP!NodeInv)'
      BY <1>1, <3>1, NP!NodeInvNext DEF NP!NodeNext
    <3> QED BY <1>2, <1>4, <3>2 DEF NodeTurn
  <2>2. ASSUME NEW s \in NodeSlots, NP!Fail(n, s),
               UNCHANGED <<managerVars, conn, mounted>>
        PROVE  SystemInv'
    <3>1. (NP!TypeInv)'
      BY <1>1, <2>2, NP!TypeNext DEF NP!NodeInv, NP!managerVars, managerVars
    <3>2. (NP!CallTypes)'
      BY <1>1, <2>2, NP!FailTypes DEF NP!NodeInv
    <3>3. (NP!DeviceTypes)'
      BY <1>1, <2>2 DEF NP!NodeInv, NP!DeviceTypes
    <3> QED BY <1>2, <1>4, <3>1, <3>2, <3>3 DEF NodeTurn, NP!NodeInv
  <2> QED BY <1>4, <2>1, <2>2 DEF NodeTurn, HandlerTurn
<1>5. CASE ControlTurn
  <2>1. CP!ControlNext
    BY <1>5 DEF ControlTurn, CP!ControlNext
  <2>2. (CP!ControlInv)'
    BY <1>1, <2>1, CP!ControlInvNext
  <2> QED BY <1>3, <1>5, <2>2 DEF ControlTurn
<1>6. CASE CacheTurn
  <2>1. NP!NodeNext
    BY <1>6 DEF CacheTurn, NP!NodeNext, nodeVars, NP!nodeVars
  <2>2. (NP!NodeInv)'
    BY <1>1, <2>1, NP!NodeInvNext
  <2> QED BY <1>2, <1>6, <2>2 DEF CacheTurn
<1>7. CASE RequestDelete
  <2>1. (CP!TypeInv)'
    BY <1>1, <1>7, CP!TypeNext
       DEF RequestDelete, CP!ControlInv, CP!managerVars, managerVars
  <2>2. (CP!CallTypes)' /\ (CP!RequestTypes)'
    BY <1>1, <1>7, UseTypes
       DEF RequestDelete, CP!ControlInv, CP!CallTypes, CP!RequestTypes
  <2> QED BY <1>3, <1>7, <2>1, <2>2 DEF RequestDelete, CP!ControlInv
<1>8. CASE UNCHANGED vars
  <2>1. (NP!NodeInv)'
    BY <1>1, <1>8, NP!NodeInvNext
       DEF vars, NP!vars, nodeVars, NP!nodeVars, managerVars, NP!managerVars
  <2> QED BY <1>2, <1>8, <2>1 DEF vars
<1> QED BY <1>4, <1>5, <1>6, <1>7, <1>8, SystemTurns

LEMMA SystemInvInit == SystemInit => SystemInv
BY ResourceAssumption, ManagerAssumption, SystemAssumption, SameKinds,
   SameInit, NP!NodeInvInit, CP!ControlInvInit
   DEF SystemInv

(* Every reachable state of the composed driver is well-formed: each       *)
(* service keeps its own state and the shared record well-formed whatever  *)
(* the other one does.                                                     *)
THEOREM SystemTypeCorrect == SystemSpec => []SystemTypeOK
<1>1. SystemInv => SystemTypeOK
  <2>1. SystemInv => NodeService!NodeTypeOK
    BY DEF SystemInv, NP!NodeInv, NP!TypeInv, NP!CallTypes, NP!DeviceTypes,
           NodeService!NodeTypeOK, NodeService!ManagerTypeOK,
           NP!ManagerTypeOK, NodeService!Object, NP!Object,
           NodeService!Status, NP!Status, NodeService!NodeOrNone,
           NP!NodeOrNone, NodeService!Call, NP!Call, NodeService!PublishPcs,
           NP!PublishPcs, NodeService!UnpublishPcs, NP!UnpublishPcs,
           NodeService!Pod, NP!Pod
  <2>2. SystemInv => ControlService!ControlTypeOK
    BY DEF SystemInv, CP!ControlInv, CP!TypeInv, CP!CallTypes,
           CP!RequestTypes, ControlService!ControlTypeOK,
           ControlService!ManagerTypeOK, CP!ManagerTypeOK,
           ControlService!Object, CP!Object, ControlService!Status, CP!Status,
           ControlService!NodeOrNone, CP!NodeOrNone, ControlService!Call,
           CP!Call, ControlService!CreatePcs, CP!CreatePcs,
           ControlService!DeletePcs, CP!DeletePcs, ControlService!Image,
           CP!Image
  <2> QED BY <2>1, <2>2 DEF SystemTypeOK
<1>2. SystemInv /\ [SystemNext]_vars => SystemInv'
  BY SystemInvNext
<1> QED BY <1>1, <1>2, SystemInvInit, PTL DEF SystemSpec

LEMMA SameManagerStep ==
    /\ [NP!ManagerNext]_(NP!managerVars) => [ManagerNext]_managerVars
    /\ [CP!ManagerNext]_(CP!managerVars) => [ManagerNext]_managerVars
<1>1. [NP!ManagerNext]_(NP!managerVars) => [ManagerNext]_managerVars
  BY DEF ManagerNext, CacheStep, WatchEvent, Resync, Reconcile,
         RemoveFinalizer, validBeDelete, Writable, UpToDate, Exists, Cached,
         Current, Commit, Fault, NoObject, EmptyStatus, reverseUuid,
         reverseNode, releaseUuid, Restart, NoNodeInfo, ClientNext, CallFails,
         ClientWrite, Delete, ClientCommit, Update, Status, NodeOrNone,
         ClientCreate, CreateBegin, CreateApply, CreateReturn, CreateRefused,
         CreateError, UsedUuids, NewObject, managerVars, NP!ManagerNext,
         NP!CacheStep, NP!WatchEvent, NP!Resync, NP!Reconcile,
         NP!RemoveFinalizer, NP!validBeDelete, NP!Writable, NP!UpToDate,
         NP!Exists, NP!Cached, NP!Current, NP!Commit, NP!Fault, NP!NoObject,
         NP!EmptyStatus, NP!reverseUuid, NP!reverseNode, NP!releaseUuid,
         NP!Restart, NP!NoNodeInfo, NP!ClientNext, NP!CallFails,
         NP!ClientWrite, NP!Delete, NP!ClientCommit, NP!Update, NP!Status,
         NP!NodeOrNone, NP!ClientCreate, NP!CreateBegin, NP!CreateApply,
         NP!CreateReturn, NP!CreateRefused, NP!CreateError, NP!UsedUuids,
         NP!NewObject, NP!managerVars
<1>2. [CP!ManagerNext]_(CP!managerVars) => [ManagerNext]_managerVars
  BY DEF ManagerNext, CacheStep, WatchEvent, Resync, Reconcile,
         RemoveFinalizer, validBeDelete, Writable, UpToDate, Exists, Cached,
         Current, Commit, Fault, NoObject, EmptyStatus, reverseUuid,
         reverseNode, releaseUuid, Restart, NoNodeInfo, ClientNext, CallFails,
         ClientWrite, Delete, ClientCommit, Update, Status, NodeOrNone,
         ClientCreate, CreateBegin, CreateApply, CreateReturn, CreateRefused,
         CreateError, UsedUuids, NewObject, managerVars, CP!ManagerNext,
         CP!CacheStep, CP!WatchEvent, CP!Resync, CP!Reconcile,
         CP!RemoveFinalizer, CP!validBeDelete, CP!Writable, CP!UpToDate,
         CP!Exists, CP!Cached, CP!Current, CP!Commit, CP!Fault, CP!NoObject,
         CP!EmptyStatus, CP!reverseUuid, CP!reverseNode, CP!releaseUuid,
         CP!Restart, CP!NoNodeInfo, CP!ClientNext, CP!CallFails,
         CP!ClientWrite, CP!Delete, CP!ClientCommit, CP!Update, CP!Status,
         CP!NodeOrNone, CP!ClientCreate, CP!CreateBegin, CP!CreateApply,
         CP!CreateReturn, CP!CreateRefused, CP!CreateError, CP!UsedUuids,
         CP!NewObject, CP!managerVars
<1> QED BY <1>1, <1>2

(* The two services together use the record only as AlcubManager's         *)
(* operations allow, so everything shown there of its most general client  *)
(* holds of the driver: the record behaves as VolumeRecord's register, no  *)
(* deletion is undone, no failed Create leaves a uuid behind.              *)
THEOREM SystemImplementsManager == SystemSpec => ManagerSpec
<1> USE ResourceAssumption, ManagerAssumption, SystemAssumption, SameKinds
<1>1. SystemInit => ManagerInit
  BY DEF SystemInit, NodeService!NodeInit, NodeService!ManagerInit,
         ManagerInit, NodeService!NoObject, NoObject, NodeService!EmptyStatus,
         EmptyStatus, NodeService!NoNodeInfo, NoNodeInfo
<1>2. ASSUME SystemInv, [SystemNext]_vars
      PROVE  [ManagerNext]_managerVars
  <2>1. ASSUME NEW n \in Nodes, NodeTurn(n)
        PROVE  [ManagerNext]_managerVars
    <3>1. ASSUME NP!NodeStep(n)
          PROVE  [ManagerNext]_managerVars
      BY <1>2, <3>1, NP!NodeRefines, SameManagerStep
         DEF SystemInv, NP!NodeInv, NP!NodeNext
    <3>2. NP!NodeStep(n) \/ UNCHANGED managerVars
      BY <2>1 DEF NodeTurn, PodTurn, PlaceTurn, HandlerTurn, NP!NodeStep
    <3> QED BY <3>1, <3>2
  <2>2. CASE ControlTurn
    BY <1>2, <2>2, CP!ControlRefines, SameManagerStep
       DEF SystemInv, CP!ControlInv, ControlTurn, CP!ControlNext
  <2>3. CASE CacheTurn
    BY <1>2, <2>3, NP!NodeRefines, SameManagerStep
       DEF SystemInv, NP!NodeInv, CacheTurn, NP!NodeNext, nodeVars, NP!nodeVars
  <2>4. CASE RequestDelete \/ UNCHANGED vars
    BY <2>4 DEF RequestDelete, vars
  <2> QED BY <1>2, <2>1, <2>2, <2>3, <2>4, SystemTurns
<1>3. SystemInv /\ [SystemNext]_vars => SystemInv'
  BY SystemInvNext
<1> QED BY <1>1, <1>2, <1>3, SystemInvInit, PTL DEF SystemSpec, ManagerSpec

-----------------------------------------------------------------------------
(* Seen from the nodes, the controller only creates and deletes the        *)
(* record; seen from the controller, the nodes only write its status.      *)
LEMMA ControlLog ==
    ASSUME SystemInv, ControlTurn
    PROVE  \/ log' = log
           \/ NP!Delete(Leader)
           \/ \E u \in Uuids : NP!ClientCreate(Leader, u)
<1>1. ASSUME NEW s \in ControlSlots, CP!HandlerStep(s)
      PROVE  \/ log' = log \/ CP!Delete(Leader)
             \/ /\ CP!CreateApply(Leader, ccall[s].uuid, ccall[s].cap)
                /\ ccall[s].uuid \in Uuids /\ ccall[s].cap \in Caps
                /\ UNCHANGED faults
  <2>1. CASE CP!ApplyRecord(s)
    BY <2>1 DEF SystemInv, CP!ControlInv, CP!CallTypes, CP!ApplyRecord, CP!At,
                CP!CreatePcs
  <2>2. CASE CP!DeleteRecord(s)
    BY <2>2 DEF CP!DeleteRecord, CP!managerVars, CP!recordVars
  <2>3. CASE CP!CreateImage(s) \/ CP!SubmitRecord(s) \/ CP!FinishCreate(s)
    BY <2>3 DEF CP!CreateImage, CP!SubmitRecord, CP!FinishCreate,
                CP!recordVars, CP!CreateBegin, CP!CreateReturn,
                CP!CreateRefused, CP!CreateError
  <2>4. CASE CP!UndoCreate(s) \/ CP!DeleteTheImage(s)
    BY <2>4 DEF CP!UndoCreate, CP!DeleteTheImage, CP!rbdStatus, CP!rbdRm,
                CP!recordVars
  <2> QED BY <1>1, <2>1, <2>2, <2>3, <2>4 DEF CP!HandlerStep
<1>2. CP!Delete(Leader) => NP!Delete(Leader)
  BY DEF CP!Delete, NP!Delete, CP!Exists, NP!Exists, CP!Cached, NP!Cached,
         CP!Current, NP!Current, CP!ClientCommit, NP!ClientCommit,
         CP!Commit, NP!Commit
<1>3. ASSUME NEW u \in Uuids, NEW c \in Caps, CP!CreateApply(Leader, u, c),
             UNCHANGED faults
      PROVE  NP!ClientCreate(Leader, u)
  BY <1>3 DEF CP!CreateApply, NP!CreateApply, NP!ClientCreate, CP!UsedUuids,
              NP!UsedUuids, CP!Current, NP!Current, CP!ClientCommit,
              NP!ClientCommit, CP!Commit, NP!Commit, CP!NewObject,
              NP!NewObject, CP!EmptyStatus, NP!EmptyStatus
<1>4. ASSUME \/ CP!Failover
             \/ \E s \in ControlSlots :
                   CP!CallerTimeout(s) \/ CP!DeleteVolume(s)
             \/ \E s \in ControlSlots, c \in Caps : CP!CreateVolume(s, c)
      PROVE  log' = log
  BY <1>4 DEF CP!Failover, CP!Restart, CP!CallerTimeout, CP!DeleteVolume,
              CP!CreateVolume, CP!recordVars, CP!managerVars
<1> QED BY <1>1, <1>2, <1>3, <1>4 DEF ControlTurn

(* What a node writes is a status it built from one it read. *)
LEMMA NodeLog ==
    ASSUME SystemInv, NEW n \in Nodes, NodeTurn(n)
    PROVE  \/ log' = log
           \/ \E st \in NP!Status : NP!Update(n, st)
<1> USE ResourceAssumption, ManagerAssumption, SystemAssumption, SameKinds
<1>1. ASSUME NEW s \in NodeSlots, NP!HandlerStep(n, s)
      PROVE  log' = log \/ \E st \in NP!Status : NP!Update(n, st)
  <2>1. /\ NP!RecordedStatus(n, ncall[n][s].snap) \in NP!Status
        /\ [ncall[n][s].snap EXCEPT !.node = NoNode] \in NP!Status
    BY NP!StatusTypes DEF SystemInv, NP!NodeInv
  <2>2. ASSUME NEW st, NEW p, NP!UpdateStatus(n, s, st, p)
        PROVE  log' = log \/ NP!Update(n, st)
    BY <2>2 DEF NP!UpdateStatus, NP!managerVars, NP!recordVars
  <2>3. CASE NP!RecordPublish(n, s) \/ NP!ClearRecord(n, s)
    BY <2>1, <2>2, <2>3 DEF NP!RecordPublish, NP!ClearRecord
  <2>4. CASE \/ NP!attachDevice(n, s) \/ NP!ProbeTarget(n, s)
             \/ NP!FormatAndMount(n, s) \/ NP!UndoAttach(n, s)
             \/ NP!UnmountTarget(n, s) \/ NP!detachDevice(n, s)
    BY <2>4 DEF NP!attachDevice, NP!ProbeTarget, NP!FormatAndMount,
                NP!UndoAttach, NP!UnmountTarget, NP!detachDevice,
                NP!recordVars
  <2> QED BY <1>1, <2>3, <2>4 DEF NP!HandlerStep
<1>2. ASSUME PodTurn(n) \/ PlaceTurn(n) PROVE log' = log
  BY <1>2 DEF PodTurn, PlaceTurn, NP!PluginRestart, NP!Restart, NP!DeletePod,
              NP!CallerTimeout, NP!NodePublishVolume, NP!NodeUnpublishVolume,
              NP!SchedulePod, NP!recordVars, NP!managerVars
<1> QED BY <1>1, <1>2 DEF NodeTurn, HandlerTurn, managerVars

(* Every step is one of those the invariants of NodeRpc were proved for.   *)
LEMMA SystemNodeEffect ==
    ASSUME SystemInv, [SystemNext]_vars
    PROVE  NP!NodeEffect
<1> USE ResourceAssumption, ManagerAssumption, SystemAssumption, SameKinds
<1>1. NP!NodeInv /\ NP!TypeInv
  BY DEF SystemInv, NP!NodeInv
<1>2. ASSUME UNCHANGED nodeVars,
             \/ log' = log \/ NP!Delete(Leader)
             \/ \E u \in Uuids : NP!ClientCreate(Leader, u)
      PROVE  NP!NodeEffect
  <2>1. NP!UserKept
    BY <1>1, <1>2, NP!UserKeptCases
  <2> QED BY <1>2, <2>1 DEF NP!NodeEffect, nodeVars
<1>3. ASSUME NEW n \in Nodes, NodeTurn(n)
      PROVE  NP!NodeEffect
  <2>1. ASSUME NP!NodeStep(n)
        PROVE  NP!NodeEffect
    BY <1>1, <2>1, NP!NodeEffects DEF NP!NodeNext
  <2>2. ASSUME NEW s \in NodeSlots, ncall[n][s].pc = "attach", NP!Fail(n, s),
               UNCHANGED <<managerVars, conn, mounted>>
        PROVE  NP!NodeEffect
    <3>1. NP!Ends(n, s)
      BY <1>1, <2>2, NP!FailEnds DEF NP!NodeInv, NP!Fail
    <3>2. NP!UserKept
      BY <1>1, <2>2, NP!UserKeptCases DEF managerVars
    <3>3. NP!HandlerEffect(n, s)
      BY <2>2, <3>1, <3>2 DEF NP!HandlerEffect, NP!DeviceEffect, NP!Fail
    <3> QED BY <3>3 DEF NP!NodeEffect
  <2> QED BY <1>3, <2>1, <2>2
             DEF NodeTurn, PodTurn, PlaceTurn, HandlerTurn, NP!NodeStep
<1>4. CASE ControlTurn
  BY <1>2, <1>4, ControlLog DEF ControlTurn
<1>5. CASE CacheTurn
  <2>1. NP!NodeNext
    BY <1>5 DEF CacheTurn, NP!NodeNext, nodeVars, NP!nodeVars
  <2> QED BY <1>1, <2>1, NP!NodeEffects
<1>6. CASE RequestDelete \/ UNCHANGED vars
  BY <1>2, <1>6 DEF RequestDelete, vars, managerVars
<1> QED BY <1>3, <1>4, <1>5, <1>6, SystemTurns

(* The same for ControlRpc, whose NodeUse stands for the nodes. *)
LEMMA SystemControlEffect ==
    ASSUME SystemInv, [SystemNext]_vars
    PROVE  CP!Effect
<1> USE ResourceAssumption, ManagerAssumption, SystemAssumption, SameKinds
<1>1. CP!ControlInv
  BY DEF SystemInv
<1>2. ASSUME NEW n \in Nodes, NodeTurn(n)
      PROVE  CP!Effect
  <2>1. UNCHANGED <<img, ccall, want, acked>>
    BY <1>2 DEF NodeTurn, controlVars
  <2>2. CASE log' = log
    BY <2>1, <2>2 DEF CP!Effect, CP!OtherEffect
  <2>3. ASSUME NEW st \in NP!Status, NP!Update(n, st)
        PROVE  CP!Effect
    <3>1. st \in CP!Status
      BY <2>3 DEF NP!Status, CP!Status, NP!NodeOrNone, CP!NodeOrNone
    <3>2. /\ CP!Exists(CP!Current)
          /\ log' = Append(log, [CP!Current EXCEPT !.status = st])
      BY <2>3 DEF NP!Update, NP!Writable, NP!UpToDate, NP!Cached, NP!Exists,
                  NP!ClientCommit, NP!Commit, CP!Exists, CP!Current
    <3> QED BY <2>1, <3>1, <3>2 DEF CP!Effect, CP!OtherEffect
  <2> QED BY <1>2, <2>2, <2>3, NodeLog
<1>3. CASE ControlTurn
  BY <1>1, <1>3, CP!ControlEffect DEF ControlTurn, CP!ControlNext
<1>4. CASE CacheTurn
  <2>1. CP!ControlNext
    BY <1>4 DEF CacheTurn, CP!ControlNext, CP!controlVars, controlVars,
                nodeVars, Use
  <2> QED BY <1>1, <2>1, CP!ControlEffect
<1>5. CASE RequestDelete
  BY <1>5 DEF RequestDelete, CP!Effect, CP!OtherEffect, ControlService!May,
              managerVars, Exists, CP!Exists, Cached, CP!Cached
<1>6. CASE UNCHANGED vars
  BY <1>6 DEF vars, managerVars, controlVars, CP!Effect, CP!OtherEffect
<1> QED BY <1>2, <1>3, <1>4, <1>5, <1>6, SystemTurns

-----------------------------------------------------------------------------
(* A connected image is there: dev_connect needs it and rbd rm refuses to  *)
(* remove what has a watcher.                                              *)
ConnImage == conn # {} => img # CP!NoImage

LEMMA ConnImageNext ==
    ASSUME SystemInv, ConnImage, [SystemNext]_vars
    PROVE  ConnImage'
<1> USE ResourceAssumption, ManagerAssumption, SystemAssumption, SameKinds
<1>1. ASSUME NEW n \in Nodes, NodeTurn(n)
      PROVE  conn' \subseteq conn \/ img # CP!NoImage
  <2>1. CASE PodTurn(n) \/ PlaceTurn(n)
    BY <2>1 DEF PodTurn, PlaceTurn, NP!PluginRestart, NP!DeletePod,
                NP!CallerTimeout, NP!NodePublishVolume,
                NP!NodeUnpublishVolume, NP!SchedulePod
  <2>2. ASSUME NEW s \in NodeSlots, NP!HandlerStep(n, s),
               ncall[n][s].pc = "attach" => img # CP!NoImage
        PROVE  conn' \subseteq conn \/ img # CP!NoImage
    BY <2>2, NP!HandlerEffects
       DEF SystemInv, NP!HandlerEffect, NP!DeviceEffect, NP!LastEffect
  <2> QED BY <1>1, <2>1, <2>2 DEF NodeTurn, HandlerTurn
<1>2. ASSUME ControlTurn, conn # {}
      PROVE  img' # CP!NoImage
  <2>1. img # CP!NoImage /\ CP!Watched
    BY <1>2 DEF ConnImage, CP!Watched, Use
  <2>2. ASSUME NEW s \in ControlSlots, CP!HandlerStep(s)
        PROVE  img' = img
    <3>1. CASE CP!CreateImage(s) \/ CP!SubmitRecord(s) \/ CP!ApplyRecord(s)
               \/ CP!FinishCreate(s) \/ CP!DeleteRecord(s)
      BY <2>1, <3>1 DEF CP!CreateImage, CP!SubmitRecord, CP!ApplyRecord,
                        CP!FinishCreate, CP!DeleteRecord, CP!controlVars
    <3>2. CASE CP!UndoCreate(s) \/ CP!DeleteTheImage(s)
      BY <2>1, <3>2 DEF CP!UndoCreate, CP!DeleteTheImage, CP!rbdStatus,
                        CP!rbdRm
    <3> QED BY <2>2, <3>1, <3>2 DEF CP!HandlerStep
  <2>3. img' = img
    BY <1>2, <2>2 DEF ControlTurn, CP!Failover, CP!CallerTimeout,
                      CP!DeleteVolume, CP!CreateVolume
  <2> QED BY <2>1, <2>3
<1>3. CASE CacheTurn \/ RequestDelete \/ UNCHANGED vars
  BY <1>3 DEF CacheTurn, RequestDelete, vars, nodeVars, controlVars, ConnImage,
              CP!NoImage
<1>4. ASSUME NEW n \in Nodes, NodeTurn(n)
      PROVE  ConnImage'
  BY <1>1, <1>4 DEF NodeTurn, controlVars, ConnImage, CP!NoImage
<1>5. CASE ControlTurn
  BY <1>2, <1>5 DEF ControlTurn, nodeVars, ConnImage, CP!NoImage
<1> QED BY <1>3, <1>4, <1>5, SystemTurns

LEMMA MountHeldInit == NP!NodeInit => NP!MountHeld
BY DEF NP!NodeInit, NP!MountHeld, NP!NoPod

(* DeviceHasImage: DeleteVolume never takes the image from under a device, *)
(* nor from under the mount of a pod that was given the volume, although   *)
(* it knows nothing of pods and runs concurrently with the node services:  *)
(* rbd's watchers hold the image while it is connected (ConnImage), and it *)
(* is connected as long as the pod has its mount (DeviceSafe, MountHeld).  *)
(* Any hazard of the controller is allowed, deleting a volume in use       *)
(* included, and pods may run on several nodes at once.  A pod deleted     *)
(* half way through its publish is excluded: failedfn of a repeated        *)
(* NodePublishVolume may have detached the device under the mount an       *)
(* earlier attempt made.                                                   *)
THEOREM SystemDeviceHasImage ==
    ASSUME NP!NodeOrderly, "abort" \notin NodeHazards
    PROVE  SystemSpec => []DeviceHasImage
<1> USE ResourceAssumption, ManagerAssumption, SystemAssumption, SameKinds
<1> DEFINE I == SystemInv /\ NP!DeviceSafe /\ NP!MountHeld /\ ConnImage
<1>1. SystemInit => I
  <2>1. SystemInit => ConnImage
    BY DEF SystemInit, NodeService!NodeInit, ConnImage
  <2> QED BY <2>1, SystemInvInit, SameInit, MountHeldInit, NP!NodeSafeInit
             DEF NP!NodeSafe
<1>2. I /\ [SystemNext]_vars => I'
  <2> SUFFICES ASSUME I, [SystemNext]_vars PROVE I'
    OBVIOUS
  <2>1. NP!NodeEffect /\ NP!NodeInv
    BY SystemNodeEffect DEF SystemInv
  <2>2. (NP!DeviceSafe)'
    BY <2>1, NP!DeviceSafeNext
  <2>3. (NP!MountHeld)'
    BY <2>1, NP!MountHeldNext
  <2> QED BY <2>2, <2>3, SystemInvNext, ConnImageNext
<1>3. I => DeviceHasImage
  <2> SUFFICES ASSUME I, NEW n \in Nodes, NEW t \in mounted[n],
                      pod[n][t].st \in {"published", "unpublishing"}
               PROVE  conn # {}
    BY DEF ConnImage, DeviceHasImage, CP!NoImage, ControlService!NoImage
  <2>1. t \in Targets
    BY DEF SystemInv, NP!NodeInv, NP!DeviceTypes
  <2> QED BY <2>1 DEF NP!DeviceSafe, NP!PodDevice, NP!MountHeld
<1> QED BY <1>1, <1>2, <1>3, PTL DEF SystemSpec

-----------------------------------------------------------------------------
(* A pod keeps the volume id it was placed with, one CreateVolume answered *)
(* with.                                                                   *)
PodVolume ==
    \A n \in Nodes, t \in Targets :
        pod[n][t].st # "none" => \E a \in acked : a.uuid = pod[n][t].vol

(* Only placing a pod gives it a volume id. *)
LEMMA PodKept ==
    ASSUME SystemInv, NP!NodeSafe, [SystemNext]_vars,
           NEW m \in Nodes, NEW u \in Targets, pod'[m][u].st # "none"
    PROVE  \/ pod[m][u].st # "none" /\ pod'[m][u].vol = pod[m][u].vol
           \/ want = "created" /\ want' = want
              /\ \E a \in acked : a.uuid = pod'[m][u].vol
<1> DEFINE Kept == pod[m][u].st # "none" /\ pod'[m][u].vol = pod[m][u].vol
<1>1. pod \in [Nodes -> [Targets -> NP!Pod]]
  BY DEF SystemInv, NP!NodeInv, NP!CallTypes
<1>2. CASE UNCHANGED pod
  BY <1>2
<1>3. ASSUME NEW n \in Nodes, NEW t \in Targets, NEW p \in NP!Pod,
             pod' = [pod EXCEPT ![n][t] = p],
             \/ p.st = "none"
             \/ pod[n][t].st # "none" /\ p.vol = pod[n][t].vol
      PROVE  Kept
  <2>1. CASE m = n /\ u = t
    BY <1>1, <1>3, <2>1
  <2>2. CASE m # n \/ u # t
    BY <1>1, <1>3, <2>2
  <2> QED BY <2>1, <2>2
<1>4. ASSUME NEW n \in Nodes, NEW s \in NodeSlots, NP!HandlerStep(n, s)
      PROVE  Kept
  <2> DEFINE t == ncall[n][s].tgt
             p == [pod[n][t] EXCEPT !.st = "published"]
  <2>1. CASE UNCHANGED pod
    BY <1>2, <2>1
  <2>2. ASSUME NP!RecordPublish(n, s), ncall[n][s].waiting,
               pod' = [pod EXCEPT ![n][t] = p]
        PROVE  Kept
    <3>1. ncall[n][s].pc = "record" /\ t \in Targets
      BY <2>2 DEF NP!RecordPublish, NP!At, SystemInv, NP!NodeInv, NP!CallTypes
    <3>2. pod[n][t].st = "publishing"
      BY <2>2, <3>1 DEF NP!NodeSafe, NP!DeviceSafe, NP!HandlerState,
                          NP!PublishPcs
    <3>3. p \in NP!Pod /\ p.vol = pod[n][t].vol
      BY <1>1, <3>1 DEF NP!Pod
    <3> QED BY <1>3, <2>2, <3>1, <3>2, <3>3
  <2>3. ASSUME NP!ClearRecord(n, s), pod' = [pod EXCEPT ![n][t] = NP!NoPod]
        PROVE  Kept
    <3>1. t \in Targets
      BY <2>3 DEF NP!ClearRecord, NP!At, SystemInv, NP!NodeInv, NP!CallTypes
    <3>2. NP!NoPod \in NP!Pod /\ NP!NoPod.st = "none"
      BY DEF NP!NoPod, NP!Pod
    <3> QED BY <1>3, <2>3, <3>1, <3>2
  <2>4. CASE NP!RecordPublish(n, s)
    BY <2>1, <2>2, <2>4
       DEF NP!RecordPublish, NP!UpdateStatus, NP!Succeed, NP!Fail
  <2>5. CASE NP!ClearRecord(n, s)
    BY <2>1, <2>3, <2>5
       DEF NP!ClearRecord, NP!UpdateStatus, NP!Succeed, NP!Fail
  <2>6. CASE \/ NP!attachDevice(n, s) \/ NP!ProbeTarget(n, s)
             \/ NP!FormatAndMount(n, s) \/ NP!UndoAttach(n, s)
             \/ NP!UnmountTarget(n, s) \/ NP!detachDevice(n, s)
    BY <2>1, <2>6 DEF NP!attachDevice, NP!ProbeTarget, NP!FormatAndMount,
                NP!UndoAttach, NP!UnmountTarget, NP!detachDevice, NP!Goto,
                NP!Fail
  <2> QED BY <1>4, <2>4, <2>5, <2>6 DEF NP!HandlerStep
<1>5. ASSUME NEW n \in Nodes, PodTurn(n)
      PROVE  Kept
  <2>1. ASSUME NEW t \in Targets, NEW st, pod[n][t].st # "none",
               pod' = [pod EXCEPT ![n][t].st = st]
        PROVE  Kept
    <3>1. CASE m = n /\ u = t
      BY <1>1, <2>1, <3>1 DEF NP!Pod
    <3>2. CASE m # n \/ u # t
      BY <1>1, <2>1, <3>2
    <3> QED BY <3>1, <3>2
  <2>2. NP!NoPod \in NP!Pod /\ NP!NoPod.st = "none"
    BY DEF NP!NoPod, NP!Pod
  <2>3. ASSUME NEW t \in Targets, NP!DeletePod(n, t)
        PROVE  Kept
    BY <1>3, <2>1, <2>2, <2>3 DEF NP!DeletePod
  <2>4. ASSUME NEW t \in Targets, NEW s \in NodeSlots,
               NP!NodePublishVolume(n, s, t)
        PROVE  Kept
    BY <2>1, <2>4 DEF NP!NodePublishVolume
  <2> QED BY <1>2, <1>5, <2>3, <2>4
             DEF PodTurn, NP!PluginRestart, NP!CallerTimeout,
                 NP!NodeUnpublishVolume
<1>6. ASSUME NEW n \in Nodes, PlaceTurn(n), UNCHANGED controlVars
      PROVE  \/ Kept
             \/ want = "created" /\ want' = want
                /\ \E a \in acked : a.uuid = pod'[m][u].vol
  <2>1. PICK t \in Targets :
            /\ pod' = [pod EXCEPT ![n][t] = [st |-> "placed",
                                            vol |-> NP!Current.uuid]]
            /\ NP!Current = Current
    BY <1>6 DEF PlaceTurn, NP!SchedulePod, NP!Current, Current
  <2>2. CASE m = n /\ u = t
    BY <1>1, <1>6, <2>1, <2>2 DEF PlaceTurn, controlVars
  <2>3. CASE m # n \/ u # t
    BY <1>1, <2>1, <2>3
  <2> QED BY <2>2, <2>3
<1>7. ASSUME NEW n \in Nodes, NodeTurn(n)
      PROVE  \/ Kept
             \/ want = "created" /\ want' = want
                /\ \E a \in acked : a.uuid = pod'[m][u].vol
  BY <1>2, <1>4, <1>5, <1>6, <1>7 DEF NodeTurn, HandlerTurn, NP!Fail
<1>8. CASE ControlTurn \/ CacheTurn \/ RequestDelete \/ UNCHANGED vars
  BY <1>2, <1>8 DEF ControlTurn, CacheTurn, RequestDelete, vars, nodeVars
<1> QED BY <1>7, <1>8, SystemTurns

LEMMA AckedGrows == CP!Effect => acked \subseteq acked'
BY DEF CP!Effect, CP!OtherEffect, CP!CreateEffect, CP!DeleteEffect,
       CP!EitherEffect, CP!Created

LEMMA PodVolumeNext ==
    ASSUME SystemInv, NP!NodeSafe, PodVolume, [SystemNext]_vars
    PROVE  PodVolume'
<1>1. acked \subseteq acked'
  BY AckedGrows, SystemControlEffect
<1> QED BY <1>1, PodKept DEF PodVolume

(* Who deletes no volume in use, has asked for no deletion while there is  *)
(* a pod.                                                                  *)
PodsWanted ==
    \A n \in Nodes, t \in Targets :
        pod[n][t].st # "none" => want = "created"

LEMMA PodsWantedNext ==
    ASSUME SystemInv, NP!NodeSafe, CP!Waits, PodsWanted, [SystemNext]_vars,
           "deleteinuse" \notin ControlHazards
    PROVE  PodsWanted'
<1> SUFFICES ASSUME NEW m \in Nodes, NEW u \in Targets,
                    pod'[m][u].st # "none"
             PROVE  want' = "created"
  BY DEF PodsWanted
<1>1. pod[m][u].st # "none" \/ (want = "created" /\ want' = want)
  BY PodKept
<1>2. CASE RequestDelete
  <2>1. NodeService!NoPodOn(m) /\ pod' = pod
    BY <1>2 DEF RequestDelete, ControlService!May, nodeVars
  <2> QED BY <2>1 DEF NodeService!NoPodOn
<1>3. ASSUME pod[m][u].st # "none", ~RequestDelete
      PROVE  want' = "created"
  <2>1. want = "created"
    BY <1>3 DEF PodsWanted
  <2>2. CASE want' = want
    BY <2>1, <2>2
  <2>3. ASSUME NEW s \in ControlSlots, CP!HandlerStep(s)
        PROVE  want' = "created"
    <3>1. ~ccall[s].waiting
      <4>1. ccall[s].pc # "idle"
        BY <2>3 DEF CP!HandlerStep, CP!CreateImage, CP!SubmitRecord,
               CP!ApplyRecord, CP!FinishCreate, CP!UndoCreate,
               CP!DeleteTheImage, CP!DeleteRecord, CP!rbdStatus, CP!rbdRm,
               CP!At
      <4> QED BY <2>1, <4>1 DEF CP!Waits
    <3>2. want' = want
      BY <2>3, <3>1 DEF CP!HandlerStep, CP!CreateImage, CP!SubmitRecord,
             CP!ApplyRecord, CP!FinishCreate, CP!UndoCreate,
             CP!DeleteTheImage, CP!DeleteRecord, CP!rbdStatus, CP!rbdRm,
             CP!Goto, CP!Fail, CP!Created, CP!Deleted, CP!controlVars
    <3> QED BY <2>1, <3>2
  <2>4. CASE ControlTurn
    BY <2>1, <2>3, <2>4 DEF ControlTurn, CP!Failover, CP!CallerTimeout,
           CP!DeleteVolume, CP!CreateVolume
  <2> QED BY <1>3, <2>2, <2>4, SystemTurns
          DEF NodeTurn, CacheTurn, vars, controlVars
<1> QED BY <1>1, <1>2, <1>3, PodKept DEF PodsWanted

(* Record and image as the controller keeps them until the deletion is     *)
(* asked for.                                                              *)
VolumeKept == CP!RecordInv /\ (want \in CP!BeforeDelete => CP!KeepsImage)

LEMMA VolumeKeptNext ==
    ASSUME SystemInv, VolumeKept, [SystemNext]_vars,
           "lostanswer" \notin ControlHazards
    PROVE  VolumeKept'
<1> USE ResourceAssumption, ManagerAssumption, SystemAssumption, SameKinds
<1>1. CP!Effect /\ CP!ControlInv /\ CP!RecordInv
  BY SystemControlEffect DEF SystemInv, VolumeKept
<1>2. (CP!RecordInv)'
  BY <1>1, CP!RecordInvNext
<1>3. want' \in CP!BeforeDelete => want \in CP!BeforeDelete
  BY <1>1, CP!WantOnward DEF CP!RecordInv
<1>4. ASSUME want \in CP!BeforeDelete
      PROVE  (CP!KeepsImage)'
  BY <1>1, <1>4, CP!KeepsImageNext DEF VolumeKept
<1> QED BY <1>2, <1>3, <1>4 DEF VolumeKept, CP!BeforeDelete

(* Until then that is the volume every answer was about. *)
LEMMA KeptIsAcked ==
    ASSUME SystemInv, VolumeKept, want \in CP!BeforeDelete
    PROVE  /\ \A a \in acked : /\ CP!Current.uuid = a.uuid
                               /\ img.uuid = a.uuid
           /\ CP!Exists(CP!Current) => img.mib * MiB >= CP!Current.cap
<1>1. /\ \A a \in acked : CP!Current.phase = "Live" /\ CP!Current.uuid = a.uuid
      /\ CP!Exists(CP!Current) => CP!Current.phase = "Live"
  <2>1. Len(log) \in DOMAIN log
    BY DEF SystemInv, CP!ControlInv, CP!TypeInv, CP!ManagerTypeOK
  <2> QED BY <2>1 DEF VolumeKept, CP!RecordInv, CP!AckedRecord, CP!OneRecord,
                      CP!Current
<1> QED BY <1>1 DEF VolumeKept, CP!KeepsImage

(* Once the deletion is asked for, what is left of the volume is what was  *)
(* answered for, where no CreateVolume outlives its caller to make another *)
(* one.                                                                    *)
VolumeLeft ==
    /\ CP!Exists(CP!Current) => \A a \in acked : CP!Current.uuid = a.uuid
    /\ img # CP!NoImage =>
          /\ \A a \in acked : img.uuid = a.uuid
          /\ CP!Exists(CP!Current) => img.mib * MiB >= CP!Current.cap

VolumeStays == want \notin CP!BeforeDelete => VolumeLeft

LEMMA VolumeStaysNext ==
    ASSUME SystemInv, VolumeKept, CP!LateOnly, VolumeStays, CP!Effect
    PROVE  VolumeStays'
<1> USE ResourceAssumption, ManagerAssumption, SystemAssumption, SameKinds
<1>1. CP!ControlInv /\ CP!RecordInv /\ CP!Waits
  BY DEF SystemInv, VolumeKept, CP!RecordInv
<1>2. CASE want = "create"
  <2>1. want' \in CP!BeforeDelete
    BY <1>1, <1>2
       DEF CP!Effect, CP!OtherEffect, CP!CreateEffect, CP!DeleteEffect,
           CP!EitherEffect, CP!Created, CP!Waits, CP!DeletePcs, CP!CreatePcs,
           CP!BeforeDelete
  <2> QED BY <2>1 DEF VolumeStays, CP!BeforeDelete
<1>3. CASE want # "create"
  <2>1. \A s \in ControlSlots : ccall[s].pc \notin CP!CreatePcs
    BY <1>1, <1>3 DEF CP!Waits, CP!LateOnly
  <2>2. acked' = acked /\ img' \in {img, CP!NoImage}
    BY <1>3, <2>1
       DEF CP!Effect, CP!OtherEffect, CP!CreateEffect, CP!DeleteEffect,
           CP!EitherEffect, CP!CreatePcs
  <2>3. CP!RecordEffect
    BY <1>1, CP!EffectOnRecord
  <2>4. (CP!Exists(CP!Current))' =>
           /\ CP!Exists(CP!Current)
           /\ CP!Current'.uuid = CP!Current.uuid
           /\ CP!Current'.cap = CP!Current.cap
    BY <2>1, <2>3 DEF CP!RecordEffect, CP!Exists, CP!CreatePcs
  <2>5. VolumeLeft
    BY KeptIsAcked DEF VolumeStays, VolumeLeft
  <2> QED BY <2>2, <2>4, <2>5 DEF VolumeStays, VolumeLeft, CP!NoImage
<1> QED BY <1>2, <1>3

(* PodHasItsVolume: a pod that was given its volume has the image          *)
(* CreateVolume made for that volume id, large enough, under a record that *)
(* carries the id and names the pod's node.  Until the deletion of the     *)
(* volume is asked for, that is the controller's invariant (VolumeKept);   *)
(* afterwards either there are no pods (PodsWanted), or no CreateVolume is *)
(* left to make another image and record (VolumeStays) and the watcher     *)
(* keeps the image (ConnImage).                                            *)
THEOREM SystemPodHasItsVolume ==
    ASSUME NP!Orderly, "lostanswer" \notin ControlHazards,
           \/ "createtimeout" \notin ControlHazards
           \/ "deleteinuse" \notin ControlHazards
    PROVE  SystemSpec => []PodHasItsVolume
<1> USE ResourceAssumption, ManagerAssumption, SystemAssumption, SameKinds
<1> DEFINE Late == /\ "createtimeout" \notin ControlHazards
                      => CP!LateOnly /\ VolumeStays
                   /\ "deleteinuse" \notin ControlHazards => PodsWanted
           I == /\ SystemInv /\ NP!NodeSafe /\ ConnImage /\ PodVolume
                /\ VolumeKept /\ Late
<1>1. SystemInit => I
  <2>1. SystemInit => ConnImage /\ PodVolume /\ PodsWanted /\ VolumeStays
    BY DEF SystemInit, NodeService!NodeInit, ControlService!ControlInit,
           ConnImage, PodVolume, PodsWanted, VolumeStays, CP!BeforeDelete,
           NodeService!NoPod
  <2> QED BY <2>1, SystemInvInit, SameInit, NP!NodeSafeInit,
             CP!ControlSafetyInit, CP!LateOnlyInit
          DEF VolumeKept
<1>2. I /\ [SystemNext]_vars => I'
  <2> SUFFICES ASSUME I, [SystemNext]_vars PROVE I'
    OBVIOUS
  <2>1. /\ NP!NodeEffect /\ NP!NodeInv
        /\ CP!Effect /\ CP!ControlInv /\ CP!RecordInv /\ CP!Waits
    BY SystemNodeEffect, SystemControlEffect
       DEF SystemInv, VolumeKept, CP!RecordInv
  <2>2. SystemInv' /\ ConnImage' /\ PodVolume' /\ VolumeKept'
    BY SystemInvNext, ConnImageNext, PodVolumeNext, VolumeKeptNext
  <2>3. (NP!NodeSafe)'
    BY <2>1, NP!NodeSafeNext
  <2>4. ASSUME "createtimeout" \notin ControlHazards
        PROVE  (CP!LateOnly)' /\ VolumeStays'
    <3>1. CP!LateOnly /\ VolumeStays
      BY <2>4
    <3>2. (CP!LateOnly)'
      BY <2>1, <2>4, <3>1, CP!LateOnlyNext
    <3> QED BY <2>1, <3>1, <3>2, VolumeStaysNext
  <2>5. ASSUME "deleteinuse" \notin ControlHazards
        PROVE  PodsWanted'
    BY <2>1, <2>5, PodsWantedNext
  <2> QED BY <2>2, <2>3, <2>4, <2>5
<1>3. I => PodHasItsVolume
  <2> SUFFICES ASSUME I, NEW n \in Nodes, NEW t \in Targets,
                      pod[n][t].st = "published"
               PROVE  /\ Exists(Current) /\ Current.uuid = pod[n][t].vol
                      /\ Current.status.node = n
                      /\ img.uuid = pod[n][t].vol
                      /\ img.mib * MiB >= Current.cap
    BY DEF PodHasItsVolume
  <2>1. Current = NP!Current /\ Current = CP!Current
    BY DEF Current, NP!Current, CP!Current
  <2>2. /\ Exists(Current) /\ CP!Exists(CP!Current)
        /\ Current.status.node = n /\ n \in conn
    BY <2>1 DEF NP!NodeSafe, NP!DeviceSafe, NP!PodDevice, NP!PodRecord, Exists,
                NP!Exists, CP!Exists
  <2>3. img # CP!NoImage
    BY <2>2 DEF ConnImage
  <2>4. PICK a \in acked : a.uuid = pod[n][t].vol
    BY DEF PodVolume
  <2>5. CASE want \in CP!BeforeDelete
    BY <2>1, <2>2, <2>4, <2>5, KeptIsAcked
  <2>6. CASE want \notin CP!BeforeDelete
    <3>1. VolumeStays
      BY <2>6 DEF PodsWanted, CP!BeforeDelete
    <3> QED BY <2>1, <2>2, <2>3, <2>4, <2>6, <3>1 DEF VolumeStays, VolumeLeft
  <2> QED BY <2>5, <2>6
<1> QED BY <1>1, <1>2, <1>3, PTL DEF SystemSpec

-----------------------------------------------------------------------------
(* What NodeRpc promises with an external controller it keeps with the     *)
(* real one: a published pod has record, device and mount; a node without  *)
(* pods has none of them; the image is connected to one node at a time.    *)
THEOREM SystemKeepsNodeSafety ==
    ASSUME NP!Orderly, NP!Honest, Targets # {}
    PROVE  SystemSpec => [](/\ NodeService!InUseRecorded
                            /\ NodeService!TornDownClean
                            /\ NodeService!OneNodeConnected)
<1> USE ResourceAssumption, ManagerAssumption, SystemAssumption, SameKinds
<1> DEFINE I == SystemInv /\ NP!NodeSafe
<1>1. SystemInit => I
  BY SystemInvInit, SameInit, NP!NodeSafeInit
<1>2. I /\ [SystemNext]_vars => I'
  <2> SUFFICES ASSUME I, [SystemNext]_vars PROVE I'
    OBVIOUS
  <2>1. NP!NodeEffect /\ NP!NodeInv
    BY SystemNodeEffect DEF SystemInv
  <2>2. (NP!NodeSafe)'
    BY <2>1, NP!NodeSafeNext
  <2> QED BY <2>2, SystemInvNext
<1>3. I => NodeService!InUseRecorded
  BY DEF NP!NodeSafe, NP!DeviceSafe, NP!PodDevice, NP!PodRecord,
         NodeService!InUseRecorded, NP!Exists, NodeService!Exists, NP!Current,
         NodeService!Current
<1>4. ASSUME I, NEW n \in Nodes, NodeService!NoPodOn(n)
      PROVE  n \notin conn /\ mounted[n] = {} /\ NP!Current.status.node # n
  BY <1>4 DEF NP!NodeSafe, NP!DeviceSafe, NP!PodDevice, NP!PodRecord,
              NodeService!NoPodOn
<1>5. I => NodeService!TornDownClean
  BY <1>4 DEF NodeService!TornDownClean, NP!Current, NodeService!Current
<1>6. I => NodeService!OneNodeConnected
  <2> SUFFICES ASSUME I, NEW m \in conn, NEW n \in conn
               PROVE  m = n
    BY DEF NodeService!OneNodeConnected
  <2>1. m \in Nodes /\ n \in Nodes
    BY DEF SystemInv, NP!NodeInv, NP!DeviceTypes
  <2>2. ~NodeService!NoPodOn(m) /\ ~NodeService!NoPodOn(n)
    BY <1>4, <2>1
  <2> QED BY <2>1, <2>2
          DEF NP!NodeSafe, NP!OneUser, NP!NoPodOn, NodeService!NoPodOn
<1>7. I => /\ NodeService!InUseRecorded
           /\ NodeService!TornDownClean
           /\ NodeService!OneNodeConnected
  BY <1>3, <1>5, <1>6
<1> QED BY <1>1, <1>2, <1>7, PTL DEF SystemSpec

(* And ControlRpc keeps with real nodes what it promises with an external  *)
(* one: a live record has its image, and a volume that was answered for is *)
(* there, as large as requested, until its deletion is asked for, however  *)
(* the nodes connect, disconnect and write the status meanwhile.           *)
THEOREM SystemKeepsControlSafety ==
    ASSUME "lostanswer" \notin ControlHazards
    PROVE  SystemSpec => [](/\ ControlService!LiveHasImage
                            /\ ControlService!AckedDurable)
<1> USE ResourceAssumption, ManagerAssumption, SystemAssumption, SameKinds
<1> DEFINE I == SystemInv /\ VolumeKept
<1>1. SystemInit => I
  BY SystemInvInit, SameInit, CP!ControlSafetyInit DEF VolumeKept
<1>2. I /\ [SystemNext]_vars => I'
  BY SystemInvNext, VolumeKeptNext
<1>3. ControlService!Current = CP!Current
  BY DEF ControlService!Current, CP!Current
<1>4. I => ControlService!LiveHasImage
  BY <1>3 DEF VolumeKept, CP!KeepsImage, CP!BeforeDelete,
              ControlService!LiveHasImage
<1>5. I => ControlService!AckedDurable
  <2> SUFFICES ASSUME I, want = "created", NEW a \in acked
               PROVE  /\ CP!Current.phase = "Live" /\ CP!Current.uuid = a.uuid
                      /\ CP!Current.cap >= a.req
                      /\ img.uuid = a.uuid /\ img.mib * MiB >= a.req
    BY <1>3 DEF ControlService!AckedDurable
  <2>1. /\ CP!Current.phase = "Live" /\ CP!Current.uuid = a.uuid
        /\ CP!Current.cap >= a.req
    BY DEF VolumeKept, CP!RecordInv, CP!AckedRecord, CP!BeforeDelete
  <2>2. img.uuid = a.uuid /\ img.mib * MiB >= CP!Current.cap
    BY <2>1 DEF VolumeKept, CP!KeepsImage, CP!BeforeDelete
  <2>3. a.req \in Nat /\ img.mib * MiB \in Nat /\ CP!Current.cap \in Nat
    <3>1. a.req \in Nat /\ img.mib \in Nat
      BY DEF SystemInv, CP!ControlInv, CP!RequestTypes, CP!Image
    <3>2. CP!Current \in CP!Object
      BY DEF SystemInv, CP!ControlInv, CP!TypeInv, CP!ManagerTypeOK,
             CP!Current
    <3> QED BY <3>1, <3>2 DEF CP!Object
  <2> QED BY <2>1, <2>2, <2>3
<1>6. I => ControlService!LiveHasImage /\ ControlService!AckedDurable
  BY <1>4, <1>5
<1> QED BY <1>1, <1>2, <1>6, PTL DEF SystemSpec
=============================================================================
