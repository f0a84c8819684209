-------------------------- MODULE ControlRpcProofs --------------------------
(***************************************************************************)
(* What holds of ControlRpc for any sizes, slots, uuids and hazards.  As   *)
(* in NodeRpcProofs, every step of CreateVolume and DeleteVolume is, seen  *)
(* from the record, a step of AlcubManager's general client.               *)
(***************************************************************************)
EXTENDS ControlRpc, AlcubManagerProofs

(* A running CreateVolume has drawn a uuid and knows the size asked for. *)
CallTypes ==
    /\ call \in [Slots -> Call]
    /\ \A s \in Slots : call[s].pc \in CreatePcs =>
          call[s].uuid \in Uuids /\ call[s].cap \in Caps

(* The part of ControlTypeOK about the image and the provisioner. *)
RequestTypes ==
    /\ img \in Image
    /\ want \in {"create", "created", "delete", "deleted"}
    /\ acked \in SUBSET [uuid : Uuids, req : Nat]
    /\ use \in {"no", "attached", "recorded", "detached", "done"}

ControlInv == TypeInv /\ CallTypes /\ RequestTypes

-----------------------------------------------------------------------------
LEMMA IdleTypes == IdleCall \in Call /\ IdleCall.pc = "idle" /\ NoImage \in Image
BY DEF IdleCall, Call, NoImage, Image

(* A slot may take any well-formed handler. *)
LEMMA SlotTypes ==
    ASSUME CallTypes, NEW s \in Slots, NEW k \in Call,
           k.pc \in CreatePcs => k.uuid \in Uuids /\ k.cap \in Caps,
           call' = [call EXCEPT ![s] = k]
    PROVE  CallTypes'
BY DEF CallTypes

LEMMA ReturnTypes ==
    ASSUME CallTypes, NEW s \in Slots, Return(s) \/ Fail(s)
    PROVE  CallTypes'
BY IdleTypes, SlotTypes DEF Return, Fail, CreatePcs

(* A handler goes on with the uuid and the size it has. *)
LEMMA GotoTypes ==
    ASSUME CallTypes, NEW s \in Slots, NEW pc \in CreatePcs \cup DeletePcs,
           pc \in CreatePcs => call[s].pc \in CreatePcs, Goto(s, pc)
    PROVE  CallTypes'
<1> DEFINE k == [call[s] EXCEPT !.pc = pc]
<1>1. call[s] \in Call
  BY DEF CallTypes
<1>2. k \in Call /\ k.pc = pc /\ k.uuid = call[s].uuid /\ k.cap = call[s].cap
  BY <1>1 DEF Call
<1>3. call' = [call EXCEPT ![s] = k]
  BY DEF Goto, CallTypes
<1> QED BY <1>2, <1>3, SlotTypes DEF CallTypes

-----------------------------------------------------------------------------
(* A handler touches the record with one call of AlcubCon, or not at all. *)
LEMMA HandlerRefines ==
    ASSUME CallTypes, NEW s \in Slots, HandlerStep(s)
    PROVE  [ManagerNext]_managerVars
<1> DEFINE u == call[s].uuid
<1>1. Leader \in Procs
  BY ControlAssumption
<1>2. ASSUME UNCHANGED recordVars, UNCHANGED faults \/ Fault
      PROVE  [ManagerNext]_managerVars
  BY <1>2 DEF recordVars, managerVars, ManagerNext, ClientNext, CallFails
<1>3. CASE CreateImage(s)
  BY <1>2, <1>3 DEF CreateImage
<1>4. CASE SubmitRecord(s)
  <2>1. u \in Uuids
    BY <1>4 DEF SubmitRecord, At, CallTypes, CreatePcs
  <2> QED BY <1>1, <1>4, <2>1
          DEF SubmitRecord, ManagerNext, ClientNext, ClientCreate
<1>5. CASE ApplyRecord(s)
  <2>1. u \in Uuids /\ call[s].cap \in Caps
    BY <1>5 DEF ApplyRecord, At, CallTypes, CreatePcs
  <2> QED BY <1>1, <1>5, <2>1
          DEF ApplyRecord, ManagerNext, ClientNext, ClientCreate
<1>6. CASE FinishCreate(s)
  <2>1. u \in Uuids
    BY <1>6 DEF FinishCreate, At, CallTypes, CreatePcs
  <2> QED BY <1>1, <1>6, <2>1
          DEF FinishCreate, ManagerNext, ClientNext, ClientCreate
<1>7. CASE UndoCreate(s)
  BY <1>2, <1>7 DEF UndoCreate, rbdStatus, rbdRm
<1>8. CASE DeleteTheImage(s)
  BY <1>2, <1>8 DEF DeleteTheImage, rbdStatus, rbdRm
<1>9. CASE DeleteRecord(s)
  <2>1. CASE Delete(Leader)
    BY <1>1, <1>9, <2>1
       DEF DeleteRecord, ManagerNext, ClientNext, ClientWrite, managerVars
  <2>2. CASE UNCHANGED recordVars
    BY <1>2, <1>9, <2>2 DEF DeleteRecord, managerVars
  <2> QED BY <1>9, <2>1, <2>2 DEF DeleteRecord, managerVars, recordVars
<1> QED
  BY <1>3, <1>4, <1>5, <1>6, <1>7, <1>8, <1>9 DEF HandlerStep

LEMMA ControlRefines ==
    ASSUME CallTypes, [ControlNext]_vars
    PROVE  [ManagerNext]_managerVars
<1>1. CASE UNCHANGED vars \/ RequestDelete
  BY <1>1 DEF vars, RequestDelete
<1>2. CASE Failover
  BY <1>2, ControlAssumption DEF Failover, ManagerNext
<1>3. ASSUME NEW s \in Slots, HandlerStep(s) PROVE [ManagerNext]_managerVars
  BY <1>3, HandlerRefines
<1>4. ASSUME NEW s \in Slots, CallerTimeout(s) PROVE ManagerNext
  BY <1>4 DEF CallerTimeout, ManagerNext, ClientNext, CallFails, recordVars
<1>5. ASSUME NEW s \in Slots, DeleteVolume(s) \/ \E c \in Caps : CreateVolume(s, c)
      PROVE  UNCHANGED managerVars
  BY <1>5 DEF DeleteVolume, CreateVolume
<1>6. ASSUME NEW n \in Nodes \cap Procs, NodeUse(n)
      PROVE  [ManagerNext]_managerVars
  <2>1. /\ [node |-> n, prenode |-> NoNode, vi |-> n] \in Status
        /\ [node |-> NoNode, prenode |-> NoNode, vi |-> n] \in Status
    BY DEF Status, NodeOrNone
  <2> QED BY <1>6, <2>1 DEF NodeUse, ManagerNext, ClientNext, ClientWrite
<1>7. ASSUME NEW p \in Procs, CacheStep(p) PROVE ManagerNext
  BY <1>7 DEF ManagerNext
<1> QED BY <1>1, <1>2, <1>3, <1>4, <1>5, <1>6, <1>7 DEF ControlNext

-----------------------------------------------------------------------------
LEMMA HandlerTypes ==
    ASSUME CallTypes, NEW s \in Slots, HandlerStep(s)
    PROVE  CallTypes'
<1> USE DEF CreatePcs, DeletePcs, At
<1>1. CASE CreateImage(s)
  BY <1>1, ReturnTypes, GotoTypes DEF CreateImage
<1>2. CASE SubmitRecord(s)
  BY <1>2, GotoTypes DEF SubmitRecord
<1>3. CASE ApplyRecord(s)
  BY <1>3 DEF ApplyRecord, controlVars, CallTypes
<1>4. CASE FinishCreate(s)
  BY <1>4, ReturnTypes, GotoTypes DEF FinishCreate
<1>5. CASE UndoCreate(s)
  BY <1>5, ReturnTypes, GotoTypes DEF UndoCreate, rbdStatus, rbdRm
<1>6. CASE DeleteTheImage(s)
  BY <1>6, ReturnTypes, GotoTypes DEF DeleteTheImage, rbdStatus, rbdRm
<1>7. CASE DeleteRecord(s)
  BY <1>7, ReturnTypes DEF DeleteRecord
<1> QED BY <1>1, <1>2, <1>3, <1>4, <1>5, <1>6, <1>7 DEF HandlerStep

(* rbd makes images of the sizes it is asked for, and answers carry the    *)
(* uuid of a call or of a record.                                          *)
LEMMA HandlerRequests ==
    ASSUME CallTypes, RequestTypes, NEW s \in Slots, HandlerStep(s)
    PROVE  RequestTypes'
<1> USE DEF CreatePcs, At, Goto, Fail
<1>1. CASE CreateImage(s)
  <2>1. call[s].uuid \in Uuids /\ call[s].cap \in Nat
    BY <1>1, ResourceAssumption DEF CreateImage, CallTypes
  <2>2. RoundUpSize(call[s].cap) > 0 => RoundUpSize(call[s].cap) \in Nat
    BY <2>1, ControlAssumption DEF RoundUpSize
  <2>3. RoundUpSize(call[s].cap) > 0 =>
           [uuid |-> call[s].uuid, mib |-> RoundUpSize(call[s].cap)] \in Image
    BY <2>1, <2>2 DEF Image
  <2> QED BY <1>1, <2>3 DEF CreateImage, RequestTypes
<1>2. CASE SubmitRecord(s) \/ ApplyRecord(s)
  BY <1>2 DEF SubmitRecord, ApplyRecord, controlVars, RequestTypes
<1>3. CASE FinishCreate(s)
  <2>1. call[s].uuid \in Uuids /\ call[s].cap \in Nat
    BY <1>3, ResourceAssumption DEF FinishCreate, CallTypes
  <2> QED BY <1>3, <2>1 DEF FinishCreate, Created, RequestTypes
<1>4. CASE UndoCreate(s)
  BY <1>4, IdleTypes DEF UndoCreate, rbdStatus, rbdRm, RequestTypes
<1>5. CASE DeleteTheImage(s)
  BY <1>5, IdleTypes DEF DeleteTheImage, rbdStatus, rbdRm, RequestTypes
<1>6. CASE DeleteRecord(s)
  BY <1>6 DEF DeleteRecord, Deleted, RequestTypes
<1> QED BY <1>1, <1>2, <1>3, <1>4, <1>5, <1>6 DEF HandlerStep

LEMMA ControlStepTypes ==
    ASSUME ControlInv, [ControlNext]_vars
    PROVE  CallTypes' /\ RequestTypes'
<1> USE DEF ControlInv
<1>1. CASE UNCHANGED controlVars
  BY <1>1 DEF controlVars, CallTypes, RequestTypes
<1>2. CASE RequestDelete
  BY <1>2 DEF RequestDelete, CallTypes, RequestTypes
<1>3. CASE Failover
  BY <1>3, IdleTypes DEF Failover, CallTypes, RequestTypes, CreatePcs
<1>4. ASSUME NEW s \in Slots, HandlerStep(s)
      PROVE  CallTypes' /\ RequestTypes'
  BY <1>4, HandlerTypes, HandlerRequests
<1>5. ASSUME NEW s \in Slots, CallerTimeout(s)
      PROVE  CallTypes' /\ RequestTypes'
  <2> DEFINE k == [call[s] EXCEPT !.waiting = FALSE]
  <2>1. call[s] \in Call
    BY DEF CallTypes
  <2>2. /\ k \in Call
        /\ k.pc = call[s].pc /\ k.uuid = call[s].uuid /\ k.cap = call[s].cap
    BY <2>1 DEF Call
  <2>3. call' = [call EXCEPT ![s] = k]
    BY <1>5 DEF CallerTimeout, CallTypes
  <2>4. CallTypes'
    BY <2>2, <2>3, SlotTypes DEF CallTypes
  <2> QED BY <1>5, <2>4 DEF CallerTimeout, RequestTypes
<1>6. ASSUME NEW s \in Slots, DeleteVolume(s)
      PROVE  CallTypes' /\ RequestTypes'
  <2>1. CallTypes'
    <3>1. CASE UNCHANGED call
      BY <3>1 DEF CallTypes
    <3>2. CASE \E a \in acked :
                  call' = [call EXCEPT ![s] = [pc |-> "status", uuid |-> a.uuid,
                                               cap |-> 0, waiting |-> TRUE]]
      <4>1. PICK a \in acked :
                  call' = [call EXCEPT ![s] = [pc |-> "status", uuid |-> a.uuid,
                                               cap |-> 0, waiting |-> TRUE]]
        BY <3>2
      <4>2. a.uuid \in Uuids
        BY DEF RequestTypes
      <4>3. [pc |-> "status", uuid |-> a.uuid, cap |-> 0, waiting |-> TRUE]
               \in Call
        BY <4>2 DEF Call, DeletePcs
      <4> QED BY <4>1, <4>3, SlotTypes DEF CreatePcs
    <3> QED BY <1>6, <3>1, <3>2 DEF DeleteVolume
  <2>2. RequestTypes'
    BY <1>6 DEF DeleteVolume, Deleted, RequestTypes
  <2> QED BY <2>1, <2>2
<1>7. ASSUME NEW s \in Slots, NEW c \in Caps, CreateVolume(s, c)
      PROVE  CallTypes' /\ RequestTypes'
  <2>1. c \in Nat
    BY ResourceAssumption
  <2>2. CASE /\ GetByName(Leader) /\ Created(Cached(Leader).uuid, c, TRUE)
             /\ UNCHANGED call
    <3>1. Cached(Leader).uuid \in Uuids
      BY <2>2, ControlAssumption DEF GetByName, TypeInv, HasUuid, ManagerTypeOK,
         Cached
    <3> QED BY <1>7, <2>1, <2>2, <3>1
            DEF CreateVolume, Created, CallTypes, RequestTypes
  <2>3. CASE /\ UNCHANGED <<want, acked>>
             /\ \E u \in Uuids :
                   call' = [call EXCEPT ![s] = [pc |-> "image", uuid |-> u,
                                                cap |-> c, waiting |-> TRUE]]
    <3>1. PICK u \in Uuids :
                   call' = [call EXCEPT ![s] = [pc |-> "image", uuid |-> u,
                                                cap |-> c, waiting |-> TRUE]]
      BY <2>3
    <3>2. [pc |-> "image", uuid |-> u, cap |-> c, waiting |-> TRUE] \in Call
      BY <2>1 DEF Call, CreatePcs
    <3> QED BY <1>7, <2>3, <3>1, <3>2, SlotTypes DEF CreateVolume, RequestTypes
  <2> QED BY <1>7, <2>2, <2>3 DEF CreateVolume
<1>8. ASSUME NEW n \in Nodes \cap Procs, NodeUse(n)
      PROVE  CallTypes' /\ RequestTypes'
  BY <1>8 DEF NodeUse, CallTypes, RequestTypes
<1> QED
  BY <1>1, <1>2, <1>3, <1>4, <1>5, <1>6, <1>7, <1>8
     DEF ControlNext, vars

LEMMA ControlInvInit == ControlInit => ControlInv
<1> SUFFICES ASSUME ControlInit PROVE ControlInv
  OBVIOUS
<1>1. TypeInv
  BY TypeInit DEF ControlInit
<1>2. CallTypes /\ RequestTypes
  BY IdleTypes DEF ControlInit, CallTypes, RequestTypes, CreatePcs
<1> QED BY <1>1, <1>2 DEF ControlInv

LEMMA ControlInvNext == ControlInv /\ [ControlNext]_vars => ControlInv'
BY ControlRefines, ControlStepTypes, TypeNext DEF ControlInv

(* Type correctness of the controller service and of its record. *)
THEOREM ControlTypeCorrect == ControlSpec => []ControlTypeOK
<1>1. ControlInv => ControlTypeOK
  BY DEF ControlInv, TypeInv, CallTypes, RequestTypes, ControlTypeOK
<1> QED BY <1>1, ControlInvInit, ControlInvNext, PTL DEF ControlSpec

(* However CreateVolume and DeleteVolume overlap, fail, are cut off by a   *)
(* failover and are repeated, they use the record only as AlcubManager     *)
(* allows.                                                                 *)
THEOREM ControlImplementsManager == ControlSpec => ImplementsManager
<1>1. ControlInit => ManagerInit
  BY DEF ControlInit
<1>2. ControlInv /\ [ControlNext]_vars => [ManagerNext]_managerVars
  BY ControlRefines DEF ControlInv
<1> QED
  BY <1>1, <1>2, ControlInvInit, ControlInvNext, PTL
     DEF ControlSpec, ImplementsManager, ManagerSpec
=============================================================================
