------------------------------- MODULE System -------------------------------
(***************************************************************************)
(* The driver as a whole: the controller service (ControlRpc) and the node *)
(* services (NodeRpc) over one CsiAlcub record (AlcubManager), one rbd     *)
(* image and one storage service.  Each service replaces what the other    *)
(* module has as an external party: the controller's record operations     *)
(* come from CreateVolume and DeleteVolume, the watchers of the image are  *)
(* the nodes it is connected to.                                           *)
(*                                                                         *)
(* External parties: the provisioner and the orchestrator, which place a   *)
(* pod once CreateVolume has answered, ask for the deletion once the pods  *)
(* are gone, and repeat what fails.                                        *)
(***************************************************************************)
EXTENDS AlcubManager

CONSTANTS
    Leader,         \* the process whose controller serves requests
    MiB,            \* bytes in the unit rbd images are sized in
    ControlSlots,   \* bound: handlers running at once in the controller
    NodeSlots,      \* bound: handlers running at once on a node
    Targets,        \* target paths on a node
    MaxPods,        \* bound: number of pods placed
    NodeHazards,    \* Hazards of NodeRpc
    ControlHazards  \* Hazards of ControlRpc

VARIABLES
    conn, mounted, ncall, pod, pods,    \* NodeRpc
    img, ccall, want, acked             \* ControlRpc

nodeVars == <<conn, mounted, ncall, pod, pods>>
controlVars == <<img, ccall, want, acked>>
vars == <<managerVars, nodeVars, controlVars>>

(* A node the storage service has connected the image to watches it. *)
Use == IF conn = {} THEN "no" ELSE "attached"

NodeService == INSTANCE NodeRpc WITH call <- ncall, Slots <- NodeSlots,
                                     Hazards <- NodeHazards

ControlService == INSTANCE ControlRpc WITH call <- ccall, use <- Use,
                                           Slots <- ControlSlots,
                                           Hazards <- ControlHazards

ASSUME SystemAssumption ==
    /\ Nodes \subseteq Procs
    /\ Leader \in Procs \ Nodes
    /\ MiB \in Nat \ {0}
    /\ MaxPods \in Nat
    /\ NodeHazards \subseteq NodeService!HazardKinds
    /\ ControlHazards \subseteq ControlService!HazardKinds

SystemTypeOK == NodeService!NodeTypeOK /\ ControlService!ControlTypeOK

SystemInit == NodeService!NodeInit /\ ControlService!ControlInit

-----------------------------------------------------------------------------
(* External: a pod is placed for a volume CreateVolume answered for. *)
PlacePod(n, t) ==
    /\ want = "created"
    /\ \E a \in acked : a.uuid = Current.uuid
    /\ NodeService!SchedulePod(n, t)
    /\ UNCHANGED controlVars

(* External: a volume is deleted when its pods are gone. *)
RequestDelete ==
    /\ want = "created"
    /\ \/ ControlService!May("deleteinuse")
       \/ \A n \in Nodes : NodeService!NoPodOn(n)
    /\ ControlService!May("quickdelete") \/ Exists(Cached(Leader))
    /\ want' = "delete"
    /\ UNCHANGED <<managerVars, nodeVars, img, ccall, acked>>

(* The storage service has no image to connect: dev_connect fails. *)
AttachNothing(n, s) ==
    /\ img = ControlService!NoImage
    /\ NodeService!At(n, s, "attach")
    /\ NodeService!Fail(n, s)
    /\ UNCHANGED <<managerVars, conn, mounted, controlVars>>

NodeHandlerStep(n, s) ==
    \/ /\ NodeService!At(n, s, "attach") => img # ControlService!NoImage
       /\ NodeService!HandlerStep(n, s)
       /\ UNCHANGED controlVars
    \/ AttachNothing(n, s)

Publish(n, t) ==
    /\ \E s \in NodeSlots : NodeService!NodePublishVolume(n, s, t)
    /\ UNCHANGED controlVars

Unpublish(n, t) ==
    /\ \E s \in NodeSlots : NodeService!NodeUnpublishVolume(n, s, t)
    /\ UNCHANGED controlVars

NodeStep(n) ==
    \/ \E s \in NodeSlots : NodeHandlerStep(n, s)
    \/ \E t \in Targets : PlacePod(n, t) \/ Publish(n, t) \/ Unpublish(n, t)
    \/ /\ \/ NodeService!PluginRestart(n)
          \/ \E t \in Targets : NodeService!DeletePod(n, t)
          \/ \E s \in NodeSlots : NodeService!CallerTimeout(n, s)
       /\ UNCHANGED controlVars

ControlHandlerStep(s) == UNCHANGED nodeVars /\ ControlService!HandlerStep(s)

Create ==
    /\ UNCHANGED nodeVars
    /\ \E s \in ControlSlots, c \in Caps : ControlService!CreateVolume(s, c)

DeleteVolume ==
    /\ UNCHANGED nodeVars
    /\ \E s \in ControlSlots : ControlService!DeleteVolume(s)

ControlStep ==
    \/ \E s \in ControlSlots : ControlHandlerStep(s)
    \/ Create
    \/ DeleteVolume
    \/ RequestDelete
    \/ /\ UNCHANGED nodeVars
       /\ \/ ControlService!Failover
          \/ \E s \in ControlSlots : ControlService!CallerTimeout(s)

Background(A) == A /\ UNCHANGED <<nodeVars, controlVars>>

SystemNext ==
    \/ \E n \in Nodes : NodeStep(n)
    \/ ControlStep
    \/ \E p \in Procs : Background(CacheStep(p))

SystemSpec == SystemInit /\ [][SystemNext]_vars

(* client-go delivers every event, a worker takes every request from the   *)
(* queue and the resync timer fires, in the end; a handler that runs goes  *)
(* on; provisioner and orchestrator repeat what failed.  Nobody has to     *)
(* place or delete a pod or to ask for a deletion.                         *)
SystemFairness ==
    /\ \A p \in Procs : /\ WF_vars(Background(WatchEvent(p)))
                        /\ WF_vars(Background(Resync(p)))
                        /\ WF_vars(Background(Reconcile(p)))
    /\ \A n \in Nodes, s \in NodeSlots : WF_vars(NodeHandlerStep(n, s))
    /\ \A n \in Nodes, t \in Targets : /\ WF_vars(Publish(n, t))
                                       /\ WF_vars(Unpublish(n, t))
    /\ \A s \in ControlSlots : WF_vars(ControlHandlerStep(s))
    /\ WF_vars(Create)
    /\ WF_vars(DeleteVolume)

FairSystemSpec == SystemSpec /\ SystemFairness

-----------------------------------------------------------------------------
(* A pod that was given its volume has the image CreateVolume made for     *)
(* that volume id, large enough, under a record that carries the id and    *)
(* names the pod's node, from NodePublishVolume's answer until the pod is  *)
(* deleted.                                                                *)
PodHasItsVolume ==
    \A n \in Nodes, t \in Targets :
        pod[n][t].st = "published" =>
            /\ Exists(Current) /\ Current.uuid = pod[n][t].vol
            /\ Current.status.node = n
            /\ img.uuid = pod[n][t].vol /\ img.mib * MiB >= Current.cap

(* DeleteVolume and the node services meet only in rbd's watchers and in   *)
(* the finalizer: no device outlives its image, and neither does the mount *)
(* of a pod that was given the volume, until it is unmounted.  (failedfn   *)
(* of a repeated NodePublishVolume detaches a device under the mount an    *)
(* earlier attempt made: such a mount is not protected.)                   *)
DeviceHasImage ==
    \/ conn # {}
    \/ \E n \in Nodes : \E t \in mounted[n] :
          pod[n][t].st \in {"published", "unpublishing"}
    => img # ControlService!NoImage

(* The orchestrator's calls come to an end: a pod whose volume has its     *)
(* image gets it, unless the volume is deleted meanwhile.  (A record       *)
(* without image is what a lost answer to the creation of the record       *)
(* leaves; LiveHasImage holds without one.)                                *)
PodStarts ==
    \A n \in Nodes, t \in Targets :
        pod[n][t].st = "placed" /\ img.uuid = pod[n][t].vol
            ~> pod[n][t].st = "published" \/ want # "created"

(* What NodeUnpublishVolume does for a pod is done: the target is          *)
(* unmounted, the record does not name the node.  (Whether the device is   *)
(* disconnected, the storage service may have left unsaid.)                *)
TornDown(n, t) == t \notin mounted[n] /\ Current.status.node # n

(* And a deleted pod's volume is unpublished by repeating the call, unless *)
(* the volume is deleted meanwhile.  When the plugin ends, or an answer is *)
(* lost, after the record was cleared and before the orchestrator hears of *)
(* it, every repeated call fails at preUnmountValid: then all it can get   *)
(* is that the work is done (TornDown).                                    *)
PodStops ==
    \A n \in Nodes, t \in Targets :
        pod[n][t].st = "unpublishing"
            ~> pod[n][t].st = "none" \/ TornDown(n, t) \/ want # "created"

(* Repeating DeleteVolume succeeds once the image stays disconnected. *)
DeleteCompletes == want = "delete" ~> want = "deleted" \/ conn # {}
=============================================================================
