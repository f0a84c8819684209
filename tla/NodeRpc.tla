------------------------------ MODULE NodeRpc ------------------------------
(***************************************************************************)
(* pkg/noderpc: the node plugin's NodePublishVolume and                    *)
(* NodeUnpublishVolume, running on every node against the shared CsiAlcub  *)
(* record (AlcubManager), the storage service and the kernel's mounts.     *)
(* The handlers take no lock and ignore the deadline of the request, so    *)
(* they run step by step in slots, next to one another and to the          *)
(* AlcubCons.                                                              *)
(*                                                                         *)
(* External parties: the storage service (pkg/store's peer) connects the   *)
(* image to a node as a device; the container orchestrator places pods,    *)
(* calls the plugin and repeats calls that failed; the controller creates  *)
(* and deletes the record.  What these may do beyond the regular course is *)
(* named in Hazards, so that a run states which of it a property survives. *)
(***************************************************************************)
EXTENDS AlcubManager

CONSTANTS
    Targets,    \* target paths on a node, one per pod
    Slots,      \* bound: handlers running at once on a node
    MaxPods,    \* bound: number of pods placed
    Hazards     \* what the environment may do, a subset of HazardKinds

(***************************************************************************)
(*   takeover      a pod is placed although another node still holds one   *)
(*   timeout       the caller gives up while the handler runs on           *)
(*   abort         a pod is deleted before its volume is published         *)
(*   redisconnect  the storage service refuses to disconnect a device that *)
(*                 is not connected                                        *)
(*   silentdetach  it answers a disconnect it did not perform with a body  *)
(*                 that has no error in it                                 *)
(*   deleteinuse   the volume is deleted while a pod has it                *)
(***************************************************************************)
HazardKinds == {"takeover", "timeout", "abort", "redisconnect",
                "silentdetach", "deleteinuse"}

ASSUME NodeAssumption ==
    /\ Nodes \subseteq Procs
    /\ MaxPods \in Nat
    /\ Hazards \subseteq HazardKinds

May(h) == h \in Hazards

VARIABLES
    conn,       \* nodes the storage service has connected the image to
    mounted,    \* mounted[n]: target paths of n the device is mounted at
    call,       \* call[n][s]: the handler in slot s of node n
    pod,        \* pod[n][t]: the orchestrator's view of target t on n
    pods        \* number of pods placed so far

nodeVars == <<conn, mounted, call, pod, pods>>
recordVars == <<log, seen, uuidname, nodes, queue, creating>>
vars == <<managerVars, nodeVars>>

(***************************************************************************)
(* A handler: pc names the next step, snap is the status it read from the  *)
(* cache when it began (its alcub variable), waiting whether its caller    *)
(* still waits for the answer.                                             *)
(***************************************************************************)
PublishPcs == {"attach", "probe", "format", "undo", "record"}
UnpublishPcs == {"unmount", "detach", "clear"}

Call == [pc      : {"idle"} \cup PublishPcs \cup UnpublishPcs,
         tgt     : Targets \cup {"none"},
         snap    : Status,
         waiting : BOOLEAN]

IdleCall == [pc |-> "idle", tgt |-> "none", snap |-> EmptyStatus,
             waiting |-> FALSE]

(* A pod is "publishing" from its first NodePublishVolume on. *)
Pod == [st  : {"none", "placed", "publishing", "published", "unpublishing"},
        vol : Uuids \cup {NoUuid}]

NoPod == [st |-> "none", vol |-> NoUuid]

NodeTypeOK ==
    /\ ManagerTypeOK
    /\ conn \in SUBSET Nodes
    /\ mounted \in [Nodes -> SUBSET Targets]
    /\ call \in [Nodes -> [Slots -> Call]]
    /\ \A n \in Nodes, s \in Slots :
          call[n][s].pc # "idle" => call[n][s].tgt \in Targets
    /\ pod \in [Nodes -> [Targets -> Pod]]
    /\ pods \in 0..MaxPods

NodeInit ==
    /\ ManagerInit
    /\ conn = {}
    /\ mounted = [n \in Nodes |-> {}]
    /\ call = [n \in Nodes |-> [s \in Slots |-> IdleCall]]
    /\ pod = [n \in Nodes |-> [t \in Targets |-> NoPod]]
    /\ pods = 0

At(n, s, pc) == call[n][s].pc = pc

Goto(n, s, pc) == /\ call' = [call EXCEPT ![n][s].pc = pc]
                  /\ UNCHANGED <<pod, pods>>

(* The handler returns an error, or an answer nobody waits for. *)
Fail(n, s) == /\ call' = [call EXCEPT ![n][s] = IdleCall]
              /\ UNCHANGED <<pod, pods>>

(* The handler returns success; a waiting caller sees the pod become p. *)
Succeed(n, s, p) ==
    /\ call' = [call EXCEPT ![n][s] = IdleCall]
    /\ pod' = IF call[n][s].waiting
              THEN [pod EXCEPT ![n][call[n][s].tgt] = p]
              ELSE pod
    /\ UNCHANGED pods

Awaited(n, t) ==
    \E s \in Slots : ~At(n, s, "idle") /\ call[n][s].tgt = t
                                       /\ call[n][s].waiting

-----------------------------------------------------------------------------
(* External: the orchestrator. *)

NoPodOn(n) == \A t \in Targets : pod[n][t].st = "none"

(* A volume can be used once the Create that made it has returned. *)
SchedulePod(n, t) ==
    /\ pods < MaxPods
    /\ pod[n][t].st = "none"
    /\ Current.phase = "Live"
    /\ \A p \in Procs : Current.uuid \notin creating[p]
    /\ May("takeover") \/ \A m \in Nodes \ {n} : NoPodOn(m)
    /\ pod' = [pod EXCEPT ![n][t] = [st |-> "placed",
                                     vol |-> Current.uuid]]
    /\ pods' = pods + 1
    /\ UNCHANGED <<managerVars, conn, mounted, call>>

DeletePod(n, t) ==
    /\ ~Awaited(n, t)
    /\ \/ /\ \/ pod[n][t].st = "published"
             \/ pod[n][t].st = "publishing" /\ May("abort")
          /\ pod' = [pod EXCEPT ![n][t].st = "unpublishing"]
       \/ /\ pod[n][t].st = "placed" /\ May("abort")
          /\ pod' = [pod EXCEPT ![n][t] = NoPod]
    /\ UNCHANGED <<managerVars, conn, mounted, call, pods>>

(* The caller's deadline passes; the handler is not stopped by it. *)
CallerTimeout(n, s) ==
    /\ May("timeout") /\ Fault
    /\ call[n][s].waiting
    /\ call' = [call EXCEPT ![n][s].waiting = FALSE]
    /\ UNCHANGED <<recordVars, conn, mounted, pod, pods>>

-----------------------------------------------------------------------------
(* The storage service, as the client in pkg/store reports it.  A call     *)
(* that timed out, or whose answer names no device, may have connected it. *)
DoConn(n, ok) ==
    \/ ok /\ conn' = conn \cup {n} /\ UNCHANGED faults
    \/ ~ok /\ conn' \in {conn, conn \cup {n}} /\ Fault

(* Only an error in the body of the answer is taken for an error. *)
DoDisConn(n, ok) ==
    \/ /\ ok /\ (n \in conn \/ ~May("redisconnect"))
       /\ conn' = conn \ {n} /\ UNCHANGED faults
    \/ ok /\ May("silentdetach") /\ UNCHANGED conn /\ Fault
    \/ ~ok /\ May("redisconnect") /\ n \notin conn /\ UNCHANGED <<conn, faults>>
    \/ ~ok /\ conn' \in {conn, conn \ {n}} /\ Fault

-----------------------------------------------------------------------------
(* What preMountValid prepares: the status read from the cache is what the *)
(* handler will build on.  A status that names another node is logged and  *)
(* ignored; an image that is not clean and a failed GetNode return before  *)
(* anything changes.                                                       *)
preMountValid(n, t) == [pc |-> "attach", tgt |-> t, waiting |-> TRUE,
                        snap |-> Cached(n).status]

(* Mutant: the check for a missing target path is forgotten. *)
NodePublishVolumeUnchecked(n, s, t) ==
    /\ At(n, s, "idle")
    /\ pod[n][t].st \in {"placed", "publishing"} /\ ~Awaited(n, t)
    /\ GetByUuid(n, pod[n][t].vol)
    /\ \E path \in {t, "none"} :
          call' = [call EXCEPT ![n][s] = preMountValid(n, path)]
    /\ pod' = [pod EXCEPT ![n][t].st = "publishing"]
    /\ UNCHANGED <<managerVars, conn, mounted, pods>>

(* NodePublishVolume; a bad argument or an unknown volume id changes       *)
(* nothing.                                                                *)
NodePublishVolume(n, s, t) ==
    /\ At(n, s, "idle")
    /\ pod[n][t].st \in {"placed", "publishing"} /\ ~Awaited(n, t)
    /\ GetByUuid(n, pod[n][t].vol)
    /\ call' = [call EXCEPT ![n][s] = preMountValid(n, t)]
    /\ pod' = [pod EXCEPT ![n][t].st = "publishing"]
    /\ UNCHANGED <<managerVars, conn, mounted, pods>>

(* On an error the handler returns without undoing anything, even when the *)
(* device was connected.                                                   *)
attachDevice(n, s) ==
    /\ At(n, s, "attach")
    /\ \/ DoConn(n, TRUE) /\ Goto(n, s, "probe")
       \/ DoConn(n, FALSE) /\ Fail(n, s)
    /\ UNCHANGED <<recordVars, mounted>>

(* Mutant: a target that is a mount point already is an error. *)
ProbeTargetMountedIsError(n, s) ==
    /\ At(n, s, "probe")
    /\ \/ /\ call[n][s].tgt \in mounted[n]
          /\ Goto(n, s, "undo") /\ UNCHANGED faults
       \/ /\ call[n][s].tgt \notin mounted[n]
          /\ Goto(n, s, "format") /\ UNCHANGED faults
       \/ Fault /\ Goto(n, s, "undo")
    /\ UNCHANGED <<recordVars, conn, mounted>>

(* Is the target a mount point already?  A missing directory is made. *)
ProbeTarget(n, s) ==
    /\ At(n, s, "probe")
    /\ \/ /\ call[n][s].tgt \in mounted[n]
          /\ Goto(n, s, "record") /\ UNCHANGED faults
       \/ /\ call[n][s].tgt \notin mounted[n]
          /\ Goto(n, s, "format") /\ UNCHANGED faults
       \/ Fault /\ Goto(n, s, "undo")
    /\ UNCHANGED <<recordVars, conn, mounted>>

(* FormatAndMount needs the device; the kernel refuses to mount it twice   *)
(* at one place.                                                           *)
FormatAndMount(n, s) ==
    /\ At(n, s, "format")
    /\ \/ /\ n \in conn /\ call[n][s].tgt \notin mounted[n]
          /\ mounted' = [mounted EXCEPT ![n] = @ \cup {call[n][s].tgt}]
          /\ Goto(n, s, "record") /\ UNCHANGED faults
       \/ /\ n \notin conn \/ call[n][s].tgt \in mounted[n]
          /\ Goto(n, s, "undo") /\ UNCHANGED <<mounted, faults>>
       \/ Fault /\ Goto(n, s, "undo") /\ UNCHANGED mounted
    /\ UNCHANGED <<recordVars, conn>>

(* failedfn: detach the device; whether that works is not looked at. *)
UndoAttach(n, s) ==
    /\ At(n, s, "undo")
    /\ DoDisConn(n, TRUE) \/ DoDisConn(n, FALSE)
    /\ Fail(n, s)
    /\ UNCHANGED <<recordVars, mounted>>

(* Mutant: the node that attaches is itself the first one. *)
RecordedStatusSelf(n, st) ==
    [node    |-> n,
     prenode |-> IF st.prenode = NoNode THEN n ELSE st.prenode,
     vi      |-> n]

(* Mutant: volumeInfo is only filled in when it is empty. *)
RecordedStatusOldInfo(n, st) ==
    [node    |-> n,
     prenode |-> IF st.node # NoNode /\ st.prenode = NoNode
                 THEN st.node ELSE st.prenode,
     vi      |-> IF st.vi = NoNode THEN n ELSE st.vi]

(* The status successfn builds from the one read at the beginning. *)
RecordedStatus(n, st) ==
    [node    |-> n,
     prenode |-> IF st.node # NoNode /\ st.prenode = NoNode
                 THEN st.node ELSE st.prenode,
     vi      |-> n]

(* Mutant: a failed request is logged and not reported. *)
UpdateStatusErrorIgnored(n, s, st, p) ==
    \/ Update(n, st) /\ UNCHANGED faults /\ Succeed(n, s, p)
    \/ ~Writable(n) /\ UNCHANGED managerVars /\ Fail(n, s)
    \/ Fault /\ UNCHANGED recordVars /\ Succeed(n, s, p)

(* The call of AlcubCon.Update that ends a handler: success is reported as *)
(* p; a stale cache and a refused or failed request are errors.  And the   *)
(* write may take effect without the caller ever hearing of it: the answer *)
(* of the API server is lost, or the plugin ends between the write and its *)
(* own answer (PluginRestart then follows).                                *)
UpdateStatus(n, s, st, p) ==
    \/ Update(n, st) /\ UNCHANGED faults /\ Succeed(n, s, p)
    \/ Update(n, st) /\ Fault /\ Fail(n, s)
    \/ ~Writable(n) /\ UNCHANGED managerVars /\ Fail(n, s)
    \/ Fault /\ UNCHANGED recordVars /\ Fail(n, s)

(* Mutant: the status is patched in whatever version is current. *)
RecordPublishBlind(n, s) ==
    /\ At(n, s, "record")
    /\ \/ /\ Exists(Current)
          /\ ClientCommit([Current EXCEPT
                             !.status = RecordedStatus(n, call[n][s].snap)])
          /\ Succeed(n, s, [pod[n][call[n][s].tgt] EXCEPT !.st = "published"])
       \/ ~Exists(Current) /\ Fail(n, s) /\ UNCHANGED log
    /\ UNCHANGED <<seen, uuidname, nodes, queue, creating, faults, conn, mounted>>

RecordPublish(n, s) ==
    /\ At(n, s, "record")
    /\ UpdateStatus(n, s, RecordedStatus(n, call[n][s].snap),
                    [pod[n][call[n][s].tgt] EXCEPT !.st = "published"])
    /\ UNCHANGED <<conn, mounted>>

-----------------------------------------------------------------------------
(* NodeUnpublishVolume.  preUnmountValid lets only the recorded user of    *)
(* the volume pass, by the cached record; any other call is an error and   *)
(* changes nothing.                                                        *)
preUnmountValid(n) == Cached(n).status.node = n

NodeUnpublishVolume(n, s, t) ==
    /\ At(n, s, "idle")
    /\ pod[n][t].st = "unpublishing" /\ ~Awaited(n, t)
    /\ GetByUuid(n, pod[n][t].vol)
    /\ preUnmountValid(n)
    /\ call' = [call EXCEPT ![n][s] = [pc |-> "unmount", tgt |-> t,
                                       snap |-> Cached(n).status,
                                       waiting |-> TRUE]]
    /\ UNCHANGED <<managerVars, conn, mounted, pod, pods>>

(* Mutant: nothing is left to do when the target is no mount point. *)
UnmountTargetEarlyReturn(n, s) ==
    /\ At(n, s, "unmount")
    /\ \/ /\ call[n][s].tgt \in mounted[n]
          /\ mounted' = [mounted EXCEPT ![n] = @ \ {call[n][s].tgt}]
          /\ Goto(n, s, "detach")
       \/ /\ call[n][s].tgt \notin mounted[n]
          /\ Succeed(n, s, NoPod) /\ UNCHANGED mounted
    /\ UNCHANGED <<recordVars, conn, faults>>

(* Mutant: a failed unmount is logged and not reported. *)
UnmountTargetErrorIgnored(n, s) ==
    /\ At(n, s, "unmount")
    /\ \/ /\ mounted' = [mounted EXCEPT ![n] = @ \ {call[n][s].tgt}]
          /\ UNCHANGED faults
       \/ Fault /\ UNCHANGED mounted
    /\ Goto(n, s, "detach")
    /\ UNCHANGED <<recordVars, conn>>

(* Unmount if it is a mount point, then remove the directory. *)
UnmountTarget(n, s) ==
    /\ At(n, s, "unmount")
    /\ \/ /\ mounted' = [mounted EXCEPT ![n] = @ \ {call[n][s].tgt}]
          /\ \/ Goto(n, s, "detach") /\ UNCHANGED faults
             \/ Fault /\ Fail(n, s)
       \/ Fault /\ Fail(n, s) /\ UNCHANGED mounted
    /\ UNCHANGED <<recordVars, conn>>

(* Mutant: an error of the storage service is logged and ignored. *)
detachDeviceErrorIgnored(n, s) ==
    /\ At(n, s, "detach")
    /\ DoDisConn(n, TRUE) \/ DoDisConn(n, FALSE)
    /\ Goto(n, s, "clear")
    /\ UNCHANGED <<recordVars, mounted>>

(* Mutant: a device that is not connected is an error. *)
detachDeviceOnce(n, s) ==
    /\ At(n, s, "detach")
    /\ \/ n \in conn /\ DoDisConn(n, TRUE) /\ Goto(n, s, "clear")
       \/ n \in conn /\ DoDisConn(n, FALSE) /\ Fail(n, s)
       \/ n \notin conn /\ Fail(n, s) /\ UNCHANGED <<conn, faults>>
    /\ UNCHANGED <<recordVars, mounted>>

detachDevice(n, s) ==
    /\ At(n, s, "detach")
    /\ \/ DoDisConn(n, TRUE) /\ Goto(n, s, "clear")
       \/ DoDisConn(n, FALSE) /\ Fail(n, s)
    /\ UNCHANGED <<recordVars, mounted>>

ClearRecord(n, s) ==
    /\ At(n, s, "clear")
    /\ UpdateStatus(n, s, [call[n][s].snap EXCEPT !.node = NoNode], NoPod)
    /\ UNCHANGED <<conn, mounted>>

-----------------------------------------------------------------------------
HandlerStep(n, s) ==
    \/ attachDevice(n, s)
    \/ ProbeTarget(n, s)
    \/ FormatAndMount(n, s)
    \/ UndoAttach(n, s)
    \/ RecordPublish(n, s)
    \/ UnmountTarget(n, s)
    \/ detachDevice(n, s)
    \/ ClearRecord(n, s)

(* The plugin of node n stops and starts again: its handlers are gone,     *)
(* their callers see an error; devices and mounts stay.                    *)
PluginRestart(n) ==
    /\ Restart(n)
    /\ call' = [call EXCEPT ![n] = [s \in Slots |-> IdleCall]]
    /\ UNCHANGED <<conn, mounted, pod, pods>>

NodeStep(n) ==
    \/ PluginRestart(n)
    \/ \E t \in Targets : SchedulePod(n, t) \/ DeletePod(n, t)
    \/ \E s \in Slots : HandlerStep(n, s) \/ CallerTimeout(n, s)
    \/ \E s \in Slots, t \in Targets :
          NodePublishVolume(n, s, t) \/ NodeUnpublishVolume(n, s, t)

(* External: the controller creates and deletes the record; it deletes no  *)
(* volume a pod is waiting for.                                            *)
ControllerStep(p) ==
    /\ \/ Restart(p)
       \/ \E u \in Uuids : ClientCreate(p, u)
       \/ /\ \A n \in Nodes, t \in Targets :
                pod[n][t].st \in IF May("deleteinuse")
                                 THEN {"none", "published", "unpublishing"}
                                 ELSE {"none"}
          /\ Delete(p) /\ UNCHANGED faults
    /\ UNCHANGED nodeVars

NodeNext ==
    \/ \E n \in Nodes : NodeStep(n)
    \/ \E p \in Procs \ Nodes : ControllerStep(p)
    \/ \E p \in Procs : CacheStep(p) /\ UNCHANGED nodeVars

NodeSpec == NodeInit /\ [][NodeNext]_vars

(* client-go delivers and resyncs; a handler that runs goes on; the        *)
(* orchestrator repeats a call until it succeeds.                          *)
NodeFairness ==
    /\ \A p \in Procs : /\ WF_vars(WatchEvent(p) /\ UNCHANGED nodeVars)
                        /\ WF_vars(Resync(p) /\ UNCHANGED nodeVars)
                        /\ WF_vars(Reconcile(p) /\ UNCHANGED nodeVars)
    /\ \A n \in Nodes, s \in Slots : WF_vars(HandlerStep(n, s))
    /\ \A n \in Nodes, t \in Targets :
          /\ WF_vars(\E s \in Slots : NodePublishVolume(n, s, t))
          /\ WF_vars(\E s \in Slots : NodeUnpublishVolume(n, s, t))

FairNodeSpec == NodeSpec /\ NodeFairness

-----------------------------------------------------------------------------
(* The handlers use the record only as AlcubManager's operations allow:    *)
(* every interleaving of theirs is one of its most general client, so what *)
(* holds there (ImplementsVolumeRecord, NoRevival) holds here.             *)
ImplementsManager == ManagerSpec

(* status.prenode, once set, names a node that had been recorded as the    *)
(* user in an earlier version, although successfn derives it from a status *)
(* read before the device was attached and mounted.                        *)
PrenodeWasUser ==
    \A i \in DOMAIN log :
        log[i].status.prenode # NoNode =>
            \E j \in 1..(i - 1) : log[j].status.node = log[i].status.prenode

(* An address held for a node is that node's own: the recorded user and    *)
(* the recorded address never come from different nodes, whichever stale   *)
(* status a handler writes back.                                           *)
NodeInfoRight == \A p \in Procs, n \in Nodes : nodes[p][n] \in {NoNode, n}

(* A pod whose NodePublishVolume succeeded has the volume: the record      *)
(* exists and names its node, and the device is connected and mounted      *)
(* there, until its deletion begins.  Deleting the volume meanwhile is     *)
(* held back by the finalizer.                                             *)
InUseRecorded ==
    \A n \in Nodes, t \in Targets :
        pod[n][t].st = "published" =>
            /\ Exists(Current) /\ Current.status.node = n
            /\ n \in conn /\ t \in mounted[n]

(* Once every pod of a node is gone, NodeUnpublishVolume has left nothing  *)
(* behind: no device, no mount, and the record does not name the node.     *)
TornDownClean ==
    \A n \in Nodes :
        NoPodOn(n) => /\ n \notin conn /\ mounted[n] = {}
                      /\ Current.status.node # n

(* The image is connected to one node at a time. *)
OneNodeConnected == \A m, n \in conn : m = n

(* A volume some pod was given is recorded as used: status.node is the     *)
(* only thing that keeps Reconcile from removing a deleted record.         *)
UsedIsRecorded ==
    (\E n \in Nodes, t \in Targets : pod[n][t].st = "published")
        => Current.status.node # NoNode

(* The orchestrator's calls come to an end: a deleted pod's volume is      *)
(* unpublished by repeating the call.                                      *)
TeardownCompletes ==
    \A n \in Nodes, t \in Targets :
        pod[n][t].st = "unpublishing" ~> pod[n][t].st = "none"
=============================================================================
