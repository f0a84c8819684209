----------------------------- MODULE ControlRpc -----------------------------
(***************************************************************************)
(* pkg/controlrpc and pkg/rbd: CreateVolume and DeleteVolume of the        *)
(* leading controller, which keep the rbd image of a volume and its        *)
(* CsiAlcub record (AlcubManager) in step without a lock or a journal.     *)
(*                                                                         *)
(* External parties: the rbd command and the Ceph cluster behind it; the   *)
(* provisioner, which repeats CreateVolume until it has a volume id and,   *)
(* later, DeleteVolume until that succeeds; a node that uses the volume in *)
(* between.  What these may do beyond the regular course is named in       *)
(* Hazards.                                                                *)
(***************************************************************************)
EXTENDS AlcubManager

CONSTANTS
    Leader,     \* the process whose controller serves requests
    MiB,        \* bytes in the unit rbd images are sized in
    Slots,      \* bound: handlers running at once
    Hazards     \* what the environment may do, a subset of HazardKinds

(***************************************************************************)
(*   createtimeout  the provisioner repeats a CreateVolume that still runs *)
(*   deletetimeout  the same for DeleteVolume                              *)
(*   failover       the leader dies and another replica takes over         *)
(*   rbdtimeout     an rbd command takes effect although it timed out      *)
(*   lostanswer     a write to the API server succeeds but reports an error*)
(*   quickdelete    DeleteVolume comes before the leader's cache holds the *)
(*                  record its own CreateVolume wrote                      *)
(*   deleteinuse    DeleteVolume comes while a node has the volume         *)
(***************************************************************************)
HazardKinds == {"createtimeout", "deletetimeout", "failover", "rbdtimeout",
                "lostanswer", "quickdelete", "deleteinuse"}

ASSUME ControlAssumption ==
    /\ Leader \in Procs \ Nodes
    /\ MiB \in Nat \ {0}
    /\ Hazards \subseteq HazardKinds

May(h) == h \in Hazards

VARIABLES
    img,        \* the rbd image named after the volume
    call,       \* call[s]: the handler in slot s of the leader
    want,       \* what the provisioner is after
    acked,      \* answers CreateVolume gave: the volume id and the request
    use         \* how far a node is with using the volume

controlVars == <<img, call, want, acked, use>>
recordVars == <<log, seen, uuidname, nodes, queue, creating>>
vars == <<managerVars, controlVars>>

(* An image; uuid is that of the CreateVolume call that made it. *)
Image == [uuid : Uuids \cup {NoUuid}, mib : Nat]

NoImage == [uuid |-> NoUuid, mib |-> 0]

CreatePcs == {"image", "record", "submitted", "undo", "undorm"}
DeletePcs == {"status", "rm", "delcr"}

Call == [pc      : {"idle"} \cup CreatePcs \cup DeletePcs,
         uuid    : Uuids \cup {NoUuid},
         cap     : Nat,
         waiting : BOOLEAN]

IdleCall == [pc |-> "idle", uuid |-> NoUuid, cap |-> 0, waiting |-> FALSE]

ControlTypeOK ==
    /\ ManagerTypeOK
    /\ img \in Image
    /\ call \in [Slots -> Call]
    /\ want \in {"create", "created", "delete", "deleted"}
    /\ acked \in SUBSET [uuid : Uuids, req : Nat]
    /\ use \in {"no", "attached", "recorded", "detached", "done"}

ControlInit ==
    /\ ManagerInit
    /\ img = NoImage
    /\ call = [s \in Slots |-> IdleCall]
    /\ want = "create"
    /\ acked = {}
    /\ use = "no"

At(s, pc) == call[s].pc = pc

Goto(s, pc) == /\ call' = [call EXCEPT ![s].pc = pc]
               /\ UNCHANGED <<want, acked>>

Fail(s) == /\ call' = [call EXCEPT ![s] = IdleCall]
           /\ UNCHANGED <<want, acked>>

(* CreateVolume answers with volume id u; a waiting provisioner takes it. *)
Created(u, c, waiting) ==
    IF waiting
    THEN acked' = acked \cup {[uuid |-> u, req |-> c]} /\ want' = "created"
    ELSE UNCHANGED <<acked, want>>

Deleted(waiting) ==
    /\ want' = IF waiting THEN "deleted" ELSE want
    /\ UNCHANGED acked

Return(s) == call' = [call EXCEPT ![s] = IdleCall]

Awaited == \E s \in Slots : call[s].waiting

-----------------------------------------------------------------------------
(* External: the provisioner asks for the deletion of the volume it got. *)
RequestDelete ==
    /\ want = "created"
    /\ May("deleteinuse") \/ use \in {"no", "done"}
    /\ May("quickdelete") \/ Exists(Cached(Leader))
    /\ want' = "delete"
    /\ UNCHANGED <<managerVars, img, call, acked, use>>

CallerTimeout(s) ==
    /\ Fault
    /\ call[s].waiting
    /\ May(IF call[s].pc \in CreatePcs THEN "createtimeout" ELSE "deletetimeout")
    /\ call' = [call EXCEPT ![s].waiting = FALSE]
    /\ UNCHANGED <<recordVars, img, want, acked, use>>

(* External: node n attaches the image, records itself, and lets go of the *)
(* volume again in the same order, once.                                   *)
NodeUse(n) ==
    /\ \/ /\ use = "no" /\ want = "created" /\ img # NoImage
          /\ use' = "attached" /\ UNCHANGED managerVars
       \/ /\ use = "attached" /\ use' = "recorded"
          /\ Update(n, [node |-> n, prenode |-> NoNode, vi |-> n])
          /\ UNCHANGED faults
       \/ /\ use = "recorded" /\ use' = "detached" /\ UNCHANGED managerVars
       \/ /\ use = "detached" /\ use' = "done"
          /\ Update(n, [node |-> NoNode, prenode |-> NoNode, vi |-> n])
          /\ UNCHANGED faults
    /\ UNCHANGED <<img, call, want, acked>>

(* External: a client that has the image open is a watcher of it. *)
Watched == use \in {"attached", "recorded"}

-----------------------------------------------------------------------------
(* CreateVolume.  A record in the cache that is large enough answers the   *)
(* call at once, whatever its phase; one that is too small is an error.    *)
(* Otherwise a new uuid is drawn; the call ends early when no node carries *)
(* the csi label or the storage class is missing.                          *)
Fresh(u) == /\ u \notin UsedUuids /\ u # img.uuid
            /\ \A p \in Procs : u \notin creating[p] \cup uuidname[p]
            /\ \A s \in Slots : u # call[s].uuid

(* Mutant: a record that was not found counts as found. *)
CreateVolumeAlwaysFound(s, c) ==
    /\ At(s, "idle") /\ want = "create" /\ ~Awaited
    /\ Cached(Leader).cap >= c
    /\ Created(Cached(Leader).uuid, c, TRUE)
    /\ UNCHANGED <<managerVars, call, img, use>>

CreateVolume(s, c) ==
    /\ At(s, "idle") /\ want = "create" /\ ~Awaited
    /\ \/ /\ GetByName(Leader) /\ Cached(Leader).cap >= c
          /\ Created(Cached(Leader).uuid, c, TRUE)
          /\ UNCHANGED call
       \/ /\ ~GetByName(Leader)
          /\ \E u \in Uuids :
                /\ Fresh(u)
                /\ call' = [call EXCEPT ![s] = [pc |-> "image", uuid |-> u,
                                                cap |-> c, waiting |-> TRUE]]
          /\ UNCHANGED <<want, acked>>
    /\ UNCHANGED <<managerVars, img, use>>

(* Mutant: rounds down. *)
RoundDownSize(b) == b \div MiB

RoundUpSize(b) == (b + MiB - 1) \div MiB

(* Mutant: the clean-up also runs when the image could not be created. *)
CreateImageCleansUp(s) ==
    /\ At(s, "image")
    /\ \/ /\ img = NoImage
          /\ img' = [uuid |-> call[s].uuid, mib |-> RoundUpSize(call[s].cap)]
          /\ Goto(s, "record")
       \/ img # NoImage /\ Goto(s, "undo") /\ UNCHANGED img
    /\ UNCHANGED <<recordVars, faults, use>>

(* rbd create; an image of that name is an error, and so is size 0.        *)
CreateImage(s) ==
    /\ At(s, "image")
    /\ LET size == RoundUpSize(call[s].cap)
           new == [uuid |-> call[s].uuid, mib |-> size]
       IN  \/ /\ size > 0 /\ img = NoImage
              /\ img' = new /\ Goto(s, "record") /\ UNCHANGED faults
           \/ /\ size = 0 \/ img # NoImage
              /\ Fail(s) /\ UNCHANGED <<img, faults>>
           \/ Fault /\ Fail(s) /\ UNCHANGED img
           \/ /\ May("rbdtimeout") /\ size > 0 /\ img = NoImage
              /\ Fault /\ img' = new /\ Fail(s)
    /\ UNCHANGED <<recordVars, use>>

(* AlcubCon.Create: map the uuid, then the object goes to the API server.  *)
SubmitRecord(s) ==
    /\ At(s, "record")
    /\ CreateBegin(Leader, call[s].uuid) /\ UNCHANGED faults
    /\ Goto(s, "submitted")
    /\ UNCHANGED <<img, use>>

ApplyRecord(s) ==
    /\ At(s, "submitted")
    /\ CreateApply(Leader, call[s].uuid, call[s].cap)
    /\ UNCHANGED <<faults, controlVars>>

FinishCreate(s) ==
    /\ At(s, "submitted")
    /\ \/ /\ CreateReturn(Leader, call[s].uuid) /\ UNCHANGED faults
          /\ Created(call[s].uuid, call[s].cap, call[s].waiting) /\ Return(s)
       \/ /\ CreateRefused(Leader, call[s].uuid) /\ UNCHANGED faults
          /\ Goto(s, "undo")
       \/ /\ call[s].uuid \notin UsedUuids \/ May("lostanswer")
          /\ CreateError(Leader, call[s].uuid) /\ Fault
          /\ Goto(s, "undo")
    /\ UNCHANGED <<img, use>>

(***************************************************************************)
(* DeleteImage, in the deferred clean-up of createVolume (pcs "undo" and   *)
(* "undorm") and in deleteVolume ("status" and "rm"): rbd status, then, if *)
(* nobody watches the image, rbd rm.  The image is known by its name only. *)
(***************************************************************************)
rbdStatus(s, pc, onMissing, onFree) ==
    /\ At(s, pc)
    /\ \/ img = NoImage /\ onMissing /\ UNCHANGED faults
       \/ img # NoImage /\ Watched /\ Fail(s) /\ UNCHANGED faults
       \/ img # NoImage /\ ~Watched /\ onFree /\ UNCHANGED faults
       \/ Fault /\ Fail(s)
    /\ UNCHANGED <<recordVars, img, use>>

rbdRm(s, pc, onRemoved) ==
    /\ At(s, pc)
    /\ \/ /\ img # NoImage /\ ~Watched
          /\ img' = NoImage /\ onRemoved /\ UNCHANGED faults
       \/ /\ img = NoImage \/ Watched
          /\ Fail(s) /\ UNCHANGED <<img, faults>>
       \/ Fault /\ Fail(s) /\ UNCHANGED img
       \/ /\ May("rbdtimeout") /\ img # NoImage /\ ~Watched
          /\ Fault /\ img' = NoImage /\ Fail(s)
    /\ UNCHANGED <<recordVars, use>>

(* Mutant: nothing is cleaned up. *)
UndoCreateForgotten(s) ==
    /\ At(s, "undo")
    /\ Fail(s)
    /\ UNCHANGED <<managerVars, img, use>>

UndoCreate(s) ==
    \/ rbdStatus(s, "undo", Fail(s), Goto(s, "undorm"))
    \/ rbdRm(s, "undorm", Fail(s))

-----------------------------------------------------------------------------
(* DeleteVolume.  A volume id the leader does not know, or whose record    *)
(* its cache does not hold, is taken for deleted.                          *)
DeleteVolume(s) ==
    /\ At(s, "idle") /\ want = "delete" /\ ~Awaited
    /\ \E a \in acked :
          \/ /\ ~GetByUuid(Leader, a.uuid)
             /\ Deleted(TRUE)
             /\ UNCHANGED call
          \/ /\ GetByUuid(Leader, a.uuid)
             /\ call' = [call EXCEPT ![s] = [pc |-> "status", uuid |-> a.uuid,
                                             cap |-> 0, waiting |-> TRUE]]
             /\ UNCHANGED <<want, acked>>
    /\ UNCHANGED <<managerVars, img, use>>

(* Mutant: a failed DeleteImage does not stop deleteVolume. *)
DeleteTheImageOrNot(s) ==
    \/ rbdStatus(s, "status", Goto(s, "delcr"), Goto(s, "rm"))
    \/ rbdRm(s, "rm", Goto(s, "delcr"))
    \/ /\ At(s, "rm") /\ Fault /\ Goto(s, "delcr")
       /\ UNCHANGED <<recordVars, img, use>>

(* Mutant: an image that is in use stays, its record is deleted. *)
DeleteTheImageUnlessUsed(s) ==
    \/ rbdStatus(s, "status", Goto(s, "delcr"), Goto(s, "rm"))
    \/ rbdRm(s, "rm", Goto(s, "delcr"))
    \/ /\ At(s, "status") /\ Watched /\ Goto(s, "delcr")
       /\ UNCHANGED <<managerVars, img, use>>

(* Mutant: an image that is gone already is an error. *)
DeleteTheImageOnce(s) ==
    \/ rbdStatus(s, "status", Fail(s), Goto(s, "rm"))
    \/ rbdRm(s, "rm", Goto(s, "delcr"))

(* deleteVolume: the image, then the record.                               *)
DeleteTheImage(s) ==
    \/ rbdStatus(s, "status", Goto(s, "delcr"), Goto(s, "rm"))
    \/ rbdRm(s, "rm", Goto(s, "delcr"))

(* Mutant: the record is removed together with its finalizer. *)
DeleteRecordForced(s) ==
    /\ At(s, "delcr")
    /\ Exists(Current) /\ Commit(NoObject)
    /\ Deleted(call[s].waiting) /\ Return(s)
    /\ UNCHANGED <<seen, uuidname, nodes, queue, creating, faults, img, use>>

(* AlcubCon.Delete: a record that is terminating already is no error, one  *)
(* that the cache or the API server does not have is.                      *)
DeleteRecord(s) ==
    /\ At(s, "delcr")
    /\ \/ /\ Delete(Leader) /\ UNCHANGED faults
          /\ Deleted(call[s].waiting) /\ Return(s)
       \/ /\ Exists(Cached(Leader)) /\ Current.phase = "Terminating"
          /\ UNCHANGED managerVars
          /\ Deleted(call[s].waiting) /\ Return(s)
       \/ /\ ~Exists(Cached(Leader)) \/ ~Exists(Current)
          /\ UNCHANGED managerVars /\ Fail(s)
       \/ Fault /\ UNCHANGED recordVars /\ Fail(s)
       \/ May("lostanswer") /\ Delete(Leader) /\ Fault /\ Fail(s)
    /\ UNCHANGED <<img, use>>

-----------------------------------------------------------------------------
HandlerStep(s) ==
    \/ CreateImage(s)
    \/ SubmitRecord(s)
    \/ ApplyRecord(s)
    \/ FinishCreate(s)
    \/ UndoCreate(s)
    \/ DeleteTheImage(s)
    \/ DeleteRecord(s)

(* The leader dies with all its handlers; a new one starts from nothing. *)
Failover ==
    /\ May("failover")
    /\ Restart(Leader)
    /\ call' = [s \in Slots |-> IdleCall]
    /\ UNCHANGED <<img, want, acked, use>>

ControlNext ==
    \/ RequestDelete
    \/ Failover
    \/ \E s \in Slots : HandlerStep(s) \/ CallerTimeout(s) \/ DeleteVolume(s)
    \/ \E s \in Slots, c \in Caps : CreateVolume(s, c)
    \/ \E n \in Nodes \cap Procs : NodeUse(n)
    \/ \E p \in Procs : CacheStep(p) /\ UNCHANGED controlVars

ControlSpec == ControlInit /\ [][ControlNext]_vars

(* client-go delivers every event, a worker takes every request from the   *)
(* queue and the resync timer fires, in the end; a handler that runs goes  *)
(* on; the provisioner repeats a CreateVolume that failed.                 *)
ControlFairness ==
    /\ \A p \in Procs : /\ WF_vars(WatchEvent(p) /\ UNCHANGED controlVars)
                        /\ WF_vars(Resync(p) /\ UNCHANGED controlVars)
                        /\ WF_vars(Reconcile(p) /\ UNCHANGED controlVars)
    /\ \A s \in Slots : WF_vars(HandlerStep(s))
    /\ WF_vars(\E s \in Slots, c \in Caps : CreateVolume(s, c))

FairControlSpec == ControlSpec /\ ControlFairness

-----------------------------------------------------------------------------
(* The handlers use the record only as AlcubManager's operations allow, so *)
(* what holds of its most general client (ImplementsVolumeRecord,          *)
(* NoRevival) holds here.                                                  *)
ImplementsManager == ManagerSpec

(* A volume CreateVolume answered for is there until its deletion is asked *)
(* for: the live record carries the id, the image was made by the same     *)
(* call, and both are as large as was requested.                           *)
AckedDurable ==
    want = "created" =>
        \A a \in acked :
            /\ Current.phase = "Live" /\ Current.uuid = a.uuid
            /\ Current.cap >= a.req
            /\ img.uuid = a.uuid /\ img.mib * MiB >= a.req

(* A live record always has its image: the clean-up of one CreateVolume    *)
(* never takes the image of another, and an image is only deleted once the *)
(* deletion of the volume was asked for.                                   *)
LiveHasImage ==
    Current.phase = "Live" /\ want \in {"create", "created"} =>
        img.uuid = Current.uuid

(* deleteVolume removes the image first: the image of a record that is     *)
(* going away, and with it the only thing that leads to the image, is gone *)
(* already, whichever step was cut off.                                    *)
ImageGoneFirst == Current.phase = "Terminating" => img.uuid # Current.uuid

(* The image of a CreateVolume that failed is there and no record is.  It  *)
(* takes two failures, of the creation of the record and of the clean-up,  *)
(* or one the clean-up does not know of: the end of the leader in between  *)
(* or an rbd create that timed out.                                        *)
Stranded ==
    /\ img # NoImage /\ ~Exists(Current)
    /\ faults > 1 \/ May("failover") \/ May("rbdtimeout")

(* Repeating CreateVolume gives the provisioner a volume id, whatever      *)
(* earlier calls left behind, a record whose answer was lost or a handler  *)
(* that still runs; a stranded image is all that can keep it from that,    *)
(* for good.                                                               *)
CreateCompletes == <>(want # "create") \/ <>[]Stranded

(* CreateVolume can be repeated until it succeeds, as the documentation of *)
(* the controller service has it.  It cannot: a stranded image stays.      *)
CreateSucceeds == <>(want # "create")

(* When DeleteVolume has answered, image and live record are gone. *)
DeletedIsGone == want = "deleted" => img = NoImage /\ Current.phase # "Live"
=============================================================================
