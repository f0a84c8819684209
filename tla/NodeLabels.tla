----------------------------- MODULE NodeLabels -----------------------------
(***************************************************************************)
(* pkg/controlrpc/nodeManage.go: the leader's controller for Kubernetes    *)
(* nodes.  A node that carries the filter label (set by the operator of    *)
(* the storage service) gets the csi label, any other node loses it;       *)
(* CreateVolume refuses to work while no node has it.                      *)
(*                                                                         *)
(* One node is modelled; Reconcile treats every node by itself.  Which     *)
(* replica's controller runs, and when it starts anew, is in               *)
(* ControllerProcess, which composes the actions of this module.  As in    *)
(* AlcubManager the API server is the sequence of versions of the object   *)
(* and the informer cache is a position in it.  Reconcile reads the cache, *)
(* decides, and only then updateNode reads it again and writes: decision   *)
(* and write may see different versions.                                   *)
(***************************************************************************)
EXTENDS Naturals, Sequences

CONSTANTS
    Steps,      \* attempts of retry.DefaultRetry
    Foreign,    \* may others write the csi label's key?
    MaxLog,     \* bound: others stop writing when nlog has this length
    MaxFaults   \* bound: number of failed updates and restarts

ASSUME LabelsAssumption ==
    /\ Steps \in Nat \ {0}
    /\ Foreign \in BOOLEAN
    /\ MaxLog \in Nat
    /\ MaxFaults \in Nat

VARIABLES
    nlog,       \* API server: every version of the node, oldest first
    nseen,      \* the version in the leader's cache
    nqueue,     \* is there a reconcile request for the node?
    job,        \* what updateNode is about to do
    tries,      \* attempts updateNode has left
    dropped,    \* auxiliary: did the last updateNode drop an error other
                \* than a conflict?  Only properties read it
    faults      \* number of faults so far

labelsVars == <<nlog, nseen, nqueue, job, tries, dropped>>

(* A terminating node has a deletionTimestamp and is held by a finalizer.  *)
(* filter: does the node carry the filter label with the right value?  csi *)
(* is the value under the csi label's key.                                 *)
Node == [phase  : {"live", "terminating", "absent"},
         filter : BOOLEAN,
         csi    : {"none", "ours", "other"}]

NoNodeObject == [phase |-> "absent", filter |-> FALSE, csi |-> "none"]

Exists(o) == o.phase # "absent"

Current == nlog[Len(nlog)]

Cached == nlog[nseen]

UpToDate == nseen = Len(nlog)

Jobs == {"idle", "keep", "add", "remove"}

LabelsTypeOK ==
    /\ nlog \in Seq(Node) /\ Len(nlog) > 0
    /\ nseen \in 1..Len(nlog)
    /\ nqueue \in BOOLEAN
    /\ job \in Jobs
    /\ tries \in 0..Steps
    /\ dropped \in BOOLEAN
    /\ faults \in 0..MaxFaults

(* The node is there, without or with the filter label; its object is      *)
(* listed when the leader starts.                                          *)
LabelsInit ==
    /\ \E f \in BOOLEAN :
          nlog = <<[phase |-> "live", filter |-> f, csi |-> "none"]>>
    /\ nseen = 1
    /\ nqueue = TRUE
    /\ job = "idle" /\ tries = 0 /\ dropped = FALSE
    /\ faults = 0

Fault == faults < MaxFaults /\ faults' = faults + 1

-----------------------------------------------------------------------------
(* What may come after a phase: a node is deleted at once or, when a       *)
(* finalizer holds it, in the end; one that is gone may register again.    *)
Follows(phase) ==
    CASE phase = "live"        -> {"live", "terminating", "absent"}
      [] phase = "terminating" -> {"terminating", "absent"}
      [] OTHER                 -> {"live"}

(* External: others relabel, delete or register the node. *)
Relabel ==
    /\ Len(nlog) < MaxLog
    /\ \E o \in Node :
          /\ o # Current
          /\ o.phase \in Follows(Current.phase)
          /\ ~Exists(o) => o = NoNodeObject
          /\ o.csi # Current.csi => Foreign \/ (~Exists(o) /\ o.csi = "none")
          /\ nlog' = Append(nlog, o)
    /\ UNCHANGED <<nseen, nqueue, job, tries, dropped, faults>>

(* External: the informer moves on, or its resync timer fires. *)
WatchEvent ==
    /\ \E v \in (nseen + 1)..Len(nlog) : nseen' = v
    /\ nqueue' = TRUE
    /\ UNCHANGED <<nlog, job, tries, dropped, faults>>

Resync ==
    /\ Exists(Cached) /\ ~nqueue
    /\ nqueue' = TRUE
    /\ UNCHANGED <<nlog, nseen, job, tries, dropped, faults>>

-----------------------------------------------------------------------------
(* Mutant: a node that has the label is left alone. *)
labelControllerNeverRemoves(o) ==
    IF o.filter /\ o.csi = "none" THEN "add" ELSE "keep"

(* Mutant: labels are only taken away. *)
labelControllerNeverAdds(o) ==
    IF ~o.filter /\ o.csi # "none" THEN "remove" ELSE "keep"

(* The csi label counts as present when its key is, whatever the value.    *)
labelController(o) ==
    CASE ~o.filter /\ o.csi # "none" -> "remove"
      [] o.filter /\ o.csi = "none"  -> "add"
      [] OTHER                       -> "keep"

(* What Reconcile makes of the node it reads: one that is gone or has a    *)
(* deletionTimestamp is left as it is.                                     *)
Decision(o) == IF o.phase = "live" THEN labelController(o) ELSE "keep"

(* Reconcile up to its deferred call of updateNode, which is made even     *)
(* when there is nothing to do.                                            *)
Reconcile ==
    /\ nqueue /\ job = "idle"
    /\ nqueue' = FALSE
    /\ job' = Decision(Cached)
    /\ tries' = Steps /\ dropped' = FALSE
    /\ UNCHANGED <<nlog, nseen, faults>>

(* The functions labelController returns, applied to the object read anew. *)
Apply(j, o) ==
    CASE j = "add"    -> [o EXCEPT !.csi = "ours"]
      [] j = "remove" -> [o EXCEPT !.csi = "none"]
      [] OTHER        -> o

Done == job' = "idle" /\ tries' = 0

(* Mutant: the number of attempts is not limited. *)
ConflictForever == tries' = tries - 1 /\ UNCHANGED job

(* A conflict is tried again from a new read of the cache, Steps times.    *)
Conflict == IF tries > 1 THEN tries' = tries - 1 /\ UNCHANGED job ELSE Done

(* One attempt of updateNode; errors other than a conflict end it, and all *)
(* are dropped.  A write that changes nothing makes no new version.        *)
updateNode ==
    /\ job # "idle"
    /\ \/ /\ ~Exists(Cached) \/ ~Exists(Current)
          /\ Done /\ UNCHANGED <<nlog, dropped, faults>>
       \/ /\ Exists(Cached) /\ UpToDate
          /\ nlog' = IF Apply(job, Cached) = Cached
                     THEN nlog ELSE Append(nlog, Apply(job, Cached))
          /\ Done /\ UNCHANGED <<dropped, faults>>
       \/ /\ Exists(Cached) /\ Exists(Current) /\ ~UpToDate
          /\ Conflict /\ UNCHANGED <<nlog, dropped, faults>>
       \/ Exists(Cached) /\ Fault /\ Done /\ dropped' = TRUE /\ UNCHANGED nlog
    /\ UNCHANGED <<nseen, nqueue>>

(* A new leader's controller starts: it lists the nodes. *)
StartLabels ==
    /\ nseen' = Len(nlog)
    /\ nqueue' = Exists(Current)
    /\ Done /\ dropped' = FALSE
    /\ UNCHANGED nlog

(* LabledNodes, for one node: here the value has to be right too. *)
inMaps(o) == o.csi = "ours"

LabledNode(o) == Exists(o) /\ inMaps(o)

-----------------------------------------------------------------------------
(* A node that is being deleted is nobody's concern. *)
Labelled ==
    Current.phase = "live" => (Current.filter <=> Current.csi = "ours")
=============================================================================
