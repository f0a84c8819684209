------------------------------ MODULE CsiAlcub ------------------------------
(***************************************************************************)
(* pkg/api/v1beta1: the CsiAlcub custom resource, which records for one    *)
(* volume its identity and capacity (spec) and the node that uses it       *)
(* (status).  The phase "Terminating" is a set deletionTimestamp.  The     *)
(* finalizer is there from creation until Reconcile clears it, which at    *)
(* once removes the object, so it needs no field of its own.  vi stands    *)
(* for volumeInfo and zone, which are always written together: the node    *)
(* whose device path, storage address and zone they hold.  Pool, image and *)
(* rbd parameters are derived from the name and never change.              *)
(***************************************************************************)
EXTENDS Naturals

CONSTANTS
    Nodes,      \* Kubernetes nodes
    Uuids,      \* volume ids CreateVolume may generate
    Caps,       \* requested capacities
    NoNode,     \* the empty string in status.node, prenode and volumeInfo
    NoUuid      \* the uuid of no volume

ASSUME ResourceAssumption ==
    /\ NoNode \notin Nodes
    /\ NoUuid \notin Uuids
    /\ Caps \subseteq Nat

NodeOrNone == Nodes \cup {NoNode}

Status == [node : NodeOrNone, prenode : NodeOrNone, vi : NodeOrNone]

Object == [phase  : {"Absent", "Live", "Terminating"},
           uuid   : Uuids \cup {NoUuid},
           cap    : Nat,
           status : Status]

EmptyStatus == [node |-> NoNode, prenode |-> NoNode, vi |-> NoNode]

NoObject == [phase |-> "Absent", uuid |-> NoUuid, cap |-> 0,
             status |-> EmptyStatus]

NewObject(u, c) == [phase |-> "Live", uuid |-> u, cap |-> c,
                    status |-> EmptyStatus]

Exists(o) == o.phase # "Absent"
=============================================================================
