---------------------------- MODULE AlcubManager ----------------------------
(***************************************************************************)
(* pkg/manager: the AlcubCon that every process of the driver runs, the    *)
(* leading controller and each node plugin.  An AlcubCon reads the         *)
(* CsiAlcub custom resource of a volume from a local informer cache that   *)
(* lags behind the API server, writes it through the API server under      *)
(* optimistic concurrency, and keeps in memory which uuids belong to the   *)
(* volume and which storage address each node reported.                    *)
(*                                                                         *)
(* The module models one volume name: everything an AlcubCon keeps is      *)
(* indexed by that name (or by a uuid that leads to it), so volumes do not *)
(* interact here.  A name can be given to several incarnations, each with  *)
(* its own uuid.                                                           *)
(*                                                                         *)
(* The API server is external.  It is represented by log, the sequence of  *)
(* the states the resource has gone through; the position in log is the    *)
(* resourceVersion and the last element is the current object.             *)
(***************************************************************************)
EXTENDS CsiAlcub, Sequences

CONSTANTS
    Procs,      \* processes that run an AlcubCon
    MaxLog,     \* bound: client writes stop when log has this length
    MaxFaults   \* bound: number of faults (restarts, failed calls)

ASSUME ManagerAssumption ==
    /\ MaxLog \in Nat
    /\ MaxFaults \in Nat

VARIABLES
    log,        \* API server: every version of the CsiAlcub, oldest first
    seen,       \* seen[p]: the version in p's informer cache
    uuidname,   \* uuidname[p]: the uuids p's AlcubCon maps to this volume
    nodes,      \* nodes[p][n]: whose storage address p holds for node n
    queue,      \* processes with a reconcile request for the volume
    creating,   \* creating[p]: the uuids whose Create call runs in p
    faults      \* number of faults so far

managerVars == <<log, seen, uuidname, nodes, queue, creating, faults>>

Current == log[Len(log)]

(* What a Get through the delegating client returns in process p. *)
Cached(p) == log[seen[p]]

UpToDate(p) == seen[p] = Len(log)

ManagerTypeOK ==
    /\ log \in Seq(Object) /\ Len(log) > 0
    /\ seen \in [Procs -> Nat]
    /\ \A p \in Procs : seen[p] \in 1..Len(log)
    /\ uuidname \in [Procs -> SUBSET Uuids]
    /\ nodes \in [Procs -> [Nodes -> NodeOrNone]]
    /\ queue \in SUBSET Procs
    /\ creating \in [Procs -> SUBSET Uuids]
    /\ faults \in 0..MaxFaults

NoNodeInfo == [n \in Nodes |-> NoNode]

ManagerInit ==
    /\ log = <<NoObject>>
    /\ seen = [p \in Procs |-> 1]
    /\ uuidname = [p \in Procs |-> {}]
    /\ nodes = [p \in Procs |-> NoNodeInfo]
    /\ queue = {}
    /\ creating = [p \in Procs |-> {}]
    /\ faults = 0

(* A fault of the environment; runs bound their number. *)
Fault == faults < MaxFaults /\ faults' = faults + 1

(* The API server accepts a write: a new version of the object. *)
Commit(o) == log' = Append(log, o)

(* A client's write, bounded. *)
ClientCommit(o) == Len(log) < MaxLog /\ Commit(o)

-----------------------------------------------------------------------------
(* The informer of p receives a later version; versions may be skipped by  *)
(* a relist, none is delivered twice.  Every event is a reconcile request. *)
WatchEvent(p) ==
    /\ \E v \in (seen[p] + 1)..Len(log) : seen' = [seen EXCEPT ![p] = v]
    /\ queue' = queue \cup {p}
    /\ UNCHANGED <<log, uuidname, nodes, creating, faults>>

(* The periodic resync of the informer re-enqueues what the cache holds. *)
Resync(p) ==
    /\ p \notin queue
    /\ Exists(Cached(p))
    /\ queue' = queue \cup {p}
    /\ UNCHANGED <<log, seen, uuidname, nodes, creating, faults>>

(* Process p stops and starts again: its calls are gone, its maps are      *)
(* empty, its cache is listed anew and every object listed is a reconcile  *)
(* request.                                                                *)
Restart(p) ==
    /\ Fault
    /\ seen' = [seen EXCEPT ![p] = Len(log)]
    /\ uuidname' = [uuidname EXCEPT ![p] = {}]
    /\ nodes' = [nodes EXCEPT ![p] = NoNodeInfo]
    /\ creating' = [creating EXCEPT ![p] = {}]
    /\ queue' = IF Exists(Current) THEN queue \cup {p} ELSE queue \ {p}
    /\ UNCHANGED log

-----------------------------------------------------------------------------
reverseUuid(p, u) == [uuidname EXCEPT ![p] = @ \cup {u}]

releaseUuid(p, u) == [uuidname EXCEPT ![p] = @ \ {u}]

(* Mutant: the address is saved under the node that used the volume first. *)
reverseNodePrenode(p, st) ==
    IF st.prenode = NoNode \/ st.vi = NoNode
    THEN nodes
    ELSE [nodes EXCEPT ![p][st.prenode] = st.vi]

(* The storage address is saved under the node that uses the volume.  The  *)
(* zone list is copied into a slice of length 0, so nothing of it is kept. *)
reverseNode(p, st) ==
    IF st.node = NoNode \/ st.vi = NoNode
    THEN nodes
    ELSE [nodes EXCEPT ![p][st.node] = st.vi]

(* Mutant: the finalizer never holds a deletion back. *)
validBeDeleteAlways(o) == TRUE

(* Mutant: waits until no trace of a user is left in the status. *)
validBeDeleteNeverUsed(o) == o.status = EmptyStatus

validBeDelete(o) == o.status.node = NoNode

(* Mutant: the write ignores the version it is based on. *)
WritableAnyVersion(p) == Exists(Cached(p)) /\ Exists(Current)

(* Update(obj) with the version obj was read at: accepted only if that is  *)
(* still the current version.  RetryOnConflict submits the same object     *)
(* again, so a conflict stays a conflict.                                  *)
Writable(p) == Exists(Cached(p)) /\ UpToDate(p)

(* The deleting branch of Reconcile: without its finalizer the object is   *)
(* gone.  An error of the update is logged and dropped.                    *)
RemoveFinalizer(p) ==
    IF validBeDelete(Cached(p)) /\ Writable(p)
    THEN \/ Commit(NoObject) /\ UNCHANGED faults
         \/ Fault /\ UNCHANGED log
    ELSE UNCHANGED <<log, faults>>

(* Mutant: no early return when the object is not found. *)
ReconcileAbsentToo(p) ==
    /\ p \in queue
    /\ queue' = queue \ {p}
    /\ UNCHANGED <<seen, creating>>
    /\ \/ /\ Cached(p).phase = "Terminating"
          /\ RemoveFinalizer(p)
          /\ UNCHANGED <<uuidname, nodes>>
       \/ /\ Cached(p).phase # "Terminating"
          /\ uuidname' = reverseUuid(p, Cached(p).uuid)
          /\ nodes' = reverseNode(p, Cached(p).status)
          /\ UNCHANGED <<log, faults>>

(* Mutant: the uuid is left to Create to map. *)
ReconcileNodesOnly(p) ==
    /\ p \in queue
    /\ queue' = queue \ {p}
    /\ UNCHANGED <<seen, creating, uuidname>>
    /\ \/ /\ Cached(p).phase = "Terminating"
          /\ RemoveFinalizer(p)
          /\ UNCHANGED nodes
       \/ /\ Cached(p).phase # "Terminating"
          /\ nodes' = reverseNode(p, Cached(p).status)
          /\ UNCHANGED <<log, faults>>

Reconcile(p) ==
    /\ p \in queue
    /\ queue' = queue \ {p}
    /\ UNCHANGED <<seen, creating>>
    /\ \/ /\ Cached(p).phase = "Absent"
          /\ UNCHANGED <<log, uuidname, nodes, faults>>
       \/ /\ Cached(p).phase = "Terminating"
          /\ RemoveFinalizer(p)
          /\ UNCHANGED <<uuidname, nodes>>
       \/ /\ Cached(p).phase = "Live"
          /\ uuidname' = reverseUuid(p, Cached(p).uuid)
          /\ nodes' = reverseNode(p, Cached(p).status)
          /\ UNCHANGED <<log, faults>>

-----------------------------------------------------------------------------
(* Operations the RPC servers call.  Each leaves faults to its caller; a   *)
(* call that fails without effect changes nothing here.                    *)

getNameByuuid(p, u) == u \in uuidname[p]

GetByName(p) == Exists(Cached(p))

GetByUuid(p, u) == getNameByuuid(p, u) /\ GetByName(p)

(* Nodeinfo.DeepCopy copies the address into a nil slice.  A copy takes as *)
(* many bytes as its destination has room for: none.                       *)
DeepCopy(address) == NoNode

(* The address in the answer for node n; no operation of the RPC servers   *)
(* that runs today asks for it.                                            *)
GetNodeInfo(p, n) == DeepCopy(nodes[p][n])

UsedUuids == {log[i].uuid : i \in DOMAIN log}

(* Create, first half: uuid.NewUUID gave a fresh u, and it is mapped to    *)
(* the name before the object is submitted.                                *)
CreateBegin(p, u) ==
    /\ u \notin UsedUuids /\ \A q \in Procs : u \notin creating[q]
    /\ creating' = [creating EXCEPT ![p] = @ \cup {u}]
    /\ uuidname' = reverseUuid(p, u)
    /\ UNCHANGED <<log, seen, nodes, queue>>

(* The API server applies the submitted object; a name that exists, even   *)
(* one that is terminating, is refused.                                    *)
CreateApply(p, u, c) ==
    /\ u \in creating[p] \ UsedUuids
    /\ Current.phase = "Absent"
    /\ ClientCommit(NewObject(u, c))
    /\ UNCHANGED <<seen, uuidname, nodes, queue, creating>>

CreateReturn(p, u) ==
    /\ u \in creating[p] \cap UsedUuids
    /\ creating' = [creating EXCEPT ![p] = @ \ {u}]
    /\ UNCHANGED <<log, seen, uuidname, nodes, queue>>

(* Mutant: the deferred release is forgotten. *)
CreateErrorKeepsUuid(p, u) ==
    /\ u \in creating[p]
    /\ creating' = [creating EXCEPT ![p] = @ \ {u}]
    /\ UNCHANGED <<log, seen, uuidname, nodes, queue>>

(* Create returns an error: the deferred function releases the uuid.  The  *)
(* object may exist all the same when its answer was lost.                 *)
CreateError(p, u) ==
    /\ u \in creating[p]
    /\ creating' = [creating EXCEPT ![p] = @ \ {u}]
    /\ uuidname' = releaseUuid(p, u)
    /\ UNCHANGED <<log, seen, nodes, queue>>

(* AlreadyExists: the refusal of the API server. *)
CreateRefused(p, u) ==
    /\ u \notin UsedUuids
    /\ Exists(Current)
    /\ CreateError(p, u)

(* Delete: the object must be in the cache, the call itself names no       *)
(* version; a finalizer turns it into a deletionTimestamp.                 *)
Delete(p) ==
    /\ Exists(Cached(p))
    /\ Current.phase = "Live"
    /\ ClientCommit([Current EXCEPT !.phase = "Terminating"])
    /\ UNCHANGED <<seen, uuidname, nodes, queue, creating>>

(* Update(name, nil, status): the object is read again from the cache and  *)
(* the whole status is replaced.                                           *)
Update(p, st) ==
    /\ Writable(p)
    /\ ClientCommit([Cached(p) EXCEPT !.status = st])
    /\ UNCHANGED <<seen, uuidname, nodes, queue, creating>>

-----------------------------------------------------------------------------
(* The most general client: any process calls any operation at any time.   *)
(* A write whose answer is lost is the write and a fault; a call that      *)
(* fails without effect is a fault alone.                                  *)
ClientCreate(p, u) ==
    \/ CreateBegin(p, u) /\ UNCHANGED faults
    \/ \E c \in Caps : CreateApply(p, u, c) /\ UNCHANGED faults
    \/ CreateReturn(p, u) /\ UNCHANGED faults
    \/ CreateRefused(p, u) /\ UNCHANGED faults
    \/ CreateError(p, u) /\ Fault

ClientWrite(p) ==
    \/ Delete(p)
    \/ \E st \in Status : Update(p, st)

CallFails == Fault /\ UNCHANGED <<log, seen, uuidname, nodes, queue, creating>>

ClientNext ==
    \/ CallFails
    \/ \E p \in Procs : ClientWrite(p) /\ (UNCHANGED faults \/ Fault)
    \/ \E p \in Procs, u \in Uuids : ClientCreate(p, u)

CacheStep(p) == WatchEvent(p) \/ Resync(p) \/ Reconcile(p)

ManagerNext == (\E p \in Procs : CacheStep(p) \/ Restart(p)) \/ ClientNext

ManagerSpec == ManagerInit /\ [][ManagerNext]_managerVars

-----------------------------------------------------------------------------
Record == INSTANCE VolumeRecord WITH rec <- Current,
                                     used <- UsedUuids \ {NoUuid}

(* Whatever the caches hold and whichever calls fail, the resource behaves *)
(* as the register of VolumeRecord: in particular the finalizer is removed *)
(* only from an object whose deletion was requested and that at that very  *)
(* moment records no user, although Reconcile decides on a cached copy.    *)
ImplementsVolumeRecord == Record!RecordSpec

(* A deletion is final: no later version of the same incarnation is live,  *)
(* and no incarnation comes back once its object is gone, although every   *)
(* status write resubmits a whole object read from a cache.                *)
NoRevival ==
    \A i, j \in DOMAIN log :
        i < j /\ log[i].uuid = log[j].uuid /\ Exists(log[i]) =>
            /\ log[i].phase = "Terminating" => log[j].phase = "Terminating"
            /\ \A k \in i..j : log[k].uuid = log[i].uuid

(* A uuid an AlcubCon resolves was really given to the volume, unless the  *)
(* Create that maps it in advance is still running: a failed Create leaves *)
(* no mapping behind.                                                      *)
KnownUuidsSubmitted ==
    \A p \in Procs :
        uuidname[p] \subseteq creating[p] \cup (UsedUuids \ {NoUuid})

(* The address an AlcubCon holds for a node was once recorded by a status  *)
(* that named this node as the user of the volume.  It is about the table  *)
(* reverseNode writes, not about what GetNodeInfo makes of it.             *)
NodeInfoReported ==
    \A p \in Procs, n \in Nodes :
        nodes[p][n] # NoNode =>
            \E i \in DOMAIN log : /\ log[i].status.node = n
                                  /\ log[i].status.vi = nodes[p][n]

(* The address that Reconcile caches "which add by noderpc" can be had     *)
(* from GetNodeInfo.  It cannot: the copy that is returned is empty.       *)
NodeInfoServed ==
    \A p \in Procs, n \in Nodes : GetNodeInfo(p, n) = nodes[p][n]

(* A deleted volume without a user goes away, although Reconcile drops the *)
(* error of the update that removes the finalizer and asks for no retry.   *)
ReleasedIsRemoved ==
    Current.phase = "Terminating" /\ Current.status.node = NoNode
        ~> Current.phase = "Absent" \/ Current.status.node # NoNode

(* There comes a time at which every process knows the uuid of a live      *)
(* volume, although a Create whose answer is lost releases a uuid that     *)
(* Reconcile may already have mapped, and processes end and start anew.    *)
UuidLearned ==
    Current.phase = "Live"
        ~> \/ \A p \in Procs : Current.uuid \in uuidname[p]
           \/ Current.phase # "Live"
=============================================================================
