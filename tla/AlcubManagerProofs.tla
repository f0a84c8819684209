------------------------ MODULE AlcubManagerProofs ------------------------
(***************************************************************************)
(* What holds of AlcubManager for any processes, nodes, uuids, capacities  *)
(* and bounds.  Every action either leaves the API server alone or makes   *)
(* one of four kinds of write (LogStep); the invariants about the record,  *)
(* and that it refines VolumeRecord, follow from LogStep.                  *)
(***************************************************************************)
EXTENDS AlcubManager, TLAPS

(* What a step may do to the API server. *)
LogStep ==
    \/ log' = log
    \/ \E u \in Uuids \ UsedUuids, c \in Caps :
          Current.phase = "Absent" /\ log' = Append(log, NewObject(u, c))
    \/ \E st \in Status :
          /\ Exists(Current)
          /\ log' = Append(log, [Current EXCEPT !.status = st])
    \/ /\ Current.phase = "Live"
       /\ log' = Append(log, [Current EXCEPT !.phase = "Terminating"])
    \/ /\ Current.phase = "Terminating" /\ Current.status.node = NoNode
       /\ log' = Append(log, NoObject)

-----------------------------------------------------------------------------
(* The objects the code builds are objects. *)
LEMMA ObjectTypes ==
    /\ NoObject \in Object
    /\ \A u \in Uuids, c \in Caps : NewObject(u, c) \in Object
    /\ \A o \in Object, st \in Status : [o EXCEPT !.status = st] \in Object
    /\ \A o \in Object : [o EXCEPT !.phase = "Terminating"] \in Object
BY ResourceAssumption
   DEF NoObject, NewObject, Object, EmptyStatus, Status, NodeOrNone

(* Adding to or taking from one process's set of uuids keeps it typed. *)
LEMMA UuidSets ==
    ASSUME NEW f \in [Procs -> SUBSET Uuids], NEW p \in Procs,
           NEW u \in Uuids
    PROVE  /\ [f EXCEPT ![p] = @ \cup {u}] \in [Procs -> SUBSET Uuids]
           /\ [f EXCEPT ![p] = @ \ {u}] \in [Procs -> SUBSET Uuids]
<1>1. f[p] \cup {u} \in SUBSET Uuids /\ f[p] \ {u} \in SUBSET Uuids
  OBVIOUS
<1> QED BY <1>1

(* The current and the cached versions are objects. *)
LEMMA ReadTypes ==
    ASSUME ManagerTypeOK
    PROVE  /\ Current \in Object
           /\ \A p \in Procs : Cached(p) \in Object
           /\ \A p \in Procs : UpToDate(p) => Cached(p) = Current
           /\ \A i \in DOMAIN log : log[i] \in Object
BY DEF ManagerTypeOK, Current, Cached, UpToDate

(* Whatever a process does on the word of its cache, the write that gets   *)
(* through is one of the four kinds: optimistic concurrency makes the      *)
(* cached object the current one.                                          *)
LEMMA StepWrites ==
    ASSUME ManagerTypeOK, ManagerNext
    PROVE  LogStep
<1> USE ReadTypes
<1>1. CASE CallFails
  BY <1>1 DEF CallFails, LogStep
<1>2. ASSUME NEW p \in Procs, ClientWrite(p) PROVE LogStep
  <2>1. CASE Delete(p)
    BY <2>1 DEF Delete, ClientCommit, Commit, LogStep
  <2>2. ASSUME NEW st \in Status, Update(p, st) PROVE LogStep
    BY <2>2 DEF Update, Writable, ClientCommit, Commit, LogStep
  <2> QED BY <1>2, <2>1, <2>2 DEF ClientWrite
<1>3. ASSUME NEW p \in Procs, NEW u \in Uuids, ClientCreate(p, u) PROVE LogStep
  <2>1. ASSUME NEW c \in Caps, CreateApply(p, u, c) PROVE LogStep
    BY <2>1 DEF CreateApply, ClientCommit, Commit, LogStep
  <2>2. CASE log' = log
    BY <2>2 DEF LogStep
  <2> QED
    BY <1>3, <2>1, <2>2
       DEF ClientCreate, CreateBegin, CreateReturn, CreateRefused, CreateError
<1>4. ASSUME NEW p \in Procs, CacheStep(p) PROVE LogStep
  <2>1. CASE log' = log
    BY <2>1 DEF LogStep
  <2>2. CASE /\ Cached(p).phase = "Terminating"
             /\ validBeDelete(Cached(p)) /\ Writable(p)
             /\ Commit(NoObject)
    BY <2>2 DEF validBeDelete, Writable, Commit, LogStep
  <2> QED
    BY <1>4, <2>1, <2>2
       DEF CacheStep, WatchEvent, Resync, Reconcile, RemoveFinalizer
<1>5. ASSUME NEW p \in Procs, Restart(p) PROVE LogStep
  BY <1>5 DEF Restart, LogStep
<1> QED
  BY <1>1, <1>2, <1>3, <1>4, <1>5 DEF ManagerNext, ClientNext

(* A write only adds a version. *)
LEMMA LogGrows ==
    ASSUME ManagerTypeOK, LogStep
    PROVE  /\ log' \in Seq(Object) /\ Len(log') >= Len(log)
           /\ \A i \in DOMAIN log : i \in DOMAIN log' /\ log'[i] = log[i]
<1> USE ReadTypes, ObjectTypes
<1>1. CASE log' = log
  BY <1>1 DEF ManagerTypeOK
<1>2. ASSUME NEW o \in Object, log' = Append(log, o)
      PROVE  /\ log' \in Seq(Object) /\ Len(log') >= Len(log)
             /\ \A i \in DOMAIN log : i \in DOMAIN log' /\ log'[i] = log[i]
  BY <1>2 DEF ManagerTypeOK
<1> QED BY <1>1, <1>2 DEF LogStep

-----------------------------------------------------------------------------
(* An object that exists has a uuid: what Reconcile needs to keep the uuid *)
(* map typed, since it maps whatever uuid a live object carries.           *)
HasUuid == \A i \in DOMAIN log : Exists(log[i]) => log[i].uuid \in Uuids

TypeInv == ManagerTypeOK /\ HasUuid

LEMMA TypeInit == ManagerInit => TypeInv
<1> SUFFICES ASSUME ManagerInit PROVE TypeInv
  OBVIOUS
<1>1. log \in Seq(Object) /\ Len(log) = 1 /\ log[1] = NoObject
  BY ObjectTypes DEF ManagerInit
<1>2. nodes \in [Procs -> [Nodes -> NodeOrNone]]
  BY DEF ManagerInit, NoNodeInfo, NodeOrNone
<1>3. ManagerTypeOK
  BY <1>1, <1>2, ManagerAssumption DEF ManagerInit, ManagerTypeOK
<1>4. HasUuid
  BY <1>1 DEF HasUuid, Exists, NoObject
<1> QED BY <1>3, <1>4 DEF TypeInv

(* A new version has a uuid because it is a new object, a copy of one that *)
(* exists, or nothing.                                                     *)
LEMMA HasUuidNext ==
    ASSUME TypeInv, LogStep
    PROVE  HasUuid'
<1> USE ReadTypes DEF TypeInv
<1>1. CASE log' = log
  BY <1>1 DEF HasUuid
<1>2. ASSUME NEW o \in Object, log' = Append(log, o),
             Exists(o) => o.uuid \in Uuids
      PROVE  HasUuid'
  BY <1>2 DEF HasUuid, ManagerTypeOK
<1>3. Exists(Current) => Current.uuid \in Uuids
  BY DEF HasUuid, Current, ManagerTypeOK
<1>4. ASSUME NEW u \in Uuids, NEW c \in Caps,
             log' = Append(log, NewObject(u, c))
      PROVE  HasUuid'
  BY <1>2, <1>4, ObjectTypes DEF NewObject
<1>5. ASSUME NEW st \in Status, Exists(Current),
             log' = Append(log, [Current EXCEPT !.status = st])
      PROVE  HasUuid'
  BY <1>2, <1>3, <1>5, ObjectTypes DEF Object
<1>6. CASE /\ Current.phase = "Live"
           /\ log' = Append(log, [Current EXCEPT !.phase = "Terminating"])
  BY <1>2, <1>3, <1>6, ObjectTypes DEF Object, Exists
<1>7. CASE log' = Append(log, NoObject)
  BY <1>2, <1>7, ObjectTypes DEF NoObject, Exists
<1> QED BY <1>1, <1>4, <1>5, <1>6, <1>7 DEF LogStep

(* One step per kind of process action; log is covered by LogGrows. *)
LEMMA TypeNext == TypeInv /\ [ManagerNext]_managerVars => TypeInv'
<1> SUFFICES ASSUME TypeInv, [ManagerNext]_managerVars
             PROVE  TypeInv'
  OBVIOUS
<1> USE DEF TypeInv
<1>1. CASE UNCHANGED managerVars
  BY <1>1 DEF managerVars, ManagerTypeOK, HasUuid
<1>2. CASE ManagerNext
  <2>1. LogStep
    BY <1>2, StepWrites
  <2>2. HasUuid'
    BY <2>1, HasUuidNext
  <2>3. /\ log' \in Seq(Object) /\ Len(log') > 0
        /\ \A q \in Procs : seen[q] \in 1..Len(log')
    BY <2>1, LogGrows DEF ManagerTypeOK
  <2>4. Fault \/ UNCHANGED faults => faults' \in 0..MaxFaults
    BY ManagerAssumption DEF Fault, ManagerTypeOK
  <2>5. CASE CallFails
    BY <2>2, <2>3, <2>4, <2>5 DEF CallFails, ManagerTypeOK
  <2>6. ASSUME NEW p \in Procs, ClientWrite(p), UNCHANGED faults \/ Fault
        PROVE  TypeInv'
    <3>1. UNCHANGED <<seen, uuidname, nodes, queue, creating>>
      BY <2>6 DEF ClientWrite, Delete, Update
    <3> QED
      BY <2>2, <2>3, <2>4, <2>6, <3>1 DEF ManagerTypeOK
  <2>7. ASSUME NEW p \in Procs, NEW u \in Uuids, ClientCreate(p, u)
        PROVE  TypeInv'
    <3>1. UNCHANGED <<seen, nodes, queue>> /\ (Fault \/ UNCHANGED faults)
      BY <2>7
         DEF ClientCreate, CreateBegin, CreateApply, CreateReturn,
             CreateRefused, CreateError
    <3>2. uuidname' \in {uuidname, reverseUuid(p, u), releaseUuid(p, u)}
      BY <2>7
         DEF ClientCreate, CreateBegin, CreateApply, CreateReturn,
             CreateRefused, CreateError
    <3>3. creating' \in {creating, [creating EXCEPT ![p] = @ \cup {u}],
                        [creating EXCEPT ![p] = @ \ {u}]}
      BY <2>7
         DEF ClientCreate, CreateBegin, CreateApply, CreateReturn,
             CreateRefused, CreateError
    <3>4. uuidname' \in [Procs -> SUBSET Uuids]
      <4>1. uuidname \in [Procs -> SUBSET Uuids]
        BY DEF ManagerTypeOK
      <4>2. /\ reverseUuid(p, u) \in [Procs -> SUBSET Uuids]
            /\ releaseUuid(p, u) \in [Procs -> SUBSET Uuids]
        BY <4>1, UuidSets, Zenon DEF reverseUuid, releaseUuid
      <4> QED BY <3>2, <4>1, <4>2
    <3>5. creating' \in [Procs -> SUBSET Uuids]
      <4>1. creating \in [Procs -> SUBSET Uuids]
        BY DEF ManagerTypeOK
      <4>2. /\ [creating EXCEPT ![p] = @ \cup {u}] \in [Procs -> SUBSET Uuids]
            /\ [creating EXCEPT ![p] = @ \ {u}] \in [Procs -> SUBSET Uuids]
        BY <4>1, UuidSets, Zenon
      <4> QED BY <3>3, <4>1, <4>2
    <3> QED
      BY <2>2, <2>3, <2>4, <3>1, <3>4, <3>5 DEF ManagerTypeOK
  <2>8. ASSUME NEW p \in Procs, CacheStep(p) PROVE TypeInv'
    <3>1. CASE WatchEvent(p)
      BY <2>2, <2>3, <3>1 DEF WatchEvent, ManagerTypeOK
    <3>2. CASE Resync(p)
      BY <2>2, <2>3, <3>2 DEF Resync, ManagerTypeOK
    <3>3. CASE Reconcile(p)
      <4>1. faults' \in 0..MaxFaults
        BY <2>4, <3>3 DEF Reconcile, RemoveFinalizer
      <4>2. uuidname' \in [Procs -> SUBSET Uuids]
        <5>1. Cached(p).phase = "Live" => Cached(p).uuid \in Uuids
          BY DEF HasUuid, Cached, Exists, ManagerTypeOK
        <5> QED BY <3>3, <5>1 DEF Reconcile, reverseUuid, ManagerTypeOK
      <4>3. nodes' \in [Procs -> [Nodes -> NodeOrNone]]
        <5>1. Cached(p).status \in Status
          BY ReadTypes DEF Object
        <5>2. reverseNode(p, Cached(p).status)
                \in [Procs -> [Nodes -> NodeOrNone]]
          BY <5>1 DEF reverseNode, Status, NodeOrNone, ManagerTypeOK
        <5> QED BY <3>3, <5>2 DEF Reconcile, ManagerTypeOK
      <4> QED
        BY <2>2, <2>3, <3>3, <4>1, <4>2, <4>3 DEF Reconcile, ManagerTypeOK
    <3> QED BY <2>8, <3>1, <3>2, <3>3 DEF CacheStep
  <2>9. ASSUME NEW p \in Procs, Restart(p) PROVE TypeInv'
    BY <2>2, <2>3, <2>4, <2>9
       DEF Restart, NoNodeInfo, NodeOrNone, ManagerTypeOK
  <2> QED
    BY <1>2, <2>5, <2>6, <2>7, <2>8, <2>9 DEF ManagerNext, ClientNext
<1> QED BY <1>1, <1>2

(* Type correctness: in particular a cache never runs ahead of the API     *)
(* server, and the uuid map and the node table never hold an empty entry.  *)
THEOREM ManagerTypeCorrect == ManagerSpec => []ManagerTypeOK
<1>1. ManagerInit => TypeInv
  BY TypeInit
<1>2. TypeInv /\ [ManagerNext]_managerVars => TypeInv'
  BY TypeNext
<1>3. TypeInv => ManagerTypeOK
  BY DEF TypeInv
<1> QED BY <1>1, <1>2, <1>3, PTL DEF ManagerSpec

-----------------------------------------------------------------------------
(* What a write does to the current object and to the uuids used. *)
LEMMA AppendEffect ==
    ASSUME ManagerTypeOK, NEW o \in Object, log' = Append(log, o)
    PROVE  Current' = o /\ UsedUuids' = UsedUuids \cup {o.uuid}
<1>1. /\ Len(log') = Len(log) + 1 /\ log'[Len(log')] = o
      /\ DOMAIN log = 1..Len(log) /\ DOMAIN log' = 1..(Len(log) + 1)
      /\ \A i \in 1..Len(log) : log'[i] = log[i]
  BY DEF ManagerTypeOK
<1>2. Current' = o
  BY <1>1 DEF Current
<1>3. UsedUuids' \subseteq UsedUuids \cup {o.uuid}
  BY <1>1 DEF UsedUuids, ManagerTypeOK
<1>4. \A i \in DOMAIN log' : log'[i].uuid \in UsedUuids'
  BY DEF UsedUuids
<1>5. UsedUuids \subseteq UsedUuids'
  <2>1. \A i \in DOMAIN log : log[i].uuid \in UsedUuids'
    BY <1>1, <1>4 DEF ManagerTypeOK
  <2> QED BY <2>1 DEF UsedUuids
<1>6. o.uuid \in UsedUuids'
  <2>1. Len(log') \in DOMAIN log'
    BY <1>1 DEF ManagerTypeOK
  <2>2. log'[Len(log')].uuid \in UsedUuids'
    BY <1>4, <2>1
  <2> QED BY <1>1, <2>2
<1> QED BY <1>2, <1>3, <1>5, <1>6

(* The uuid of the current object is a used one. *)
LEMMA CurrentUsed == ManagerTypeOK => Current.uuid \in UsedUuids
BY DEF ManagerTypeOK, Current, UsedUuids

(* Each kind of write is a step of the abstract register. *)
LEMMA RecordStep ==
    ASSUME TypeInv, LogStep
    PROVE  [Record!RecordNext]_<<Current, UsedUuids \ {NoUuid}>>
<1> DEFINE Used == UsedUuids \ {NoUuid}
<1> USE ReadTypes, ObjectTypes DEF TypeInv
<1>1. CASE log' = log
  BY <1>1 DEF Current, UsedUuids
<1>2. ASSUME NEW u \in Uuids \ UsedUuids, NEW c \in Caps,
             Current.phase = "Absent", log' = Append(log, NewObject(u, c))
      PROVE  Record!Provision
  <2>1. Current' = NewObject(u, c) /\ Used' = Used \cup {u}
    BY <1>2, AppendEffect, ResourceAssumption DEF NewObject
  <2>2. NewObject(u, c) = Record!NewObject(u, c)
    BY DEF NewObject, EmptyStatus, Record!NewObject, Record!EmptyStatus
  <2>3. u \in Uuids \ Used
    OBVIOUS
  <2> QED BY <1>2, <2>1, <2>2, <2>3 DEF Record!Provision
<1>3. ASSUME NEW st \in Status, Exists(Current),
             log' = Append(log, [Current EXCEPT !.status = st])
      PROVE  Record!SetStatus
  <2>1. Current' = [Current EXCEPT !.status = st] /\ Used' = Used
    BY <1>3, AppendEffect, CurrentUsed DEF Object
  <2>2. st \in Record!Status
    BY DEF Status, NodeOrNone, Record!Status, Record!NodeOrNone
  <2> QED BY <1>3, <2>1, <2>2 DEF Record!SetStatus, Exists, Record!Exists
<1>4. ASSUME Current.phase = "Live",
             log' = Append(log, [Current EXCEPT !.phase = "Terminating"])
      PROVE  Record!RequestDeletion
  <2>1. Current' = [Current EXCEPT !.phase = "Terminating"] /\ Used' = Used
    BY <1>4, AppendEffect, CurrentUsed DEF Object
  <2> QED BY <1>4, <2>1 DEF Record!RequestDeletion
<1>5. ASSUME Current.phase = "Terminating", Current.status.node = NoNode,
             log' = Append(log, NoObject)
      PROVE  Record!Remove
  <2>1. Current' = NoObject /\ Used' = Used
    BY <1>5, AppendEffect DEF NoObject
  <2>2. NoObject = Record!NoObject
    BY DEF NoObject, EmptyStatus, Record!NoObject, Record!EmptyStatus
  <2> QED BY <1>5, <2>1, <2>2 DEF Record!Remove
<1> QED
  BY <1>1, <1>2, <1>3, <1>4, <1>5 DEF LogStep, Record!RecordNext

(* Whatever the caches hold and whichever calls fail, the resource behaves *)
(* as one register: Create gives it a fresh uuid, Update changes nothing   *)
(* but its status, and Reconcile lets it go only after a deletion was      *)
(* requested and while it records no user.                                 *)
THEOREM ManagerImplementsRecord == ManagerSpec => ImplementsVolumeRecord
<1>1. ManagerInit => Record!RecordInit
  <2>1. NoObject = Record!NoObject
    BY DEF NoObject, EmptyStatus, Record!NoObject, Record!EmptyStatus
  <2>2. ManagerInit => Current = NoObject /\ UsedUuids = {NoUuid}
    BY DEF ManagerInit, Current, UsedUuids, NoObject
  <2> QED BY <2>1, <2>2 DEF Record!RecordInit
<1>2. TypeInv /\ [ManagerNext]_managerVars
        => [Record!RecordNext]_<<Current, UsedUuids \ {NoUuid}>>
  <2>1. ASSUME TypeInv, UNCHANGED managerVars PROVE LogStep
    BY <2>1 DEF managerVars, LogStep
  <2>2. ASSUME TypeInv, ManagerNext PROVE LogStep
    BY <2>2, StepWrites DEF TypeInv
  <2> QED BY <2>1, <2>2, RecordStep
<1> QED
  BY <1>1, <1>2, TypeInit, TypeNext, PTL
     DEF ManagerSpec, ImplementsVolumeRecord, Record!RecordSpec

-----------------------------------------------------------------------------
(* Used uuids stay used. *)
LEMMA UsedGrows ==
    ASSUME ManagerTypeOK, LogStep
    PROVE  UsedUuids \subseteq UsedUuids'
<1>1. \A i \in DOMAIN log : i \in DOMAIN log' /\ log'[i].uuid = log[i].uuid
  BY LogGrows
<1> QED BY <1>1 DEF UsedUuids

LEMMA KnownNext ==
    TypeInv /\ KnownUuidsSubmitted /\ [ManagerNext]_managerVars
        => KnownUuidsSubmitted'
<1> SUFFICES ASSUME TypeInv, KnownUuidsSubmitted, [ManagerNext]_managerVars,
                    NEW q \in Procs
             PROVE  uuidname'[q] \subseteq creating'[q] \cup (UsedUuids' \ {NoUuid})
  BY DEF KnownUuidsSubmitted
<1> DEFINE Ok == uuidname'[q] \subseteq creating'[q] \cup (UsedUuids' \ {NoUuid})
<1> SUFFICES Ok
  OBVIOUS
<1>1. uuidname[q] \subseteq creating[q] \cup (UsedUuids \ {NoUuid})
  BY DEF KnownUuidsSubmitted
<1>2. CASE UNCHANGED managerVars
  BY <1>1, <1>2 DEF managerVars, UsedUuids
<1>3. CASE ManagerNext
  <2>1. UsedUuids \subseteq UsedUuids'
    BY <1>3, StepWrites, UsedGrows DEF TypeInv
  <2>2. CASE uuidname'[q] = uuidname[q] /\ creating'[q] = creating[q]
    BY <1>1, <2>1, <2>2
  <2>3. ASSUME NEW p \in Procs, NEW u \in Uuids, ClientCreate(p, u) PROVE Ok
    <3>1. u # NoUuid
      BY ResourceAssumption
    <3>2. CASE CreateBegin(p, u)
      BY <1>1, <2>1, <3>1, <3>2 DEF CreateBegin, reverseUuid, TypeInv, ManagerTypeOK
    <3>3. CASE \E c \in Caps : CreateApply(p, u, c)
      BY <2>2, <3>3 DEF CreateApply
    <3>4. CASE CreateReturn(p, u)
      BY <1>1, <2>1, <3>1, <3>4 DEF CreateReturn, TypeInv, ManagerTypeOK
    <3>5. CASE CreateError(p, u)
      BY <1>1, <2>1, <3>5 DEF CreateError, releaseUuid, TypeInv, ManagerTypeOK
    <3> QED
      BY <2>3, <3>2, <3>3, <3>4, <3>5 DEF ClientCreate, CreateRefused
  <2>4. ASSUME NEW p \in Procs, Reconcile(p) PROVE Ok
    <3>1. CASE UNCHANGED uuidname
      BY <2>2, <2>4, <3>1 DEF Reconcile
    <3>2. CASE Cached(p).phase = "Live" /\ uuidname' = reverseUuid(p, Cached(p).uuid)
      <4>1. Cached(p).uuid \in UsedUuids \ {NoUuid}
        BY <3>2, ResourceAssumption
           DEF TypeInv, HasUuid, ManagerTypeOK, Cached, Exists, UsedUuids
      <4> QED
        BY <1>1, <2>1, <2>4, <3>2, <4>1
           DEF Reconcile, reverseUuid, TypeInv, ManagerTypeOK
    <3> QED BY <2>4, <3>1, <3>2 DEF Reconcile
  <2>5. ASSUME NEW p \in Procs, Restart(p) PROVE Ok
    BY <1>1, <2>1, <2>5 DEF Restart, TypeInv, ManagerTypeOK
  <2>6. CASE UNCHANGED <<uuidname, creating>>
    BY <2>2, <2>6
  <2> QED
    BY <1>3, <2>3, <2>4, <2>5, <2>6
       DEF ManagerNext, ClientNext, CallFails, ClientWrite, Delete, Update,
           CacheStep, WatchEvent, Resync
<1> QED BY <1>2, <1>3

(* No AlcubCon resolves a uuid that was never given to the volume, except  *)
(* while the Create that maps it in advance is running: the deferred       *)
(* release of a failed Create leaves no mapping behind.                    *)
THEOREM ManagerKnownUuids == ManagerSpec => []KnownUuidsSubmitted
<1>1. ManagerInit => KnownUuidsSubmitted
  BY DEF ManagerInit, KnownUuidsSubmitted
<1> QED BY <1>1, TypeInit, TypeNext, KnownNext, PTL DEF ManagerSpec

-----------------------------------------------------------------------------
LEMMA NodeInfoNext ==
    TypeInv /\ NodeInfoReported /\ [ManagerNext]_managerVars
        => NodeInfoReported'
<1> SUFFICES ASSUME TypeInv, NodeInfoReported, [ManagerNext]_managerVars,
                    NEW q \in Procs, NEW n \in Nodes, nodes'[q][n] # NoNode
             PROVE  \E i \in DOMAIN log' :
                        /\ log'[i].status.node = n
                        /\ log'[i].status.vi = nodes'[q][n]
  BY DEF NodeInfoReported
<1>1. \A i \in DOMAIN log : i \in DOMAIN log' /\ log'[i] = log[i]
  BY StepWrites, LogGrows DEF TypeInv, managerVars
<1>2. CASE nodes'[q][n] = nodes[q][n]
  BY <1>1, <1>2 DEF NodeInfoReported
<1>3. CASE nodes'[q][n] # nodes[q][n]
  <2>1. PICK p \in Procs : Reconcile(p) \/ Restart(p)
    BY <1>3
       DEF ManagerNext, ClientNext, CallFails, ClientWrite, Delete, Update,
           ClientCreate, CreateBegin, CreateApply, CreateReturn, CreateRefused,
           CreateError, CacheStep, WatchEvent, Resync, managerVars
  <2>2. ~Restart(p)
    <3>1. NoNodeInfo[n] = NoNode
      BY DEF NoNodeInfo
    <3>2. nodes' = [nodes EXCEPT ![p] = NoNodeInfo]
            => nodes'[q] = NoNodeInfo \/ nodes'[q] = nodes[q]
      BY DEF TypeInv, ManagerTypeOK
    <3> QED BY <1>3, <3>1, <3>2 DEF Restart
  <2>3. nodes' = reverseNode(p, Cached(p).status)
    BY <1>3, <2>1, <2>2 DEF Reconcile
  <2>4. Cached(p).status.node = n /\ Cached(p).status.vi = nodes'[q][n]
    BY <1>3, <2>3 DEF reverseNode, TypeInv, ManagerTypeOK
  <2>5. seen[p] \in DOMAIN log
    BY DEF TypeInv, ManagerTypeOK
  <2> QED BY <1>1, <2>4, <2>5 DEF Cached
<1> QED BY <1>2, <1>3

(* The address an AlcubCon holds for a node was recorded in a status that  *)
(* named this node as the user: reverseNode never mixes two versions.      *)
THEOREM ManagerNodeInfo == ManagerSpec => []NodeInfoReported
<1>1. ManagerInit => NodeInfoReported
  BY DEF ManagerInit, NoNodeInfo, NodeInfoReported
<1> QED BY <1>1, TypeInit, TypeNext, NodeInfoNext, PTL DEF ManagerSpec

-----------------------------------------------------------------------------
(* The new version o of a write does not revive: it has a fresh uuid, or   *)
(* that of the current object and a phase that is no younger, or none.     *)
LEMMA RevivalAppend ==
    ASSUME TypeInv, NoRevival, NEW o \in Object, log' = Append(log, o),
           \/ o.uuid \notin UsedUuids
           \/ /\ Exists(Current) /\ o.uuid = Current.uuid
              /\ Current.phase = "Terminating" => o.phase = "Terminating"
           \/ o.uuid = NoUuid
    PROVE  NoRevival'
<1> USE DEF TypeInv
<1>1. /\ Len(log) \in Nat \ {0} /\ DOMAIN log = 1..Len(log)
      /\ DOMAIN log' = 1..(Len(log) + 1)
      /\ \A i \in 1..Len(log) : log'[i] = log[i]
      /\ log'[Len(log) + 1] = o
  BY DEF ManagerTypeOK
<1> SUFFICES ASSUME NEW i \in DOMAIN log', NEW j \in DOMAIN log', i < j,
                    log'[i].uuid = log'[j].uuid, Exists(log'[i])
             PROVE  /\ log'[i].phase = "Terminating"
                         => log'[j].phase = "Terminating"
                    /\ \A k \in i..j : log'[k].uuid = log'[i].uuid
  BY DEF NoRevival
<1>2. CASE j <= Len(log)
  BY <1>1, <1>2 DEF NoRevival
<1>3. CASE j = Len(log) + 1
  <2>1. i \in 1..Len(log) /\ log'[i] = log[i] /\ log[i].uuid = o.uuid
    BY <1>1, <1>3
  <2>2. o.uuid \in UsedUuids
    BY <1>1, <2>1 DEF UsedUuids
  <2>3. o.uuid # NoUuid
    BY <1>1, <2>1, ResourceAssumption DEF HasUuid
  <2>4. /\ Current = log[Len(log)] /\ o.uuid = Current.uuid
        /\ Current.phase = "Terminating" => o.phase = "Terminating"
    BY <2>2, <2>3 DEF Current
  <2>5. /\ log[i].phase = "Terminating" => Current.phase = "Terminating"
        /\ \A k \in i..Len(log) : log[k].uuid = log[i].uuid
    <3>1. CASE i = Len(log)
      BY <1>1, <2>4, <3>1
    <3>2. CASE i < Len(log)
      BY <1>1, <2>1, <2>4, <3>2 DEF NoRevival
    <3> QED BY <1>1, <2>1, <3>1, <3>2
  <2> QED BY <1>1, <1>3, <2>1, <2>4, <2>5
<1> QED BY <1>1, <1>2, <1>3

LEMMA RevivalNext ==
    TypeInv /\ NoRevival /\ [ManagerNext]_managerVars => NoRevival'
<1> SUFFICES ASSUME TypeInv, NoRevival, [ManagerNext]_managerVars
             PROVE  NoRevival'
  OBVIOUS
<1> USE ReadTypes, ObjectTypes DEF TypeInv
<1>1. LogStep
  BY StepWrites DEF managerVars, LogStep
<1>2. CASE log' = log
  BY <1>2 DEF NoRevival
<1>3. ASSUME NEW u \in Uuids \ UsedUuids, NEW c \in Caps,
             log' = Append(log, NewObject(u, c))
      PROVE  NoRevival'
  BY <1>3, RevivalAppend DEF NewObject
<1>4. ASSUME NEW st \in Status, Exists(Current),
             log' = Append(log, [Current EXCEPT !.status = st])
      PROVE  NoRevival'
  BY <1>4, RevivalAppend DEF Object
<1>5. CASE /\ Current.phase = "Live"
           /\ log' = Append(log, [Current EXCEPT !.phase = "Terminating"])
  BY <1>5, RevivalAppend DEF Object, Exists
<1>6. CASE log' = Append(log, NoObject)
  BY <1>6, RevivalAppend DEF NoObject
<1> QED BY <1>1, <1>2, <1>3, <1>4, <1>5, <1>6 DEF LogStep

(* A deletion is final: although every status write resubmits a whole      *)
(* object read from a cache, no incarnation turns live again once it is    *)
(* terminating, and none comes back once it is gone.                       *)
THEOREM ManagerNoRevival == ManagerSpec => []NoRevival
<1>1. ManagerInit => NoRevival
  BY DEF ManagerInit, NoRevival
<1> QED BY <1>1, TypeInit, TypeNext, RevivalNext, PTL DEF ManagerSpec
=============================================================================
