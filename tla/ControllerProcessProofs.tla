---------------------- MODULE ControllerProcessProofs -----------------------
(***************************************************************************)
(* What holds of the controller's replicas for any number of them, any     *)
(* node history and any number of faults.                                  *)
(***************************************************************************)
EXTENDS ControllerProcess, TLAPS

(* The part of ProcessTypeOK about the replicas. *)
ReplicaTypes ==
    /\ lease \in Replicas \cup {NoReplica}
    /\ st \in [Replicas ->
                 {"down", "candidate", "elected", "running", "stopping"}]
    /\ srv \in [Replicas ->
                  {"none", "starting", "listening", "serving", "stopped"}]
    /\ sock \in [Replicas -> BOOLEAN]
    /\ faults \in 0..MaxFaults
    /\ \A r \in Replicas : st[r] \in {"down", "candidate", "elected"} =>
          srv[r] = "none"

(* LeaderAccepts is not inductive: a server is on its way long before it   *)
(* accepts, and a replica that was elected will start one.                 *)
Leads(r) == \/ st[r] \in {"elected", "running"}
            \/ srv[r] \in {"starting", "listening", "serving"}

LeaderInv == ReplicaTypes /\ \A r \in Replicas : Leads(r) => lease = r

-----------------------------------------------------------------------------
LEMMA ReplicaInit == ProcessInit => LeaderInv
BY LabelsAssumption, ProcessAssumption
   DEF ProcessInit, LabelsInit, LeaderInv, ReplicaTypes, Leads

(* Every way a process ends leaves a replica that leads nothing. *)
LEMMA DieKeeps ==
    ASSUME LeaderInv, NEW r \in Replicas, Die(r), faults' \in 0..MaxFaults,
           sock' \in [Replicas -> BOOLEAN]
    PROVE  LeaderInv'
BY DEF Die, Set, LeaderInv, ReplicaTypes, Leads

LEMMA FaultTypes ==
    ASSUME faults \in 0..MaxFaults, Fault PROVE faults' \in 0..MaxFaults
BY LabelsAssumption DEF Fault

LEMMA LabelsFaults ==
    ASSUME faults \in 0..MaxFaults,
           Relabel \/ WatchEvent \/ Resync \/ Reconcile \/ updateNode
    PROVE  faults' \in 0..MaxFaults
BY FaultTypes DEF Relabel, WatchEvent, Resync, Reconcile, updateNode

LEMMA LeaderStep == LeaderInv /\ [ProcessNext]_vars => LeaderInv'
<1> SUFFICES ASSUME LeaderInv, [ProcessNext]_vars PROVE LeaderInv'
  OBVIOUS
<1> USE DEF Set
<1>1. ASSUME NEW r \in Replicas, StartProcess(r) PROVE LeaderInv'
  BY <1>1 DEF StartProcess, LeaderInv, ReplicaTypes, Leads
<1>2. ASSUME NEW r \in Replicas, Elect(r) PROVE LeaderInv'
  <2>1. \A q \in Replicas : ~Leads(q)
    BY <1>2, ProcessAssumption DEF Elect, LeaderInv
  <2> QED BY <1>2, <2>1 DEF Elect, LeaderInv, ReplicaTypes, Leads
<1>3. ASSUME NEW r \in Replicas, Sync(r) PROVE LeaderInv'
  BY <1>3 DEF Sync, LeaderInv, ReplicaTypes, Leads
<1>4. ASSUME NEW r \in Replicas, StartRunner(r) PROVE LeaderInv'
  BY <1>4 DEF StartRunner, NeedLeaderElection, LeaderInv, ReplicaTypes, Leads
<1>5. ASSUME NEW r \in Replicas, Listen(r) PROVE LeaderInv'
  <2>1. CASE Fault /\ Die(r) /\ \E left \in {FALSE, sock[r]} : Set(sock, r, left)
    <3>1. sock' \in [Replicas -> BOOLEAN]
      BY <2>1 DEF LeaderInv, ReplicaTypes
    <3> QED BY <2>1, <3>1, DieKeeps, FaultTypes DEF LeaderInv, ReplicaTypes
  <2>2. CASE Set(sock, r, TRUE) /\ Set(srv, r, "listening")
             /\ UNCHANGED <<labelsVars, faults, lease, st>>
    BY <1>5, <2>2 DEF Listen, LeaderInv, ReplicaTypes, Leads
  <2> QED BY <1>5, <2>1, <2>2 DEF Listen
<1>6. ASSUME NEW r \in Replicas, Serve(r) PROVE LeaderInv'
  BY <1>6 DEF Serve, LeaderInv, ReplicaTypes, Leads
<1>7. ASSUME NEW r \in Replicas, StopServer(r) PROVE LeaderInv'
  <2>1. CASE Die(r) /\ UNCHANGED sock
    BY <1>7, <2>1, DieKeeps DEF StopServer, LeaderInv, ReplicaTypes
  <2>2. CASE srv[r] = "serving" /\ Set(srv, r, "stopped")
             /\ Set(sock, r, FALSE) /\ UNCHANGED <<lease, st>>
    BY <1>7, <2>2 DEF StopServer, LeaderInv, ReplicaTypes, Leads
  <2> QED BY <1>7, <2>1, <2>2 DEF StopServer
<1>8. ASSUME NEW r \in Replicas, Exit(r) PROVE LeaderInv'
  BY <1>8, DieKeeps DEF Exit, LeaderInv, ReplicaTypes
<1>9. ASSUME NEW r \in Replicas, Cancel(r) PROVE LeaderInv'
  BY <1>9, FaultTypes DEF Cancel, LeaderInv, ReplicaTypes, Leads
<1>10. ASSUME NEW r \in Replicas, Kill(r) PROVE LeaderInv'
  BY <1>10, DieKeeps, FaultTypes DEF Kill, LeaderInv, ReplicaTypes
<1>11. CASE Expire
  <2>1. \A q \in Replicas : ~Leads(q)
    BY <1>11, ProcessAssumption DEF Expire, LeaderInv, ReplicaTypes, Leads
  <2> QED BY <1>11, <2>1 DEF Expire, LeaderInv, ReplicaTypes, Leads
<1>12. CASE LabelWork \/ (Relabel /\ UNCHANGED processVars)
  <2>1. UNCHANGED processVars /\ faults' \in 0..MaxFaults
    BY <1>12, LabelsFaults DEF LabelWork, Working, LeaderInv, ReplicaTypes
  <2> QED BY <2>1 DEF processVars, LeaderInv, ReplicaTypes, Leads
<1>13. CASE UNCHANGED vars
  BY <1>13 DEF vars, processVars, LeaderInv, ReplicaTypes, Leads
<1> QED
  BY <1>1, <1>2, <1>3, <1>4, <1>5, <1>6, <1>7, <1>8, <1>9, <1>10, <1>11,
     <1>12, <1>13 DEF ProcessNext, Process

(* One replica at a time accepts CreateVolume and DeleteVolume, the one    *)
(* that holds the lease, however many replicas there are and whenever they *)
(* are cancelled or killed.                                                *)
THEOREM LeaderAcceptsAlways == ProcessSpec => []LeaderAccepts
<1>1. LeaderInv => LeaderAccepts
  BY DEF LeaderInv, ReplicaTypes, Leads, LeaderAccepts, Accepts
<1> QED BY <1>1, ReplicaInit, LeaderStep, PTL DEF ProcessSpec

-----------------------------------------------------------------------------
LEMMA NodeTypes ==
    /\ NoNodeObject \in Node
    /\ \A j \in Jobs, o \in Node : Apply(j, o) \in Node
    /\ \A o \in Node : Decision(o) \in Jobs \ {"idle"}
BY DEF Node, NoNodeObject, Apply, labelController, Decision, Jobs

(* The versions of the node only grow. *)
LEMMA AppendTypes ==
    ASSUME LabelsTypeOK, NEW o \in Node, nlog' = Append(nlog, o)
    PROVE  nlog' \in Seq(Node) /\ Len(nlog') > 0 /\ nseen \in 1..Len(nlog')
BY DEF LabelsTypeOK

LEMMA CachedType == LabelsTypeOK => Cached \in Node /\ Current \in Node
BY DEF LabelsTypeOK, Cached, Current

LEMMA DoneTypes ==
    ASSUME Done PROVE job' \in Jobs /\ tries' \in 0..Steps
BY LabelsAssumption DEF Done, Jobs

LEMMA LabelsTypeInit == LabelsInit => LabelsTypeOK
<1> SUFFICES ASSUME LabelsInit PROVE LabelsTypeOK
  OBVIOUS
<1>1. PICK f \in BOOLEAN :
          nlog = <<[phase |-> "live", filter |-> f, csi |-> "none"]>>
  BY DEF LabelsInit
<1>2. [phase |-> "live", filter |-> f, csi |-> "none"] \in Node
  BY DEF Node
<1>3. nlog \in Seq(Node) /\ Len(nlog) = 1
  BY <1>1, <1>2
<1>4. nqueue \in BOOLEAN /\ dropped \in BOOLEAN
  BY Zenon DEF LabelsInit
<1>5. /\ nseen \in 1..Len(nlog) /\ job \in Jobs /\ tries \in 0..Steps
      /\ faults \in 0..MaxFaults
  BY <1>3, LabelsAssumption DEF LabelsInit, Jobs
<1> QED BY <1>3, <1>4, <1>5 DEF LabelsTypeOK

LEMMA LabelsTypeStep ==
    ASSUME LabelsTypeOK,
           Relabel \/ WatchEvent \/ Resync \/ Reconcile \/ updateNode
    PROVE  LabelsTypeOK'
<1>1. CASE Relabel
  BY <1>1, AppendTypes DEF Relabel, LabelsTypeOK
<1>2. CASE WatchEvent
  BY <1>2 DEF WatchEvent, LabelsTypeOK
<1>3. CASE Resync
  BY <1>3 DEF Resync, LabelsTypeOK
<1>4. CASE Reconcile
  <2>1. job' \in Jobs
    BY <1>4, CachedType, NodeTypes DEF Reconcile
  <2>2. tries' \in 0..Steps
    BY <1>4, LabelsAssumption DEF Reconcile
  <2> QED BY <1>4, <2>1, <2>2 DEF Reconcile, LabelsTypeOK
<1>5. CASE updateNode
  <2>1. nlog' \in Seq(Node) /\ Len(nlog') > 0 /\ nseen' \in 1..Len(nlog')
    <3>1. Apply(job, Cached) \in Node
      BY CachedType, NodeTypes DEF LabelsTypeOK
    <3>2. CASE nlog' = nlog
      BY <1>5, <3>2 DEF updateNode, LabelsTypeOK
    <3>3. CASE nlog' = Append(nlog, Apply(job, Cached))
      BY <1>5, <3>1, <3>3, AppendTypes DEF updateNode
    <3> QED BY <1>5, <3>2, <3>3, Zenon DEF updateNode
  <2>2. job' \in Jobs /\ tries' \in 0..Steps
    <3>1. CASE Done
      BY <3>1, DoneTypes
    <3>2. CASE Conflict /\ ~Done
      BY <3>2, LabelsAssumption DEF Conflict, LabelsTypeOK
    <3> QED BY <1>5, <3>1, <3>2 DEF updateNode
  <2>3. faults' \in 0..MaxFaults
    BY <1>5, LabelsFaults DEF LabelsTypeOK
  <2> QED BY <1>5, <2>1, <2>2, <2>3 DEF updateNode, LabelsTypeOK
<1> QED BY <1>1, <1>2, <1>3, <1>4, <1>5, Zenon

(* What the processes do to the label controller: start it anew, cut it    *)
(* off, or leave it alone.                                                 *)
LEMMA ProcessLabels ==
    ASSUME LabelsTypeOK, NEW r \in Replicas,
           Process(r) \/ Elect(r) \/ Cancel(r) \/ Kill(r)
    PROVE  LabelsTypeOK'
<1>1. faults' \in 0..MaxFaults
  BY FaultTypes
     DEF Process, StartProcess, Sync, StartRunner, Listen, Serve, StopServer,
         Exit, Elect, Cancel, Kill, LabelsTypeOK
<1>2. CASE StartLabels
  <2>1. nqueue' \in BOOLEAN /\ dropped' \in BOOLEAN
    BY <1>2, Zenon DEF StartLabels, Exists
  <2>2. nseen' \in 1..Len(nlog) /\ nlog' = nlog /\ Len(nlog) > 0
    BY <1>2 DEF StartLabels, LabelsTypeOK
  <2>3. job' \in Jobs /\ tries' \in 0..Steps
    BY <1>2, DoneTypes DEF StartLabels
  <2> QED BY <1>1, <2>1, <2>2, <2>3 DEF LabelsTypeOK
<1>3. CASE UNCHANGED labelsVars
  BY <1>1, <1>3 DEF labelsVars, LabelsTypeOK
<1>4. CASE Die(r)
  <2>1. UNCHANGED <<nlog, nseen, nqueue, dropped>>
    BY <1>4 DEF Die
  <2>2. job' \in Jobs /\ tries' \in 0..Steps
    BY <1>4, DoneTypes DEF Die, LabelsTypeOK
  <2> QED BY <1>1, <2>1, <2>2 DEF LabelsTypeOK
<1> QED
  BY <1>2, <1>3, <1>4
     DEF Process, StartProcess, Sync, StartRunner, Listen, Serve, StopServer,
         Exit, Elect, Cancel, Kill, labelsVars

LEMMA LabelsTypeNext == LabelsTypeOK /\ [ProcessNext]_vars => LabelsTypeOK'
<1> SUFFICES ASSUME LabelsTypeOK, [ProcessNext]_vars PROVE LabelsTypeOK'
  OBVIOUS
<1>1. CASE \E r \in Replicas : Process(r) \/ Elect(r) \/ Cancel(r) \/ Kill(r)
  BY <1>1, ProcessLabels
<1>2. CASE Expire
  BY <1>2 DEF Expire, labelsVars, LabelsTypeOK
<1>3. CASE LabelWork \/ (Relabel /\ UNCHANGED processVars)
  BY <1>3, LabelsTypeStep DEF LabelWork, Working
<1>4. CASE UNCHANGED vars
  BY <1>4 DEF vars, labelsVars, LabelsTypeOK
<1> QED BY <1>1, <1>2, <1>3, <1>4 DEF ProcessNext

(* Types of the replicas, of the node's versions and of the label job; in  *)
(* particular updateNode never has more attempts left than it was given,   *)
(* and a process that is not elected has no server.                        *)
THEOREM ProcessTypeCorrect == ProcessSpec => []ProcessTypeOK
<1>1. ProcessInit => LeaderInv /\ LabelsTypeOK
  BY ReplicaInit, LabelsTypeInit DEF ProcessInit
<1>2. LeaderInv /\ LabelsTypeOK => ProcessTypeOK
  BY DEF LeaderInv, ReplicaTypes, ProcessTypeOK
<1> QED BY <1>1, <1>2, LeaderStep, LabelsTypeNext, PTL DEF ProcessSpec
-----------------------------------------------------------------------------
(* Why QuietIsRight holds.  Without foreign writers the csi label is right *)
(* or absent.  While no new request has come in, the cache is where it was *)
(* when Reconcile decided, whoever leads: what updateNode is about to do   *)
(* fits the version in the cache, and if that is not the current one, or   *)
(* if a write makes a new one, an event is still to come.  A replica that  *)
(* begins to lead lists the node, and so has a request for it.             *)
NoForeign == \A i \in 1..Len(nlog) : nlog[i].csi # "other"

DecisionStands == ~nqueue /\ job # "idle" => job = Decision(Cached)

Quiet == ~nqueue /\ job = "idle" /\ UpToDate /\ ~dropped

QuietInv == NoForeign /\ DecisionStands /\ (Leading /\ Quiet => Labelled)

(* A decision that changes nothing was made on a node that is right. *)
LEMMA KeepIsRight ==
    ASSUME NEW o \in Node, o.csi # "other", o.phase = "live",
           Apply(labelController(o), o) = o
    PROVE  o.filter <=> o.csi = "ours"
BY DEF Node, Apply, labelController

LEMMA ApplyNotForeign ==
    ASSUME NEW o \in Node, NEW j \in Jobs, o.csi # "other"
    PROVE  Apply(j, o).csi # "other"
BY DEF Node, Apply, Jobs

LEMMA AppendNotForeign ==
    ASSUME LabelsTypeOK, NoForeign, NEW o \in Node, o.csi # "other",
           nlog' = Append(nlog, o)
    PROVE  NoForeign'
BY DEF LabelsTypeOK, NoForeign

(* A new version is one the cache has not seen. *)
LEMMA AppendNotQuiet ==
    ASSUME LabelsTypeOK, NEW o \in Node, nlog' = Append(nlog, o),
           nseen' = nseen
    PROVE  ~UpToDate' /\ Cached' = Cached
BY DEF LabelsTypeOK, UpToDate, Cached

LEMMA CachedNotForeign ==
    LabelsTypeOK /\ NoForeign => Cached.csi # "other" /\ Current.csi # "other"
BY DEF LabelsTypeOK, NoForeign, Cached, Current

LEMMA QuietRelabel ==
    ASSUME Foreign = FALSE, LabelsTypeOK, QuietInv, Relabel,
           UNCHANGED processVars
    PROVE  QuietInv'
<1>1. PICK o \in Node :
          /\ o.csi # Current.csi => Foreign \/ (~Exists(o) /\ o.csi = "none")
          /\ nlog' = Append(nlog, o)
  BY DEF Relabel
<1>2. o.csi # "other"
  BY <1>1, CachedNotForeign DEF QuietInv
<1>3. NoForeign'
  BY <1>1, <1>2, AppendNotForeign DEF QuietInv
<1>4. ~UpToDate' /\ Cached' = Cached
  BY <1>1, AppendNotQuiet DEF Relabel
<1> QED BY <1>3, <1>4
  DEF QuietInv, Relabel, DecisionStands, Quiet

LEMMA QuietUpdate ==
    ASSUME LabelsTypeOK, QuietInv, updateNode, UNCHANGED processVars
    PROVE  QuietInv'
<1>1. nseen' = nseen /\ nqueue' = nqueue /\ job # "idle"
  BY DEF updateNode
<1>2. CASE nlog' = nlog
  <2>1. NoForeign' /\ Cached' = Cached /\ (UpToDate' <=> UpToDate)
        /\ (Labelled' <=> Labelled)
    BY <1>1, <1>2 DEF QuietInv, NoForeign, Cached, UpToDate, Labelled, Current
  <2>2. CASE job' = job
    BY <1>1, <2>1, <2>2 DEF QuietInv, DecisionStands, Quiet
  <2>3. CASE job' = "idle"
    <3>1. ASSUME ~nqueue, UpToDate, ~dropped' PROVE Labelled
      <4>1. Cached = Current /\ Cached \in Node /\ Cached.csi # "other"
        BY <3>1, CachedType, CachedNotForeign
           DEF UpToDate, Cached, Current, QuietInv
      <4>2. job = Decision(Cached)
        BY <1>1, <3>1 DEF QuietInv, DecisionStands
      <4>3. CASE Cached.phase # "live"
        BY <4>1, <4>3 DEF Labelled
      <4>4. CASE Cached.phase = "live" /\ Apply(job, Cached) = Cached
        BY <4>1, <4>2, <4>4, KeepIsRight DEF Labelled, Decision
      <4>5. CASE Cached.phase = "live" /\ Apply(job, Cached) # Cached
        <5>1. nlog' = Append(nlog, Apply(job, Cached))
          BY <3>1, <4>1, <4>5 DEF updateNode, Exists
        <5>2. Len(nlog') = Len(nlog) + 1
          BY <5>1 DEF LabelsTypeOK
        <5> QED BY <1>2, <5>2 DEF LabelsTypeOK
      <4> QED BY <4>3, <4>4, <4>5
    <3> QED BY <1>1, <2>1, <2>3, <3>1 DEF QuietInv, DecisionStands, Quiet
  <2> QED BY <2>2, <2>3 DEF updateNode, Done, Conflict
<1>3. CASE nlog' = Append(nlog, Apply(job, Cached)) /\ Done
  <2>1. Apply(job, Cached) \in Node /\ Apply(job, Cached).csi # "other"
    BY CachedType, CachedNotForeign, NodeTypes, ApplyNotForeign
       DEF LabelsTypeOK, QuietInv
  <2>2. NoForeign' /\ ~UpToDate'
    BY <1>1, <1>3, <2>1, AppendNotForeign, AppendNotQuiet DEF QuietInv
  <2> QED BY <1>3, <2>2 DEF QuietInv, DecisionStands, Quiet, Done
<1> QED BY <1>2, <1>3, Zenon DEF updateNode

LEMMA QuietReconcile ==
    ASSUME LabelsTypeOK, QuietInv, WatchEvent \/ Resync \/ Reconcile
    PROVE  QuietInv'
<1>1. nlog' = nlog /\ NoForeign'
  BY DEF WatchEvent, Resync, Reconcile, QuietInv, NoForeign
<1>2. CASE nqueue'
  BY <1>1, <1>2 DEF QuietInv, DecisionStands, Quiet
<1>3. CASE Reconcile
  <2>1. Cached' = Cached /\ job' = Decision(Cached)
    BY <1>3 DEF Reconcile, Cached
  <2>2. job' # "idle"
    BY <2>1, CachedType, NodeTypes
  <2> QED BY <1>1, <2>1, <2>2 DEF QuietInv, DecisionStands, Quiet
<1> QED BY <1>2, <1>3 DEF WatchEvent, Resync

(* A replica that leads has led before, or lists the node now. *)
LEMMA QuietProcess ==
    ASSUME LabelsTypeOK, ReplicaTypes, QuietInv, NEW r \in Replicas,
           Process(r) \/ Elect(r) \/ Cancel(r) \/ Kill(r)
    PROVE  QuietInv'
<1>1. nlog' = nlog /\ NoForeign'
  BY DEF Process, StartProcess, Sync, StartRunner, Listen, Serve, StopServer,
         Exit, Elect, Cancel, Kill, Die, StartLabels, labelsVars, QuietInv,
         NoForeign
<1>2. CASE Sync(r)
  <2>1. job' = "idle" /\ (~nqueue' => Labelled')
    BY <1>1, <1>2
       DEF Sync, StartLabels, Done, Labelled, Current, Exists
  <2> QED BY <1>1, <2>1 DEF QuietInv, DecisionStands, Quiet
<1>3. ASSUME UNCHANGED <<nlog, nseen, nqueue, dropped>>,
             job' = "idle" \/ job' = job,
             Leading' => Leading /\ job' = job
      PROVE  QuietInv'
  <2>1. Cached' = Cached /\ (UpToDate' <=> UpToDate)
        /\ (Labelled' <=> Labelled)
    BY <1>3 DEF Cached, UpToDate, Labelled, Current
  <2> QED BY <1>1, <1>3, <2>1 DEF QuietInv, DecisionStands, Quiet
<1>4. CASE Die(r)
  <2>1. Leading' => Leading /\ lease # r
    BY <1>4, ProcessAssumption DEF Die, Set, Leading, ReplicaTypes
  <2> QED BY <1>3, <1>4, <2>1 DEF Die, Done
<1>5. ASSUME UNCHANGED labelsVars,
             \/ UNCHANGED <<lease, st>>
             \/ UNCHANGED lease /\ \E s \in {"candidate", "stopping"} : Set(st, r, s)
             \/ lease' = r /\ Set(st, r, "elected")
      PROVE  QuietInv'
  <2>1. Leading' => Leading
    BY <1>5 DEF Set, Leading, ReplicaTypes
  <2> QED BY <1>3, <1>5, <2>1 DEF labelsVars
<1> QED
  BY <1>2, <1>4, <1>5
     DEF Process, StartProcess, StartRunner, Listen, Serve, StopServer, Exit,
         Elect, Cancel, Kill

LEMMA QuietStep ==
    ASSUME Foreign = FALSE
    PROVE  LeaderInv /\ LabelsTypeOK /\ QuietInv /\ [ProcessNext]_vars
               => QuietInv'
<1> SUFFICES ASSUME LeaderInv, LabelsTypeOK, QuietInv, [ProcessNext]_vars
             PROVE  QuietInv'
  OBVIOUS
<1>1. CASE \E r \in Replicas : Process(r) \/ Elect(r) \/ Cancel(r) \/ Kill(r)
  BY <1>1, QuietProcess DEF LeaderInv
<1>2. CASE LabelWork
  BY <1>2, QuietUpdate, QuietReconcile DEF LabelWork, Working
<1>3. CASE Relabel /\ UNCHANGED processVars
  BY <1>3, QuietRelabel
<1>4. CASE Expire \/ UNCHANGED vars
  <2>1. UNCHANGED labelsVars /\ (Leading' => Leading)
    BY <1>4 DEF Expire, vars, processVars, Leading
  <2> QED BY <2>1 DEF labelsVars, QuietInv, NoForeign, DecisionStands, Cached,
                      Quiet, UpToDate, Labelled, Current
<1> QED BY <1>1, <1>2, <1>3, <1>4 DEF ProcessNext

(* When only this controller writes the csi label, a live node that the    *)
(* running leader is not working on, and whose last update did not fail,   *)
(* carries the label exactly if it carries the filter label, however stale *)
(* the reads were, however many conflicts were given up and whenever       *)
(* replicas were cancelled or killed: for any history of the node, any     *)
(* number of replicas, attempts and faults.                                *)
THEOREM QuietIsRightAlways ==
    ASSUME Foreign = FALSE PROVE ProcessSpec => []QuietIsRight
<1>1. ProcessInit => LeaderInv /\ LabelsTypeOK /\ QuietInv
  <2>1. ProcessInit => QuietInv
    BY DEF ProcessInit, LabelsInit, QuietInv, NoForeign, DecisionStands, Quiet
  <2> QED BY <2>1, ReplicaInit, LabelsTypeInit DEF ProcessInit
<1>2. QuietInv => QuietIsRight
  BY DEF QuietInv, Quiet, QuietIsRight
<1> QED BY <1>1, <1>2, LeaderStep, LabelsTypeNext, QuietStep, PTL
        DEF ProcessSpec
=============================================================================
