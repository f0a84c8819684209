------------------------- MODULE ControllerProcess --------------------------
(***************************************************************************)
(* The replicas of the controller (cmd/commands/csicontrol.go and          *)
(* utils/server.go): each process waits to be elected, lets its caches     *)
(* fill, and then starts the controllers (here the one of NodeLabels) and, *)
(* in a goroutine of its own, the gRPC server behind CreateVolume.         *)
(*                                                                         *)
(* External: controller-runtime's manager and leader election, the kubelet *)
(* and its containers.  A socket file outlives the process that made it.   *)
(***************************************************************************)
EXTENDS NodeLabels

CONSTANTS
    Replicas,   \* the controller's pods
    NoReplica   \* nobody

ASSUME ProcessAssumption == NoReplica \notin Replicas

VARIABLES
    lease,      \* who holds the lease, by the API server
    st,         \* st[r]: how far the process of replica r is
    srv,        \* srv[r]: the goroutine of nonBlockingGRPCServer.serve
    sock        \* sock[r]: is there a socket file in r's pod?

processVars == <<lease, st, srv, sock>>
vars == <<labelsVars, faults, processVars>>

ProcessTypeOK ==
    /\ LabelsTypeOK
    /\ lease \in Replicas \cup {NoReplica}
    /\ st \in [Replicas ->
                 {"down", "candidate", "elected", "running", "stopping"}]
    /\ srv \in [Replicas ->
                  {"none", "starting", "listening", "serving", "stopped"}]
    /\ sock \in [Replicas -> BOOLEAN]
    /\ \A r \in Replicas : st[r] \in {"down", "candidate", "elected"} =>
          srv[r] = "none"

ProcessInit ==
    /\ LabelsInit
    /\ lease = NoReplica
    /\ st = [r \in Replicas |-> "down"]
    /\ srv = [r \in Replicas |-> "none"]
    /\ sock = [r \in Replicas |-> FALSE]

Set(f, r, v) == f' = [f EXCEPT ![r] = v]

(* The process ends, with its controller and its server. *)
Die(r) ==
    /\ Set(st, r, "down") /\ Set(srv, r, "none")
    /\ IF lease = r THEN Done ELSE UNCHANGED <<job, tries>>
    /\ UNCHANGED <<nlog, nseen, nqueue, dropped, lease>>

-----------------------------------------------------------------------------
(* NewControllerCmd up to mgr.Start.  (External: the kubelet starts what   *)
(* has ended.)                                                             *)
StartProcess(r) ==
    /\ st[r] = "down"
    /\ Set(st, r, "candidate")
    /\ UNCHANGED <<labelsVars, faults, lease, srv, sock>>

(* External: leader election.  A holder that fails to renew its lease in   *)
(* time, or ends, stops its server before the lease runs out: client-go's  *)
(* deadline for renewing is shorter than the lease.                        *)
Elect(r) ==
    /\ st[r] = "candidate" /\ lease = NoReplica
    /\ lease' = r /\ Set(st, r, "elected")
    /\ UNCHANGED <<labelsVars, faults, srv, sock>>

Expire ==
    /\ lease # NoReplica
    /\ st[lease] \notin {"elected", "running"}
    /\ srv[lease] \in {"none", "stopped"}
    /\ lease' = NoReplica
    /\ UNCHANGED <<labelsVars, faults, st, srv, sock>>

(* External: the caches are filled and the manager starts its runnables:   *)
(* the controllers, and the Runner if it asks for it.                      *)
Sync(r) ==
    /\ st[r] = "elected"
    /\ Set(st, r, "running")
    /\ StartLabels
    /\ UNCHANGED <<faults, lease, srv, sock>>

(* Mutant: the controller's Runner is made like the node's. *)
NeedLeaderElectionNot == FALSE

NeedLeaderElection == TRUE

(* Runner.Start returns at once; serve runs in a goroutine. *)
StartRunner(r) ==
    /\ srv[r] = "none"
    /\ st[r] \in IF NeedLeaderElection
                 THEN {"running"} ELSE {"candidate", "elected", "running"}
    /\ Set(srv, r, "starting")
    /\ UNCHANGED <<labelsVars, faults, lease, st, sock>>

(* Mutant: a socket file that is left over is not removed. *)
ListenOnce(r) ==
    /\ srv[r] = "starting"
    /\ IF sock[r]
       THEN Die(r) /\ UNCHANGED sock
       ELSE /\ Set(sock, r, TRUE) /\ Set(srv, r, "listening")
            /\ UNCHANGED <<labelsVars, lease, st>>
    /\ UNCHANGED faults

(* serve: the socket file of an earlier process is removed first; failures *)
(* are fatal, with the file removed or, if that is what failed, not.       *)
Listen(r) ==
    /\ srv[r] = "starting"
    /\ \/ /\ Set(sock, r, TRUE) /\ Set(srv, r, "listening")
          /\ UNCHANGED <<labelsVars, faults, lease, st>>
       \/ Fault /\ Die(r) /\ \E left \in {FALSE, sock[r]} : Set(sock, r, left)

Serve(r) ==
    /\ srv[r] = "listening"
    /\ Set(srv, r, "serving")
    /\ UNCHANGED <<labelsVars, faults, lease, st, sock>>

(* External: a signal, or a lease that could not be renewed, cancels the   *)
(* context.                                                                *)
Cancel(r) ==
    /\ Fault
    /\ st[r] \in {"candidate", "elected", "running"}
    /\ Set(st, r, "stopping")
    /\ UNCHANGED <<labelsVars, lease, srv, sock>>

(* The goroutine of Runner.Start calls Stop: GracefulStop closes the       *)
(* socket, which removes its file; without a server it is a nil pointer.   *)
StopServer(r) ==
    /\ st[r] = "stopping"
    /\ \/ /\ srv[r] = "serving"
          /\ Set(srv, r, "stopped") /\ Set(sock, r, FALSE)
          /\ UNCHANGED <<labelsVars, lease, st>>
       \/ /\ srv[r] \in {"starting", "listening"}
          /\ Die(r) /\ UNCHANGED sock
    /\ UNCHANGED faults

(* The manager waits for the controllers only, and not for long: the       *)
(* process ends whether or not the server has stopped and whatever its     *)
(* handlers are doing.                                                     *)
Exit(r) ==
    /\ st[r] = "stopping"
    /\ Die(r)
    /\ UNCHANGED <<faults, sock>>

Kill(r) ==
    /\ Fault
    /\ st[r] # "down"
    /\ Die(r)
    /\ UNCHANGED sock

Process(r) ==
    \/ StartProcess(r) \/ Sync(r) \/ StartRunner(r) \/ Listen(r) \/ Serve(r)
    \/ StopServer(r) \/ Exit(r)

(* The leader's controller; an update that has begun may still be made     *)
(* while the process shuts down.                                           *)
Working(A, states) == /\ lease # NoReplica /\ st[lease] \in states
                      /\ A /\ UNCHANGED processVars

LabelWork == \/ Working(WatchEvent \/ Resync \/ Reconcile, {"running"})
             \/ Working(updateNode, {"running", "stopping"})

ProcessNext ==
    \/ \E r \in Replicas : Process(r) \/ Elect(r) \/ Cancel(r) \/ Kill(r)
    \/ Expire
    \/ LabelWork
    \/ Relabel /\ UNCHANGED processVars

ProcessSpec == ProcessInit /\ [][ProcessNext]_vars

(* The kubelet restarts, the lease expires, and a process that was started *)
(* goes on; client-go delivers, the worker works, the resync timer fires.  *)
ProcessFairness ==
    /\ \A r \in Replicas : WF_vars(Process(r))
    /\ WF_vars(\E r \in Replicas : Elect(r))
    /\ WF_vars(Expire)
    /\ WF_vars(Working(WatchEvent, {"running"}))
    /\ WF_vars(Working(Resync, {"running"}))
    /\ WF_vars(Working(Reconcile, {"running"}))
    /\ WF_vars(Working(updateNode, {"running"}))

FairProcessSpec == ProcessSpec /\ ProcessFairness

-----------------------------------------------------------------------------
Accepts(r) == srv[r] = "serving"

(* CreateVolume and DeleteVolume reach one replica at a time, the holder   *)
(* of the lease, and that one's caches were filled: a process that has     *)
(* lost its leadership or is shutting down stops before another starts.    *)
LeaderAccepts ==
    \A r \in Replicas :
        Accepts(r) => lease = r /\ st[r] \in {"running", "stopping"}

Leading == lease # NoReplica /\ st[lease] = "running"

(* Under a leader that runs, a node nobody is working on is labelled right *)
(* unless the last update failed and the error was dropped: every stale    *)
(* decision, every conflict that was given up and whatever an earlier      *)
(* leader left half done leaves an event or a request behind that puts it  *)
(* right, without the resync timer.                                        *)
QuietIsRight ==
    Leading /\ UpToDate /\ ~nqueue /\ job = "idle" /\ ~dropped => Labelled

(* Across failed updates and failovers at any step the csi label follows   *)
(* the filter label in the end.                                            *)
LabelsConverge == <>[]Labelled

(* When a node keeps the filter label, CreateVolume works again after any  *)
(* failover: a replica accepts requests, whatever its predecessors left in *)
(* its pod, and finds a node in its cache that carries the csi label.      *)
VolumesCanBeCreated ==
    <>[](Current.phase = "live" /\ Current.filter)
        => <>[](LabledNode(Cached) /\ \E r \in Replicas : Accepts(r))
=============================================================================
