# csi-alcub in TLA+

csi-alcub is a Kubernetes CSI driver for rbd images that a storage service
("alcub") connects to nodes. This directory models the driver's own Go code
(`pkg/`, `utils/`, `cmd/`), checks the models with TLC and proves the central
results with TLAPS. Vendored code is not modelled; what the driver uses of it
appears as external actions.

## The system

The *controller* runs as several replicas, of which one leads; one *node plugin*
runs per node. Every process runs an `AlcubCon`, the client of the `CsiAlcub` custom
resource that records, for each volume, its uuid, its capacity, the node that
uses it (`status.node`), an earlier user (`status.prenode`) and the storage
address of the user. There is no other shared state, no lock and no journal.

| component | state | operations | talks to |
|---|---|---|---|
| `CsiAlcub` resource (`pkg/api`) | the object, its phase and status | – | stored by the API server |
| `AlcubCon` (`pkg/manager`) | `uuidname` map, `nodes` table, informer cache | `Create`, `Delete`, `Update`, `GetByUuid`, `GetByName`, `GetNodeInfo`, `Reconcile` | API server (optimistic concurrency), informer events |
| node service (`pkg/noderpc`) | none of its own; handlers in flight, mounts, devices | `NodePublishVolume`, `NodeUnpublishVolume` | `AlcubCon`, storage client, kernel |
| controller service (`pkg/controlrpc`) | handlers in flight | `CreateVolume`, `DeleteVolume` | `AlcubCon`, `pkg/rbd` |
| node label controller (`nodeManage.go`) | informer cache of nodes | `Reconcile`, `labelController`, `updateNode`, `LabledNodes` | API server |
| rbd images (`pkg/rbd`) | address of the cluster's DNS; the images | `CreateImage`, `DeleteImage`, `parseParameters`, `parsePVSecret` | storage class, secret, `rbd` command |
| storage client (`pkg/store`) | address of the service, kept in a slice without a lock | `do`, `DoConn`, `DoDisConn`, `GetImageStatus`, `GetNode` | `rados` command, storage service over HTTP |
| buffer pool (`utils/buf.go`) | free buffers | `GetBuf`, `PutBuf` | every request of the storage client |
| process and gRPC server (`cmd`, `utils/server.go`) | lease, server goroutine, socket file | start, election, `serve`, `Stop` | controller-runtime, kubelet |

What is hard in it:

- **Stale reads.** `Get` reads the informer cache. `Reconcile`, `preUnmountValid`,
  `GetByUuid` and `DeleteVolume` decide on what may be an old version; `Update`
  reads the cache a second time and writes back a whole object. The address of the
  storage service is kept for ever; the pool of an image is worked out anew from a
  storage class that may have been replaced.
- **Several writers.** Any process may remove the finalizer of a deleted record
  while a node is about to record itself as the user; handlers of one plugin
  write the cached address and share the buffers.
- **No atomicity across systems.** Attach, mount and record are separate calls,
  and so are image and record. A crash, an error or a timeout can fall between any two.
- **Retries.** The callers repeat a call that failed or timed out, while the
  first handler may still run (handlers ignore the request's deadline).
- **Dropped errors.** `Reconcile` of both controllers logs and drops the error of
  its update and asks for no retry.
- **Failover.** A replica starts with empty maps, next to a socket file its
  predecessor may have left; the server starts and stops in goroutines nobody
  waits for.

The properties that make each part correct: the record is one register whose
deletion is final and waits for its user (`AlcubCon`); a published pod has a
connected, mounted and recorded volume, and a finished teardown leaves nothing
behind (node service); an answered `CreateVolume` has record and image, a record
never outlives its image by a wrong order of deletion, an answered
`DeleteVolume` is one (controller); between the two, no device outlives its image;
rbd is told what the storage class says (rbd); a request goes to one whole address
and its success means that it happened (storage client); one replica serves, and the
csi label follows the filter label, across failovers (process, label controller); and
calls that are repeated succeed in the end.

## Modules

- `CsiAlcub` – the resource's types. `vi` stands for `volumeInfo` and `zone`,
  which are always written together: the node whose data they hold.
- `VolumeRecord` – abstract specification: one register that is provisioned under
  a fresh uuid, whose status may be rewritten, whose deletion is requested once,
  and which goes away only then and only without a user.
- `AlcubManager` – `pkg/manager`, one volume name, any number of processes. The API
  server is `log`, the sequence of versions of the object (the position is the
  resourceVersion); a cache is a position in it (`seen`). `Create` is three steps
  (map the uuid, stored by the server, answer), since a watch event and `Reconcile`
  may come in between; `Delete`, `Update` and `Reconcile` are one step each, as each
  makes one request. `GetNodeInfo` returns what `Nodeinfo.DeepCopy` makes of an entry of
  the node table, which is an empty address; nothing calls it, so the properties of the
  table speak of what it holds. `ClientNext` is the most general client. Refines
  `VolumeRecord`.
- `NodeRpc` – `pkg/noderpc`. A handler is a record in `call[n][s]` with a program
  counter and the status it read at its beginning (`snap`, the Go variable `alcub`);
  one action per external call it makes.
- `ControlRpc` – `CreateVolume` and `DeleteVolume`, likewise. Images carry the uuid of
  the call that made them, which only the properties read.
- `System` – `NodeRpc` and `ControlRpc` as instances over one record, one image and one
  storage service. Each replaces what the other has as an external party: the watchers
  of the image are the connected nodes (`Use`), pods are placed for volumes that
  `CreateVolume` answered for, connecting fails without an image.
- `StoreService` – abstract specification of the storage client: a call has at most one
  effect, between its start and its end, and a connect that reports success had it.
- `StoreClient` – `pkg/store` with the buffer pool of `utils/buf.go`. The slice with the
  address is two words, written one after the other in either order; a read in between
  finds a whole address, a mixture (`Junk`) or no memory at all, which ends the process.
  Refines `StoreService`.
- `RbdImages` – `pkg/rbd`: storage class and secret are sets of entries, visited in any
  order, read again at every call. An `rbd` command that times out fails, and may have
  taken effect. Sizes, watchers and the clean-up are in `ControlRpc`.
- `NodeLabels` – the label controller for one node, which may be terminating, when it is
  left alone, or absent: decision and write are two steps, a conflict is tried again from
  a new read, `Steps` times. `dropped` is auxiliary: it tells whether the last update failed
  with an error that was dropped. Only actions; the specification is in
- `ControllerProcess` – `cmd/commands/csicontrol.go` and `utils/server.go`: the replicas,
  from start over election, cache synchronisation, runnables and socket to shutdown,
  with the label controller of whichever replica leads.
- `MC*` – instances for TLC. `*Proofs` – theorems and proofs; `ControlSafetyProofs`
  continues `ControlRpcProofs`, and `SystemProofs` builds on it and on `NodeRpcProofs`.

`NodeRpc` and `ControlRpc` extend `AlcubManager`, use its operations as they are,
and implement its specification (`ImplementsManager`): what is shown of the general
client holds of both.

The external parties (orchestrator, provisioner, storage service, Ceph, kernel) do
the regular thing by default. What they may do beyond that is named in the constants
`Hazards` (and `Foreign`, `PoolChange`), so that each run states which faults a property
survives. Failed calls without effect, status writes of a node whose answer is lost, and
restarts of a node plugin are always possible. A restart between a committed write and the
handler's answer leaves the caller where a lost answer does.

## Runs

| run | shows | instance |
|---|---|---|
| `ManagerSafety` | `ImplementsVolumeRecord`, `NoRevival`, `KnownUuidsSubmitted`, `NodeInfoReported` under the most general client | 2 processes, 2 uuids (two incarnations), 4 writes, 1 fault |
| `NodeOverlap` | two nodes at once, takeovers, timeouts, lost answers: `PrenodeWasUser`, `NodeInfoRight`, `ImplementsManager` | controller + 2 nodes, 2 pods, 3 writes, 1 fault |
| `NodeOrderly` | pods on one node at a time: `InUseRecorded`, `TornDownClean`, `OneNodeConnected`, also with the volume deleted in use, aborts and a storage service that refuses a repeated disconnect | 2 pods one after the other, 1 fault |
| `ControlCreate` | `AckedDurable`, `LiveHasImage`, `ImageGoneFirst`, `ImplementsManager` with overlapping `CreateVolume`s, failover, rbd timeouts, deletion in use | 2 handlers, sizes 0, 1 and 3 with MiB = 2, 3 faults |
| `ControlDelete` | `DeletedIsGone` with overlapping `DeleteVolume`s; `CreateCompletes`: repeated `CreateVolume`s get through, or an image without a record is left for good, which takes two failures | 2 handlers, 3 uuids, 3 faults |
| `SystemLiveness` | both services together: `PodHasItsVolume`, `DeviceHasImage`; and that repeated calls get through: `PodStarts`, `PodStops`, `DeleteCompletes`, with `ReleasedIsRemoved` and `UuidLearned` of the record below them | 1 node, 1 pod, 1 uuid, 1 handler in each service, 2 faults; lost answers, deletion in use, `DeleteVolume`s that outlive their caller, disconnects that are not performed |
| `StoreClient` | `SendsWholeUrl`, `ImplementsService`, `RequestsSucceed` | 2 requests at once, 2 buffers, 2 addresses of different length, 1 move, 1 fault |
| `RbdImages` | `ParsedAsIntended`, `ImageWhereRecorded` in every order of visiting the maps | 8 storage classes (defaults, fall-backs, refused values), 2 pools, 2 faults, timed-out commands among them |
| `ControllerProcess` | `LeaderAccepts`, `QuietIsRight`, `LabelsConverge`, `VolumesCanBeCreated` | 2 replicas, 3 changes of the node (relabelled, terminating, removed, made anew), 2 faults, 2 attempts of an update |
| `NodeTakeover` | *violation*: a stale teardown clears the new user's record | 2 nodes, 2 pods |
| `NodeRetry` | *violation*: a teardown repeated after its answer was lost fails for ever | 1 pod, 1 fault, no hazard |
| `ControlFailoverDelete` | *violation*: a new leader takes a volume it has not yet learned for deleted | 1 fault |

**Bounds.** `MaxLog` bounds the writes of clients (removing a finalizer is always allowed,
so liveness is not cut off by it); 3 client writes are create, record and one conflicting
write, 4 add a second incarnation or the clearing of the record. In `NodeOrderly`, the
control runs and `SystemLiveness` `MaxLog = 12` is never reached. One fault is enough for
every pair "fault at step i, retry"; the control runs have three because a clean-up that
fails after a failed creation, next to a timeout, takes that many; `SystemLiveness` has two,
so that the repeated call may fail too; and `ControllerProcess` has two because a second
leader may die of what the first left. The code tries an update of a node five times; with
`Steps = 2` a first attempt, a repeated one and giving up exist, and `QuietIsRightAlways` is
proved for any number. `Slots` bounds overlapping handlers: one per node in the node runs
(overlap there is between nodes and with the `AlcubCon`s), two in the controller and in the
storage client, where two writers and one buffer too few are the cases of interest.
`SystemLiveness` has one uuid, since no volume is made anew there; with its single handler
`PodHasItsVolume` also survives lost answers, in general it does not
(`SystemPodHasItsVolume`). `CreateCompletes` was also checked with `createtimeout`,
`lostanswer`, `quickdelete`, `failover` and `rbdtimeout` on the controller alone,
`DeletedIsGone` with `rbdtimeout`, and the safety properties of `SystemLiveness` once with
two nodes and two pods without faults, too long a run to keep.

**Conditions of the liveness properties.** They name what blocks a call for good, all of
it found by TLC. `CreateCompletes` ends in a volume id or in `Stranded`, an image no record
leads to. `PodStops` counts a teardown as done when its work is done (`TornDown`), answered
or not: repeating one whose answer was lost fails (`NodeRetry`); and it ends with the
deletion of the volume. `PodStarts` asks for the image.

**Symmetry and views.** Processes, nodes, uuids and slots that the specification
treats alike are permuted in safety runs only. `MCView` leaves out which uuids the
controller's `AlcubCon` knows, which no action of `NodeRpc` reads; `MCViewNoTable`
also the node table, which only `reverseNode` writes and `NodeInfoRight` reads.

**Deadlock** checking is off where the system may stop for good: a volume that was
deleted and whose pods are gone, a controller with nothing left to label. It is on in
`StoreClient`: there, a request can always be made or goes on, and there is always
a buffer for it.

**Fairness.** Weak fairness of informer events, of the resync timer and of the reconcile
worker (client-go and controller-runtime run them in loops that never stop), of each step of
a handler (a goroutine that runs goes on; commands and requests have timeouts) and of the
callers' repeated calls (kubelet and external-provisioner retry until they succeed).
`ControlRpc` states this for the provisioner and its handlers (`FairControlSpec`), `System`
for both services. In `ControllerProcess` also of a process that was started, of the
kubelet's restarts, of elections and of the expiry of a lease; in `StoreClient` of the first
registration of the storage service. Nothing else is fair: pods and volumes need never be
deleted, and faults need not happen.

**Timing.** The models have no clock. `Expire` rests on one relation between timeouts:
client-go gives up a lease it cannot renew (10 s) before others may take it (15 s), so
the old leader has closed its socket by then. Handlers it has accepted may still run.

## Proofs

For every value of the constants, bounds included. "If" gives the hypotheses of a theorem,
where it has any; they are what the code really needs, as TLC's counterexamples without them
show (below).

| module | theorems | if |
|---|---|---|
| `AlcubManagerProofs` | `ManagerTypeCorrect`, `ManagerImplementsRecord`, `ManagerKnownUuids`, `ManagerNodeInfo`, `ManagerNoRevival` | |
| `NodeRpcProofs` | `NodeTypeCorrect`, `NodeImplementsManager`, `NodeInfoIsRight`, `NodePrenodeWasUser` | |
| | `NodeInUseRecorded` | `Orderly`: one target per node, no takeover, and no timeout or one handler at a time |
| | `NodeTornDownClean`, `NodeOneConnected` | `Orderly`, no `silentdetach`, some target |
| `ControlRpcProofs` | `ControlTypeCorrect`, `ControlImplementsManager` | |
| `ControlSafetyProofs` | `ControlLiveHasImage`, `ControlAckedDurable` | no `lostanswer` |
| | `ControlImageGoneFirst` | no `createtimeout`, or neither `lostanswer` nor `deletetimeout` |
| | `ControlDeletedIsGone` | none of `createtimeout`, `failover`, `quickdelete`, `lostanswer` |
| `SystemProofs` | `SystemTypeCorrect`, `SystemImplementsManager` | |
| | `SystemDeviceHasImage` | `NodeOrderly` (`Orderly`, takeovers allowed), no `abort` |
| | `SystemPodHasItsVolume` | `Orderly`, no `lostanswer` in the controller, and no `createtimeout` or no `deleteinuse` |
| | `SystemKeepsNodeSafety` | `Orderly`, no `silentdetach`, some target |
| | `SystemKeepsControlSafety` | no `lostanswer` in the controller |
| `RbdImagesProofs` | `RbdTypes` | |
| | `RbdParsedAsIntended` | a class names no parameter twice, a secret no entry |
| | `RbdImageWhereRecorded` | the same, and the class keeps its pool |
| `StoreClientProofs` | `StoreTypeCorrect`, `SendsWholeUrlAlways`, `StoreImplementsService` | |
| `ControllerProcessProofs` | `ProcessTypeCorrect`, `LeaderAcceptsAlways` | |
| | `QuietIsRightAlways` | `Foreign = FALSE` |

**The record.** `StepWrites` shows that every action changes `log` by one of four writes,
each stated on the *current* object, although the code decides on a cached one – the
version check makes the cached object current whenever a write gets through. Refinement,
`NoRevival` and monotonicity follow from that alone. `ManagerTypeOK` is not inductive:
`Reconcile` maps whatever uuid a live object carries, so `TypeInv` adds that every version
that exists has one (`HasUuid`). `NoRevival` is inductive together with `TypeInv`.

**The node service.** `NodeRefines` maps each handler step to a status write, a failed call
or nothing, so the manager's theorems carry over. `NodeWrites` says which statuses are ever
written. `NodeInfoIsRight` needs `OwnAddress` (a status that names a user carries that
user's address) and the manager's `NodeInfoReported`; `NodePrenodeWasUser` needs `SnapsSeen`
(a handler's status is one the record had).

`InUseRecorded` and `TornDownClean` speak of pods whose handlers are done; what holds in
between is `NodeSafe`. Its part about each node by itself, `DeviceSafe`, holds with
takeovers too: a node runs one handler (`OneHandler`), a pod that is not half way has no
handler and exactly the device and mount its state asks for (`PodDevice`), and a handler has
done what its program counter says and its caller waits (`HandlerState`). The rest relates
the nodes: pods are on one at a time (`OneUser`), and the record names it (`PodRecord`). A
step is first reduced to its effect on these (`NodeEffect`, lemma `NodeEffects`): of the
record only who uses it matters, and every step that is not the last one of a handler leaves
the user alone (`UserKept`), in particular `Reconcile`, which removes the finalizer of a
record only without a user. Of the parts of `Orderly`, TLC finds that `takeover` breaks
`InUseRecorded` and `OneNodeConnected`, a second target on a node `InUseRecorded`, and a
timeout with two handlers all three properties; `silentdetach` breaks `TornDownClean` and
`OneNodeConnected`. Without any target there are no pods, and nothing to show.

**The controller service.** It refines the manager in the same way; `ControlInv` adds to the
types that a running `CreateVolume` has a uuid. Again a step is reduced to its effect on
image, handlers and record (`Effect`, `RecordEffect`). `RecordInv` says that the provisioner
waits for at most one handler (`Waits`), that handlers have different uuids, fresh until
submitted (`FreshCalls`), and that until the deletion is asked for there is only one record,
the one every answer was about (`OneRecord`, `AckedRecord`). On top of it, for the image until
then, `KeepsImage`: a handler past `rbd create` owns the image, so the clean-up never takes
another call's – which is where a lost answer does harm. After the deletion request,
`LateOnly` (without `createtimeout` no `CreateVolume` runs any more) or `OnceDeleted` (without
overlapping `DeleteVolume`s one record goes away, once) give `ImageGoneFirst`. `DeletedIsGone`
is about what the leader does not know: `LeaderKnows` (its map has every uuid in use) and
`CacheTells` (a record missing in its cache is missing, or its image is gone). Each of the
four hazards by itself breaks `DeletedIsGone`; `lostanswer` breaks `LiveHasImage` and
`AckedDurable`; `createtimeout` with either of the other two breaks `ImageGoneFirst`.

**The whole driver.** `NP` and `CP` in `SystemProofs` are the proof modules of the two
services under the substitutions of `System`. Every step of the system has an effect of
both kinds (`SystemNodeEffect`, `SystemControlEffect`): to the nodes, the controller creates
or deletes the record (`ControlLog`); to the controller, a node writes the status (`NodeLog`).
So the invariants above hold in the system, without the external parties that stood for the
other service. `ConnImage` (a connected image exists, since `rbd rm` refuses a watched
image) needs no hypothesis; with `DeviceSafe` and `MountHeld` (a deleted pod's device stays
until it is unmounted) it gives `DeviceHasImage`. `PodHasItsVolume` adds that a pod's volume id
was answered (`PodVolume`), and what becomes of the volume after the deletion was asked for:
no pods (`PodsWanted`) or no other image and record than the one answered for
(`VolumeStays`). `takeover`, a timeout with two handlers, `lostanswer`, and `createtimeout`
together with `deleteinuse` break `PodHasItsVolume`; a timeout with two handlers and `abort`,
with `deleteinuse`, break `DeviceHasImage`, which does not need pods on one node at a time: what
holds the image is any device, and each node keeps its own.

**rbd.** While the parameters are visited, the options are what the ones visited so far say,
in whatever order (`ParseInv`); the entry `key` of the secret is still to come or was the last
one visited. `PoolInv` adds that the recorded pool is the one the class leads to. Commands
that time out after they took effect leave an image before the volume is answered for, and
none before its deletion is; the conclusion says what holds on each side of the two answers.
A class with
`pool` and `Pool` breaks both properties, a class that changes its pool the second.

**The storage client.** `ClientInv` says that requests and pool share the buffers without
overlap (`PoolInv`), and that the service answers ok only to what it performed (`CallInv`);
the refinement of `StoreService` follows, an action of a request being a step of its task or
invisible. For `SendsWholeUrl`, `UrlInv` says where each word of the slice comes from
(`WordsFetched`) and what a request may rely on at each step (`SlotUrl`): words are
overwritten and never erased (`UrlStays`), so a length that was seen stays one, and while
only one address was ever fetched, a pointer and a length that are there belong together.

**The replicas.** `LeaderAccepts` is not inductive, because a server is on its way long
before it accepts; `LeaderInv` speaks of everything that leads to one (`Leads`).
`QuietInv` says why a stale label decision does no lasting harm: as long as no new
request has come in, the decision fits the version in the cache (`DecisionStands`), and
if that version is not current, or the write makes a new one, an event is to come. It holds
across faults and changes of leader: a new leader lists the node and has a request for it,
and `dropped` remembers the one failure after which nothing is to come. A terminating node
is left alone, so the conclusion is about live ones.

Assumptions: those named in the modules (`ResourceAssumption`, `ManagerAssumption`,
`NodeAssumption`, `ControlAssumption`, `SystemAssumption`, `StoreAssumption`, `RbdAssumption`,
`LabelsAssumption`, `ProcessAssumption`): sentinels are not members, bounds are natural
numbers, an address is not empty, every node is a process, the leader is none of them.

Only model-checked: liveness, since fairness and `ENABLED` are out of the prover's reach.
Every safety property of a passing run is stated by a theorem.

## Disagreements between the code and what it says

Three have a run (see `findings` in `PROJECT.json`). The others were met with the
same models; each line gives the change to a run's configuration that shows it.

| code | what happens | shown by |
|---|---|---|
| `noderpc/node.go:158` | two pods of one node share a volume: the first to leave disconnects it and clears the record | `NodeTakeover` with `Targets = {t1, t2}`, no hazard: `UsedIsRecorded` |
| `noderpc/node.go:154` | a pod deleted after a `NodePublishVolume` that failed can never be unpublished | `SystemLiveness` with `NodeHazards = {"abort"}`: `PodStops` |
| `manager/alcubManage.go:96` | a volume deleted in use cannot be unpublished after a plugin restart: `Reconcile` does not map the uuid of a terminating object | `SystemLiveness`: `PodStops` without `want # "created"` |
| `manager/alcubManage.go:35` | `Nodeinfo.DeepCopy` copies into nil slices, which copies nothing: `GetNodeInfo` returns an empty address for every node, and `StopNode` and `StartNode`, which nothing calls yet, would use it | `ManagerSafety`: `NodeInfoServed` |
| `noderpc/node.go:129` | the clean-up of a repeated `NodePublishVolume` detaches the device under the mount an earlier attempt made | `DeviceHasImage` without the condition on the pod |
| `controlrpc/rpc.go:88` | a `CreateVolume` its caller has given up runs on after the volume was deleted and makes it anew | `ControlDelete` with `createtimeout`: `DeletedIsGone` |
| `controlrpc/rpc.go:112` | `DeleteVolume` before the cache holds the record answers success; image and record stay | `ControlDelete` with `quickdelete`: `DeletedIsGone` |
| `manager/alcubManage.go:131` | a lost answer to `Create` unmaps the uuid of a record that exists; `DeleteVolume` then answers success | `ControlDelete` with `lostanswer`: `DeletedIsGone` |
| `controlrpc/controller.go:184` | a lost answer makes the clean-up delete the image of a record that exists; the repeated call answers with the record alone, and a pod of that volume never starts | `ControlCreate` with `lostanswer`: `LiveHasImage`, `AckedDurable`; `PodStarts` without the condition on the image |
| `controlrpc/controller.go:180` | an image left by a failed clean-up (the TODO at line 186 knows of it), a crash or an rbd timeout blocks the name for ever | `ControlDelete` without hazards and 2 faults, or with `failover` or `rbdtimeout` and 1: `CreateSucceeds` |
| `controlrpc/controller.go:109` | a `CreateVolume` that runs late, next to a repeated `DeleteVolume`, gets its record deleted but not its image | `ControlCreate` with `deletetimeout`: `ImageGoneFirst` |
| `controlrpc/nodeManage.go:93` | a csi label key with another value counts as the label and is never corrected, although `config.go:53` speaks of the key and the value and `LabledNodes` compares both | `ControllerProcess` with `Foreign = TRUE`: `LabelsConverge`, `QuietIsRight` |
| `rbd/rbd.go:218` | a storage class made anew with another pool: `DeleteImage` looks there, finds nothing, answers success; the image stays where the record says | `RbdImages` with `PoolChange = TRUE`: `ImageWhereRecorded` |
| `rbd/rbd.go:88` | two spellings of one parameter: which value counts differs from call to call | `RbdImages` with a class that has `pool` and `Pool`: `ParsedAsIntended` |
| `rbd/rbd.go:192` | a secret without an entry `key` and with several others: which one counts differs from call to call | reading; `IntendedKeys` asks for the entry `key` |
| `store/alcub.go:316` | the storage service moves: every request fails until the plugin is restarted | `RequestsSucceed` with `reg # NoUrl` for `Reachable` |
| `store/alcub.go:287` | two fetches at once that find different addresses leave a mixture of them, for good | `SendsWholeUrl` without its condition |
| `store/alcub.go:287` | a request that reads the slice between the two writes may find a length without memory and end the plugin | `ParseNothing` |
| `store/alcub.go:196` | an answer without a status, a JSON error too, counts as a clean image | the model of `GetImageStatus` |
| `noderpc/node.go:132` | `prenode` is set at the first takeover, to the node taken over from; `csi_alcub.go:27` calls it the node "which is first attached" | reading; `PrenodeWasUser` is what holds |
| `controlrpc/rpc.go:106` | "cr status is ready to delete" is not checked: `DeleteVolume` looks at the image's watchers, never at `status.node` | reading; the model of `DeleteVolume` |

## Not modelled

- Code nothing calls: `StopNode`, `StartNode` (which would be the users of `GetNodeInfo`),
  `notidyAlcub`, `notreadyController` (marked deprecated) and `NotReadyNodes`, with the
  storage client's `node_fail` and `dev_stop`, the rbd blacklist, and the server's `Wait`
  and `ForceStop`.
- The identity service and the node's constant answers; the interface lookup at start, the
  error type, flags, the logging interceptor, generated code: no protocol state.
- Requests a former leader accepted, or an update of a node it had begun, and that still run
  when the next one serves. `ControlRpc` has overlapping handlers and a failover that ends
  them, not both leaders at work.
- Several volumes: all state is per volume name. Two volumes meet only in the storage
  client, whose model does not tell volumes apart, and in `nodes`, whose entries do not
  depend on the volume.

## Plan

Done: every component with protocol state, by itself, and the two services composed;
three abstract specifications with their refinements; proofs of every safety property the
passing runs check. Next, proofs:

1. `ImageGoneFirst` and `DeletedIsGone` of `ControlRpc` in `System`, from
   `SystemControlEffect` and the effect of a node's step on the leader's cache.
2. What holds for two pods of one node, where `InUseRecorded` does not.
