# TLA+ models of qnap-csi

This directory holds TLA+ models of the qnap-csi CSI driver (`src/`) and the
TLC configurations that check them. The driver provisions iSCSI block volumes
on a QNAP appliance (controller side) and attaches them on a node (node side).

## 1. The system

| Part | Source | What it does | State it changes |
|---|---|---|---|
| Provisioning orchestrator | `src/driver/controller.go` | CreateVolume, DeleteVolume, ListVolumes, GetCapacity, ValidateVolumeCapabilities | appliance targets, initiator bindings, LUNs, attachments |
| NAS API client | `src/qnap/api.go` | one HTTP form call per appliance operation, with a shared session id under an RWMutex | the appliance's tables; the sid |
| Capacity validator | `src/driver/utils.go` `extractStorage`; `src/driver/controller.go` argument checks | resolves a (required, limit) range to a byte size; CreateVolume rejects bad names and capabilities | none (pure) |
| Resource naming | `src/driver/utils.go` `cleanISCSIName` | lower-cases and strips non-alphanumerics | none (pure) |
| Cursor codec | `src/driver/utils.go` | seen-index set ↔ base64 of a comma-joined decimal list | none (pure) |
| Attachment lifecycle | `src/driver/node.go`, `src/driver/iscsi_util.go` | NodePublish → AttachDisk, NodeUnpublish → DetachDisk | iSCSI session, persisted descriptor file, directories, mounts |
| Driver facade | `src/driver/driver.go` | gRPC server; one goroutine per RPC | none of its own |
| Bootstrap | `src/cmd/*/main.go` | flags, logging, a manual test program | none |

How they interact. The CO (Kubernetes' external provisioner) sends CreateVolume
and DeleteVolume for a volume name, waits for the answer or times out and
retries. Each RPC runs in its own goroutine: it logs in, then makes a sequence
of appliance calls, each of which may fail, and rolls back best-effort (errors
swallowed) on some of the failures. The handler ignores its context: after the
CO times out it keeps running. Nothing is kept in the driver's memory between
requests, so a plugin restart loses only in-flight handlers.

On the node side the kubelet calls NodePublishVolume and NodeUnpublishVolume
for each pod's target path. The driver neither attaches nor stages, so the
kubelet keys these operations by pod: one path's operations are serialized,
two paths of one volume run concurrently. Both share node state that outlives
the plugin: one iSCSI session and one connector descriptor file per volume,
the target directories and the mount table.

Hard behaviours in the code:

* multi-step creation with partial rollbacks (`controller.go:92-134`), and no
  rollback at all when the readiness read fails (`controller.go:117-119`);
* deletion that removes the target before its LUNs (`controller.go:186-196`);
* a call whose effect happens on the appliance but whose answer is lost;
* an unbounded readiness loop that ignores cancellation (`controller.go:115-126`);
* concurrent handlers for one name after a CO timeout (check-then-act at 79-92);
* appliance indices reused after deletion;
* ListVolumes dereferences a nil set (`controller.go:265,283`) and the codec's
  decoder returns nil instead of its result (`utils.go:39`);
* node side: a persist failure that leaves a live session (`iscsi_util.go:42-46`),
  a mount reference count read before unmount (`iscsi_util.go:66,91`), and a
  crash between unmount and disconnect.

## 2. Modules

### Controller (`Controller.tla`, instantiated by `MC_Controller.tla`)

State:

* `targets`: appliance target index → `[name, init, luns]`. `init` records the
  initiator binding and `luns` the attached LUN indices (`GetStorageISCSITargetList`).
* `luns`: LUN index → `[name, status]` with status `creating` or `ready`
  (`GetStorageISCSILun`, `StatusString`).
* `hs`: per handler goroutine, its program counter in CreateVolume/DeleteVolume,
  the volume name and the indices it has obtained.
* `co`: per volume name, whether a request is outstanding, the last answer, the
  volume returned, and how many requests were sent.
* `faults`, `timeouts`, `crashes`: bounded counters of injected events.

Actions. One action per appliance call of a handler, each containing the
result check and the rollback the code performs on that call's failure:
`CreateList` (Login + list + AlreadyExists gate), `CreateTarget`,
`CreateInitiator` (rollback: delete target), `CreateLUN` (rollback: delete
target), `CreatePoll` (one GetStorageISCSILun; Internal without rollback on
error; loops while creating), `CreateAttach` (rollback: delete target, delete
LUN, each of which may itself fail), `CreateRelist`; `DeleteList`,
`DeleteTarget`, `DeleteLUNs` (one per listed LUN); `ValidateList`
(ValidateVolumeCapabilities: Login + list, then Confirmed if a target carries
the volume id, NotFound otherwise; it changes nothing and is neither a create
nor a delete in the refinement mapping). Environment actions: `Send`
(the CO issues a request; a free goroutine takes it), `Finish` (the handler's
answer), `Timeout` (the CO stops waiting; the handler goes on), `Crash` (the
plugin restarts: every handler is lost, the appliance keeps its state),
`LUNReady` (the appliance finishes creating a LUN).

The API client's mutating calls are operators named after the client
functions (`CreateStorageISCSITarget`, `CreateStorageISCSIInitiator`,
`CreateStorageISCSIBlockLUN`, `AttachStorageISCSITargetLUN`, and
`RollbackTarget`/`RemoveLUN` for the two deletes): each maps the appliance
tables and an outcome to the new tables and to whether the client reports
success (`result < 0`, `result != 0`, `result != index` in `api.go`).

Fault model. Every call named in `FaultyCalls` can, within `MaxFaults` in
total, be `reject`ed (no effect, error returned) or `lost` (effect done, error
returned: a transport error after the appliance acted). The client checks the
result code of every call (`api.go`), so an error after the effect is exactly
what a lost response looks like to the handler.

Appliance assumptions, taken from the client's use of the API (the appliance
is not in this repository):

* a new target or LUN gets the lowest free index (`NewIndex`), and indices are
  reused;
* removing a target removes its binding and attachments, not its LUNs;
* removing a LUN also detaches it from any target;
* attaching or deleting an unknown target index is refused; deleting an
  unknown LUN index is accepted;
* two LUNs may carry the same name (the client comment at `api.go:534` says
  that crashes the appliance; the model does not model the crash).

The refinement. `VolumeLifecycle.tla` is what the orchestrator promises per
volume name: its appliance resources are absent, partial or present (target
with binding and a ready attached LUN of that name), they change only while a
request for that name runs, one level per step; only a create builds; any
request may tear down (a delete, or a create's rollback); a restart ends every
request. `Controller.tla` maps its state onto it (`VolumeLevel`,
`RunningOps`) and `ImplementsLifecycle` is `Lifecycle!Spec`, checked as a
PROPERTY.

### CreateRequest (`CreateRequest.tla` over `Capacity.tla` and `Naming.tla`, instantiated by `MC_CreateRequest.tla`)

The argument phase of CreateVolume, `controller.go:49-71`, before its first
appliance call. `CreateVolumeArgs` takes the checks in the code's order:
empty name, missing capabilities, `validateCapabilities` (access mode must be
single-node-writer, access type block or mount), `extractStorage` (OutOfRange),
then the GiB count and the normalised name. The state is one request and its
answer; Controller starts from an accepted request's normalised name.

`Capacity.tla`: `ExtractStorage` is `extractStorage` rule by rule, `SizeGB`
the conversion at `controller.go:69`. Sizes are in units of 1/4 GiB
(`GiBUnits = 4`), so the 1..128 GiB bounds keep their meaning inside TLC's
integers while non-GiB multiples stay representable.

`Naming.tla`: `cleanISCSIName` is `strings.ToLower` followed by removal of
every character outside `[a-z0-9A-Z]`. `ToLower` is Unicode-aware and works
rune by rune: É (U+00C9) folds to é, outside ASCII, while the Kelvin sign
(U+212A) and İ (U+0130) fold to the ASCII letters k and i, which the filter
keeps. So the order of the two calls matters, and `NameCaseInsensitive`
checks the spec's case-insensitivity (section 8) over names containing
these letters. Whether the spec's normal form ("letters and digits only,
case-folded") means to keep such letters is not settled by its text; the
code keeps them.

### Codec (`Codec.tla`, operators only)

The ListVolumes page token of `utils.go`: `seenIndexesToBase64String` joins
the indices with `strconv.Itoa` and a comma each, trims trailing commas and
encodes; `base64SeenIndexesToMap` decodes, splits on commas, `Atoi`s each
field. Text is a sequence of one-character strings; `Itoa`, `Atoi`, `Split`
and `TrimRightComma` are RECURSIVE operators that do what the Go functions do.
Base64 is modelled by what the code relies on: an injective encoding whose
decoder returns the text, and `NotBase64` for strings the decoder refuses.
A `*sets.Int` is `[nil, set]`. The decoder is modelled as written: it builds
the set and returns `nil` (`utils.go:39`).

### ListVolumes (`ListVolumes.tla`, instantiated by `MC_ListVolumes.tla`)

State: the appliance's target list `tl` (indices, in listing order), the
request's `maxEntries` and current `token`, the volumes returned so far, and
the outcome of the last call. `ListPage` is one ListVolumes call: decode the
starting token (with the fresh-set fallback on a decode error), walk the list
(`Walk`, RECURSIVE: skip seen indices, stop at `maxEntries` and encode the
seen set as the next token) and return a page; `ListFails` is a failing
target listing. A nil set reached by `Has` is a panic. Target lists are every
ordering of a 4-element index set including 0, 9, 10 and 105 (one and several
digits), page sizes 0..3 and starting tokens "", a valid one, one that is not
base64 and one that is not a number.

### Node (`Node.tla`, instantiated by `MC_Node.tla`)

State: `session` (down, up, or nodev: logged in with devices deleted),
`descriptor` (the connector file: none, empty after `os.Create`, ok after the
JSON encode), `dirs`, `mounted`, per path the handler's pc and the mount
reference count it read, per path the kubelet's phase (publish, unpublish,
unpublished, abandoned) and whether a call is outstanding, and bounded fault
and crash counters.

Actions: the kubelet's `NodePublishVolume` and `NodeUnpublishVolume` calls, `Reply`, `ReplyFailed` (retry, or give up on a
publish that failed with a final error), `Crash` (handlers lost; an
outstanding publish becomes uncertain: the kubelet may publish again or
unpublish), and one action per library call of AttachDisk (`AttachConnect`,
`AttachCheck`, `AttachMkdir`, `AttachCreate`, `AttachEncode`, `AttachMount`)
and DetachDisk (`DetachList`, `DetachExists`, `DetachLoad`, `DetachUnmount`,
`DetachDisconnect`, `DetachLogout`, `DetachRemove`), each with the early
return the code takes on its failure. Library assumptions: `FormatAndMount`
succeeds only with a live session; `mount.Unmount` fails on a path that is not
mounted (the k8s mounter runs `umount`).

The refinement. `Attachment.tla` is the contract of spec section 4.5 for one
volume on one node: a path is mounted only by a running publish of that path
while the session's device is live, and unmounted only by a running
unpublish of it; the session comes up only for a publish and goes down only
for an unpublish once no path is mounted; a publish answers success only for
a mounted path and an unpublish only for an unmounted one; a restart ends
every call, and a publish it interrupts may be followed by an unpublish.
`Node.tla` maps onto it: `mnt` is `mounted`, `live` is `session = "up"`, the
running call is read from the handler's pc (`RunningCall`), the phases are the
kubelet's, and `restarts` is the crash counter. `ImplementsAttachment` is
`Contract!Spec`, checked as a PROPERTY.

## 3. Runs

| Run | cfg | Expect | Shows |
|---|---|---|---|
| controller_safety | `Controller.cfg` | pass | `OutcomeReflectsAppliance`: an answer the CO holds is true of the appliance ("created": the named target exists with binding and an attached ready LUN of that name; "deleted": no target of that name; ValidateVolumeCapabilities' Confirmed/NotFound: a target of that name exists/does not). Two names, any 2 failures or lost responses of any call, one crash. |
| controller_liveness | `ControllerLive.cfg` | pass | `RequestsComplete`: every handler returns. `ImplementsLifecycle`: for one name, with failures, a CO timeout (two handlers of the name at once) and a crash, the controller refines the lifecycle. |
| poll_failure_leak | `ControllerPollLeak.cfg` | violation | `DeletedVolumeLeavesNoLUN`: one failed readiness read leaves a LUN a later successful DeleteVolume does not remove (finding 1). |
| stale_index_delete | `ControllerStaleIndex.cfg` | violation | `ImplementsLifecycle` for two names with no failing call and one CO timeout: a DeleteVolume removes another volume's target (finding 2). |
| create_request | `CreateRequest.cfg` | pass | `ResolvedSizeLegal`, `ResolvedWithinRequest`: an accepted size is a whole GiB count within the bounds and the requested range. `ChecksInSpecOrder`: a bad name or capability set is InvalidArgument whatever the size, and OutOfRange comes only for valid arguments with an unsatisfiable range (only single-node-writer block/mount capabilities are accepted). `NameCaseInsensitive`: a name and its lower-case form give the same volume id (the filter-before-lower mutant breaks it on the Kelvin sign), and the id normalises to itself. Over 1,496,000 requests: names up to three characters over seven characters, up to two capabilities, sizes at every boundary. |
| list_pages | `ListVolumes.cfg` | pass | `GarbageTokenTolerated`: a starting token that does not decode makes the call start over, never an error. `TokenTextParsesToListed`: the next token is valid base64 of exactly the indices listed so far (the encoder's trim and the decoder's parse agree). `PagesHonourMaxEntries`: every page returned is exactly the first min(max_entries, unseen) targets in the appliance's order not named by its starting token (max_entries 0 meaning all), with a next token exactly when targets remain; this is the `>=` boundary of the page-full test and the 0 default. One failing listing. |
| list_panic | `ListVolumesPanic.cfg` | violation | `ListVolumesNoPanic`: the first ListVolumes call (empty token) panics on a nil set as soon as a target exists (finding 3). |
| node_safety | `Node.cfg` | pass | `SessionOutlivesMounts`, `UnpublishedPathUnmounted` and `ImplementsAttachment` (the refinement of the attachment contract: a publish reports success only for a mounted path, mounts and the session change only in the call and order the contract allows) for one path under 4 failures of any library call and 2 crashes. |
| node_liveness | `NodeLive.cfg` | pass | `UnpublishCompletes` and `PublishCompletes` (a publish retried over what a failed attempt left, a logged-in session, the directory, a truncated descriptor, succeeds unless the pod is given up) with up to 3 failures of every call but DisconnectVolume and no crash. |
| node_persist_leak | `NodePersistLeak.cfg` | violation | `NoUnpersistedSession`: a failed descriptor write leaves a live session and an empty descriptor (finding 4). |
| node_refcount_race | `NodeRefcountRace.cfg` | violation | `SessionOutlivesMounts` with two paths and no failure: the session is torn down under a mount (finding 5). |
| node_detach_stuck | `NodeDetachStuck.cfg` | violation | `UnpublishCompletes`: after one failed DisconnectVolume every retry fails at Unmount (finding 6). |

Every passing-run property has a mutant in `PROJECT.json`: a plausible bug in
the mapped code (a dropped guard, a skipped wait, a missing trim or fallback,
a swallowed error, a kept directory) that TLC then finds violating it.

## 4. Bounds

Controller: two names and two handler goroutines let requests for different
volumes interleave and let a crash hit one of two in-flight handlers. Three
indices are enough for two volumes and one leftover, so indices are reused
across volumes. `MaxRequests = 3` per name allows create, delete and a retry;
`MaxFaults = 2` a failure followed by a failing rollback. The liveness run has
one name and two indices so the temporal check stays small; its timeout lets a
handler run unobserved while a second one of the same name starts.
ListVolumes: all 24 orders of 4 indices, so a page boundary falls at every
position and with every size. Node: one path for the safety and liveness runs
(with a second path the refcount race of finding 5 breaks the safety
properties; four failures and two restarts let a failed attempt, its retry,
a restart and a failing teardown happen in one behaviour); the race run uses two
paths and no faults, which is what the race needs.
CreateRequest: byte sizes around every boundary of `extractStorage` (zero,
negative, one under, at and one over the GiB unit and the minimum and
maximum, with `GiBUnits = 4` standing for 2^30), every name of up to three
characters over an upper- and a lower-case letter, a digit, punctuation and
the non-ASCII letters É, the Kelvin sign and İ (one folding outside ASCII,
two folding into it), and every set of at most two capabilities.

## 5. Fairness

Controller: each handler goroutine is weakly fair, and the appliance
eventually finishes creating a LUN (weak fairness on `LUNReady`; the poll
loop has no bound in the code). The CO, timeouts, faults and crashes are owed
nothing. Node: each handler is weakly fair, and the kubelet keeps calling for
a path whose desired state is not reached (its reconciler retries with
backoff forever), so `Call` is weakly fair.

## 6. Findings

1. `controller.go:117`: on a failed `GetStorageISCSILun` CreateVolume returns
   without deleting what it created. The target has no LUN attached, so
   DeleteVolume deletes it and succeeds; the LUN stays forever.
2. `controller.go:186`: DeleteVolume removes the target by the index read in
   its listing. With the CO's retry beside a timed-out handler, both list the
   same index; one removes it, another volume's create gets the freed index,
   and the stale handler removes that volume's target. No call has to fail.
   Related (not a separate run): the target is deleted before its LUNs,
   against the documented order, so a failed `remove_lun` orphans the LUN and
   the retry reports success; `ControllerPollLeak.cfg` with
   `FaultyCalls = {"DeleteLUN"}` and `MaxRequests = 3` shows it.
3. `controller.go:283`: `seenIds` is nil for an empty token (and for any
   token that decodes, since `utils.go:39` returns nil), so `Has` panics.
4. `iscsi_util.go:43`: a failed descriptor create/encode returns an error with
   the session logged in; nothing later logs it out. A crash between
   `os.Create` and the encode leaves an empty descriptor, and unpublish then
   fails on every retry.
5. `iscsi_util.go:66`: DetachDisk reads the mount count before unmounting;
   another path's publish in between does not stop the disconnect.
6. `iscsi_util.go:87`: after a failed DisconnectVolume (or a crash before
   it) the path is unmounted and every retry fails at `Unmount`.

## 7. Not modelled

* HTTP/XML encoding of the client: pure I/O.
* The login sid and its lock (`api.go:86-121`). Every request logs in before
  its first call, and the lock makes the swap of the sid atomic. Two
  concurrent logins may write their sids in either order, so a call may carry
  another request's session. Nothing logs out, and the spec (section 9) takes
  re-authentication to be idempotent. So every issued sid is taken to stay
  valid, and which one a call carries does not change its effect. A failed
  Login is the `Login` failure of the fault model.
* The graceful stop on SIGTERM (`main.go:85-91`, `driver.go:126-131`). It
  refuses new RPCs and waits for the running ones, and the kubelet's SIGKILL
  may cut it short. Each such behaviour is already one of the model's: the CO
  sends nothing while handlers run, then `Crash` or nothing. The `ready` flag
  is written and never read.
* The empty normalised name: a name of only characters outside
  `[a-zA-Z0-9]` passes CreateVolume's check (`controller.go:71`) and
  normalises to `""`, so the volume id is empty and DeleteVolume rejects it.
  `CreateRequest` accepts such names; no property states the delete side,
  since the orchestrator model takes its names already normalised. It is
  listed as a hazard.
* The same-name create race (`controller.go:79`): no run is left to state
  it; it is listed as a hazard. The LUN left by a lost `add_lun` response
  (`controller.go:106`) violates `DeletedVolumeLeavesNoLUN`:
  `ControllerPollLeak.cfg` with `Faults = {"lost"}` and
  `FaultyCalls = {"CreateLUN"}` shows it in eight steps.
* The shared node descriptor. The descriptor path depends only on the volume
  id (`driver.go:145`), so all pods of a volume share one file. A publish on a
  second path truncates it (`os.Create`); if its encode then fails and the
  pod is given up, the descriptor stays empty, and a pod that did publish can
  never be unpublished. `UnpublishCompletes` fails by this path with
  `Paths = {p1, p2}`, `FaultyCalls = {"Encode"}` and `MaxFaults = 1`. No run
  is left to keep that configuration; it is listed as a hazard.
* GetCapacity: one read of the pool, no state. It reports
  `capacity_bytes`, the pool's size, as `AvailableCapacity` (`controller.go:327`),
  where the spec (section 4.3) says available bytes; `freesize_bytes` is
  read into the same struct and not used.
* Capability discovery and the Unimplemented RPCs: static. `getISCSIInfo` and the disk mounter
  constructor are not in `src/`.
* Bootstrap in `src/cmd`: flag parsing and logging. `formatBytes`: message
  formatting.
