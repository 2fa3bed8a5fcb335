-------------------------------- MODULE Node --------------------------------
(***************************************************************************)
(* One volume on one node: NodePublishVolume (AttachDisk) and              *)
(* NodeUnpublishVolume (DetachDisk) of src/driver/node.go and              *)
(* src/driver/iscsi_util.go, for several pod target paths of the volume.   *)
(*                                                                         *)
(* Node state outlives the plugin: the iSCSI session, the connector        *)
(* descriptor file (one per volume id, driver.go getISCSILibConfigPath),   *)
(* the target directories and the mount table.  The kubelet runs at most   *)
(* one operation per target path; operations on different paths of one    *)
(* volume run concurrently (the driver neither attaches nor stages, so the *)
(* kubelet keys its operations by pod).  Every library call named in       *)
(* FaultyCalls may fail without effect, within MaxFaults; the plugin may   *)
(* restart (MaxCrashes), losing its handlers.                              *)
(***************************************************************************)
EXTENDS Integers, FiniteSets

CONSTANTS
    Paths,        \* target paths of pods using the volume
    FaultyCalls,  \* library calls that may fail
    MaxFaults,
    MaxCrashes

Calls == {"Connect", "MkdirAll", "Create", "Encode", "FormatAndMount",
          "List", "Unmount", "DisconnectVolume", "Remove"}

ASSUME FaultyCalls \subseteq Calls /\ MaxFaults \in Nat /\ MaxCrashes \in Nat

VARIABLES
    session,     \* "down", "up", or "nodev" (logged in, devices deleted)
    descriptor,  \* connector file: "none", "empty" (created, not written), "ok"
    dirs,        \* target directories that exist
    mounted,     \* target paths the device is mounted on
    hs,          \* per path: the running handler's pc and its refcount
    kube,        \* per path: the kubelet's phase and whether a call is out
    faults,
    crashes

vars == <<session, descriptor, dirs, mounted, hs, kube, faults, crashes>>

AttachPCs == {"a_connect", "a_check", "a_mkdir", "a_create", "a_encode", "a_mount"}
DetachPCs == {"d_list", "d_exists", "d_load", "d_unmount", "d_disconnect",
              "d_logout", "d_remove"}

Phases == {"publish", "unpublish", "unpublished", "abandoned"}

Idle == [pc |-> "idle", cnt |-> 0]

TypeOK ==
    /\ session \in {"down", "up", "nodev"}
    /\ descriptor \in {"none", "empty", "ok"}
    /\ dirs \subseteq Paths /\ mounted \subseteq Paths
    /\ \A p \in Paths : hs[p].pc \in {"idle"} \cup AttachPCs \cup DetachPCs
    /\ \A p \in Paths : kube[p].phase \in Phases /\ kube[p].busy \in BOOLEAN
    /\ faults \in 0..MaxFaults /\ crashes \in 0..MaxCrashes

Init ==
    /\ session = "down"
    /\ descriptor = "none"
    /\ dirs = {}
    /\ mounted = {}
    /\ hs = [p \in Paths |-> Idle]
    /\ kube = [p \in Paths |-> [phase |-> "publish", busy |-> FALSE]]
    /\ faults = 0
    /\ crashes = 0

\* Outcomes of a library call: "ok", or "fail" while faults remain.
Outcomes(call) ==
    {"ok"} \cup (IF call \in FaultyCalls /\ faults < MaxFaults THEN {"fail"} ELSE {})

Spend(o) == faults' = IF o = "ok" THEN faults ELSE faults + 1

-----------------------------------------------------------------------------
(* The kubelet.                                                            *)

\* The kubelet calls NodePublishVolume for path p; the handler goes
\* straight to AttachDisk (the request checks and the descriptor path
\* have no effect on node state).
NodePublishVolume(p) ==
    /\ ~kube[p].busy
    /\ kube[p].phase = "publish"
    /\ kube' = [kube EXCEPT ![p].busy = TRUE]
    /\ hs' = [hs EXCEPT ![p] = [pc |-> "a_connect", cnt |-> 0]]
    /\ UNCHANGED <<session, descriptor, dirs, mounted, faults, crashes>>

\* The kubelet calls NodeUnpublishVolume for path p: DetachDisk.
NodeUnpublishVolume(p) ==
    /\ ~kube[p].busy
    /\ kube[p].phase = "unpublish"
    /\ kube' = [kube EXCEPT ![p].busy = TRUE]
    /\ hs' = [hs EXCEPT ![p] = [pc |-> "d_list", cnt |-> 0]]
    /\ UNCHANGED <<session, descriptor, dirs, mounted, faults, crashes>>

Call(p) == NodePublishVolume(p) \/ NodeUnpublishVolume(p)

\* The answer to p's call.  After a publish failure (status Internal, a
\* final error) the kubelet retries or the pod goes away; after a failed
\* unpublish it retries.
Reply(p, ok) ==
    /\ hs' = [hs EXCEPT ![p] = Idle]
    /\ kube' = [kube EXCEPT ![p] =
          [busy |-> FALSE,
           phase |-> CASE ok /\ kube[p].phase = "publish"   -> "unpublish"
                       [] ok                                -> "unpublished"
                       [] OTHER                             -> kube[p].phase]]

\* A failed publish may also be given up.
ReplyFailed(p) ==
    \/ Reply(p, FALSE)
    \/ /\ kube[p].phase = "publish"
       /\ hs' = [hs EXCEPT ![p] = Idle]
       /\ kube' = [kube EXCEPT ![p] = [busy |-> FALSE, phase |-> "abandoned"]]

\* The plugin restarts.  Calls in flight fail as Unavailable, which the
\* kubelet treats as uncertain: it retries, and a pod whose publish was
\* uncertain may instead be unpublished.
Crash ==
    /\ crashes < MaxCrashes
    /\ crashes' = crashes + 1
    /\ hs' = [p \in Paths |-> Idle]
    /\ \E next \in [Paths -> {"publish", "unpublish"}] :
          kube' = [p \in Paths |->
                     IF kube[p].busy
                     THEN [busy |-> FALSE,
                           phase |-> IF kube[p].phase = "publish"
                                     THEN next[p] ELSE kube[p].phase]
                     ELSE kube[p]]
    /\ UNCHANGED <<session, descriptor, dirs, mounted, faults>>

-----------------------------------------------------------------------------
(* AttachDisk(b, iscsiInfoPath), one step per library call.                *)

At(p, pc) == hs[p].pc = pc
Goto(p, pc) == hs' = [hs EXCEPT ![p].pc = pc]

\* (*b.connector).Connect(): log in (or rescan) and find the device.
AttachConnect(p) ==
    /\ At(p, "a_connect")
    /\ \E o \in Outcomes("Connect") :
          /\ Spend(o)
          /\ IF o = "ok"
             THEN session' = "up" /\ Goto(p, "a_check") /\ UNCHANGED kube
             ELSE ReplyFailed(p) /\ UNCHANGED session
    /\ UNCHANGED <<descriptor, dirs, mounted, crashes>>

\* IsLikelyNotMountPoint: a mounted target path is already published.
AttachCheck(p) ==
    /\ At(p, "a_check")
    /\ IF p \in mounted THEN Reply(p, TRUE)
                        ELSE Goto(p, "a_mkdir") /\ UNCHANGED kube
    /\ UNCHANGED <<session, descriptor, dirs, mounted, faults, crashes>>

\* Mutant: os.Mkdir in place of os.MkdirAll, which fails on an existing
\* directory.
AttachMkdirNotAll(p) ==
    /\ At(p, "a_mkdir")
    /\ \E o \in Outcomes("MkdirAll") :
          /\ Spend(o)
          /\ IF o = "ok" /\ p \notin dirs
             THEN dirs' = dirs \cup {p} /\ Goto(p, "a_create") /\ UNCHANGED kube
             ELSE ReplyFailed(p) /\ UNCHANGED dirs
    /\ UNCHANGED <<session, descriptor, mounted, crashes>>

\* os.MkdirAll(mntPath)
AttachMkdir(p) ==
    /\ At(p, "a_mkdir")
    /\ \E o \in Outcomes("MkdirAll") :
          /\ Spend(o)
          /\ IF o = "ok"
             THEN dirs' = dirs \cup {p} /\ Goto(p, "a_create") /\ UNCHANGED kube
             ELSE ReplyFailed(p) /\ UNCHANGED dirs
    /\ UNCHANGED <<session, descriptor, mounted, crashes>>

\* iscsiLib.PersistConnector: os.Create truncates the descriptor ...
AttachCreate(p) ==
    /\ At(p, "a_create")
    /\ \E o \in Outcomes("Create") :
          /\ Spend(o)
          /\ IF o = "ok"
             THEN descriptor' = "empty" /\ Goto(p, "a_encode") /\ UNCHANGED kube
             ELSE ReplyFailed(p) /\ UNCHANGED descriptor
    /\ UNCHANGED <<session, dirs, mounted, crashes>>

\* ... and the JSON encoder writes it.  A failure returns an error and
\* leaves the session logged in.
AttachEncode(p) ==
    /\ At(p, "a_encode")
    /\ \E o \in Outcomes("Encode") :
          /\ Spend(o)
          /\ IF o = "ok"
             THEN descriptor' = "ok" /\ Goto(p, "a_mount") /\ UNCHANGED kube
             ELSE ReplyFailed(p) /\ UNCHANGED descriptor
    /\ UNCHANGED <<session, dirs, mounted, crashes>>

\* Mutant: a FormatAndMount error is logged and the publish reported done.
AttachMountIgnoreError(p) ==
    /\ At(p, "a_mount")
    /\ \E o \in Outcomes("FormatAndMount") :
          /\ Spend(o)
          /\ IF o = "ok" /\ session = "up"
             THEN mounted' = mounted \cup {p} /\ Reply(p, TRUE)
             ELSE Reply(p, TRUE) /\ UNCHANGED mounted
    /\ UNCHANGED <<session, descriptor, dirs, crashes>>

\* b.mounter.FormatAndMount(devicePath, mntPath, ...): fails when the device
\* found by Connect has since been deleted.
AttachMount(p) ==
    /\ At(p, "a_mount")
    /\ \E o \in Outcomes("FormatAndMount") :
          /\ Spend(o)
          /\ IF o = "ok" /\ session = "up"
             THEN mounted' = mounted \cup {p} /\ Reply(p, TRUE)
             ELSE ReplyFailed(p) /\ UNCHANGED mounted
    /\ UNCHANGED <<session, descriptor, dirs, crashes>>

-----------------------------------------------------------------------------
(* DetachDisk(c, targetPath, iscsiInfoPath)                                *)

\* mount.GetDeviceNameFromMount: the device mounted at p and the number of
\* mount points of that device; a path not mounted gives no device and 0.
DetachList(p) ==
    /\ At(p, "d_list")
    /\ \E o \in Outcomes("List") :
          /\ Spend(o)
          /\ IF o = "ok"
             THEN /\ hs' = [hs EXCEPT ![p] = [pc |-> "d_exists",
                              cnt |-> IF p \in mounted THEN Cardinality(mounted) ELSE 0]]
                  /\ UNCHANGED kube
             ELSE Reply(p, FALSE)
    /\ UNCHANGED <<session, descriptor, dirs, mounted, crashes>>

\* mount.PathExists: a missing target path is already detached.
DetachExists(p) ==
    /\ At(p, "d_exists")
    /\ IF p \in dirs THEN Goto(p, "d_load") /\ UNCHANGED kube
                     ELSE Reply(p, TRUE)
    /\ UNCHANGED <<session, descriptor, dirs, mounted, faults, crashes>>

\* iscsiLib.GetConnectorFromFile: a missing file means already closed; an
\* unreadable (empty) file is an Internal error.
DetachLoad(p) ==
    /\ At(p, "d_load")
    /\ CASE descriptor = "ok"   -> Goto(p, "d_unmount") /\ UNCHANGED kube
          [] descriptor = "none" -> Reply(p, TRUE)
          [] OTHER               -> Reply(p, FALSE)
    /\ UNCHANGED <<session, descriptor, dirs, mounted, faults, crashes>>

\* Mutant: the Unmount error is ignored.
DetachUnmountIgnoreError(p) ==
    /\ At(p, "d_unmount")
    /\ \E o \in Outcomes("Unmount") :
          /\ Spend(o)
          /\ mounted' = IF o = "ok" THEN mounted \ {p} ELSE mounted
          /\ IF hs[p].cnt - 1 # 0
             THEN Reply(p, TRUE)
             ELSE hs' = [hs EXCEPT ![p] = [pc |-> "d_disconnect", cnt |-> 0]]
                  /\ UNCHANGED kube
    /\ UNCHANGED <<session, descriptor, dirs, crashes>>

\* Mutant: a failed Unmount is logged and reported as success.
DetachUnmountSwallowError(p) ==
    /\ At(p, "d_unmount")
    /\ \E o \in Outcomes("Unmount") :
          /\ Spend(o)
          /\ IF o = "ok" /\ p \in mounted
             THEN /\ mounted' = mounted \ {p}
                  /\ IF hs[p].cnt - 1 # 0
                     THEN Reply(p, TRUE)
                     ELSE hs' = [hs EXCEPT ![p] = [pc |-> "d_disconnect", cnt |-> 0]]
                          /\ UNCHANGED kube
             ELSE Reply(p, TRUE) /\ UNCHANGED mounted
    /\ UNCHANGED <<session, descriptor, dirs, crashes>>

\* c.mounter.Unmount(targetPath), which fails on a path that is not a
\* mount point; then cnt-- and, while other mounts remain, success.
DetachUnmount(p) ==
    /\ At(p, "d_unmount")
    /\ \E o \in Outcomes("Unmount") :
          /\ Spend(o)
          /\ IF o = "ok" /\ p \in mounted
             THEN /\ mounted' = mounted \ {p}
                  /\ IF hs[p].cnt - 1 # 0
                     THEN Reply(p, TRUE)
                     ELSE hs' = [hs EXCEPT ![p] = [pc |-> "d_disconnect", cnt |-> 0]]
                          /\ UNCHANGED kube
             ELSE Reply(p, FALSE) /\ UNCHANGED mounted
    /\ UNCHANGED <<session, descriptor, dirs, crashes>>

\* connector.DisconnectVolume(): flushes and deletes the devices.
DetachDisconnect(p) ==
    /\ At(p, "d_disconnect")
    /\ \E o \in Outcomes("DisconnectVolume") :
          /\ Spend(o)
          /\ IF o = "ok"
             THEN session' = "nodev" /\ Goto(p, "d_logout") /\ UNCHANGED kube
             ELSE Reply(p, FALSE) /\ UNCHANGED session
    /\ UNCHANGED <<descriptor, dirs, mounted, crashes>>

\* Mutant: the target directory is not removed.
DetachLogoutKeepDir(p) ==
    /\ At(p, "d_logout")
    /\ session' = "down"
    /\ Goto(p, "d_remove")
    /\ UNCHANGED <<descriptor, dirs, mounted, kube, faults, crashes>>

\* iscsiLib.Disconnect logs out (errors ignored); os.RemoveAll(targetPath)
\* (errors logged only).
DetachLogout(p) ==
    /\ At(p, "d_logout")
    /\ session' = "down"
    /\ dirs' = dirs \ {p}
    /\ Goto(p, "d_remove")
    /\ UNCHANGED <<descriptor, mounted, kube, faults, crashes>>

\* os.Remove(iscsiInfoPath): fails if the file is already gone.
DetachRemove(p) ==
    /\ At(p, "d_remove")
    /\ \E o \in Outcomes("Remove") :
          /\ Spend(o)
          /\ IF o = "ok" /\ descriptor # "none"
             THEN descriptor' = "none" /\ Reply(p, TRUE)
             ELSE Reply(p, FALSE) /\ UNCHANGED descriptor
    /\ UNCHANGED <<session, dirs, mounted, crashes>>

-----------------------------------------------------------------------------
HandlerStep(p) ==
    \/ AttachConnect(p) \/ AttachCheck(p) \/ AttachMkdir(p) \/ AttachCreate(p)
    \/ AttachEncode(p) \/ AttachMount(p)
    \/ DetachList(p) \/ DetachExists(p) \/ DetachLoad(p) \/ DetachUnmount(p)
    \/ DetachDisconnect(p) \/ DetachLogout(p) \/ DetachRemove(p)

\* Every pod is unpublished or given up: the kubelet has nothing to do.
Settled ==
    /\ \A p \in Paths : kube[p].phase \in {"unpublished", "abandoned"}
    /\ UNCHANGED vars

Next ==
    \/ \E p \in Paths : Call(p) \/ HandlerStep(p)
    \/ Crash
    \/ Settled

\* A running handler goroutine keeps going; the kubelet retries a pending
\* operation (with backoff) for as long as the pod wants it.
Fairness ==
    /\ \A p \in Paths : WF_vars(HandlerStep(p))
    /\ \A p \in Paths : WF_vars(Call(p))

Spec == Init /\ [][Next]_vars /\ Fairness

-----------------------------------------------------------------------------
(***************************************************************************)
(* The iSCSI session stays logged in, with its device, while any target    *)
(* path of the volume is mounted: DetachDisk tears it down only after the  *)
(* unmount that leaves no mount of the device (the cnt-- check).           *)
(***************************************************************************)
SessionOutlivesMounts == mounted # {} => session = "up"

(***************************************************************************)
(* A pod the kubelet has successfully unpublished is no longer mounted:    *)
(* every path on which DetachDisk returns nil leaves the target unmounted. *)
(***************************************************************************)
UnpublishedPathUnmounted ==
    \A p \in Paths : kube[p].phase = "unpublished" => p \notin mounted

(***************************************************************************)
(* When no AttachDisk is running, a logged-in session is recorded in the   *)
(* descriptor file, so that DetachDisk (or a restarted plugin) can find    *)
(* it (spec section 4.5, Attach step 6; the log message at                 *)
(* iscsi_util.go:44 says the volume is disconnected).                      *)
(***************************************************************************)
NoUnpersistedSession ==
    (\A p \in Paths : hs[p].pc \notin AttachPCs) /\ session # "down"
        => descriptor = "ok"

(***************************************************************************)
(* Every unpublish the kubelet starts eventually succeeds: DetachDisk,     *)
(* retried, reaches the end whatever step an earlier attempt stopped at.   *)
(***************************************************************************)
UnpublishCompletes ==
    \A p \in Paths : kube[p].phase = "unpublish" ~> kube[p].phase = "unpublished"

(***************************************************************************)
(* Every publish the kubelet keeps asking for eventually succeeds or is    *)
(* given up: a retry of AttachDisk is not blocked by what a failed attempt *)
(* left behind (a logged-in session, the target directory, a truncated     *)
(* descriptor).                                                            *)
(***************************************************************************)
PublishCompletes ==
    \A p \in Paths : kube[p].phase = "publish" ~> kube[p].phase # "publish"

-----------------------------------------------------------------------------
(* Refinement of the attachment contract (Attachment).                     *)

\* The call running for p, by the handler's program counter.
RunningCall(p) ==
    CASE hs[p].pc \in AttachPCs -> "publish"
      [] hs[p].pc \in DetachPCs -> "unpublish"
      [] OTHER                  -> "none"

Contract == INSTANCE Attachment
               WITH mnt <- mounted,
                    live <- session = "up",
                    ops <- [p \in Paths |-> RunningCall(p)],
                    phase <- [p \in Paths |-> kube[p].phase],
                    restarts <- crashes

(***************************************************************************)
(* AttachDisk and DetachDisk implement the attachment contract: mounts and *)
(* the session change only in the call and the order it allows, and the   *)
(* kubelet hears success for a publish only once the path is mounted and   *)
(* for an unpublish only once it is not, across failed library calls,      *)
(* retries over what an earlier attempt left, and a plugin restart.        *)
(***************************************************************************)
ImplementsAttachment == Contract!Spec

=============================================================================
