----------------------------- MODULE Controller -----------------------------
(***************************************************************************)
(* The provisioning orchestrator of the controller plugin                 *)
(* (src/driver/controller.go CreateVolume / DeleteVolume) running against *)
(* the appliance's iSCSI target and LUN tables (src/qnap/api.go).          *)
(*                                                                         *)
(* Every name has one orchestrator client (the CO) that sends CreateVolume *)
(* and DeleteVolume requests for it, one at a time, and may give up on a   *)
(* request (an RPC timeout) while the handler goroutine keeps running.     *)
(* A handler is one goroutine of the gRPC server executing a request; its  *)
(* appliance calls are its steps.  Each call may fail: "reject" fails      *)
(* without effect, "lost" takes effect on the appliance but the response   *)
(* is lost (transport error).  The plugin process may crash, abandoning    *)
(* every in-flight handler.                                                *)
(***************************************************************************)
EXTENDS Naturals, FiniteSets, FiniteSetsExt, Functions, TLC

CONSTANTS
    Names,        \* normalised volume names (cleanISCSIName already applied)
    Handlers,     \* handler goroutine slots of the gRPC server
    Indices,      \* index space the appliance assigns to targets and LUNs
    Faults,       \* subset of {"reject", "lost"}: how an appliance call may fail
    FaultyCalls,  \* the appliance calls that may fail
    MaxFaults,    \* bound on failed appliance calls in a behaviour
    MaxRequests,  \* bound on requests the CO sends per name
    MaxTimeouts,  \* bound on RPCs the CO gives up on
    MaxCrashes,   \* bound on plugin process crashes
    NoHandler     \* model value: the CO has no request outstanding

ASSUME Faults \subseteq {"reject", "lost"}
ASSUME FaultyCalls \subseteq {"Login", "ListTargets", "CreateTarget",
                              "CreateInitiator", "CreateLUN", "GetLUN",
                              "AttachLUN", "DeleteTarget", "DeleteLUN"}
ASSUME Indices \subseteq Nat \ {0} /\ NoHandler \notin Handlers

VARIABLES
    targets,   \* appliance: target index -> [name, init, luns]
    luns,      \* appliance: LUN index -> [name, status]
    hs,        \* handler slot -> local state of the request it executes
    co,        \* name -> [busy, last, sent] of the CO for that name
    faults,    \* failed appliance calls so far
    timeouts,  \* RPCs given up on so far
    crashes    \* plugin crashes so far

vars == <<targets, luns, hs, co, faults, timeouts, crashes>>

Results == {"none", "created", "exists", "deleted", "internal", "timeout",
            "unavailable", "confirmed", "notfound"}

PCs == {"free", "c_list", "c_target", "c_init", "c_lun", "c_poll",
        "c_attach", "c_relist", "d_list", "d_target", "d_luns", "v_list"}

FreeHandler == [pc |-> "free", name |-> CHOOSE n \in Names : TRUE,
                tgt |-> 0, lun |-> 0, todo |-> {}]

TypeOK ==
    /\ DOMAIN targets \subseteq Indices
    /\ \A t \in DOMAIN targets :
          targets[t] \in [name : Names, init : BOOLEAN, luns : SUBSET Indices]
    /\ DOMAIN luns \subseteq Indices
    /\ \A l \in DOMAIN luns :
          luns[l] \in [name : Names, status : {"creating", "ready"}]
    /\ hs \in [Handlers -> [pc : PCs, name : Names, tgt : Indices \cup {0},
                            lun : Indices \cup {0}, todo : SUBSET Indices]]
    /\ co \in [Names -> [busy : Handlers \cup {NoHandler}, last : Results,
                         vol : Indices \cup {0}, sent : 0..MaxRequests]]
    /\ faults \in 0..MaxFaults
    /\ timeouts \in 0..MaxTimeouts
    /\ crashes \in 0..MaxCrashes

Init ==
    /\ targets = <<>>
    /\ luns = <<>>
    /\ hs = [h \in Handlers |-> FreeHandler]
    /\ co = [n \in Names |-> [busy |-> NoHandler, last |-> "none", vol |-> 0,
                                sent |-> 0]]
    /\ faults = 0
    /\ timeouts = 0
    /\ crashes = 0

-----------------------------------------------------------------------------
(* The appliance.                                                          *)

\* Outcomes of one call of the appliance API: success, or one of the
\* failures the configuration allows while the fault budget lasts.
\* spent is what earlier calls of the same step already used of the budget.
OutcomesAfter(call, spent) ==
    {"ok"} \cup (IF call \in FaultyCalls /\ faults + spent < MaxFaults
                 THEN Faults ELSE {})

Outcomes(call) == OutcomesAfter(call, 0)

\* The ways in which one of the calls can fail.
Failures(calls) == UNION {Outcomes(c) : c \in calls} \ {"ok"}

\* The call reached the appliance and changed its state.
Effective(o) == o \in {"ok", "lost"}

Cost(o) == IF o = "ok" THEN 0 ELSE 1

\* The index the appliance assigns next: the lowest one not in use, so
\* indices of deleted resources are reused.
NewIndex(used) == Min(Indices \ used)

\* Targets whose name is n, in the order GetStorageISCSITargetList lists
\* them (by index).
TargetsNamed(n) == {t \in DOMAIN targets : targets[t].name = n}

\* remove_lun drops the LUN and, with it, its attachment to any target.
RemoveLUN(l) == Restrict(luns, DOMAIN luns \ {l})

DetachLUN(ts, l) == [t \in DOMAIN ts |-> [ts[t] EXCEPT !.luns = @ \ {l}]]

\* add_lun creates a block LUN; the appliance finishes creating it later.
LUNReady(l) ==
    /\ luns[l].status = "creating"
    /\ luns' = [luns EXCEPT ![l].status = "ready"]
    /\ UNCHANGED <<targets, hs, co, faults, timeouts, crashes>>

-----------------------------------------------------------------------------
(* The CO side and the gRPC server.                                        *)

\* The CO sends a request for name n; a handler goroutine starts on it.
Send(n, op, h) ==
    /\ co[n].busy = NoHandler
    /\ co[n].sent < MaxRequests
    /\ hs[h].pc = "free"
    /\ hs' = [hs EXCEPT ![h] = [FreeHandler EXCEPT !.pc = op, !.name = n]]
    /\ co' = [co EXCEPT ![n].busy = h, ![n].sent = @ + 1]
    /\ UNCHANGED <<targets, luns, faults, timeouts, crashes>>

\* The handler returns res (and, for a created volume, the target index
\* vol its IQN names); the response reaches the CO only if the CO is still
\* waiting for this handler.
Finish(h, res, vol) ==
    /\ hs' = [hs EXCEPT ![h] = FreeHandler]
    /\ co' = IF co[hs[h].name].busy = h
                THEN [co EXCEPT ![hs[h].name].busy = NoHandler,
                                ![hs[h].name].last = res,
                                ![hs[h].name].vol = vol]
                ELSE co

\* The CO's RPC deadline passes; the handler is not cancelled (the handlers
\* never consult ctx).
Timeout(n) ==
    /\ co[n].busy # NoHandler
    /\ timeouts < MaxTimeouts
    /\ co' = [co EXCEPT ![n].busy = NoHandler, ![n].last = "timeout"]
    /\ timeouts' = timeouts + 1
    /\ UNCHANGED <<targets, luns, hs, faults, crashes>>

\* The plugin process dies and restarts: every handler is gone, every
\* outstanding RPC fails.  The appliance keeps its state.
Crash ==
    /\ crashes < MaxCrashes
    /\ \E h \in Handlers : hs[h].pc # "free"
    /\ hs' = [h \in Handlers |-> FreeHandler]
    /\ co' = [n \in Names |->
                IF co[n].busy = NoHandler THEN co[n]
                ELSE [co[n] EXCEPT !.busy = NoHandler, !.last = "unavailable"]]
    /\ crashes' = crashes + 1
    /\ UNCHANGED <<targets, luns, faults, timeouts>>

-----------------------------------------------------------------------------
(* CreateVolume: one action per appliance call, each with the error path  *)
(* and best-effort rollback the code takes after it.                      *)

\* Login, then list targets: fail, or refuse a name that already has a
\* target (the idempotency gate), or go on to create the target.
CreateList(h) ==
    LET n == hs[h].name IN
    /\ hs[h].pc = "c_list"
    /\ \/ \E o \in Failures({"Login", "ListTargets"}) :
             /\ faults' = faults + 1
             /\ Finish(h, "internal", 0)
       \/ /\ TargetsNamed(n) # {}
          /\ Finish(h, "exists", 0)
          /\ UNCHANGED faults
       \/ /\ TargetsNamed(n) = {}
          /\ hs' = [hs EXCEPT ![h].pc = "c_target"]
          /\ UNCHANGED <<co, faults>>
    /\ UNCHANGED <<targets, luns, timeouts, crashes>>

\* CreateStorageISCSITarget(n) with outcome o: add_target puts the target
\* at the lowest free index, or refuses (a negative result) when none is
\* free; the client returns the index only for an answered success.
CreateStorageISCSITarget(n, o) ==
    LET free == Indices \ DOMAIN targets
        i    == IF free # {} THEN NewIndex(DOMAIN targets) ELSE 0
    IN  [targets |-> IF Effective(o) /\ free # {}
                     THEN targets @@ (i :> [name |-> n, init |-> FALSE, luns |-> {}])
                     ELSE targets,
         ok      |-> o = "ok" /\ free # {},
         index   |-> i]

CreateTarget(h) ==
    /\ hs[h].pc = "c_target"
    /\ \E o \in Outcomes("CreateTarget") :
          LET r == CreateStorageISCSITarget(hs[h].name, o) IN
          /\ faults' = faults + Cost(o)
          /\ targets' = r.targets
          /\ \/ /\ r.ok
                /\ hs' = [hs EXCEPT ![h].pc = "c_init", ![h].tgt = r.index]
                /\ UNCHANGED co
             \/ /\ ~r.ok
                /\ Finish(h, "internal", 0)
    /\ UNCHANGED <<luns, timeouts, crashes>>

\* DeleteStorageISCSITarget(t) with outcome r applied to the target table
\* ts: remove_target drops the target with its initiator binding and its
\* LUN attachments; the LUNs themselves stay.
RollbackTarget(ts, t, r) ==
    IF Effective(r) /\ t \in DOMAIN ts THEN Restrict(ts, DOMAIN ts \ {t})
    ELSE ts

\* CreateStorageISCSIInitiator(t) with outcome o: add_init binds target t
\* to any initiator; the appliance accepts an index it does not know.
CreateStorageISCSIInitiator(t, o) ==
    IF Effective(o) /\ t \in DOMAIN targets
    THEN [targets EXCEPT ![t].init = TRUE]
    ELSE targets

\* On failure the target is deleted.
CreateInitiator(h) ==
    LET t == hs[h].tgt IN
    /\ hs[h].pc = "c_init"
    /\ \E o \in Outcomes("CreateInitiator") :
          LET bound == CreateStorageISCSIInitiator(t, o) IN
          \/ /\ o = "ok"
             /\ targets' = bound
             /\ faults' = faults
             /\ hs' = [hs EXCEPT ![h].pc = "c_lun"]
             /\ UNCHANGED co
          \/ /\ o # "ok"
             /\ \E r \in OutcomesAfter("DeleteTarget", 1) :
                   /\ targets' = RollbackTarget(bound, t, r)
                   /\ faults' = faults + 1 + Cost(r)
             /\ Finish(h, "internal", 0)
    /\ UNCHANGED <<luns, timeouts, crashes>>

\* CreateStorageISCSIBlockLUN(n) with outcome o: add_lun creates a block
\* LUN named n at the lowest free index, which the appliance finishes
\* creating later, or refuses when none is free.
CreateStorageISCSIBlockLUN(n, o) ==
    LET free == Indices \ DOMAIN luns
        l    == IF free # {} THEN NewIndex(DOMAIN luns) ELSE 0
    IN  [luns  |-> IF Effective(o) /\ free # {}
                   THEN luns @@ (l :> [name |-> n, status |-> "creating"])
                   ELSE luns,
         ok    |-> o = "ok" /\ free # {},
         index |-> l]

\* On failure the target is deleted (a LUN created by a call whose
\* response was lost stays).
CreateLUN(h) ==
    LET t == hs[h].tgt IN
    /\ hs[h].pc = "c_lun"
    /\ \E o \in Outcomes("CreateLUN") :
          LET r == CreateStorageISCSIBlockLUN(hs[h].name, o) IN
          /\ luns' = r.luns
          /\ \/ /\ r.ok
                /\ hs' = [hs EXCEPT ![h].pc = "c_poll", ![h].lun = r.index]
                /\ UNCHANGED <<co, targets, faults>>
             \/ /\ ~r.ok
                /\ \E d \in OutcomesAfter("DeleteTarget", Cost(o)) :
                      /\ targets' = RollbackTarget(targets, t, d)
                      /\ faults' = faults + Cost(o) + Cost(d)
                /\ Finish(h, "internal", 0)
    /\ UNCHANGED <<timeouts, crashes>>

\* Mutant: the loop leaves after the first successful read, whatever the
\* status.
CreatePollNoWait(h) ==
    /\ hs[h].pc = "c_poll"
    /\ \/ \E o \in Failures({"GetLUN"}) :
             /\ faults' = faults + 1
             /\ Finish(h, "internal", 0)
       \/ /\ hs' = [hs EXCEPT ![h].pc = "c_attach"]
          /\ UNCHANGED <<co, faults>>
    /\ UNCHANGED <<targets, luns, timeouts, crashes>>

\* Mutant: the loop condition is inverted (sleep unless "creating").
CreatePollInverted(h) ==
    LET l == hs[h].lun IN
    /\ hs[h].pc = "c_poll"
    /\ \/ \E o \in Failures({"GetLUN"}) :
             /\ faults' = faults + 1
             /\ Finish(h, "internal", 0)
       \/ /\ l \in DOMAIN luns /\ luns[l].status = "creating"
          /\ hs' = [hs EXCEPT ![h].pc = "c_attach"]
          /\ UNCHANGED <<co, faults>>
    /\ UNCHANGED <<targets, luns, timeouts, crashes>>

\* The readiness loop: GetStorageISCSILun until the status is not
\* "creating" (a LUN the appliance does not have reads as "not_found").
\* A failed read returns without any rollback.
CreatePoll(h) ==
    LET l == hs[h].lun IN
    /\ hs[h].pc = "c_poll"
    /\ \/ \E o \in Failures({"GetLUN"}) :
             /\ faults' = faults + 1
             /\ Finish(h, "internal", 0)
       \/ /\ ~(l \in DOMAIN luns /\ luns[l].status = "creating")
          /\ hs' = [hs EXCEPT ![h].pc = "c_attach"]
          /\ UNCHANGED <<co, faults>>
    /\ UNCHANGED <<targets, luns, timeouts, crashes>>

\* AttachStorageISCSITargetLUN(l, t) with outcome o: the appliance refuses
\* an unknown target or LUN index (a non-zero result).
AttachStorageISCSITargetLUN(l, t, o) ==
    LET known == t \in DOMAIN targets /\ l \in DOMAIN luns IN
    [targets |-> IF Effective(o) /\ known
                 THEN [targets EXCEPT ![t].luns = @ \cup {l}]
                 ELSE targets,
     ok      |-> o = "ok" /\ known]

\* On failure both the target and the LUN are deleted, each best-effort.
CreateAttach(h) ==
    LET t == hs[h].tgt
        l == hs[h].lun
    IN
    /\ hs[h].pc = "c_attach"
    /\ \E o \in Outcomes("AttachLUN") :
          LET r == AttachStorageISCSITargetLUN(l, t, o) IN
          \/ /\ r.ok
             /\ targets' = r.targets
             /\ hs' = [hs EXCEPT ![h].pc = "c_relist"]
             /\ UNCHANGED <<co, luns, faults>>
          \/ /\ ~r.ok
             /\ \E r1 \in OutcomesAfter("DeleteTarget", Cost(o)) :
                \E r2 \in OutcomesAfter("DeleteLUN", Cost(o) + Cost(r1)) :
                   /\ LET left == RollbackTarget(r.targets, t, r1) IN
                      \/ /\ Effective(r2) /\ l \in DOMAIN luns
                         /\ luns' = RemoveLUN(l)
                         /\ targets' = DetachLUN(left, l)
                      \/ /\ ~(Effective(r2) /\ l \in DOMAIN luns)
                         /\ UNCHANGED luns
                         /\ targets' = left
                   /\ faults' = faults + Cost(o) + Cost(r1) + Cost(r2)
             /\ Finish(h, "internal", 0)
    /\ UNCHANGED <<timeouts, crashes>>

\* List the targets again to read the IQN of the first target with the
\* volume's name.
CreateRelist(h) ==
    LET n == hs[h].name IN
    /\ hs[h].pc = "c_relist"
    /\ \/ \E o \in Failures({"ListTargets"}) :
             /\ faults' = faults + 1
             /\ Finish(h, "internal", 0)
       \/ /\ TargetsNamed(n) # {}
          /\ Finish(h, "created", Min(TargetsNamed(n)))
          /\ UNCHANGED faults
       \/ /\ TargetsNamed(n) = {}
          /\ Finish(h, "internal", 0)
          /\ UNCHANGED faults
    /\ UNCHANGED <<targets, luns, timeouts, crashes>>

-----------------------------------------------------------------------------
(* DeleteVolume.                                                           *)

\* Login, list, and take the first target with the volume's name together
\* with the LUN list the listing reports for it; no such target is success.
DeleteList(h) ==
    LET n == hs[h].name IN
    /\ hs[h].pc = "d_list"
    /\ \/ \E o \in Failures({"Login", "ListTargets"}) :
             /\ faults' = faults + 1
             /\ Finish(h, "internal", 0)
       \/ /\ TargetsNamed(n) = {}
          /\ Finish(h, "deleted", 0)
          /\ UNCHANGED faults
       \/ /\ TargetsNamed(n) # {}
          /\ LET t == Min(TargetsNamed(n)) IN
             hs' = [hs EXCEPT ![h].pc = "d_target", ![h].tgt = t,
                              ![h].todo = targets[t].luns]
          /\ UNCHANGED <<co, faults>>
    /\ UNCHANGED <<targets, luns, timeouts, crashes>>

\* remove_target comes first; its result must echo the index.
DeleteTarget(h) ==
    LET t == hs[h].tgt IN
    /\ hs[h].pc = "d_target"
    /\ \E o \in Outcomes("DeleteTarget") :
          /\ faults' = faults + Cost(o)
          /\ targets' = RollbackTarget(targets, t, o)
          /\ \/ /\ o = "ok" /\ t \in DOMAIN targets
                /\ hs' = [hs EXCEPT ![h].pc = "d_luns"]
                /\ UNCHANGED co
             \/ /\ o # "ok" \/ t \notin DOMAIN targets
                /\ Finish(h, "internal", 0)
    /\ UNCHANGED <<luns, timeouts, crashes>>

\* remove_lun for every LUN the listing reported, in turn; the first
\* failure ends the request; the appliance accepts an unknown index.
DeleteLUNs(h) ==
    /\ hs[h].pc = "d_luns"
    /\ \/ /\ hs[h].todo = {}
          /\ Finish(h, "deleted", 0)
          /\ UNCHANGED <<targets, luns, faults>>
       \/ \E l \in hs[h].todo, o \in Outcomes("DeleteLUN") :
             /\ faults' = faults + Cost(o)
             /\ IF Effective(o) /\ l \in DOMAIN luns
                   THEN luns' = RemoveLUN(l) /\ targets' = DetachLUN(targets, l)
                   ELSE UNCHANGED <<luns, targets>>
             /\ \/ /\ o = "ok"
                   /\ hs' = [hs EXCEPT ![h].todo = @ \ {l}]
                   /\ UNCHANGED co
                \/ /\ o # "ok"
                   /\ Finish(h, "internal", 0)
    /\ UNCHANGED <<timeouts, crashes>>

-----------------------------------------------------------------------------
(* ValidateVolumeCapabilities.                                             *)

\* Login, list, and look for a target whose name is the volume id; the
\* capabilities are confirmed as the one supported mode without checking.
ValidateList(h) ==
    LET n == hs[h].name IN
    /\ hs[h].pc = "v_list"
    /\ \/ \E o \in Failures({"Login", "ListTargets"}) :
             /\ faults' = faults + 1
             /\ Finish(h, "internal", 0)
       \/ /\ Finish(h, IF TargetsNamed(n) # {} THEN "confirmed" ELSE "notfound", 0)
          /\ UNCHANGED faults
    /\ UNCHANGED <<targets, luns, timeouts, crashes>>

-----------------------------------------------------------------------------

HandlerStep(h) ==
    \/ CreateList(h) \/ CreateTarget(h) \/ CreateInitiator(h)
    \/ CreateLUN(h) \/ CreatePoll(h) \/ CreateAttach(h) \/ CreateRelist(h)
    \/ DeleteList(h) \/ DeleteTarget(h) \/ DeleteLUNs(h)
    \/ ValidateList(h)

\* Every CO has sent all its requests and every handler has returned.
Quiescent ==
    /\ \A n \in Names : co[n].sent = MaxRequests /\ co[n].busy = NoHandler
    /\ \A h \in Handlers : hs[h].pc = "free"
    /\ \A l \in DOMAIN luns : luns[l].status = "ready"
    /\ UNCHANGED vars

Next ==
    \/ \E n \in Names, op \in {"c_list", "d_list", "v_list"}, h \in Handlers :
          Send(n, op, h)
    \/ \E h \in Handlers : HandlerStep(h)
    \/ \E n \in Names : Timeout(n)
    \/ Crash
    \/ \E l \in DOMAIN luns : LUNReady(l)
    \/ Quiescent

\* Handler goroutines keep running while they have work; the appliance
\* eventually finishes creating every LUN.  The CO owes nothing.
Fairness ==
    /\ \A h \in Handlers : WF_vars(HandlerStep(h))
    /\ \A l \in Indices : WF_vars(l \in DOMAIN luns /\ LUNReady(l))

Spec == Init /\ [][Next]_vars /\ Fairness

-----------------------------------------------------------------------------
(* Properties.                                                             *)

\* The answer a CO holds for a name is true of the appliance: after
\* CreateVolume returned a volume, the target its IQN names carries the
\* volume's name and its initiator binding, and has a LUN of that name
\* attached that the appliance has finished creating; after DeleteVolume
\* returned success, no target of that name is left; ValidateVolumeCapabilities
\* confirms a volume that has a target and reports NotFound for one that
\* has none.  Failures, lost responses, retries, crashes and other names'
\* requests (which reuse freed indices) in between must not falsify it.
OutcomeReflectsAppliance ==
    \A n \in Names : co[n].busy = NoHandler =>
        /\ co[n].last = "created" =>
              LET t == co[n].vol IN
              /\ t \in DOMAIN targets
              /\ targets[t].name = n
              /\ targets[t].init
              /\ targets[t].luns # {}
              /\ \A l \in targets[t].luns :
                    l \in DOMAIN luns /\ luns[l].name = n
                    /\ luns[l].status = "ready"
        /\ co[n].last = "deleted" => TargetsNamed(n) = {}
        /\ co[n].last = "confirmed" => TargetsNamed(n) # {}
        /\ co[n].last = "notfound" => TargetsNamed(n) = {}

\* DeleteVolume's success means the volume's storage is gone: no LUN of
\* that name is left on the appliance (spec: teardown is complete; Delete
\* deletes the LUNs and then the target).
DeletedVolumeLeavesNoLUN ==
    \A n \in Names : (co[n].busy = NoHandler /\ co[n].last = "deleted") =>
        \A l \in DOMAIN luns : luns[l].name # n

\* Every request a handler starts returns: the readiness loop ends once the
\* appliance has finished the LUN, and no other step waits.
RequestsComplete ==
    \A h \in Handlers : hs[h].pc # "free" ~> hs[h].pc = "free"

-----------------------------------------------------------------------------
(* Refinement of the per-name volume lifecycle (VolumeLifecycle).          *)

\* The appliance holds the complete volume n: a target of that name with
\* its initiator binding and a ready LUN of that name attached.
VolumeComplete(n) ==
    \E t \in TargetsNamed(n) :
        /\ targets[t].init
        /\ \E l \in targets[t].luns :
              l \in DOMAIN luns /\ luns[l].name = n /\ luns[l].status = "ready"

\* Some target or LUN of name n exists.
VolumeHeld(n) ==
    TargetsNamed(n) # {} \/ \E l \in DOMAIN luns : luns[l].name = n

VolumeLevel(n) ==
    IF VolumeComplete(n) THEN 2 ELSE IF VolumeHeld(n) THEN 1 ELSE 0

\* The kinds of request the running handlers execute for n (a
\* ValidateVolumeCapabilities request is neither).
RunningOps(n) ==
    {IF hs[h].pc \in {"d_list", "d_target", "d_luns"} THEN "delete"
                                                      ELSE "create" :
        h \in {g \in Handlers : hs[g].pc \notin {"free", "v_list"}
                                /\ hs[g].name = n}}

Lifecycle == INSTANCE VolumeLifecycle
                WITH vol <- [n \in Names |-> VolumeLevel(n)],
                     ops <- [n \in Names |-> RunningOps(n)]

\* CreateVolume and DeleteVolume implement the per-name lifecycle: the
\* appliance resources of a name change only while a request for that name
\* runs, one level at a time, only a create builds, and no request for one
\* name touches the resources of another (despite index reuse across
\* names, lost responses, rollbacks and a crash).
ImplementsLifecycle == Lifecycle!Spec

=============================================================================
