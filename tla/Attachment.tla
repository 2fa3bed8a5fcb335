----------------------------- MODULE Attachment -----------------------------
(***************************************************************************)
(* What the attachment lifecycle manager promises the kubelet about one    *)
(* volume on one node (spec section 4.5), whatever fails in between:      *)
(*                                                                         *)
(*  - a target path is mounted only by a running publish of that path,     *)
(*    while the session's device is live, and unmounted only by a running  *)
(*    unpublish of that path;                                              *)
(*  - the session comes up only for a publish, and goes down only for an   *)
(*    unpublish once no path is mounted any more;                          *)
(*  - a publish answers success only for a mounted path, an unpublish only *)
(*    for a path no longer mounted;                                        *)
(*  - a plugin restart ends every call; a publish cut short may be         *)
(*    followed by an unpublish (the kubelet is uncertain of its outcome).  *)
(***************************************************************************)
EXTENDS Naturals

CONSTANT Paths

VARIABLES
    mnt,       \* target paths the volume's device is mounted on
    live,      \* the iSCSI session is logged in with its device
    ops,       \* path -> the call running for it: "none", "publish", "unpublish"
    phase,     \* path -> what the kubelet wants next (as in Node)
    restarts   \* plugin restarts so far

avars == <<mnt, live, ops, phase, restarts>>

Init ==
    /\ mnt = {}
    /\ live = FALSE
    /\ ops = [p \in Paths |-> "none"]
    /\ phase = [p \in Paths |-> "publish"]
    /\ restarts = 0

\* The kubelet starts the call its phase for p asks for.
Begin(p) ==
    /\ ops[p] = "none"
    /\ phase[p] \in {"publish", "unpublish"}
    /\ ops' = [ops EXCEPT ![p] = phase[p]]
    /\ UNCHANGED <<mnt, live, phase, restarts>>

\* The mount table after one step of p's call.
MountsAfter(p) ==
    {mnt}
    \cup (IF ops[p] = "publish" /\ live THEN {mnt \cup {p}} ELSE {})
    \cup (IF ops[p] = "unpublish" THEN {mnt \ {p}} ELSE {})

\* The session after one step of p's call.
LiveAfter(p) ==
    {live}
    \cup (IF ops[p] = "publish" THEN {TRUE} ELSE {})
    \cup (IF ops[p] = "unpublish" /\ mnt' = {} THEN {FALSE} ELSE {})

\* The phases an answer to p's call may leave, given the mounts after it.
Answers(p) ==
    {phase[p]}
    \cup (IF ops[p] = "publish"
          THEN {"abandoned"} \cup (IF p \in mnt' THEN {"unpublish"} ELSE {})
          ELSE {})
    \cup (IF ops[p] = "unpublish" /\ p \notin mnt' THEN {"unpublished"} ELSE {})

\* One step of p's running call, possibly its answer.
Work(p) ==
    /\ ops[p] # "none"
    /\ mnt' \in MountsAfter(p)
    /\ live' \in LiveAfter(p)
    /\ \/ /\ UNCHANGED <<ops, phase>>
       \/ /\ ops' = [ops EXCEPT ![p] = "none"]
          /\ \E ph \in Answers(p) : phase' = [phase EXCEPT ![p] = ph]
    /\ UNCHANGED restarts

\* The plugin restarts: every call ends, and an interrupted publish may
\* turn into an unpublish.
Restart ==
    /\ restarts' = restarts + 1
    /\ ops' = [p \in Paths |-> "none"]
    /\ \E ph \in [Paths -> {"publish", "unpublish"}] :
          phase' = [p \in Paths |-> IF ops[p] = "publish" THEN ph[p] ELSE phase[p]]
    /\ UNCHANGED <<mnt, live>>

Next ==
    \/ \E p \in Paths : Begin(p) \/ Work(p)
    \/ Restart

Spec == Init /\ [][Next]_avars
=============================================================================
