--------------------------- MODULE VolumeLifecycle ---------------------------
(***************************************************************************)
(* What the provisioning orchestrator promises about the appliance-side    *)
(* resources of each volume name, whatever fails in between.  A name's     *)
(* volume is absent (nothing of that name on the appliance), partial       *)
(* (some target or LUN of that name, but no complete volume) or present    *)
(* (a target of that name with its initiator binding and a ready LUN of    *)
(* that name attached).                                                    *)
(*                                                                         *)
(* The promise: the resources of a name change only while a request for   *)
(* that name runs, one level at a time; only CreateVolume builds, and any  *)
(* request may tear down (DeleteVolume, or CreateVolume's rollback).       *)
(***************************************************************************)
EXTENDS Naturals

CONSTANT Names

VARIABLES
    vol,   \* name -> Absent, Partial or Present
    ops    \* name -> kinds of request running for it

Absent == 0
Partial == 1
Present == 2

Ops == {"create", "delete"}

TypeOK ==
    /\ vol \in [Names -> {Absent, Partial, Present}]
    /\ ops \in [Names -> SUBSET Ops]

Init ==
    /\ vol = [n \in Names |-> Absent]
    /\ ops = [n \in Names |-> {}]

\* A request of kind op for n starts.
Begin(n, op) ==
    /\ ops' = [ops EXCEPT ![n] = @ \cup {op}]
    /\ UNCHANGED vol

\* The last running request of kind op for n returns.
End(n, op) ==
    /\ op \in ops[n]
    /\ ops' = [ops EXCEPT ![n] = @ \ {op}]
    /\ UNCHANGED vol

\* Ending the request of kind op for n, or not, in the same step.
MayEnd(n, op) == ops' \in {ops, [ops EXCEPT ![n] = @ \ {op}]}

\* A running CreateVolume takes n one level up.
Build(n) ==
    /\ "create" \in ops[n]
    /\ vol[n] # Present
    /\ vol' = [vol EXCEPT ![n] = @ + 1]
    /\ MayEnd(n, "create")

\* Any running request for n takes it one level down.
TearDown(n) ==
    /\ vol[n] # Absent
    /\ \E op \in ops[n] :
          /\ vol' = [vol EXCEPT ![n] = @ - 1]
          /\ MayEnd(n, op)

\* The plugin restarts: no request runs any more.
Restart ==
    /\ ops' = [n \in Names |-> {}]
    /\ UNCHANGED vol

Next ==
    \/ \E n \in Names, op \in Ops : Begin(n, op) \/ End(n, op)
    \/ \E n \in Names : Build(n) \/ TearDown(n)
    \/ Restart

Spec == Init /\ [][Next]_<<vol, ops>>
=============================================================================
