----------------------------- MODULE Workspaces -----------------------------
(***************************************************************************)
(* A workspace with what its owner and its desktops change in it at the    *)
(* same time: host bindings (Hosts) and rows with keys (Variables), and    *)
(* its deletion, which takes everything along.                             *)
(***************************************************************************)
EXTENDS Hosts, Variables

CONSTANTS
  Budget,    \* bound: what the requests made may cost, ...
  HostCost,  \* ... those about hosts ...
  RowCost,   \* ... and those about rows
  MaxVersion \* bound: versions a request names

ASSUME WorkspacesAssumption == {Budget, HostCost, RowCost, MaxVersion} \subseteq Nat

VARIABLE spent \* what the requests made so far cost

vars == <<hostVars, varVars, spent>>

-----------------------------------------------------------------------------
Init == HostsInit /\ VariablesInit /\ spent = 0

\* A request starts.
Request(cost) == spent + cost <= Budget /\ spent' = spent + cost

Version == 0 .. MaxVersion

HostRequest ==
  /\ Request(HostCost)
  /\ \E s \in HostSlot :
       \/ \E name \in HostName : PostHost(s, name)
       \/ \E b \in BindingId : Verify(s, b) \/ DeleteHost(s, b)
  /\ UNCHANGED varVars

VariableRequest ==
  /\ Request(RowCost) /\ workspace.live
  /\ \/ \E s \in VarSlot, i \in VarId, b \in Body, v \in Version : Push(s, i, b, v)
     \/ \E s \in VarSlot, i \in VarId, v \in Version : Drop(s, i, v)
     \/ \E s \in VarSlot, k \in Key, t \in Text, secret \in BOOLEAN, v \in Version : Put(s, k, t, secret, v)
     \/ \E s \in VarSlot, k \in Key, v \in Version : Delete(s, k, v)
     \/ DeleteParent
  /\ UNCHANGED hostVars

\* DELETE waits for transactions that hold rows of the workspace.
DeleteWorkspace ==
  /\ Request(HostCost) /\ workspace.live /\ InTransaction = {}
  /\ workspace' = [workspace EXCEPT !.live = FALSE]
  /\ bindings' = [b \in BindingId |-> NoBinding]
  /\ parent' = FALSE
  /\ stored' = [i \in VarId |-> NoRow]
  /\ UNCHANGED <<made, dns, hostCall, proven, drifted, scope, lives, feed, varCall>>

Next ==
  \/ HostRequest \/ VariableRequest \/ DeleteWorkspace
  \/ (ChangeDns \/ \E s \in HostSlot : HostStatement(s)) /\ UNCHANGED <<varVars, spent>>
  \/ (\E s \in VarSlot : VariableStatement(s)) /\ UNCHANGED <<hostVars, spent>>

Spec == Init /\ [][Next]_vars
=============================================================================
