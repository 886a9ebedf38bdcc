-------------------------------- MODULE Hosts --------------------------------
(***************************************************************************)
(* The host names bound to a workspace.  A name under the shared domain    *)
(* (`dedicated_subdomain') is active at once; any other (`custom_domain')  *)
(* becomes active when its DNS answers with the token of the binding.      *)
(* workspaces.hostMode is kept beside the bindings, by statements of the   *)
(* transaction that changed one.                                           *)
(*                                                                         *)
(* A transaction writes its binding (which others see at the commit, and   *)
(* cannot touch before), reads the newest active one, and writes the mode. *)
(***************************************************************************)
EXTENDS Integers, FiniteSetsExt

CONSTANTS
  HostSlot,  \* requests about hosts that may run at the same time
  HostName,  \* host names
  SharedName, \* those under SLINGER_SHARED_DOMAIN
  MaxBinding \* bound: bindings made; their numbers are ids, tokens and ages

ASSUME HostsAssumption == SharedName \subseteq HostName /\ MaxBinding \in Nat

VARIABLES
  workspace, \* its row: [live, hostMode]
  bindings,  \* workspace_hosts, committed, by id
  made,      \* bindings created so far, aborted ones included
  dns,       \* external: the TXT records of each name, as tokens
  hostCall,  \* the request of each slot
  proven,    \* history: bindings whose token a query of their name returned
  drifted    \* history: the last transaction to write the mode ran beside another

hostVars == <<workspace, bindings, made, dns, hostCall, proven, drifted>>

-----------------------------------------------------------------------------
BindingId == 1 .. MaxBinding
KindOf(name) == IF name \in SharedName THEN "dedicated_subdomain" ELSE "custom_domain"
Mode == {"shared", "dedicated_subdomain", "custom_domain"}

\* A binding: its name, status, and whether the row exists.
NoBinding == [name |-> "", status |-> "none"]
Exists(b) == bindings[b].status # "none"

NoCall == [pc |-> "idle", op |-> "none", id |-> 0, row |-> NoBinding, mode |-> "shared", alone |-> TRUE]

HostsInit ==
  /\ workspace = [live |-> TRUE, hostMode |-> "shared"]
  /\ bindings = [b \in BindingId |-> NoBinding]
  /\ made = 0
  /\ dns = [n \in HostName |-> {}]
  /\ hostCall = [s \in HostSlot |-> NoCall]
  /\ proven = {}
  /\ drifted = FALSE

-----------------------------------------------------------------------------
(* Transactions *)

\* Slots whose transaction has written its binding and not ended.
InTransaction == {s \in HostSlot : hostCall[s].pc \in {"find", "commit"}}

\* Another transaction has an uncommitted write of binding b.
Blocked(s, b) == \E t \in InTransaction \ {s} : hostCall[t].id = b

Idle(s) == hostCall' = [hostCall EXCEPT ![s] = NoCall]

\* The slot writes row of binding b; from here to the end it has company, or not.
WriteBinding(s, b, row) ==
  hostCall' = [t \in HostSlot |->
    IF t = s THEN [hostCall[s] EXCEPT !.pc = "find", !.id = b, !.row = row,
                                      !.alone = InTransaction = {}]
    ELSE IF t \in InTransaction THEN [hostCall[t] EXCEPT !.alone = FALSE]
    ELSE hostCall[t]]

\* What a statement of slot s sees: committed rows, and its own.
Seen(s) == [bindings EXCEPT ![hostCall[s].id] = hostCall[s].row]

\* Mutant: read outside the transaction.
syncHostMode_outside(s) ==
  /\ hostCall[s].pc = "find"
  /\ LET active == {b \in BindingId : bindings[b].status = "active"}
         mode   == IF active = {} THEN "shared" ELSE KindOf(bindings[Max(active)].name)
     IN hostCall' = [hostCall EXCEPT ![s].pc = "commit", ![s].mode = mode]
  /\ UNCHANGED <<workspace, bindings, made, dns, proven, drifted>>

\* The newest active binding, read after the write.
syncHostMode(s) ==
  /\ hostCall[s].pc = "find"
  /\ LET active == {b \in BindingId : Seen(s)[b].status = "active"}
         mode   == IF active = {} THEN "shared" ELSE KindOf(Seen(s)[Max(active)].name)
     IN hostCall' = [hostCall EXCEPT ![s].pc = "commit", ![s].mode = mode]
  /\ UNCHANGED <<workspace, bindings, made, dns, proven, drifted>>

\* The mode is written, and the transaction commits.
CommitHost(s) ==
  /\ hostCall[s].pc = "commit"
  /\ bindings' = Seen(s)
  /\ workspace' = [workspace EXCEPT !.hostMode = hostCall[s].mode]
  /\ drifted' = ~hostCall[s].alone
  /\ Idle(s)
  /\ UNCHANGED <<made, dns, proven>>

\* Crash, timeout or lost connection: nothing of the transaction stays.
AbortHost(s) ==
  /\ hostCall[s].pc # "idle"
  /\ Idle(s)
  /\ UNCHANGED <<workspace, bindings, made, dns, proven, drifted>>

-----------------------------------------------------------------------------
(* POST hosts *)

\* A name is bound once: the insert waits for an uncommitted row of that name
\* and fails if one is committed.
PostHost(s, name) ==
  /\ workspace.live /\ hostCall[s].pc = "idle"
  /\ made < MaxBinding
  /\ \A b \in BindingId : bindings[b].name # name
  /\ \A t \in InTransaction : hostCall[t].row.name # name
  /\ made' = made + 1
  /\ IF KindOf(name) = "dedicated_subdomain"
     THEN /\ WriteBinding(s, made + 1, [name |-> name, status |-> "active"])
          /\ UNCHANGED bindings
     ELSE /\ bindings' = [bindings EXCEPT ![made + 1] = [name |-> name, status |-> "pending"]]
          /\ UNCHANGED hostCall
  /\ UNCHANGED <<workspace, dns, proven, drifted>>

-----------------------------------------------------------------------------
(* DNS (external), and POST verify *)

\* The owner of a domain publishes a token the dashboard showed, or removes one.
ChangeDns ==
  /\ \E b \in BindingId :
       /\ bindings[b].status = "pending"
       /\ \E n \in HostName \ SharedName :
            dns' = [dns EXCEPT ![n] = IF b \in @ THEN @ \ {b} ELSE @ \cup {b}]
  /\ UNCHANGED <<workspace, bindings, made, hostCall, proven, drifted>>

\* The binding is read; an active one is the answer.
Verify(s, b) ==
  /\ workspace.live /\ hostCall[s].pc = "idle"
  /\ bindings[b].status = "pending"
  /\ hostCall' = [hostCall EXCEPT ![s] = [NoCall EXCEPT !.pc = "dns", !.op = "verify", !.id = b,
                                                        !.row = bindings[b]]]
  /\ UNCHANGED <<workspace, bindings, made, dns, proven, drifted>>

\* Mutant: some record of the name is enough.
Matches_any(s) == dns[hostCall[s].row.name] # {}

\* A TXT record is the token of the binding that was read.
Matches(s) == hostCall[s].id \in dns[hostCall[s].row.name]

\* The DNS answers; no answer (NXDOMAIN, timeout) is no record.
DnsAnswer(s) ==
  /\ hostCall[s].pc = "dns"
  /\ proven' = proven \cup (dns[hostCall[s].row.name] \cap {hostCall[s].id})
  /\ \/ Matches(s) /\ hostCall' = [hostCall EXCEPT ![s].pc = "activate"]
     \/ Idle(s)
  /\ UNCHANGED <<workspace, bindings, made, dns, drifted>>

\* updateMany where the binding is pending.  Active by now: the answer all the
\* same.  Gone by now: 404.
Activate(s) ==
  LET b == hostCall[s].id IN
  /\ hostCall[s].pc = "activate"
  /\ ~Blocked(s, b)
  /\ IF bindings[b].status = "pending"
     THEN WriteBinding(s, b, [bindings[b] EXCEPT !.status = "active"])
     ELSE Idle(s)
  /\ UNCHANGED <<workspace, bindings, made, dns, proven, drifted>>

-----------------------------------------------------------------------------
(* DELETE host *)

\* Find the binding, ...
DeleteHost(s, b) ==
  /\ workspace.live /\ hostCall[s].pc = "idle"
  /\ Exists(b)
  /\ hostCall' = [hostCall EXCEPT ![s] = [NoCall EXCEPT !.pc = "delete", !.op = "delete", !.id = b]]
  /\ UNCHANGED <<workspace, bindings, made, dns, proven, drifted>>

\* ... and delete it by id, which fails if it is gone by now.
DeleteRow(s) ==
  LET b == hostCall[s].id IN
  /\ hostCall[s].pc = "delete"
  /\ ~Blocked(s, b)
  /\ IF Exists(b) THEN WriteBinding(s, b, NoBinding) ELSE Idle(s)
  /\ UNCHANGED <<workspace, bindings, made, dns, proven, drifted>>

-----------------------------------------------------------------------------
\* GET /v1/workspaces/resolve?host=: an active binding of that name.
Resolves(name) == \E b \in BindingId : bindings[b] = [name |-> name, status |-> "active"]

HostStatement(s) ==
  syncHostMode(s) \/ CommitHost(s) \/ AbortHost(s) \/ DnsAnswer(s) \/ Activate(s) \/ DeleteRow(s)
=============================================================================
