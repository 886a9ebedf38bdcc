--------------------------- MODULE SyncLogProps ----------------------------
(***************************************************************************)
(* What the write path and pull of SyncLog promise.                        *)
(***************************************************************************)
EXTENDS SyncLog

OpId == SyncOp \cup RestOp
Kind == {"upsert", "delete"}

LogEntry ==
  [seq: Nat, operation_id: OpId, resource_id: Resource, op: Kind, base: Nat,
   version: Nat]

PC == {"idle", "lookup", "read", "idcheck", "insert", "update", "reread",
       "delete", "record", "commit", "relookup"}

TypeOK ==
  /\ rows \in [Resource -> [version: Nat, writer: OpId \cup {NoOp}]]
  /\ checkpoint \in Nat
  /\ log \subseteq LogEntry
  /\ pc \in [Slot -> PC]
  /\ op \in [Slot -> IncomingOp \cup {NoOp}]
  /\ \A s \in Slot : pc[s] # "idle" => op[s] \in IncomingOp
  /\ ver \in [Slot -> Nat]
  /\ holds \in [Slot -> BOOLEAN]
  /\ seq \in [Slot -> Nat]
  /\ pulled \in [Client -> Nat]
  /\ seen \in [Client -> SUBSET log]
  /\ sent \subseteq IncomingOp
  /\ answers \subseteq
       [operation_id: OpId, op: Kind, version: Nat,
        result: {"accepted", "version_mismatch", "not_found", "id_in_use",
                 "duplicate_key"}]

-----------------------------------------------------------------------------
(* Two transactions never hold uncommitted writes of the same row, and at  *)
(* most one has allocated a checkpoint: it is the next one, and the        *)
(* transaction's operation is not in the log (recordChange holds the       *)
(* workspace row lock from the increment to the commit).                   *)
LockDiscipline ==
  \A s \in Slot :
    /\ holds[s] =>
         /\ pc[s] \in {"record", "commit"}
         /\ ~RowLocked(s)
    /\ pc[s] = "commit" =>
         /\ ~WorkspaceLocked(s)
         /\ seq[s] = checkpoint + 1
         /\ Logged(op[s].operation_id) = {}

(* An upsert that waits to be logged and committed still replaces exactly  *)
(* its base version: since it wrote the row, nobody else has changed it.   *)
PreparedWrite ==
  \A s \in Slot :
    /\ pc[s] \in {"idcheck", "insert"} => op[s].op = "upsert" /\ op[s].base_version = 0
    /\ pc[s] = "update" => op[s].op = "upsert"
    /\ pc[s] \in {"reread", "delete"} => op[s].op = "delete"
    /\ pc[s] \in {"record", "commit"} /\ op[s].op = "upsert" =>
         /\ holds[s]
         /\ Current(s).version = op[s].base_version
         /\ ver[s] = op[s].base_version + 1

(* Checkpoints become visible in the order they were allocated, without    *)
(* gaps or duplicates: whatever order the transactions of concurrent       *)
(* writers commit in, the committed log is seq 1, 2, ..., syncCheckpoint   *)
(* (recordChange's comment: the UPDATE serializes checkpoints).            *)
LogIsGapFree ==
  /\ {e.seq : e \in log} = 1 .. checkpoint
  /\ \A e, f \in log : e.seq = f.seq => e = f

(* Paged pulls never skip an entry: a client whose checkpoint is n has     *)
(* been given every entry ever committed with seq up to n, also those of   *)
(* writers that were in flight while it pulled, and no other.              *)
PullNeverSkips ==
  \A c \in Client :
    /\ pulled[c] <= checkpoint
    /\ seen[c] = {e \in log : e.seq <= pulled[c]}

(* An operation that a client resends, also while it is still running, is  *)
(* applied at most once (the push route is idempotent by operation_id).    *)
AppliedOnce ==
  \A e, f \in log : e.operation_id = f.operation_id => e = f

(* No lost update: an upsert that commits and its log entry appear         *)
(* together, the row it replaces had exactly the version that was its      *)
(* base (0: no row), and the row's version goes up by one.                 *)
NoLostUpdate ==
  [][\A e \in log' \ log :
       e.op = "upsert" =>
         /\ rows[e.resource_id].version = e.base
         /\ rows'[e.resource_id] = [version |-> e.base + 1, writer |-> e.operation_id]
         /\ e.version = e.base + 1]_vars

EntriesOf(r) == {e \in log : e.resource_id = r}
IsLast(e, S) == \A f \in S : f.seq <= e.seq
Upserts(S)   == {e \in S : e.op = "upsert"}

(* A row and the log agree in these two ways even when deletes race: an    *)
(* existing row is the one its last upsert entry describes, and a resource *)
(* without a row was either never created or has a delete as its last      *)
(* entry, so that a client that pulls to the end drops it.                 *)
RowsAreLogged ==
  \A r \in Resource :
    IF rows[r].version > 0
    THEN \E e \in Upserts(EntriesOf(r)) :
           /\ IsLast(e, Upserts(EntriesOf(r)))
           /\ rows[r] = [version |-> e.version, writer |-> e.operation_id]
    ELSE \A e \in EntriesOf(r) : IsLast(e, EntriesOf(r)) => e.op = "delete"

(* The log's last entry for a resource is its current state (syncLog.ts:   *)
(* `pull' never sees a change the data does not have, or vice versa).      *)
LogMatchesData ==
  \A r \in Resource : \A e \in EntriesOf(r) :
    IsLast(e, EntriesOf(r)) =>
      rows[r].version = IF e.op = "delete" THEN 0 ELSE e.version

(* An accepted answer is durable and tells the truth: the operation is in  *)
(* the committed log, and for an upsert with the version answered, however *)
(* often the operation was sent.                                           *)
AcceptedIsLogged ==
  \A a \in answers : a.result = "accepted" =>
    \E e \in Logged(a.operation_id) : a.op = "upsert" => a.version = e.version

(* The inductive strengthening of the invariants above.                    *)
IInv ==
  /\ TypeOK
  /\ LockDiscipline
  /\ PreparedWrite
  /\ LogIsGapFree
  /\ PullNeverSkips
  /\ AppliedOnce
  /\ RowsAreLogged
  /\ AcceptedIsLogged

(* A replay returns the original result: two accepted answers to the same  *)
(* operation carry the same resulting version.                             *)
ReplayReturnsOriginal ==
  \A a, b \in answers :
    /\ a.operation_id = b.operation_id
    /\ a.result = "accepted" /\ b.result = "accepted"
    => a.version = b.version

(* Pushes are idempotent: an operation that has been applied is not        *)
(* rejected afterwards.                                                    *)
NoRejectionAfterApply ==
  [][\A a \in answers' \ answers :
       a.result # "accepted" => Logged(a.operation_id) = {}]_vars

(* The feed that SyncLog implements: the log in seq order, each client     *)
(* having been given the entries up to its checkpoint.                     *)
EntryAt(S, n) == CHOOSE e \in S : e.seq = n

Committed == [i \in 1 .. checkpoint |-> EntryAt(log, i)]
Given     == [c \in Client |-> [i \in 1 .. pulled[c] |-> EntryAt(seen[c], i)]]

Feed == INSTANCE ChangeFeed WITH
  Reader <- Client, feed <- Committed, delivered <- Given

(* Pushes, REST writes and paged pulls, interleaved statement by           *)
(* statement, implement the feed: entries are only appended, in checkpoint *)
(* order, one per operation, and clients are given prefixes of it.         *)
ImplementsFeed == Feed!Spec

-----------------------------------------------------------------------------
(* PostgreSQL runs a statement that can run, and queues the transactions    *)
(* that wait for a lock, so none is passed over for ever: strong fairness.  *)
(* Nothing is assumed of clients (Push, Rest, Pull) or of crashes (Abort).  *)
FairSpec == Spec /\ \A s \in Slot : SF_vars(Statement(s))

(* Every request ends: no two of them wait for each other's row or          *)
(* workspace lock, and none waits for a lock that nobody will release.      *)
RequestsEnd == \A s \in Slot : pc[s] # "idle" ~> pc[s] = "idle"
=============================================================================
