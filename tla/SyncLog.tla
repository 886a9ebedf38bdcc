------------------------------ MODULE SyncLog ------------------------------
(***************************************************************************)
(* The write path of one workspace: sync pushes and REST edits of leaf     *)
(* resources (requests, environments, variables: rows without children),   *)
(* each in a PostgreSQL transaction at READ COMMITTED, the sync log they   *)
(* append to, and the desktop clients that pull it.                        *)
(*                                                                         *)
(* A slot is a server request that works on one operation at a time.  Its  *)
(* statements are separate steps, so those of different slots interleave.  *)
(* A statement reads what is committed, plus its own transaction's writes. *)
(* An uncommitted write is invisible and holds its row's lock until the    *)
(* transaction ends (`holds'); the workspace row is locked from            *)
(* recordChange to the commit (control point "commit").                    *)
(*                                                                         *)
(* A batch of operations in one push is one slot running them in turn:     *)
(* every operation has its own transaction, and nothing is carried over.   *)
(***************************************************************************)
EXTENDS Naturals, FiniteSets

CONSTANTS
  Slot,       \* server requests that may run at the same time
  Client,     \* desktop clients that pull
  SyncOp,     \* operation ids drawn by desktop clients; a client may resend one
  RestOp,     \* operation ids drawn by the server (newId) for REST writes
  Resource,   \* resource ids
  IncomingOp, \* the operations that clients and dashboards issue
  PageLimit,  \* pull: operations per page
  NoOp        \* the operation of an idle slot

ASSUME SyncLogAssumption ==
  /\ IncomingOp \subseteq
       [operation_id: SyncOp \cup RestOp, resource_id: Resource,
        op: {"upsert", "delete"}, base_version: Nat]
  /\ PageLimit \in Nat \ {0}
  /\ SyncOp \cap RestOp = {}

VARIABLES
  rows,       \* resource table, committed: version (0: no row) and last writer
  checkpoint, \* workspace.syncCheckpoint, committed
  log,        \* sync_operations, committed
  pc,         \* next statement of each slot
  op,         \* the operation each slot works on
  ver,        \* the version the slot is about to log
  holds,      \* the slot's transaction wrote its row (and so locks it)
  seq,        \* the checkpoint the slot's transaction allocated
  pulled,     \* checkpoint of each client
  seen,       \* history: the log entries each client was given
  sent,       \* history: every operation ever issued
  answers     \* history: what the server returned for each operation

txVars   == <<pc, op, ver, holds, seq>>
dbVars   == <<rows, checkpoint, log>>
pullVars == <<pulled, seen>>
vars     == <<dbVars, txVars, pullVars, sent, answers>>

-----------------------------------------------------------------------------
NoRow == [version |-> 0, writer |-> NoOp]

Init ==
  /\ rows = [r \in Resource |-> NoRow]
  /\ checkpoint = 0
  /\ log = {}
  /\ pc = [s \in Slot |-> "idle"]
  /\ op = [s \in Slot |-> NoOp]
  /\ ver = [s \in Slot |-> 0]
  /\ holds = [s \in Slot |-> FALSE]
  /\ seq = [s \in Slot |-> 0]
  /\ pulled = [c \in Client |-> 0]
  /\ seen = [c \in Client |-> {}]
  /\ sent = {}
  /\ answers = {}

-----------------------------------------------------------------------------
(* Locks and control *)

Current(s) == rows[op[s].resource_id]

\* Another transaction holds an uncommitted write of the row s works on.
RowLocked(s) ==
  \E t \in Slot \ {s} : holds[t] /\ op[t].resource_id = op[s].resource_id

\* Mutants: the checkpoint is read and written without the workspace row lock; the
\* lock is one that the foreign keys of everybody's writes already hold a share of.
WorkspaceLocked_never(s) == FALSE
WorkspaceLocked_forUpdate(s) == \E t \in Slot \ {s} : holds[t]

\* Another transaction has incremented syncCheckpoint and not yet committed.
WorkspaceLocked(s) == \E t \in Slot \ {s} : pc[t] = "commit"

\* The statement only moves the slot's control point.
Advance(s, to) ==
  /\ pc' = [pc EXCEPT ![s] = to]
  /\ UNCHANGED <<dbVars, op, ver, holds, seq, pullVars, sent, answers>>

\* An idle slot takes up operation d.
Begin(s, d, start) ==
  /\ pc[s] = "idle"
  /\ pc' = [pc EXCEPT ![s] = start]
  /\ op' = [op EXCEPT ![s] = d]
  /\ sent' = sent \cup {d}
  /\ UNCHANGED <<dbVars, ver, holds, seq, pullVars, answers>>

\* The slot is done with its operation: transaction over, locks released.
Release(s) ==
  /\ pc' = [pc EXCEPT ![s] = "idle"]
  /\ op' = [op EXCEPT ![s] = NoOp]
  /\ ver' = [ver EXCEPT ![s] = 0]
  /\ holds' = [holds EXCEPT ![s] = FALSE]
  /\ seq' = [seq EXCEPT ![s] = 0]

Answer(s, result, version) ==
  answers' = answers \cup
    {[operation_id |-> op[s].operation_id, op |-> op[s].op,
      result |-> result, version |-> version]}

Reject(s, reason) ==
  /\ Answer(s, reason, 0)
  /\ Release(s)
  /\ UNCHANGED <<dbVars, pullVars, sent>>

Logged(id) == {e \in log : e.operation_id = id}

\* Mutant: the replay answer is the row's version now.
AnswerFromLog_rowVersion(s) ==
  /\ Logged(op[s].operation_id) # {}
  /\ Answer(s, "accepted", Current(s).version)
  /\ Release(s)
  /\ UNCHANGED <<dbVars, pullVars, sent>>

\* The replay answer: the logged operation's resulting version.
AnswerFromLog(s) ==
  /\ \E e \in Logged(op[s].operation_id) : Answer(s, "accepted", e.version)
  /\ Release(s)
  /\ UNCHANGED <<dbVars, pullVars, sent>>

-----------------------------------------------------------------------------
(* Requests arrive *)

\* Desktop push of one operation: a new one, or one sent before, unchanged.
Push(s, d) ==
  /\ d.operation_id \in SyncOp
  /\ \A e \in sent : e.operation_id = d.operation_id => e = d
  /\ Begin(s, d, "lookup")

\* REST write.  A create draws a fresh resource id; an update carries the
\* version it expects; a delete may (base_version 0: it does not).
RestStart(d) ==
  IF d.op = "delete" THEN "reread"
  ELSE IF d.base_version > 0 THEN "update" ELSE "insert"

Rest(s, d) ==
  /\ d.operation_id \in RestOp
  /\ \A e \in sent : e.operation_id # d.operation_id
  /\ RestStart(d) = "insert" => \A e \in sent : e.resource_id # d.resource_id
  /\ Begin(s, d, RestStart(d))

-----------------------------------------------------------------------------
(* Push: replay lookup, then applyOperation *)

\* Before the transaction: an operation already in the log is answered from it.
ReplayLookup(s) ==
  /\ pc[s] = "lookup"
  /\ \/ AnswerFromLog(s)
     \/ Logged(op[s].operation_id) = {} /\ Advance(s, "read")

\* The optimistic-concurrency gate, and the not_found of a delete after it.
checkBase(version, d) ==
  CASE version > 0 /\ d.base_version # version                   -> "version_mismatch"
    [] version = 0 /\ (d.op = "delete" \/ d.base_version > 0)    -> "not_found"
    [] OTHER                                                     -> "ok"

\* applyOperation's first statement: find the row, check the base version.
ReadCurrent(s) ==
  /\ pc[s] = "read"
  /\ LET verdict == checkBase(Current(s).version, op[s]) IN
     \/ verdict # "ok" /\ Reject(s, verdict)
     \/ verdict = "ok" /\ Advance(s, IF op[s].op = "delete" THEN "reread"
                                     ELSE IF Current(s).version > 0 THEN "update"
                                     ELSE "idcheck")

\* Create: the id must not be taken (it may have been since ReadCurrent).
CheckIdTaken(s) ==
  /\ pc[s] = "idcheck"
  /\ \/ Current(s).version > 0 /\ Reject(s, "id_in_use")
     \/ Current(s).version = 0 /\ Advance(s, "insert")

-----------------------------------------------------------------------------
(* The mutation *)

\* Write the row; the new version is not visible to others before the commit.
Mutate(s, version, locks) ==
  /\ pc' = [pc EXCEPT ![s] = "record"]
  /\ ver' = [ver EXCEPT ![s] = version]
  /\ holds' = [holds EXCEPT ![s] = locks]
  /\ UNCHANGED <<dbVars, op, seq, pullVars, sent, answers>>

\* P2002: the transaction is rolled back.  A push looks the operation up again.
UniqueViolation(s) ==
  IF op[s].operation_id \in SyncOp
  THEN /\ pc' = [pc EXCEPT ![s] = "relookup"]
       /\ holds' = [holds EXCEPT ![s] = FALSE]
       /\ UNCHANGED <<dbVars, op, ver, seq, pullVars, sent, answers>>
  ELSE Reject(s, "duplicate_key")

\* create: an uncommitted row (or delete) of the same id makes it wait.
Insert(s) ==
  /\ pc[s] = "insert"
  /\ ~RowLocked(s)
  /\ IF Current(s).version = 0 THEN Mutate(s, 1, TRUE) ELSE UniqueViolation(s)

\* Mutant: updateMany by id alone, with the version it finds.
Update_byId(s) ==
  /\ pc[s] = "update"
  /\ ~RowLocked(s)
  /\ Mutate(s, Current(s).version + 1, TRUE)

\* updateMany where version = expected; ensureUpdated explains a count of 0.
\* It waits only for a row that matches.
Update(s) ==
  /\ pc[s] = "update"
  /\ \/ /\ Current(s).version = op[s].base_version
        /\ ~RowLocked(s)
        /\ Mutate(s, op[s].base_version + 1, TRUE)
     \/ /\ Current(s).version # op[s].base_version
        /\ Reject(s, IF Current(s).version = 0 THEN "not_found" ELSE "version_mismatch")

\* delete: find the row again; REST compares the version here, if it has one.
Reread(s) ==
  /\ pc[s] = "reread"
  /\ LET version  == Current(s).version
         mismatch == /\ op[s].operation_id \in RestOp
                     /\ op[s].base_version \notin {0, version}
     IN  \/ version = 0 /\ Reject(s, "not_found")
         \/ version > 0 /\ mismatch /\ Reject(s, "version_mismatch")
         \/ /\ version > 0 /\ ~mismatch
            /\ pc' = [pc EXCEPT ![s] = "delete"]
            /\ ver' = [ver EXCEPT ![s] = version]
            /\ UNCHANGED <<dbVars, op, holds, seq, pullVars, sent, answers>>

\* deleteMany by id, whatever the version; its count is not looked at.
Delete(s) ==
  /\ pc[s] = "delete"
  /\ Current(s).version > 0 => ~RowLocked(s)
  /\ Mutate(s, ver[s], Current(s).version > 0)

-----------------------------------------------------------------------------
(* The log *)

\* Mutant: the checkpoint read is the one before the increment.
recordChange_readFirst(s) ==
  /\ pc[s] = "record"
  /\ ~WorkspaceLocked(s)
  /\ \/ /\ Logged(op[s].operation_id) = {}
        /\ pc' = [pc EXCEPT ![s] = "commit"]
        /\ seq' = [seq EXCEPT ![s] = checkpoint]
        /\ UNCHANGED <<dbVars, op, ver, holds, pullVars, sent, answers>>
     \/ /\ Logged(op[s].operation_id) # {}
        /\ UniqueViolation(s)

\* Take the workspace row lock, allocate the next checkpoint, insert the entry
\* (unique per operation id).
recordChange(s) ==
  /\ pc[s] = "record"
  /\ ~WorkspaceLocked(s)
  /\ \/ /\ Logged(op[s].operation_id) = {}
        /\ pc' = [pc EXCEPT ![s] = "commit"]
        /\ seq' = [seq EXCEPT ![s] = checkpoint + 1]
        /\ UNCHANGED <<dbVars, op, ver, holds, pullVars, sent, answers>>
     \/ /\ Logged(op[s].operation_id) # {}
        /\ UniqueViolation(s)

\* Mutant: the version before the write is logged.
Entry_versionBefore(s) ==
  [seq |-> seq[s], operation_id |-> op[s].operation_id,
   resource_id |-> op[s].resource_id, op |-> op[s].op,
   base |-> op[s].base_version, version |-> op[s].base_version]

Entry(s) ==
  [seq |-> seq[s], operation_id |-> op[s].operation_id,
   resource_id |-> op[s].resource_id, op |-> op[s].op,
   base |-> op[s].base_version, version |-> ver[s]]

\* Mutant: a delete leaves the row behind.
NewRow_softDelete(s) == [version |-> ver[s], writer |-> op[s].operation_id]

\* What the row becomes when the slot's transaction commits.
NewRow(s) ==
  IF op[s].op = "delete" THEN NoRow
  ELSE [version |-> ver[s], writer |-> op[s].operation_id]

\* A sync delete returns the version applyOperation read first; every other
\* operation the version it logged.
ResultVersion(s) ==
  IF op[s].op = "delete" /\ op[s].operation_id \in SyncOp
  THEN op[s].base_version ELSE ver[s]

Commit(s) ==
  /\ pc[s] = "commit"
  /\ rows' = IF holds[s] THEN [rows EXCEPT ![op[s].resource_id] = NewRow(s)] ELSE rows
  /\ checkpoint' = seq[s]
  /\ log' = log \cup {Entry(s)}
  /\ Answer(s, "accepted", ResultVersion(s))
  /\ Release(s)
  /\ UNCHANGED <<pullVars, sent>>

\* Mutant: every P2002 is taken for a replay of something applied.
ReplayRelookup_alwaysReplay(s) ==
  /\ pc[s] = "relookup"
  /\ Answer(s, "accepted", ver[s])
  /\ Release(s)
  /\ UNCHANGED <<dbVars, pullVars, sent>>

\* After P2002: the log has the operation by now (a concurrent replay), or the
\* clash was with another resource.
ReplayRelookup(s) ==
  /\ pc[s] = "relookup"
  /\ \/ AnswerFromLog(s)
     \/ Logged(op[s].operation_id) = {} /\ Reject(s, "duplicate_key")

\* The server crashes, the connection drops or the transaction times out before
\* the commit: everything it wrote is rolled back and the client gets no answer.
Abort(s) ==
  /\ pc[s] # "idle"
  /\ Release(s)
  /\ UNCHANGED <<dbVars, pullVars, sent, answers>>

-----------------------------------------------------------------------------
\* Mutant: a page returns the workspace's checkpoint, not its last entry's.
Pull_toHead(c) ==
  LET after == {e \in log : e.seq > pulled[c]} IN
  \E last \in after :
    LET page == {e \in after : e.seq <= last.seq} IN
    /\ Cardinality(page) <= PageLimit
    /\ pulled' = [pulled EXCEPT ![c] = checkpoint]
    /\ seen' = [seen EXCEPT ![c] = @ \cup page]
    /\ UNCHANGED <<dbVars, txVars, sent, answers>>

(* pull: the entries after the client's checkpoint, in seq order, one page     *)
(* (`limit' operations or fewer: the byte cap may cut it shorter).             *)
Pull(c) ==
  LET after == {e \in log : e.seq > pulled[c]} IN
  \E last \in after :
    LET page == {e \in after : e.seq <= last.seq} IN
    /\ Cardinality(page) <= PageLimit
    /\ pulled' = [pulled EXCEPT ![c] = last.seq]
    /\ seen' = [seen EXCEPT ![c] = @ \cup page]
    /\ UNCHANGED <<dbVars, txVars, sent, answers>>

-----------------------------------------------------------------------------
Statement(s) ==
  \/ ReplayLookup(s)  \/ ReadCurrent(s)  \/ CheckIdTaken(s)
  \/ Insert(s)        \/ Update(s)       \/ Reread(s)       \/ Delete(s)
  \/ recordChange(s)  \/ Commit(s)       \/ ReplayRelookup(s)

Next ==
  \/ \E s \in Slot, d \in IncomingOp : Push(s, d) \/ Rest(s, d)
  \/ \E s \in Slot : Statement(s) \/ Abort(s)
  \/ \E c \in Client : Pull(c)

Spec == Init /\ [][Next]_vars
=============================================================================
