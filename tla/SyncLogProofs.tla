--------------------------- MODULE SyncLogProofs ---------------------------
(***************************************************************************)
(* Proofs about SyncLog for any number of requests, clients, resources and *)
(* operations.                                                             *)
(***************************************************************************)
EXTENDS SyncLogProps, SequenceTheorems, TLAPS

-----------------------------------------------------------------------------
(* Type correctness *)

LEMMA ReleaseType ==
  ASSUME TypeOK, NEW s \in Slot, Release(s)
  PROVE  /\ pc' \in [Slot -> PC]
         /\ op' \in [Slot -> IncomingOp \cup {NoOp}]
         /\ \A t \in Slot : pc'[t] # "idle" => op'[t] \in IncomingOp
         /\ ver' \in [Slot -> Nat]
         /\ holds' \in [Slot -> BOOLEAN]
         /\ seq' \in [Slot -> Nat]
  BY DEF TypeOK, Release, PC

LEMMA AdvanceType ==
  ASSUME TypeOK, NEW s \in Slot, NEW to \in PC, pc[s] # "idle", Advance(s, to)
  PROVE  TypeOK'
  BY DEF TypeOK, Advance, dbVars, pullVars

LEMMA RejectType ==
  ASSUME TypeOK, NEW s \in Slot, pc[s] # "idle", 
         NEW reason \in {"version_mismatch", "not_found", "id_in_use", "duplicate_key"},
         Reject(s, reason)
  PROVE  TypeOK'
  <1>1. op[s] \in IncomingOp
    BY DEF TypeOK
  <1>2. op[s].operation_id \in OpId /\ op[s].op \in Kind
    BY <1>1, SyncLogAssumption DEF OpId, Kind
  <1> QED
    BY <1>2, ReleaseType DEF TypeOK, Reject, Answer, dbVars, pullVars

LEMMA UniqueViolationType ==
  ASSUME TypeOK, NEW s \in Slot, pc[s] # "idle", UniqueViolation(s)
  PROVE  TypeOK'
  <1>1. CASE op[s].operation_id \in SyncOp
    BY <1>1 DEF TypeOK, UniqueViolation, dbVars, pullVars, PC
  <1>2. CASE op[s].operation_id \notin SyncOp
    BY <1>2, RejectType DEF UniqueViolation
  <1> QED
    BY <1>1, <1>2

LEMMA MutateType ==
  ASSUME TypeOK, NEW s \in Slot, pc[s] # "idle", NEW v \in Nat, NEW b \in BOOLEAN,
         Mutate(s, v, b)
  PROVE  TypeOK'
  BY DEF TypeOK, Mutate, dbVars, pullVars, PC

LEMMA AnswerFromLogType ==
  ASSUME TypeOK, NEW s \in Slot, pc[s] # "idle", AnswerFromLog(s)
  PROVE  TypeOK'
  <1>1. op[s].operation_id \in OpId /\ op[s].op \in Kind
    BY SyncLogAssumption DEF TypeOK, OpId, Kind
  <1>2. PICK e \in Logged(op[s].operation_id) : Answer(s, "accepted", e.version)
    BY DEF AnswerFromLog
  <1>3. e.version \in Nat
    BY <1>2 DEF TypeOK, Logged, LogEntry
  <1>4. answers' \subseteq
          [operation_id: OpId, op: Kind, version: Nat,
           result: {"accepted", "version_mismatch", "not_found", "id_in_use",
                    "duplicate_key"}]
    BY <1>1, <1>2, <1>3 DEF TypeOK, Answer
  <1> QED
    BY <1>4, ReleaseType DEF TypeOK, AnswerFromLog, dbVars, pullVars

LEMMA BeginType ==
  ASSUME TypeOK, NEW s \in Slot, NEW d \in IncomingOp, NEW start \in PC,
         Begin(s, d, start)
  PROVE  TypeOK'
  BY DEF TypeOK, Begin, dbVars, pullVars

\* What a committing transaction adds to the log is a log entry.
LEMMA EntryType ==
  ASSUME TypeOK, NEW s \in Slot, pc[s] # "idle"
  PROVE  Entry(s) \in LogEntry
  BY SyncLogAssumption DEF TypeOK, Entry, LogEntry, OpId, Kind

LEMMA CommitType ==
  ASSUME TypeOK, NEW s \in Slot, Commit(s)
  PROVE  TypeOK'
  <1>1. pc[s] # "idle" /\ op[s] \in IncomingOp
    BY DEF TypeOK, Commit
  <1>2. /\ op[s].operation_id \in OpId /\ op[s].op \in Kind
        /\ op[s].resource_id \in Resource /\ op[s].base_version \in Nat
    BY <1>1, SyncLogAssumption DEF OpId, Kind
  <1>3. rows' \in [Resource -> [version: Nat, writer: OpId \cup {NoOp}]]
    BY <1>2 DEF TypeOK, Commit, NewRow, NoRow
  <1>4. log' \subseteq LogEntry /\ log \subseteq log'
    BY <1>1, EntryType DEF TypeOK, Commit
  <1>5. answers' \subseteq
          [operation_id: OpId, op: Kind, version: Nat,
           result: {"accepted", "version_mismatch", "not_found", "id_in_use",
                    "duplicate_key"}]
    BY <1>2 DEF TypeOK, Commit, Answer, ResultVersion
  <1>6. checkpoint' \in Nat
    BY DEF TypeOK, Commit
  <1>7. seen' \in [Client -> SUBSET log']
    BY <1>4 DEF TypeOK, Commit, pullVars
  <1>8. pulled' \in [Client -> Nat] /\ sent' \subseteq IncomingOp
    BY DEF TypeOK, Commit, pullVars
  <1>9. Release(s)
    BY DEF Commit
  <1> QED
    BY <1>3, <1>4, <1>5, <1>6, <1>7, <1>8, <1>9, ReleaseType DEF TypeOK

LEMMA PullType ==
  ASSUME TypeOK, NEW c \in Client, Pull(c)
  PROVE  TypeOK'
  <1>1. PICK last \in log :
          /\ pulled' = [pulled EXCEPT ![c] = last.seq]
          /\ seen' = [seen EXCEPT ![c] = @ \cup
                        {e \in {f \in log : f.seq > pulled[c]} : e.seq <= last.seq}]
          /\ UNCHANGED <<dbVars, txVars, sent, answers>>
    BY DEF Pull
  <1>2. last.seq \in Nat
    BY DEF TypeOK, LogEntry
  <1> QED
    BY <1>1, <1>2 DEF TypeOK, dbVars, txVars

LEMMA StatementType ==
  ASSUME TypeOK, NEW s \in Slot, Statement(s)
  PROVE  TypeOK'
  <1>1. CASE ReplayLookup(s)
    BY <1>1, AdvanceType, AnswerFromLogType DEF ReplayLookup, PC
  <1>2. CASE ReadCurrent(s)
    BY <1>2, AdvanceType, RejectType DEF ReadCurrent, checkBase, PC
  <1>3. CASE CheckIdTaken(s)
    BY <1>3, AdvanceType, RejectType DEF CheckIdTaken, PC
  <1>4. CASE Insert(s)
    BY <1>4, MutateType, UniqueViolationType DEF Insert
  <1>5. CASE Update(s)
    <2>1. pc[s] # "idle" /\ op[s].base_version + 1 \in Nat
      BY <1>5, SyncLogAssumption DEF Update, TypeOK
    <2> QED
      BY <1>5, <2>1, MutateType, RejectType DEF Update
  <1>6. CASE Reread(s)
    <2>1. pc[s] # "idle" /\ Current(s).version \in Nat
      BY <1>6, SyncLogAssumption DEF Reread, TypeOK, Current
    <2>2. CASE Reject(s, "not_found") \/ Reject(s, "version_mismatch")
      BY <2>1, <2>2, RejectType
    <2>3. CASE /\ pc' = [pc EXCEPT ![s] = "delete"]
               /\ ver' = [ver EXCEPT ![s] = Current(s).version]
               /\ UNCHANGED <<dbVars, op, holds, seq, pullVars, sent, answers>>
      BY <2>1, <2>3 DEF TypeOK, dbVars, pullVars, PC
    <2> QED
      BY <1>6, <2>2, <2>3 DEF Reread
  <1>7. CASE Delete(s)
    <2>1. ver[s] \in Nat /\ (Current(s).version > 0) \in BOOLEAN
      BY DEF TypeOK
    <2> QED
      BY <1>7, <2>1, MutateType DEF Delete
  <1>8. CASE recordChange(s)
    <2>1. CASE Logged(op[s].operation_id) = {}
      BY <1>8, <2>1 DEF recordChange, TypeOK, dbVars, pullVars, PC
    <2>2. CASE Logged(op[s].operation_id) # {}
      BY <1>8, <2>2, UniqueViolationType DEF recordChange
    <2> QED
      BY <2>1, <2>2
  <1>9. CASE Commit(s)
    BY <1>9, CommitType
  <1>10. CASE ReplayRelookup(s)
    BY <1>10, AnswerFromLogType, RejectType DEF ReplayRelookup
  <1> QED
    BY <1>1, <1>2, <1>3, <1>4, <1>5, <1>6, <1>7, <1>8, <1>9, <1>10 DEF Statement

(* Every variable keeps its type, however requests interleave; in          *)
(* particular a slot past "idle" always has an operation to work on, and a *)
(* client is only ever given entries that are in the committed log.        *)
THEOREM TypeCorrect == Spec => []TypeOK
  <1>1. Init => TypeOK
    BY DEF Init, TypeOK, NoRow, PC
  <1>2. ASSUME TypeOK, [Next]_vars
        PROVE  TypeOK'
    <2>1. ASSUME NEW s \in Slot, NEW d \in IncomingOp, Push(s, d) \/ Rest(s, d)
          PROVE  TypeOK'
      BY <1>2, <2>1, BeginType DEF Push, Rest, RestStart, PC
    <2>2. ASSUME NEW s \in Slot, Abort(s)
          PROVE  TypeOK'
      BY <1>2, <2>2, ReleaseType DEF Abort, TypeOK, dbVars, pullVars
    <2>3. CASE UNCHANGED vars
      BY <1>2, <2>3 DEF TypeOK, vars, dbVars, txVars, pullVars
    <2> QED
      BY <1>2, <2>1, <2>2, <2>3, StatementType, PullType DEF Next
  <1> QED
    BY <1>1, <1>2, PTL DEF Spec

-----------------------------------------------------------------------------
(* The inductive invariant *)

\* Only a commit changes what is committed, and nothing but a pull or a commit
\* touches what the clients were given.
LEMMA CommittedOnlyByCommit ==
  ASSUME [Next]_vars
  PROVE  \/ UNCHANGED dbVars
         \/ \E s \in Slot : Commit(s)
  <1>1. ASSUME NEW s \in Slot, Statement(s), ~Commit(s)
        PROVE  UNCHANGED dbVars
    BY <1>1 DEF Statement, ReplayLookup, ReadCurrent, CheckIdTaken, Insert, Update,
       Reread, Delete, recordChange, ReplayRelookup, Advance, Reject, AnswerFromLog,
       Mutate, UniqueViolation
  <1>2. ASSUME NEW s \in Slot, NEW d \in IncomingOp, Push(s, d) \/ Rest(s, d)
        PROVE  UNCHANGED dbVars
    BY <1>2 DEF Push, Rest, Begin
  <1> QED
    BY <1>1, <1>2 DEF Next, Abort, Pull, vars

LEMMA PulledOnlyByPull ==
  ASSUME [Next]_vars
  PROVE  \/ UNCHANGED pullVars
         \/ UNCHANGED dbVars /\ \E c \in Client : Pull(c)
  <1>1. ASSUME NEW s \in Slot, Statement(s)
        PROVE  UNCHANGED pullVars
    BY <1>1 DEF Statement, ReplayLookup, ReadCurrent, CheckIdTaken, Insert, Update,
       Reread, Delete, recordChange, ReplayRelookup, Advance, Reject, AnswerFromLog,
       Mutate, UniqueViolation, Commit
  <1>2. ASSUME NEW s \in Slot, NEW d \in IncomingOp, Push(s, d) \/ Rest(s, d)
        PROVE  UNCHANGED pullVars
    BY <1>2 DEF Push, Rest, Begin
  <1> QED
    BY <1>1, <1>2 DEF Next, Abort, Pull, vars

\* A commit appends one entry, with the checkpoint after the last.
LEMMA CommitAppends ==
  ASSUME IInv, NEW s \in Slot, Commit(s)
  PROVE  /\ log' = log \cup {Entry(s)}
         /\ checkpoint' = checkpoint + 1
         /\ Entry(s).seq = checkpoint + 1
         /\ Entry(s).operation_id = op[s].operation_id
         /\ Entry(s).resource_id = op[s].resource_id
         /\ Entry(s).op = op[s].op
         /\ Entry(s).version = ver[s]
         /\ \A e \in log : e.seq \in 1 .. checkpoint
         /\ \A e \in log : e.operation_id # op[s].operation_id
         /\ Entry(s) \in LogEntry
         /\ op[s] \in IncomingOp
  <1>1. pc[s] = "commit" /\ seq[s] = checkpoint + 1 /\ Logged(op[s].operation_id) = {}
    BY DEF IInv, LockDiscipline, Commit
  <1>2. Entry(s) \in LogEntry /\ op[s] \in IncomingOp
    BY <1>1, EntryType DEF IInv, TypeOK
  <1>3. \A e \in log : e.seq \in 1 .. checkpoint
    BY DEF IInv, LogIsGapFree
  <1> QED
    BY <1>1, <1>2, <1>3 DEF Commit, Entry, Logged

LEMMA GapFreeStep ==
  ASSUME IInv, [Next]_vars
  PROVE  LogIsGapFree' /\ AppliedOnce'
  <1>1. CASE UNCHANGED dbVars
    BY <1>1 DEF IInv, LogIsGapFree, AppliedOnce, dbVars
  <1>2. ASSUME NEW s \in Slot, Commit(s)
        PROVE  LogIsGapFree' /\ AppliedOnce'
    <2>1. checkpoint \in Nat
      BY DEF IInv, TypeOK
    <2>2. {e.seq : e \in log'} = {e.seq : e \in log} \cup {checkpoint + 1}
      BY <1>2, CommitAppends
    <2>3. {e.seq : e \in log'} = 1 .. checkpoint'
      BY <1>2, <2>1, <2>2, CommitAppends DEF IInv, LogIsGapFree
    <2>4. \A e, f \in log' : e.seq = f.seq => e = f
      BY <1>2, <2>1, CommitAppends DEF IInv, LogIsGapFree
    <2>5. AppliedOnce'
      BY <1>2, CommitAppends DEF IInv, AppliedOnce
    <2> QED
      BY <2>3, <2>4, <2>5 DEF LogIsGapFree
  <1> QED
    BY <1>1, <1>2, CommittedOnlyByCommit

LEMMA PullStep ==
  ASSUME IInv, [Next]_vars
  PROVE  PullNeverSkips'
  <1>1. CASE UNCHANGED dbVars /\ UNCHANGED pullVars
    BY <1>1 DEF IInv, PullNeverSkips, dbVars, pullVars
  <1>2. ASSUME UNCHANGED dbVars, NEW c \in Client, Pull(c)
        PROVE  PullNeverSkips'
    <2>1. PICK last \in {e \in log : e.seq > pulled[c]} :
            /\ pulled' = [pulled EXCEPT ![c] = last.seq]
            /\ seen' = [seen EXCEPT ![c] = @ \cup
                          {e \in {f \in log : f.seq > pulled[c]} : e.seq <= last.seq}]
      BY <1>2 DEF Pull
    <2>2. last.seq \in 1 .. checkpoint /\ last.seq > pulled[c] /\ checkpoint \in Nat
      BY <2>1 DEF IInv, LogIsGapFree, TypeOK
    <2>3. \A e \in log : e.seq \in Nat
      BY DEF IInv, TypeOK, LogEntry
    <2>4. seen[c] = {e \in log : e.seq <= pulled[c]} /\ pulled[c] \in Nat
      BY DEF IInv, PullNeverSkips, TypeOK
    <2>5. seen[c] \cup {e \in {f \in log : f.seq > pulled[c]} : e.seq <= last.seq}
            = {e \in log : e.seq <= last.seq}
      BY <2>2, <2>3, <2>4
    <2> QED
      BY <1>2, <2>1, <2>2, <2>5 DEF IInv, TypeOK, PullNeverSkips, dbVars
  <1>3. ASSUME UNCHANGED pullVars, NEW s \in Slot, Commit(s)
        PROVE  PullNeverSkips'
    <2> SUFFICES ASSUME NEW c \in Client
                 PROVE  /\ pulled[c] <= checkpoint'
                        /\ seen[c] = {e \in log' : e.seq <= pulled[c]}
      BY <1>3 DEF PullNeverSkips, pullVars
    <2>1. /\ pulled[c] \in Nat /\ checkpoint \in Nat /\ pulled[c] <= checkpoint
          /\ seen[c] = {e \in log : e.seq <= pulled[c]}
      BY DEF IInv, PullNeverSkips, TypeOK
    <2> QED
      BY <1>3, <2>1, CommitAppends
  <1> QED
    BY <1>1, <1>2, <1>3, CommittedOnlyByCommit, PulledOnlyByPull

LEMMA RowsStep ==
  ASSUME IInv, [Next]_vars
  PROVE  RowsAreLogged'
  <1>1. CASE UNCHANGED dbVars
    BY <1>1 DEF IInv, RowsAreLogged, EntriesOf, Upserts, IsLast, dbVars
  <1>2. ASSUME NEW s \in Slot, Commit(s)
        PROVE  RowsAreLogged'
    <2> DEFINE q == op[s].resource_id
               x == Entry(s)
    <2>1. /\ log' = log \cup {x}
          /\ x.resource_id = q /\ x.op = op[s].op /\ x.version = ver[s]
          /\ x.operation_id = op[s].operation_id
          /\ \A e \in log : e.seq < x.seq
          /\ \A e \in log' : e.seq <= x.seq
      <3>1. checkpoint \in Nat
        BY DEF IInv, TypeOK
      <3> QED
        BY <1>2, <3>1, CommitAppends
    <2> HIDE DEF x
    <2>2. rows' = IF holds[s] THEN [rows EXCEPT ![q] = NewRow(s)] ELSE rows
      BY <1>2 DEF Commit
    <2>3. q \in Resource /\ rows \in [Resource -> [version: Nat, writer: OpId \cup {NoOp}]]
      BY <1>2, CommitAppends, SyncLogAssumption DEF IInv, TypeOK
    <2> SUFFICES ASSUME NEW r \in Resource
                 PROVE  IF rows'[r].version > 0
                        THEN \E e \in Upserts(EntriesOf(r))' :
                               /\ IsLast(e, Upserts(EntriesOf(r))')
                               /\ rows'[r] = [version |-> e.version, writer |-> e.operation_id]
                        ELSE \A e \in EntriesOf(r)' : IsLast(e, EntriesOf(r)') => e.op = "delete"
      BY DEF RowsAreLogged, IsLast, EntriesOf, Upserts
    <2>4. IF rows[r].version > 0
          THEN \E e \in Upserts(EntriesOf(r)) :
                 /\ IsLast(e, Upserts(EntriesOf(r)))
                 /\ rows[r] = [version |-> e.version, writer |-> e.operation_id]
          ELSE \A e \in EntriesOf(r) : IsLast(e, EntriesOf(r)) => e.op = "delete"
      BY DEF IInv, RowsAreLogged
    <2>5. CASE r # q
      <3>1. EntriesOf(r)' = EntriesOf(r) /\ rows'[r] = rows[r]
        BY <2>1, <2>2, <2>3, <2>5 DEF EntriesOf
      <3> QED
        BY <3>1, <2>4 DEF Upserts
    <2>6. CASE r = q /\ op[s].op = "upsert"
      <3>1. holds[s] /\ ver[s] = op[s].base_version + 1 /\ op[s].base_version \in Nat
        BY <1>2, <2>6, CommitAppends, SyncLogAssumption DEF IInv, PreparedWrite, Commit
      <3>2. rows'[r] = [version |-> x.version, writer |-> x.operation_id]
        BY <2>1, <2>2, <2>3, <2>6, <3>1 DEF NewRow
      <3>3. rows'[r].version > 0
        BY <2>1, <3>1, <3>2
      <3>4. x \in Upserts(EntriesOf(r))' /\ IsLast(x, Upserts(EntriesOf(r))')
        BY <2>1, <2>6 DEF Upserts, EntriesOf, IsLast
      <3> QED
        BY <3>2, <3>3, <3>4
    <2>7. CASE r = q /\ op[s].op # "upsert"
      <3>1. x.op = "delete"
        BY <1>2, <2>1, <2>7, CommitAppends, SyncLogAssumption
      <3>2. Upserts(EntriesOf(r))' = Upserts(EntriesOf(r))
        BY <2>1, <3>1 DEF Upserts, EntriesOf
      <3>3. \A e \in EntriesOf(r)' : IsLast(e, EntriesOf(r)') => e = x
        <4>1. x \in EntriesOf(r)'
          BY <2>1, <2>7 DEF EntriesOf
        <4>2. \A e \in log : e.seq \in Nat
          BY DEF IInv, TypeOK, LogEntry
        <4>3. x.seq \in Nat
          BY <1>2, CommitAppends DEF LogEntry, x
        <4> QED
          BY <2>1, <4>1, <4>2, <4>3 DEF EntriesOf, IsLast
      <3>4. rows'[r] = rows[r] \/ rows'[r] = NoRow
        BY <2>2, <2>3, <2>7, <3>1, <2>1 DEF NewRow
      <3> QED
        BY <2>4, <3>1, <3>2, <3>3, <3>4 DEF NoRow
    <2> QED
      BY <2>5, <2>6, <2>7
  <1> QED
    BY <1>1, <1>2, CommittedOnlyByCommit

\* A request is accepted from the log, or by its commit.
LEMMA AcceptedBy ==
  ASSUME IInv, [Next]_vars, NEW a \in answers' \ answers, a.result = "accepted"
  PROVE  \E s \in Slot : op[s] \in IncomingOp /\ (AnswerFromLog(s) \/ Commit(s))
  <1>1. ASSUME NEW s \in Slot, NEW reason \in {"version_mismatch", "not_found", "id_in_use",
               "duplicate_key"}, Reject(s, reason)
        PROVE  FALSE
    BY <1>1 DEF Reject, Answer
  <1>2. ASSUME NEW s \in Slot, NEW d \in IncomingOp, Push(s, d) \/ Rest(s, d)
        PROVE  FALSE
    BY <1>2 DEF Push, Rest, Begin
  <1>3. ASSUME NEW s \in Slot, Statement(s), ~Commit(s), ~AnswerFromLog(s)
        PROVE  FALSE
    <2>1. CASE ReplayLookup(s)
      BY <1>3, <2>1 DEF ReplayLookup, Advance
    <2>2. CASE ReadCurrent(s)
      BY <1>1, <2>2 DEF ReadCurrent, Advance, checkBase
    <2>3. CASE CheckIdTaken(s)
      BY <1>1, <2>3 DEF CheckIdTaken, Advance
    <2>4. CASE Insert(s) \/ Delete(s) \/ recordChange(s)
      BY <1>1, <2>4 DEF Insert, Delete, recordChange, Mutate, UniqueViolation
    <2>5. CASE Update(s)
      BY <1>1, <2>5 DEF Update, Mutate
    <2>6. CASE Reread(s)
      BY <1>1, <2>6 DEF Reread
    <2>7. CASE ReplayRelookup(s)
      BY <1>1, <1>3, <2>7 DEF ReplayRelookup
    <2> QED
      BY <1>3, <2>1, <2>2, <2>3, <2>4, <2>5, <2>6, <2>7 DEF Statement
  <1>4. PICK s \in Slot : Statement(s)
    BY <1>2 DEF Next, Abort, Pull, vars
  <1>5. pc[s] # "idle"
    BY <1>4 DEF Statement, ReplayLookup, ReadCurrent, CheckIdTaken, Insert, Update, Reread,
                Delete, recordChange, Commit, ReplayRelookup
  <1> QED
    BY <1>3, <1>4, <1>5 DEF IInv, TypeOK

\* What was answered from the log is in it, and what a commit answers gets there.
LEMMA AcceptedFrom ==
  ASSUME IInv, [Next]_vars, NEW a \in answers' \ answers, a.result = "accepted"
  PROVE  \E e \in Logged(a.operation_id)' :
           \/ a.op = "delete" /\ a.operation_id \in SyncOp
           \/ a.version = e.version
  <1>1. log \subseteq log'
    BY CommittedOnlyByCommit DEF Commit, dbVars
  <1>2. PICK s \in Slot : op[s] \in IncomingOp /\ (AnswerFromLog(s) \/ Commit(s))
    BY AcceptedBy
  <1>3. CASE AnswerFromLog(s)
    <2>1. PICK e \in Logged(op[s].operation_id) : Answer(s, "accepted", e.version)
      BY <1>3 DEF AnswerFromLog
    <2>2. a.operation_id = op[s].operation_id /\ a.version = e.version
      BY <2>1 DEF Answer
    <2> QED
      BY <1>1, <2>1, <2>2 DEF Logged
  <1>4. CASE Commit(s)
    <2>1. /\ a.operation_id = op[s].operation_id
          /\ a.op = op[s].op /\ a.version = ResultVersion(s)
      BY <1>4 DEF Commit, Answer
    <2>2. Entry(s) \in Logged(a.operation_id)' /\ Entry(s).version = ver[s]
      BY <1>4, <2>1, CommitAppends DEF Logged
    <2> QED
      BY <2>1, <2>2 DEF ResultVersion
  <1> QED
    BY <1>2, <1>3, <1>4

LEMMA AcceptedStep ==
  ASSUME IInv, [Next]_vars
  PROVE  AcceptedIsLogged'
  <1>1. log \subseteq log'
    BY CommittedOnlyByCommit DEF Commit, dbVars
  <1> SUFFICES ASSUME NEW a \in answers', a.result = "accepted"
               PROVE  \E e \in Logged(a.operation_id)' : a.op = "upsert" => a.version = e.version
    BY DEF AcceptedIsLogged, Logged
  <1>2. CASE a \in answers
    BY <1>1, <1>2 DEF IInv, AcceptedIsLogged, Logged
  <1>3. CASE a \notin answers
    BY <1>3, AcceptedFrom
  <1> QED
    BY <1>2, <1>3

-----------------------------------------------------------------------------
(* Locks and prepared writes, by the shape of the step *)

Discipline == LockDiscipline /\ PreparedWrite

LEMMA ReleaseDiscipline ==
  ASSUME IInv, NEW s \in Slot, Release(s), UNCHANGED dbVars
  PROVE  Discipline'
  BY DEF IInv, TypeOK, Discipline, LockDiscipline, PreparedWrite, Release, dbVars,
         RowLocked, WorkspaceLocked, Logged, Current

LEMMA RejectDiscipline ==
  ASSUME IInv, NEW s \in Slot, NEW reason, Reject(s, reason)
  PROVE  Discipline'
  BY ReleaseDiscipline DEF Reject

LEMMA BeginDiscipline ==
  ASSUME IInv, NEW s \in Slot, NEW d \in IncomingOp,
         NEW start \in {"lookup", "reread", "update", "insert"}, Begin(s, d, start),
         start = "insert" => d.op = "upsert" /\ d.base_version = 0,
         start = "update" => d.op = "upsert",
         start = "reread" => d.op = "delete"
  PROVE  Discipline'
  <1>1. ~holds[s]
    BY DEF IInv, LockDiscipline, Begin
  <1> QED
    BY <1>1 DEF IInv, TypeOK, Discipline, LockDiscipline, PreparedWrite, Begin, dbVars,
                RowLocked, WorkspaceLocked, Logged, Current

LEMMA AdvanceDiscipline ==
  ASSUME IInv, NEW s \in Slot, pc[s] \in {"lookup", "read", "idcheck"},
         NEW to \in {"read", "reread", "update", "idcheck", "insert"}, Advance(s, to),
         to \in {"idcheck", "insert"} => op[s].op = "upsert" /\ op[s].base_version = 0,
         to = "update" => op[s].op = "upsert",
         to = "reread" => op[s].op = "delete"
  PROVE  Discipline'
  <1>1. ~holds[s]
    BY DEF IInv, LockDiscipline
  <1> QED
    BY <1>1 DEF IInv, TypeOK, Discipline, LockDiscipline, PreparedWrite, Advance, dbVars,
                RowLocked, WorkspaceLocked, Logged, Current

LEMMA MutateDiscipline ==
  ASSUME IInv, NEW s \in Slot, pc[s] \in {"insert", "update", "delete"},
         NEW v \in Nat, NEW locks \in BOOLEAN, Mutate(s, v, locks),
         locks => ~RowLocked(s),
         op[s].op = "upsert" =>
           locks /\ Current(s).version = op[s].base_version /\ v = op[s].base_version + 1
  PROVE  Discipline'
  BY DEF IInv, TypeOK, Discipline, LockDiscipline, PreparedWrite, Mutate, dbVars,
         RowLocked, WorkspaceLocked, Logged, Current

LEMMA UniqueViolationDiscipline ==
  ASSUME IInv, NEW s \in Slot, UniqueViolation(s)
  PROVE  Discipline'
  <1>1. CASE op[s].operation_id \in SyncOp
    BY <1>1 DEF IInv, TypeOK, Discipline, LockDiscipline, PreparedWrite, UniqueViolation,
                dbVars, RowLocked, WorkspaceLocked, Logged, Current
  <1>2. CASE op[s].operation_id \notin SyncOp
    BY <1>2, RejectDiscipline DEF UniqueViolation
  <1> QED
    BY <1>1, <1>2

LEMMA RecordDiscipline ==
  ASSUME IInv, NEW s \in Slot, recordChange(s)
  PROVE  Discipline'
  <1>1. CASE Logged(op[s].operation_id) = {}
    BY <1>1 DEF IInv, TypeOK, Discipline, LockDiscipline, PreparedWrite, recordChange,
                dbVars, RowLocked, WorkspaceLocked, Logged, Current
  <1>2. CASE Logged(op[s].operation_id) # {}
    BY <1>2, UniqueViolationDiscipline DEF recordChange
  <1> QED
    BY <1>1, <1>2

\* Nobody else is between recordChange and the commit, and nobody else holds the
\* row that the commit replaces.
LEMMA CommitDiscipline ==
  ASSUME IInv, NEW s \in Slot, Commit(s)
  PROVE  Discipline'
  <1>1. \A t \in Slot \ {s} : /\ pc[t] # "commit"
                              /\ pc'[t] = pc[t] /\ op'[t] = op[t]
                              /\ holds'[t] = holds[t] /\ ver'[t] = ver[t]
    BY DEF IInv, TypeOK, LockDiscipline, WorkspaceLocked, Commit, Release
  <1>2. pc'[s] = "idle" /\ ~holds'[s]
    BY DEF IInv, TypeOK, Commit, Release
  <1>3. LockDiscipline'
    BY <1>1, <1>2 DEF IInv, LockDiscipline, RowLocked
  <1>4. ASSUME NEW t \in Slot \ {s}, holds[t]
        PROVE  rows'[op[t].resource_id] = rows[op[t].resource_id]
    <2>1. CASE holds[s]
      <3>1. op[t].resource_id # op[s].resource_id
        BY <1>4, <2>1 DEF IInv, LockDiscipline, RowLocked
      <3>2. op[t] \in IncomingOp
        BY <1>4 DEF IInv, LockDiscipline, TypeOK
      <3> QED
        BY <2>1, <3>1, <3>2, SyncLogAssumption DEF Commit, IInv, TypeOK
    <2>2. CASE ~holds[s]
      BY <2>2 DEF Commit
    <2> QED
      BY <2>1, <2>2
  <1>5. PreparedWrite'
    BY <1>1, <1>2, <1>4 DEF IInv, PreparedWrite, Current
  <1> QED
    BY <1>3, <1>5 DEF Discipline

LEMMA StatementDiscipline ==
  ASSUME IInv, NEW s \in Slot, Statement(s)
  PROVE  Discipline'
  <1> USE DEF IInv
  <1>1. CASE ReplayLookup(s)
    BY <1>1, AdvanceDiscipline, ReleaseDiscipline DEF ReplayLookup, AnswerFromLog
  <1>2. CASE ReadCurrent(s)
    <2>1. pc[s] = "read" /\ op[s] \in IncomingOp /\ Current(s).version \in Nat
      BY <1>2, SyncLogAssumption DEF ReadCurrent, TypeOK, Current
    <2>2. CASE checkBase(Current(s).version, op[s]) # "ok"
      BY <1>2, <2>2, RejectDiscipline DEF ReadCurrent
    <2>3. CASE checkBase(Current(s).version, op[s]) = "ok"
      <3>1. op[s].op = "upsert" /\ Current(s).version = 0 => op[s].base_version = 0
        BY <2>1, <2>3, SyncLogAssumption DEF checkBase
      <3> QED
        BY <1>2, <2>1, <2>3, <3>1, SyncLogAssumption, AdvanceDiscipline DEF ReadCurrent
    <2> QED
      BY <2>2, <2>3
  <1>3. CASE CheckIdTaken(s)
    BY <1>3, AdvanceDiscipline, RejectDiscipline DEF CheckIdTaken, PreparedWrite
  <1>4. CASE Insert(s)
    <2>1. pc[s] = "insert" /\ ~RowLocked(s) /\ op[s].base_version = 0
      BY <1>4 DEF Insert, PreparedWrite
    <2>2. CASE Current(s).version = 0 /\ Mutate(s, 1, TRUE)
      <3>1. 1 \in Nat /\ TRUE \in BOOLEAN /\ 1 = op[s].base_version + 1
        BY <2>1
      <3> QED
        BY <2>1, <2>2, <3>1, MutateDiscipline
    <2>3. CASE UniqueViolation(s)
      BY <2>3, UniqueViolationDiscipline
    <2> QED
      BY <1>4, <2>2, <2>3 DEF Insert
  <1>5. CASE Update(s)
    <2>1. op[s].base_version + 1 \in Nat
      BY <1>5, SyncLogAssumption DEF Update, TypeOK
    <2> QED
      BY <1>5, <2>1, MutateDiscipline, RejectDiscipline DEF Update
  <1>6. CASE Reread(s)
    <2>1. pc[s] = "reread" /\ op[s].op = "delete" /\ ~holds[s]
      BY <1>6 DEF Reread, PreparedWrite, LockDiscipline
    <2>2. CASE Reject(s, "not_found") \/ Reject(s, "version_mismatch")
      BY <2>2, RejectDiscipline
    <2>3. CASE /\ pc' = [pc EXCEPT ![s] = "delete"]
               /\ ver' = [ver EXCEPT ![s] = Current(s).version]
               /\ UNCHANGED <<dbVars, op, holds, seq, pullVars, sent, answers>>
      BY <2>1, <2>3 DEF TypeOK, Discipline, LockDiscipline, PreparedWrite, dbVars,
                        RowLocked, WorkspaceLocked, Logged, Current
    <2> QED
      BY <1>6, <2>2, <2>3 DEF Reread
  <1>7. CASE Delete(s)
    <2>1. ver[s] \in Nat /\ (Current(s).version > 0) \in BOOLEAN /\ op[s].op = "delete"
      BY <1>7 DEF TypeOK, Delete, PreparedWrite
    <2> QED
      BY <1>7, <2>1, MutateDiscipline DEF Delete
  <1>8. CASE recordChange(s)
    BY <1>8, RecordDiscipline
  <1>9. CASE Commit(s)
    BY <1>9, CommitDiscipline
  <1>10. CASE ReplayRelookup(s)
    BY <1>10, ReleaseDiscipline, RejectDiscipline DEF ReplayRelookup, AnswerFromLog
  <1> QED
    BY <1>1, <1>2, <1>3, <1>4, <1>5, <1>6, <1>7, <1>8, <1>9, <1>10 DEF Statement

LEMMA DisciplineStep ==
  ASSUME IInv, [Next]_vars
  PROVE  Discipline'
  <1>1. ASSUME NEW s \in Slot, NEW d \in IncomingOp, Push(s, d)
        PROVE  Discipline'
    BY <1>1, BeginDiscipline DEF Push
  <1>2. ASSUME NEW s \in Slot, NEW d \in IncomingOp, Rest(s, d)
        PROVE  Discipline'
    <2>1. d.op \in {"upsert", "delete"} /\ d.base_version \in Nat
      BY SyncLogAssumption
    <2>2. CASE d.op = "delete"
      <3>1. RestStart(d) = "reread"
        BY <2>2 DEF RestStart
      <3> QED
        BY <1>2, <2>2, <3>1, BeginDiscipline DEF Rest
    <2>3. CASE d.op = "upsert" /\ d.base_version > 0
      <3>1. RestStart(d) = "update"
        BY <2>3 DEF RestStart
      <3> QED
        BY <1>2, <2>3, <3>1, BeginDiscipline DEF Rest
    <2>4. CASE d.op = "upsert" /\ d.base_version = 0
      <3>1. RestStart(d) = "insert"
        BY <2>4 DEF RestStart
      <3> QED
        BY <1>2, <2>4, <3>1, BeginDiscipline DEF Rest
    <2> QED
      BY <2>1, <2>2, <2>3, <2>4
  <1>3. ASSUME NEW s \in Slot, Abort(s)
        PROVE  Discipline'
    BY <1>3, ReleaseDiscipline DEF Abort
  <1>4. ASSUME NEW c \in Client, Pull(c)
        PROVE  Discipline'
    BY <1>4 DEF Pull, txVars, dbVars, IInv, Discipline, LockDiscipline, PreparedWrite,
                RowLocked, WorkspaceLocked, Logged, Current
  <1>5. CASE UNCHANGED vars
    BY <1>5 DEF vars, txVars, dbVars, IInv, Discipline, LockDiscipline, PreparedWrite,
                RowLocked, WorkspaceLocked, Logged, Current
  <1> QED
    BY <1>1, <1>2, <1>3, <1>4, <1>5, StatementDiscipline DEF Next

-----------------------------------------------------------------------------
(* The results *)

(* The invariants the runs check hold together, and together they are      *)
(* inductive: whatever requests interleave, crash or are resent.           *)
THEOREM Invariance == Spec => []IInv
  <1>1. Init => IInv
    <2>1. Init => TypeOK
      BY DEF Init, TypeOK, NoRow, PC
    <2>2. Init => LockDiscipline /\ PreparedWrite
      BY DEF Init, LockDiscipline, PreparedWrite
    <2>3. Init => LogIsGapFree /\ AppliedOnce /\ PullNeverSkips
      BY DEF Init, LogIsGapFree, AppliedOnce, PullNeverSkips
    <2>4. Init => RowsAreLogged /\ AcceptedIsLogged
      BY DEF Init, NoRow, RowsAreLogged, EntriesOf, AcceptedIsLogged
    <2> QED
      BY <2>1, <2>2, <2>3, <2>4 DEF IInv
  <1>2. TypeOK' /\ IInv /\ [Next]_vars => IInv'
    BY DisciplineStep, GapFreeStep, PullStep, RowsStep, AcceptedStep
    DEF IInv, Discipline
  <1> QED
    BY <1>1, <1>2, TypeCorrect, PTL DEF Spec

(* The committed log is gap-free in commit order, for every interleaving.  *)
THEOREM LogGapFree == Spec => []LogIsGapFree
  <1>1. IInv => LogIsGapFree
    BY DEF IInv
  <1> QED
    BY <1>1, Invariance, PTL

(* However writers and paged pulls interleave, no client misses an entry.  *)
THEOREM PullIsComplete == Spec => []PullNeverSkips
  <1>1. IInv => PullNeverSkips
    BY DEF IInv
  <1> QED
    BY <1>1, Invariance, PTL

(* However often and concurrently an operation is sent, it is logged once. *)
THEOREM PushAppliedOnce == Spec => []AppliedOnce
  <1>1. IInv => AppliedOnce
    BY DEF IInv
  <1> QED
    BY <1>1, Invariance, PTL

(* The log accounts for every row and for every row that is gone.          *)
THEOREM RowsFollowLog == Spec => []RowsAreLogged
  <1>1. IInv => RowsAreLogged
    BY DEF IInv
  <1> QED
    BY <1>1, Invariance, PTL

(* What a client was told is accepted stays in the log.                    *)
THEOREM AcceptedStaysLogged == Spec => []AcceptedIsLogged
  <1>1. IInv => AcceptedIsLogged
    BY DEF IInv
  <1> QED
    BY <1>1, Invariance, PTL

(***************************************************************************)
(* Deletes are by id, whatever version is there by then, and the answer to *)
(* a pushed one is the version it read first: the next two results are     *)
(* about writers that do not delete.                                       *)
(***************************************************************************)
DeletesNothing(ops) == \A d \in ops : d.op = "upsert"
PushesNoDelete(ops) == \A d \in ops : d.operation_id \in SyncOp => d.op = "upsert"

(* While nobody deletes, the last entry of a resource is its row: a client *)
(* that pulled to the end has what the tables have (syncLog.ts).           *)
THEOREM LogTellsTheData ==
  ASSUME DeletesNothing(IncomingOp)
  PROVE  Spec => []LogMatchesData
  <1> DEFINE OnlyUpserts == \A e \in log : e.op = "upsert"
  <1>1. Init => OnlyUpserts
    BY DEF Init
  <1>2. IInv /\ OnlyUpserts /\ [Next]_vars => OnlyUpserts'
    <2> SUFFICES ASSUME IInv, OnlyUpserts, [Next]_vars, NEW e \in log', e \notin log
                 PROVE  e.op = "upsert"
      OBVIOUS
    <2>1. PICK s \in Slot : Commit(s)
      BY CommittedOnlyByCommit DEF dbVars
    <2>2. e = Entry(s) /\ op[s] \in IncomingOp
      BY <2>1, CommitAppends
    <2> QED
      BY <2>2 DEF Entry, DeletesNothing
  <1>3. IInv /\ OnlyUpserts => LogMatchesData
    <2> SUFFICES ASSUME IInv, OnlyUpserts, NEW r \in Resource, NEW e \in EntriesOf(r),
                        IsLast(e, EntriesOf(r))
                 PROVE  rows[r].version = e.version
      BY DEF LogMatchesData, EntriesOf
    <2>1. Upserts(EntriesOf(r)) = EntriesOf(r) /\ e \in log /\ e.op = "upsert"
      BY DEF Upserts, EntriesOf
    <2>2. rows[r].version > 0
      BY <2>1 DEF IInv, RowsAreLogged
    <2>3. PICK f \in EntriesOf(r) :
            /\ IsLast(f, EntriesOf(r))
            /\ rows[r] = [version |-> f.version, writer |-> f.operation_id]
      BY <2>1, <2>2 DEF IInv, RowsAreLogged
    <2>4. f \in log /\ e.seq \in Nat /\ f.seq \in Nat
      BY <2>1, <2>3 DEF IInv, TypeOK, LogEntry, EntriesOf
    <2>5. e.seq = f.seq
      BY <2>3, <2>4 DEF IsLast
    <2>6. e = f
      BY <2>1, <2>4, <2>5 DEF IInv, LogIsGapFree
    <2> QED
      BY <2>3, <2>6
  <1> HIDE DEF OnlyUpserts
  <1> QED
    BY <1>1, <1>2, <1>3, Invariance, PTL DEF Spec

(* While no desktop pushes a delete, an operation is answered alike however *)
(* often it is sent: from the log, with the version its entry has.          *)
THEOREM ReplaysAnswerAlike ==
  ASSUME PushesNoDelete(IncomingOp)
  PROVE  Spec => []ReplayReturnsOriginal
  <1> DEFINE AnswersAreEntries ==
               \A a \in answers : a.result = "accepted" =>
                 \E e \in Logged(a.operation_id) : a.version = e.version
  <1>1. Init => AnswersAreEntries
    BY DEF Init
  <1>2. IInv /\ AnswersAreEntries /\ [Next]_vars => AnswersAreEntries'
    <2> SUFFICES ASSUME IInv, AnswersAreEntries, [Next]_vars, NEW a \in answers',
                        a.result = "accepted"
                 PROVE  \E e \in Logged(a.operation_id)' : a.version = e.version
      BY DEF Logged
    <2>1. log \subseteq log'
      BY CommittedOnlyByCommit DEF Commit, dbVars
    <2>2. CASE a \in answers
      BY <2>1, <2>2 DEF Logged
    <2>3. CASE a \notin answers
      <3>1. PICK s \in Slot : op[s] \in IncomingOp /\ (AnswerFromLog(s) \/ Commit(s))
        BY <2>3, AcceptedBy
      <3>2. op[s] \in IncomingOp /\ a.op = op[s].op /\ a.operation_id = op[s].operation_id
        BY <2>3, <3>1 DEF AnswerFromLog, Commit, Answer
      <3>3. ~(a.op = "delete" /\ a.operation_id \in SyncOp)
        BY <3>2 DEF PushesNoDelete
      <3> QED
        BY <2>3, <3>3, AcceptedFrom
    <2> QED
      BY <2>2, <2>3
  <1>3. IInv /\ AnswersAreEntries => ReplayReturnsOriginal
    BY DEF IInv, AppliedOnce, ReplayReturnsOriginal, Logged
  <1> HIDE DEF AnswersAreEntries
  <1> QED
    BY <1>1, <1>2, <1>3, Invariance, PTL DEF Spec

(* No upsert overwrites a version other than the one it was based on.      *)
THEOREM UpsertsLoseNothing == Spec => NoLostUpdate
  <1>1. ASSUME IInv, [Next]_vars, NEW e \in log' \ log, e.op = "upsert"
        PROVE  /\ rows[e.resource_id].version = e.base
               /\ rows'[e.resource_id] = [version |-> e.base + 1, writer |-> e.operation_id]
               /\ e.version = e.base + 1
    <2>1. PICK s \in Slot : Commit(s)
      BY <1>1, CommittedOnlyByCommit DEF dbVars
    <2>2. e = Entry(s) /\ op[s] \in IncomingOp
      BY <1>1, <2>1, CommitAppends
    <2>3. /\ e.resource_id = op[s].resource_id /\ e.op = op[s].op
          /\ e.base = op[s].base_version /\ e.version = ver[s]
          /\ e.operation_id = op[s].operation_id
      BY <2>2 DEF Entry
    <2>4. /\ holds[s] /\ Current(s).version = op[s].base_version
          /\ ver[s] = op[s].base_version + 1
      BY <1>1, <2>1, <2>3 DEF IInv, PreparedWrite, Commit
    <2>5. rows'[op[s].resource_id] = [version |-> ver[s], writer |-> op[s].operation_id]
      BY <1>1, <2>1, <2>2, <2>3, <2>4, SyncLogAssumption DEF Commit, NewRow, IInv, TypeOK
    <2> QED
      BY <2>3, <2>4, <2>5 DEF Current
  <1>2. IInv /\ [Next]_vars =>
          [\A e \in log' \ log :
             e.op = "upsert" =>
               /\ rows[e.resource_id].version = e.base
               /\ rows'[e.resource_id] = [version |-> e.base + 1, writer |-> e.operation_id]
               /\ e.version = e.base + 1]_vars
    BY <1>1
  <1> QED
    BY <1>2, Invariance, PTL DEF Spec, NoLostUpdate

-----------------------------------------------------------------------------
(* Refinement: SyncLog implements ChangeFeed *)

\* In a gap-free log, the entry at n is the only one with checkpoint n.
LEMMA EntryAtUnique ==
  IInv => \A n \in 1 .. checkpoint :
            /\ EntryAt(log, n) \in log /\ EntryAt(log, n).seq = n
            /\ \A e \in log : e.seq = n => e = EntryAt(log, n)
  <1> SUFFICES ASSUME IInv, NEW n \in 1 .. checkpoint
               PROVE  /\ EntryAt(log, n) \in log /\ EntryAt(log, n).seq = n
                      /\ \A e \in log : e.seq = n => e = EntryAt(log, n)
    OBVIOUS
  <1>1. \E e \in log : e.seq = n
    BY DEF IInv, LogIsGapFree
  <1>2. EntryAt(log, n) \in log /\ EntryAt(log, n).seq = n
    BY <1>1 DEF EntryAt
  <1> QED
    BY <1>2 DEF IInv, LogIsGapFree

\* What a client was given agrees with the log up to the client's checkpoint.
LEMMA SeenAgrees ==
  ASSUME IInv, NEW c \in Client, NEW n \in 1 .. pulled[c]
  PROVE  EntryAt(seen[c], n) = EntryAt(log, n) /\ n \in 1 .. checkpoint
  <1>1. pulled[c] \in Nat /\ checkpoint \in Nat /\ pulled[c] <= checkpoint
    BY DEF IInv, TypeOK, PullNeverSkips
  <1>2. n \in 1 .. checkpoint
    BY <1>1
  <1>3. EntryAt(log, n) \in seen[c] /\ EntryAt(log, n).seq = n
    BY <1>1, <1>2, EntryAtUnique DEF IInv, PullNeverSkips
  <1>4. \A e \in seen[c] : e.seq = n => e = EntryAt(log, n)
    BY <1>2, EntryAtUnique DEF IInv, PullNeverSkips
  <1>5. EntryAt(seen[c], n) \in seen[c] /\ EntryAt(seen[c], n).seq = n
    BY <1>3 DEF EntryAt
  <1> QED
    BY <1>2, <1>4, <1>5

LEMMA FunctionIsSeq ==
  ASSUME NEW S, NEW n \in Nat, NEW f \in [1 .. n -> S]
  PROVE  f \in Seq(S) /\ Len(f) = n
  OBVIOUS

LEMMA PrefixOf ==
  ASSUME NEW S, NEW n \in Nat, NEW f \in [1 .. n -> S], NEW m \in 0 .. n
  PROVE  SubSeq(f, 1, m) = [i \in 1 .. m |-> f[i]]
  BY FunctionIsSeq

LEMMA CommittedIsSeq ==
  IInv => /\ Committed \in [1 .. checkpoint -> LogEntry]
          /\ checkpoint \in Nat
          /\ Len(Committed) = checkpoint
  <1> SUFFICES ASSUME IInv
               PROVE  /\ Committed \in [1 .. checkpoint -> LogEntry]
                      /\ checkpoint \in Nat
                      /\ Len(Committed) = checkpoint
    OBVIOUS
  <1>1. checkpoint \in Nat /\ log \subseteq LogEntry
    BY DEF IInv, TypeOK
  <1>2. Committed \in [1 .. checkpoint -> LogEntry]
    BY <1>1, EntryAtUnique DEF Committed
  <1> QED
    BY <1>1, <1>2, FunctionIsSeq

\* A client has been given a prefix of the committed feed.
LEMMA GivenIsPrefix ==
  IInv => \A c \in Client :
            /\ Given[c] = [i \in 1 .. pulled[c] |-> Committed[i]]
            /\ pulled[c] \in 0 .. checkpoint
            /\ Len(Given[c]) = pulled[c]
  <1> SUFFICES ASSUME IInv, NEW c \in Client
               PROVE  /\ Given[c] = [i \in 1 .. pulled[c] |-> Committed[i]]
                      /\ pulled[c] \in 0 .. checkpoint
                      /\ Len(Given[c]) = pulled[c]
    OBVIOUS
  <1>1. pulled[c] \in 0 .. checkpoint
    BY DEF IInv, TypeOK, PullNeverSkips
  <1>2. Given[c] = [i \in 1 .. pulled[c] |-> Committed[i]]
    BY SeenAgrees DEF Given, Committed
  <1>3. Given[c] \in [1 .. pulled[c] -> LogEntry]
    BY <1>1, <1>2, CommittedIsSeq
  <1> QED
    BY <1>1, <1>2, <1>3, FunctionIsSeq

\* The three facts above, to be used of the next state as well.
FeedShape ==
  /\ \A e \in log : Committed[e.seq] = e
  /\ \A n \in 1 .. checkpoint : Committed[n] \in log /\ Committed[n].seq = n
  /\ Committed \in [1 .. checkpoint -> LogEntry]
  /\ Len(Committed) = checkpoint
  /\ \A c \in Client : Given[c] = [i \in 1 .. pulled[c] |-> Committed[i]]

LEMMA FeedHasShape == IInv => FeedShape
  <1> SUFFICES ASSUME IInv PROVE FeedShape
    OBVIOUS
  <1>1. \A n \in 1 .. checkpoint : Committed[n] \in log /\ Committed[n].seq = n
    BY EntryAtUnique DEF Committed
  <1>2. ASSUME NEW e \in log
        PROVE  Committed[e.seq] = e
    <2>1. e.seq \in 1 .. checkpoint
      BY DEF IInv, LogIsGapFree
    <2> QED
      BY <2>1, EntryAtUnique DEF Committed
  <1> QED
    BY <1>1, <1>2, CommittedIsSeq, GivenIsPrefix DEF FeedShape

LEMMA CommitPublishes ==
  ASSUME IInv, FeedShape', NEW s \in Slot, Commit(s)
  PROVE  Feed!Publish
  <1>1. /\ checkpoint' = checkpoint + 1
        /\ log' = log \cup {Entry(s)} /\ Entry(s).seq = checkpoint + 1
        /\ \A e \in log : e.operation_id # Entry(s).operation_id
    BY CommitAppends
  <1>2. /\ Committed \in [1 .. checkpoint -> LogEntry] /\ checkpoint \in Nat
        /\ Len(Committed) = checkpoint
    BY CommittedIsSeq
  <1>3. /\ Committed' \in [1 .. checkpoint' -> LogEntry]
        /\ Len(Committed') = checkpoint'
    BY DEF FeedShape
  <1>4. \A e \in log' : Committed'[e.seq] = e
    BY DEF FeedShape
  <1>5. ASSUME NEW i \in 1 .. checkpoint
        PROVE  Committed'[i] = Committed[i] /\ Committed[i] \in log
    BY <1>1, <1>4, FeedHasShape DEF FeedShape
  <1>6. Committed'[checkpoint'] = Entry(s)
    BY <1>1, <1>4
  <1>7. SubSeq(Committed', 1, Len(Committed)) = Committed
    <2>1. SubSeq(Committed', 1, checkpoint) = [i \in 1 .. checkpoint |-> Committed'[i]]
      BY <1>1, <1>2, <1>3, PrefixOf
    <2> QED
      BY <1>2, <1>5, <2>1
  <1>8. UNCHANGED Given
    BY DEF Commit, pullVars, Given
  <1> QED
    BY <1>1, <1>2, <1>3, <1>5, <1>6, <1>7, <1>8 DEF Feed!Publish

LEMMA PullDelivers ==
  ASSUME IInv, FeedShape', NEW c \in Client, Pull(c)
  PROVE  \E n \in 1 .. Len(Committed) : Feed!Deliver(c, n)
  <1>1. PICK last \in {e \in log : e.seq > pulled[c]} :
          /\ pulled' = [pulled EXCEPT ![c] = last.seq]
          /\ seen' = [seen EXCEPT ![c] = @ \cup
                        {e \in {f \in log : f.seq > pulled[c]} : e.seq <= last.seq}]
          /\ UNCHANGED dbVars
    BY DEF Pull
  <1> DEFINE n == last.seq
  <1>2. n \in 1 .. checkpoint /\ pulled[c] < n /\ checkpoint \in Nat /\ pulled[c] \in Nat
    BY <1>1 DEF IInv, LogIsGapFree, TypeOK
  <1>3. UNCHANGED Committed
    BY <1>1 DEF Committed, dbVars
  <1>4. pulled'[c] = n
    BY <1>1 DEF IInv, TypeOK
  <1>5. Given'[c] = [i \in 1 .. n |-> Committed[i]]
    <2>1. Given'[c] = [i \in 1 .. pulled'[c] |-> Committed'[i]]
      BY DEF FeedShape
    <2> QED
      BY <1>3, <1>4, <2>1
  <1>6. SubSeq(Committed, 1, n) = [i \in 1 .. n |-> Committed[i]]
    BY <1>2, CommittedIsSeq, PrefixOf
  <1>7. \A d \in Client \ {c} : Given'[d] = Given[d]
    BY <1>1 DEF Given, IInv, TypeOK
  <1>8. Given' = [Given EXCEPT ![c] = SubSeq(Committed, 1, n)]
    BY <1>5, <1>6, <1>7 DEF Given
  <1>9. Len(Given[c]) < n
    BY <1>2, GivenIsPrefix
  <1> QED
    BY <1>2, <1>3, <1>8, <1>9, CommittedIsSeq DEF Feed!Deliver

(* SyncLog implements the change feed: to its clients, all the             *)
(* interleavings of requests, locks, crashes and paged pulls look like one *)
(* append-only feed of which each of them is given longer prefixes.        *)
THEOREM FeedImplemented == Spec => ImplementsFeed
  <1>1. Init => Feed!Init
    BY DEF Init, Feed!Init, Committed, Given
  <1>2. IInv /\ FeedShape' /\ [Next]_vars => [Feed!Next]_<<Committed, Given>>
    <2> SUFFICES ASSUME IInv, FeedShape', [Next]_vars
                 PROVE  Feed!Next \/ UNCHANGED <<Committed, Given>>
      OBVIOUS
    <2>1. ASSUME NEW s \in Slot, Commit(s)
          PROVE  Feed!Next
      BY <2>1, CommitPublishes DEF Feed!Next
    <2>2. ASSUME NEW c \in Client, Pull(c)
          PROVE  Feed!Next
      BY <2>2, PullDelivers DEF Feed!Next
    <2>3. CASE UNCHANGED dbVars /\ UNCHANGED pullVars
      BY <2>3 DEF Committed, Given, dbVars, pullVars
    <2> QED
      BY <2>1, <2>2, <2>3, CommittedOnlyByCommit, PulledOnlyByPull
  <1> QED
    BY <1>1, <1>2, FeedHasShape, Invariance, PTL DEF Spec, ImplementsFeed, Feed!Spec

=============================================================================
