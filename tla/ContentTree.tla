---------------------------- MODULE ContentTree ----------------------------
(***************************************************************************)
(* Collections, folders and requests of one workspace: creating, moving    *)
(* and deleting them in transactions that interleave statement by          *)
(* statement (READ COMMITTED), the foreign keys with ON DELETE CASCADE     *)
(* that PostgreSQL enforces, and the tombstones the server logs for a      *)
(* cascade.                                                                *)
(*                                                                         *)
(* A slot is one request handler.  What a transaction wrote is visible to  *)
(* others at its commit; until then (control point "commit") it locks the  *)
(* rows it wrote or deleted, and holds a share of the rows its new foreign *)
(* keys refer to.  The order of concurrent commits in the sync log, replay *)
(* and the checkpoint are the subject of SyncLog; here a commit appends    *)
(* its entries in one step, and the log is seen through the last entry of  *)
(* each item.                                                              *)
(***************************************************************************)
EXTENDS Naturals, FiniteSets, Sequences

CONSTANTS
  Slot, Collection, Folder, Request,
  None,       \* SQL NULL: no parent folder, no collection_id given
  Keep,       \* the payload does not give this field
  Command,    \* what clients ask for
  ReuseIds,   \* the id of an item that was deleted may be created again
  IdOrder,    \* the place of each folder id in the order of ids
  MaxVersion, \* bound on the edits of one item
  WalkLimit   \* assertParentFolder looks at so many ancestors (1000)

Item == Collection \cup Folder \cup Request

ASSUME ContentTreeAssumption ==
  /\ IsFiniteSet(Item) /\ None \notin Item /\ Keep \notin Item \cup {None}
  /\ Collection \cap (Folder \cup Request) = {} /\ Folder \cap Request = {}
  /\ IdOrder \in [Folder -> 1 .. Cardinality(Folder)]
  /\ \A f, g \in Folder : IdOrder[f] = IdOrder[g] => f = g
  /\ ReuseIds \in BOOLEAN
  /\ MaxVersion \in Nat \ {0} /\ WalkLimit \in Nat

\* What the schemas let through: a collection is in nothing; what is created is
\* put into a collection; only requests change theirs.
ASSUME CommandAssumption ==
  /\ Command \subseteq [kind: {"create", "update", "delete"}, id: Item,
                        coll: Collection \cup {None},
                        folder: Folder \cup {None, Keep}]
  /\ \A d \in Command :
       /\ d.kind = "create" => (d.coll = None <=> d.id \in Collection) /\ d.folder # Keep
       /\ d.kind = "update" => d.coll = None \/ d.id \in Request
       /\ d.id \in Collection => d.folder \in {None, Keep}

VARIABLES
  row,    \* committed rows: version (0: absent), coll, parent folder
  logged, \* the last sync-log entry of each item
  txn     \* the transaction of each slot

vars == <<row, logged, txn>>

-----------------------------------------------------------------------------
Absent == [version |-> 0, coll |-> None, parent |-> None]
Unlogged == [op |-> "none", state |-> Absent]
NoCommand == [kind |-> "none", id |-> None, coll |-> None, folder |-> None]

Idle == [pc |-> "idle", op |-> NoCommand, expected |-> 0, cur |-> Absent,
         at |-> None, steps |-> 0, folders |-> {}, requests |-> {}, gone |-> {}]

Init ==
  /\ row = [i \in Item |-> Absent]
  /\ logged = [i \in Item |-> Unlogged]
  /\ txn = [s \in Slot |-> Idle]

Exists(i) == row[i].version > 0

\* The slot goes on to control point `to'; Rejected and Abort end it.
Go(s, to) == txn' = [txn EXCEPT ![s].pc = to] /\ UNCHANGED <<row, logged>>
Finish(s) == txn' = [txn EXCEPT ![s] = Idle]
Rejected(s) == Finish(s) /\ UNCHANGED <<row, logged>>

-----------------------------------------------------------------------------
(* Where an item goes *)

Op(s) == txn[s].op
Moves(s) == Op(s).kind = "update" /\ Op(s).coll \notin {None, txn[s].cur.coll}
TargetCollection(s) == IF Op(s).coll # None THEN Op(s).coll ELSE txn[s].cur.coll

\* Mutant: a request that moves keeps its folder unchecked.
CheckedFolder_given(s) == IF Op(s).folder # Keep THEN Op(s).folder ELSE None

\* The folder a create or an update has to look up, if any: the one it gives,
\* or the current one of a request that changes collection.
CheckedFolder(s) ==
  IF Op(s).folder # Keep THEN Op(s).folder
  ELSE IF Moves(s) THEN txn[s].cur.parent ELSE None

\* Mutant: the version is incremented by the caller and by updateVersioned.
Written_twice(s) ==
  LET old == row[Op(s).id] IN
  [version |-> IF Op(s).kind = "update" THEN old.version + 2 ELSE 1,
   coll    |-> IF Op(s).kind = "create" \/ Moves(s) THEN TargetCollection(s) ELSE old.coll,
   parent  |-> IF Op(s).folder = Keep THEN old.parent ELSE Op(s).folder]

\* The row after the write.
Written(s) ==
  LET old == row[Op(s).id] IN
  [version |-> old.version + 1,
   coll    |-> IF Op(s).kind = "create" \/ Moves(s) THEN TargetCollection(s) ELSE old.coll,
   parent  |-> IF Op(s).folder = Keep THEN old.parent ELSE Op(s).folder]

\* Rows that the foreign keys the write sets or changes refer to.
Referenced(s) ==
  LET old == row[Op(s).id]
      new == Written(s)
  IN (({new.coll} \ {old.coll}) \cup ({new.parent} \ {old.parent})) \ {None}

-----------------------------------------------------------------------------
(* Row locks of the other transactions *)

Others(s) == {t \in Slot \ {s} : txn[t].pc = "commit"}
Writes(t) == IF Op(t).kind = "delete" THEN txn[t].gone ELSE {Op(t).id}
Locked(s, i) == \E t \in Others(s) : i \in Writes(t)
BeingDeleted(s, i) == \E t \in Others(s) : i \in txn[t].gone
Shared(s, i) == \E t \in Others(s) : Op(t).kind # "delete" /\ i \in Referenced(t)

-----------------------------------------------------------------------------
(* create and update *)

\* A request arrives.  An update names the version the client holds: one that
\* names an older version is refused by the write, so only the current is tried.
Begin(s, d) ==
  /\ txn[s].pc = "idle"
  /\ d.kind = "create" => ReuseIds \/ logged[d.id] = Unlogged
  /\ d.kind = "update" => row[d.id].version \in 1 .. MaxVersion - 1
  /\ txn' = [txn EXCEPT ![s] =
       [Idle EXCEPT !.op = d, !.expected = row[d.id].version,
          !.pc = IF d.kind # "delete" /\ d.id \in Collection THEN "write"
                 ELSE IF d.kind = "create" THEN "collection" ELSE "current"]]
  /\ UNCHANGED <<row, logged>>

\* update*, delete*: find the row.
FindCurrent(s) ==
  /\ txn[s].pc = "current"
  /\ IF ~Exists(Op(s).id) THEN Rejected(s)
     ELSE /\ txn' = [txn EXCEPT ![s].cur = row[Op(s).id],
                                ![s].pc = IF Op(s).kind = "update" THEN "target"
                                          ELSE IF Op(s).id \in Request THEN "delete"
                                          ELSE "folders"]
          /\ UNCHANGED <<row, logged>>

\* createFolder, createRequest, and updateRequest when it moves.
FindCollection(s) ==
  /\ txn[s].pc \in {"collection", "target"}
  /\ IF (txn[s].pc = "collection" \/ Moves(s)) /\ ~Exists(TargetCollection(s))
     THEN Rejected(s)
     ELSE Go(s, IF CheckedFolder(s) = None THEN "write" ELSE "placement")

\* assertRequestFolder, and the lookup of assertParentFolder: the folder must be
\* in the target collection.
FindFolder(s) ==
  /\ txn[s].pc = "placement"
  /\ LET f == CheckedFolder(s) IN
     IF \/ Op(s).kind = "update" /\ f = Op(s).id
        \/ ~Exists(f)
        \/ row[f].coll # TargetCollection(s)
     THEN Rejected(s)
     ELSE /\ txn' = [txn EXCEPT
               ![s].at = row[f].parent,
               ![s].pc = IF Op(s).kind = "update" /\ Op(s).id \in Folder
                         THEN "walk" ELSE "write"]
          /\ UNCHANGED <<row, logged>>

\* Mutant: only the new parent's own parent is looked at.
WalkUp_oneLevel(s) ==
  /\ txn[s].pc = "walk"
  /\ IF txn[s].at = Op(s).id THEN Rejected(s) ELSE Go(s, "write")

\* assertParentFolder: one query per ancestor of the new parent.
WalkUp(s) ==
  /\ txn[s].pc = "walk"
  /\ LET f == txn[s].at IN
     IF f = None \/ txn[s].steps = WalkLimit THEN Go(s, "write")
     ELSE IF f = Op(s).id THEN Rejected(s)
     ELSE /\ txn' = [txn EXCEPT ![s].at = row[f].parent, ![s].steps = @ + 1]
          /\ UNCHANGED <<row, logged>>

\* INSERT, or UPDATE ... WHERE version = expected.  A write to a locked row and
\* a reference to a row being deleted wait; a missing reference is refused.
Write(s) ==
  /\ txn[s].pc = "write"
  /\ IF \/ row[Op(s).id].version # (IF Op(s).kind = "create" THEN 0 ELSE txn[s].expected)
        \/ \E p \in Referenced(s) : ~Exists(p)
     THEN Rejected(s)
     ELSE /\ Op(s).kind = "create" => ReuseIds \/ logged[Op(s).id] = Unlogged
          /\ ~Locked(s, Op(s).id)
          /\ \A p \in Referenced(s) : ~BeingDeleted(s, p)
          /\ Go(s, "commit")

-----------------------------------------------------------------------------
(* delete *)

Subfolders(S) == {f \in Folder : Exists(f) /\ row[f].parent \in S}

\* Folders below f, level by level.
Level(f) ==
  LET level[n \in 0 .. Cardinality(Folder) + 1] ==
        IF n = 0 THEN {f} ELSE Subfolders(level[n - 1])
  IN  level

\* Mutant: child folders only, no recursion.
Descendants_children(f) == [id: Subfolders({f}), depth: {1}]

\* WITH RECURSIVE tree ... UNION ALL: a row per folder and path.  It has no end
\* when the folder is on a cycle; then only the statement's abort ends it.
Descendants(f) ==
  {e \in [id: Folder, depth: 1 .. Cardinality(Folder)] : e.id \in Level(f)[e.depth]}
QueryEnds(f) == Level(f)[Cardinality(Folder) + 1] = {}

\* deleteFolder lists descendants with their depth, deleteCollection all its
\* folders, and no depth (0).
ListFolders(s) ==
  /\ txn[s].pc = "folders"
  /\ LET id == Op(s).id IN
     /\ id \in Folder => QueryEnds(id)
     /\ txn' = [txn EXCEPT
          ![s].pc = "requests",
          ![s].folders = IF id \in Folder THEN Descendants(id)
                         ELSE {[id |-> f, depth |-> 0] : f \in {g \in Folder : row[g].coll = id}}]
  /\ UNCHANGED <<row, logged>>

\* The next statement lists the requests in those folders, or in the collection.
ListRequests(s) ==
  /\ txn[s].pc = "requests"
  /\ LET id == Op(s).id
         in(r) == IF id \in Folder
                  THEN row[r].parent \in {id} \cup {d.id : d \in txn[s].folders}
                  ELSE row[r].coll = id
     IN txn' = [txn EXCEPT ![s].pc = "delete",
                           ![s].requests = {r \in Request : Exists(r) /\ in(r)}]
  /\ UNCHANGED <<row, logged>>

Contents(S) == {i \in Item : Exists(i) /\ (row[i].parent \in S \/ row[i].coll \in S)}

\* What ON DELETE CASCADE removes with the row, at the time of the DELETE: the row,
\* what is in it, what is in that, and nothing else.
Cascade(id) ==
  IF ~Exists(id) THEN {}
  ELSE {i \in Item : \A S \in SUBSET Item : id \in S /\ Contents(S) \subseteq S => i \in S}

\* DELETE by id: waits for every row of the cascade that others wrote or refer to.
Delete(s) ==
  /\ txn[s].pc = "delete"
  /\ LET gone == Cascade(Op(s).id) IN
     /\ \A i \in gone : ~Locked(s, i) /\ ~Shared(s, i)
     /\ txn' = [txn EXCEPT ![s].pc = "commit", ![s].gone = gone]
  /\ UNCHANGED <<row, logged>>

\* Where a listed folder comes: ORDER BY depth DESC (deleteFolder), ORDER BY id
\* (deleteCollection), whatever is in what.
Turn(s, e) ==
  IF Op(s).id \in Collection THEN IdOrder[e.id] ELSE Cardinality(Folder) + 1 - e.depth

\* Mutant: parents first.
Tombstones_parentFirst(s) ==
  <<{Op(s).id}>>
    \o [k \in 1 .. Cardinality(Folder) |->
          {d.id : d \in {e \in txn[s].folders : Turn(s, e) = Cardinality(Folder) + 1 - k}}]
    \o <<txn[s].requests>>

\* The order of the tombstones: the requests, the folders as they were listed, the
\* deleted item.  Folders of one turn (the same depth) are not in one another.
Tombstones(s) ==
  <<txn[s].requests>>
    \o [k \in 1 .. Cardinality(Folder) |-> {d.id : d \in {e \in txn[s].folders : Turn(s, e) = k}}]
    \o <<{Op(s).id}>>

-----------------------------------------------------------------------------
\* Mutant: the row as it was found is logged, not as it was written.
Commit_logsFound(s) ==
  /\ txn[s].pc = "commit"
  /\ LET id   == Op(s).id
         tomb == UNION {Tombstones(s)[k] : k \in DOMAIN Tombstones(s)}
     IN IF Op(s).kind = "delete"
        THEN /\ row' = [i \in Item |-> IF i \in txn[s].gone THEN Absent ELSE row[i]]
             /\ logged' = [i \in Item |->
                  IF i \in tomb THEN [op |-> "delete", state |-> Absent] ELSE logged[i]]
        ELSE /\ row' = [row EXCEPT ![id] = Written(s)]
             /\ logged' = [logged EXCEPT ![id] = [op |-> "upsert", state |-> row[id]]]
  /\ Finish(s)

\* log() and the commit: the rows and the log entries become visible together.
Commit(s) ==
  /\ txn[s].pc = "commit"
  /\ LET id   == Op(s).id
         tomb == UNION {Tombstones(s)[k] : k \in DOMAIN Tombstones(s)}
     IN IF Op(s).kind = "delete"
        THEN /\ row' = [i \in Item |-> IF i \in txn[s].gone THEN Absent ELSE row[i]]
             /\ logged' = [i \in Item |->
                  IF i \in tomb THEN [op |-> "delete", state |-> Absent] ELSE logged[i]]
        ELSE /\ row' = [row EXCEPT ![id] = Written(s)]
             /\ logged' = [logged EXCEPT ![id] = [op |-> "upsert", state |-> Written(s)]]
  /\ Finish(s)

\* A crash, a timeout, a deadlock victim: the transaction leaves no trace.
Abort(s) == txn[s].pc # "idle" /\ Rejected(s)

Statement(s) ==
  \/ FindCurrent(s) \/ FindCollection(s) \/ FindFolder(s) \/ WalkUp(s)
  \/ Write(s) \/ ListFolders(s) \/ ListRequests(s) \/ Delete(s) \/ Commit(s)

Next == \E s \in Slot : (\E d \in Command : Begin(s, d)) \/ Statement(s) \/ Abort(s)

Spec == Init /\ [][Next]_vars
=============================================================================
