------------------------- MODULE ContentTreeProofs -------------------------
(***************************************************************************)
(* For any items, commands and slots.  Rows and transactions are           *)
(* well-typed, and foreign keys hold: a transaction at its commit has      *)
(* locked what it found, and no two of them overlap (IInv).                *)
(*                                                                         *)
(* Whatever interleaves, an item is in the collection of its folder, if no *)
(* id is created a second time (PlaceInv): what a transaction looked up    *)
(* earlier is the row that is there, or an older version of it.            *)
(*                                                                         *)
(* One request at a time: the log tells the tree (SInv), since a delete    *)
(* lists all it takes along, and no folder is inside itself (CInv), since  *)
(* the walk up has seen every ancestor it could meet.                      *)
(***************************************************************************)
EXTENDS ContentTreeProps, FiniteSetTheorems, WellFoundedInduction, TLAPS

Entry == [op: {"none", "upsert", "delete"}, state: RowState]

PcType == {"idle", "collection", "current", "target", "placement", "walk", "write",
           "folders", "requests", "delete", "commit"}

TxnType ==
  [pc: PcType, op: Command \cup {NoCommand}, expected: 0 .. MaxVersion, cur: RowState,
   at: Folder \cup {None}, steps: 0 .. WalkLimit,
   folders: SUBSET [id: Folder, depth: 0 .. Cardinality(Folder)],
   requests: SUBSET Request, gone: SUBSET Item]

-----------------------------------------------------------------------------
(* The operators of the model, for the record of a transaction. *)
MovesOf(x) == x.op.kind = "update" /\ x.op.coll \notin {None, x.cur.coll}
TargetOf(x) == IF x.op.coll # None THEN x.op.coll ELSE x.cur.coll
CheckedOf(x) ==
  IF x.op.folder # Keep THEN x.op.folder
  ELSE IF MovesOf(x) THEN x.cur.parent ELSE None
WrittenOf(x, old) ==
  [version |-> old.version + 1,
   coll    |-> IF x.op.kind = "create" \/ MovesOf(x) THEN TargetOf(x) ELSE old.coll,
   parent  |-> IF x.op.folder = Keep THEN old.parent ELSE x.op.folder]
RefsOf(x, old) ==
  (({WrittenOf(x, old).coll} \ {old.coll}) \cup ({WrittenOf(x, old).parent} \ {old.parent})) \ {None}
WritesOf(x) == IF x.op.kind = "delete" THEN x.gone ELSE {x.op.id}

LEMMA ModelOps ==
  ASSUME NEW s
  PROVE  /\ Op(s) = txn[s].op
         /\ Moves(s) <=> MovesOf(txn[s])
         /\ TargetCollection(s) = TargetOf(txn[s])
         /\ CheckedFolder(s) = CheckedOf(txn[s])
         /\ Written(s) = WrittenOf(txn[s], row[Op(s).id])
         /\ Referenced(s) = RefsOf(txn[s], row[Op(s).id])
         /\ Writes(s) = WritesOf(txn[s])
  BY DEF Op, Moves, TargetCollection, CheckedFolder, Written, Referenced, Writes,
         MovesOf, TargetOf, CheckedOf, WrittenOf, RefsOf, WritesOf

-----------------------------------------------------------------------------
\* What a transaction is doing at its control point.
Shape(x) ==
  /\ x.pc # "idle" => x.op \in Command
  /\ x.pc = "collection" => x.op.kind = "create" /\ x.op.id \notin Collection
  /\ x.pc = "current" => x.op.kind \in {"update", "delete"}
  /\ x.pc = "current" /\ x.op.kind = "update" => x.op.id \notin Collection
  /\ x.pc = "target" => x.op.kind = "update" /\ x.op.id \notin Collection
  /\ x.pc \in {"placement", "walk"} => CheckedOf(x) \in Folder
  /\ x.pc \in {"placement", "walk", "write"} => x.op.kind # "delete"
  /\ x.pc = "walk" => x.op.kind = "update" /\ x.op.id \in Folder
  /\ x.pc \in {"folders", "requests", "delete"} => x.op.kind = "delete"
  /\ x.pc \in {"folders", "requests"} => x.op.id \notin Request
  /\ x.pc # "idle" /\ x.op.kind = "update" => x.expected \in 1 .. MaxVersion - 1
  /\ x.gone # {} => x.pc = "commit" /\ x.op.kind = "delete"

\* What a transaction wrote is as it was when it took the locks.
Held(x, rw) ==
  /\ x.op.kind = "create" => rw[x.op.id].version = 0
  /\ x.op.kind = "update" => rw[x.op.id].version = x.expected
  /\ x.op.kind # "delete" => \A p \in RefsOf(x, rw[x.op.id]) : rw[p].version > 0
  /\ x.op.kind = "delete" =>
       \A i \in Item : rw[i].version > 0 /\ (rw[i].parent \in x.gone \/ rw[i].coll \in x.gone)
                         => i \in x.gone

\* Two of them write different rows, and none deletes what the other refers to.
Apart(x, y, rw) ==
  /\ WritesOf(x) \cap WritesOf(y) = {}
  /\ x.op.kind # "delete" => RefsOf(x, rw[x.op.id]) \cap y.gone = {}

Refs(r) == {r.coll, r.parent} \ {None}

ForeignKeys == \A i \in Item : Exists(i) => \A p \in Refs(row[i]) : Exists(p)

IInv ==
  /\ TypeOK
  /\ \A i \in Item : ~Exists(i) => row[i] = Absent
  /\ ForeignKeys
  /\ \A s \in Slot : Shape(txn[s])
  /\ \A s \in Slot : txn[s].pc = "commit" => Held(txn[s], row)
  /\ \A s, t \in Slot :
       s # t /\ txn[s].pc = "commit" /\ txn[t].pc = "commit" => Apart(txn[s], txn[t], row)

LEMMA Kinds ==
  /\ IsFiniteSet(Folder) /\ Cardinality(Folder) \in Nat
  /\ None \notin Item /\ Keep \notin Item /\ Keep # None
  /\ Item = Collection \cup Folder \cup Request
  /\ Collection \cap Folder = {} /\ Collection \cap Request = {} /\ Folder \cap Request = {}
<1>1. Folder \subseteq Item /\ IsFiniteSet(Item)
  BY ContentTreeAssumption DEF Item
<1> QED
  BY <1>1, ContentTreeAssumption, FS_Subset, FS_CardinalityType DEF Item

LEMMA Commands ==
  ASSUME NEW d \in Command
  PROVE  /\ d.kind \in {"create", "update", "delete"} /\ d.id \in Item
         /\ d.coll \in Collection \cup {None} /\ d.folder \in Folder \cup {None, Keep}
         /\ d.kind = "create" => (d.coll = None <=> d.id \in Collection) /\ d.folder # Keep
         /\ d.kind = "update" => d.coll = None \/ d.id \in Request
         /\ d.id \in Collection => d.folder \in {None, Keep}
  BY CommandAssumption

LEMMA TypeOKDef ==
  TypeOK <=> /\ row \in [Item -> RowState] /\ logged \in [Item -> Entry]
             /\ txn \in [Slot -> TxnType]
  BY DEF TypeOK, Entry, TxnType, PcType

LEMMA AbsentType == Absent \in RowState /\ Unlogged \in Entry /\ Idle \in TxnType /\ Shape(Idle)
<1>1. Absent \in RowState
  BY ContentTreeAssumption DEF Absent, RowState
<1>2. Idle \in TxnType
  BY <1>1, ContentTreeAssumption DEF Idle, TxnType, PcType
<1>3. Shape(Idle)
  BY DEF Shape, Idle
<1> QED
  BY <1>1, <1>2, <1>3 DEF Unlogged, Entry

\* A slot goes on or ends, before its commit or without one.
LEMMA GoesOn ==
  ASSUME IInv, NEW s \in Slot, NEW y \in TxnType, Shape(y), y.pc # "commit",
         txn' = [txn EXCEPT ![s] = y], UNCHANGED <<row, logged>>
  PROVE  IInv'
<1>1. txn'[s] = y /\ \A t \in Slot \ {s} : txn'[t] = txn[t]
  BY DEF IInv, TypeOK
<1>2. TypeOK'
  BY TypeOKDef DEF IInv, TypeOK, TxnType, PcType
<1>3. \A t \in Slot : txn'[t].pc = "commit" => t # s
  BY <1>1
<1>4. \A t \in Slot : Shape(txn'[t])
  BY <1>1 DEF IInv
<1>5. \A t \in Slot : txn'[t].pc = "commit" => Held(txn'[t], row')
  BY <1>1, <1>3 DEF IInv
<1>6. \A t, u \in Slot :
        t # u /\ txn'[t].pc = "commit" /\ txn'[u].pc = "commit" => Apart(txn'[t], txn'[u], row')
  BY <1>1, <1>3 DEF IInv
<1>7. (\A i \in Item : ~Exists(i) => row[i] = Absent)' /\ ForeignKeys'
  BY DEF IInv, ForeignKeys, Exists
<1> QED
  BY <1>2, <1>4, <1>5, <1>6, <1>7 DEF IInv

LEMMA RejectedKeeps ==
  ASSUME IInv, NEW s \in Slot, Rejected(s)
  PROVE  IInv'
<1>1. Idle.pc # "commit"
  BY DEF Idle
<1> QED
  BY <1>1, GoesOn, AbsentType DEF Rejected, Finish

LEMMA SlotType ==
  ASSUME IInv, NEW s \in Slot
  PROVE  txn[s] \in TxnType /\ Shape(txn[s]) /\ Op(s) = txn[s].op
         /\ (txn[s].pc # "idle" => txn[s].op \in Command)
  BY TypeOKDef DEF IInv, Shape, Op

\* The control point changes, and the rest of the transaction stays.
LEMMA GoKeeps ==
  ASSUME IInv, NEW s \in Slot, NEW to \in PcType \ {"commit"}, Go(s, to),
         Shape([txn[s] EXCEPT !.pc = to])
  PROVE  IInv'
<1> DEFINE y == [txn[s] EXCEPT !.pc = to]
<1>1. txn[s] \in TxnType
  BY SlotType
<1>2. y \in TxnType /\ y.pc = to
  BY <1>1 DEF TxnType
<1>3. txn' = [txn EXCEPT ![s] = y] /\ UNCHANGED <<row, logged>>
  BY DEF Go
<1> HIDE DEF y
<1> QED
  BY <1>2, <1>3, GoesOn DEF y

LEMMA BeginKeeps ==
  ASSUME IInv, NEW s \in Slot, NEW d \in Command, Begin(s, d)
  PROVE  IInv'
<1> DEFINE to == IF d.kind # "delete" /\ d.id \in Collection THEN "write"
                 ELSE IF d.kind = "create" THEN "collection" ELSE "current"
           v == row[d.id].version
           y == [Idle EXCEPT !.op = d, !.expected = v, !.pc = to]
<1>1. d.id \in Item /\ row[d.id] \in RowState
  BY Commands DEF IInv, TypeOK
<1>2. v \in 0 .. MaxVersion
  BY <1>1 DEF RowState
<1>3. to \in {"write", "collection", "current"}
  OBVIOUS
<1>a. /\ to = "write" => d.kind # "delete"
      /\ to = "collection" => d.kind = "create" /\ d.id \notin Collection
      /\ to = "current" => d.kind \in {"update", "delete"} /\ (d.kind = "update" => d.id \notin Collection)
  BY Commands
<1>b. d.kind = "update" => v \in 1 .. MaxVersion - 1
  BY DEF Begin
<1>4. txn' = [txn EXCEPT ![s] = y] /\ UNCHANGED <<row, logged>>
  BY DEF Begin
<1> HIDE DEF to, v
<1>5. y.pc = to /\ y.op = d /\ y.expected = v /\ y.gone = {}
  BY DEF Idle
<1>6. y \in TxnType
  <2>1. Idle \in TxnType
    BY AbsentType
  <2> QED
    BY <1>2, <1>3, <2>1 DEF TxnType, PcType
<1> HIDE DEF y
<1>7. Shape(y)
  BY <1>3, <1>5, <1>a, <1>b DEF Shape
<1> QED
  BY <1>3, <1>4, <1>5, <1>6, <1>7, GoesOn

LEMMA FindCurrentKeeps ==
  ASSUME IInv, NEW s \in Slot, FindCurrent(s)
  PROVE  IInv'
<1> DEFINE x == txn[s]
           cur == row[x.op.id]
           to == IF x.op.kind = "update" THEN "target"
                 ELSE IF x.op.id \in Request THEN "delete" ELSE "folders"
           y == [x EXCEPT !.cur = cur, !.pc = to]
<1>1. x \in TxnType /\ Shape(x) /\ x.pc = "current" /\ Op(s) = x.op /\ x.op \in Command
  BY SlotType DEF FindCurrent
<1>2. cur \in RowState
  BY <1>1, Commands DEF IInv, TypeOK
<1>3. CASE Rejected(s)
  BY <1>3, RejectedKeeps
<1>4. CASE txn' = [txn EXCEPT ![s].cur = cur, ![s].pc = to] /\ UNCHANGED <<row, logged>>
  <2>1. txn' = [txn EXCEPT ![s] = y]
    BY <1>4 DEF IInv, TypeOK
  <2>2. to \in {"target", "delete", "folders"}
    OBVIOUS
  <2>3. /\ to = "target" => x.op.kind = "update"
        /\ to \in {"delete", "folders"} => x.op.kind = "delete"
        /\ to = "folders" => x.op.id \notin Request
    BY <1>1 DEF Shape
  <2> HIDE DEF to, cur
  <2>4. y \in TxnType /\ y.pc = to /\ y.op = x.op /\ y.expected = x.expected /\ y.gone = x.gone
    BY <1>1, <1>2, <2>2 DEF TxnType, PcType
  <2> HIDE DEF y
  <2>5. Shape(y)
    BY <1>1, <2>2, <2>3, <2>4 DEF Shape
  <2> QED
    BY <1>4, <2>1, <2>2, <2>4, <2>5, GoesOn
<1> QED
  BY <1>1, <1>3, <1>4 DEF FindCurrent

LEMMA FindCollectionKeeps ==
  ASSUME IInv, NEW s \in Slot, FindCollection(s)
  PROVE  IInv'
<1> DEFINE x == txn[s]
           to == IF CheckedOf(x) = None THEN "write" ELSE "placement"
           y == [x EXCEPT !.pc = to]
<1>1. x \in TxnType /\ Shape(x) /\ x.pc \in {"collection", "target"} /\ x.op \in Command
  BY SlotType DEF FindCollection
<1>2. CASE Rejected(s)
  BY <1>2, RejectedKeeps
<1>3. CASE Go(s, to)
  <2>1. to \in {"write", "placement"} /\ (to = "placement" => CheckedOf(x) # None)
    OBVIOUS
  <2>2. CheckedOf(x) \in Folder \cup {None}
    BY <1>1, Commands DEF CheckedOf, TxnType, RowState
  <2> HIDE DEF to
  <2>3. y.pc = to /\ y.op = x.op /\ y.expected = x.expected /\ y.gone = x.gone
        /\ CheckedOf(y) = CheckedOf(x)
    BY <1>1 DEF TxnType, CheckedOf, MovesOf
  <2>4. Shape(y)
    <3> HIDE DEF y, x
    <3> QED
      BY <1>1, <2>1, <2>2, <2>3 DEF Shape
  <2> QED
    BY <1>3, <2>1, <2>4, GoKeeps DEF PcType
<1> QED
  BY <1>2, <1>3, ModelOps DEF FindCollection

LEMMA FindFolderKeeps ==
  ASSUME IInv, NEW s \in Slot, FindFolder(s)
  PROVE  IInv'
<1> DEFINE x == txn[s]
           f == CheckedOf(x)
           at == row[f].parent
           to == IF x.op.kind = "update" /\ x.op.id \in Folder THEN "walk" ELSE "write"
           y == [x EXCEPT !.at = at, !.pc = to]
<1>1. x \in TxnType /\ Shape(x) /\ x.pc = "placement" /\ x.op \in Command /\ f \in Folder
  BY SlotType DEF FindFolder, Shape
<1>2. at \in Folder \cup {None}
  BY <1>1, Kinds DEF IInv, TypeOK, RowState
<1>3. CASE Rejected(s)
  BY <1>3, RejectedKeeps
<1>4. CASE txn' = [txn EXCEPT ![s].at = at, ![s].pc = to] /\ UNCHANGED <<row, logged>>
  <2>1. txn' = [txn EXCEPT ![s] = y]
    BY <1>4 DEF IInv, TypeOK
  <2>2. to \in {"walk", "write"} /\ (to = "walk" => x.op.kind = "update" /\ x.op.id \in Folder)
    OBVIOUS
  <2> HIDE DEF to, at
  <2>3. y \in TxnType /\ y.pc = to /\ y.op = x.op /\ y.expected = x.expected /\ y.gone = x.gone
        /\ CheckedOf(y) = CheckedOf(x)
    BY <1>1, <1>2, <2>2 DEF TxnType, PcType, CheckedOf, MovesOf
  <2>4. Shape(y)
    <3> HIDE DEF y, x
    <3> QED
      BY <1>1, <2>2, <2>3 DEF Shape
  <2> HIDE DEF y
  <2> QED
    BY <1>4, <2>1, <2>2, <2>3, <2>4, GoesOn
<1> QED
  BY <1>3, <1>4, ModelOps DEF FindFolder

LEMMA WalkUpKeeps ==
  ASSUME IInv, NEW s \in Slot, WalkUp(s)
  PROVE  IInv'
<1> DEFINE x == txn[s]
           f == x.at
           at == row[f].parent
           n == x.steps + 1
           y == [x EXCEPT !.at = at, !.steps = n]
<1>1. x \in TxnType /\ Shape(x) /\ x.pc = "walk" /\ x.op \in Command
  BY SlotType DEF WalkUp
<1>2. CASE Go(s, "write")
  <2> DEFINE z == [x EXCEPT !.pc = "write"]
  <2>1. z.pc = "write" /\ z.op = x.op /\ z.expected = x.expected /\ z.gone = x.gone
    BY <1>1 DEF TxnType
  <2>2. Shape(z)
    <3> HIDE DEF z, x
    <3> QED
      BY <1>1, <2>1 DEF Shape
  <2> QED
    BY <1>2, <2>2, GoKeeps DEF PcType
<1>3. CASE Rejected(s)
  BY <1>3, RejectedKeeps
<1>4. CASE /\ f # None /\ x.steps # WalkLimit
           /\ txn' = [txn EXCEPT ![s].at = at, ![s].steps = @ + 1]
           /\ UNCHANGED <<row, logged>>
  <2>1. txn' = [txn EXCEPT ![s] = y]
    BY <1>4 DEF IInv, TypeOK
  <2>2. f \in Folder /\ n \in 0 .. WalkLimit
    BY <1>1, <1>4, ContentTreeAssumption DEF TxnType
  <2>3. at \in Folder \cup {None}
    BY <2>2, Kinds DEF IInv, TypeOK, RowState
  <2> HIDE DEF at, n
  <2>4. y \in TxnType /\ y.pc = x.pc /\ y.op = x.op /\ y.expected = x.expected /\ y.gone = x.gone
        /\ CheckedOf(y) = CheckedOf(x)
    BY <1>1, <2>2, <2>3 DEF TxnType, CheckedOf, MovesOf
  <2>5. Shape(y)
    <3> HIDE DEF y, x
    <3> QED
      BY <1>1, <2>4 DEF Shape
  <2> HIDE DEF y
  <2> QED
    BY <1>1, <1>4, <2>1, <2>4, <2>5, GoesOn
<1> QED
  BY <1>2, <1>3, <1>4, ModelOps DEF WalkUp
LEMMA ListFoldersKeeps ==
  ASSUME IInv, NEW s \in Slot, ListFolders(s)
  PROVE  IInv'
<1> DEFINE x == txn[s]
           id == Op(s).id
           found == IF id \in Folder THEN Descendants(id)
                    ELSE {[id |-> f, depth |-> 0] : f \in {g \in Folder : row[g].coll = id}}
           y == [x EXCEPT !.pc = "requests", !.folders = found]
<1>1. x \in TxnType /\ Shape(x) /\ x.pc = "folders" /\ x.op \in Command
  BY SlotType DEF ListFolders
<1>2. txn' = [txn EXCEPT ![s] = y] /\ UNCHANGED <<row, logged>>
  BY DEF ListFolders, IInv, TypeOK
<1>3. found \subseteq [id: Folder, depth: 0 .. Cardinality(Folder)]
  BY Kinds DEF Descendants
<1> HIDE DEF found
<1>4. y \in TxnType /\ y.pc = "requests" /\ y.op = x.op /\ y.expected = x.expected
      /\ y.gone = x.gone
  BY <1>1, <1>3 DEF TxnType, PcType
<1> HIDE DEF y
<1>5. Shape(y)
  BY <1>1, <1>4 DEF Shape
<1> QED
  BY <1>2, <1>4, <1>5, GoesOn

LEMMA ListRequestsKeeps ==
  ASSUME IInv, NEW s \in Slot, ListRequests(s)
  PROVE  IInv'
<1> DEFINE x == txn[s]
           id == Op(s).id
           in(r) == IF id \in Folder
                    THEN row[r].parent \in {id} \cup {d.id : d \in txn[s].folders}
                    ELSE row[r].coll = id
           found == {r \in Request : Exists(r) /\ in(r)}
           y == [x EXCEPT !.pc = "delete", !.requests = found]
<1>1. x \in TxnType /\ Shape(x) /\ x.pc = "requests" /\ x.op \in Command
  BY SlotType DEF ListRequests
<1>2. txn' = [txn EXCEPT ![s] = y] /\ UNCHANGED <<row, logged>>
  BY DEF ListRequests, IInv, TypeOK
<1>3. found \subseteq Request
  OBVIOUS
<1> HIDE DEF found
<1>4. y \in TxnType /\ y.pc = "delete" /\ y.op = x.op /\ y.expected = x.expected
      /\ y.gone = x.gone
  BY <1>1, <1>3 DEF TxnType, PcType
<1> HIDE DEF y
<1>5. Shape(y)
  BY <1>1, <1>4 DEF Shape
<1> QED
  BY <1>2, <1>4, <1>5, GoesOn

-----------------------------------------------------------------------------
(* Locks are taken. *)
LEMMA Locks ==
  ASSUME IInv, NEW s \in Slot, NEW y \in TxnType, Shape(y), y.pc = "commit", Held(y, row),
         \A t \in Slot \ {s} : txn[t].pc = "commit" => Apart(y, txn[t], row) /\ Apart(txn[t], y, row),
         txn' = [txn EXCEPT ![s] = y], UNCHANGED <<row, logged>>
  PROVE  IInv'
<1>1. txn'[s] = y /\ \A t \in Slot \ {s} : txn'[t] = txn[t]
  BY DEF IInv, TypeOK
<1>2. TypeOK'
  BY TypeOKDef DEF IInv, TypeOK, TxnType, PcType
<1>4. \A t \in Slot : Shape(txn'[t])
  BY <1>1 DEF IInv
<1>5. \A t \in Slot : txn'[t].pc = "commit" => Held(txn'[t], row')
  BY <1>1 DEF IInv
<1>6. \A t, u \in Slot :
        t # u /\ txn'[t].pc = "commit" /\ txn'[u].pc = "commit" => Apart(txn'[t], txn'[u], row')
  BY <1>1 DEF IInv
<1>7. (\A i \in Item : ~Exists(i) => row[i] = Absent)' /\ ForeignKeys'
  BY DEF IInv, ForeignKeys, Exists
<1> QED
  BY <1>2, <1>4, <1>5, <1>6, <1>7 DEF IInv

LEMMA WriteKeeps ==
  ASSUME IInv, NEW s \in Slot, Write(s)
  PROVE  IInv'
<1> DEFINE x == txn[s]
           old == row[x.op.id]
           y == [x EXCEPT !.pc = "commit"]
<1>1. x \in TxnType /\ Shape(x) /\ x.pc = "write" /\ x.op \in Command /\ Op(s) = x.op
      /\ x.op.kind \in {"create", "update"} /\ x.gone = {}
  BY SlotType, Commands DEF Write, Shape
<1>2. CASE Rejected(s)
  BY <1>2, RejectedKeeps
<1>3. CASE /\ old.version = (IF x.op.kind = "create" THEN 0 ELSE x.expected)
           /\ \A p \in RefsOf(x, old) : Exists(p)
           /\ ~Locked(s, x.op.id)
           /\ \A p \in RefsOf(x, old) : ~BeingDeleted(s, p)
           /\ Go(s, "commit")
  <2>1. y \in TxnType /\ y.pc = "commit" /\ y.op = x.op /\ y.expected = x.expected
        /\ y.gone = {} /\ y.cur = x.cur /\ RefsOf(y, old) = RefsOf(x, old)
    BY <1>1 DEF TxnType, PcType, RefsOf, WrittenOf, MovesOf, TargetOf
  <2>2. txn' = [txn EXCEPT ![s] = y] /\ UNCHANGED <<row, logged>>
    BY <1>3 DEF Go, IInv, TypeOK
  <2> HIDE DEF y
  <2>3. Shape(y)
    <3> HIDE DEF x
    <3> QED
      BY <1>1, <2>1 DEF Shape
  <2>4. Held(y, row)
    BY <1>1, <1>3, <2>1 DEF Held, Exists
  <2>5. ASSUME NEW t \in Slot \ {s}, txn[t].pc = "commit"
        PROVE  Apart(y, txn[t], row) /\ Apart(txn[t], y, row)
    <3>1. t \in Others(s)
      BY <2>5 DEF Others
    <3>2. x.op.id \notin WritesOf(txn[t])
      BY <1>3, <3>1, ModelOps DEF Locked
    <3>3. \A p \in RefsOf(x, old) : p \notin txn[t].gone
      BY <1>3, <3>1 DEF BeingDeleted
    <3>4. WritesOf(y) = {x.op.id}
      BY <1>1, <2>1 DEF WritesOf
    <3> QED
      BY <2>1, <3>2, <3>3, <3>4 DEF Apart
  <2> QED
    BY <2>1, <2>2, <2>3, <2>4, <2>5, Locks
<1> QED
  BY <1>1, <1>2, <1>3, ModelOps DEF Write

\* The cascade takes everything that refers to what it takes.
LEMMA CascadeClosed ==
  ASSUME IInv, NEW id \in Item, NEW i \in Item, Exists(i),
         row[i].parent \in Cascade(id) \/ row[i].coll \in Cascade(id)
  PROVE  i \in Cascade(id)
<1>1. Exists(id)
  BY DEF Cascade
<1>2. ASSUME NEW S \in SUBSET Item, id \in S, Contents(S) \subseteq S
      PROVE  i \in S
  <2>1. row[i].parent \in S \/ row[i].coll \in S
    BY <1>1, <1>2 DEF Cascade
  <2> QED
    BY <1>2, <2>1 DEF Contents
<1> QED
  BY <1>1, <1>2 DEF Cascade

LEMMA DeleteKeeps ==
  ASSUME IInv, NEW s \in Slot, Delete(s)
  PROVE  IInv'
<1> DEFINE x == txn[s]
           gone == Cascade(x.op.id)
           y == [x EXCEPT !.pc = "commit", !.gone = gone]
<1>1. x \in TxnType /\ Shape(x) /\ x.pc = "delete" /\ x.op \in Command /\ Op(s) = x.op
      /\ x.op.kind = "delete" /\ x.op.id \in Item
  BY SlotType, Commands DEF Delete, Shape
<1>2. gone \subseteq Item
  BY DEF Cascade
<1>3. txn' = [txn EXCEPT ![s] = y] /\ UNCHANGED <<row, logged>>
  BY <1>1 DEF Delete, IInv, TypeOK
<1>4. \A i \in gone : ~Locked(s, i) /\ ~Shared(s, i)
  BY <1>1 DEF Delete
<1>5. \A i \in Item : row[i].version > 0 /\ (row[i].parent \in gone \/ row[i].coll \in gone)
                        => i \in gone
  BY <1>1, CascadeClosed DEF Exists
<1> HIDE DEF gone
<1>6. y \in TxnType /\ y.pc = "commit" /\ y.op = x.op /\ y.expected = x.expected /\ y.gone = gone
  BY <1>1, <1>2 DEF TxnType, PcType
<1> HIDE DEF y
<1>7. Shape(y)
  BY <1>1, <1>6 DEF Shape
<1>8. Held(y, row)
  BY <1>1, <1>5, <1>6 DEF Held
<1>9. ASSUME NEW t \in Slot \ {s}, txn[t].pc = "commit"
      PROVE  Apart(y, txn[t], row) /\ Apart(txn[t], y, row)
  <2>1. t \in Others(s)
    BY <1>9 DEF Others
  <2>2. \A i \in gone : i \notin WritesOf(txn[t])
    BY <1>4, <2>1, ModelOps DEF Locked
  <2>3. \A i \in gone : txn[t].op.kind # "delete" => i \notin RefsOf(txn[t], row[txn[t].op.id])
    BY <1>4, <2>1, ModelOps DEF Shared
  <2> QED
    BY <1>1, <1>6, <2>2, <2>3 DEF Apart, WritesOf
<1> QED
  BY <1>3, <1>6, <1>7, <1>8, <1>9, Locks

-----------------------------------------------------------------------------
(* The commit. *)
LEMMA WrittenType ==
  ASSUME NEW x \in TxnType, x.op \in Command, NEW r \in RowState, r.version + 1 <= MaxVersion
  PROVE  WrittenOf(x, r) \in RowState
<1>1. TargetOf(x) \in Collection \cup {None} /\ x.op.folder \in Folder \cup {None, Keep}
  BY Commands DEF TargetOf, TxnType, RowState
<1> QED
  BY <1>1, ContentTreeAssumption DEF WrittenOf, RowState

LEMMA RefsType ==
  ASSUME NEW x \in TxnType, x.op \in Command, NEW r \in RowState
  PROVE  RefsOf(x, r) \subseteq Item
<1>1. TargetOf(x) \in Collection \cup {None} /\ x.op.folder \in Folder \cup {None, Keep}
  BY Commands DEF TargetOf, TxnType, RowState
<1> QED
  BY <1>1, Kinds DEF RefsOf, WrittenOf, RowState

\* The slot is idle again, and what others hold and found is still as it was.
LEMMA Commits ==
  ASSUME IInv, NEW s \in Slot, txn' = [txn EXCEPT ![s] = Idle],
         row' \in [Item -> RowState], logged' \in [Item -> Entry],
         (\A i \in Item : ~Exists(i) => row[i] = Absent)', ForeignKeys',
         \A t \in Slot \ {s} : txn[t].pc = "commit" =>
           /\ Held(txn[t], row')
           /\ txn[t].op.kind # "delete" => row'[txn[t].op.id] = row[txn[t].op.id]
  PROVE  IInv'
<1>1. txn'[s] = Idle /\ Idle.pc = "idle" /\ \A t \in Slot \ {s} : txn'[t] = txn[t]
  BY DEF IInv, TypeOK, Idle
<1>2. TypeOK'
  <2>1. txn' \in [Slot -> TxnType]
    BY TypeOKDef, AbsentType DEF IInv
  <2> QED
    BY <2>1 DEF TypeOK, TxnType, PcType, Entry
<1>4. \A t \in Slot : Shape(txn'[t])
  BY <1>1, AbsentType DEF IInv
<1>5. \A t \in Slot : txn'[t].pc = "commit" => t # s /\ Held(txn'[t], row')
  BY <1>1
<1>6. ASSUME NEW t \in Slot, NEW u \in Slot, t # u, txn'[t].pc = "commit", txn'[u].pc = "commit"
      PROVE  Apart(txn'[t], txn'[u], row')
  <2>1. t # s /\ u # s /\ txn'[t] = txn[t] /\ txn'[u] = txn[u] /\ Apart(txn[t], txn[u], row)
    BY <1>1, <1>5, <1>6 DEF IInv
  <2> QED
    BY <1>6, <2>1 DEF Apart
<1> QED
  BY <1>2, <1>4, <1>5, <1>6 DEF IInv

LEMMA CommitUpsertKeeps ==
  ASSUME IInv, NEW s \in Slot, Commit(s), Op(s).kind # "delete"
  PROVE  IInv'
<1> DEFINE x == txn[s]
           id == x.op.id
           old == row[id]
           new == WrittenOf(x, old)
<1>1. x \in TxnType /\ Shape(x) /\ x.pc = "commit" /\ x.op \in Command /\ Op(s) = x.op
      /\ x.op.kind \in {"create", "update"} /\ id \in Item /\ Held(x, row)
  BY SlotType, Commands DEF Commit, IInv
<1>2. old \in RowState /\ row \in [Item -> RowState] /\ logged \in [Item -> Entry]
  BY <1>1, TypeOKDef DEF IInv
<1>3. old.version + 1 <= MaxVersion /\ old.version \in Nat
  BY <1>1, <1>2, ContentTreeAssumption DEF Held, Shape, RowState
<1>4. new \in RowState
  BY <1>1, <1>2, <1>3, WrittenType
<1>5. new.version > 0
  BY <1>3 DEF WrittenOf
<1>6. /\ row' = [row EXCEPT ![id] = new]
      /\ logged' = [logged EXCEPT ![id] = [op |-> "upsert", state |-> new]]
      /\ txn' = [txn EXCEPT ![s] = Idle]
  BY <1>1, ModelOps DEF Commit, Finish
<1>7. \A p \in RefsOf(x, old) : Exists(p)
  BY <1>1 DEF Held, Exists
<1>8. ~Exists(id) => old = Absent
  BY <1>1 DEF IInv
<1>9. Refs(new) \subseteq RefsOf(x, old) \cup (IF Exists(id) THEN Refs(old) ELSE {})
  BY <1>8 DEF RefsOf, Refs, Absent
<1>10. Refs(new) \subseteq Item
  BY <1>4, Kinds DEF Refs, RowState
<1> HIDE DEF new
<1>11. row'[id] = new /\ \A i \in Item \ {id} : row'[i] = row[i]
  BY <1>1, <1>2, <1>6
<1>12. row' \in [Item -> RowState] /\ logged' \in [Item -> Entry]
  BY <1>2, <1>4, <1>6 DEF Entry
<1>13. \A p \in Item : Exists(p) => row'[p].version > 0
  BY <1>1, <1>5, <1>11 DEF Exists
<1>14. (\A i \in Item : ~Exists(i) => row[i] = Absent)'
  BY <1>1, <1>5, <1>11 DEF IInv, Exists
<1>15. ForeignKeys'
  <2> SUFFICES ASSUME NEW i \in Item, row'[i].version > 0, NEW p \in Refs(row'[i])
               PROVE  row'[p].version > 0
    BY DEF ForeignKeys, Exists
  <2>1. p \in Item
    BY <1>12, Kinds DEF Refs, RowState
  <2>2. CASE i = id
    BY <1>7, <1>9, <1>11, <1>13, <2>1, <2>2 DEF IInv, ForeignKeys
  <2>3. CASE i # id
    BY <1>11, <1>13, <2>1, <2>3 DEF IInv, ForeignKeys, Exists
  <2> QED
    BY <2>2, <2>3
<1>16. ASSUME NEW t \in Slot \ {s}, txn[t].pc = "commit"
       PROVE  /\ Held(txn[t], row')
              /\ txn[t].op.kind # "delete" => row'[txn[t].op.id] = row[txn[t].op.id]
  <2> DEFINE y == txn[t]
  <2>1. y \in TxnType /\ y.op \in Command /\ y.op.id \in Item /\ Held(y, row)
        /\ Apart(x, y, row) /\ Apart(y, x, row) /\ y.op.kind \in {"create", "update", "delete"}
    BY <1>1, <1>16, SlotType, Commands DEF IInv
  <2>2. id \notin WritesOf(y)
    BY <1>1, <2>1 DEF Apart, WritesOf
  <2>3. CASE y.op.kind # "delete"
    <3>1. y.op.id # id /\ row'[y.op.id] = row[y.op.id] /\ row[y.op.id] \in RowState
      BY <1>2, <1>11, <2>1, <2>2, <2>3 DEF WritesOf
    <3>2. RefsOf(y, row[y.op.id]) \subseteq Item
      BY <2>1, <3>1, RefsType
    <3>3. \A p \in RefsOf(y, row[y.op.id]) : row'[p].version > 0
      BY <1>13, <2>1, <2>3, <3>2 DEF Held, Exists
    <3> QED
      BY <2>1, <2>3, <3>1, <3>3 DEF Held
  <2>4. CASE y.op.kind = "delete"
    <3>1. id \notin y.gone /\ RefsOf(x, old) \cap y.gone = {}
      BY <1>1, <2>1, <2>2, <2>4 DEF Apart, WritesOf
    <3>2. Exists(id) => old.parent \notin y.gone /\ old.coll \notin y.gone
      BY <1>1, <2>1, <2>4, <3>1 DEF Held, Exists
    <3>3. new.parent \notin y.gone /\ new.coll \notin y.gone
      <4>1. y.gone \subseteq Item
        BY <2>1 DEF TxnType
      <4>2. None \notin y.gone
        BY <4>1, Kinds
      <4> QED
        BY <1>9, <3>1, <3>2, <4>2 DEF Refs
    <3>4. ASSUME NEW i \in Item, row'[i].version > 0, row'[i].parent \in y.gone \/ row'[i].coll \in y.gone
          PROVE  i \in y.gone
      BY <1>11, <2>1, <2>4, <3>3, <3>4 DEF Held
    <3> QED
      BY <2>4, <3>4 DEF Held
  <2> QED
    BY <2>3, <2>4
<1> QED
  BY <1>6, <1>12, <1>14, <1>15, <1>16, Commits

LEMMA CommitDeleteKeeps ==
  ASSUME IInv, NEW s \in Slot, Commit(s), Op(s).kind = "delete"
  PROVE  IInv'
<1> DEFINE x == txn[s]
           gone == x.gone
           tomb == UNION {Tombstones(s)[k] : k \in DOMAIN Tombstones(s)}
<1>1. x \in TxnType /\ Shape(x) /\ x.pc = "commit" /\ Op(s) = x.op /\ x.op.kind = "delete"
      /\ Held(x, row)
  BY SlotType DEF Commit, IInv
<1>2. row \in [Item -> RowState] /\ logged \in [Item -> Entry]
  BY TypeOKDef DEF IInv
<1>3. /\ row' = [i \in Item |-> IF i \in gone THEN Absent ELSE row[i]]
      /\ logged' = [i \in Item |->
            IF i \in tomb THEN [op |-> "delete", state |-> Absent] ELSE logged[i]]
      /\ txn' = [txn EXCEPT ![s] = Idle]
  BY <1>1 DEF Commit, Finish
<1> HIDE DEF tomb
<1>4. row' \in [Item -> RowState] /\ logged' \in [Item -> Entry]
  BY <1>2, <1>3, AbsentType DEF Entry
<1>5. \A i \in Item : row'[i].version > 0 => i \notin gone /\ row'[i] = row[i]
  BY <1>3 DEF Absent
<1>6. (\A i \in Item : ~Exists(i) => row[i] = Absent)'
  BY <1>3 DEF IInv, Exists
<1>7. ForeignKeys'
  <2> SUFFICES ASSUME NEW i \in Item, row'[i].version > 0, NEW p \in Refs(row'[i])
               PROVE  row'[p].version > 0
    BY DEF ForeignKeys, Exists
  <2>1. row'[i] = row[i] /\ i \notin gone
    BY <1>5
  <2>2. p \in Item /\ row[p].version > 0
    BY <1>2, <2>1, Kinds DEF Refs, RowState, IInv, ForeignKeys, Exists
  <2>3. p \notin gone
    BY <1>1, <2>1 DEF Held, Refs
  <2> QED
    BY <1>3, <2>2, <2>3
<1>8. ASSUME NEW t \in Slot \ {s}, txn[t].pc = "commit"
      PROVE  /\ Held(txn[t], row')
             /\ txn[t].op.kind # "delete" => row'[txn[t].op.id] = row[txn[t].op.id]
  <2> DEFINE y == txn[t]
  <2>1. y \in TxnType /\ y.op \in Command /\ y.op.id \in Item /\ Held(y, row)
        /\ Apart(y, x, row) /\ y.op.kind \in {"create", "update", "delete"}
    BY <1>1, <1>8, SlotType, Commands DEF IInv
  <2>2. CASE y.op.kind # "delete"
    <3>1. y.op.id \notin gone /\ RefsOf(y, row[y.op.id]) \cap gone = {}
      BY <1>1, <2>1, <2>2 DEF Apart, WritesOf
    <3>2. row'[y.op.id] = row[y.op.id]
      BY <1>3, <2>1, <3>1
    <3>3. RefsOf(y, row[y.op.id]) \subseteq Item
      BY <1>2, <2>1, RefsType
    <3>4. \A p \in RefsOf(y, row[y.op.id]) : row'[p].version > 0
      BY <1>3, <2>1, <2>2, <3>1, <3>3 DEF Held
    <3> QED
      BY <2>1, <2>2, <3>2, <3>4 DEF Held
  <2>3. CASE y.op.kind = "delete"
    BY <1>5, <2>1, <2>3 DEF Held
  <2> QED
    BY <2>2, <2>3
<1> QED
  BY <1>3, <1>4, <1>6, <1>7, <1>8, Commits

LEMMA InitIInv ==
  ASSUME Init
  PROVE  IInv
<1>1. TypeOK
  BY AbsentType, TypeOKDef DEF Init
<1>2. \A i \in Item : row[i] = Absent /\ ~Exists(i)
  BY DEF Init, Exists, Absent
<1>3. \A s \in Slot : txn[s] = Idle /\ Idle.pc = "idle"
  BY DEF Init, Idle
<1> QED
  BY <1>1, <1>2, <1>3, AbsentType DEF IInv, ForeignKeys

LEMMA NextIInv ==
  ASSUME IInv, [Next]_vars
  PROVE  IInv'
<1>1. ASSUME NEW s \in Slot, (\E d \in Command : Begin(s, d)) \/ Statement(s) \/ Abort(s)
      PROVE  IInv'
  <2>1. CASE Commit(s)
    BY <2>1, CommitUpsertKeeps, CommitDeleteKeeps
  <2> QED
    BY <1>1, <2>1, BeginKeeps, FindCurrentKeeps, FindCollectionKeeps, FindFolderKeeps, WalkUpKeeps,
       WriteKeeps, ListFoldersKeeps, ListRequestsKeeps, DeleteKeeps, RejectedKeeps
    DEF Statement, Abort
<1>2. CASE UNCHANGED vars
  BY <1>2 DEF vars, IInv, TypeOK, ForeignKeys, Exists
<1> QED
  BY <1>1, <1>2 DEF Next

\* Rows, log entries and transactions have the shapes the code gives them, and no row
\* refers to one that is not there, for any number of requests at once.
THEOREM TypesHold == Spec => [](TypeOK /\ ForeignKeys)
<1>1. Init => IInv
  BY InitIInv
<1>2. IInv /\ [Next]_vars => IInv'
  BY NextIInv
<1>3. IInv => TypeOK /\ ForeignKeys
  BY DEF IInv
<1> QED
  BY <1>1, <1>2, <1>3, PTL DEF Spec
-----------------------------------------------------------------------------
(***************************************************************************)
(* Places.  A transaction that has seen a row knows it: unless ids come    *)
(* back, or requests follow one another, the row it looks at later is a    *)
(* newer version of the same item, or gone.  A folder never changes its    *)
(* collection.                                                             *)
(***************************************************************************)
Stable == ~ReuseIds \/ \A s, t \in Slot : s = t

\* The folder it put the item into is looked up, the row to be changed is read.
Watches(x) == x.pc \in {"walk", "write", "commit"} /\ x.op.kind # "delete" /\ CheckedOf(x) # None
HasRead(x) ==
  /\ x.pc \in {"target", "placement", "walk", "write", "commit"}
  /\ x.op.kind = "update" /\ x.op.id \notin Collection

Seen(x, i) ==
  \/ x.pc # "idle" /\ x.op.kind = "update" /\ i = x.op.id
  \/ Watches(x) /\ i = CheckedOf(x)

Stands(x, rw, lg) ==
  /\ \A i \in Item : Seen(x, i) => lg[i].op # "none"
  /\ x.pc = "current" /\ x.op.kind = "update" =>
       (rw[x.op.id].version > 0 => rw[x.op.id].version >= x.expected)
  /\ HasRead(x) =>
       /\ x.cur.version >= x.expected
       /\ rw[x.op.id].version > 0 => rw[x.op.id].version >= x.cur.version
       /\ rw[x.op.id].version = x.cur.version => rw[x.op.id] = x.cur
  /\ Watches(x) => (rw[CheckedOf(x)].version > 0 => rw[CheckedOf(x)].coll = TargetOf(x))

Creates(x, i) == x.pc = "commit" /\ x.op.kind = "create" /\ i = x.op.id

PlaceInv ==
  /\ \A i \in Item : Exists(i) => logged[i].op # "none"
  /\ \A s \in Slot : Stands(txn[s], row, logged)
  /\ \A s, t \in Slot : \A i \in Item : s # t /\ Creates(txn[t], i) => ~Seen(txn[s], i)
  /\ InItsFoldersCollection

LEMMA CheckedType ==
  ASSUME NEW x \in TxnType, x.op \in Command
  PROVE  CheckedOf(x) \in Folder \cup {None}
  BY Commands DEF CheckedOf, TxnType, RowState

LEMMA NotCreated ==
  ASSUME IInv, NEW i \in Item, Exists(i), NEW t \in Slot
  PROVE  ~Creates(txn[t], i)
  BY DEF IInv, Held, Creates, Exists

\* What it has newly seen is there.
LEMMA GoesOnPlace ==
  ASSUME IInv, PlaceInv, NEW s \in Slot, NEW y, y.pc # "commit",
         txn' = [txn EXCEPT ![s] = y], UNCHANGED <<row, logged>>,
         Stands(y, row, logged), \A i \in Item : Seen(y, i) => Seen(txn[s], i) \/ Exists(i)
  PROVE  PlaceInv'
<1>1. txn'[s] = y /\ \A t \in Slot \ {s} : txn'[t] = txn[t]
  BY DEF IInv, TypeOK
<1>2. \A t \in Slot : Stands(txn'[t], row', logged')
  BY <1>1 DEF PlaceInv
<1>3. \A i \in Item : ~Creates(y, i)
  BY DEF Creates
<1>4. ASSUME NEW u \in Slot, NEW t \in Slot, NEW i \in Item, u # t, Creates(txn'[t], i)
      PROVE  ~Seen(txn'[u], i)
  <2>1. t # s /\ Creates(txn[t], i)
    BY <1>1, <1>3, <1>4
  <2>2. ~Exists(i) /\ ~Seen(txn[u], i)
    BY <1>4, <2>1, NotCreated DEF PlaceInv
  <2> QED
    BY <1>1, <2>2
<1>5. (\A i \in Item : Exists(i) => logged[i].op # "none")' /\ InItsFoldersCollection'
  BY DEF PlaceInv, Exists, InItsFoldersCollection, Live
<1> QED
  BY <1>2, <1>4, <1>5 DEF PlaceInv

LEMMA RejectedPlace ==
  ASSUME IInv, PlaceInv, NEW s \in Slot, Rejected(s)
  PROVE  PlaceInv'
<1>1. Idle.pc = "idle"
  BY DEF Idle
<1>2. Stands(Idle, row, logged) /\ \A i \in Item : ~Seen(Idle, i)
  BY <1>1 DEF Stands, Seen, HasRead, Watches
<1> QED
  BY <1>1, <1>2, GoesOnPlace DEF Rejected, Finish

LEMMA BeginPlace ==
  ASSUME IInv, PlaceInv, NEW s \in Slot, NEW d \in Command, Begin(s, d)
  PROVE  PlaceInv'
<1> DEFINE to == IF d.kind # "delete" /\ d.id \in Collection THEN "write"
                 ELSE IF d.kind = "create" THEN "collection" ELSE "current"
           v == row[d.id].version
           y == [Idle EXCEPT !.op = d, !.expected = v, !.pc = to]
<1>1. d.id \in Item /\ row[d.id] \in RowState
  BY Commands DEF IInv, TypeOK
<1>2. v \in Nat
  BY <1>1, ContentTreeAssumption DEF RowState
<1>3. to \in {"write", "collection", "current"} /\ (to = "write" => d.id \in Collection)
  OBVIOUS
<1>4. d.kind = "update" => Exists(d.id)
  BY ContentTreeAssumption DEF Begin, Exists
<1>5. txn' = [txn EXCEPT ![s] = y] /\ UNCHANGED <<row, logged>>
  BY DEF Begin
<1> HIDE DEF to
<1>6. y.pc = to /\ y.op = d /\ y.expected = v
  BY DEF Idle
<1> HIDE DEF y
<1>7. d.id \in Collection => CheckedOf(y) = None
  BY <1>6, Commands, Kinds DEF CheckedOf, MovesOf
<1>8. ~Watches(y) /\ ~HasRead(y)
  BY <1>3, <1>6, <1>7 DEF Watches, HasRead
<1>9. \A i \in Item : Seen(y, i) => Exists(i)
  BY <1>4, <1>6, <1>8 DEF Seen
<1>10. Stands(y, row, logged)
  BY <1>2, <1>6, <1>8, <1>9 DEF Stands, PlaceInv
<1> QED
  BY <1>3, <1>5, <1>6, <1>9, <1>10, GoesOnPlace

LEMMA FindCurrentPlace ==
  ASSUME IInv, PlaceInv, NEW s \in Slot, FindCurrent(s)
  PROVE  PlaceInv'
<1> DEFINE x == txn[s]
           cur == row[x.op.id]
           to == IF x.op.kind = "update" THEN "target"
                 ELSE IF x.op.id \in Request THEN "delete" ELSE "folders"
           y == [x EXCEPT !.cur = cur, !.pc = to]
<1>1. x \in TxnType /\ Shape(x) /\ x.pc = "current" /\ Op(s) = x.op /\ x.op \in Command
      /\ Stands(x, row, logged)
  BY SlotType DEF FindCurrent, PlaceInv
<1>2. cur \in RowState
  BY <1>1, Commands DEF IInv, TypeOK
<1>3. CASE Rejected(s)
  BY <1>3, RejectedPlace
<1>4. CASE /\ txn' = [txn EXCEPT ![s].cur = cur, ![s].pc = to] /\ UNCHANGED <<row, logged>>
           /\ Exists(x.op.id)
  <2>1. txn' = [txn EXCEPT ![s] = y]
    BY <1>4 DEF IInv, TypeOK
  <2>2. to \in {"target", "delete", "folders"}
    OBVIOUS
  <2> HIDE DEF to
  <2>4. y.pc = to /\ y.op = x.op /\ y.expected = x.expected /\ y.cur = cur
    BY <1>1 DEF TxnType
  <2> HIDE DEF y
  <2>5. ~Watches(y) /\ \A i \in Item : Seen(y, i) => Seen(x, i)
    BY <1>1, <2>2, <2>4 DEF Watches, Seen
  <2>6. y.pc # "current" /\ (HasRead(y) => x.op.kind = "update")
    BY <2>2, <2>4 DEF HasRead
  <2>7. cur.version \in Nat
    BY <1>2, ContentTreeAssumption DEF RowState
  <2>8. Stands(y, row, logged)
    BY <1>1, <1>4, <2>4, <2>5, <2>6, <2>7 DEF Stands, Exists
  <2> QED
    BY <1>4, <2>1, <2>2, <2>4, <2>5, <2>8, GoesOnPlace
<1> QED
  BY <1>1, <1>3, <1>4 DEF FindCurrent

\* Between the lookups of one transaction nothing it has found is forgotten.
LEMMA Keeps ==
  ASSUME NEW x, NEW y, Stands(x, row, logged),
         y.op = x.op /\ y.cur = x.cur /\ y.expected = x.expected,
         HasRead(y) => HasRead(x), Watches(y) => Watches(x), y.pc # "current", x.pc # "idle"
  PROVE  Stands(y, row, logged) /\ \A i \in Item : Seen(y, i) => Seen(x, i)
<1>1. CheckedOf(y) = CheckedOf(x) /\ TargetOf(y) = TargetOf(x)
  BY DEF CheckedOf, MovesOf, TargetOf
<1> QED
  BY <1>1 DEF Stands, Seen

LEMMA FindCollectionPlace ==
  ASSUME IInv, PlaceInv, NEW s \in Slot, FindCollection(s)
  PROVE  PlaceInv'
<1> DEFINE x == txn[s]
           to == IF CheckedOf(x) = None THEN "write" ELSE "placement"
           y == [x EXCEPT !.pc = to]
<1>1. x \in TxnType /\ Shape(x) /\ x.pc \in {"collection", "target"} /\ x.op \in Command
      /\ Stands(x, row, logged)
  BY SlotType DEF FindCollection, PlaceInv
<1>2. CASE Rejected(s)
  BY <1>2, RejectedPlace
<1>3. CASE Go(s, to)
  <2>1. to \in {"write", "placement"} /\ (to = "write" => CheckedOf(x) = None)
    OBVIOUS
  <2>2. txn' = [txn EXCEPT ![s] = y] /\ UNCHANGED <<row, logged>>
    BY <1>3 DEF Go, IInv, TypeOK
  <2> HIDE DEF to
  <2>3. y.pc = to /\ y.op = x.op /\ y.expected = x.expected /\ y.cur = x.cur
    BY <1>1 DEF TxnType
  <2> HIDE DEF y
  <2>4. CheckedOf(y) = CheckedOf(x)
    BY <2>3 DEF CheckedOf, MovesOf
  <2>5. ~Watches(y)
    BY <2>1, <2>3, <2>4 DEF Watches
  <2>6. HasRead(y) => HasRead(x)
    BY <1>1, <2>3 DEF HasRead, Shape
  <2>7. Stands(y, row, logged) /\ \A i \in Item : Seen(y, i) => Seen(x, i)
    BY <1>1, <2>1, <2>3, <2>5, <2>6, Keeps
  <2> QED
    BY <2>1, <2>2, <2>3, <2>7, GoesOnPlace
<1> QED
  BY <1>2, <1>3, ModelOps DEF FindCollection

LEMMA FindFolderPlace ==
  ASSUME IInv, PlaceInv, NEW s \in Slot, FindFolder(s)
  PROVE  PlaceInv'
<1> DEFINE x == txn[s]
           f == CheckedOf(x)
           at == row[f].parent
           to == IF x.op.kind = "update" /\ x.op.id \in Folder THEN "walk" ELSE "write"
           y == [x EXCEPT !.at = at, !.pc = to]
<1>1. x \in TxnType /\ Shape(x) /\ x.pc = "placement" /\ x.op \in Command /\ f \in Folder
      /\ Stands(x, row, logged) /\ f \in Item
  BY SlotType DEF FindFolder, Shape, PlaceInv, Item
<1>3. CASE Rejected(s)
  BY <1>3, RejectedPlace
<1>4. CASE /\ txn' = [txn EXCEPT ![s].at = at, ![s].pc = to] /\ UNCHANGED <<row, logged>>
           /\ Exists(f) /\ row[f].coll = TargetOf(x)
  <2>1. txn' = [txn EXCEPT ![s] = y]
    BY <1>4 DEF IInv, TypeOK
  <2>2. to \in {"walk", "write"}
    OBVIOUS
  <2> HIDE DEF to, at
  <2>3. y.pc = to /\ y.op = x.op /\ y.expected = x.expected /\ y.cur = x.cur
    BY <1>1 DEF TxnType
  <2> HIDE DEF y
  <2>4. CheckedOf(y) = f /\ TargetOf(y) = TargetOf(x)
    BY <2>3 DEF CheckedOf, MovesOf, TargetOf
  <2>5. HasRead(y) => HasRead(x)
    BY <1>1, <2>3 DEF HasRead
  <2>6. \A i \in Item : Seen(y, i) => Seen(x, i) \/ i = f
    BY <1>1, <2>3, <2>4 DEF Seen
  <2> HIDE DEF f
  <2>7. Stands(y, row, logged)
    BY <1>1, <1>4, <2>2, <2>3, <2>4, <2>5, <2>6 DEF Stands, PlaceInv
  <2>8. \A i \in Item : Seen(y, i) => Seen(txn[s], i) \/ Exists(i)
    BY <1>4, <2>6
  <2>9. y.pc # "commit"
    BY <2>2, <2>3
  <2> QED
    BY <1>4, <2>1, <2>7, <2>8, <2>9, GoesOnPlace
<1> QED
  BY <1>3, <1>4, ModelOps DEF FindFolder

LEMMA WalkUpPlace ==
  ASSUME IInv, PlaceInv, NEW s \in Slot, WalkUp(s)
  PROVE  PlaceInv'
<1> DEFINE x == txn[s]
<1>1. x \in TxnType /\ Shape(x) /\ x.pc = "walk" /\ x.op \in Command /\ Stands(x, row, logged)
  BY SlotType DEF WalkUp, PlaceInv
<1>2. CASE Rejected(s)
  BY <1>2, RejectedPlace
<1>3. CASE ~Rejected(s)
  <2>1. \E y : /\ y.pc \in {"walk", "write"} /\ y.op = x.op /\ y.expected = x.expected
               /\ y.cur = x.cur /\ txn' = [txn EXCEPT ![s] = y] /\ UNCHANGED <<row, logged>>
    <3>1. CASE Go(s, "write")
      <4> DEFINE y == [x EXCEPT !.pc = "write"]
      <4>1. txn' = [txn EXCEPT ![s] = y] /\ UNCHANGED <<row, logged>>
        BY <3>1 DEF Go, IInv, TypeOK
      <4>2. y.pc = "write" /\ y.op = x.op /\ y.expected = x.expected /\ y.cur = x.cur
        BY <1>1 DEF TxnType
      <4> QED
        BY <4>1, <4>2
    <3>2. CASE txn' = [txn EXCEPT ![s].at = row[x.at].parent, ![s].steps = @ + 1]
               /\ UNCHANGED <<row, logged>>
      <4> DEFINE a == row[x.at].parent
                 n == x.steps + 1
                 y == [x EXCEPT !.at = a, !.steps = n]
      <4>1. txn' = [txn EXCEPT ![s] = y]
        BY <3>2 DEF IInv, TypeOK
      <4> HIDE DEF a, n
      <4>2. y.pc = "walk" /\ y.op = x.op /\ y.expected = x.expected /\ y.cur = x.cur
        BY <1>1 DEF TxnType
      <4> HIDE DEF y
      <4> QED
        BY <3>2, <4>1, <4>2
    <3> QED
      BY <1>3, <3>1, <3>2 DEF WalkUp
  <2>2. PICK y : /\ y.pc \in {"walk", "write"} /\ y.op = x.op /\ y.expected = x.expected
                 /\ y.cur = x.cur /\ txn' = [txn EXCEPT ![s] = y] /\ UNCHANGED <<row, logged>>
    BY <2>1
  <2>3. CheckedOf(y) = CheckedOf(x)
    BY <2>2 DEF CheckedOf, MovesOf
  <2>4. (HasRead(y) => HasRead(x)) /\ (Watches(y) => Watches(x))
    BY <1>1, <2>2, <2>3 DEF HasRead, Watches
  <2>5. Stands(y, row, logged) /\ \A i \in Item : Seen(y, i) => Seen(x, i)
    BY <1>1, <2>2, <2>4, Keeps
  <2> QED
    BY <2>2, <2>5, GoesOnPlace
<1> QED
  BY <1>2, <1>3

LEMMA ListPlace ==
  ASSUME IInv, PlaceInv, NEW s \in Slot, ListFolders(s) \/ ListRequests(s)
  PROVE  PlaceInv'
<1> DEFINE x == txn[s]
<1>1. x \in TxnType /\ Shape(x) /\ x.pc \in {"folders", "requests"} /\ Stands(x, row, logged)
  BY SlotType DEF ListFolders, ListRequests, PlaceInv
<1>2. \E y : /\ y.pc \in {"requests", "delete"} /\ y.op = x.op
             /\ txn' = [txn EXCEPT ![s] = y]
  <2>1. CASE ListFolders(s)
    <3>1. PICK found : txn' = [txn EXCEPT ![s].pc = "requests", ![s].folders = found]
      BY <2>1 DEF ListFolders
    <3> DEFINE y == [x EXCEPT !.pc = "requests", !.folders = found]
    <3>2. txn' = [txn EXCEPT ![s] = y] /\ y.pc = "requests" /\ y.op = x.op
      BY <1>1, <3>1 DEF IInv, TypeOK, TxnType
    <3> QED
      BY <3>2
  <2>2. CASE ListRequests(s)
    <3>1. PICK found : txn' = [txn EXCEPT ![s].pc = "delete", ![s].requests = found]
      BY <2>2 DEF ListRequests
    <3> DEFINE y == [x EXCEPT !.pc = "delete", !.requests = found]
    <3>2. txn' = [txn EXCEPT ![s] = y] /\ y.pc = "delete" /\ y.op = x.op
      BY <1>1, <3>1 DEF IInv, TypeOK, TxnType
    <3> QED
      BY <3>2
  <2> QED
    BY <2>1, <2>2
<1>3. PICK y : y.pc \in {"requests", "delete"} /\ y.op = x.op /\ txn' = [txn EXCEPT ![s] = y]
  BY <1>2
<1>4. x.op.kind = "delete"
  BY <1>1 DEF Shape
<1>5. Stands(y, row, logged) /\ \A i \in Item : ~Seen(y, i)
  BY <1>3, <1>4 DEF Stands, Seen, HasRead, Watches
<1>6. UNCHANGED <<row, logged>>
  BY DEF ListFolders, ListRequests
<1> QED
  BY <1>3, <1>5, <1>6, GoesOnPlace
LEMMA LocksPlace ==
  ASSUME IInv, PlaceInv, NEW s \in Slot, NEW y,
         txn' = [txn EXCEPT ![s] = y], UNCHANGED <<row, logged>>,
         Stands(y, row, logged), \A i \in Item : Seen(y, i) => Seen(txn[s], i),
         \A i \in Item : Creates(y, i) => \A t \in Slot \ {s} : ~Seen(txn[t], i)
  PROVE  PlaceInv'
<1>1. txn'[s] = y /\ \A t \in Slot \ {s} : txn'[t] = txn[t]
  BY DEF IInv, TypeOK
<1>2. \A t \in Slot : Stands(txn'[t], row', logged')
  BY <1>1 DEF PlaceInv
<1>3. ASSUME NEW u \in Slot, NEW t \in Slot, NEW i \in Item, u # t, Creates(txn'[t], i)
      PROVE  ~Seen(txn'[u], i)
  <2>1. CASE t = s
    BY <1>1, <1>3, <2>1
  <2>2. CASE t # s
    BY <1>1, <1>3, <2>2 DEF PlaceInv
  <2> QED
    BY <2>1, <2>2
<1>4. (\A i \in Item : Exists(i) => logged[i].op # "none")' /\ InItsFoldersCollection'
  BY DEF PlaceInv, Exists, InItsFoldersCollection, Live
<1> QED
  BY <1>2, <1>3, <1>4 DEF PlaceInv

LEMMA WritePlace ==
  ASSUME Stable, IInv, PlaceInv, NEW s \in Slot, Write(s)
  PROVE  PlaceInv'
<1> DEFINE x == txn[s]
           y == [x EXCEPT !.pc = "commit"]
<1>1. x \in TxnType /\ Shape(x) /\ x.pc = "write" /\ x.op \in Command /\ Op(s) = x.op
      /\ Stands(x, row, logged)
  BY SlotType DEF Write, PlaceInv
<1>2. CASE Rejected(s)
  BY <1>2, RejectedPlace
<1>3. CASE /\ x.op.kind = "create" => ReuseIds \/ logged[x.op.id] = Unlogged
           /\ Go(s, "commit")
  <2>1. y.pc = "commit" /\ y.op = x.op /\ y.expected = x.expected /\ y.cur = x.cur
    BY <1>1 DEF TxnType
  <2>2. txn' = [txn EXCEPT ![s] = y] /\ UNCHANGED <<row, logged>>
    BY <1>3 DEF Go, IInv, TypeOK
  <2> HIDE DEF y
  <2>3. CheckedOf(y) = CheckedOf(x)
    BY <2>1 DEF CheckedOf, MovesOf
  <2>4. (HasRead(y) => HasRead(x)) /\ (Watches(y) => Watches(x))
    BY <1>1, <2>1, <2>3 DEF HasRead, Watches
  <2>5. Stands(y, row, logged) /\ \A i \in Item : Seen(y, i) => Seen(x, i)
    BY <1>1, <2>1, <2>4, Keeps
  <2>6. ASSUME NEW i \in Item, Creates(y, i), NEW t \in Slot \ {s}
        PROVE  ~Seen(txn[t], i)
    <3>1. logged[i].op = "none"
      BY <1>3, <2>1, <2>6 DEF Creates, Stable, Unlogged
    <3> QED
      BY <3>1 DEF PlaceInv, Stands
  <2> QED
    BY <2>2, <2>5, <2>6, LocksPlace
<1> QED
  BY <1>1, <1>2, <1>3 DEF Write

LEMMA DeletePlace ==
  ASSUME IInv, PlaceInv, NEW s \in Slot, Delete(s)
  PROVE  PlaceInv'
<1> DEFINE x == txn[s]
           gone == Cascade(Op(s).id)
           y == [x EXCEPT !.pc = "commit", !.gone = gone]
<1>1. x \in TxnType /\ x.op.kind = "delete"
  BY SlotType DEF Delete, Shape
<1>2. txn' = [txn EXCEPT ![s] = y] /\ UNCHANGED <<row, logged>>
  BY DEF Delete, IInv, TypeOK
<1> HIDE DEF gone
<1>3. y.op = x.op /\ y.pc = "commit"
  BY <1>1 DEF TxnType
<1> HIDE DEF y
<1>4. Stands(y, row, logged) /\ \A i \in Item : ~Seen(y, i) /\ ~Creates(y, i)
  BY <1>1, <1>3 DEF Stands, Seen, HasRead, Watches, Creates
<1> QED
  BY <1>2, <1>4, LocksPlace

-----------------------------------------------------------------------------
\* At its commit an update writes over the row it has read.
LEMMA CommitsWhatItRead ==
  ASSUME IInv, PlaceInv, NEW s \in Slot, txn[s].pc = "commit", txn[s].op.kind = "update",
         txn[s].op.id \notin Collection
  PROVE  row[txn[s].op.id] = txn[s].cur
<1> DEFINE x == txn[s]
<1>1. x \in TxnType /\ Shape(x) /\ Held(x, row) /\ x.op \in Command /\ HasRead(x)
      /\ Stands(x, row, logged)
  BY SlotType DEF IInv, PlaceInv, HasRead
<1>2. row[x.op.id].version = x.expected /\ x.expected \in 1 .. MaxVersion - 1
  BY <1>1 DEF Held, Shape
<1>3. x.cur.version \in Nat
  BY <1>1, ContentTreeAssumption DEF TxnType, RowState
<1> QED
  BY <1>1, <1>2, <1>3, ContentTreeAssumption DEF Stands


\* What a transaction has seen is newer, or gone.
LEMMA StandsStill ==
  ASSUME IInv, NEW t \in Slot, Stands(txn[t], row, logged),
         \A i \in Item : logged[i].op # "none" => logged'[i].op # "none",
         row' \in [Item -> RowState],
         \A i \in Item : Seen(txn[t], i) =>
           \/ row'[i] = row[i]
           \/ row'[i].version = 0
           \/ /\ row'[i].version > row[i].version /\ row[i].version > 0
              /\ i \in Folder => row'[i].coll = row[i].coll
  PROVE  Stands(txn[t], row', logged')
<1> DEFINE x == txn[t]
           id == x.op.id
           f == CheckedOf(x)
<1>1. x \in TxnType /\ Shape(x) /\ (x.pc # "idle" => x.op \in Command)
  BY SlotType
<1>2. \A i \in Item : Seen(x, i) => logged'[i].op # "none"
  BY DEF Stands
<1>3. ASSUME x.pc # "idle", x.op.kind = "update"
      PROVE  /\ row[id].version \in Nat /\ row'[id].version \in Nat
             /\ x.expected \in Nat /\ x.expected > 0 /\ x.cur.version \in Nat
             /\ \/ row'[id] = row[id]
                \/ row'[id].version = 0
                \/ row'[id].version > row[id].version /\ row[id].version > 0
  <2>1. id \in Item /\ row[id] \in RowState /\ row'[id] \in RowState
    BY <1>1, <1>3, Commands DEF IInv, TypeOK
  <2>2. x.expected \in 1 .. MaxVersion - 1
    BY <1>1, <1>3 DEF Shape
  <2>3. Seen(x, id)
    BY <1>3 DEF Seen
  <2>4. \/ row'[id] = row[id]
        \/ row'[id].version = 0
        \/ row'[id].version > row[id].version /\ row[id].version > 0
    BY <2>1, <2>3
  <2> QED
    BY <1>1, <2>1, <2>2, <2>4, ContentTreeAssumption DEF RowState, TxnType
<1>4. x.pc = "current" /\ x.op.kind = "update" =>
        (row'[id].version > 0 => row'[id].version >= x.expected)
  BY <1>3 DEF Stands
<1>5. HasRead(x) =>
        /\ x.cur.version >= x.expected
        /\ row'[id].version > 0 => row'[id].version >= x.cur.version
        /\ row'[id].version = x.cur.version => row'[id] = x.cur
  <2> SUFFICES ASSUME HasRead(x)
               PROVE  /\ x.cur.version >= x.expected
                      /\ row'[id].version > 0 => row'[id].version >= x.cur.version
                      /\ row'[id].version = x.cur.version => row'[id] = x.cur
    OBVIOUS
  <2>1. x.pc # "idle" /\ x.op.kind = "update"
    BY DEF HasRead
  <2>2. /\ x.cur.version >= x.expected
        /\ row[id].version > 0 => row[id].version >= x.cur.version
        /\ row[id].version = x.cur.version => row[id] = x.cur
    BY DEF Stands
  <2> HIDE DEF x, id
  <2> QED
    BY <1>3, <2>1, <2>2
<1>6. Watches(x) => (row'[f].version > 0 => row'[f].coll = TargetOf(x))
  <2> SUFFICES ASSUME Watches(x), row'[f].version > 0
               PROVE  row'[f].coll = TargetOf(x)
    OBVIOUS
  <2>1. f \in Folder /\ f \in Item /\ Seen(x, f)
    BY <1>1, CheckedType DEF Watches, Seen, Item
  <2>2. row[f].version > 0 => row[f].coll = TargetOf(x)
    BY DEF Stands
  <2>3. row'[f] \in RowState
    BY <2>1
  <2> QED
    BY <2>1, <2>2, <2>3
<1> QED
  BY <1>2, <1>4, <1>5, <1>6 DEF Stands

\* The slot is idle again.
LEMMA CommitsPlace ==
  ASSUME IInv, PlaceInv, NEW s \in Slot, txn' = [txn EXCEPT ![s] = Idle],
         row' \in [Item -> RowState],
         \A i \in Item : logged[i].op # "none" \/ row'[i].version > 0 => logged'[i].op # "none",
         InItsFoldersCollection',
         \A t \in Slot \ {s} : \A i \in Item : Seen(txn[t], i) =>
           \/ row'[i] = row[i]
           \/ row'[i].version = 0
           \/ /\ row'[i].version > row[i].version /\ row[i].version > 0
              /\ i \in Folder => row'[i].coll = row[i].coll
  PROVE  PlaceInv'
<1>1. txn'[s] = Idle /\ Idle.pc = "idle" /\ \A t \in Slot \ {s} : txn'[t] = txn[t]
  BY DEF IInv, TypeOK, Idle
<1>2. ASSUME NEW t \in Slot
      PROVE  Stands(txn'[t], row', logged')
  <2>1. CASE t = s
    BY <1>1, <2>1 DEF Stands, Seen, HasRead, Watches
  <2>2. CASE t # s
    <3>1. Stands(txn[t], row, logged)
      BY DEF PlaceInv
    <3>2. Stands(txn[t], row', logged')
      BY <2>2, <3>1, StandsStill
    <3> QED
      BY <1>1, <2>2, <3>2
  <2> QED
    BY <2>1, <2>2
<1>3. ASSUME NEW u \in Slot, NEW t \in Slot, NEW i \in Item, u # t, Creates(txn'[t], i)
      PROVE  ~Seen(txn'[u], i)
  <2>1. t # s /\ txn'[t] = txn[t]
    BY <1>1, <1>3 DEF Creates
  <2>2. ~Seen(Idle, i)
    BY <1>1 DEF Seen, Watches
  <2>3. ~Seen(txn[u], i)
    BY <1>3, <2>1 DEF PlaceInv
  <2> QED
    BY <1>1, <2>2, <2>3
<1>4. (\A i \in Item : Exists(i) => logged[i].op # "none")'
  BY DEF Exists
<1> QED
  BY <1>2, <1>3, <1>4 DEF PlaceInv
LEMMA CommitUpsertPlace ==
  ASSUME IInv, PlaceInv, NEW s \in Slot, Commit(s), Op(s).kind # "delete"
  PROVE  PlaceInv'
<1> DEFINE x == txn[s]
           id == x.op.id
           old == row[id]
           new == WrittenOf(x, old)
<1>1. x \in TxnType /\ Shape(x) /\ x.pc = "commit" /\ x.op \in Command /\ Op(s) = x.op
      /\ x.op.kind \in {"create", "update"} /\ id \in Item /\ Held(x, row)
  BY SlotType, Commands DEF Commit, IInv
<1>2. old \in RowState /\ row \in [Item -> RowState] /\ logged \in [Item -> Entry]
  BY <1>1, TypeOKDef DEF IInv
<1>3. /\ row' = [row EXCEPT ![id] = new]
      /\ logged' = [logged EXCEPT ![id] = [op |-> "upsert", state |-> new]]
      /\ txn' = [txn EXCEPT ![s] = Idle]
  BY <1>1, ModelOps DEF Commit, Finish
<1>4. IInv'
  BY CommitUpsertKeeps
<1>5. row'[id] = new /\ \A i \in Item \ {id} : row'[i] = row[i]
  BY <1>1, <1>2, <1>3
<1>6. row' \in [Item -> RowState] /\ ForeignKeys'
  BY <1>4 DEF IInv, TypeOK
<1>7. x.op.kind = "update" => old.version \in Nat /\ old.version > 0
  BY <1>1, ContentTreeAssumption DEF Held, Shape
<1>8. x.op.kind = "create" => old.version = 0
  BY <1>1 DEF Held
<1>9. x.op.kind = "update" /\ id \notin Request => x.op.coll = None /\ ~MovesOf(x)
  BY <1>1, Commands DEF MovesOf
<1>10. new.version = old.version + 1
       /\ new.coll = (IF x.op.kind = "create" \/ MovesOf(x) THEN TargetOf(x) ELSE old.coll)
       /\ new.parent = (IF x.op.folder = Keep THEN old.parent ELSE x.op.folder)
  BY DEF WrittenOf
<1>11. x.op.kind = "update" /\ id \notin Collection => old = x.cur
  BY <1>1, CommitsWhatItRead
<1> HIDE DEF new
<1>12. ASSUME new.parent # None, CheckedOf(x) = new.parent, id \notin Collection
       PROVE  row'[new.parent].coll = new.coll
  <2> DEFINE q == new.parent
  <2>1. Watches(x) /\ Stands(x, row, logged)
    BY <1>1, <1>12 DEF Watches, PlaceInv
  <2>2. q \in Folder /\ q \in Item
    BY <1>1, <1>12, CheckedType DEF Item
  <2>3. CASE q = id
    BY <1>5, <2>3
  <2>4. CASE q # id
    <3>1. row'[q] = row[q]
      BY <1>5, <2>2, <2>4
    <3>2. row'[q].version > 0
      <4>1. row'[id].version > 0
        BY <1>1, <1>2, <1>5, <1>7, <1>8, <1>10
      <4>2. q \in Refs(row'[id])
        BY <1>5, <1>12 DEF Refs
      <4> QED
        BY <1>1, <1>6, <4>1, <4>2 DEF ForeignKeys, Exists
    <3>3. row[q].coll = TargetOf(x)
      BY <1>12, <2>1, <3>1, <3>2 DEF Stands
    <3>4. new.coll = TargetOf(x)
      <4>1. CASE x.op.kind = "create" \/ MovesOf(x)
        BY <1>10, <4>1
      <4>2. CASE x.op.kind = "update" /\ ~MovesOf(x)
        BY <1>10, <1>11, <1>12, <4>2 DEF MovesOf, TargetOf
      <4> QED
        BY <1>1, <4>1, <4>2
    <3> QED
      BY <3>1, <3>3, <3>4
  <2> QED
    BY <2>3, <2>4
<1>13. ASSUME new.parent # None
       PROVE  row'[new.parent].coll = new.coll
  <2>1. CASE x.op.folder # Keep
    <3>1. new.parent = x.op.folder /\ CheckedOf(x) = x.op.folder
      BY <1>10, <2>1 DEF CheckedOf
    <3>2. id \notin Collection
      BY <1>1, <1>13, <2>1, <3>1, Commands
    <3> QED
      BY <1>12, <1>13, <3>1, <3>2
  <2>2. CASE x.op.folder = Keep
    <3>1. x.op.kind = "update" /\ new.parent = old.parent
      BY <1>1, <1>10, <2>2, Commands
    <3>2. CASE MovesOf(x)
      <4>1. id \notin Collection
        BY <1>9, <3>1, <3>2, Kinds
      <4>2. CheckedOf(x) = new.parent
        BY <1>11, <2>2, <3>1, <3>2, <4>1 DEF CheckedOf
      <4> QED
        BY <1>12, <1>13, <4>1, <4>2
    <3>3. CASE ~MovesOf(x)
      <4>1. new.coll = old.coll
        BY <1>10, <3>1, <3>3
      <4>2. row[old.parent].coll = old.coll
        BY <1>1, <1>7, <1>13, <3>1 DEF PlaceInv, InItsFoldersCollection, Live, Exists
      <4>3. old.parent \in Item
        BY <1>2, <1>13, <3>1, Kinds DEF RowState
      <4>4. CASE old.parent = id
        BY <1>5, <3>1, <4>4
      <4>5. CASE old.parent # id
        BY <1>5, <3>1, <4>1, <4>2, <4>3, <4>5
      <4> QED
        BY <4>4, <4>5
    <3> QED
      BY <3>2, <3>3
  <2> QED
    BY <2>1, <2>2
<1>14. x.op.kind = "update" /\ id \in Folder => new.coll = old.coll
  BY <1>9, <1>10, Kinds
<1>15. InItsFoldersCollection'
  <2> SUFFICES ASSUME NEW i \in Item, row'[i].version > 0, row'[i].parent # None
               PROVE  row'[row'[i].parent].coll = row'[i].coll
    BY DEF InItsFoldersCollection, Live, Exists
  <2>1. CASE i = id
    BY <1>5, <1>13, <2>1
  <2>2. CASE i # id
    <3> DEFINE q == row[i].parent
    <3>1. row'[i] = row[i]
      BY <1>5, <2>2
    <3>2. q \in Folder /\ q \in Item /\ row[q].version > 0 /\ row[q].coll = row[i].coll
      BY <1>2, <3>1, Kinds
      DEF PlaceInv, InItsFoldersCollection, Live, Exists, RowState, IInv, ForeignKeys, Refs
    <3>3. row'[q].coll = row[q].coll
      BY <1>1, <1>5, <1>8, <1>14, <3>2
    <3> QED
      BY <3>1, <3>2, <3>3
  <2> QED
    BY <2>1, <2>2
<1>16. ASSUME NEW t \in Slot \ {s}, NEW i \in Item, Seen(txn[t], i)
       PROVE  \/ row'[i] = row[i]
              \/ row'[i].version = 0
              \/ /\ row'[i].version > row[i].version /\ row[i].version > 0
                 /\ i \in Folder => row'[i].coll = row[i].coll
  <2>1. CASE i # id
    BY <1>5, <2>1
  <2>2. CASE i = id
    <3>1. x.op.kind = "update"
      BY <1>1, <1>16, <2>2 DEF PlaceInv, Creates
    <3> QED
      BY <1>5, <1>7, <1>10, <1>14, <2>2, <3>1
  <2> QED
    BY <2>1, <2>2
<1>17. ASSUME NEW i \in Item, logged[i].op # "none" \/ row'[i].version > 0
       PROVE  logged'[i].op # "none"
  BY <1>1, <1>2, <1>3, <1>5, <1>17 DEF PlaceInv, Exists
<1> QED
  BY <1>3, <1>6, <1>15, <1>16, <1>17, CommitsPlace

LEMMA CommitDeletePlace ==
  ASSUME IInv, PlaceInv, NEW s \in Slot, Commit(s), Op(s).kind = "delete"
  PROVE  PlaceInv'
<1> DEFINE x == txn[s]
           gone == x.gone
           tomb == UNION {Tombstones(s)[k] : k \in DOMAIN Tombstones(s)}
<1>1. x.pc = "commit" /\ Op(s) = x.op /\ x.op.kind = "delete" /\ Held(x, row)
  BY SlotType DEF Commit, IInv
<1>2. row \in [Item -> RowState] /\ logged \in [Item -> Entry]
  BY TypeOKDef DEF IInv
<1>3. /\ row' = [i \in Item |-> IF i \in gone THEN Absent ELSE row[i]]
      /\ logged' = [i \in Item |->
            IF i \in tomb THEN [op |-> "delete", state |-> Absent] ELSE logged[i]]
      /\ txn' = [txn EXCEPT ![s] = Idle]
  BY <1>1 DEF Commit, Finish
<1> HIDE DEF tomb
<1>4. IInv'
  BY CommitDeleteKeeps
<1>5. \A i \in Item : row'[i].version > 0 => i \notin gone /\ row'[i] = row[i]
  BY <1>3 DEF Absent
<1>6. InItsFoldersCollection'
  <2> SUFFICES ASSUME NEW i \in Item, row'[i].version > 0, row'[i].parent # None
               PROVE  row'[row'[i].parent].coll = row'[i].coll
    BY DEF InItsFoldersCollection, Live, Exists
  <2> DEFINE q == row[i].parent
  <2>1. i \notin gone /\ row'[i] = row[i]
    BY <1>5
  <2>2. q \in Item /\ row[q].coll = row[i].coll
    BY <1>2, <2>1, Kinds DEF PlaceInv, InItsFoldersCollection, Live, Exists, RowState
  <2>3. q \notin gone
    BY <1>1, <2>1 DEF Held
  <2> QED
    BY <1>3, <2>1, <2>2, <2>3
<1>7. \A i \in Item : row'[i] = row[i] \/ row'[i].version = 0
  BY <1>3 DEF Absent
<1>8. ASSUME NEW i \in Item, logged[i].op # "none" \/ row'[i].version > 0
      PROVE  logged'[i].op # "none"
  <2>1. logged[i].op # "none"
    BY <1>5, <1>8 DEF PlaceInv, Exists
  <2> QED
    BY <1>3, <2>1
<1>9. row' \in [Item -> RowState]
  BY <1>4 DEF IInv, TypeOK
<1> QED
  BY <1>3, <1>6, <1>7, <1>8, <1>9, CommitsPlace

LEMMA InitPlace ==
  ASSUME Init
  PROVE  PlaceInv
<1>1. \A i \in Item : ~Exists(i)
  BY DEF Init, Exists, Absent
<1>2. \A s \in Slot : txn[s].pc = "idle"
  BY DEF Init, Idle
<1> QED
  BY <1>1, <1>2 DEF PlaceInv, InItsFoldersCollection, Live, Stands, Seen, HasRead, Watches, Creates

LEMMA NextPlace ==
  ASSUME Stable, IInv, PlaceInv, [Next]_vars
  PROVE  PlaceInv'
<1>1. ASSUME NEW s \in Slot, (\E d \in Command : Begin(s, d)) \/ Statement(s) \/ Abort(s)
      PROVE  PlaceInv'
  <2>1. CASE Commit(s)
    BY <2>1, CommitUpsertPlace, CommitDeletePlace
  <2> QED
    BY <1>1, <2>1, BeginPlace, FindCurrentPlace, FindCollectionPlace, FindFolderPlace, WalkUpPlace,
       WritePlace, ListPlace, DeletePlace, RejectedPlace
    DEF Statement, Abort
<1>2. CASE UNCHANGED vars
  BY <1>2 DEF vars, PlaceInv, InItsFoldersCollection, Live, Exists
<1> QED
  BY <1>1, <1>2 DEF Next

\* An item inside a folder is in the folder's collection, whatever requests interleave,
\* if no id is created a second time; and with such ids if requests do not overlap.
THEOREM FoldersKeepTogether == Stable => (Spec => []InItsFoldersCollection)
<1> SUFFICES ASSUME Stable
             PROVE  Spec => []InItsFoldersCollection
  OBVIOUS
<1>1. Init => IInv /\ PlaceInv
  BY InitIInv, InitPlace
<1>2. IInv /\ PlaceInv /\ [Next]_vars => IInv' /\ PlaceInv'
  BY NextIInv, NextPlace
<1>3. PlaceInv => InItsFoldersCollection
  BY DEF PlaceInv
<1> QED
  BY <1>1, <1>2, <1>3, PTL DEF Spec
-----------------------------------------------------------------------------
(***************************************************************************)
(* One request at a time, the tree of any size.  Induction over the depth  *)
(* of the tree is over sets of numbers: a set with 0 and with the          *)
(* successor of each of its members has every number.                      *)
(***************************************************************************)
LEMMA LessIsWellFounded ==
  \E R : IsWellFoundedOn(R, Nat) /\ \A m, n \in Nat : m < n => <<m, n>> \in R
<1> DEFINE R == {p \in Nat \X Nat : p[1] < p[2]}
<1>1. OpToRel(<, Nat) = R
  BY DEF OpToRel
<1>2. IsWellFoundedOn(R, Nat)
  BY <1>1, NatLessThanWellFounded
<1>3. \A m, n \in Nat : m < n => <<m, n>> \in R
  OBVIOUS
<1> QED
  BY <1>2, <1>3

LEMMA Least ==
  ASSUME NEW S, S \subseteq Nat, S # {}
  PROVE  \E n \in S : \A m \in S : n <= m
<1>1. PICK R : IsWellFoundedOn(R, Nat) /\ \A m, n \in Nat : m < n => <<m, n>> \in R
  BY LessIsWellFounded
<1>a. IsWellFoundedOn(R, Nat)
  BY <1>1
<1>2. \E n \in S : \A m \in S : ~ (<<m, n>> \in R)
  BY <1>a, WFMin
<1>3. PICK n \in S : \A m \in S : ~ (<<m, n>> \in R)
  BY <1>2
<1>4. ASSUME NEW m \in S, m < n
      PROVE  FALSE
  BY <1>1, <1>3, <1>4
<1>5. \A m \in S : n <= m
  BY <1>4
<1> QED
  BY <1>5

LEMMA Induct ==
  ASSUME NEW S, 0 \in S, \A n \in Nat : n \in S => n + 1 \in S
  PROVE  Nat \subseteq S
<1> DEFINE T == Nat \ S
<1>1. SUFFICES ASSUME T # {} PROVE FALSE
  OBVIOUS
<1>2. PICK n \in T : \A m \in T : n <= m
  BY <1>1, Least
<1>3. n # 0 /\ n - 1 \in Nat
  OBVIOUS
<1>4. n - 1 \in S
  BY <1>2, <1>3
<1> QED
  BY <1>3, <1>4

-----------------------------------------------------------------------------
(* Levels and tombstones *)

IsLevel(l, f, N) == l = [n \in 0 .. N |-> IF n = 0 THEN {f} ELSE Subfolders(l[n - 1])]

LEMMA LevelsExist ==
  ASSUME NEW f \in Folder, NEW N \in Nat
  PROVE  \E l \in [0 .. N -> SUBSET Folder] : IsLevel(l, f, N)
<1> DEFINE S == {k \in Nat : \E l \in [0 .. k -> SUBSET Folder] : IsLevel(l, f, k)}
<1>1. 0 \in S
  <2> DEFINE l == [n \in 0 .. 0 |-> {f}]
  <2>1. l \in [0 .. 0 -> SUBSET Folder] /\ IsLevel(l, f, 0)
    BY DEF IsLevel
  <2> QED
    BY <2>1
<1>2. ASSUME NEW k \in Nat, k \in S
      PROVE  k + 1 \in S
  <2>1. PICK l \in [0 .. k -> SUBSET Folder] : IsLevel(l, f, k)
    BY <1>2
  <2>a. \A m \in 0 .. k : l[m] = IF m = 0 THEN {f} ELSE Subfolders(l[m - 1])
    <3> HIDE DEF S
    <3> QED
      BY <2>1 DEF IsLevel
  <2> DEFINE g == [n \in 0 .. k + 1 |-> IF n \in 0 .. k THEN l[n] ELSE Subfolders(l[k])]
  <2>2. g \in [0 .. k + 1 -> SUBSET Folder]
    BY DEF Subfolders
  <2>3. ASSUME NEW n \in 0 .. k + 1
        PROVE  g[n] = IF n = 0 THEN {f} ELSE Subfolders(g[n - 1])
    <3>1. CASE n = 0
      BY <2>1, <3>1 DEF IsLevel
    <3>2. CASE n \in 1 .. k
      <4>1. n - 1 \in 0 .. k /\ n \in 0 .. k
        BY <3>2
      <4>2. l[n] = Subfolders(l[n - 1])
        BY <2>a, <3>2, <4>1
      <4> QED
        BY <3>2, <4>1, <4>2
    <3>3. CASE n = k + 1
      BY <2>1, <3>3
    <3> QED
      BY <3>1, <3>2, <3>3
  <2>4. IsLevel(g, f, k + 1)
    BY <2>2, <2>3 DEF IsLevel
  <2> HIDE DEF g
  <2>5. \E h \in [0 .. k + 1 -> SUBSET Folder] : IsLevel(h, f, k + 1)
    BY <2>2, <2>4
  <2> QED
    BY <1>2, <2>5
<1> HIDE DEF S
<1>3. N \in S
  BY <1>1, <1>2, Induct
<1> QED
  BY <1>3 DEF S

LEMMA LevelDef ==
  ASSUME NEW f \in Folder
  PROVE  IsLevel(Level(f), f, Cardinality(Folder) + 1)
<1> DEFINE N == Cardinality(Folder) + 1
           P(l) == IsLevel(l, f, N)
<1>1. N \in Nat
  BY Kinds
<1>2. \E g : P(g)
  BY <1>1, LevelsExist
<1>5. Level(f) = CHOOSE l : P(l)
  BY DEF Level, IsLevel
<1> HIDE DEF P
<1>6. P(CHOOSE l : P(l))
  BY <1>2
<1>7. P(Level(f))
  BY <1>5, <1>6
<1> QED
  BY <1>7 DEF P

LEMMA Levels ==
  ASSUME NEW f \in Folder
  PROVE  LET N == Cardinality(Folder) IN
         /\ Level(f)[0] = {f}
         /\ \A n \in 0 .. N + 1 : Level(f)[n] \subseteq Folder
         /\ \A n \in 0 .. N : Level(f)[n + 1] = Subfolders(Level(f)[n])
<1> DEFINE N == Cardinality(Folder)
           l == Level(f)
<1>1. N \in Nat
  BY Kinds
<1> HIDE DEF N, l
<1>2. l = [n \in 0 .. N + 1 |-> IF n = 0 THEN {f} ELSE Subfolders(l[n - 1])]
  BY LevelDef DEF IsLevel, l, N
<1>3. \A n \in 0 .. N + 1 : l[n] = IF n = 0 THEN {f} ELSE Subfolders(l[n - 1])
  BY <1>2
<1>4. l[0] = {f}
  BY <1>1, <1>3
<1>5. ASSUME NEW n \in 0 .. N + 1
      PROVE  l[n] \subseteq Folder
  BY <1>3 DEF Subfolders
<1>6. ASSUME NEW n \in 0 .. N
      PROVE  l[n + 1] = Subfolders(l[n])
  <2>1. n + 1 \in 0 .. N + 1 /\ n + 1 # 0 /\ (n + 1) - 1 = n
    BY <1>1
  <2> QED
    BY <1>3, <2>1
<1> QED
  BY <1>4, <1>5, <1>6 DEF l, N

LEMMA Concatenation ==
  ASSUME NEW X, NEW a \in Seq(X), NEW b \in Seq(X)
  PROVE  /\ a \o b \in Seq(X) /\ Len(a \o b) = Len(a) + Len(b)
         /\ DOMAIN (a \o b) = 1 .. Len(a) + Len(b)
         /\ \A k \in 1 .. Len(a) + Len(b) :
              (a \o b)[k] = IF k <= Len(a) THEN a[k] ELSE b[k - Len(a)]
  OBVIOUS

\* The requests, the folders by their turns, the deleted item.
LEMMA TombstoneGroups ==
  ASSUME IInv, NEW s \in Slot, Op(s).id \in Item
  PROVE  LET N == Cardinality(Folder)
             T == Tombstones(s)
         IN /\ DOMAIN T = 1 .. N + 2 /\ Len(T) = N + 2
            /\ T[1] = txn[s].requests
            /\ \A k \in 2 .. N + 1 :
                 T[k] = {d.id : d \in {e \in txn[s].folders : Turn(s, e) = k - 1}}
            /\ T[N + 2] = {Op(s).id}
<1> DEFINE N == Cardinality(Folder)
           A == <<txn[s].requests>>
           B == [k \in 1 .. N |-> {d.id : d \in {e \in txn[s].folders : Turn(s, e) = k}}]
           C == <<{Op(s).id}>>
<1>1. N \in Nat
  BY Kinds
<1>2. txn[s].requests \subseteq Item /\ \A e \in txn[s].folders : e.id \in Item
  BY SlotType DEF TxnType, Item
<1>3. A \in Seq(SUBSET Item) /\ Len(A) = 1 /\ A[1] = txn[s].requests
  BY <1>2
<1>4. C \in Seq(SUBSET Item) /\ Len(C) = 1 /\ C[1] = {Op(s).id}
  OBVIOUS
<1>5. B \in [1 .. N -> SUBSET Item]
  BY <1>2
<1>6. B \in Seq(SUBSET Item) /\ Len(B) = N
  <2> HIDE DEF B, N
  <2> QED
    BY <1>1, <1>5
<1>7. Tombstones(s) = A \o B \o C
  BY DEF Tombstones
<1>8. \A k \in 1 .. N : B[k] = {d.id : d \in {e \in txn[s].folders : Turn(s, e) = k}}
  OBVIOUS
<1> HIDE DEF A, B, C, N
<1>9. /\ A \o B \in Seq(SUBSET Item) /\ Len(A \o B) = N + 1
      /\ \A k \in 1 .. N + 1 : (A \o B)[k] = IF k <= 1 THEN A[k] ELSE B[k - 1]
  <2>1. Len(A) + Len(B) = N + 1
    BY <1>1, <1>3, <1>6
  <2>2. /\ A \o B \in Seq(SUBSET Item) /\ Len(A \o B) = Len(A) + Len(B)
        /\ \A k \in 1 .. Len(A) + Len(B) :
             (A \o B)[k] = IF k <= Len(A) THEN A[k] ELSE B[k - Len(A)]
    BY <1>3, <1>6, Concatenation, Zenon
  <2> QED
    BY <1>3, <2>1, <2>2
<1> DEFINE AB == A \o B
<1> HIDE DEF AB
<1>a. AB \in Seq(SUBSET Item) /\ Len(AB) = N + 1 /\ AB[1] = A[1]
      /\ \A k \in 2 .. N + 1 : AB[k] = B[k - 1]
  BY <1>1, <1>9 DEF AB
<1>b. Tombstones(s) = AB \o C
  BY <1>7 DEF AB
<1>c. /\ DOMAIN (AB \o C) = 1 .. N + 2 /\ Len(AB \o C) = N + 2
      /\ \A k \in 1 .. N + 2 : (AB \o C)[k] = IF k <= N + 1 THEN AB[k] ELSE C[k - (N + 1)]
  <2>1. Len(AB) + Len(C) = N + 2
    BY <1>1, <1>4, <1>a
  <2>2. /\ DOMAIN (AB \o C) = 1 .. Len(AB) + Len(C)
        /\ Len(AB \o C) = Len(AB) + Len(C)
        /\ \A k \in 1 .. Len(AB) + Len(C) :
             (AB \o C)[k] = IF k <= Len(AB) THEN AB[k] ELSE C[k - Len(AB)]
    <3>1. AB \in Seq(SUBSET Item) /\ C \in Seq(SUBSET Item)
      BY <1>4, <1>a
    <3> QED
      BY <3>1, Concatenation, Zenon
  <2> QED
    BY <1>a, <2>1, <2>2
<1>10. DOMAIN Tombstones(s) = 1 .. N + 2 /\ Len(Tombstones(s)) = N + 2
  BY <1>b, <1>c
<1>d. \A k \in 1 .. N + 2 : Tombstones(s)[k] = IF k <= N + 1 THEN AB[k] ELSE C[k - (N + 1)]
  BY <1>b, <1>c
<1>11. Tombstones(s)[1] = txn[s].requests /\ Tombstones(s)[N + 2] = {Op(s).id}
  <2>1. Tombstones(s)[1] = AB[1]
    BY <1>1, <1>d
  <2>2. Tombstones(s)[N + 2] = C[1]
    <3>1. N + 2 \in 1 .. N + 2 /\ ~(N + 2 <= N + 1) /\ (N + 2) - (N + 1) = 1
      BY <1>1
    <3> QED
      BY <1>d, <3>1
  <2> QED
    BY <1>3, <1>4, <1>a, <2>1, <2>2
<1>12. ASSUME NEW k \in 2 .. N + 1
       PROVE  Tombstones(s)[k] = {d.id : d \in {e \in txn[s].folders : Turn(s, e) = k - 1}}
  <2>1. Tombstones(s)[k] = B[k - 1] /\ k - 1 \in 1 .. N
    BY <1>1, <1>a, <1>d
  <2> QED
    BY <1>8, <2>1
<1> QED
  BY <1>10, <1>11, <1>12 DEF N
-----------------------------------------------------------------------------
(* A delete by itself *)

OneAtATime == \A s, t \in Slot : s = t

\* A set that has id and what is in its members.
Closed(S, id, rw) ==
  /\ id \in S
  /\ \A i \in Item : rw[i].version > 0 /\ (rw[i].parent \in S \/ rw[i].coll \in S) => i \in S

\* The listed folders: what is directly in the item, with each also its children, and
\* nothing else.  In a folder that is deleted, children are listed no less deep.
FoldersListed(x, rw) ==
  /\ \A f \in Folder : rw[f].version > 0 /\ x.op.id \in {rw[f].parent, rw[f].coll} =>
       \E d \in x.folders : d.id = f
  /\ \A e \in x.folders, f \in Folder : rw[f].version > 0 /\ rw[f].parent = e.id =>
       \E d \in x.folders : d.id = f /\ (x.op.id \in Collection \/ d.depth >= e.depth)
  /\ x.op.id \in Collection \/ \A e \in x.folders : e.depth \in 1 .. Cardinality(Folder)
  /\ \A S \in SUBSET Item : Closed(S, x.op.id, rw) => \A e \in x.folders : e.id \in S

RequestsListed(x, rw) ==
  \A r \in Request :
    r \in x.requests <=>
      /\ rw[r].version > 0
      /\ x.op.id \in {rw[r].parent, rw[r].coll} \/ \E d \in x.folders : rw[r].parent = d.id

\* The row and all below it is deleted, nothing else.
Deleted(x, rw) ==
  /\ Closed(x.gone, x.op.id, rw)
  /\ \A S \in SUBSET Item : Closed(S, x.op.id, rw) => x.gone \subseteq S

Serial(x, rw) ==
  /\ x.pc = "current" => x.folders = {} /\ x.requests = {}
  /\ x.pc # "idle" /\ x.op.kind = "create" => x.cur = Absent
  /\ x.pc \in {"folders", "requests", "delete", "commit"} /\ x.op.kind = "delete" =>
       rw[x.op.id].version > 0
  /\ x.pc \in {"requests", "delete", "commit"} /\ x.op.kind = "delete" => FoldersListed(x, rw)
  /\ x.pc \in {"delete", "commit"} /\ x.op.kind = "delete" => RequestsListed(x, rw)
  /\ x.pc = "commit" /\ x.op.kind = "delete" => Deleted(x, rw)

LogIsTheTree ==
  \A i \in Item : /\ logged[i].op = "upsert" <=> Exists(i)
                  /\ logged[i].op = "upsert" => logged[i].state = row[i]

Rooted == \A c \in Collection : row[c].coll = None /\ row[c].parent = None

SInv == LogIsTheTree /\ Rooted /\ \A s \in Slot : Serial(txn[s], row)

LEMMA GoesOnSerial ==
  ASSUME IInv, SInv, NEW s \in Slot, NEW y, Serial(y, row),
         txn' = [txn EXCEPT ![s] = y], UNCHANGED <<row, logged>>
  PROVE  SInv'
<1>1. txn'[s] = y /\ \A t \in Slot \ {s} : txn'[t] = txn[t]
  BY DEF IInv, TypeOK
<1>2. \A t \in Slot : Serial(txn'[t], row')
  BY <1>1 DEF SInv
<1> QED
  BY <1>2 DEF SInv, LogIsTheTree, Rooted, Exists

LEMMA IdleIsSerial == \A rw : Serial(Idle, rw)
  BY DEF Serial, Idle

LEMMA RejectedSerial ==
  ASSUME IInv, SInv, NEW s \in Slot, Rejected(s)
  PROVE  SInv'
  BY IdleIsSerial, GoesOnSerial DEF Rejected, Finish

LEMMA BeginSerial ==
  ASSUME IInv, SInv, NEW s \in Slot, NEW d \in Command, Begin(s, d)
  PROVE  SInv'
<1> DEFINE to == IF d.kind # "delete" /\ d.id \in Collection THEN "write"
                 ELSE IF d.kind = "create" THEN "collection" ELSE "current"
           v == row[d.id].version
           y == [Idle EXCEPT !.op = d, !.expected = v, !.pc = to]
<1>1. to \in {"write", "collection", "current"}
  OBVIOUS
<1>2. txn' = [txn EXCEPT ![s] = y] /\ UNCHANGED <<row, logged>>
  BY DEF Begin
<1> HIDE DEF to, v
<1>3. y.pc = to /\ y.op = d /\ y.cur = Absent /\ y.folders = {} /\ y.requests = {}
  BY DEF Idle
<1> HIDE DEF y
<1>4. Serial(y, row)
  BY <1>1, <1>3 DEF Serial
<1> QED
  BY <1>2, <1>4, GoesOnSerial

\* Only the control point of a create or an update changes, or what it has looked up.
LEMMA LooksUpSerial ==
  ASSUME IInv, SInv, NEW s \in Slot, NEW y, UNCHANGED <<row, logged>>,
         txn' = [txn EXCEPT ![s] = y], txn[s].pc # "idle", y.op = txn[s].op,
         y.op.kind # "delete", y.pc # "current",
         y.op.kind = "create" => y.cur = txn[s].cur
  PROVE  SInv'
<1>1. Serial(y, row)
  BY DEF Serial, SInv
<1> QED
  BY <1>1, GoesOnSerial

LEMMA GoSerial ==
  ASSUME IInv, SInv, NEW s \in Slot, NEW to \in PcType \ {"current"}, Go(s, to),
         txn[s].pc # "idle", txn[s].op.kind # "delete"
  PROVE  SInv'
<1> DEFINE y == [txn[s] EXCEPT !.pc = to]
<1>1. txn[s] \in TxnType
  BY SlotType
<1>2. y.pc = to /\ y.op = txn[s].op /\ y.cur = txn[s].cur
  BY <1>1 DEF TxnType
<1>3. txn' = [txn EXCEPT ![s] = y] /\ UNCHANGED <<row, logged>>
  BY DEF Go
<1> HIDE DEF y
<1> QED
  BY <1>2, <1>3, LooksUpSerial

LEMMA FindCurrentSerial ==
  ASSUME IInv, SInv, NEW s \in Slot, FindCurrent(s)
  PROVE  SInv'
<1> DEFINE x == txn[s]
           cur == row[x.op.id]
           to == IF x.op.kind = "update" THEN "target"
                 ELSE IF x.op.id \in Request THEN "delete" ELSE "folders"
           y == [x EXCEPT !.cur = cur, !.pc = to]
<1>1. x \in TxnType /\ Shape(x) /\ x.pc = "current" /\ Op(s) = x.op /\ x.op \in Command
      /\ Serial(x, row)
  BY SlotType DEF FindCurrent, SInv
<1>2. CASE Rejected(s)
  BY <1>2, RejectedSerial
<1>3. CASE /\ txn' = [txn EXCEPT ![s].cur = cur, ![s].pc = to] /\ UNCHANGED <<row, logged>>
           /\ Exists(x.op.id)
  <2>1. txn' = [txn EXCEPT ![s] = y]
    BY <1>3 DEF IInv, TypeOK
  <2>2. /\ to \in {"target", "delete", "folders"}
        /\ to = "target" <=> x.op.kind = "update"
        /\ to = "delete" => x.op.id \in Request
    OBVIOUS
  <2> HIDE DEF to
  <2>3. /\ y.pc = to /\ y.op = x.op /\ y.folders = {} /\ y.requests = {}
    BY <1>1 DEF TxnType, Serial
  <2> HIDE DEF y
  <2>4. x.op.kind \in {"update", "delete"}
    BY <1>1 DEF Shape
  <2>5. CASE to = "delete"
    <3>1. \A i \in Item : x.op.id \notin {row[i].parent, row[i].coll}
      <4>1. \A i \in Item : row[i] \in RowState
        BY DEF IInv, TypeOK
      <4> QED
        BY <2>2, <2>5, <4>1, Kinds DEF RowState
    <3>2. FoldersListed(y, row)
      BY <2>3, <3>1 DEF FoldersListed, Item
    <3>3. RequestsListed(y, row)
      BY <2>3, <3>1 DEF RequestsListed, Item
    <3>4. Serial(y, row)
      BY <1>3, <2>2, <2>3, <2>4, <2>5, <3>2, <3>3 DEF Serial, Exists
    <3> QED
      BY <1>3, <2>1, <3>4, GoesOnSerial
  <2>6. CASE to # "delete"
    <3>1. Serial(y, row)
      BY <1>3, <2>2, <2>3, <2>4, <2>6 DEF Serial, Exists
    <3> QED
      BY <1>3, <2>1, <3>1, GoesOnSerial
  <2> QED
    BY <2>5, <2>6
<1> QED
  BY <1>1, <1>2, <1>3 DEF FindCurrent

\* The outcomes of a lookup.
LooksUp(s) ==
  \/ Rejected(s)
  \/ \E to \in {"write", "placement", "commit"} : Go(s, to)
  \/ /\ UNCHANGED <<row, logged>>
     /\ \E y : /\ y.pc \in {"walk", "write"} /\ y.op = txn[s].op /\ y.cur = txn[s].cur
               /\ txn' = [txn EXCEPT ![s] = y]

LEMMA FindFolderLooksUp ==
  ASSUME IInv, NEW s \in Slot, FindFolder(s)
  PROVE  LooksUp(s)
<1> DEFINE x == txn[s]
           at == row[CheckedFolder(s)].parent
           to == IF Op(s).kind = "update" /\ Op(s).id \in Folder THEN "walk" ELSE "write"
           y == [x EXCEPT !.at = at, !.pc = to]
<1>1. SUFFICES ASSUME ~Rejected(s)
               PROVE  LooksUp(s)
  BY DEF LooksUp
<1>2. txn' = [txn EXCEPT ![s].at = at, ![s].pc = to] /\ UNCHANGED <<row, logged>>
  BY <1>1 DEF FindFolder
<1>3. to \in {"walk", "write"} /\ x \in TxnType
  BY SlotType
<1> HIDE DEF at, to
<1>4. txn' = [txn EXCEPT ![s] = y]
  BY <1>2 DEF IInv, TypeOK
<1>5. y.pc = to /\ y.op = x.op /\ y.cur = x.cur
  BY <1>3 DEF TxnType
<1> HIDE DEF y
<1> QED
  BY <1>2, <1>3, <1>4, <1>5 DEF LooksUp

LEMMA WalkUpLooksUp ==
  ASSUME IInv, NEW s \in Slot, WalkUp(s)
  PROVE  LooksUp(s)
<1> DEFINE x == txn[s]
           at == row[x.at].parent
           n == x.steps + 1
           y == [x EXCEPT !.at = at, !.steps = n]
<1>1. SUFFICES ASSUME ~Rejected(s), ~Go(s, "write")
               PROVE  LooksUp(s)
  BY DEF LooksUp
<1>2. txn' = [txn EXCEPT ![s].at = at, ![s].steps = @ + 1] /\ UNCHANGED <<row, logged>>
  BY <1>1 DEF WalkUp
<1>3. x \in TxnType /\ x.pc = "walk"
  BY SlotType DEF WalkUp
<1>4. txn' = [txn EXCEPT ![s] = y]
  BY <1>2 DEF IInv, TypeOK
<1> HIDE DEF at, n
<1>5. y.pc = "walk" /\ y.op = x.op /\ y.cur = x.cur
  BY <1>3 DEF TxnType
<1> HIDE DEF y
<1> QED
  BY <1>2, <1>4, <1>5 DEF LooksUp

LEMMA LookupSerial ==
  ASSUME IInv, SInv, NEW s \in Slot, FindCollection(s) \/ FindFolder(s) \/ WalkUp(s) \/ Write(s)
  PROVE  SInv'
<1> DEFINE x == txn[s]
<1>1. x.pc # "idle" /\ x.op.kind # "delete"
  BY SlotType DEF FindCollection, FindFolder, WalkUp, Write, Shape
<1>2. LooksUp(s)
  BY FindFolderLooksUp, WalkUpLooksUp DEF FindCollection, Write, LooksUp
<1>3. CASE Rejected(s)
  BY <1>3, RejectedSerial
<1>4. CASE \E to \in {"write", "placement", "commit"} : Go(s, to)
  BY <1>1, <1>4, GoSerial DEF PcType
<1>5. CASE /\ UNCHANGED <<row, logged>>
           /\ \E y : /\ y.pc \in {"walk", "write"} /\ y.op = x.op /\ y.cur = x.cur
                     /\ txn' = [txn EXCEPT ![s] = y]
  BY <1>1, <1>5, LooksUpSerial
<1> QED
  BY <1>2, <1>3, <1>4, <1>5 DEF LooksUp
LEMMA ClosedHasLevels ==
  ASSUME IInv, NEW f \in Folder, NEW S \in SUBSET Item, Closed(S, f, row)
  PROVE  \A n \in 0 .. Cardinality(Folder) + 1 : Level(f)[n] \subseteq S
<1> DEFINE N == Cardinality(Folder)
           l == Level(f)
           Q == {n \in Nat : n <= N + 1 => l[n] \subseteq S}
<1>1. N \in Nat
  BY Kinds
<1>2. l[0] = {f} /\ \A n \in 0 .. N : l[n + 1] = Subfolders(l[n])
  BY Levels
<1> HIDE DEF N, l
<1>3. 0 \in Q
  BY <1>2 DEF Closed
<1>4. ASSUME NEW n \in Nat, n \in Q
      PROVE  n + 1 \in Q
  <2> SUFFICES ASSUME n + 1 <= N + 1
               PROVE  l[n + 1] \subseteq S
    OBVIOUS
  <2>1. n \in 0 .. N /\ l[n] \subseteq S
    BY <1>1, <1>4
  <2>2. l[n + 1] = Subfolders(l[n])
    BY <1>2, <2>1
  <2> QED
    BY <2>1, <2>2 DEF Subfolders, Closed, Exists, Item
<1> HIDE DEF Q
<1>5. Nat \subseteq Q
  BY <1>3, <1>4, Induct
<1> QED
  BY <1>1, <1>5 DEF Q, l, N

LEMMA DescendantsListed ==
  ASSUME IInv, NEW x, x.op.id \in Folder, QueryEnds(x.op.id), x.folders = Descendants(x.op.id)
  PROVE  FoldersListed(x, row)
<1> DEFINE id == x.op.id
           N == Cardinality(Folder)
           l == Level(id)
<1>1. N \in Nat
  BY Kinds
<1>2. l[0] = {id} /\ \A n \in 0 .. N : l[n + 1] = Subfolders(l[n])
  BY Levels
<1>3. l[N + 1] = {}
  BY DEF QueryEnds
<1>4. \A e : e \in x.folders <=> e \in [id: Folder, depth: 1 .. N] /\ e.id \in l[e.depth]
  BY DEF Descendants
<1>5. \A S \in SUBSET Item : Closed(S, id, row) => \A n \in 0 .. N + 1 : l[n] \subseteq S
  BY ClosedHasLevels
<1>6. \A f \in Folder : row[f].coll # id
  BY Kinds DEF IInv, TypeOK, RowState, Item
<1> HIDE DEF N, l
<1>7. ASSUME NEW n \in 0 .. N, NEW f \in Folder, row[f].version > 0, row[f].parent \in l[n]
      PROVE  [id |-> f, depth |-> n + 1] \in x.folders
  <2>1. f \in l[n + 1]
    BY <1>2, <1>7 DEF Subfolders, Exists
  <2>2. n + 1 \in 1 .. N
    BY <1>1, <1>3, <2>1
  <2> QED
    BY <1>4, <2>1, <2>2
<1>8. ASSUME NEW f \in Folder, row[f].version > 0, id \in {row[f].parent, row[f].coll}
      PROVE  \E d \in x.folders : d.id = f
  <2>1. row[f].parent \in l[0] /\ 0 \in 0 .. N
    BY <1>1, <1>2, <1>6, <1>8
  <2>2. [id |-> f, depth |-> 0 + 1] \in x.folders
    BY <1>7, <1>8, <2>1
  <2> QED
    BY <2>2
<1>9. ASSUME NEW e \in x.folders, NEW f \in Folder, row[f].version > 0, row[f].parent = e.id
      PROVE  \E d \in x.folders : d.id = f /\ (id \in Collection \/ d.depth >= e.depth)
  <2>1. e.depth \in 1 .. N /\ row[f].parent \in l[e.depth]
    BY <1>4, <1>9
  <2>2. [id |-> f, depth |-> e.depth + 1] \in x.folders
    BY <1>1, <1>7, <1>9, <2>1
  <2>3. e.depth + 1 >= e.depth
    BY <2>1
  <2> QED
    BY <2>2, <2>3
<1>10. \A S \in SUBSET Item : Closed(S, id, row) => \A e \in x.folders : e.id \in S
  BY <1>1, <1>4, <1>5
<1>11. \A e \in x.folders : e.depth \in 1 .. N
  BY <1>4
<1> QED
  BY <1>8, <1>9, <1>10, <1>11 DEF FoldersListed, N

LEMMA CollectionListed ==
  ASSUME IInv, InItsFoldersCollection, NEW x, x.op.id \in Collection,
         x.folders = {[id |-> f, depth |-> 0] : f \in {g \in Folder : row[g].coll = x.op.id}}
  PROVE  FoldersListed(x, row)
<1> DEFINE id == x.op.id
<1>1. \A f \in Folder : row[f].coll = id => [id |-> f, depth |-> 0] \in x.folders
  OBVIOUS
<1>2. \A e \in x.folders : e.id \in Folder /\ row[e.id].coll = id
  OBVIOUS
<1>3. \A f \in Folder : row[f].parent # id /\ f \in Item
  BY Kinds DEF IInv, TypeOK, RowState
<1>4. \A f \in Folder : row[f].coll = id => row[f].version > 0
  <2>1. \A f \in Folder : Absent.coll = None /\ id # None
    BY Kinds DEF Absent
  <2> QED
    BY <1>3, <2>1 DEF IInv, Exists
<1>5. ASSUME NEW e \in x.folders, NEW f \in Folder, row[f].version > 0, row[f].parent = e.id
      PROVE  row[f].coll = id
  BY <1>2, <1>3, <1>5, Kinds DEF InItsFoldersCollection, Live, Exists
<1>6. \A S \in SUBSET Item : Closed(S, id, row) => \A e \in x.folders : e.id \in S
  BY <1>2, <1>3, <1>4 DEF Closed
<1>7. \A f \in Folder : row[f].version > 0 /\ id \in {row[f].parent, row[f].coll} =>
        \E d \in x.folders : d.id = f
  BY <1>1, <1>3
<1>8. ASSUME NEW e \in x.folders, NEW f \in Folder, row[f].version > 0, row[f].parent = e.id
      PROVE  \E d \in x.folders : d.id = f
  <2>1. [id |-> f, depth |-> 0] \in x.folders
    BY <1>1, <1>5, <1>8
  <2> QED
    BY <2>1
<1> QED
  BY <1>6, <1>7, <1>8 DEF FoldersListed

LEMMA ListFoldersSerial ==
  ASSUME IInv, SInv, InItsFoldersCollection, NEW s \in Slot, ListFolders(s)
  PROVE  SInv'
<1> DEFINE x == txn[s]
           id == x.op.id
           found == IF id \in Folder THEN Descendants(id)
                    ELSE {[id |-> f, depth |-> 0] : f \in {g \in Folder : row[g].coll = id}}
           y == [x EXCEPT !.pc = "requests", !.folders = found]
<1>1. x \in TxnType /\ Shape(x) /\ x.pc = "folders" /\ Op(s) = x.op /\ x.op \in Command
      /\ Serial(x, row)
  BY SlotType DEF ListFolders, SInv
<1>2. x.op.kind = "delete" /\ id \in Folder \cup Collection
  BY <1>1, Commands DEF Shape, Item
<1>3. txn' = [txn EXCEPT ![s].pc = "requests", ![s].folders = found] /\ UNCHANGED <<row, logged>>
  BY <1>1 DEF ListFolders
<1>4. id \in Folder => QueryEnds(id)
  BY <1>1 DEF ListFolders
<1>5. id \in Folder => found = Descendants(id)
  OBVIOUS
<1>6. id \in Collection => found = {[id |-> f, depth |-> 0] : f \in {g \in Folder : row[g].coll = id}}
  BY Kinds
<1> HIDE DEF found
<1>7. txn' = [txn EXCEPT ![s] = y]
  BY <1>3 DEF IInv, TypeOK
<1>8. y.pc = "requests" /\ y.op = x.op /\ y.folders = found
  BY <1>1 DEF TxnType
<1> HIDE DEF y
<1>9. FoldersListed(y, row)
  BY <1>2, <1>4, <1>5, <1>6, <1>8, DescendantsListed, CollectionListed
<1>10. Serial(y, row)
  BY <1>1, <1>2, <1>8, <1>9 DEF Serial
<1> QED
  BY <1>3, <1>7, <1>10, GoesOnSerial

LEMMA ListRequestsSerial ==
  ASSUME IInv, SInv, InItsFoldersCollection, NEW s \in Slot, ListRequests(s)
  PROVE  SInv'
<1> DEFINE x == txn[s]
           id == x.op.id
           in(r) == IF id \in Folder
                    THEN row[r].parent \in {id} \cup {d.id : d \in x.folders}
                    ELSE row[r].coll = id
           found == {r \in Request : Exists(r) /\ in(r)}
           y == [x EXCEPT !.pc = "delete", !.requests = found]
<1>1. x \in TxnType /\ Shape(x) /\ x.pc = "requests" /\ Op(s) = x.op /\ x.op \in Command
      /\ Serial(x, row)
  BY SlotType DEF ListRequests, SInv
<1>2. x.op.kind = "delete" /\ id \in Folder \cup Collection
  BY <1>1, Commands DEF Shape, Item
<1>3. txn' = [txn EXCEPT ![s].pc = "delete", ![s].requests = found] /\ UNCHANGED <<row, logged>>
  BY <1>1 DEF ListRequests
<1>4. FoldersListed(x, row) /\ row[id].version > 0
  BY <1>1, <1>2 DEF Serial
<1>5. ASSUME NEW r \in Request, Exists(r)
      PROVE  in(r) <=> id \in {row[r].parent, row[r].coll} \/ \E d \in x.folders : row[r].parent = d.id
  <2>1. row[r] \in RowState /\ r \in Item /\ \A f \in Folder : row[f] \in RowState
    BY DEF IInv, TypeOK, Item
  <2>2. CASE id \in Folder
    BY <2>1, <2>2, Kinds DEF RowState
  <2>3. CASE id \in Collection
    <3>1. id \notin Folder /\ row[r].parent # id
      BY <2>1, <2>3, Kinds DEF RowState
    <3>2. ASSUME NEW d \in x.folders, row[r].parent = d.id
          PROVE  row[r].coll = id
      <4>1. d.id \in Folder /\ d.id \in Item
        BY <1>1 DEF TxnType, Item
      <4>2. row[d.id].coll = row[r].coll /\ Exists(d.id)
        BY <1>5, <2>1, <3>2, <4>1, Kinds
        DEF InItsFoldersCollection, Live, IInv, ForeignKeys, Refs
      <4>3. row[d.id].coll = id
        <5> DEFINE S == {id} \cup {i \in Item : row[i].coll = id}
        <5>1. S \in SUBSET Item
          BY <1>1, Commands
        <5>2. \A i \in Item : row[i].coll \in Collection \cup {None} /\ row[i].parent \in Folder \cup {None}
          BY DEF IInv, TypeOK, RowState
        <5>3. Closed(S, id, row)
          <6>1. ASSUME NEW i \in Item, row[i].version > 0, row[i].coll \in S
                PROVE  i \in S
            <7>1. row[i].coll = id
              <8>1. row[i].coll \in Collection
                BY <5>1, <5>2, <6>1, Kinds
              <8>2. \A c \in Collection : row[c].coll = None
                BY DEF SInv, Rooted
              <8> QED
                BY <2>3, <6>1, <8>1, <8>2, Kinds
            <7> QED
              BY <7>1
          <6>2. ASSUME NEW i \in Item, row[i].version > 0, row[i].parent \in S
                PROVE  i \in S
            <7>1. row[i].parent \in Folder /\ row[i].parent # id
              BY <2>3, <5>1, <5>2, <6>2, Kinds
            <7>2. row[i].coll = id
              BY <6>2, <7>1, Kinds DEF InItsFoldersCollection, Live, Exists
            <7> QED
              BY <7>2
          <6> QED
            BY <6>1, <6>2 DEF Closed
        <5>4. d.id \in S
          BY <1>4, <5>1, <5>3 DEF FoldersListed
        <5> QED
          BY <2>3, <4>1, <5>4, Kinds
      <4> QED
        BY <4>2, <4>3
    <3> QED
      BY <2>3, <3>1, <3>2
  <2> QED
    BY <1>2, <2>2, <2>3
<1> HIDE DEF in
<1>6. \A r \in Request : r \in found <=> Exists(r) /\ in(r)
  OBVIOUS
<1> HIDE DEF found
<1>7. txn' = [txn EXCEPT ![s] = y]
  BY <1>3 DEF IInv, TypeOK
<1>8. y.pc = "delete" /\ y.op = x.op /\ y.folders = x.folders /\ y.requests = found
  BY <1>1 DEF TxnType
<1> HIDE DEF y
<1>9. FoldersListed(y, row)
  BY <1>4, <1>8 DEF FoldersListed
<1>10. RequestsListed(y, row)
  BY <1>5, <1>6, <1>8 DEF RequestsListed, Exists
<1>11. Serial(y, row)
  BY <1>2, <1>4, <1>8, <1>9, <1>10 DEF Serial
<1> QED
  BY <1>3, <1>7, <1>11, GoesOnSerial
LEMMA CascadeIsLeast ==
  ASSUME IInv, NEW id \in Item, Exists(id)
  PROVE  /\ Closed(Cascade(id), id, row)
         /\ \A S \in SUBSET Item : Closed(S, id, row) => Cascade(id) \subseteq S
<1>1. id \in Cascade(id)
  BY DEF Cascade
<1>2. Closed(Cascade(id), id, row)
  BY <1>1, CascadeClosed DEF Closed, Exists
<1>3. ASSUME NEW S \in SUBSET Item, Closed(S, id, row)
      PROVE  Cascade(id) \subseteq S
  <2>1. id \in S /\ Contents(S) \subseteq S
    BY <1>3 DEF Closed, Contents, Exists
  <2> QED
    BY <2>1 DEF Cascade
<1> QED
  BY <1>2, <1>3

LEMMA DeleteSerial ==
  ASSUME IInv, SInv, NEW s \in Slot, Delete(s)
  PROVE  SInv'
<1> DEFINE x == txn[s]
           gone == Cascade(Op(s).id)
           y == [x EXCEPT !.pc = "commit", !.gone = gone]
<1>1. x \in TxnType /\ Shape(x) /\ x.pc = "delete" /\ Op(s) = x.op /\ x.op \in Command
      /\ Serial(x, row)
  BY SlotType DEF Delete, SInv
<1>2. x.op.kind = "delete" /\ x.op.id \in Item
  BY <1>1, Commands DEF Shape
<1>3. row[x.op.id].version > 0 /\ FoldersListed(x, row) /\ RequestsListed(x, row)
  BY <1>1, <1>2 DEF Serial
<1>4. /\ Closed(gone, x.op.id, row)
      /\ \A S \in SUBSET Item : Closed(S, x.op.id, row) => gone \subseteq S
  BY <1>1, <1>2, <1>3, CascadeIsLeast DEF Exists
<1>5. txn' = [txn EXCEPT ![s] = y] /\ UNCHANGED <<row, logged>>
  BY DEF Delete, IInv, TypeOK
<1> HIDE DEF gone
<1>6. y.pc = "commit" /\ y.op = x.op /\ y.folders = x.folders /\ y.requests = x.requests
      /\ y.gone = gone
  BY <1>1 DEF TxnType
<1> HIDE DEF y
<1>7. FoldersListed(y, row)
  BY <1>3, <1>6 DEF FoldersListed
<1>8. RequestsListed(y, row)
  BY <1>3, <1>6 DEF RequestsListed
<1>9. Serial(y, row)
  BY <1>2, <1>3, <1>4, <1>6, <1>7, <1>8 DEF Serial, Deleted
<1> QED
  BY <1>5, <1>9, GoesOnSerial

\* Every listed folder has a turn.
LEMMA Turns ==
  ASSUME IInv, NEW s \in Slot, FoldersListed(txn[s], row), NEW e \in txn[s].folders
  PROVE  Turn(s, e) \in 1 .. Cardinality(Folder)
<1> DEFINE N == Cardinality(Folder)
<1>1. e.id \in Folder /\ N \in Nat /\ Op(s) = txn[s].op
  BY SlotType, Kinds DEF TxnType
<1>2. CASE Op(s).id \in Collection
  BY <1>1, <1>2, ContentTreeAssumption DEF Turn
<1>3. CASE Op(s).id \notin Collection
  <2>1. e.depth \in 1 .. N /\ Turn(s, e) = N + 1 - e.depth
    BY <1>1, <1>3 DEF FoldersListed, Turn
  <2> HIDE DEF N
  <2>2. Turn(s, e) \in 1 .. N
    BY <1>1, <2>1
  <2> QED
    BY <2>2 DEF N
<1> QED
  BY <1>2, <1>3

LEMMA TombstoneSet ==
  ASSUME IInv, NEW s \in Slot, Op(s).id \in Item, FoldersListed(txn[s], row)
  PROVE  UNION {Tombstones(s)[k] : k \in DOMAIN Tombstones(s)}
           = txn[s].requests \cup {d.id : d \in txn[s].folders} \cup {Op(s).id}
<1> DEFINE N == Cardinality(Folder)
           T == Tombstones(s)
           x == txn[s]
           id == Op(s).id
<1>1. N \in Nat
  BY Kinds
<1>2. \A e \in x.folders : Turn(s, e) \in 1 .. N
  BY Turns
<1>3. /\ DOMAIN T = 1 .. N + 2
      /\ T[1] = x.requests
      /\ \A k \in 2 .. N + 1 : T[k] = {d.id : d \in {e \in x.folders : Turn(s, e) = k - 1}}
      /\ T[N + 2] = {id}
  BY TombstoneGroups
<1> HIDE DEF N, T, x, id
<1>4. ASSUME NEW k \in 1 .. N + 2, NEW i \in T[k]
      PROVE  i \in x.requests \cup {d.id : d \in x.folders} \cup {id}
  <2>1. k = 1 \/ k \in 2 .. N + 1 \/ k = N + 2
    BY <1>1
  <2> QED
    BY <1>3, <1>4, <2>1
<1>5. ASSUME NEW d \in x.folders
      PROVE  \E k \in 1 .. N + 2 : d.id \in T[k]
  <2> DEFINE k == Turn(s, d) + 1
  <2>1. k \in 2 .. N + 1 /\ k \in 1 .. N + 2 /\ Turn(s, d) = k - 1
    BY <1>1, <1>2
  <2> HIDE DEF k
  <2>2. d.id \in T[k]
    BY <1>3, <2>1
  <2> QED
    BY <2>1, <2>2
<1>6. 1 \in 1 .. N + 2 /\ N + 2 \in 1 .. N + 2
  BY <1>1
<1>7. UNION {T[k] : k \in 1 .. N + 2} = x.requests \cup {d.id : d \in x.folders} \cup {id}
  <2>1. ASSUME NEW i \in UNION {T[k] : k \in 1 .. N + 2}
        PROVE  i \in x.requests \cup {d.id : d \in x.folders} \cup {id}
    BY <1>4
  <2>2. ASSUME NEW i \in x.requests \cup {d.id : d \in x.folders} \cup {id}
        PROVE  \E k \in 1 .. N + 2 : i \in T[k]
    <3>1. CASE i \in x.requests \cup {id}
      BY <1>3, <1>6, <3>1
    <3>2. CASE i \in {d.id : d \in x.folders}
      BY <1>5, <3>2
    <3> QED
      BY <3>1, <3>2
  <2> QED
    BY <2>1, <2>2
<1> QED
  BY <1>3, <1>7 DEF T, x, id

\* Where the listed folders and requests put what is in an item.
LEMMA InTheTombstones ==
  ASSUME IInv, SInv, NEW s \in Slot, txn[s].pc = "commit", txn[s].op.kind = "delete",
         NEW i \in Item, Exists(i), NEW p \in Refs(row[i]),
         p = txn[s].op.id \/ \E e \in txn[s].folders : e.id = p
  PROVE  \/ i \in txn[s].requests
         \/ i \in Folder /\ \E d \in txn[s].folders : d.id = i
<1> DEFINE x == txn[s]
           id == x.op.id
<1>1. x \in TxnType /\ x.op \in Command /\ id \in Item /\ Serial(x, row)
  BY SlotType, Commands DEF SInv
<1>2. FoldersListed(x, row) /\ RequestsListed(x, row)
  BY <1>1 DEF Serial
<1>3. row[i].coll \in Collection \cup {None} /\ row[i].parent \in Folder \cup {None}
      /\ \A e \in x.folders : e.id \in Folder
  BY <1>1 DEF IInv, TypeOK, RowState, TxnType
<1>4. p \in {row[i].coll, row[i].parent} /\ p # None
  BY DEF Refs
<1>5. i \notin Collection
  BY <1>4 DEF SInv, Rooted
<1>6. id \in {row[i].parent, row[i].coll} \/ \E e \in x.folders : row[i].parent = e.id
  BY <1>3, <1>4, Kinds
<1>7. CASE i \in Request
  BY <1>2, <1>6, <1>7 DEF RequestsListed, Exists
<1>8. CASE i \in Folder
  BY <1>2, <1>6, <1>8 DEF FoldersListed, Exists
<1> QED
  BY <1>5, <1>7, <1>8, Kinds

LEMMA TombstonesAreTheCascade ==
  ASSUME IInv, SInv, NEW s \in Slot, txn[s].pc = "commit", txn[s].op.kind = "delete"
  PROVE  UNION {Tombstones(s)[k] : k \in DOMAIN Tombstones(s)} = txn[s].gone
<1> DEFINE x == txn[s]
           id == x.op.id
           gone == x.gone
           D == {d.id : d \in x.folders}
           T == x.requests \cup D \cup {id}
<1>1. x \in TxnType /\ x.op \in Command /\ id \in Item /\ Op(s) = x.op /\ Serial(x, row)
  BY SlotType, Commands DEF SInv
<1>2. FoldersListed(x, row) /\ RequestsListed(x, row) /\ Deleted(x, row)
  BY <1>1 DEF Serial
<1>3. T \in SUBSET Item /\ gone \in SUBSET Item /\ D \subseteq Folder /\ x.requests \subseteq Request
  BY <1>1 DEF TxnType, Item
<1>4. Closed(T, id, row)
  <2>1. ASSUME NEW i \in Item, row[i].version > 0, row[i].parent \in T \/ row[i].coll \in T
        PROVE  i \in T
    <3>1. PICK p \in {row[i].parent, row[i].coll} : p \in T
      BY <2>1
    <3>2. p \in Folder \cup Collection /\ p # None /\ p \notin Request
      BY <1>3, <2>1, <3>1, Kinds DEF IInv, TypeOK, RowState
    <3>3. p = id \/ \E e \in x.folders : e.id = p
      BY <1>3, <3>1, <3>2
    <3>4. p \in Refs(row[i]) /\ Exists(i)
      BY <2>1, <3>2 DEF Refs, Exists
    <3> QED
      BY <3>3, <3>4, InTheTombstones
  <2> QED
    BY <2>1 DEF Closed
<1>5. gone \subseteq T
  BY <1>2, <1>3, <1>4 DEF Deleted
<1>6. D \subseteq gone /\ id \in gone
  BY <1>2, <1>3 DEF Deleted, FoldersListed, Closed
<1>7. x.requests \subseteq gone
  <2> SUFFICES ASSUME NEW r \in x.requests
               PROVE  r \in gone
    OBVIOUS
  <2>1. r \in Request /\ r \in Item
    BY <1>3 DEF Item
  <2>2. row[r].version > 0 /\ (row[r].parent \in gone \/ row[r].coll \in gone)
    BY <1>2, <1>6, <2>1 DEF RequestsListed
  <2> QED
    BY <1>2, <2>1, <2>2 DEF Deleted, Closed
<1>8. T = gone
  BY <1>5, <1>6, <1>7
<1> QED
  BY <1>1, <1>2, <1>8, TombstoneSet

LEMMA CommitSerial ==
  ASSUME OneAtATime, IInv, SInv, NEW s \in Slot, Commit(s)
  PROVE  SInv'
<1> DEFINE x == txn[s]
           id == x.op.id
<1>1. x \in TxnType /\ Shape(x) /\ x.pc = "commit" /\ x.op \in Command /\ Op(s) = x.op
      /\ id \in Item /\ Held(x, row) /\ Serial(x, row)
      /\ x.op.kind \in {"create", "update", "delete"}
  BY SlotType, Commands DEF Commit, IInv, SInv
<1>2. row \in [Item -> RowState] /\ logged \in [Item -> Entry]
  BY TypeOKDef DEF IInv
<1>3. \A t \in Slot : txn'[t] = Idle
  BY DEF Commit, Finish, OneAtATime, IInv, TypeOK
<1>4. \A t \in Slot : Serial(txn'[t], row')
  BY <1>3, IdleIsSerial
<1>5. CASE x.op.kind = "delete"
  <2> DEFINE tomb == UNION {Tombstones(s)[k] : k \in DOMAIN Tombstones(s)}
  <2>1. /\ row' = [i \in Item |-> IF i \in x.gone THEN Absent ELSE row[i]]
        /\ logged' = [i \in Item |->
              IF i \in tomb THEN [op |-> "delete", state |-> Absent] ELSE logged[i]]
    BY <1>1, <1>5 DEF Commit
  <2>2. tomb = x.gone
    BY <1>1, <1>5, TombstonesAreTheCascade
  <2> HIDE DEF tomb
  <2>3. LogIsTheTree'
    BY <2>1, <2>2 DEF SInv, LogIsTheTree, Exists, Absent
  <2>4. Rooted'
    BY <2>1 DEF SInv, Rooted, Absent, Item
  <2> QED
    BY <1>4, <2>3, <2>4 DEF SInv
<1>6. CASE x.op.kind # "delete"
  <2> DEFINE old == row[id]
             new == WrittenOf(x, old)
  <2>1. /\ row' = [row EXCEPT ![id] = new]
        /\ logged' = [logged EXCEPT ![id] = [op |-> "upsert", state |-> new]]
    BY <1>1, <1>6, ModelOps DEF Commit
  <2>2. new.version > 0
    BY <1>1, <1>2, ContentTreeAssumption DEF RowState, WrittenOf
  <2>3. id \in Collection => new.coll = None /\ new.parent = None
    <3> SUFFICES ASSUME id \in Collection
                 PROVE  new.coll = None /\ new.parent = None
      OBVIOUS
    <3>1. old.coll = None /\ old.parent = None
      BY DEF SInv, Rooted
    <3>2. x.op.coll = None /\ x.op.folder \in {None, Keep}
      BY <1>1, <1>6, Commands, Kinds
    <3>3. x.op.kind = "create" => x.cur = Absent
      BY <1>1 DEF Serial
    <3>4. ~MovesOf(x) /\ (x.op.kind = "create" => TargetOf(x) = None)
      BY <3>2, <3>3 DEF MovesOf, TargetOf, Absent
    <3> QED
      BY <3>1, <3>2, <3>4 DEF WrittenOf
  <2> HIDE DEF new
  <2>4. LogIsTheTree'
    BY <1>1, <1>2, <2>1, <2>2 DEF SInv, LogIsTheTree, Exists
  <2>5. Rooted'
    BY <1>2, <2>1, <2>3 DEF SInv, Rooted, Item
  <2> QED
    BY <1>4, <2>4, <2>5 DEF SInv
<1> QED
  BY <1>5, <1>6
LEMMA InitSerial ==
  ASSUME Init
  PROVE  SInv
  BY IdleIsSerial DEF Init, SInv, LogIsTheTree, Rooted, Exists, Absent, Unlogged, Item

LEMMA NextSerial ==
  ASSUME OneAtATime, IInv, SInv, InItsFoldersCollection, [Next]_vars
  PROVE  SInv'
<1>1. ASSUME NEW s \in Slot, (\E d \in Command : Begin(s, d)) \/ Statement(s) \/ Abort(s)
      PROVE  SInv'
  BY <1>1, BeginSerial, FindCurrentSerial, LookupSerial, ListFoldersSerial, ListRequestsSerial,
     DeleteSerial, CommitSerial, RejectedSerial
  DEF Statement, Abort
<1>2. CASE UNCHANGED vars
  BY <1>2 DEF vars, SInv, LogIsTheTree, Rooted, Exists
<1> QED
  BY <1>1, <1>2 DEF Next

\* What was dropped has its parents' tombstones after it, by case: the requests go before
\* all, the folders of a folder by depth, and a folder of a collection comes some time.
LEMMA NoOrphans ==
  ASSUME IInv, SInv
  PROVE  OrphansOnlyInPassing
<1> SUFFICES ASSUME NEW s \in Slot, txn[s].pc = "commit", Op(s).kind = "delete",
                    NEW k \in DOMAIN Tombstones(s), NEW i \in Replica(s, k),
                    NEW p \in Refs(logged[i].state), p \notin Replica(s, k)
             PROVE  FolderToBeDropped(s, i)
  BY DEF OrphansOnlyInPassing, Refs
<1> DEFINE N == Cardinality(Folder)
           T == Tombstones(s)
           x == txn[s]
           id == x.op.id
<1>1. x \in TxnType /\ x.op \in Command /\ id \in Item /\ Op(s) = x.op /\ Serial(x, row)
      /\ x.op.kind = "delete"
  BY SlotType, Commands DEF SInv
<1>2. FoldersListed(x, row)
  BY <1>1 DEF Serial
<1>3. N \in Nat
  BY Kinds
<1>4. /\ DOMAIN T = 1 .. N + 2 /\ Len(T) = N + 2
      /\ T[1] = x.requests
      /\ \A m \in 2 .. N + 1 : T[m] = {d.id : d \in {e \in x.folders : Turn(s, e) = m - 1}}
      /\ T[N + 2] = {id}
  BY <1>1, TombstoneGroups
<1>5. \A e \in x.folders : Turn(s, e) \in 1 .. N /\ e.id \in Folder
  BY <1>1, <1>2, Turns DEF TxnType
<1>6. i \in Item /\ Exists(i) /\ logged[i].state = row[i] /\ p \in Refs(row[i])
  BY DEF Replica, SInv, LogIsTheTree
<1>7. Exists(p) /\ p \in {row[i].coll, row[i].parent} /\ p \in Collection \cup Folder
  BY <1>6 DEF IInv, ForeignKeys, Refs, TypeOK, RowState
<1>8. p \in Item /\ logged[p].op = "upsert"
  BY <1>7 DEF SInv, LogIsTheTree, Item
<1>9. \A m \in 1 .. k : i \notin T[m]
  BY DEF Replica, Dropped
<1> HIDE DEF N, T
<1>10. k \in 1 .. N + 2
  BY <1>4 DEF T
<1>11. ASSUME NEW d \in x.folders
       PROVE  d.id \in T[Turn(s, d) + 1] /\ Turn(s, d) + 1 \in 2 .. N + 1
  <2> DEFINE m == Turn(s, d) + 1
  <2>1. m \in 2 .. N + 1 /\ Turn(s, d) = m - 1
    BY <1>3, <1>5
  <2> HIDE DEF m
  <2>2. d.id \in T[m]
    BY <1>4, <2>1
  <2> QED
    BY <2>1, <2>2 DEF m
<1>12. PICK j \in 1 .. k : p \in T[j]
  BY <1>8 DEF Replica, Dropped, T
<1>13. 1 \in 1 .. k /\ j \in 1 .. N + 2
  BY <1>3, <1>10
<1>14. i \notin x.requests
  BY <1>4, <1>9, <1>13
<1>15. j # 1
  <2>1. x.requests \subseteq Request
    BY <1>1 DEF TxnType
  <2> QED
    BY <1>4, <1>7, <1>12, <2>1, Kinds
<1>16. p = id \/ \E e \in x.folders : e.id = p
  BY <1>3, <1>4, <1>12, <1>13, <1>15
<1>17. i \in Folder /\ \E d \in x.folders : d.id = i
  BY <1>1, <1>6, <1>14, <1>16, InTheTombstones
<1>18. CASE id \in Collection
  <2>1. PICK d \in x.folders : d.id = i
    BY <1>17
  <2>2. i \in T[Turn(s, d) + 1] /\ Turn(s, d) + 1 \in 1 .. Len(T)
    BY <1>3, <1>4, <1>11, <2>1
  <2>3. i \in Dropped(s, Len(Tombstones(s)))
    BY <2>2 DEF Dropped, T
  <2> QED
    BY <1>1, <1>17, <1>18, <2>3 DEF FolderToBeDropped
<1>19. CASE id \notin Collection
  <2>1. ASSUME NEW d \in x.folders, d.id = i, Turn(s, d) + 1 \in 1 .. k
        PROVE  FALSE
    BY <1>9, <1>11, <2>1
  <2>2. CASE j = N + 2
    <3>1. PICK d \in x.folders : d.id = i
      BY <1>17
    <3>2. Turn(s, d) + 1 \in 1 .. k
      BY <1>3, <1>10, <1>11, <2>2
    <3> QED
      BY <2>1, <3>1, <3>2
  <2>3. CASE j \in 2 .. N + 1
    <3>1. PICK e \in x.folders : e.id = p /\ Turn(s, e) = j - 1
      BY <1>4, <1>12, <2>3
    <3>2. row[i].parent = p
      BY <1>5, <1>6, <1>7, <3>1, Kinds DEF IInv, TypeOK, RowState
    <3>3. PICK d \in x.folders : d.id = i /\ d.depth >= e.depth
      BY <1>2, <1>6, <1>17, <1>19, <3>1, <3>2 DEF FoldersListed, Exists
    <3>4. /\ Turn(s, d) = N + 1 - d.depth /\ Turn(s, e) = N + 1 - e.depth
          /\ d.depth \in Nat /\ e.depth \in Nat
      BY <1>1, <1>19 DEF Turn, N, TxnType
    <3>5. Turn(s, d) + 1 \in 1 .. k
      BY <1>3, <1>5, <1>10, <1>11, <2>3, <3>1, <3>3, <3>4
    <3> QED
      BY <2>1, <3>3, <3>5
  <2> QED
    BY <1>3, <1>13, <1>15, <2>2, <2>3
<1> QED
  BY <1>18, <1>19

\* One request at a time: no item is gone without its tombstone, cascades included, in a
\* tree of any size ("every delete, including cascaded ones, has its own tombstone").
THEOREM DeletesAreLogged == OneAtATime => (Spec => []EveryDeleteHasTombstone)
<1> SUFFICES ASSUME OneAtATime
             PROVE  Spec => []EveryDeleteHasTombstone
  OBVIOUS
<1>1. Init => IInv /\ PlaceInv /\ SInv
  BY InitIInv, InitPlace, InitSerial
<1>2. IInv /\ PlaceInv /\ SInv /\ [Next]_vars => IInv' /\ PlaceInv' /\ SInv'
  BY NextIInv, NextPlace, NextSerial DEF Stable, OneAtATime, PlaceInv
<1>3. SInv => EveryDeleteHasTombstone
  BY DEF SInv, LogIsTheTree, EveryDeleteHasTombstone, Live
<1> QED
  BY <1>1, <1>2, <1>3, PTL DEF Spec

\* One request at a time: the last upsert of an item carries the place and version that
\* the item has.
THEOREM RowsAreLogged == OneAtATime => (Spec => []LastEntryIsTheRow)
<1> SUFFICES ASSUME OneAtATime
             PROVE  Spec => []LastEntryIsTheRow
  OBVIOUS
<1>1. Init => IInv /\ PlaceInv /\ SInv
  BY InitIInv, InitPlace, InitSerial
<1>2. IInv /\ PlaceInv /\ SInv /\ [Next]_vars => IInv' /\ PlaceInv' /\ SInv'
  BY NextIInv, NextPlace, NextSerial DEF Stable, OneAtATime, PlaceInv
<1>3. SInv => LastEntryIsTheRow
  BY DEF SInv, LogIsTheTree, LastEntryIsTheRow, Live
<1> QED
  BY <1>1, <1>2, <1>3, PTL DEF Spec

\* One request at a time: wherever a page of the log ends inside a delete's entries, the
\* replica holds no item without its folder and its collection, but for folders of a
\* deleted collection (logged by id), and each of these has its own tombstone to come.
THEOREM OrphansPass == OneAtATime => (Spec => []OrphansOnlyInPassing)
<1> SUFFICES ASSUME OneAtATime
             PROVE  Spec => []OrphansOnlyInPassing
  OBVIOUS
<1>1. Init => IInv /\ PlaceInv /\ SInv
  BY InitIInv, InitPlace, InitSerial
<1>2. IInv /\ PlaceInv /\ SInv /\ [Next]_vars => IInv' /\ PlaceInv' /\ SInv'
  BY NextIInv, NextPlace, NextSerial DEF Stable, OneAtATime, PlaceInv
<1>3. IInv /\ SInv => OrphansOnlyInPassing
  BY NoOrphans
<1> QED
  BY <1>1, <1>2, <1>3, PTL DEF Spec
-----------------------------------------------------------------------------
(***************************************************************************)
(* No folder is below itself.  Ranks fall from a folder to its parent; the *)
(* walk of assertParentFolder has seen a chain of so many folders with     *)
(* rising ranks and not the folder that moves, and ends above the top one  *)
(* before it has looked at more folders than there are.                    *)
(***************************************************************************)
Descends(rank, rw) ==
  \A g \in Folder : rw[g].parent # None => rank[rw[g].parent] < rank[g]

\* What the walk has seen below the folder it looks at next.
Climbed(x, V, at, rw) ==
  /\ CheckedOf(x) \in V /\ x.op.id \notin V
  /\ \A g \in V : rw[g].parent \in V \cup {at}

Climbs(x, rw) ==
  /\ x.pc \in {"collection", "current", "target", "placement"} => x.steps = 0
  /\ x.pc = "walk" =>
       \E V \in SUBSET Folder :
         /\ Climbed(x, V, x.at, rw)
         /\ Cardinality(V) = x.steps + 1
         /\ \A rank \in [Folder -> Nat] :
              Descends(rank, rw) /\ x.at # None => \A g \in V : rank[x.at] < rank[g]
  /\ /\ x.pc \in {"write", "commit"} /\ x.op.kind = "update" /\ x.op.id \in Folder
     /\ CheckedOf(x) # None
     => \E V \in SUBSET Folder : Climbed(x, V, None, rw)
  /\ x.pc \in {"write", "commit"} /\ x.op.kind = "create" /\ CheckedOf(x) # None =>
       rw[CheckedOf(x)].version > 0

Ranked == \E rank \in [Folder -> Nat] : Descends(rank, row)

CInv == Ranked /\ \A s \in Slot : Climbs(txn[s], row)

LEMMA GoesOnClimb ==
  ASSUME IInv, CInv, NEW s \in Slot, NEW y, Climbs(y, row),
         txn' = [txn EXCEPT ![s] = y], UNCHANGED row
  PROVE  CInv'
<1>1. txn'[s] = y /\ \A t \in Slot \ {s} : txn'[t] = txn[t]
  BY DEF IInv, TypeOK
<1>2. \A t \in Slot : Climbs(txn'[t], row')
  BY <1>1 DEF CInv
<1> QED
  BY <1>2 DEF CInv, Ranked

LEMMA IdleClimbs == \A rw : Climbs(Idle, rw)
  BY DEF Climbs, Idle

LEMMA RejectedClimb ==
  ASSUME IInv, CInv, NEW s \in Slot, Rejected(s)
  PROVE  CInv'
  BY IdleClimbs, GoesOnClimb DEF Rejected, Finish

LEMMA BeginClimb ==
  ASSUME IInv, CInv, NEW s \in Slot, NEW d \in Command, Begin(s, d)
  PROVE  CInv'
<1> DEFINE to == IF d.kind # "delete" /\ d.id \in Collection THEN "write"
                 ELSE IF d.kind = "create" THEN "collection" ELSE "current"
           v == row[d.id].version
           y == [Idle EXCEPT !.op = d, !.expected = v, !.pc = to]
<1>1. to \in {"write", "collection", "current"} /\ (to = "write" => d.id \in Collection)
  OBVIOUS
<1>2. txn' = [txn EXCEPT ![s] = y] /\ UNCHANGED row
  BY DEF Begin
<1> HIDE DEF to, v
<1>3. y.pc = to /\ y.op = d /\ y.steps = 0
  BY DEF Idle
<1> HIDE DEF y
<1>4. d.id \in Collection => CheckedOf(y) = None
  BY <1>3, Commands, Kinds DEF CheckedOf, MovesOf
<1>5. Climbs(y, row)
  BY <1>1, <1>3, <1>4 DEF Climbs
<1> QED
  BY <1>2, <1>5, GoesOnClimb

LEMMA FindCurrentClimb ==
  ASSUME IInv, CInv, NEW s \in Slot, FindCurrent(s)
  PROVE  CInv'
<1> DEFINE x == txn[s]
           cur == row[x.op.id]
           to == IF x.op.kind = "update" THEN "target"
                 ELSE IF x.op.id \in Request THEN "delete" ELSE "folders"
           y == [x EXCEPT !.cur = cur, !.pc = to]
<1>1. x \in TxnType /\ x.pc = "current" /\ Op(s) = x.op /\ Climbs(x, row)
  BY SlotType DEF FindCurrent, CInv
<1>2. CASE Rejected(s)
  BY <1>2, RejectedClimb
<1>3. CASE txn' = [txn EXCEPT ![s].cur = cur, ![s].pc = to] /\ UNCHANGED <<row, logged>>
  <2>1. txn' = [txn EXCEPT ![s] = y]
    BY <1>3 DEF IInv, TypeOK
  <2>2. to \in {"target", "delete", "folders"}
    OBVIOUS
  <2> HIDE DEF to, cur
  <2>3. y.pc = to /\ y.op = x.op /\ y.steps = 0
    BY <1>1 DEF TxnType, Climbs
  <2> HIDE DEF y
  <2>4. Climbs(y, row)
    BY <2>2, <2>3 DEF Climbs
  <2> QED
    BY <1>3, <2>1, <2>4, GoesOnClimb
<1> QED
  BY <1>1, <1>2, <1>3 DEF FindCurrent

LEMMA FindCollectionClimb ==
  ASSUME IInv, CInv, NEW s \in Slot, FindCollection(s)
  PROVE  CInv'
<1> DEFINE x == txn[s]
           to == IF CheckedOf(x) = None THEN "write" ELSE "placement"
           y == [x EXCEPT !.pc = to]
<1>1. x \in TxnType /\ x.pc \in {"collection", "target"} /\ Climbs(x, row)
  BY SlotType DEF FindCollection, CInv
<1>2. CASE Rejected(s)
  BY <1>2, RejectedClimb
<1>3. CASE Go(s, to)
  <2>1. to \in {"write", "placement"} /\ (to = "write" => CheckedOf(x) = None)
    OBVIOUS
  <2>2. txn' = [txn EXCEPT ![s] = y] /\ UNCHANGED row
    BY <1>3 DEF Go, IInv, TypeOK
  <2> HIDE DEF to
  <2>3. y.pc = to /\ y.op = x.op /\ y.cur = x.cur /\ y.steps = 0
    BY <1>1 DEF TxnType, Climbs
  <2> HIDE DEF y
  <2>4. CheckedOf(y) = CheckedOf(x)
    BY <2>3 DEF CheckedOf, MovesOf
  <2>5. Climbs(y, row)
    BY <2>1, <2>3, <2>4 DEF Climbs
  <2> QED
    BY <2>2, <2>5, GoesOnClimb
<1> QED
  BY <1>2, <1>3, ModelOps DEF FindCollection

LEMMA FindFolderClimb ==
  ASSUME IInv, CInv, NEW s \in Slot, FindFolder(s)
  PROVE  CInv'
<1> DEFINE x == txn[s]
           f == CheckedOf(x)
           at == row[f].parent
           to == IF x.op.kind = "update" /\ x.op.id \in Folder THEN "walk" ELSE "write"
           y == [x EXCEPT !.at = at, !.pc = to]
<1>1. x \in TxnType /\ x.pc = "placement" /\ f \in Folder /\ Climbs(x, row) /\ Op(s) = x.op
  BY SlotType DEF FindFolder, Shape, CInv
<1>2. CASE Rejected(s)
  BY <1>2, RejectedClimb
<1>3. CASE /\ txn' = [txn EXCEPT ![s].at = at, ![s].pc = to] /\ UNCHANGED <<row, logged>>
           /\ Exists(f) /\ ~(x.op.kind = "update" /\ f = x.op.id)
  <2>1. txn' = [txn EXCEPT ![s] = y]
    BY <1>3 DEF IInv, TypeOK
  <2>2. /\ to \in {"walk", "write"}
        /\ to = "walk" <=> x.op.kind = "update" /\ x.op.id \in Folder
    OBVIOUS
  <2> HIDE DEF to
  <2>3. y.pc = to /\ y.op = x.op /\ y.cur = x.cur /\ y.steps = 0 /\ y.at = at
    BY <1>1 DEF TxnType, Climbs
  <2> HIDE DEF y
  <2>4. CheckedOf(y) = f
    BY <2>3 DEF CheckedOf, MovesOf
  <2>5. to = "walk" =>
          \E V \in SUBSET Folder :
            /\ Climbed(y, V, at, row)
            /\ Cardinality(V) = 0 + 1
            /\ \A rank \in [Folder -> Nat] :
                 Descends(rank, row) /\ at # None => \A g \in V : rank[at] < rank[g]
    <3> SUFFICES ASSUME to = "walk"
                 PROVE  \E V \in SUBSET Folder :
                          /\ Climbed(y, V, at, row)
                          /\ Cardinality(V) = 0 + 1
                          /\ \A rank \in [Folder -> Nat] :
                               Descends(rank, row) /\ at # None => \A g \in V : rank[at] < rank[g]
      OBVIOUS
    <3> DEFINE V == {f}
    <3>1. Climbed(y, V, at, row)
      BY <1>3, <2>2, <2>3, <2>4 DEF Climbed
    <3>2. Cardinality(V) = 0 + 1
      BY FS_Singleton
    <3>3. \A rank \in [Folder -> Nat] :
            Descends(rank, row) /\ at # None => \A g \in V : rank[at] < rank[g]
      BY <1>1 DEF Descends
    <3>4. V \in SUBSET Folder
      BY <1>1
    <3> HIDE DEF V
    <3> QED
      BY <3>1, <3>2, <3>3, <3>4
  <2>6. Climbs(y, row)
    BY <1>3, <2>2, <2>3, <2>4, <2>5 DEF Climbs, Exists
  <2> QED
    BY <1>3, <2>1, <2>6, GoesOnClimb
<1> QED
  BY <1>1, <1>2, <1>3, ModelOps DEF FindFolder
LEMMA WalkUpClimb ==
  ASSUME Cardinality(Folder) <= WalkLimit, IInv, CInv, NEW s \in Slot, WalkUp(s)
  PROVE  CInv'
<1> DEFINE x == txn[s]
           at == row[x.at].parent
           n == x.steps + 1
<1>1. x \in TxnType /\ Shape(x) /\ x.pc = "walk" /\ Climbs(x, row) /\ Op(s) = x.op
  BY SlotType DEF WalkUp, CInv
<1>2. x.op.kind = "update" /\ x.steps \in Nat /\ x.at \in Folder \cup {None}
  BY <1>1, ContentTreeAssumption DEF Shape, TxnType
<1>3. PICK V \in SUBSET Folder :
        /\ Climbed(x, V, x.at, row)
        /\ Cardinality(V) = x.steps + 1
        /\ \A rank \in [Folder -> Nat] :
             Descends(rank, row) /\ x.at # None => \A g \in V : rank[x.at] < rank[g]
  BY <1>1 DEF Climbs
<1>4. IsFiniteSet(V) /\ Cardinality(V) <= Cardinality(Folder)
  BY Kinds, FS_Subset
<1>5. PICK rank \in [Folder -> Nat] : Descends(rank, row)
  BY DEF CInv, Ranked
<1>6. x.at # None => x.at \notin V /\ x.at \in Folder
  BY <1>2, <1>3, <1>5
<1>7. CASE Rejected(s)
  BY <1>7, RejectedClimb
<1>8. CASE Go(s, "write") /\ (x.at = None \/ x.steps = WalkLimit)
  <2> DEFINE y == [x EXCEPT !.pc = "write"]
  <2>1. txn' = [txn EXCEPT ![s] = y] /\ UNCHANGED row
    BY <1>8 DEF Go, IInv, TypeOK
  <2>2. y.pc = "write" /\ y.op = x.op /\ y.cur = x.cur
    BY <1>1 DEF TxnType
  <2>3. x.at = None
    BY <1>2, <1>3, <1>4, <1>8, ContentTreeAssumption, Kinds
  <2> HIDE DEF y
  <2>4. CheckedOf(y) = CheckedOf(x)
    BY <2>2 DEF CheckedOf, MovesOf
  <2>5. Climbed(y, V, None, row)
    BY <1>3, <2>2, <2>3, <2>4 DEF Climbed
  <2>6. Climbs(y, row)
    BY <1>2, <2>2, <2>5 DEF Climbs
  <2> QED
    BY <2>1, <2>6, GoesOnClimb
<1>9. CASE /\ txn' = [txn EXCEPT ![s].at = at, ![s].steps = @ + 1] /\ UNCHANGED <<row, logged>>
           /\ x.at # None /\ x.at # x.op.id
  <2> DEFINE y == [x EXCEPT !.at = at, !.steps = n]
             W == V \cup {x.at}
  <2>1. txn' = [txn EXCEPT ![s] = y]
    BY <1>9 DEF IInv, TypeOK
  <2>2. n = x.steps + 1
    OBVIOUS
  <2> HIDE DEF n
  <2>3. y.pc = "walk" /\ y.op = x.op /\ y.cur = x.cur /\ y.at = at /\ y.steps = n
    BY <1>1 DEF TxnType
  <2> HIDE DEF y
  <2>4. CheckedOf(y) = CheckedOf(x)
    BY <2>3 DEF CheckedOf, MovesOf
  <2>5. W \in SUBSET Folder /\ Cardinality(W) = n + 1
    <3>1. Cardinality(W) = Cardinality(V) + 1
      BY <1>4, <1>6, <1>9, FS_AddElement
    <3> QED
      BY <1>2, <1>3, <1>6, <1>9, <2>2, <3>1
  <2>6. Climbed(y, W, at, row)
    BY <1>3, <1>9, <2>3, <2>4 DEF Climbed
  <2>7. ASSUME NEW r \in [Folder -> Nat], Descends(r, row), at # None, NEW g \in W
        PROVE  r[at] < r[g]
    <3>1. r[at] < r[x.at]
      BY <1>6, <1>9, <2>7 DEF Descends
    <3>2. CASE g = x.at
      BY <3>1, <3>2
    <3>3. CASE g \in V
      <4>1. r[x.at] < r[g] /\ g \in Folder
        BY <1>3, <1>9, <2>7, <3>3
      <4>2. at \in Folder
        BY <1>6, <1>9, <2>7 DEF IInv, TypeOK, RowState, Item
      <4> QED
        BY <1>6, <1>9, <2>7, <3>1, <4>1, <4>2
    <3> QED
      BY <2>7, <3>2, <3>3
  <2> HIDE DEF W
  <2>8. Climbs(y, row)
    BY <2>3, <2>5, <2>6, <2>7 DEF Climbs
  <2> QED
    BY <1>9, <2>1, <2>8, GoesOnClimb
<1> QED
  BY <1>1, <1>7, <1>8, <1>9 DEF WalkUp

LEMMA WriteClimb ==
  ASSUME IInv, CInv, NEW s \in Slot, Write(s)
  PROVE  CInv'
<1> DEFINE x == txn[s]
           y == [x EXCEPT !.pc = "commit"]
<1>1. x \in TxnType /\ x.pc = "write" /\ Climbs(x, row)
  BY SlotType DEF Write, CInv
<1>2. CASE Rejected(s)
  BY <1>2, RejectedClimb
<1>3. CASE Go(s, "commit")
  <2>1. txn' = [txn EXCEPT ![s] = y] /\ UNCHANGED row
    BY <1>3 DEF Go, IInv, TypeOK
  <2>2. y.pc = "commit" /\ y.op = x.op /\ y.cur = x.cur
    BY <1>1 DEF TxnType
  <2> HIDE DEF y
  <2>3. CheckedOf(y) = CheckedOf(x)
    BY <2>2 DEF CheckedOf, MovesOf
  <2>4. Climbs(y, row)
    BY <1>1, <2>2, <2>3 DEF Climbs, Climbed
  <2> QED
    BY <2>1, <2>4, GoesOnClimb
<1> QED
  BY <1>2, <1>3 DEF Write

LEMMA DeleteStepsClimb ==
  ASSUME IInv, CInv, NEW s \in Slot, ListFolders(s) \/ ListRequests(s) \/ Delete(s)
  PROVE  CInv'
<1> DEFINE x == txn[s]
<1>1. x \in TxnType /\ x.op.kind = "delete"
  BY SlotType DEF ListFolders, ListRequests, Delete, Shape
<1>2. \E y : /\ y.pc \in {"requests", "delete", "commit"} /\ y.op = x.op
             /\ txn' = [txn EXCEPT ![s] = y]
  <2>1. CASE ListFolders(s)
    <3>1. PICK found : txn' = [txn EXCEPT ![s].pc = "requests", ![s].folders = found]
      BY <2>1 DEF ListFolders
    <3> DEFINE y == [x EXCEPT !.pc = "requests", !.folders = found]
    <3>2. txn' = [txn EXCEPT ![s] = y] /\ y.pc = "requests" /\ y.op = x.op
      BY <1>1, <3>1 DEF IInv, TypeOK, TxnType
    <3> QED
      BY <3>2
  <2>2. CASE ListRequests(s)
    <3>1. PICK found : txn' = [txn EXCEPT ![s].pc = "delete", ![s].requests = found]
      BY <2>2 DEF ListRequests
    <3> DEFINE y == [x EXCEPT !.pc = "delete", !.requests = found]
    <3>2. txn' = [txn EXCEPT ![s] = y] /\ y.pc = "delete" /\ y.op = x.op
      BY <1>1, <3>1 DEF IInv, TypeOK, TxnType
    <3> QED
      BY <3>2
  <2>3. CASE Delete(s)
    <3>1. PICK found : txn' = [txn EXCEPT ![s].pc = "commit", ![s].gone = found]
      BY <2>3 DEF Delete
    <3> DEFINE y == [x EXCEPT !.pc = "commit", !.gone = found]
    <3>2. txn' = [txn EXCEPT ![s] = y] /\ y.pc = "commit" /\ y.op = x.op
      BY <1>1, <3>1 DEF IInv, TypeOK, TxnType
    <3> QED
      BY <3>2
  <2> QED
    BY <2>1, <2>2, <2>3
<1>3. PICK y : y.pc \in {"requests", "delete", "commit"} /\ y.op = x.op /\ txn' = [txn EXCEPT ![s] = y]
  BY <1>2
<1>4. Climbs(y, row)
  BY <1>1, <1>3 DEF Climbs
<1> QED
  BY <1>3, <1>4, GoesOnClimb DEF ListFolders, ListRequests, Delete

LEMMA CommitClimb ==
  ASSUME OneAtATime, IInv, CInv, NEW s \in Slot, Commit(s)
  PROVE  CInv'
<1> DEFINE x == txn[s]
           id == x.op.id
           old == row[id]
           new == WrittenOf(x, old)
<1>1. x \in TxnType /\ x.pc = "commit" /\ x.op \in Command /\ Op(s) = x.op /\ id \in Item
      /\ Held(x, row) /\ Climbs(x, row) /\ x.op.kind \in {"create", "update", "delete"}
  BY SlotType, Commands DEF Commit, IInv, CInv
<1>2. row \in [Item -> RowState] /\ Folder \subseteq Item
  BY DEF IInv, TypeOK, Item
<1>3. \A t \in Slot : txn'[t] = Idle
  BY DEF Commit, Finish, OneAtATime, IInv, TypeOK
<1>4. PICK rank \in [Folder -> Nat] : Descends(rank, row)
  BY DEF CInv, Ranked
<1>5. SUFFICES Ranked'
  BY <1>3, IdleClimbs DEF CInv
<1>6. CASE x.op.kind = "delete"
  <2>1. row' = [i \in Item |-> IF i \in x.gone THEN Absent ELSE row[i]]
    BY <1>1, <1>6 DEF Commit
  <2>2. \A g \in Folder : row'[g].parent # None => row'[g].parent = row[g].parent
    BY <1>2, <2>1 DEF Absent
  <2>3. Descends(rank, row')
    BY <1>4, <2>2 DEF Descends
  <2> QED
    BY <2>3 DEF Ranked
<1>7. CASE x.op.kind # "delete"
  <2>1. row' = [row EXCEPT ![id] = new]
    BY <1>1, <1>7, ModelOps DEF Commit
  <2>2. new.parent = IF x.op.folder = Keep THEN old.parent ELSE x.op.folder
    BY DEF WrittenOf
  <2> HIDE DEF new
  <2>3. row'[id] = new /\ \A g \in Folder \ {id} : row'[g] = row[g]
    BY <1>1, <1>2, <2>1
  <2>4. CASE id \notin Folder \/ new.parent \in {None, old.parent}
    <3>1. \A g \in Folder : row'[g].parent # None => row'[g].parent = row[g].parent
      BY <2>3, <2>4
    <3>2. Descends(rank, row')
      BY <1>4, <3>1 DEF Descends
    <3> QED
      BY <3>2 DEF Ranked
  <2>5. CASE id \in Folder /\ new.parent \notin {None, old.parent}
    <3> DEFINE p == new.parent
    <3>1. x.op.folder = p /\ x.op.folder # Keep /\ CheckedOf(x) = p /\ p \in Folder /\ p # None
      BY <1>1, <2>2, <2>5, Commands DEF CheckedOf
    <3> HIDE DEF p
    <3>2. CASE x.op.kind = "create"
      <4> DEFINE next == [rank EXCEPT ![id] = rank[p] + 1]
      <4>1. row[p].version > 0 /\ row[id].version = 0
        BY <1>1, <3>1, <3>2 DEF Climbs, Held
      <4>2. p # id
        BY <4>1
      <4>3. next \in [Folder -> Nat] /\ next[id] = rank[p] + 1
            /\ \A g \in Folder \ {id} : next[g] = rank[g]
        BY <2>5, <3>1
      <4>4. ASSUME NEW g \in Folder \ {id}, row[g].parent # None
            PROVE  row[g].parent # id
        <5>1. g \in Item /\ Exists(g)
          BY <1>2, <4>4 DEF IInv, Exists, Absent
        <5>2. Exists(row[g].parent)
          BY <4>4, <5>1 DEF IInv, ForeignKeys, Refs
        <5> QED
          BY <4>1, <5>2 DEF Exists
      <4> HIDE DEF next
      <4>5. ASSUME NEW g \in Folder, row'[g].parent # None
            PROVE  next[row'[g].parent] < next[g]
        <5>1. CASE g = id
          BY <2>3, <3>1, <4>2, <4>3, <5>1 DEF p
        <5>2. CASE g # id
          <6>1. row'[g] = row[g] /\ row[g].parent \in Folder /\ row[g].parent # id
            BY <1>2, <2>3, <4>4, <4>5, <5>2 DEF RowState
          <6>2. rank[row[g].parent] < rank[g]
            BY <1>4, <4>5, <6>1 DEF Descends
          <6> QED
            BY <4>3, <5>2, <6>1, <6>2
        <5> QED
          BY <5>1, <5>2
      <4>6. Descends(next, row')
        BY <4>5 DEF Descends
      <4> QED
        BY <4>3, <4>6 DEF Ranked
    <3>3. CASE x.op.kind = "update"
      <4>1. PICK V \in SUBSET Folder : Climbed(x, V, None, row)
        BY <1>1, <2>5, <3>1, <3>3 DEF Climbs
      <4>2. p \in V /\ id \notin V /\ \A g \in V : row[g].parent \in V \cup {None}
        BY <3>1, <4>1 DEF Climbed
      <4> DEFINE next == [g \in Folder |-> IF g \in V THEN rank[g] ELSE rank[g] + rank[p] + 1]
      <4>3. next \in [Folder -> Nat]
        BY <3>1
      <4>4. ASSUME NEW g \in Folder, row'[g].parent # None
            PROVE  next[row'[g].parent] < next[g]
        <5>1. CASE g = id
          <6>1. row'[g].parent = p /\ next[p] = rank[p] /\ next[g] = rank[g] + rank[p] + 1
            BY <2>3, <3>1, <4>2, <5>1 DEF p
          <6>2. rank[p] \in Nat /\ rank[g] \in Nat
            BY <3>1
          <6> HIDE DEF next
          <6> QED
            BY <6>1, <6>2
        <5>2. CASE g # id
          <6> DEFINE h == row[g].parent
          <6>1. row'[g] = row[g] /\ h \in Folder
            BY <1>2, <2>3, <4>4, <5>2 DEF RowState
          <6>2. rank[h] < rank[g] /\ rank[h] \in Nat /\ rank[g] \in Nat /\ rank[p] \in Nat
            BY <1>4, <3>1, <4>4, <6>1 DEF Descends
          <6>3. g \in V => h \in V
            BY <4>2, <4>4, <6>1
          <6>4. /\ next[h] = IF h \in V THEN rank[h] ELSE rank[h] + rank[p] + 1
                /\ next[g] = IF g \in V THEN rank[g] ELSE rank[g] + rank[p] + 1
            BY <6>1
          <6> HIDE DEF next, h
          <6>5. next[h] < next[g]
            BY <6>2, <6>3, <6>4
          <6> QED
            BY <6>1, <6>5 DEF h
        <5> QED
          BY <5>1, <5>2
      <4> HIDE DEF next
      <4>5. Descends(next, row')
        BY <4>4 DEF Descends
      <4> QED
        BY <4>3, <4>5 DEF Ranked
    <3> QED
      BY <1>1, <1>7, <3>2, <3>3
  <2> QED
    BY <2>4, <2>5
<1> QED
  BY <1>6, <1>7
LEMMA InitClimb ==
  ASSUME Init
  PROVE  CInv
<1> DEFINE rank == [g \in Folder |-> 0]
<1>1. rank \in [Folder -> Nat]
  OBVIOUS
<1>2. Descends(rank, row)
  BY DEF Init, Descends, Absent, Item
<1>3. \A s \in Slot : Climbs(txn[s], row)
  BY IdleClimbs DEF Init
<1> HIDE DEF rank
<1> QED
  BY <1>1, <1>2, <1>3 DEF CInv, Ranked

LEMMA NextClimb ==
  ASSUME OneAtATime, Cardinality(Folder) <= WalkLimit, IInv, CInv, [Next]_vars
  PROVE  CInv'
<1>1. ASSUME NEW s \in Slot, (\E d \in Command : Begin(s, d)) \/ Statement(s) \/ Abort(s)
      PROVE  CInv'
  BY <1>1, BeginClimb, FindCurrentClimb, FindCollectionClimb, FindFolderClimb, WalkUpClimb,
     WriteClimb, DeleteStepsClimb, CommitClimb, RejectedClimb
  DEF Statement, Abort
<1>2. CASE UNCHANGED vars
  BY <1>2 DEF vars, CInv, Ranked
<1> QED
  BY <1>1, <1>2 DEF Next

LEMMA RanksRise ==
  ASSUME IInv, NEW rank \in [Folder -> Nat], Descends(rank, row), NEW f \in Folder
  PROVE  \A n \in 0 .. Cardinality(Folder) + 1 : \A g \in Level(f)[n] : rank[g] >= rank[f] + n
<1> DEFINE N == Cardinality(Folder)
           l == Level(f)
           Q == {n \in Nat : n <= N + 1 => \A g \in l[n] : rank[g] >= rank[f] + n}
<1>1. N \in Nat
  BY Kinds
<1>2. /\ l[0] = {f}
      /\ \A n \in 0 .. N + 1 : l[n] \subseteq Folder
      /\ \A n \in 0 .. N : l[n + 1] = Subfolders(l[n])
  BY Levels
<1> HIDE DEF N, l
<1>3. 0 \in Q
  BY <1>2
<1>4. ASSUME NEW n \in Nat, n \in Q
      PROVE  n + 1 \in Q
  <2> SUFFICES ASSUME n + 1 <= N + 1, NEW g \in l[n + 1]
               PROVE  rank[g] >= rank[f] + (n + 1)
    OBVIOUS
  <2>1. n \in 0 .. N /\ n \in 0 .. N + 1 /\ n <= N + 1
    BY <1>1
  <2>2. g \in Subfolders(l[n])
    BY <1>2, <2>1
  <2>3. g \in Folder /\ row[g].parent \in l[n] /\ row[g].parent \in Folder /\ row[g].parent # None
    BY <1>2, <2>1, <2>2, Kinds DEF Subfolders, Item
  <2>4. rank[row[g].parent] < rank[g] /\ rank[row[g].parent] >= rank[f] + n
    BY <1>4, <2>1, <2>3 DEF Descends
  <2>5. rank[row[g].parent] \in Nat /\ rank[g] \in Nat /\ rank[f] \in Nat
    BY <2>3
  <2> QED
    BY <2>4, <2>5
<1> HIDE DEF Q
<1>5. Nat \subseteq Q
  BY <1>3, <1>4, Induct
<1> QED
  BY <1>1, <1>5 DEF Q, l, N

\* One request at a time, and no more folders than assertParentFolder looks at ancestors:
\* going up from a folder never comes back to it.
THEOREM FoldersHaveNoCycles ==
  OneAtATime /\ Cardinality(Folder) <= WalkLimit => (Spec => []NoCycles)
<1> SUFFICES ASSUME OneAtATime, Cardinality(Folder) <= WalkLimit
             PROVE  Spec => []NoCycles
  OBVIOUS
<1>1. Init => IInv /\ CInv
  BY InitIInv, InitClimb
<1>2. IInv /\ CInv /\ [Next]_vars => IInv' /\ CInv'
  BY NextIInv, NextClimb
<1>3. IInv /\ CInv => NoCycles
  <2> SUFFICES ASSUME IInv, CInv, NEW f \in Folder, NEW n \in 1 .. Cardinality(Folder),
                      f \in Level(f)[n]
               PROVE  FALSE
    BY DEF NoCycles
  <2>1. PICK rank \in [Folder -> Nat] : Descends(rank, row)
    BY DEF CInv, Ranked
  <2>2. n \in 0 .. Cardinality(Folder) + 1 /\ n \in Nat /\ n > 0
    BY Kinds
  <2>3. rank[f] >= rank[f] + n
    BY <2>1, <2>2, RanksRise
  <2> QED
    BY <2>2, <2>3
<1> QED
  BY <1>1, <1>2, <1>3, PTL DEF Spec
=============================================================================
