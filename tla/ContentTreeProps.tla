-------------------------- MODULE ContentTreeProps --------------------------
(***************************************************************************)
(* What the content tree and its tombstones promise.                       *)
(***************************************************************************)
EXTENDS ContentTree

RowState == [version: 0 .. MaxVersion, coll: Collection \cup {None},
             parent: Folder \cup {None}]

\* Rows, log entries and transactions have the shapes the code gives them.
TypeOK ==
  /\ row \in [Item -> RowState]
  /\ logged \in [Item -> [op: {"none", "upsert", "delete"}, state: RowState]]
  /\ txn \in [Slot ->
       [pc: {"idle", "collection", "current", "target", "placement", "walk", "write",
             "folders", "requests", "delete", "commit"},
        op: Command \cup {NoCommand}, expected: 0 .. MaxVersion, cur: RowState,
        at: Folder \cup {None}, steps: 0 .. WalkLimit,
        folders: SUBSET [id: Folder, depth: 0 .. Cardinality(Folder)],
        requests: SUBSET Request, gone: SUBSET Item]]

Live == {i \in Item : Exists(i)}

\* A request or folder inside a folder is in that folder's collection
\* (assertRequestFolder and assertParentFolder check it before the write).
InItsFoldersCollection ==
  \A i \in Live : row[i].parent # None => row[row[i].parent].coll = row[i].coll

\* assertParentFolder: "make sure `selfId' is not an ancestor of the new parent
\* (no cycles)".  Going up from a folder never comes back to it.
NoCycles == \A f \in Folder : f \notin UNION {Level(f)[n] : n \in 1 .. Cardinality(Folder)}

\* "Every delete, including cascaded ones, has its own tombstone entry": no item
\* is gone whose last entry in the log is an upsert.
EveryDeleteHasTombstone == \A i \in Item : logged[i].op = "upsert" => i \in Live

\* The last upsert of an item carries the place and version it has.
LastEntryIsTheRow == \A i \in Item : logged[i].op = "upsert" => logged[i].state = row[i]

\* What a replica that has pulled everything up to here, and then the first k
\* groups of slot s's tombstones, has dropped of them and believes to be alive.
Dropped(s, k) == UNION {Tombstones(s)[j] : j \in 1 .. k}
Replica(s, k) == {i \in Item : logged[i].op = "upsert"} \ Dropped(s, k)

\* The folder i of a collection that is deleted has a tombstone in the same delete.
FolderToBeDropped(s, i) ==
  Op(s).id \in Collection /\ i \in Folder /\ i \in Dropped(s, Len(Tombstones(s)))

\* Children first: wherever inside a delete's entries a page of `pull' ends, the
\* replica has the folder and the collection of every item it still holds.  In
\* deleteFolder (depth DESC) this has no exception.  deleteCollection logs its
\* folders by id, parents maybe before children: there a folder may be without
\* its parent until its own tombstone, but no request ever is, and none stays so.
OrphansOnlyInPassing ==
  \A s \in Slot : txn[s].pc = "commit" /\ Op(s).kind = "delete" =>
    \A k \in DOMAIN Tombstones(s) : \A i \in Replica(s, k) :
      \/ {logged[i].state.coll, logged[i].state.parent} \ {None} \subseteq Replica(s, k)
      \/ FolderToBeDropped(s, i)
=============================================================================
