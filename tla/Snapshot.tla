------------------------------ MODULE Snapshot ------------------------------
(***************************************************************************)
(* The first synchronisation of a desktop client: it downloads a snapshot  *)
(* page by page while others write, then pulls the log from the checkpoint *)
(* that was read before the first page.                                    *)
(*                                                                         *)
(* Every database statement of readSnapshotPage is a step.  A writer's     *)
(* transaction is one step: SyncLog shows that its row and its log entry   *)
(* appear together and in checkpoint order.  Ids are numbers, because pages *)
(* are ordered by id.  Folder and Request stand for the types of           *)
(* SNAPSHOT_ORDER whose order matters (a request may be in a folder),      *)
(* Global for the extension types a client has to declare.                 *)
(***************************************************************************)
EXTENDS Naturals, FiniteSets, Sequences

CONSTANTS
  Folder, Request, Global, \* ids, numbers from 1 on
  Change,     \* what writers do, of AllChanges
  Declared,   \* the client declares the extension features
  PageLimit,  \* `limit' of snapshot pages and pulls
  MaxVersion, MaxLog \* bounds: edits of an item, entries in the log

AllChanges == {"create", "edit", "moveSubtree", "deleteFolder", "delete"}
Id == Folder \cup Request \cup Global

ASSUME SnapshotAssumption ==
  /\ Id \subseteq Nat \ {0} /\ IsFiniteSet(Id)
  /\ Folder \cap Request = {} /\ Folder \cap Global = {} /\ Request \cap Global = {}
  /\ Change \subseteq AllChanges
  /\ Declared \in BOOLEAN
  /\ PageLimit \in Nat \ {0} /\ MaxVersion \in Nat /\ MaxLog \in Nat

VARIABLES
  row,   \* id -> version (0: no row) and parent folder (0: none)
  log,   \* the sync log; its length is the workspace's checkpoint
  page,  \* the snapshot request the server is working on
  phase, \* the client: "new", "paging", "pulling"
  cursor, \* the client's snapshot cursor: checkpoint c, type t, position a
  store, \* the client's replica, as row
  pulled \* the client's checkpoint

serverVars == <<row, log>>
clientVars == <<phase, cursor, store, pulled>>
vars == <<serverVars, page, clientVars>>

-----------------------------------------------------------------------------
NoRow == [version |-> 0, parent |-> 0]
Start == <<0, 0>>
NoCursor == [c |-> 0, t |-> 1, a |-> Start]
NoPage == [pc |-> "off", cur |-> NoCursor, buf |-> {}, found |-> {}]

Init ==
  /\ row = [i \in Id |-> NoRow]
  /\ log = <<>>
  /\ page = NoPage
  /\ phase = "new"
  /\ cursor = NoCursor
  /\ store = [i \in Id |-> NoRow]
  /\ pulled = 0

Exists(i) == row[i].version > 0

-----------------------------------------------------------------------------
(* The folder tree *)

\* Folders by distance from the root (a missing parent counts as the root).
Level ==
  LET children(S) == {f \in Folder : Exists(f) /\ row[f].parent \in S}
      level[n \in 0 .. Cardinality(Folder)] ==
        IF n = 0 THEN {f \in Folder : Exists(f) /\ (row[f].parent = 0 \/ ~Exists(row[f].parent))}
        ELSE children(level[n - 1])
  IN  level

Depth(f) == LET level == Level IN CHOOSE n \in DOMAIN level : f \in level[n]

\* i and everything inside it.
Subtree(i) ==
  LET inside[n \in 0 .. Cardinality(Folder) + 1] ==
        IF n = 0 THEN {i}
        ELSE inside[n - 1] \cup {j \in Id : Exists(j) /\ row[j].parent \in inside[n - 1]}
  IN  inside[Cardinality(Folder) + 1]

-----------------------------------------------------------------------------
(* Writers *)

Entry(i, op, r) == [id |-> i, op |-> op, version |-> r.version, parent |-> r.parent]

Upsert(i, parent) ==
  LET new == [version |-> row[i].version + 1, parent |-> parent] IN
  /\ new.version <= MaxVersion /\ Len(log) < MaxLog
  /\ parent # 0 => Exists(parent) /\ parent \notin Subtree(i)
  /\ row' = [row EXCEPT ![i] = new]
  /\ log' = Append(log, Entry(i, "upsert", new))
  /\ UNCHANGED <<page, clientVars>>

\* Only folders and requests are in folders.
Parents(i) == IF i \in Global THEN {0} ELSE {0} \cup Folder

Create(i) == ~Exists(i) /\ \E p \in Parents(i) : Upsert(i, p)

\* An edit may move the item.  A folder with subfolders takes them with it.
Edit(i) ==
  /\ Exists(i)
  /\ \E p \in Parents(i) :
       /\ (p # row[i].parent /\ Subtree(i) \cap Folder # {i} /\ i \in Folder)
            => "moveSubtree" \in Change
       /\ Upsert(i, p)

\* The cascade of deleteFolder, children first (ORDER BY depth DESC, id).
TombstoneBefore(i, j) ==
  \/ i \notin Folder /\ j \in Folder
  \/ i \in Folder /\ j \in Folder /\ Depth(i) > Depth(j)
  \/ (i \in Folder <=> j \in Folder) /\ (i \in Folder => Depth(i) = Depth(j)) /\ i < j

\* The k-th of S has k - 1 others before it.
Tombstones(S) ==
  [k \in 1 .. Cardinality(S) |->
     LET j == CHOOSE x \in S : Cardinality({y \in S : TombstoneBefore(y, x)}) = k - 1
     IN  Entry(j, "delete", row[j])]

Delete(i) ==
  /\ Exists(i)
  /\ Len(log) + Cardinality(Subtree(i)) <= MaxLog
  /\ row' = [j \in Id |-> IF j \in Subtree(i) THEN NoRow ELSE row[j]]
  /\ log' = log \o Tombstones(Subtree(i))
  /\ UNCHANGED <<page, clientVars>>

Writer ==
  \E i \in Id :
    \/ "create" \in Change /\ Create(i)
    \/ "edit" \in Change /\ Edit(i)
    \/ (IF i \in Folder THEN "deleteFolder" ELSE "delete") \in Change /\ Delete(i)

-----------------------------------------------------------------------------
(* readSnapshotPage *)

SNAPSHOT_ORDER == <<Folder, Request, Global>>
Type == SNAPSHOT_ORDER[page.cur.t]
typeVisible(ids) == ids = Global => Declared

Earlier(p, q) == p[1] < q[1] \/ (p[1] = q[1] /\ p[2] < q[2])

\* Keyset position of every row of a type: (depth, id) for folders, else id.
Positions(ids) ==
  IF ids = Folder
  THEN LET level == Level IN UNION {{n} \X level[n] : n \in DOMAIN level}
  ELSE {0} \X {i \in ids : Exists(i)}

First(n, S) == {p \in S : Cardinality({q \in S : Earlier(q, p)}) < n}
LastOf(S) == CHOOSE p \in S : \A q \in S : ~Earlier(p, q)

After(a, ids) == {p \in Positions(ids) : Earlier(a, p)}
Remaining == PageLimit - Cardinality(page.buf)

\* The first request of a snapshot has no cursor: the checkpoint is read now.
FirstPage ==
  /\ phase = "new" /\ page.pc = "off"
  /\ page' = [NoPage EXCEPT !.pc = "fetch", !.cur.c = Len(log)]
  /\ UNCHANGED <<serverVars, clientVars>>

NextPage ==
  /\ phase = "paging" /\ page.pc = "off"
  /\ page' = [NoPage EXCEPT !.pc = "fetch", !.cur = cursor]
  /\ UNCHANGED <<serverVars, clientVars>>

NextType == [page.cur EXCEPT !.t = @ + 1, !.a = Start]

\* A type the client did not declare is left out.
SkipType ==
  /\ page.pc = "fetch" /\ page.cur.t <= Len(SNAPSHOT_ORDER)
  /\ ~typeVisible(Type)
  /\ page' = [page EXCEPT !.cur = NextType]
  /\ UNCHANGED <<serverVars, clientVars>>

\* The page is full: it is the last one unless some row is left.
Peek ==
  /\ page.pc = "fetch" /\ page.cur.t <= Len(SNAPSHOT_ORDER)
  /\ typeVisible(Type) /\ Remaining = 0
  /\ page' = IF After(page.cur.a, Type) # {} THEN [page EXCEPT !.pc = "more"]
             ELSE [page EXCEPT !.cur = NextType]
  /\ UNCHANGED <<serverVars, clientVars>>

\* Rows read, in order: put at most Remaining of them on the page, or fewer (but
\* at least one entity on a page) when the byte cap is reached.  One row more
\* than that was asked for, to know whether the type goes on after this page.
Fill(found) ==
  LET want == First(Remaining, found)
      put(S) == {[id |-> p[2], state |-> row[p[2]]] : p \in S}
      at(S) == [page.cur EXCEPT !.a = IF S = {} THEN @ ELSE LastOf(S)]
  IN \/ page' = [page EXCEPT !.buf = @ \cup put(want), !.found = {},
                   !.pc  = IF Cardinality(found) > Remaining THEN "more" ELSE "fetch",
                   !.cur = IF Cardinality(found) > Remaining THEN at(want) ELSE NextType]
     \/ \E n \in 0 .. Cardinality(want) - 1 :
          /\ n + Cardinality(page.buf) > 0
          /\ page' = [page EXCEPT !.buf = @ \cup put(First(n, want)), !.found = {},
                        !.pc = "more", !.cur = at(First(n, want))]

\* One statement reads the rows of a flat type ...
FetchRows ==
  /\ page.pc = "fetch" /\ page.cur.t <= Len(SNAPSHOT_ORDER)
  /\ typeVisible(Type) /\ Remaining > 0 /\ Type # Folder
  /\ Fill(First(Remaining + 1, After(page.cur.a, Type)))
  /\ UNCHANGED <<serverVars, clientVars>>

\* ... for folders one finds the order (depth, id) and the next reads the rows.
FetchFolderOrder ==
  /\ page.pc = "fetch" /\ page.cur.t <= Len(SNAPSHOT_ORDER)
  /\ Remaining > 0 /\ Type = Folder
  /\ page' = [page EXCEPT !.pc = "rows",
                          !.found = First(Remaining + 1, After(page.cur.a, Folder))]
  /\ UNCHANGED <<serverVars, clientVars>>

FetchFolderRows ==
  /\ page.pc = "rows"
  /\ Fill({p \in page.found : Exists(p[2])})
  /\ UNCHANGED <<serverVars, clientVars>>

-----------------------------------------------------------------------------
(* The client *)

\* It keeps what is newer than what it holds.
Newer(S) ==
  [i \in Id |->
     IF \E e \in S : e.id = i /\ e.state.version > store[i].version
     THEN (CHOOSE e \in S : e.id = i).state ELSE store[i]]

LastPage == page.pc = "fetch" /\ page.cur.t > Len(SNAPSHOT_ORDER)

\* Mutant: the checkpoint is the one of the last page, not of the first.
ReceivePage_lateCheckpoint ==
  /\ page.pc = "more" \/ LastPage
  /\ store' = Newer(page.buf)
  /\ IF LastPage
     THEN phase' = "pulling" /\ pulled' = Len(log) /\ cursor' = NoCursor
     ELSE phase' = "paging" /\ pulled' = pulled /\ cursor' = page.cur
  /\ page' = NoPage
  /\ UNCHANGED serverVars

\* A page arrives.  After the last one the client pulls from its checkpoint.
ReceivePage ==
  /\ page.pc = "more" \/ LastPage
  /\ store' = Newer(page.buf)
  /\ IF LastPage
     THEN phase' = "pulling" /\ pulled' = page.cur.c /\ cursor' = NoCursor
     ELSE phase' = "paging" /\ pulled' = pulled /\ cursor' = page.cur
  /\ page' = NoPage
  /\ UNCHANGED serverVars

\* The answer is lost: the client asks again with the cursor it has.
LosePage ==
  /\ page.pc # "off"
  /\ page' = NoPage
  /\ UNCHANGED <<serverVars, clientVars>>

\* One pulled operation: deletes always, upserts only when newer.
Apply(e, s) ==
  IF e.op = "delete" THEN [s EXCEPT ![e.id] = NoRow]
  ELSE IF e.version > s[e.id].version
       THEN [s EXCEPT ![e.id] = [version |-> e.version, parent |-> e.parent]] ELSE s

\* An entry of a page of the log: those of undeclared types are left out of it.
Delivered(e, s) == IF e.id \in Global => Declared THEN Apply(e, s) ELSE s

\* The replica after it has applied the entries from + 1 to last, one by one.
Applied(from, last) ==
  LET s[n \in from .. last] == IF n = from THEN store ELSE Delivered(log[n], s[n - 1])
  IN  s[last]

\* Mutant: seq >= checkpoint, so that an entry is given again.
Pull_inclusive ==
  /\ phase = "pulling" /\ page.pc = "off"
  /\ \E n \in 0 .. PageLimit :
       /\ pulled + n <= Len(log)
       /\ n = 0 => pulled = Len(log)
       /\ pulled' = pulled + n
       /\ store' = Applied(IF pulled = 0 THEN 0 ELSE pulled - 1, pulled + n)
  /\ UNCHANGED <<serverVars, page, phase, cursor>>

\* A page of the log; the checkpoint moves past the entries that are left out.
Pull ==
  /\ phase = "pulling" /\ page.pc = "off"
  /\ \E n \in 0 .. PageLimit :
       /\ pulled + n <= Len(log)
       /\ n = 0 => pulled = Len(log)
       /\ pulled' = pulled + n
       /\ store' = Applied(pulled, pulled + n)
  /\ UNCHANGED <<serverVars, page, phase, cursor>>

-----------------------------------------------------------------------------
ServerStep == SkipType \/ Peek \/ FetchRows \/ FetchFolderOrder \/ FetchFolderRows
ClientStep == FirstPage \/ NextPage \/ ReceivePage \/ LosePage \/ Pull

Next == Writer \/ ServerStep \/ ClientStep

Spec == Init /\ [][Next]_vars

-----------------------------------------------------------------------------
(* Properties *)

State == [version: 0 .. MaxVersion, parent: Folder \cup {0}]
Position == (0 .. Cardinality(Folder)) \X (Id \cup {0})
Cursor == [c: 0 .. MaxLog, t: 1 .. Len(SNAPSHOT_ORDER) + 1, a: Position]

TypeOK ==
  /\ row \in [Id -> State] /\ store \in [Id -> State]
  /\ log \in Seq([id: Id, op: {"upsert", "delete"}, version: 1 .. MaxVersion,
                  parent: Folder \cup {0}])
  /\ page.pc \in {"off", "fetch", "rows", "more"}
  /\ page.cur \in Cursor /\ cursor \in Cursor
  /\ page.buf \subseteq [id: Id, state: State] /\ Cardinality(page.buf) <= PageLimit
  /\ page.found \subseteq Position
  /\ phase \in {"new", "paging", "pulling"} /\ pulled \in 0 .. Len(log)

Seen(s) == [i \in Id |-> IF i \in Global /\ ~Declared THEN NoRow ELSE s[i]]

\* A client that has pulled to the end after its snapshot holds exactly what the
\* server holds, whatever was written while it downloaded ("anything written
\* after this point is replayed by the follow-up pull").
SnapshotConverges ==
  phase = "pulling" /\ pulled = Len(log) => store = Seen(row)

\* The client never goes back: what it holds of an item is replaced only by a
\* newer version, or dropped because the log deletes it.
ReplicaMovesForward ==
  [][\A i \in Id :
       \/ store'[i].version >= store[i].version
       \/ \E n \in pulled + 1 .. pulled' : log[n].id = i /\ log[n].op = "delete"]_vars
=============================================================================
