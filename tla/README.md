# Slinger Cloud in TLA+

Models, model checking and proofs for the Slinger Cloud server (`src/server`, Fastify + Prisma + PostgreSQL) and the state of
its admin dashboard (`src/admin-dashboard`, Svelte). Desktop clients keep a workspace's collections, folders, requests,
environments and variables offline and synchronise them with the server; the dashboard and the REST API change the same rows.
What is hard to test is what happens between them: transactions at READ COMMITTED that interleave statement by statement,
operations that are sent twice, pages read while others write, rows looked up in one transaction and used in another, answers
that reach a browser late, out of order or not at all.

`PROJECT.json` lists components, runs, mutants, hazards, theorems and the source lines of every definition. Run a model with
`tlc -config X.cfg M` (M is the `MC` module of the component), the proofs of a component with `tlapm XProofs.tla`.

## 1. The system

The last column says where a component is modelled.

| Component | State | Operations | Talks to | Hard part | What makes it correct | Module |
|---|---|---|---|---|---|---|
| Sync log, push, pull (`routes/sync.ts`, `services/syncApply.ts`, `syncLog.ts`, `lib/versioned.ts`) | rows with a `version`; `workspaces.syncCheckpoint`; `sync_operations` | push a batch (one transaction per operation), REST writes, pull a page | every service that writes content calls `recordChange`; the client pulls | commit order against checkpoint order, replays, lost answers, lost updates, lock waits | checkpoints appear in order without gaps; an operation is applied once; no update is lost; the log ends in the rows | `SyncLog`, `ChangeFeed` |
| Content tree (`services/content.ts`) | collections, folders with parents, requests with folders; foreign keys that cascade | create, edit, move, delete | the sync log; snapshot | checks by separate reads (folder, ancestors, descendants) before the write; cascades | forest; one collection per subtree; a tombstone for all that goes, so that no item stays in a replica without its parent | `ContentTree` |
| Environments, variables, collection versions (`services/content.ts`, `routes/content.ts`) | rows with a key in a parent; secrets encrypted, without value in sync | push and delete by id, put and delete by key | the sync log; the workspace's deletion | a value is kept as it was read while it may be replaced; lookups by id, deletes by key | secrets stay sealed and are never told; a push without a value takes none away | `Variables`, `Workspaces` |
| Snapshot (`services/syncSnapshot.ts`, `syncFeatures.ts`) | none on the server; cursor with checkpoint, type and position at the client | read a page | reads what others write; the pull follows | pages of a changing set, ordered by a key that moves | after snapshot and pull the client has what the server has | `Snapshot`, `SnapshotProofs` |
| Membership (`routes/membership.ts`, `services/members.ts`) | memberships, invites, join requests | add, change role, remove, revoke, ask, approve, reject, claim | sign-in and account creation claim invites | two deciders, a decider and a sign-in, reads before the transaction | the owner stays; decisions are final; no member without a grant | `Membership` |
| Device login (`routes/auth.ts`, `devicePage.ts`, `auth/tokens.ts`, `routes/me.ts`) | device flows, refresh tokens, users | start, approve, poll, refresh, logout; password change and reset, disabling; expiry, sweep | the desktop polls and refreshes; the dashboard approves | two polls or refreshes at once, expiry in between, crash between claim and issue | each flow and token is exchanged once, whole, for the approver | `DeviceLogin` |
| Browser sign-in and sessions (`auth/*`, `routes/auth.ts`, `me.ts`; `api/client.ts`, `state/session.svelte.ts`) | sessions, `tokenVersion`; the browser's cookie; each tab's user, CSRF token, status | sign in, reload, sign out, change password, authenticate, expire | every route; tabs share a cookie | the account is read at the start of a request; a tab does not see that its browser signed in anew; late answers | what a tab sends is done in the name it shows; revoked sign-ins leave no session | `Session` |
| Platform administration (`routes/admin.ts`, `bootstrap.ts`, `UsersPage.svelte`) | users | create, edit, reset, disable | membership, tokens, sessions | target and caller read before the transaction; what the page offers is older than what the route checks | what is offered is allowed; revocation is complete | `Session`, `Listing` |
| Hosts (`routes/hosts.ts`) | bindings; `workspaces.hostMode` derived from them | bind, verify by DNS, remove | DNS resolver | derived value written by concurrent transactions; DNS wait between read and write | an active custom domain was proven; hostMode is the kind of the newest active binding | `Hosts`, `Workspaces` |
| Workspaces (`routes/workspaces.ts`) | settings with a version | create, edit, delete | membership, hosts, content | deletion beside requests under way | created with its owner; all goes with it | `Workspaces` (deletion, lookup by host) |
| Listings (`lib/pagination.ts`, `state/paginator.svelte.ts`, the pages with lists) | none on the server; items, cursor, generation, busy flags in the page | page by keyset, search, load more, change rows in place | HTTP; other people's changes | rows inserted meanwhile; late and superseded answers | no row twice, none missed, shown as saved, never busy for nothing | `Listing` |
| Rate limiting (`lib/rateLimitStore.ts`) | buckets | hit, sweep | sync and credential routes | window ends, eviction | the count of a window is exact | |
| Audit log, realtime token, health, OpenAPI, configuration, static files, router, deployment | written once, or none | | | | | |

The components meet in four places: `recordChange` (every content write ends in it, inside the writer's transaction), the
cascading foreign keys, the claim of invites (run inside sign-in, poll and account creation), and the revocation of
credentials (`revokeAllUserCredentials`: sessions in `Session`, refresh tokens in `DeviceLogin`).

## 2. Modules

| Module | Models | Notes |
|---|---|---|
| `ChangeFeed` | what clients may rely on: an append-only feed, one entry per operation, given to each reader in order | abstract specification of the sync log |
| `SyncLog`, `SyncLogProps`, `SyncLogProofs` | push, REST writes, `recordChange`, pull | one variable per table or cursor, one action per SQL statement; `IInv`, the mapping to `ChangeFeed`, fairness in `SyncLogProps` |
| `ContentTree`, `ContentTreeProps`, `ContentTreeProofs` | collections, folders and requests, foreign keys, tombstones | |
| `Snapshot` | the paged snapshot and the pull after it, with its properties | |
| `Tables` | rows by key, and a table with a transaction's rows in it | used by the next two |
| `Membership`, `MembershipProps`, `MembershipProofs` | members, invites, join requests | |
| `DeviceLogin`, `DeviceLoginProps`, `DeviceLoginProofs` | device flows, refresh tokens, accounts | |
| `Session`, `SessionProps`, `SessionProofs` | tabs, cookies, sessions, accounts and who may change them | server and dashboard composed |
| `Hosts` | host bindings, DNS, hostMode | |
| `Variables` | variables of the three scopes and collection versions | |
| `Workspaces`, `WorkspacesProps`, `WorkspacesProofs` | `Hosts` and `Variables` in one workspace, and its deletion | composition |
| `Listing`, `ListingProps`, `ListingProofs` | a list page of the dashboard and the table behind it | server and dashboard composed |
| `MC*` | command sets and symmetry for TLC | |

### How a transaction is modelled

A server request runs in a *slot*; the number of slots bounds the requests in progress, not what they can do. Every SQL
statement whose result or effect another request can see is a step, so that the statements of different slots interleave.
A statement reads what is committed and its own transaction's writes. Rows written and not committed are invisible to others
and locked: a statement that would write them waits. An `updateMany` or `UPDATE ... WHERE version = ...` that has waited
looks again, as PostgreSQL does. A transaction may end at any step (`Abort`: crash, lost connection, Prisma's timeout, deadlock
victim), leaving nothing. A lost answer leaves everything, and the client may send the same again.

In the browser, a handler up to its `await` is one step and what it does with the answer another. Answers come in any order
or never.

- **SyncLog.** `rows`, `checkpoint` and `log` are the tables; `pc`, `op`, `ver`, `holds` and `seq` a request's control point
  and locals. `ReplayLookup -> ReadCurrent -> (CheckIdTaken -> Insert | Update | Reread -> Delete) -> recordChange -> Commit`
  follows the push handler, `applyOperation` and the content service; `UniqueViolation -> ReplayRelookup` is the handler's
  catch. `RestOp` operations start at `ReadCurrent` and create fresh ids. All resource types without children are one kind of
  row. Payloads are the operation that wrote them. `sent`, `seen` and `answers` are history for the properties. A batch is a
  slot that works on its operations one after the other: nothing is carried from one to the next.
- **ContentTree.** `row` is the three tables, `logged` the last entry of each item, `txn` what a request has read.
  `FindCurrent`, `FindCollection`, `FindFolder` and each round of `WalkUp` are reads of their own; `ListFolders` and
  `ListRequests` what a delete collects before its DELETE; `Cascade` the foreign keys. Left out: the write, its log
  entries and the commit are one step where nothing of the transaction can be seen in between (SyncLog has them apart), and
  the locks of a cascade are taken at once. `Tombstones` is the order of a delete's entries, in groups: requests, folders by their
  `Turn`, the deleted item. `deleteFolder` sorts by depth, deepest first (`content.ts:375`), `deleteCollection` by id
  (`content.ts:291`, `301`), whatever is in what: `IdOrder` is that order, and the folders go one by one. `Contents` is what one level of a cascade takes along. `CommandAssumption` says what the schemas let
  through: a collection is in nothing, what is created goes into a collection, only requests change theirs. `ReuseIds` tells
  whether an id may be created again after its delete.
- **Snapshot.** `FirstPage`/`NextPage`, `Peek`, `FetchRows`, `FetchFolderOrder` and `FetchFolderRows` are the statements of
  `readSnapshotPage`; `Fill` decides where a page ends (limit, row read ahead, byte cap as a choice). Pages may be lost and
  asked for again. A writer is one step, because SyncLog shows that a row and its log entry appear together. `Tombstones`
  puts what a delete takes along in the order of its log entries, children first (only folders are deleted there with what is in them, not collections); `Applied` is the client's loop over a page of
  the log.
- **Membership.** `db` holds accounts, memberships, invites and requests, `txn[s].writes` a transaction's rows. The role
  check (`authorizeWorkspace`) is at the start of a request, outside its transaction, and so may be stale afterwards.
  `assertCanGrant` refuses roles above the caller's. `MembershipAssumption` says which commands the routes' schemas let through. A platform admin who is no member is the actor `None`. The browser's
  sign-in claims invites after its session is written; a poll claims them in the transaction that issues tokens; both are
  `signIn` here. Invites of an older release may expire. Left out: the audit log, who added whom, deleting the workspace.
- **DeviceLogin.** A flow is `pending`, `approved` or `consumed`; whether its time is over is a flag apart, as in the code
  (`expiresAt` is looked at by the read, not by the UPDATE). `Poll` and `Refresh` begin with their read and go on to
  a claim (`ConsumeFlow`, `RotateToken`) and `issueTokenPair` in one transaction. `from`, the flow or token a token was
  issued for, and `login`, the flow at the beginning of that chain, are history. Left out: browser sessions (Session), access tokens, and the claim of invites in a poll
  (Membership).
- **Session.** `account` and `sessions` are the tables, `cookie` what each browser holds, `tabs` the session store and HTTP
  client of each tab, `calls` the requests under way, each with the cookie and the CSRF token it left with and `as`, whom
  its tab showed then. Authentication, a handler's reads before its transaction, the transaction, and the answer are steps of
  their own. The kinds of call are sign-in, reload (`GET session`), sign-out, password change, reads, and the creations and
  changes the Users page offers to the role it shows. Passwords are numbers, a CSRF token is its session's number. `late`
  marks a session made after a revocation by a sign-in verified before it.
- **Hosts, Variables, Workspaces.** A host transaction writes its binding, reads the newest active one and writes
  `hostMode`; `Verify` reads the binding and its token, `DnsAnswer` is any time later, `Activate` the transaction. What the
  owner of a domain publishes is external. `Variables` is one table at a time (`scope`), with reads that are steps of their
  own and the write and commit one step; the log, replays and checkpoint are those of SyncLog. `Workspaces` runs both and
  deletes the workspace. `proven`, `drifted`, `lives` and `life` are history.
- **Listing.** `rows` is the table, `pager` the `Paginator`, `net` the pages and `calls` the changes under way. `AllPages`
  lists the pages with their order, search and operations, and what each operation does at the server (`effect`) and to the
  list after its answer (`edit`). `InOrder` and `Sorted` are ORDER BY: the k-th row has k - 1 before it. A generation tells an answer that is still wanted from one that is not. `base`, `overlap`
  and `lost` are history.

## 3. Runs

Every passing run explores its whole state space; each property has a mutant of the code (an operator `X_mutation` beside
`X`) under which it fails.

| Run | Question | Instance |
|---|---|---|
| `SyncLog_upserts` | concurrent edits, replays, crashes, pulls; does every request end? | two slots, one client, two pushed operations (either may be sent again) and a REST edit, creating and updating two rows; pages of one operation; fairness in section 4 |
| `SyncLog_deletes` | deletes and re-creation of an id, racing | two slots, one client, three pushed operations and one REST write or delete on one row; pages of two |
| `SyncLog_replay_rejected` | *violated*: "pushes are idempotent" for a replay that overlaps with the original | |
| `ContentTree_serial` | every operation, one request at a time, ids used again after a delete | two collections, three folders, one request |
| `ContentTree_moves` | two requests that create, move and delete folders and requests | two collections, two folders, one request, ids not reused |
| `ContentTree_cycle` | *violated*: no cycles, with two concurrent moves | two folders |
| `Snapshot_paged` | pages of one row, flat folders and requests written at any moment, pages lost, an undeclared type | four ids, four log entries |
| `Membership` | two requests, any kind, about the owner and one other person | two invites (one legacy), one join request, three changes of a row |
| `DeviceLogin` | two requests, any kind, with expiry and the sweep in between | one flow, three tokens, two people |
| `Session` | sign-ins, password changes and administration in several tabs, with answers late or lost | three tabs in two browsers, a super admin, a platform admin and a newcomer; four calls, two under way |
| `Workspaces` | host bindings and rows with keys changed at the same time, until the workspace goes | two slots of each, a shared and an own name, three bindings; each of the four tables, two ids, two keys |
| `Listing` | loads, searches, further pages and changes of rows, answered in any order or not | every page; three rows, pages of one, two loads, two changes of one's own and one by others |

**Why the bounds are enough to be interesting.** Two slots already give every pairwise race, and the state a third party
needs is there as well: a client that pulls, a sign-in, the sweep, the clock, a second tab. Three tokens allow a refresh of a
refresh and two refreshes of one token. Three folders allow a child, a parent and a place to move to. Four calls in `Session` are
two sign-ins and the two changes that meet them, three tabs in two browsers a shared cookie and another one. `Budget`,
`HostCost` and `RowCost` let TLC run four requests about hosts, or three about rows, or a mix, so that what the two halves do
to each other is covered without the product of both. Pages of one row and three rows let an order be disturbed in front,
behind and at the cursor; two loads are a search that supersedes another. `MaxVersion`, `MaxLog`, `WalkLimit`, `MaxCalls`,
`MaxTime` and the sets of ids only stop the models from counting on; `WalkLimit` stands for the 1000 of `content.ts:323` and is
never reached, which leaves the answer for deeper trees open. What the proofs cover holds without any bound.

**What the runs show.** Under all interleavings of two writers: the committed log is 1, 2, ..., checkpoint whatever the commit
order, pulls skip nothing, an operation is applied once, an accepted answer is true, a row is what its last upsert says, no edit is
lost, every request ends, and the whole implements `ChangeFeed`. Where two writers race in the tree, nothing is in a folder of
another collection. A client that pages through a snapshot while rows are created, edited and deleted (without moves
and without nested deletes) converges. Owners stay, invites and join requests are decided once and whole. Logins are given out
once, to the approver, and never half. Nothing is done in the name of another account than the tab shows, a revoked
sign-in leaves no session, and the server does not refuse what the Users page offers but for roles that changed since. No custom
domain leads anywhere before its owner has shown the token, hostMode follows the bindings, secrets stay encrypted, and a
push that brings no value takes none away. A list is never busy for nothing, misses no row when read to its end, and shows
confirmed changes.

Some properties name a case they leave out, each because the code does let it happen: `HostModeFollows` transactions that overlapped,
`SessionsAreCurrent` a sign-in verified before the revocation, `NoRowTwice` lists that are oldest first and changes that
overlap with a load, `PushKeepsValue` rows made again. Section 6 has them.

## 4. Fairness

`SyncLog_upserts` assumes strong fairness of `Statement(s)` for each slot (`FairSpec`), and nothing else: PostgreSQL runs a
statement that can run and queues the transactions that wait for a lock, so a transaction is not passed over for ever. Weak
fairness would not do, since the lock a statement waits for may be taken again and again by others. Clients need not send or pull,
and no crash has to happen. `RequestsEnd` then says that no two requests wait for each other: every writer takes its row before the
workspace row. The other specifications state no fairness: a network answer or a DNS query may never come, and nothing is
claimed to happen.

## 5. Proofs

The theorems hold for all values of the constants that satisfy the assumption of their module (`SyncLogAssumption`,
`MembershipAssumption`, ...). Some hold under a hypothesis, which is written in the theorem and is a mode of operation that the
runs have as well: where it does not hold, section 6 says what the code does. None of the properties is inductive alone; each
module proves a stronger invariant, tried with TLC first where TLC can evaluate it, and the properties from it.

**`SyncLogProofs`** (`IInv`). `TypeCorrect`: the type invariant. `LogGapFree`, `PullIsComplete`, `PushAppliedOnce`,
`RowsFollowLog`, `AcceptedStaysLogged`: the log is gap-free, pulls skip nothing, operations are applied once, rows and accepted
answers are logged. `UpsertsLoseNothing`: no lost update. `FeedImplemented`: SyncLog implements `ChangeFeed`, initial states and steps.
`IInv` adds `LockDiscipline` and `PreparedWrite`, which say what the locks buy. That the log stays gap-free needs to know
that a transaction about to commit holds the only allocated checkpoint, the next one, and that its operation is not in the log (the
unique index on the operation id, looked at when the entry is inserted). That rows are logged needs to know that a prepared upsert
still replaces exactly its base version, because nobody else could write the row since. Each conjunct has a lemma per kind
of step (`GapFreeStep`, `PullStep`, `RowsStep`, `AcceptedStep`, the `...Discipline` lemmas): only `Commit` changes the tables
(`CommittedOnlyByCommit`), only `Pull` the clients. Two theorems have a hypothesis about the operations: `LogTellsTheData` that
nothing is deleted (two deletes and a re-creation may log the tombstone after the new row), `ReplaysAnswerAlike` that no desktop
pushes a delete (its answer is the version it read first, which a replay may not find again).

**`ContentTreeProofs`**, for trees of any size. `TypesHold` (`IInv`): rows, log entries and transactions are well-typed and
foreign keys hold, whatever interleaves: a transaction at its commit holds what it refers to, and no two of them overlap. The
others have hypotheses, because concurrent requests do break what they say:
- `FoldersKeepTogether` (`PlaceInv`; `Stable`: ids are not used again, or requests do not overlap): an item is in the collection
  of its folder. What a transaction looked up is what is there, or an older version of it; a folder never changes its collection.
- `DeletesAreLogged`, `RowsAreLogged`, `OrphansPass` (`SInv`; `OneAtATime`): the log tells the tree. What a delete lists level by level
  is closed under "is inside", and a cascade takes no more (`Closed`). In a deleted folder, what is inside something listed is
  listed deeper and goes before it; in a deleted collection it is listed, and so goes at some time (`Turns`).
- `FoldersHaveNoCycles` (`CInv`; `OneAtATime`, and no more folders than the ancestors that are looked at): there is a rank that
  grows towards the leaves (`Ranked`). The walk up collects a set of ancestors whose size is the number of steps, so the limit is
  not reached, and what is moved is not among them.

**`MembershipProofs`** (`MemberInv`, `TypeInv`). `CreatorStays`, `GrantsAreHonoured`, `DecidedOnce`, `NobodyJoinsUngranted`,
`RoleChangesAreSeen`, `TypesHold`: all properties of the run. What a transaction read outside the rows it holds
may be stale, except for what never changes: who a row is about, and that an account or a membership once existed. So the
invariant lets a transaction carry its evidence along (`Source`: the accepted invite, the approved request or the account
behind the membership it is about to write) and says that rows written are held by one transaction (`HeldByOne`), so that
what it looked at in the statement that wrote a row is still there at the commit. `CallKept` is the lemma that the commits of
others leave such knowledge true; one lemma for each statement says that it gathers no more than it may. For the types: a
pending row has its first version, and the role of a grant under way is a role.

**`DeviceLoginProofs`** (`ExchangeInv`, `LoginInv`). `ExchangedOnce`: no flow or token is exchanged twice. `ExchangesAreWhole`: a flow
is consumed together with the insertion of its token, or denied. A token is inserted by a transaction that holds the row it
exchanges and has marked it spent; a row that is held was not spent before, and one that is spent is never held again.
`LoginsAreSingle`, `TokensAreTheApprovers`, `TypesHold`: a login is one live token, of the approver. `LoginInv` says where a
token comes from (`Origin`): its flow was bound to its user, and its `login` is that flow. A live token comes from a row that
is spent, so that of one login only the last can be live; what a transaction wrote and did not commit is held by it.

**`SessionProofs`** (`Inv`, `CurrentInv`, `OfferInv`). `ChangesAreOnesOwn`: what a tab sends is done in the name it shows. A session never changes
hands; a tab's token is that of a session of the account it shows; a call carries the token its tab had with that account, and
the server compares it with the cookie's session. `RevokedSessionsEnd`: the sessions of an account that is disabled, reset or
given another password end. It needs that a sign-in under way whose account still has the
`tokenVersion` it read has verified the password that is current. `OffersAreAllowed`: a call carries the roles its tab saw when it was
offered, and these allow what it asks; the server refuses it only for roles that are others by then.

**`WorkspacesProofs`** (`ProvenInv`, `ModeInv`, `VarInv`). `ActiveDomainsAreProven`: a binding of a custom domain begins as pending, and
only a request whose query returned its token writes it as active. `ModeFollowsBindings`: a transaction that overlaps with no
other finds every binding committed and computes the mode from what it finds. `SecretsStaySealed` and `PushesKeepValues`: a row with a
secret has ciphertext, in the table and in what a request has read or is about to write; a push that read a row writes over the
same version or a later one, unless the row was made again since (`ReadOK`).

**`ListingProofs`**, for any rows, pages and limit. `TypesHold` (`TInv`). `BusyListsWait` (`BusyInv`): requests keep their kind and
generation; a step that takes a request of the current generation away ends the busy state, and one that goes to the next
generation sends its request. `ListsMissNothing` (`CoverInv`): of the rows that were there since the first page, those up to the
cursor are shown, and an answer has those from its cursor to the next (`PageIsRead`: the keyset's page and what comes after it are
all that was asked for). `ListsShowWhatIsSaved` (`SavedInv`) and `ListsShowRowsOnce` (`OnceInv`): while nothing overlaps
(`AloneInv`) a change meets no load; the row it puts in front is younger than the cursor, and all that is shown is before it.

**`SnapshotProofs`**, for any ids, page limit and number of pages.
- `ReplicasMoveForward` (`TInv`), whatever writers do: a page has an item once (types are walked in order, and each
  statement reads rows of one type), the client takes of it what is newer, and of the log what is newer or deleted, in order.
- `TypesHold` (`TInv`, `Tree`, `Bounds`), whatever writers do. `Tree`: the folders are a forest, that is, ranks exist that grow
  towards the leaves. A folder is created or moved below one that is not in its subtree, the subtree is closed (`SubtreeIsClosed`),
  so the moved ranks can be given anew; then depth is an order on what a cascade takes, and its tombstones are one for each.
- `SnapshotsConverge` (`ConvInv`; `Flat`: no folder is deleted or moved with subfolders). An item whose place is not after
  the cursor was put on a page in the state it has, or the log has touched it since the checkpoint of the first page, and the
  pull brings it (`Due`, `Behind`). A row found but not yet read is in `FoundInv`: what was found passes over nothing that the log
  will not bring, or more than the rest of the page was found. Under `Flat` a write changes no other item's place
  (`OthersStay`). A moved subtree changes the places of items the log does not name, and a folder deleted between the order and
  the rows of a page ends the page early: these are the two cases of section 6. `Flat` excludes all such writes, also those that
  do no harm (a subtree that moves down).

Where a definition is a recursive function (levels of a delete, ranks of a walk), its facts are proved by induction over a set of
numbers, stated set by set (`Induct`, `MinIn`), since the library's induction theorems take an operator.

**Only model-checked.** `RequestsEnd`: liveness under fairness is out of the prover's reach. Every other property of a passing run
is a theorem, some of them under the hypotheses above.

## 6. Known not to hold

Found while modelling; the first two are runs, the others are outside what the passing runs claim.

Sync and content:

- A replay that overlaps with its original may be **rejected** with a version mismatch or `id_in_use` instead of answered as
  before (`SyncLog_replay_rejected`).
- Two concurrent **moves**, each of one folder into the other, commit a cycle (`ContentTree_cycle`).
- A snapshot orders folders by depth (`syncSnapshot.ts:57-58`); a subtree that **moves up** between two pages can be passed
  over, and entries of the children are not in the log, since only the moved folder is. `MCSnapshot` has the writers for it,
  `MoveChanges`: with them `SnapshotConverges` fails.
- A folder **deleted between** the order and the rows of a page (`syncSnapshot.ts:84`) shortens the page, which then ends the
  type too early (`DeleteChanges`, likewise).
- A **delete** checks its base version by a read and deletes by id (`content.ts:446`): an update in between is deleted unseen, and a
  replayed delete may answer another version. Two deletes and a re-creation may log the tombstone after the new row:
  `LogMatchesData` is checked for upserts only, `RowsAreLogged` holds always.
- A child **created between** the listing of a collection's or folder's contents and its DELETE goes with the cascade and
  has no tombstone (`content.ts:291`, `376`); so does a variable added while its environment goes. A request **moved out** in
  that window gets a tombstone and lives. For one writer at a time neither happens (`ContentTree_serial`).
- Deleting a **collection** logs its folders ordered by id (`content.ts:291`, `301`), not "children first and the deleted parent
  last" as `server/README.md:428-429` says of it. A page of pull that ends between a parent and its child leaves the child in the
  replica without its parent until the next page. Ids that the server makes (`lib/ids.ts`) are ordered by time: a parent made
  before its child goes first, so this is the usual case and not a rare one. `OrphansOnlyInPassing` excepts it
  (`FolderToBeDropped`); without the exception TLC finds it in `ContentTree_serial`. Deleting a folder sorts by depth and needs none.
- Two snapshot **types** are read at different times: a page may hold a request whose folder came later. The pull that follows
  brings the folder (`Snapshot_paged` checks the end, not the middle).
- An id **created again** starts at version 1 (`syncApply.ts:39`). In another collection, between the lookup of a folder and the
  write, it places an item across collections (`ContentTree_moves` has ids that are not reused); a push of a secret whose row
  was made again between its read and its write puts the old value back (`content.ts:554-556`).
- A pushed delete of a variable looks it up by id and deletes **by key** (`syncApply.ts:143`): if a rename and a re-use of the key
  commit in between, another variable goes.
- `assertParentFolder` stops after 1000 ancestors (`content.ts:323`) and takes a deeper tree for acyclic.

Workspaces and people:

- `activateMembership` reads and then writes by id (`members.ts:16`): two concurrent grants to a removed member both apply, the
  second changing the role of an active member, which the comment at `members.ts:5-7` excludes.
- "Already pending" has no unique index (`membership.ts:106`, `273`): two pending invites or requests of one person can exist.
- A **removal** compares the version before its transaction (`membership.ts:182`) and removes by id, so it overwrites
  a role change it has not seen (`NoLostRoleChange` speaks of role changes only); a workspace's deletion
  does the same (`workspaces.ts:297`).
- Two **host transactions that overlap** do not see each other's binding; `hostMode` may stay behind (`hosts.ts:26`) until the
  next one that runs alone.
- PATCH of a user reads its target outside the transaction (`admin.ts:155`): someone promoted in between is changed by a platform
  admin who might not.

Sign-in:

- A sign-in whose password was verified before a reset or a disabling creates its session **after** it (`auth.ts:129-130`), with
  the old password. A change of one's own password that was verified before a reset overwrites it (`me.ts:74`, `84`).
- The 401 of a request sent before a sign-in ends the **new** session in the tab (`client.ts:75`), once; a late answer to a sign-out
  clears the cookie of a new sign-in; a late 403 `password_change_required` shows the forced page again.
- A tab whose browser was signed in by somebody else **reads** as that person until its next change or reload; only
  changes carry the token that stops it (`ActsAsShown`).

Lists:

- A change of a row that **overlaps with a load** may show it twice or not at all, since the load may or may not have seen it; so
  may two changes of one row whose answers swap.
- Members are listed **oldest first** (`endpoints.ts:135`), and an added one is put in front all the same (`WsMembers.svelte:55`): it
  shows twice after "Load more". The comment at `endpoints.ts:47` speaks of newest-first lists. Someone who was a member before
  keeps the old date.
- Removing all shown rows while there are more pages leaves an **empty list without "Load more"**; so does a search on the
  workspaces page for people who are not platform admins, since the server does not search theirs.

## 7. Not modelled

- Payloads, names, order, their validation and the documents of requests; wording, rendering and form rules.
- The settings of a workspace (one UPDATE guarded by a version, like those of SyncLog); the audit log, written and never read back by
  what decides anything; statistics; mails.
- Rate limits: a fixed window per key. A call may be refused with 429 at any time, which is a lost call to every model here; that
  the store forgets the oldest of 50000 keys, attempts counted and all (`rateLimitStore.ts:29`), is no more than that.
- Access tokens of the desktop, password hashing, JWT signatures; the realtime token, whose service is not in the repository.
- The dashboard's router (where it returns to after a sign-in) and the policies of the workspace pages (`permissions.ts`, beyond what
  the Users page offers). The mock API, end-to-end tests, deployment, health, configuration, OpenAPI and static files.
- The five snapshot types that are walked like requests, by id.

`PROJECT.json` gives the status of each component.

## 8. Plan

Done: `SyncLog` with `ChangeFeed`, `ContentTree`, `Snapshot`, `Membership`, `DeviceLogin`, `Listing`, `Hosts` and `Variables`
composed in `Workspaces`, `Session`; proofs of every property that a passing run checks, but for liveness.

Next theorems, in this order:

1. Weaker hypotheses: `LogTellsTheData` with deletes that are not followed by a re-creation of the id; `SnapshotsConverge` with
   leaf folders deleted after the folder pages; the tree properties with requests that overlap in other collections only.
2. That the types of `Snapshot` that are walked by id follow from those of `ContentTree`: its writers as steps of one request.
3. The lemmas on recursive functions (`Induct`, `MinIn`) and on finite sets that several proof modules state, in one module.

Runs stay at one for each question; a violated property that a later fix or model makes uninteresting gives its place to a
new component.
