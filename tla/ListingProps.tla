----------------------------- MODULE ListingProps -----------------------------
(* What a list of the dashboard promises. *)
EXTENDS Listing

Cursor == (Nat \X Id) \cup {None}
Item == [id : Id, version : Nat]
Answer == [items : Seq(Item), next_cursor : Cursor, has_more : BOOLEAN, seen : SUBSET Id]

\* Values of the columns, the fields and the requests under way.
TypeOK ==
  /\ page \in Page
  /\ rows \in [Id -> [created : Nat, live : BOOLEAN, version : Nat]]
  /\ now \in Nat /\ other \in Nat
  /\ typed \in Query /\ query \in Query
  /\ pager \in [items : Seq(Item), status : {"loading", "ready", "error"}, loadingMore : BOOLEAN,
                hasMore : BOOLEAN, cursor : Cursor, generation : Nat]
  /\ net \subseteq [kind : {"first", "more"}, gen : Nat, query : Query, cursor : Cursor,
                    page : Answer]
  /\ calls \subseteq [op : page.ops, id : Id \cup {0}, answer : Nat \cup {None}]
  /\ base \subseteq Id /\ overlap \in BOOLEAN /\ lost \in BOOLEAN

Waiting(kind) == \E r \in net : r.kind = kind /\ r.gen = pager.generation

\* A list that shows `Loading', or a `Load more' that is busy, waits for a request
\* of its own generation: no answer that is ignored leaves the page busy for
\* ever (paginator.svelte.ts:29, 59).
BusyIsWaiting ==
  /\ pager.status = "loading" => Waiting("first")
  /\ pager.loadingMore => Waiting("more")

\* A list read to its end shows every row that matches its query and has existed
\* since its first page was read, whatever is inserted, removed, searched for and
\* answered late in between (pagination.ts:44, paginator.svelte.ts:32).
NothingMissed ==
  pager.status = "ready" /\ ~pager.hasMore =>
    {i \in base : Matches(query, i)} \subseteq visible

NoDuplicates == \A m, n \in DOMAIN pager.items : pager.items[m].id = pager.items[n].id => m = n

\* A row is in the list once, also if it was put in front and its page is loaded
\* after that: lists that put rows in front are newest first (endpoints.ts:47).
\* Members are not, and a change that overlaps with a load may be in its answer
\* already (README, "Known not to hold").
NoRowTwice == page.order = "desc" /\ ~overlap => NoDuplicates

\* After a confirmed change the list shows what is stored, without a reload,
\* unless an answer was lost, requests overlapped, or others made changes.
ShownAsSaved ==
  net = {} /\ calls = {} /\ pager.status = "ready" /\ ~overlap /\ ~lost /\ other = 0 =>
    \A n \in DOMAIN pager.items :
      LET item == pager.items[n] IN Live(item.id) /\ rows[item.id].version = item.version
=============================================================================
