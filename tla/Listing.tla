------------------------------- MODULE Listing -------------------------------
(***************************************************************************)
(* A list page of the admin dashboard and the rows behind it.  The list is *)
(* loaded page by page (keyset pagination on the server, `Paginator' in    *)
(* the browser), searched, and edited in place after a change that the     *)
(* server has confirmed.  Answers come late, in any order, or not at all.  *)
(*                                                                         *)
(* A behaviour is one visit of one page.  JavaScript runs to completion:   *)
(* what a handler does up to its await is one step, what it does with the  *)
(* answer another, and the server's transaction lies in between.           *)
(***************************************************************************)
EXTENDS Integers, FiniteSets, Sequences

CONSTANTS
  Id,       \* row ids; random in the code, so their order says nothing about age
  Hit,      \* the ids a search text matches
  Page,     \* the pages visited
  Limit,    \* rows of a page
  MaxLoads, \* bound: loads (generations)
  MaxTime,  \* bound of the clock, which every change started on this page advances
  MaxOther, \* bound: changes by other people
  None

ASSUME ListingAssumption ==
  /\ Id \subseteq Nat \ {0} /\ IsFiniteSet(Id) /\ Hit \subseteq Id
  /\ {Limit, MaxLoads, MaxTime} \subseteq Nat \ {0} /\ MaxOther \in Nat
  /\ None \notin Nat /\ None \notin Nat \X Id

VARIABLES
  page,    \* the page visited
  rows,    \* the table: [created, live, version] of each id
  now,     \* the time
  other,   \* changes made by other people so far
  typed,   \* the text in the search box
  query,   \* the text that is searched for, after the debounce
  pager,   \* the Paginator's fields
  net,     \* list requests under way
  calls,   \* changes under way
  base,    \* history: rows that have existed ever since the first page was read
  overlap, \* history: two requests were under way together, one of them a change
  lost     \* history: an answer to a change was lost

vars == <<page, rows, now, other, typed, query, pager, net, calls, base, overlap, lost>>

-----------------------------------------------------------------------------
(***************************************************************************)
(* The pages.  An operation has the guard of its own: a dialog, with the   *)
(* page behind it inert and its Action busy until the answer, or a control *)
(* of the row that is busy until then.  `effect' is what it does at the    *)
(* server, `edit' what it does to the list when the answer is there.       *)
(***************************************************************************)
Operation(guard, effect, edit) == [guard |-> guard, effect |-> effect, edit |-> edit]

\* createUser; setUserDisabled and resetPassword; must_change_password and role.
UsersPage ==
  [order |-> "desc", filter |-> "typed", revives |-> FALSE,
   ops |-> {Operation("dialog", "create", "prepend"), Operation("dialog", "change", "patch"),
            Operation("row", "change", "patch")}]

\* As a platform admin has it; the server does not search the list of others.
\* Creating a workspace goes to its page.
WorkspacesPage ==
  [order |-> "desc", filter |-> "typed", revives |-> FALSE,
   ops |-> {Operation("dialog", "remove", "remove")}]

\* Adding someone who was a member before revives the row with its old date.
MembersList ==
  [order |-> "asc", filter |-> "none", revives |-> TRUE,
   ops |-> {Operation("dialog", "create", "prepend"), Operation("row", "change", "patch"),
            Operation("dialog", "remove", "remove")}]

\* Adding an address without account; cancelling that.
PendingInvites ==
  [order |-> "desc", filter |-> "none", revives |-> FALSE,
   ops |-> {Operation("dialog", "create", "prepend"), Operation("dialog", "remove", "remove")}]

HostsPage ==
  [order |-> "desc", filter |-> "none", revives |-> FALSE,
   ops |-> {Operation("dialog", "create", "prepend"), Operation("row", "change", "patch"),
            Operation("dialog", "remove", "remove")}]

\* Approving and rejecting; a decided request is shown until the next load.
JoinRequestsPage ==
  [order |-> "desc", filter |-> "chosen", revives |-> FALSE,
   ops |-> {Operation("row", "change", "patch"), Operation("dialog", "change", "patch")}]

AuditPage == [order |-> "desc", filter |-> "chosen", revives |-> FALSE, ops |-> {}]

AllPages == {UsersPage, WorkspacesPage, MembersList, PendingInvites, HostsPage,
             JoinRequestsPage, AuditPage}

ASSUME PageAssumption == Page \subseteq AllPages

-----------------------------------------------------------------------------
(* The server *)

Live(i) == rows[i].live

\* What a list asks for: all of it, a text, or (join requests) what nobody has
\* decided on yet.
Matches(q, i) ==
  CASE q = "text"    -> i \in Hit
    [] q = "pending" -> rows[i].version = 1
    [] OTHER         -> TRUE

Query == {"all", "text", "pending"}
QueryOf(p) == CASE p.filter = "typed"  -> {"all", "text"}
                [] p.filter = "chosen" -> {"all", "pending"}
                [] OTHER               -> {"all"}

\* Order by (created_at, id).
Less(a, b) == a[1] < b[1] \/ (a[1] = b[1] /\ a[2] < b[2])

Key(i) == <<rows[i].created, i>>
Follows(order, i, c) == IF order = "asc" THEN Less(c, Key(i)) ELSE Less(Key(i), c)

\* Mutant: rows of the cursor's moment are taken as read.
Listed_created(q, c) ==
  {i \in Id : /\ Live(i) /\ Matches(q, i)
              /\ c # None => Follows(page.order, i, c) /\ rows[i].created # c[1]}

\* The WHERE of a list: its own condition and, with a cursor, what comes after.
Listed(q, c) ==
  {i \in Id : Live(i) /\ Matches(q, i) /\ (c # None => Follows(page.order, i, c))}

ItemOf(i) == [id |-> i, version |-> rows[i].version]

\* The members of S in the order R: the k-th has k - 1 others before it.
InOrder(S, R) ==
  [k \in 1 .. Cardinality(S) |-> CHOOSE x \in S : Cardinality({y \in S : <<y, x>> \in R}) = k - 1]

\* ORDER BY of a page.
Sorted(S) == InOrder(S, {p \in S \X S : Follows(page.order, p[2], Key(p[1]))})

\* Mutant: the row read ahead goes out too.
ReadPage_extraRow(q, c) ==
  LET sorted == Sorted(Listed(q, c))
      more   == Len(sorted) > Limit
  IN [items       |-> [n \in DOMAIN sorted |-> ItemOf(sorted[n])],
      next_cursor |-> IF more THEN Key(sorted[Limit]) ELSE None,
      has_more    |-> more,
      seen        |-> {i \in Id : Live(i)}]

\* limit + 1 rows in order: the page, and whether there are more.
ReadPage(q, c) ==
  LET sorted == Sorted(Listed(q, c))
      more   == Len(sorted) > Limit
      ids    == IF more THEN SubSeq(sorted, 1, Limit) ELSE sorted
  IN [items       |-> [n \in DOMAIN ids |-> ItemOf(ids[n])],
      next_cursor |-> IF more THEN Key(sorted[Limit]) ELSE None,
      has_more    |-> more,
      seen        |-> {i \in Id : Live(i)}]

\* Not read yet: more rows after no row is what no answer says.
NoPage == [items |-> <<>>, next_cursor |-> None, has_more |-> TRUE, seen |-> {}]

\* GET: the handler reads its page.
Read(r) ==
  /\ r.page = NoPage
  /\ net' = (net \ {r}) \cup {[r EXCEPT !.page = ReadPage(r.query, r.cursor)]}
  /\ UNCHANGED <<page, rows, now, other, typed, query, pager, calls, base, overlap, lost>>

\* A row is gone: nobody has to be shown it any more.
Forget(i) ==
  /\ base' = base \ {i}
  /\ net' = {[r EXCEPT !.page.seen = @ \ {i}] : r \in net}

Creatable == {i \in Id : ~Live(i) /\ (rows[i].created = 0 \/ page.revives)}
Created(i) ==
  [rows EXCEPT ![i] = [created |-> IF @.created = 0 THEN now ELSE @.created,
                       live |-> TRUE, version |-> @.version + 1]]
Changed(i) == [rows EXCEPT ![i].version = @ + 1]
Removed(i) == [rows EXCEPT ![i].live = FALSE]

\* The change's transaction on row i; a refused one changes nothing.
Effect(effect, i) ==
  CASE effect = "create" -> i \in Creatable /\ rows' = Created(i) /\ UNCHANGED <<base, net>>
    [] effect = "change" -> Live(i) /\ rows' = Changed(i) /\ UNCHANGED <<base, net>>
    [] OTHER             -> Live(i) /\ rows' = Removed(i) /\ Forget(i)

Apply(c) ==
  /\ c.answer = None
  /\ \E i \in IF c.op.effect = "create" THEN Id ELSE {c.id} :
       /\ Effect(c.op.effect, i)
       /\ calls' = (calls \ {c}) \cup {[c EXCEPT !.id = i, !.answer = rows'[i].version]}
  /\ UNCHANGED <<page, now, other, typed, query, pager, overlap, lost>>

\* Other people, from the desktop or another dashboard.
Other ==
  /\ other < MaxOther
  /\ other' = other + 1
  /\ \E effect \in {"create", "change", "remove"}, i \in Id : Effect(effect, i)
  /\ UNCHANGED <<page, now, typed, query, pager, calls, overlap, lost>>

-----------------------------------------------------------------------------
(* The browser: loading *)

Request(kind, gen, q, c) ==
  [kind |-> kind, gen |-> gen, query |-> q, cursor |-> c, page |-> NoPage]

\* Mutant: the flag of a superseded loadMore stays.
load_keepsFlag(q) ==
  /\ pager.generation < MaxLoads
  /\ pager' = [pager EXCEPT !.generation = @ + 1, !.status = "loading"]
  /\ net' = net \cup {Request("first", pager.generation + 1, q, None)}
  /\ overlap' = (overlap \/ calls # {})

\* Paginator.load, up to its await.
load(q) ==
  /\ pager.generation < MaxLoads
  /\ pager' = [pager EXCEPT !.generation = @ + 1, !.status = "loading", !.loadingMore = FALSE]
  /\ net' = net \cup {Request("first", pager.generation + 1, q, None)}
  /\ overlap' = (overlap \/ calls # {})

\* Mounting the page loads it.
Init ==
  /\ page \in Page
  /\ rows \in {r \in [Id -> [created : {0, 1}, live : BOOLEAN, version : {0, 1}]] :
                 \A i \in Id : /\ r[i].live <=> r[i].created = 1
                               /\ r[i].version = r[i].created}
  /\ now = 1 /\ other = 0
  /\ query \in QueryOf(page) /\ query # "text"
  /\ page.filter = "chosen" /\ page.ops # {} => query = "pending"
  /\ typed = query
  /\ pager = [items |-> <<>>, status |-> "loading", loadingMore |-> FALSE, hasMore |-> FALSE,
              cursor |-> None, generation |-> 1]
  /\ net = {Request("first", 1, query, None)}
  /\ calls = {} /\ base = {} /\ overlap = FALSE /\ lost = FALSE

\* Only the page that has no dialog open takes the user's input.
DialogOpen == \E c \in calls : c.op.guard = "dialog"

Type ==
  /\ page.filter = "typed" /\ ~DialogOpen
  /\ typed' \in QueryOf(page) \ {typed}
  /\ UNCHANGED <<page, rows, now, other, query, pager, net, calls, base, overlap, lost>>

\* The debounced text, or a choice, becomes the query, and its effect loads.
Search ==
  /\ IF page.filter = "typed" THEN typed # query /\ query' = typed /\ typed' = typed
     ELSE ~DialogOpen /\ query' \in QueryOf(page) \ {query} /\ typed' = query'
  /\ load(query')
  /\ UNCHANGED <<page, rows, now, other, calls, base, lost>>

\* `Try again' of a list that could not be loaded.
Retry ==
  /\ pager.status = "error" /\ ~DialogOpen
  /\ load(query)
  /\ UNCHANGED <<page, rows, now, other, typed, query, calls, base, lost>>

Ids(items) == {items[n].id : n \in DOMAIN items}

\* A page with a search box filters what it has by the same text.
visible == {i \in Ids(pager.items) : page.filter = "typed" => Matches(query, i)}

\* Paginator.loadMore.  The button is part of a list that is not empty.
loadMore ==
  /\ ~DialogOpen /\ visible # {}
  /\ ~pager.loadingMore /\ pager.hasMore /\ pager.status = "ready"
  /\ pager' = [pager EXCEPT !.loadingMore = TRUE]
  /\ net' = net \cup {Request("more", pager.generation, query, pager.cursor)}
  /\ overlap' = (overlap \/ calls # {})
  /\ UNCHANGED <<page, rows, now, other, typed, query, calls, base, lost>>

Took(r, items) ==
  [pager EXCEPT !.items = items, !.cursor = r.page.next_cursor,
                !.hasMore = r.page.has_more, !.status = "ready", !.loadingMore = FALSE]

\* Mutant: whatever arrives is shown.
Receive_anyGeneration(r) ==
  /\ r.page # NoPage
  /\ net' = net \ {r}
  /\ IF r.kind = "first" THEN pager' = Took(r, r.page.items) /\ base' = r.page.seen
     ELSE pager' = Took(r, pager.items \o r.page.items) /\ UNCHANGED base
  /\ UNCHANGED <<page, rows, now, other, typed, query, calls, overlap, lost>>

\* An answer of a superseded generation is ignored.
Receive(r) ==
  /\ r.page # NoPage
  /\ net' = net \ {r}
  /\ IF r.gen # pager.generation THEN UNCHANGED <<pager, base>>
     ELSE IF r.kind = "first" THEN pager' = Took(r, r.page.items) /\ base' = r.page.seen
     ELSE pager' = Took(r, pager.items \o r.page.items) /\ UNCHANGED base
  /\ UNCHANGED <<page, rows, now, other, typed, query, calls, overlap, lost>>

\* Timeout, network error or an error answer, whether the server has read or not.
Fail(r) ==
  /\ net' = net \ {r}
  /\ pager' = IF r.gen # pager.generation THEN pager
              ELSE IF r.kind = "first" THEN [pager EXCEPT !.status = "error"]
              ELSE [pager EXCEPT !.loadingMore = FALSE]
  /\ UNCHANGED <<page, rows, now, other, typed, query, calls, base, overlap, lost>>

-----------------------------------------------------------------------------
(* The browser: changes *)

Call(op, i) == [op |-> op, id |-> i, answer |-> None]

\* Row 0 is the one to be created.
Targets(op) == IF op.effect = "create" THEN {0} ELSE visible

\* Confirming a dialog, or using a control of a row: only rows that are shown
\* have one, and none is started twice.
Send(op, i) ==
  /\ now < MaxTime /\ ~DialogOpen
  /\ i # 0 => pager.status = "ready"
  /\ ~\E c \in calls : c.op = op /\ c.id = i
  /\ now' = now + 1
  /\ calls' = calls \cup {Call(op, i)}
  /\ overlap' = (overlap \/ net # {} \/ calls # {})
  /\ UNCHANGED <<page, rows, other, typed, query, pager, net, base, lost>>

\* The items that are not of row i, in the order they have.
Without(items, i) ==
  LET kept  == {n \in DOMAIN items : items[n].id # i}
      order == InOrder(kept, {p \in kept \X kept : p[1] < p[2]})
  IN  [k \in DOMAIN order |-> items[order[k]]]

\* Mutant: what the form held, which has no id yet, is put in front.
Edited_draft(c) ==
  LET items == pager.items IN
  CASE c.op.edit = "prepend" -> <<[id |-> 0, version |-> c.answer]>> \o items
    [] c.op.edit = "remove"  -> Without(items, c.id)
    [] OTHER -> [n \in DOMAIN items |->
                   IF items[n].id = c.id THEN [items[n] EXCEPT !.version = c.answer] ELSE items[n]]

\* Paginator.patch, remove and prepend.
Edited(c) ==
  LET items == pager.items IN
  CASE c.op.edit = "prepend" -> <<[id |-> c.id, version |-> c.answer]>> \o items
    [] c.op.edit = "remove"  -> Without(items, c.id)
    [] OTHER -> [n \in DOMAIN items |->
                   IF items[n].id = c.id THEN [items[n] EXCEPT !.version = c.answer] ELSE items[n]]

\* Mutant: the row shown stays as it was.
Confirmed_noPatch(c) ==
  /\ c.answer # None
  /\ calls' = calls \ {c}
  /\ pager' = IF c.op.edit = "patch" THEN pager ELSE [pager EXCEPT !.items = Edited(c)]
  /\ UNCHANGED <<page, rows, now, other, typed, query, net, base, overlap, lost>>

Confirmed(c) ==
  /\ c.answer # None
  /\ calls' = calls \ {c}
  /\ pager' = [pager EXCEPT !.items = Edited(c)]
  /\ UNCHANGED <<page, rows, now, other, typed, query, net, base, overlap, lost>>

\* Refused, or not answered in time; what was shown is put back.
Refused(c) ==
  /\ calls' = calls \ {c}
  /\ lost' = (lost \/ c.answer # None)
  /\ UNCHANGED <<page, rows, now, other, typed, query, pager, net, base, overlap>>

-----------------------------------------------------------------------------
User == Type \/ Retry \/ loadMore \/ \E op \in page.ops : \E i \in Targets(op) : Send(op, i)

Next ==
  \/ User \/ Search \/ Other
  \/ \E r \in net : Read(r) \/ Receive(r) \/ Fail(r)
  \/ \E c \in calls : Apply(c) \/ Confirmed(c) \/ Refused(c)

Spec == Init /\ [][Next]_vars
=============================================================================
