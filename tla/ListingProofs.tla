---------------------------- MODULE ListingProofs ----------------------------
(***************************************************************************)
(* For any rows, pages and number of requests under way.                   *)
(*                                                                         *)
(* A list that is busy waits for an answer that it will take (BusyInv): a  *)
(* request is known by its kind and generation, which no step changes; a   *)
(* step that takes a request of the pager's generation away ends the busy  *)
(* state that waited for it, and one that goes to the next generation      *)
(* sends its request along.                                                *)
(*                                                                         *)
(* A list read to its end misses nothing (CoverInv): of the rows that have *)
(* been there since its first page, those up to the cursor are shown, and  *)
(* an answer under way has those from its cursor to the next.              *)
(*                                                                         *)
(* The list shows what is saved (SavedInv) and no row twice (OnceInv) while *)
(* changes and loads do not overlap (AloneInv): a change carries the row   *)
(* as it left it, a row put in front is younger than all that are shown,   *)
(* and all that are shown are before the cursor.                           *)
(***************************************************************************)
EXTENDS ListingProps, FiniteSetTheorems, TLAPS

PagerFields == {"items", "status", "loadingMore", "hasMore", "cursor", "generation"}
RequestFields == {"kind", "gen", "query", "cursor", "page"}

BusyInv ==
  /\ DOMAIN pager = PagerFields
  /\ \A r \in net : DOMAIN r = RequestFields
  /\ BusyIsWaiting

-----------------------------------------------------------------------------
\* Every request stays under way, at most with another page in it.
SameRequests(before, after) ==
  /\ \A r \in after : DOMAIN r = RequestFields
  /\ \A r \in before : \E q \in after : q.kind = r.kind /\ q.gen = r.gen

LEMMA Forgotten ==
  ASSUME BusyInv, NEW i, Forget(i)
  PROVE  SameRequests(net, net')
<1>1. ASSUME NEW r \in net
      PROVE  LET q == [r EXCEPT !.page.seen = @ \ {i}] IN
             DOMAIN q = RequestFields /\ q.kind = r.kind /\ q.gen = r.gen
  BY <1>1 DEF BusyInv, RequestFields
<1>2. net' = {[r EXCEPT !.page.seen = @ \ {i}] : r \in net}
  BY DEF Forget
<1> QED BY <1>1, <1>2 DEF SameRequests

LEMMA EffectKeepsRequests ==
  ASSUME BusyInv, NEW effect, NEW i, Effect(effect, i)
  PROVE  SameRequests(net, net')
<1>1. CASE net' = net
  BY <1>1 DEF SameRequests, BusyInv
<1>2. CASE Forget(i)
  BY <1>2, Forgotten
<1> QED BY <1>1, <1>2 DEF Effect

LEMMA ReadKeepsRequests ==
  ASSUME BusyInv, NEW r \in net, Read(r)
  PROVE  SameRequests(net, net')
<1> DEFINE q == [r EXCEPT !.page = ReadPage(r.query, r.cursor)]
<1>1. DOMAIN q = RequestFields /\ q.kind = r.kind /\ q.gen = r.gen
  BY DEF BusyInv, RequestFields
<1>2. net' = (net \ {r}) \cup {q}
  BY DEF Read
<1> HIDE DEF q
<1> QED BY <1>1, <1>2 DEF SameRequests, BusyInv

\* As long as the requests stay and the list is not made busier, it waits.
LEMMA StillWaiting ==
  ASSUME BusyInv, SameRequests(net, net'), DOMAIN pager' = PagerFields,
         pager'.generation = pager.generation,
         pager'.status = "loading" => pager.status = "loading",
         pager'.loadingMore => pager.loadingMore
  PROVE  BusyInv'
<1>1. ASSUME NEW kind, Waiting(kind) PROVE Waiting(kind)'
  <2>1. PICK r \in net : r.kind = kind /\ r.gen = pager.generation
    BY <1>1 DEF Waiting
  <2>2. PICK q \in net' : q.kind = r.kind /\ q.gen = r.gen
    BY <2>1 DEF SameRequests
  <2> QED BY <2>1, <2>2 DEF Waiting
<1>2. BusyIsWaiting'
  BY <1>1 DEF BusyInv, BusyIsWaiting
<1> QED BY <1>2 DEF BusyInv, SameRequests

LEMMA Untouched ==
  ASSUME BusyInv, SameRequests(net, net'), UNCHANGED pager
  PROVE  BusyInv'
BY StillWaiting DEF BusyInv

LEMMA RequestShape ==
  ASSUME NEW kind, NEW gen, NEW q, NEW c
  PROVE  LET r == Request(kind, gen, q, c) IN
         DOMAIN r = RequestFields /\ r.kind = kind /\ r.gen = gen
BY DEF Request, RequestFields

LEMMA loadStep ==
  ASSUME BusyInv, NEW q, load(q)
  PROVE  BusyInv'
<1> DEFINE r == Request("first", pager.generation + 1, q, None)
<1>1. DOMAIN r = RequestFields /\ r.kind = "first" /\ r.gen = pager.generation + 1
  BY RequestShape
<1>2. net' = net \cup {r}
  BY DEF load
<1>3. /\ DOMAIN pager' = PagerFields
      /\ pager'.generation = pager.generation + 1 /\ pager'.loadingMore = FALSE
  BY DEF load, BusyInv, PagerFields
<1> HIDE DEF r
<1>4. \A p \in net' : DOMAIN p = RequestFields
  BY <1>1, <1>2 DEF BusyInv
<1>5. BusyIsWaiting'
  BY <1>1, <1>2, <1>3 DEF BusyIsWaiting, Waiting
<1> QED BY <1>3, <1>4, <1>5 DEF BusyInv

LEMMA loadMoreStep ==
  ASSUME BusyInv, loadMore
  PROVE  BusyInv'
<1> DEFINE r == Request("more", pager.generation, query, pager.cursor)
<1>1. DOMAIN r = RequestFields /\ r.kind = "more" /\ r.gen = pager.generation
  BY RequestShape
<1>2. net' = net \cup {r}
  BY DEF loadMore
<1>3. /\ DOMAIN pager' = PagerFields
      /\ pager'.generation = pager.generation /\ pager'.status = "ready"
  BY DEF loadMore, BusyInv, PagerFields
<1> HIDE DEF r
<1>4. \A p \in net' : DOMAIN p = RequestFields
  BY <1>1, <1>2 DEF BusyInv
<1>5. BusyIsWaiting'
  BY <1>1, <1>2, <1>3 DEF BusyIsWaiting, Waiting
<1> QED BY <1>3, <1>4, <1>5 DEF BusyInv

\* A request that is taken away: the list waits for others, or no longer.
LEMMA Answered ==
  ASSUME BusyInv, NEW r \in net, net' = net \ {r}, DOMAIN pager' = PagerFields,
         pager'.generation = pager.generation,
         pager'.status = "loading" =>
           /\ pager.status = "loading"
           /\ r.gen # pager.generation \/ r.kind # "first",
         pager'.loadingMore =>
           /\ pager.loadingMore
           /\ r.gen # pager.generation \/ r.kind # "more"
  PROVE  BusyInv'
<1>1. ASSUME NEW kind, Waiting(kind), r.gen # pager.generation \/ r.kind # kind
      PROVE  Waiting(kind)'
  <2>1. PICK q \in net : q.kind = kind /\ q.gen = pager.generation
    BY <1>1 DEF Waiting
  <2>2. q \in net'
    BY <1>1, <2>1
  <2> QED BY <2>1, <2>2 DEF Waiting
<1>2. BusyIsWaiting'
  BY <1>1 DEF BusyInv, BusyIsWaiting
<1> QED BY <1>2 DEF BusyInv

LEMMA ReceiveStep ==
  ASSUME BusyInv, NEW r \in net, Receive(r)
  PROVE  BusyInv'
<1>1. net' = net \ {r}
  BY DEF Receive
<1>2. CASE r.gen # pager.generation
  <2>1. pager' = pager
    BY <1>2 DEF Receive
  <2> QED BY <1>1, <1>2, <2>1, Answered DEF BusyInv
<1>3. CASE r.gen = pager.generation
  <2>1. \E items : pager' = Took(r, items)
    BY <1>3 DEF Receive
  <2>2. /\ DOMAIN pager' = PagerFields /\ pager'.generation = pager.generation
        /\ pager'.status = "ready" /\ pager'.loadingMore = FALSE
    BY <2>1 DEF Took, BusyInv, PagerFields
  <2> QED BY <1>1, <2>2, Answered
<1> QED BY <1>2, <1>3

LEMMA FailStep ==
  ASSUME BusyInv, NEW r \in net, Fail(r)
  PROVE  BusyInv'
<1>1. net' = net \ {r}
  BY DEF Fail
<1>2. CASE r.gen # pager.generation
  <2>1. pager' = pager
    BY <1>2 DEF Fail
  <2> QED BY <1>1, <1>2, <2>1, Answered DEF BusyInv
<1>3. CASE r.gen = pager.generation /\ r.kind = "first"
  <2>1. pager' = [pager EXCEPT !.status = "error"]
    BY <1>3 DEF Fail
  <2>2. /\ DOMAIN pager' = PagerFields /\ pager'.generation = pager.generation
        /\ pager'.status = "error" /\ pager'.loadingMore = pager.loadingMore
    BY <2>1 DEF BusyInv, PagerFields
  <2> QED BY <1>1, <1>3, <2>2, Answered
<1>4. CASE r.gen = pager.generation /\ r.kind # "first"
  <2>1. pager' = [pager EXCEPT !.loadingMore = FALSE]
    BY <1>4 DEF Fail
  <2>2. /\ DOMAIN pager' = PagerFields /\ pager'.generation = pager.generation
        /\ pager'.status = pager.status /\ pager'.loadingMore = FALSE
    BY <2>1 DEF BusyInv, PagerFields
  <2> QED BY <1>1, <1>4, <2>2, Answered
<1> QED BY <1>2, <1>3, <1>4

-----------------------------------------------------------------------------
LEMMA InitBusy == Init => BusyInv
<1> SUFFICES ASSUME Init PROVE BusyInv
  OBVIOUS
<1> DEFINE r == Request("first", 1, query, None)
<1>1. net = {r}
  BY DEF Init
<1>2. DOMAIN r = RequestFields /\ r.kind = "first" /\ r.gen = 1
  BY RequestShape
<1>3. /\ DOMAIN pager = PagerFields /\ pager.loadingMore = FALSE /\ pager.generation = 1
  BY DEF Init, PagerFields
<1> HIDE DEF r
<1>4. BusyIsWaiting
  BY <1>1, <1>2, <1>3 DEF BusyIsWaiting, Waiting
<1> QED BY <1>1, <1>2, <1>3, <1>4 DEF BusyInv

LEMMA BusyStep == BusyInv /\ [Next]_vars => BusyInv'
<1> SUFFICES ASSUME BusyInv, [Next]_vars PROVE BusyInv'
  OBVIOUS
<1> USE StillWaiting
<1>1. CASE UNCHANGED <<net, pager>>
  BY <1>1, Untouched DEF SameRequests, BusyInv
<1>2. CASE Type
  BY <1>1, <1>2 DEF Type
<1>3. CASE Retry
  BY <1>3, loadStep DEF Retry
<1>4. CASE loadMore
  BY <1>4, loadMoreStep
<1>5. ASSUME NEW op \in page.ops, NEW i \in Targets(op), Send(op, i) PROVE BusyInv'
  BY <1>1, <1>5 DEF Send
<1>6. CASE Search
  BY <1>6, loadStep DEF Search
<1>7. CASE Other
  <2>1. PICK effect \in {"create", "change", "remove"}, i \in Id : Effect(effect, i)
    BY <1>7 DEF Other
  <2> QED BY <1>7, <2>1, EffectKeepsRequests, Untouched DEF Other
<1>8. ASSUME NEW r \in net, Read(r) PROVE BusyInv'
  BY <1>8, ReadKeepsRequests, Untouched DEF Read
<1>9. ASSUME NEW r \in net, Receive(r) PROVE BusyInv'
  BY <1>9, ReceiveStep
<1>10. ASSUME NEW r \in net, Fail(r) PROVE BusyInv'
  BY <1>10, FailStep
<1>11. ASSUME NEW c \in calls, Apply(c) PROVE BusyInv'
  <2>1. \E i : Effect(c.op.effect, i)
    BY <1>11 DEF Apply
  <2> QED BY <1>11, <2>1, EffectKeepsRequests, Untouched DEF Apply
<1>12. ASSUME NEW c \in calls, Confirmed(c) PROVE BusyInv'
  <2>1. net' = net /\ pager' = [pager EXCEPT !.items = Edited(c)]
    BY <1>12 DEF Confirmed
  <2>2. /\ DOMAIN pager' = PagerFields /\ pager'.generation = pager.generation
        /\ pager'.status = pager.status /\ pager'.loadingMore = pager.loadingMore
    BY <2>1 DEF BusyInv, PagerFields
  <2>3. SameRequests(net, net')
    BY <2>1 DEF SameRequests, BusyInv
  <2> QED BY <2>2, <2>3, StillWaiting
<1>13. ASSUME NEW c \in calls, Refused(c) PROVE BusyInv'
  BY <1>1, <1>13 DEF Refused
<1>14. CASE UNCHANGED vars
  BY <1>1, <1>14 DEF vars
<1> QED BY <1>2, <1>3, <1>4, <1>5, <1>6, <1>7, <1>8, <1>9, <1>10, <1>11, <1>12, <1>13, <1>14
        DEF Next, User

\* No list stays busy without a request of its own generation under way, whatever
\* is searched for, answered late, refused or lost (paginator.svelte.ts:29, 59).
THEOREM BusyListsWait == Spec => []BusyIsWaiting
<1>1. BusyInv => BusyIsWaiting
  BY DEF BusyInv
<1> QED BY InitBusy, BusyStep, <1>1, PTL DEF Spec
-----------------------------------------------------------------------------
(***************************************************************************)
(* What is in order.                                                       *)
(***************************************************************************)
StrictOrder(S, R) ==
  /\ \A x \in S : <<x, x>> \notin R
  /\ \A x, y, z \in S : <<x, y>> \in R /\ <<y, z>> \in R => <<x, z>> \in R
  /\ \A x, y \in S : x # y => <<x, y>> \in R \/ <<y, x>> \in R

\* s lists S in the order R.
Lists(s, S, R) ==
  /\ s \in [1 .. Cardinality(S) -> S]
  /\ \A j, k \in 1 .. Cardinality(S) : j < k => <<s[j], s[k]>> \in R
  /\ \A x \in S : \E k \in 1 .. Cardinality(S) : s[k] = x

LEMMA InOrderLists ==
  ASSUME NEW S, IsFiniteSet(S), NEW R, StrictOrder(S, R)
  PROVE  Lists(InOrder(S, R), S, R)
<1> DEFINE n == Cardinality(S)
           before(x) == {y \in S : <<y, x>> \in R}
           rank == [x \in S |-> Cardinality(before(x))]
           s == InOrder(S, R)
<1>1. n \in Nat
  BY FS_CardinalityType
<1>2. ASSUME NEW x \in S
      PROVE  IsFiniteSet(before(x)) /\ rank[x] \in Nat
  <2>1. before(x) \subseteq S
    OBVIOUS
  <2>2. IsFiniteSet(before(x))
    BY <2>1, FS_Subset
  <2> QED BY <2>2, FS_CardinalityType
<1>3. ASSUME NEW x \in S PROVE rank[x] < n
  <2>1. before(x) \subseteq S /\ before(x) # S
    BY DEF StrictOrder
  <2>2. Cardinality(before(x)) <= Cardinality(S) /\ (Cardinality(before(x)) = Cardinality(S) => before(x) = S)
    BY <2>1, FS_Subset, Zenon
  <2> QED BY <1>1, <1>2, <2>1, <2>2
<1>4. ASSUME NEW x \in S, NEW y \in S, <<x, y>> \in R PROVE rank[x] < rank[y]
  <2>1. before(x) \subseteq before(y) /\ x \in before(y) /\ x \notin before(x)
    BY <1>4 DEF StrictOrder
  <2>2. IsFiniteSet(before(y))
    BY <1>2
  <2>3. Cardinality(before(x)) <= Cardinality(before(y))
        /\ (Cardinality(before(x)) = Cardinality(before(y)) => before(x) = before(y))
    BY <2>1, <2>2, FS_Subset, Zenon
  <2> QED BY <1>2, <2>1, <2>3
<1> HIDE DEF rank, before
<1>21. \A x \in S : rank[x] \in Nat
  BY <1>2
<1>5. ASSUME NEW x \in S, NEW y \in S, rank[x] = rank[y] PROVE x = y
  <2>1. ~(rank[x] < rank[y]) /\ ~(rank[y] < rank[x])
    BY <1>21, <1>5
  <2>2. <<x, y>> \notin R /\ <<y, x>> \notin R
    BY <1>4, <2>1
  <2> QED BY <2>2 DEF StrictOrder
<1> DEFINE f == [x \in S |-> rank[x] + 1]
<1>6. f \in Injection(S, 1 .. n)
  <2>1. f \in [S -> 1 .. n]
    BY <1>1, <1>21, <1>3
  <2>2. \A x, y \in S : f[x] = f[y] => x = y
    BY <1>21, <1>5
  <2> QED BY <2>1, <2>2 DEF Injection, IsInjective
<1>7. IsFiniteSet(1 .. n) /\ Cardinality(1 .. n) = n
  BY <1>1, FS_Interval
<1>8. f \in Surjection(S, 1 .. n)
  BY <1>6, <1>7, FS_Injection, Zenon
<1>9. ASSUME NEW k \in 1 .. n PROVE \E x \in S : rank[x] = k - 1
  <2>1. PICK x \in S : f[x] = k
    BY <1>8 DEF Surjection
  <2> QED BY <2>1, <1>21
<1>10. s = [k \in 1 .. n |-> CHOOSE x \in S : rank[x] = k - 1]
  <2>1. s = [k \in 1 .. n |-> CHOOSE x \in S : Cardinality(before(x)) = k - 1]
    BY DEF InOrder, before
  <2>2. \A k : \A x \in S : Cardinality(before(x)) = k - 1 <=> rank[x] = k - 1
    BY DEF rank
  <2> QED BY <2>1, <2>2
<1>11. ASSUME NEW k \in 1 .. n PROVE s[k] \in S /\ rank[s[k]] = k - 1
  <2>1. s[k] = CHOOSE x \in S : rank[x] = k - 1
    BY <1>10
  <2> QED BY <1>9, <2>1
<1> HIDE DEF n, s, f
<1>12. s \in [1 .. n -> S]
  BY <1>10, <1>11
<1>13. ASSUME NEW j \in 1 .. n, NEW k \in 1 .. n, j < k PROVE <<s[j], s[k]>> \in R
  <2>1. s[j] \in S /\ s[k] \in S /\ rank[s[j]] < rank[s[k]] /\ s[j] # s[k]
    BY <1>1, <1>11, <1>13
  <2>2. <<s[k], s[j]>> \notin R
    BY <1>21, <1>4, <2>1
  <2> QED BY <2>1, <2>2 DEF StrictOrder
<1>14. ASSUME NEW x \in S PROVE \E k \in 1 .. n : s[k] = x
  <2>1. rank[x] + 1 \in 1 .. n
    BY <1>1, <1>21, <1>3
  <2>2. s[rank[x] + 1] \in S /\ rank[s[rank[x] + 1]] = rank[x]
    BY <1>21, <1>11, <2>1
  <2> QED BY <1>5, <2>1, <2>2
<1> QED BY <1>12, <1>13, <1>14 DEF Lists, n, s
-----------------------------------------------------------------------------
(***************************************************************************)
(* The pages, the order of the rows, and what a list request reads.        *)
(***************************************************************************)
LEMMA Pages ==
  ASSUME NEW p \in Page
  PROVE  /\ p.order \in {"asc", "desc"} /\ p.filter \in {"none", "typed", "chosen"}
         /\ p.revives \in BOOLEAN /\ (p.revives <=> p.order = "asc")
         /\ p.revives => p.filter = "none"
         /\ \A op \in p.ops :
              /\ \/ op.effect = "create" /\ op.edit = "prepend"
                 \/ op.effect = "change" /\ op.edit = "patch"
                 \/ op.effect = "remove" /\ op.edit = "remove"
              /\ op.effect # "change" => op.guard = "dialog"
<1>1. p \in AllPages
  BY PageAssumption
<1>2. CASE p = UsersPage
  BY <1>2 DEF UsersPage, Operation
<1>3. CASE p = WorkspacesPage
  BY <1>3 DEF WorkspacesPage, Operation
<1>4. CASE p = MembersList
  BY <1>4 DEF MembersList, Operation
<1>5. CASE p = PendingInvites
  BY <1>5 DEF PendingInvites, Operation
<1>6. CASE p = HostsPage
  BY <1>6 DEF HostsPage, Operation
<1>7. CASE p = JoinRequestsPage
  BY <1>7 DEF JoinRequestsPage, Operation
<1>8. CASE p = AuditPage
  BY <1>8 DEF AuditPage
<1> QED BY <1>1, <1>2, <1>3, <1>4, <1>5, <1>6, <1>7, <1>8 DEF AllPages

RowType == [created : Nat, live : BOOLEAN, version : Nat]

LEMMA Numbers ==
  /\ Id \subseteq Nat /\ 0 \notin Id /\ IsFiniteSet(Id)
  /\ Limit \in Nat /\ Limit > 0
  /\ None \notin Nat \X Id /\ None \notin Nat
BY ListingAssumption

LEMMA LessIsOrder ==
  /\ \A a \in Nat \X Id : ~Less(a, a)
  /\ \A a, b, c \in Nat \X Id : Less(a, b) /\ Less(b, c) => Less(a, c)
  /\ \A a, b \in Nat \X Id : a # b => Less(a, b) \/ Less(b, a)
<1> SUFFICES ASSUME NEW a \in Nat \X Id, NEW b \in Nat \X Id, NEW c \in Nat \X Id
             PROVE  /\ ~Less(a, a)
                    /\ Less(a, b) /\ Less(b, c) => Less(a, c)
                    /\ a # b => Less(a, b) \/ Less(b, a)
  OBVIOUS
<1>1. PICK a1 \in Nat, a2 \in Id : a = <<a1, a2>>
  OBVIOUS
<1>2. PICK b1 \in Nat, b2 \in Id : b = <<b1, b2>>
  OBVIOUS
<1>3. PICK c1 \in Nat, c2 \in Id : c = <<c1, c2>>
  OBVIOUS
<1>4. a2 \in Nat /\ b2 \in Nat /\ c2 \in Nat
  BY Numbers
<1>5. /\ Less(a, a) <=> a1 < a1 \/ (a1 = a1 /\ a2 < a2)
      /\ Less(a, b) <=> a1 < b1 \/ (a1 = b1 /\ a2 < b2)
      /\ Less(b, a) <=> b1 < a1 \/ (b1 = a1 /\ b2 < a2)
      /\ Less(b, c) <=> b1 < c1 \/ (b1 = c1 /\ b2 < c2)
      /\ Less(a, c) <=> a1 < c1 \/ (a1 = c1 /\ a2 < c2)
  BY <1>1, <1>2, <1>3 DEF Less
<1>6. a # b => a1 # b1 \/ a2 # b2
  BY <1>1, <1>2
<1> QED BY <1>4, <1>5, <1>6

LEMMA KeyType ==
  ASSUME rows \in [Id -> RowType], NEW i \in Id
  PROVE  /\ Key(i) \in Nat \X Id /\ Key(i)[1] = rows[i].created /\ Key(i)[2] = i
         /\ Key(i) # None
<1>1. rows[i].created \in Nat
  BY DEF RowType
<1> QED BY <1>1, Numbers DEF Key

LEMMA SortedLists ==
  ASSUME rows \in [Id -> RowType], page \in Page, NEW S \in SUBSET Id
  PROVE  LET n == Cardinality(S) s == Sorted(S) IN
         /\ n \in Nat /\ s \in [1 .. n -> S]
         /\ \A j, k \in 1 .. n : j < k => Follows(page.order, s[k], Key(s[j]))
         /\ \A x \in S : \E k \in 1 .. n : s[k] = x
<1> DEFINE R == {p \in S \X S : Follows(page.order, p[2], Key(p[1]))}
<1>1. IsFiniteSet(S) /\ Cardinality(S) \in Nat
  BY Numbers, FS_Subset, FS_CardinalityType
<1>2. \A x, y \in S : <<x, y>> \in R <=> Follows(page.order, y, Key(x))
  OBVIOUS
<1>3. \A x \in S : Key(x) \in Nat \X Id
  BY KeyType
<1>4. \A x, y \in S : Key(x) = Key(y) => x = y
  BY DEF Key
<1> HIDE DEF R
<1>5. CASE page.order = "asc"
  <2>1. \A x, y \in S : <<x, y>> \in R <=> Less(Key(x), Key(y))
    BY <1>2, <1>5 DEF Follows
  <2>2. StrictOrder(S, R)
    BY <1>3, <1>4, <2>1, LessIsOrder DEF StrictOrder
  <2>3. Lists(Sorted(S), S, R)
    BY <1>1, <2>2, InOrderLists DEF Sorted, R
  <2> QED BY <1>1, <1>2, <2>3 DEF Lists
<1>6. CASE page.order # "asc"
  <2>1. \A x, y \in S : <<x, y>> \in R <=> Less(Key(y), Key(x))
    BY <1>2, <1>6 DEF Follows
  <2>2. StrictOrder(S, R)
    BY <1>3, <1>4, <2>1, LessIsOrder DEF StrictOrder
  <2>3. Lists(Sorted(S), S, R)
    BY <1>1, <2>2, InOrderLists DEF Sorted, R
  <2> QED BY <1>1, <1>2, <2>3 DEF Lists
<1> QED BY <1>5, <1>6

\* Rows follow one another in a strict order.
LEMMA FollowsIsOrder ==
  ASSUME NEW order, rows \in [Id -> RowType], NEW i \in Id, NEW a \in Nat \X Id, NEW b \in Nat \X Id
  PROVE  /\ ~Follows(order, i, Key(i))
         /\ Follows(order, i, b) /\ (IF order = "asc" THEN Less(a, b) ELSE Less(b, a))
              => Follows(order, i, a)
<1>1. Key(i) \in Nat \X Id
  BY KeyType
<1> QED BY <1>1, LessIsOrder DEF Follows
\* A page is the first rows of a list, in order; the cursor is the last of them,
\* and what is not in the page comes after the cursor.
PageOf(p, L, rw, order) ==
  /\ p \in Answer /\ p # NoPage
  /\ p.has_more <=> p.next_cursor # None
  /\ \A n \in DOMAIN p.items :
       p.items[n].id \in L /\ p.items[n].version = rw[p.items[n].id].version
  /\ \A m, n \in DOMAIN p.items :
       m < n => Follows(order, p.items[n].id, Key(p.items[m].id))
  /\ p.has_more =>
       \E n \in DOMAIN p.items :
         /\ p.next_cursor = Key(p.items[n].id)
         /\ \A m \in DOMAIN p.items : m <= n
  /\ \A i \in L : i \in Ids(p.items) \/ (p.has_more /\ Follows(order, i, p.next_cursor))
  /\ p.seen = {i \in Id : Live(i)}

LEMMA PageIsRead ==
  ASSUME rows \in [Id -> RowType], page \in Page, NEW q, NEW c
  PROVE  PageOf(ReadPage(q, c), Listed(q, c), rows, page.order)
<1> DEFINE L == Listed(q, c)
           s == Sorted(L)
           N == Cardinality(L)
           more == Len(s) > Limit
           ids == IF more THEN SubSeq(s, 1, Limit) ELSE s
           p == ReadPage(q, c)
<1>1. L \subseteq Id /\ \A i \in L : Live(i)
  BY DEF Listed
<1>2. /\ N \in Nat /\ s \in [1 .. N -> L]
      /\ \A j, k \in 1 .. N : j < k => Follows(page.order, s[k], Key(s[j]))
      /\ \A x \in L : \E k \in 1 .. N : s[k] = x
  BY <1>1, SortedLists
<1>3. p = [items       |-> [n \in DOMAIN ids |-> ItemOf(ids[n])],
           next_cursor |-> IF more THEN Key(s[Limit]) ELSE None,
           has_more    |-> more,
           seen        |-> {i \in Id : Live(i)}]
  BY DEF ReadPage
<1> HIDE DEF L, s, N, p
<1>4. s \in Seq(L) /\ Len(s) = N /\ DOMAIN s = 1 .. N
  BY <1>2
<1> DEFINE M == IF more THEN Limit ELSE N
<1>5. /\ M \in Nat /\ M <= N /\ DOMAIN ids = 1 .. M /\ \A n \in 1 .. M : ids[n] = s[n]
      /\ more <=> M < N
  <2>1. CASE more
    <3>1. Limit \in 1 .. N
      BY <2>1, <1>2, <1>4, Numbers
    <3>2. SubSeq(s, 1, Limit) = [n \in 1 .. Limit |-> s[n]]
      BY <3>1, <1>4, Numbers
    <3> QED BY <2>1, <3>1, <3>2, <1>4, Numbers
  <2>2. CASE ~more
    BY <2>2, <1>2, <1>4, Numbers
  <2> QED BY <2>1, <2>2
<1>6. more => M = Limit /\ M > 0
  BY Numbers
<1> HIDE DEF M, ids, more
<1>7. p.items = [n \in 1 .. M |-> ItemOf(s[n])]
  BY <1>3, <1>5
<1>8. /\ DOMAIN p.items = 1 .. M
      /\ \A n \in 1 .. M : /\ p.items[n] = ItemOf(s[n]) /\ s[n] \in L
                           /\ p.items[n].id = s[n] /\ p.items[n].version = rows[s[n]].version
  BY <1>7, <1>5, <1>2 DEF ItemOf
<1>9. /\ p.has_more = more /\ p.seen = {i \in Id : Live(i)}
      /\ p.next_cursor = IF more THEN Key(s[Limit]) ELSE None
  BY <1>3
<1>10. p.items \in Seq(Item)
  <2>1. \A n \in 1 .. M : ItemOf(s[n]) \in Item
    BY <1>8, <1>1 DEF ItemOf, Item, RowType
  <2>2. p.items \in [1 .. M -> Item]
    BY <2>1, <1>7
  <2> QED BY <2>2, <1>5
<1>11. more => s[M] \in Id /\ Key(s[M]) \in Nat \X Id /\ Key(s[M]) # None
  BY <1>1, <1>5, <1>6, <1>8, KeyType
<1>12. more \in BOOLEAN
  BY DEF more
<1>13. p \in Answer
  <2>1. p.next_cursor \in Cursor
    BY <1>9, <1>11, <1>6 DEF Cursor
  <2>2. p.seen \in SUBSET Id
    BY <1>9
  <2>3. p = [items |-> p.items, next_cursor |-> p.next_cursor, has_more |-> p.has_more, seen |-> p.seen]
    BY <1>3
  <2> QED BY <1>9, <1>10, <1>12, <2>1, <2>2, <2>3 DEF Answer
<1>14. p.has_more <=> p.next_cursor # None
  BY <1>9, <1>11, <1>6
<1>15. p # NoPage
  BY <1>14 DEF NoPage
<1>16. \A m, n \in DOMAIN p.items :
         m < n => Follows(page.order, p.items[n].id, Key(p.items[m].id))
  BY <1>8, <1>2, <1>5
<1>17. p.has_more => \E n \in DOMAIN p.items :
                       /\ p.next_cursor = Key(p.items[n].id)
                       /\ \A m \in DOMAIN p.items : m <= n
  <2>1. more => /\ M \in DOMAIN p.items /\ p.next_cursor = Key(p.items[M].id)
                /\ \A m \in DOMAIN p.items : m <= M
    BY <1>5, <1>6, <1>8, <1>9
  <2> QED BY <2>1, <1>9
<1>18. ASSUME NEW i \in L
       PROVE  i \in Ids(p.items) \/ (p.has_more /\ Follows(page.order, i, p.next_cursor))
  <2>1. PICK k \in 1 .. N : s[k] = i
    BY <1>2
  <2>2. CASE k <= M
    <3>1. k \in 1 .. M
      BY <2>2, <1>2, <1>5
    <3> QED BY <3>1, <2>1, <1>8 DEF Ids
  <2>3. CASE k > M
    <3>1. more /\ M \in 1 .. N /\ M < k
      BY <2>3, <1>2, <1>5, <1>6
    <3>2. Follows(page.order, s[k], Key(s[M]))
      BY <3>1, <1>2
    <3> QED BY <3>1, <3>2, <2>1, <1>6, <1>9
  <2> QED BY <2>2, <2>3, <1>2, <1>5
<1> QED BY <1>8, <1>9, <1>13, <1>14, <1>15, <1>16, <1>17, <1>18 DEF PageOf, p, L
-----------------------------------------------------------------------------
(***************************************************************************)
(* What the edits of a list do to its rows.                                *)
(***************************************************************************)
Once(items) == \A m, n \in DOMAIN items : items[m].id = items[n].id => m = n

LEMMA SeqItems ==
  ASSUME NEW items \in Seq(Item)
  PROVE  /\ Len(items) \in Nat /\ DOMAIN items = 1 .. Len(items)
         /\ \A n \in DOMAIN items : /\ items[n] \in Item /\ items[n].id \in Id
                                    /\ items[n].version \in Nat /\ items[n].id \in Ids(items)
         /\ Ids(items) \subseteq Id
<1>1. Len(items) \in Nat /\ DOMAIN items = 1 .. Len(items)
  OBVIOUS
<1>2. \A n \in DOMAIN items : items[n] \in Item
  OBVIOUS
<1> QED BY <1>1, <1>2 DEF Item, Ids

LEMMA WithoutIs ==
  ASSUME NEW items \in Seq(Item), NEW i
  PROVE  LET w == Without(items, i) IN
         /\ w \in Seq(Item)
         /\ \A k \in DOMAIN w : \E n \in DOMAIN items : w[k] = items[n] /\ items[n].id # i
         /\ Ids(w) = Ids(items) \ {i}
         /\ Once(items) => Once(w)
<1> DEFINE kept == {n \in DOMAIN items : items[n].id # i}
           R == {p \in kept \X kept : p[1] < p[2]}
           order == InOrder(kept, R)
           w == Without(items, i)
           N == Cardinality(kept)
<1>1. /\ Len(items) \in Nat /\ DOMAIN items = 1 .. Len(items)
      /\ \A n \in DOMAIN items : items[n] \in Item
  BY SeqItems
<1>2. IsFiniteSet(kept)
  <2>1. IsFiniteSet(1 .. Len(items)) /\ kept \subseteq 1 .. Len(items)
    BY <1>1, FS_Interval
  <2> QED BY <2>1, FS_Subset
<1>3. \A x, y \in kept : <<x, y>> \in R <=> x < y
  OBVIOUS
<1>4. kept \subseteq Nat /\ kept \subseteq DOMAIN items
  BY <1>1
<1>5. \A n : n \in kept <=> n \in DOMAIN items /\ items[n].id # i
  OBVIOUS
<1>6. w = [k \in DOMAIN order |-> items[order[k]]]
  BY DEF Without
<1>14. order = InOrder(kept, R)
  OBVIOUS
<1> HIDE DEF R, kept, order, w
<1>7. StrictOrder(kept, R)
  BY <1>3, <1>4 DEF StrictOrder
<1>8. Lists(order, kept, R)
  BY <1>2, <1>7, <1>14, InOrderLists
<1>9. /\ N \in Nat /\ order \in [1 .. N -> kept]
      /\ \A j, k \in 1 .. N : j < k => <<order[j], order[k]>> \in R
      /\ \A x \in kept : \E k \in 1 .. N : order[k] = x
  BY <1>2, <1>8, FS_CardinalityType DEF Lists
<1> HIDE DEF N
<1>10. DOMAIN w = 1 .. N /\ \A k \in 1 .. N : w[k] = items[order[k]] /\ order[k] \in kept
  BY <1>6, <1>9
<1>11. w \in Seq(Item)
  <2>1. w \in [1 .. N -> Item]
    BY <1>1, <1>4, <1>6, <1>9
  <2> QED BY <2>1, <1>9
<1>12. \A k \in DOMAIN w : \E n \in DOMAIN items : w[k] = items[n] /\ items[n].id # i
  BY <1>5, <1>10
<1>13. Ids(w) = Ids(items) \ {i}
  <2>1. ASSUME NEW x \in Ids(items), x # i PROVE x \in Ids(w)
    <3>1. PICK n \in DOMAIN items : items[n].id = x
      BY DEF Ids
    <3>2. PICK k \in 1 .. N : order[k] = n
      BY <2>1, <3>1, <1>5, <1>9
    <3> QED BY <3>1, <3>2, <1>10 DEF Ids
  <2>2. ASSUME NEW x \in Ids(w) PROVE x \in Ids(items) /\ x # i
    <3>1. PICK k \in DOMAIN w : w[k].id = x
      BY DEF Ids
    <3> QED BY <3>1, <1>12 DEF Ids
  <2> QED BY <2>1, <2>2
<1>15. ASSUME Once(items) PROVE Once(w)
  <2> SUFFICES ASSUME NEW j \in 1 .. N, NEW k \in 1 .. N, w[j].id = w[k].id PROVE j = k
    BY <1>10 DEF Once
  <2>1. order[j] = order[k]
    BY <1>10, <1>15, <1>5 DEF Once
  <2>2. ~(j < k) /\ ~(k < j)
    BY <2>1, <1>7, <1>9, <1>10 DEF StrictOrder
  <2> QED BY <2>2, <1>9
<1> QED BY <1>11, <1>12, <1>13, <1>15 DEF w

LEMMA AppendedIs ==
  ASSUME NEW a \in Seq(Item), NEW b \in Seq(Item)
  PROVE  /\ a \o b \in Seq(Item)
         /\ Ids(a \o b) = Ids(a) \cup Ids(b)
         /\ \A k \in DOMAIN (a \o b) :
              \/ \E n \in DOMAIN a : (a \o b)[k] = a[n]
              \/ \E n \in DOMAIN b : (a \o b)[k] = b[n]
         /\ Once(a) /\ Once(b) /\ Ids(a) \cap Ids(b) = {} => Once(a \o b)
<1> DEFINE c == a \o b
<1>1. c \in Seq(Item)
  OBVIOUS
<1>2. /\ DOMAIN c = 1 .. Len(a) + Len(b)
      /\ \A k \in 1 .. Len(a) + Len(b) : c[k] = IF k <= Len(a) THEN a[k] ELSE b[k - Len(a)]
  OBVIOUS
<1>3. /\ Len(a) \in Nat /\ DOMAIN a = 1 .. Len(a)
      /\ Len(b) \in Nat /\ DOMAIN b = 1 .. Len(b)
  BY SeqItems
<1> HIDE DEF c
<1>4. \A k \in DOMAIN c : \/ k \in DOMAIN a /\ c[k] = a[k]
                          \/ k - Len(a) \in DOMAIN b /\ c[k] = b[k - Len(a)]
  BY <1>2, <1>3
<1>5. /\ \A k \in DOMAIN a : k \in DOMAIN c /\ c[k] = a[k]
      /\ \A k \in DOMAIN b : k + Len(a) \in DOMAIN c /\ c[k + Len(a)] = b[k]
  BY <1>2, <1>3
<1>6. Ids(c) = Ids(a) \cup Ids(b)
  <2>1. Ids(c) \subseteq Ids(a) \cup Ids(b)
    BY <1>4 DEF Ids
  <2>2. Ids(a) \subseteq Ids(c) /\ Ids(b) \subseteq Ids(c)
    BY <1>5 DEF Ids
  <2> QED BY <2>1, <2>2
<1>7. ASSUME Once(a), Once(b), Ids(a) \cap Ids(b) = {} PROVE Once(c)
  <2> SUFFICES ASSUME NEW j \in DOMAIN c, NEW k \in DOMAIN c, c[j].id = c[k].id PROVE j = k
    BY DEF Once
  <2>1. CASE j \in DOMAIN a /\ c[j] = a[j] /\ k \in DOMAIN a /\ c[k] = a[k]
    BY <2>1, <1>7 DEF Once
  <2>2. CASE j - Len(a) \in DOMAIN b /\ c[j] = b[j - Len(a)] /\ k - Len(a) \in DOMAIN b /\ c[k] = b[k - Len(a)]
    <3>1. j - Len(a) = k - Len(a)
      BY <2>2, <1>7 DEF Once
    <3>2. j \in Nat /\ k \in Nat
      BY <1>2, <1>3
    <3> QED BY <3>1, <3>2, <1>3
  <2>3. ASSUME NEW m \in DOMAIN a, NEW n \in DOMAIN b, a[m].id = b[n].id PROVE FALSE
    BY <2>3, <1>7 DEF Ids
  <2> QED BY <1>4, <2>1, <2>2, <2>3
<1> QED BY <1>1, <1>4, <1>6, <1>7 DEF c
LEMMA EditedIs ==
  ASSUME NEW c, pager.items \in Seq(Item), c.id \in Id, c.answer \in Nat,
         c.op.edit \in {"prepend", "patch", "remove"}
  PROVE  LET items == pager.items e == Edited(c) IN
         /\ e \in Seq(Item)
         /\ \A k \in DOMAIN e : \/ \E n \in DOMAIN items : e[k] = items[n] /\ items[n].id # c.id
                                \/ e[k] = [id |-> c.id, version |-> c.answer]
                                \/ c.op.edit = "prepend" /\ c.id \in Ids(items)
         /\ Ids(e) = CASE c.op.edit = "prepend" -> Ids(items) \cup {c.id}
                       [] c.op.edit = "remove"  -> Ids(items) \ {c.id}
                       [] OTHER -> Ids(items)
         /\ Once(items) /\ (c.op.edit = "prepend" => c.id \notin Ids(items)) => Once(e)
<1> DEFINE items == pager.items
           e == Edited(c)
           new == [id |-> c.id, version |-> c.answer]
<1>1. new \in Item /\ new.id = c.id
  BY DEF Item
<1>2. /\ DOMAIN items = 1 .. Len(items)
      /\ \A n \in DOMAIN items : items[n] \in Item /\ items[n].id \in Ids(items)
  BY SeqItems
<1>3. CASE c.op.edit = "prepend"
  <2>1. e = <<new>> \o items
    BY <1>3 DEF Edited
  <2>2. /\ <<new>> \in Seq(Item) /\ DOMAIN <<new>> = {1} /\ <<new>>[1] = new
    BY <1>1
  <2>3. Ids(<<new>>) = {c.id} /\ Once(<<new>>)
    BY <2>2, <1>1 DEF Ids, Once
  <2> DEFINE s == <<new>>
  <2> HIDE DEF s, new, e, items
  <2>4. e = s \o items /\ s \in Seq(Item) /\ Ids(s) = {c.id} /\ Once(s)
        /\ DOMAIN s = {1} /\ s[1] = new /\ items \in Seq(Item)
    BY <2>1, <2>2, <2>3 DEF s, items
  <2>5. /\ e \in Seq(Item) /\ Ids(e) = Ids(s) \cup Ids(items)
        /\ \A k \in DOMAIN e : \/ \E n \in DOMAIN s : e[k] = s[n]
                               \/ \E n \in DOMAIN items : e[k] = items[n]
        /\ Once(s) /\ Once(items) /\ Ids(s) \cap Ids(items) = {} => Once(e)
    <3>1. s \in Seq(Item) /\ items \in Seq(Item)
      BY <2>4
    <3>2. /\ s \o items \in Seq(Item)
          /\ Ids(s \o items) = Ids(s) \cup Ids(items)
          /\ \A k \in DOMAIN (s \o items) :
               \/ \E n \in DOMAIN s : (s \o items)[k] = s[n]
               \/ \E n \in DOMAIN items : (s \o items)[k] = items[n]
          /\ Once(s) /\ Once(items) /\ Ids(s) \cap Ids(items) = {} => Once(s \o items)
      BY <3>1, AppendedIs, Zenon
    <3> QED BY <2>4, <3>2, Zenon
  <2>6. \A k \in DOMAIN e : \/ \E n \in DOMAIN items : e[k] = items[n] /\ items[n].id # c.id
                            \/ e[k] = new
                            \/ c.id \in Ids(items)
    BY <2>4, <2>5, <1>2
  <2>7. Ids(e) = Ids(items) \cup {c.id}
    BY <2>4, <2>5
  <2>8. Once(items) /\ c.id \notin Ids(items) => Once(e)
    BY <2>4, <2>5
  <2> QED BY <2>5, <2>6, <2>7, <2>8, <1>3 DEF items, e, new
<1>4. CASE c.op.edit = "remove"
  <2>1. e = Without(items, c.id)
    BY <1>4 DEF Edited
  <2> HIDE DEF items, e, new
  <2>3. items \in Seq(Item)
    BY DEF items
  <2>2. /\ e \in Seq(Item)
        /\ \A k \in DOMAIN e : \E n \in DOMAIN items : e[k] = items[n] /\ items[n].id # c.id
        /\ Ids(e) = Ids(items) \ {c.id}
        /\ Once(items) => Once(e)
    BY <2>1, <2>3, WithoutIs
  <2> QED BY <2>2, <1>4 DEF items, e, new
<1>5. CASE c.op.edit = "patch"
  <2>1. e = [n \in DOMAIN items |->
               IF items[n].id = c.id THEN [items[n] EXCEPT !.version = c.answer] ELSE items[n]]
    BY <1>5 DEF Edited
  <2>2. \A n \in DOMAIN items : items[n].id = c.id => [items[n] EXCEPT !.version = c.answer] = new
    BY <1>2 DEF Item
  <2> HIDE DEF items, e, new
  <2>3. /\ DOMAIN e = DOMAIN items
        /\ \A n \in DOMAIN items : e[n] = IF items[n].id = c.id THEN new ELSE items[n]
    BY <2>1, <2>2
  <2>4. \A n \in DOMAIN items : e[n] \in Item /\ e[n].id = items[n].id
    BY <2>3, <1>1, <1>2
  <2>5. e \in Seq(Item)
    <3>1. items \in Seq(Item)
      BY DEF items
    <3>2. Len(items) \in Nat
      BY <3>1
    <3>3. e \in [1 .. Len(items) -> Item]
      <4>1. e = [n \in DOMAIN items |-> e[n]]
        BY <2>1
      <4> QED BY <4>1, <2>4, <1>2
    <3> QED BY <3>2, <3>3
  <2>6. Ids(e) = Ids(items)
    BY <2>3, <2>4 DEF Ids
  <2>7. Once(items) => Once(e)
    BY <2>3, <2>4 DEF Once
  <2>8. \A k \in DOMAIN e : \/ \E n \in DOMAIN items : e[k] = items[n] /\ items[n].id # c.id
                            \/ e[k] = new
    BY <2>3
  <2> QED BY <2>5, <2>6, <2>7, <2>8, <1>5 DEF items, e, new
<1> QED BY <1>3, <1>4, <1>5
-----------------------------------------------------------------------------
(***************************************************************************)
(* Types.                                                                  *)
(***************************************************************************)
PagerType == [items : Seq(Item), status : {"loading", "ready", "error"}, loadingMore : BOOLEAN,
              hasMore : BOOLEAN, cursor : Cursor, generation : Nat]
RequestType == [kind : {"first", "more"}, gen : Nat, query : Query, cursor : Cursor, page : Answer]
CallType == [op : page.ops, id : Id \cup {0}, answer : Nat \cup {None}]

\* A call that changes a row, or has been answered, is about a row.
Known(c) == c.op.effect # "create" \/ c.answer # None => c.id \in Id

TInv == TypeOK /\ \A c \in calls : Known(c)

LEMMA TypeParts ==
  TypeOK <=> /\ page \in Page /\ rows \in [Id -> RowType]
             /\ now \in Nat /\ other \in Nat /\ typed \in Query /\ query \in Query
             /\ pager \in PagerType /\ net \subseteq RequestType /\ calls \subseteq CallType
             /\ base \subseteq Id /\ overlap \in BOOLEAN /\ lost \in BOOLEAN
BY DEF TypeOK, RowType, PagerType, RequestType, CallType

LEMMA PagerParts ==
  ASSUME pager \in PagerType
  PROVE  /\ pager.items \in Seq(Item) /\ pager.status \in {"loading", "ready", "error"}
         /\ pager.loadingMore \in BOOLEAN /\ pager.hasMore \in BOOLEAN
         /\ pager.cursor \in Cursor /\ pager.generation \in Nat
BY DEF PagerType

LEMMA RequestParts ==
  ASSUME NEW r \in RequestType
  PROVE  /\ r.kind \in {"first", "more"} /\ r.gen \in Nat /\ r.query \in Query
         /\ r.cursor \in Cursor /\ r.page \in Answer
         /\ r.page.items \in Seq(Item) /\ r.page.next_cursor \in Cursor
         /\ r.page.has_more \in BOOLEAN /\ r.page.seen \subseteq Id
BY DEF RequestType, Answer

LEMMA CallParts ==
  ASSUME page \in Page, NEW c \in CallType
  PROVE  /\ c.op \in page.ops /\ c.id \in Id \cup {0} /\ c.answer \in Nat \cup {None}
         /\ \/ c.op.effect = "create" /\ c.op.edit = "prepend"
            \/ c.op.effect = "change" /\ c.op.edit = "patch"
            \/ c.op.effect = "remove" /\ c.op.edit = "remove"
         /\ c.op.effect # "change" => c.op.guard = "dialog"
BY Pages DEF CallType

LEMMA NoPageType == NoPage \in Answer /\ NoPage.items = <<>> /\ NoPage.seen = {}
BY DEF NoPage, Answer, Cursor

LEMMA NewRequest ==
  ASSUME NEW kind \in {"first", "more"}, NEW gen \in Nat, NEW q \in Query, NEW c \in Cursor
  PROVE  LET r == Request(kind, gen, q, c) IN
         /\ r \in RequestType /\ r.kind = kind /\ r.gen = gen /\ r.query = q /\ r.cursor = c
         /\ r.page = NoPage
BY NoPageType DEF Request, RequestType

\* The same request, with the same page if it has one, and no more seen.
Later(q, r) ==
  /\ q \in RequestType
  /\ q.kind = r.kind /\ q.gen = r.gen /\ q.query = r.query /\ q.cursor = r.cursor
  /\ q.page.items = r.page.items /\ q.page.next_cursor = r.page.next_cursor
  /\ q.page.has_more = r.page.has_more /\ q.page.seen \subseteq r.page.seen
  /\ q.page # NoPage => r.page # NoPage

LEMMA LaterIsReflexive == \A r \in RequestType : Later(r, r)
BY DEF Later

LEMMA LaterForgotten ==
  ASSUME NEW r \in RequestType, NEW i
  PROVE  LET q == [r EXCEPT !.page.seen = @ \ {i}] IN Later(q, r) /\ i \notin q.page.seen
<1> DEFINE q == [r EXCEPT !.page.seen = @ \ {i}]
           p == [r.page EXCEPT !.seen = @ \ {i}]
<1>1. r.page \in Answer
  BY RequestParts
<1>2. /\ p \in Answer /\ p.items = r.page.items /\ p.next_cursor = r.page.next_cursor
      /\ p.has_more = r.page.has_more /\ p.seen = r.page.seen \ {i}
  BY <1>1 DEF Answer
<1>3. r.page = NoPage => p = NoPage
  <2> SUFFICES ASSUME r.page = NoPage PROVE p = NoPage
    OBVIOUS
  <2>1. p = [NoPage EXCEPT !.seen = {}]
    BY NoPageType
  <2> DEFINE no == <<>>
             none == {}
             yes == TRUE
  <2>2. NoPage = [items |-> no, next_cursor |-> None, has_more |-> yes, seen |-> none]
    BY DEF NoPage
  <2> HIDE DEF no, none, yes
  <2>3. [NoPage EXCEPT !.seen = none] = NoPage
    BY <2>2
  <2> QED BY <2>1, <2>3 DEF none
<1>4. q = [r EXCEPT !.page = p]
  BY DEF RequestType
<1> HIDE DEF p, q
<1>5. /\ q \in RequestType /\ q.page = p /\ q.kind = r.kind /\ q.gen = r.gen
      /\ q.query = r.query /\ q.cursor = r.cursor
  BY <1>2, <1>4 DEF RequestType
<1> QED BY <1>2, <1>3, <1>5 DEF Later, q

\* What a change does to the rows and to what has been seen of them.
RowCreated(i) ==
  /\ rows'[i].live /\ rows'[i].version = rows[i].version + 1
  /\ rows'[i].created = IF rows[i].created = 0 THEN now ELSE rows[i].created

EffectFacts(effect, i) ==
  /\ rows' \in [Id -> RowType]
  /\ \A j \in Id : j # i => rows'[j] = rows[j]
  /\ effect = "create" => ~Live(i) /\ (rows[i].created = 0 \/ page.revives) /\ RowCreated(i)
  /\ effect # "create" => Live(i) /\ rows'[i].created = rows[i].created
  /\ effect = "change" => Live(i)' /\ rows'[i].version = rows[i].version + 1
  /\ effect \notin {"create", "change"} =>
       ~Live(i)' /\ rows'[i].version = rows[i].version /\ i \notin base'
  /\ base' \subseteq base
  /\ \A q \in net' : \E r \in net :
       Later(q, r) /\ (effect \notin {"create", "change"} => i \notin q.page.seen)

LEMMA EffectIs ==
  ASSUME TypeOK, NEW effect, NEW i \in Id, Effect(effect, i)
  PROVE  EffectFacts(effect, i)
<1>1. /\ rows \in [Id -> RowType] /\ net \subseteq RequestType /\ now \in Nat
      /\ rows[i] \in RowType
  BY TypeParts
<1>2. CASE effect = "create"
  <2>1. /\ i \in Creatable /\ UNCHANGED <<base, net>>
        /\ rows' = [rows EXCEPT ![i] = [created |-> IF @.created = 0 THEN now ELSE @.created,
                                        live |-> TRUE, version |-> @.version + 1]]
    BY <1>2 DEF Effect, Created
  <2> DEFINE w == [created |-> IF rows[i].created = 0 THEN now ELSE rows[i].created,
                   live |-> TRUE, version |-> rows[i].version + 1]
  <2>2. w \in RowType /\ w.live /\ w.version = rows[i].version + 1
        /\ w.created = IF rows[i].created = 0 THEN now ELSE rows[i].created
    BY <1>1 DEF RowType
  <2>3. rows' = [rows EXCEPT ![i] = w]
    BY <2>1
  <2> HIDE DEF w
  <2>4. rows' \in [Id -> RowType] /\ rows'[i] = w /\ \A j \in Id : j # i => rows'[j] = rows[j]
    BY <2>2, <2>3, <1>1
  <2>5. RowCreated(i)
    BY <2>2, <2>4 DEF RowCreated
  <2>6. ~Live(i) /\ (rows[i].created = 0 \/ page.revives)
    BY <2>1 DEF Creatable
  <2>7. \A q \in net' : \E r \in net : Later(q, r)
    BY <2>1, <1>1, LaterIsReflexive
  <2> QED BY <1>2, <2>1, <2>4, <2>5, <2>6, <2>7 DEF EffectFacts
<1>3. CASE effect = "change"
  <2>1. /\ Live(i) /\ UNCHANGED <<base, net>> /\ rows' = [rows EXCEPT ![i].version = @ + 1]
    BY <1>3 DEF Effect, Changed
  <2> DEFINE w == [rows[i] EXCEPT !.version = @ + 1]
  <2>2. w \in RowType /\ w.live = rows[i].live /\ w.created = rows[i].created
        /\ w.version = rows[i].version + 1
    BY <1>1 DEF RowType
  <2>3. rows' = [rows EXCEPT ![i] = w]
    BY <2>1
  <2> HIDE DEF w
  <2>4. rows' \in [Id -> RowType] /\ rows'[i] = w /\ \A j \in Id : j # i => rows'[j] = rows[j]
    BY <2>2, <2>3, <1>1
  <2>5. \A q \in net' : \E r \in net : Later(q, r)
    BY <2>1, <1>1, LaterIsReflexive
  <2>6. Live(i)'
    BY <2>1, <2>2, <2>4 DEF Live
  <2> QED BY <1>3, <2>1, <2>2, <2>4, <2>5, <2>6 DEF EffectFacts
<1>4. CASE effect \notin {"create", "change"}
  <2>1. /\ Live(i) /\ Forget(i) /\ rows' = [rows EXCEPT ![i].live = FALSE]
    BY <1>4 DEF Effect, Removed
  <2> DEFINE w == [rows[i] EXCEPT !.live = FALSE]
  <2>2. w \in RowType /\ w.live = FALSE /\ w.created = rows[i].created
        /\ w.version = rows[i].version
    BY <1>1 DEF RowType
  <2>3. rows' = [rows EXCEPT ![i] = w]
    BY <2>1
  <2> HIDE DEF w
  <2>4. rows' \in [Id -> RowType] /\ rows'[i] = w /\ \A j \in Id : j # i => rows'[j] = rows[j]
    BY <2>2, <2>3, <1>1
  <2>5. base' = base \ {i} /\ net' = {[r EXCEPT !.page.seen = @ \ {i}] : r \in net}
    BY <2>1 DEF Forget
  <2>6. ASSUME NEW q \in net' PROVE \E r \in net : Later(q, r) /\ i \notin q.page.seen
    <3>1. PICK r \in net : q = [r EXCEPT !.page.seen = @ \ {i}]
      BY <2>5
    <3>2. r \in RequestType
      BY <1>1
    <3> QED BY <3>1, <3>2, LaterForgotten
  <2>7. ~Live(i)'
    BY <2>2, <2>4 DEF Live
  <2> QED BY <1>4, <2>1, <2>2, <2>4, <2>5, <2>6, <2>7 DEF EffectFacts
<1> QED BY <1>2, <1>3, <1>4
LEMMA TypePartsNext ==
  ASSUME page' \in Page, rows' \in [Id -> RowType],
         now' \in Nat, other' \in Nat, typed' \in Query, query' \in Query,
         pager' \in PagerType, net' \subseteq RequestType, calls' \subseteq CallType', base' \subseteq Id,
         overlap' \in BOOLEAN, lost' \in BOOLEAN
  PROVE  TypeOK'
BY DEF TypeOK, RowType, PagerType, RequestType, CallType

LEMMA QueriesType == ASSUME NEW p PROVE QueryOf(p) \subseteq Query
BY DEF QueryOf, Query

\* The page visited stays, and with it the calls it can make.
SamePage == page' = page /\ CallType' = CallType

LEMMA PageStays == ASSUME page' = page PROVE SamePage
BY DEF SamePage, CallType

LEMMA TypesInit == Init => TInv
<1> SUFFICES ASSUME Init PROVE TInv
  OBVIOUS
<1>1. rows \in [Id -> RowType]
  <2>1. rows \in [Id -> [created : {0, 1}, live : BOOLEAN, version : {0, 1}]]
    BY DEF Init
  <2>2. \A i \in Id : rows[i] \in RowType
    BY <2>1 DEF RowType
  <2> QED BY <2>1, <2>2
<1>2. query \in Query /\ typed \in Query
  BY QueriesType DEF Init
<1>3. pager \in PagerType
  BY DEF Init, PagerType, Cursor
<1>4. net \subseteq RequestType
  <2>1. net = {Request("first", 1, query, None)} /\ None \in Cursor
    BY DEF Init, Cursor
  <2> QED BY <2>1, <1>2, NewRequest
<1>5. /\ page \in Page /\ now = 1 /\ other = 0 /\ calls = {} /\ base = {}
      /\ overlap = FALSE /\ lost = FALSE
  BY DEF Init
<1>6. TypeOK
  BY <1>1, <1>2, <1>3, <1>4, <1>5, TypeParts
<1> QED BY <1>5, <1>6 DEF TInv

LEMMA loadTypes ==
  ASSUME TInv, NEW q \in Query, load(q)
  PROVE  /\ pager' \in PagerType /\ net' \subseteq RequestType /\ overlap' \in BOOLEAN
         /\ pager'.generation = pager.generation + 1 /\ pager'.status = "loading"
         /\ pager'.loadingMore = FALSE /\ pager'.items = pager.items
         /\ pager'.hasMore = pager.hasMore /\ pager'.cursor = pager.cursor
<1>1. /\ pager \in PagerType /\ net \subseteq RequestType /\ overlap \in BOOLEAN
      /\ pager.generation + 1 \in Nat
  BY TypeParts, PagerParts DEF TInv
<1>2. pager' = [pager EXCEPT !.generation = @ + 1, !.status = "loading", !.loadingMore = FALSE]
  BY DEF load
<1>3. Request("first", pager.generation + 1, q, None) \in RequestType
  BY <1>1, NewRequest DEF Cursor
<1>4. net' \subseteq RequestType
  BY <1>1, <1>3 DEF load
<1>5. overlap' \in BOOLEAN
  BY <1>1 DEF load
<1>6. pager' \in PagerType
  BY <1>1, <1>2 DEF PagerType
<1> QED BY <1>1, <1>2, <1>4, <1>5, <1>6 DEF PagerType

LEMMA TookIs ==
  ASSUME pager \in PagerType, NEW r \in RequestType, NEW items \in Seq(Item)
  PROVE  LET t == Took(r, items) IN
         /\ t \in PagerType /\ t.items = items /\ t.status = "ready" /\ t.loadingMore = FALSE
         /\ t.hasMore = r.page.has_more /\ t.cursor = r.page.next_cursor
         /\ t.generation = pager.generation
BY RequestParts DEF Took, PagerType

\* The row of a call that is started is one of the list, or a new one.
LEMMA TargetIs ==
  ASSUME TInv, NEW op \in page.ops, NEW i \in Targets(op)
  PROVE  /\ Call(op, i) \in CallType /\ Known(Call(op, i))
         /\ Call(op, i).op = op /\ Call(op, i).id = i /\ Call(op, i).answer = None
         /\ op.effect # "create" => i \in Ids(pager.items) /\ i \in Id
         /\ op.effect = "create" => i = 0
<1>1. Ids(pager.items) \subseteq Id
  BY TypeParts, PagerParts, SeqItems DEF TInv
<1> QED BY <1>1 DEF Targets, visible, Call, CallType, Known

\* The call that the server has carried out, on row i.
LEMMA AnsweredIs ==
  ASSUME TypeOK, page' = page, NEW c \in CallType, NEW i \in Id, rows' \in [Id -> RowType]
  PROVE  LET a == [c EXCEPT !.id = i, !.answer = rows'[i].version] IN
         /\ a \in CallType /\ Known(a)
         /\ a.op = c.op /\ a.id = i /\ a.answer = rows'[i].version /\ a.answer # None
<1>1. rows'[i].version \in Nat /\ rows'[i].version # None
  BY Numbers DEF RowType
<1> QED BY <1>1 DEF CallType, Known

LEMMA ApplyIs ==
  ASSUME TInv, NEW c \in calls, Apply(c)
  PROVE  \E i \in Id, a \in CallType :
           /\ EffectFacts(c.op.effect, i)
           /\ c.op.effect # "create" => i = c.id
           /\ calls' = (calls \ {c}) \cup {a}
           /\ a.op = c.op /\ a.id = i /\ a.answer = rows'[i].version /\ a.answer # None
<1>1. PICK i \in IF c.op.effect = "create" THEN Id ELSE {c.id} :
        /\ Effect(c.op.effect, i)
        /\ calls' = (calls \ {c}) \cup {[c EXCEPT !.id = i, !.answer = rows'[i].version]}
  BY DEF Apply
<1>2. i \in Id /\ page' = page /\ c \in CallType
  BY <1>1, TypeParts DEF TInv, Known, Apply
<1>3. EffectFacts(c.op.effect, i)
  BY <1>1, <1>2, EffectIs DEF TInv
<1> DEFINE a == [c EXCEPT !.id = i, !.answer = rows'[i].version]
<1>4. /\ a \in CallType
      /\ a.op = c.op /\ a.id = i /\ a.answer = rows'[i].version /\ a.answer # None
  BY <1>2, <1>3, AnsweredIs DEF TInv, EffectFacts
<1>5. calls' = (calls \ {c}) \cup {a}
  BY <1>1
<1>6. c.op.effect # "create" => i = c.id
  BY <1>1
<1> HIDE DEF a
<1> QED BY <1>2, <1>3, <1>4, <1>5, <1>6

LEMMA OtherIs ==
  ASSUME TInv, Other
  PROVE  \E effect \in {"create", "change", "remove"}, i \in Id : EffectFacts(effect, i)
BY EffectIs DEF Other, TInv

LEMMA ReadIs ==
  ASSUME TInv, NEW r \in net, Read(r)
  PROVE  \E q \in RequestType :
           /\ net' = (net \ {r}) \cup {q}
           /\ q.kind = r.kind /\ q.gen = r.gen /\ q.query = r.query /\ q.cursor = r.cursor
           /\ PageOf(q.page, Listed(r.query, r.cursor), rows, page.order)
<1>1. r \in RequestType /\ rows \in [Id -> RowType] /\ page \in Page
  BY TypeParts DEF TInv
<1> DEFINE p == ReadPage(r.query, r.cursor)
           q == [r EXCEPT !.page = p]
<1>2. net' = (net \ {r}) \cup {q}
  BY DEF Read
<1>3. PageOf(p, Listed(r.query, r.cursor), rows, page.order)
  BY <1>1, PageIsRead
<1> HIDE DEF p
<1>4. p \in Answer
  BY <1>3 DEF PageOf
<1>5. /\ q \in RequestType /\ q.page = p /\ q.kind = r.kind /\ q.gen = r.gen /\ q.query = r.query
      /\ q.cursor = r.cursor
  BY <1>1, <1>4 DEF RequestType
<1> QED BY <1>2, <1>3, <1>5

LEMMA ReceiveIs ==
  ASSUME TInv, NEW r \in net, Receive(r)
  PROVE  /\ r \in RequestType /\ r.page # NoPage /\ net' = net \ {r} /\ pager' \in PagerType
         /\ pager'.generation = pager.generation
         /\ r.gen # pager.generation => pager' = pager /\ base' = base
         /\ r.gen = pager.generation =>
              /\ pager'.status = "ready" /\ pager'.loadingMore = FALSE
              /\ pager'.hasMore = r.page.has_more /\ pager'.cursor = r.page.next_cursor
              /\ r.kind = "first" => pager'.items = r.page.items /\ base' = r.page.seen
              /\ r.kind # "first" => pager'.items = pager.items \o r.page.items /\ base' = base
<1>1. r \in RequestType /\ pager \in PagerType
  BY TypeParts DEF TInv
<1>2. /\ r.page.items \in Seq(Item) /\ pager.items \in Seq(Item)
      /\ pager.items \o r.page.items \in Seq(Item)
  BY <1>1, RequestParts, PagerParts, AppendedIs
<1>3. r.page # NoPage /\ net' = net \ {r}
  BY DEF Receive
<1>4. CASE r.gen # pager.generation
  BY <1>1, <1>3, <1>4 DEF Receive
<1>5. CASE r.gen = pager.generation /\ r.kind = "first"
  <2>1. pager' = Took(r, r.page.items) /\ base' = r.page.seen
    BY <1>5 DEF Receive
  <2> QED BY <1>1, <1>2, <1>3, <1>5, <2>1, TookIs
<1>6. CASE r.gen = pager.generation /\ r.kind # "first"
  <2>1. pager' = Took(r, pager.items \o r.page.items) /\ base' = base
    BY <1>6 DEF Receive
  <2> QED BY <1>1, <1>2, <1>3, <1>6, <2>1, TookIs
<1> QED BY <1>4, <1>5, <1>6

LEMMA FailIs ==
  ASSUME TInv, NEW r \in net, Fail(r)
  PROVE  /\ net' = net \ {r} /\ pager' \in PagerType /\ pager'.items = pager.items
         /\ pager'.hasMore = pager.hasMore /\ pager'.cursor = pager.cursor
         /\ pager'.generation = pager.generation
         /\ pager'.status \in {pager.status, "error"}
         /\ pager'.loadingMore => pager.loadingMore
         /\ r.gen # pager.generation => pager' = pager
         /\ r.gen = pager.generation /\ r.kind = "first" => pager'.status = "error"
         /\ r.kind # "first" => pager'.status = pager.status
         /\ r.gen = pager.generation /\ r.kind # "first" => pager'.loadingMore = FALSE
<1>1. pager \in PagerType /\ net' = net \ {r}
  BY TypeParts DEF TInv, Fail
<1>2. CASE r.gen # pager.generation
  BY <1>1, <1>2 DEF Fail
<1>3. CASE r.gen = pager.generation /\ r.kind = "first"
  <2>1. pager' = [pager EXCEPT !.status = "error"]
    BY <1>3 DEF Fail
  <2> QED BY <1>1, <1>3, <2>1 DEF PagerType
<1>4. CASE r.gen = pager.generation /\ r.kind # "first"
  <2>1. pager' = [pager EXCEPT !.loadingMore = FALSE]
    BY <1>4 DEF Fail
  <2> QED BY <1>1, <1>4, <2>1 DEF PagerType
<1> QED BY <1>2, <1>3, <1>4

\* What the list shows after a confirmed change.
LEMMA ConfirmedIs ==
  ASSUME TInv, NEW c \in calls, Confirmed(c)
  PROVE  LET items == pager.items e == pager'.items IN
         /\ c \in CallType /\ c.id \in Id /\ c.answer \in Nat /\ calls' = calls \ {c}
         /\ pager' \in PagerType
         /\ pager'.status = pager.status /\ pager'.loadingMore = pager.loadingMore
         /\ pager'.hasMore = pager.hasMore /\ pager'.cursor = pager.cursor
         /\ pager'.generation = pager.generation
         /\ \A k \in DOMAIN e : \/ \E n \in DOMAIN items : e[k] = items[n] /\ items[n].id # c.id
                                \/ e[k] = [id |-> c.id, version |-> c.answer] /\ c.op.effect # "remove"
                                \/ c.op.effect = "create" /\ c.id \in Ids(items)
         /\ c.op.effect = "create" => Ids(e) = Ids(items) \cup {c.id}
         /\ c.op.effect = "change" => Ids(e) = Ids(items)
         /\ c.op.effect = "remove" => Ids(e) = Ids(items) \ {c.id}
         /\ Once(items) /\ (c.op.effect = "create" => c.id \notin Ids(items)) => Once(e)
<1>1. /\ c \in CallType /\ pager \in PagerType /\ page \in Page /\ c.answer # None
      /\ calls' = calls \ {c} /\ Known(c)
  BY TypeParts DEF TInv, Confirmed
<1>2. /\ c.id \in Id /\ c.answer \in Nat /\ c.op.edit \in {"prepend", "patch", "remove"}
      /\ c.op.effect = "create" <=> c.op.edit = "prepend"
      /\ c.op.effect = "change" <=> c.op.edit = "patch"
      /\ c.op.effect = "remove" <=> c.op.edit = "remove"
  BY <1>1, CallParts DEF Known
<1>3. pager.items \in Seq(Item)
  BY <1>1, PagerParts
<1> DEFINE items == pager.items
           e == Edited(c)
<1>4. /\ e \in Seq(Item)
      /\ \A k \in DOMAIN e : \/ \E n \in DOMAIN items : e[k] = items[n] /\ items[n].id # c.id
                             \/ e[k] = [id |-> c.id, version |-> c.answer]
                             \/ c.op.edit = "prepend" /\ c.id \in Ids(items)
      /\ Ids(e) = CASE c.op.edit = "prepend" -> Ids(items) \cup {c.id}
                    [] c.op.edit = "remove"  -> Ids(items) \ {c.id}
                    [] OTHER -> Ids(items)
      /\ Once(items) /\ (c.op.edit = "prepend" => c.id \notin Ids(items)) => Once(e)
  BY <1>2, <1>3, EditedIs
<1>5. pager' = [pager EXCEPT !.items = e]
  BY DEF Confirmed
<1> HIDE DEF e
<1>6. /\ pager' \in PagerType /\ pager'.items = e
      /\ pager'.status = pager.status /\ pager'.loadingMore = pager.loadingMore
      /\ pager'.hasMore = pager.hasMore /\ pager'.cursor = pager.cursor
      /\ pager'.generation = pager.generation
  BY <1>1, <1>4, <1>5 DEF PagerType
<1>7. /\ c.op.effect = "create" => Ids(e) = Ids(items) \cup {c.id}
      /\ c.op.effect = "change" => Ids(e) = Ids(items)
      /\ c.op.effect = "remove" => Ids(e) = Ids(items) \ {c.id}
  BY <1>2, <1>4
<1>8. ASSUME NEW k \in DOMAIN e, c.op.effect = "remove" PROVE e[k].id # c.id
  <2>1. e[k].id \in Ids(e)
    BY DEF Ids
  <2> QED BY <2>1, <1>7, <1>8
<1> QED BY <1>1, <1>2, <1>4, <1>6, <1>7, <1>8
LEMMA TypesStep == TInv /\ [Next]_vars => TInv'
<1> SUFFICES ASSUME TInv, [Next]_vars PROVE TInv'
  OBVIOUS
<1>0. /\ page \in Page /\ rows \in [Id -> RowType]
      /\ now \in Nat /\ other \in Nat /\ typed \in Query /\ query \in Query
      /\ pager \in PagerType /\ net \subseteq RequestType /\ calls \subseteq CallType
      /\ base \subseteq Id /\ overlap \in BOOLEAN /\ lost \in BOOLEAN
      /\ \A c \in calls : Known(c)
  BY TypeParts DEF TInv
<1> DEFINE Calls == calls' \subseteq CallType /\ \A c \in calls' : Known(c)
<1>1. ASSUME page' = page, rows' \in [Id -> RowType],
             now' \in Nat, other' \in Nat, typed' \in Query, query' \in Query,
             pager' \in PagerType, net' \subseteq RequestType, Calls, base' \subseteq Id,
             overlap' \in BOOLEAN, lost' \in BOOLEAN
      PROVE  TInv'
  <2>1. page' \in Page /\ calls' \subseteq CallType'
    BY <1>0, <1>1, PageStays DEF SamePage
  <2>2. TypeOK'
    BY <1>1, <2>1, TypePartsNext
  <2> QED BY <1>1, <2>2 DEF TInv, Known
<1>2. Calls <=> /\ calls' \subseteq CallType
                /\ \A c \in calls' : Known(c)
  OBVIOUS
<1> HIDE DEF Calls
<1>3. calls' \subseteq calls => Calls
  BY <1>0, <1>2
<1>4. ASSUME NEW effect, NEW i, EffectFacts(effect, i)
      PROVE  rows' \in [Id -> RowType] /\ net' \subseteq RequestType /\ base' \subseteq Id
  BY <1>0, <1>4 DEF EffectFacts, Later
<1>5. CASE Type
  BY <1>0, <1>1, <1>3, <1>5, QueriesType DEF Type
<1>6. CASE Search
  <2>1. query' \in Query /\ typed' \in Query /\ load(query')
    BY <1>0, <1>6, QueriesType DEF Search
  <2> QED BY <1>0, <1>1, <1>3, <1>6, <2>1, loadTypes DEF Search
<1>7. CASE Retry
  BY <1>0, <1>1, <1>3, <1>7, loadTypes DEF Retry
<1>8. CASE loadMore
  <2>1. pager' = [pager EXCEPT !.loadingMore = TRUE]
    BY <1>8 DEF loadMore
  <2>2. pager' \in PagerType
    BY <1>0, <2>1 DEF PagerType
  <2>3. Request("more", pager.generation, query, pager.cursor) \in RequestType
    BY <1>0, PagerParts, NewRequest
  <2> QED BY <1>0, <1>1, <1>3, <1>8, <2>2, <2>3 DEF loadMore
<1>9. ASSUME NEW op \in page.ops, NEW i \in Targets(op), Send(op, i) PROVE TInv'
  <2>1. Call(op, i) \in CallType /\ Known(Call(op, i))
    BY TargetIs
  <2>2. Calls
    BY <1>0, <1>2, <1>9, <2>1 DEF Send
  <2> QED BY <1>0, <1>1, <1>9, <2>2 DEF Send
<1>10. CASE Other
  <2>1. rows' \in [Id -> RowType] /\ net' \subseteq RequestType /\ base' \subseteq Id
    BY <1>4, <1>10, OtherIs
  <2> QED BY <1>0, <1>1, <1>3, <1>10, <2>1 DEF Other
<1>11. ASSUME NEW r \in net, Read(r) PROVE TInv'
  <2>1. net' \subseteq RequestType
    BY <1>0, <1>11, ReadIs
  <2> QED BY <1>0, <1>1, <1>3, <1>11, <2>1 DEF Read
<1>12. ASSUME NEW r \in net, Receive(r) PROVE TInv'
  <2>1. net' \subseteq RequestType /\ pager' \in PagerType /\ base' \subseteq Id
    BY <1>0, <1>12, ReceiveIs, RequestParts
  <2> QED BY <1>0, <1>1, <1>3, <1>12, <2>1 DEF Receive
<1>13. ASSUME NEW r \in net, Fail(r) PROVE TInv'
  <2>1. net' \subseteq RequestType /\ pager' \in PagerType
    BY <1>0, <1>13, FailIs
  <2> QED BY <1>0, <1>1, <1>3, <1>13, <2>1 DEF Fail
<1>14. ASSUME NEW c \in calls, Apply(c) PROVE TInv'
  <2>1. PICK i \in Id, a \in CallType :
          /\ EffectFacts(c.op.effect, i)
          /\ calls' = (calls \ {c}) \cup {a} /\ a.id = i
    BY <1>14, ApplyIs
  <2>2. rows' \in [Id -> RowType] /\ net' \subseteq RequestType /\ base' \subseteq Id
    BY <1>4, <2>1
  <2>3. Calls
    BY <1>0, <1>2, <2>1 DEF Known
  <2> QED BY <1>0, <1>1, <1>14, <2>2, <2>3 DEF Apply
<1>15. ASSUME NEW c \in calls, Confirmed(c) PROVE TInv'
  <2>1. pager' \in PagerType /\ calls' \subseteq calls
    BY <1>15, ConfirmedIs
  <2> QED BY <1>0, <1>1, <1>3, <1>15, <2>1 DEF Confirmed
<1>16. ASSUME NEW c \in calls, Refused(c) PROVE TInv'
  BY <1>0, <1>1, <1>3, <1>16 DEF Refused
<1>17. CASE UNCHANGED vars
  BY <1>0, <1>1, <1>3, <1>17 DEF vars
<1> QED BY <1>5, <1>6, <1>7, <1>8, <1>9, <1>10, <1>11, <1>12, <1>13, <1>14, <1>15, <1>16, <1>17
        DEF Next, User

\* The values of the columns, the fields and the requests stay in their types,
\* whatever is in the answers and in whatever order they come.
THEOREM TypesHold == Spec => []TypeOK
<1>1. TInv => TypeOK
  BY DEF TInv
<1> QED BY TypesInit, TypesStep, <1>1, PTL DEF Spec
-----------------------------------------------------------------------------
(***************************************************************************)
(* The rows and the requests.  A row that lives has a date, not later than *)
(* now, and a version.  Of the pager's generation there is at most one     *)
(* request; it asks for what the list shows, from the pager's cursor on.   *)
(***************************************************************************)
RowsInv ==
  /\ now >= 1
  /\ \A i \in Id : /\ rows[i].created <= now
                   /\ Live(i) => rows[i].created # 0 /\ rows[i].version >= 1

Current(r) == r.gen = pager.generation

RequestsInv ==
  /\ query \in QueryOf(page) /\ typed \in QueryOf(page)
  /\ pager.hasMore => pager.cursor # None
  /\ \A r \in net :
       /\ r.gen <= pager.generation
       /\ r.kind = "first" <=> r.cursor = None
       /\ r.page # NoPage => (r.page.has_more <=> r.page.next_cursor # None)
       /\ Current(r) => r.query = query
       /\ Current(r) /\ r.kind = "first" => pager.status = "loading"
       /\ Current(r) /\ r.kind = "more" =>
            pager.status = "ready" /\ pager.loadingMore /\ r.cursor = pager.cursor
  /\ \A q, r \in net : Current(q) /\ Current(r) => q = r

LEMMA RowsInit == Init => RowsInv
<1> SUFFICES ASSUME Init PROVE RowsInv
  OBVIOUS
<1>1. rows \in [Id -> [created : {0, 1}, live : BOOLEAN, version : {0, 1}]] /\ now = 1
      /\ \A i \in Id : (rows[i].live <=> rows[i].created = 1) /\ rows[i].version = rows[i].created
  BY DEF Init
<1> QED BY <1>1 DEF RowsInv, Live

LEMMA EffectRows ==
  ASSUME TInv, RowsInv, NEW effect, NEW i \in Id, EffectFacts(effect, i), now' = now
  PROVE  RowsInv'
<1>1. rows \in [Id -> RowType] /\ now \in Nat
  BY TypeParts DEF TInv
<1>2. \A j \in Id : /\ rows[j].created \in Nat /\ rows[j].version \in Nat
                    /\ rows'[j].created \in Nat /\ rows'[j].version \in Nat
  BY <1>1 DEF EffectFacts, RowType
<1>3. ASSUME NEW j \in Id
      PROVE  rows'[j].created <= now /\ (Live(j)' => rows'[j].created # 0 /\ rows'[j].version >= 1)
  <2>1. CASE j # i
    BY <2>1, <1>1 DEF EffectFacts, RowsInv, Live
  <2>2. CASE j = i /\ effect = "create"
    BY <2>2, <1>1, <1>2 DEF EffectFacts, RowsInv, RowCreated
  <2>3. CASE j = i /\ effect # "create"
    BY <2>3, <1>1, <1>2 DEF EffectFacts, RowsInv
  <2> QED BY <2>1, <2>2, <2>3
<1> QED BY <1>3 DEF RowsInv

LEMMA RowsStep == TInv /\ RowsInv /\ [Next]_vars => RowsInv'
<1> SUFFICES ASSUME TInv, RowsInv, [Next]_vars PROVE RowsInv'
  OBVIOUS
<1>1. ASSUME rows' = rows, now' \in {now, now + 1} PROVE RowsInv'
  <2>1. now \in Nat /\ \A i \in Id : rows[i].created \in Nat
    BY TypeParts DEF TInv, RowType
  <2> QED BY <1>1, <2>1 DEF RowsInv, Live
<1>2. CASE User \/ Search
  BY <1>1, <1>2 DEF User, Search, Type, Retry, loadMore, Send
<1>3. CASE Other
  <2>1. PICK effect \in {"create", "change", "remove"}, i \in Id : EffectFacts(effect, i)
    BY <1>3, OtherIs
  <2> QED BY <1>3, <2>1, EffectRows DEF Other
<1>4. ASSUME NEW r \in net, Read(r) \/ Receive(r) \/ Fail(r) PROVE RowsInv'
  BY <1>1, <1>4 DEF Read, Receive, Fail
<1>5. ASSUME NEW c \in calls, Apply(c) PROVE RowsInv'
  <2>1. PICK i \in Id : EffectFacts(c.op.effect, i)
    BY <1>5, ApplyIs
  <2> QED BY <1>5, <2>1, EffectRows DEF Apply
<1>6. ASSUME NEW c \in calls, Confirmed(c) \/ Refused(c) PROVE RowsInv'
  BY <1>1, <1>6 DEF Confirmed, Refused
<1>7. CASE UNCHANGED vars
  BY <1>1, <1>7 DEF vars
<1> QED BY <1>2, <1>3, <1>4, <1>5, <1>6, <1>7 DEF Next

LEMMA RequestsInit == Init => RequestsInv
<1> SUFFICES ASSUME Init PROVE RequestsInv
  OBVIOUS
<1> DEFINE r == Request("first", 1, query, None)
<1>1. /\ net = {r} /\ query \in QueryOf(page) /\ typed = query
      /\ pager.generation = 1 /\ pager.status = "loading" /\ pager.hasMore = FALSE
  BY DEF Init
<1>2. /\ r.kind = "first" /\ r.gen = 1 /\ r.query = query /\ r.cursor = None /\ r.page = NoPage
  BY DEF Request
<1> HIDE DEF r
<1> QED BY <1>1, <1>2 DEF RequestsInv, Current

\* Nothing is asked for anew, and what is under way does not change what is shown.
LEMMA SameRequestsStep ==
  ASSUME TInv, RequestsInv, query' = query, page' = page, typed' \in QueryOf(page),
         pager'.generation = pager.generation,
         pager'.hasMore = pager.hasMore, pager'.cursor = pager.cursor,
         \A r \in net' : r \in net /\ Current(r) =>
             /\ pager'.status = pager.status /\ pager'.loadingMore = pager.loadingMore,
         net' \subseteq net
  PROVE  RequestsInv'
BY DEF RequestsInv, Current

LEMMA loadRequests ==
  ASSUME TInv, RequestsInv, page' = page, query' \in QueryOf(page), typed' \in QueryOf(page),
         query' \in Query, load(query')
  PROVE  RequestsInv'
<1> DEFINE n == Request("first", pager.generation + 1, query', None)
<1>1. /\ pager'.generation = pager.generation + 1 /\ pager'.status = "loading"
      /\ pager'.hasMore = pager.hasMore /\ pager'.cursor = pager.cursor
  BY loadTypes
<1>2. pager.generation \in Nat /\ \A r \in net : r.gen \in Nat
  BY TypeParts, PagerParts, RequestParts DEF TInv
<1>3. net' = net \cup {n}
  BY DEF load
<1>4. /\ n.kind = "first" /\ n.gen = pager.generation + 1 /\ n.query = query' /\ n.cursor = None
      /\ n.page = NoPage
  BY DEF Request
<1> HIDE DEF n
<1>5. \A r \in net : r.gen # pager'.generation /\ r.gen <= pager'.generation
  BY <1>1, <1>2 DEF RequestsInv
<1>6. n.gen <= pager'.generation
  BY <1>1, <1>2, <1>4
<1> QED BY <1>1, <1>3, <1>4, <1>5, <1>6 DEF RequestsInv, Current

LEMMA loadMoreRequests ==
  ASSUME TInv, RequestsInv, loadMore
  PROVE  RequestsInv'
<1> DEFINE n == Request("more", pager.generation, query, pager.cursor)
<1>1. pager \in PagerType /\ pager.generation \in Nat
  BY TypeParts, PagerParts DEF TInv
<1>2. /\ pager'.generation = pager.generation /\ pager'.status = "ready" /\ pager'.loadingMore
      /\ pager'.hasMore = pager.hasMore /\ pager'.cursor = pager.cursor
      /\ pager.status = "ready" /\ ~pager.loadingMore /\ pager.hasMore
  BY <1>1 DEF loadMore, PagerType
<1>3. net' = net \cup {n} /\ UNCHANGED <<page, query, typed>>
  BY DEF loadMore
<1>4. /\ n.kind = "more" /\ n.gen = pager.generation /\ n.query = query /\ n.cursor = pager.cursor
      /\ n.page = NoPage
  BY DEF Request
<1> HIDE DEF n
<1>5. \A r \in net : ~Current(r)
  <2>1. \A r \in net : r.kind \in {"first", "more"}
    BY TypeParts, RequestParts DEF TInv
  <2> QED BY <1>2, <2>1 DEF RequestsInv
<1>6. n.cursor # None
  BY <1>2, <1>4 DEF RequestsInv
<1> QED BY <1>1, <1>2, <1>3, <1>4, <1>5, <1>6 DEF RequestsInv, Current

\* The requests stay, with less seen.
LEMMA LaterRequests ==
  ASSUME TInv, RequestsInv, UNCHANGED <<page, query, typed, pager>>,
         \E i : net' = net \/ net' = {[r EXCEPT !.page.seen = @ \ {i}] : r \in net}
  PROVE  RequestsInv'
<1>1. PICK i : net' = net \/ net' = {[r EXCEPT !.page.seen = @ \ {i}] : r \in net}
  OBVIOUS
<1>2. CASE net' = net
  BY <1>2 DEF RequestsInv, Current
<1>3. CASE net' = {[r EXCEPT !.page.seen = @ \ {i}] : r \in net}
  <2>1. net \subseteq RequestType
    BY TypeParts DEF TInv
  <2> DEFINE F == [r \in net |-> [r EXCEPT !.page.seen = @ \ {i}]]
  <2>2. \A r \in net : Later(F[r], r)
    BY <2>1, LaterForgotten
  <2>3. \A q \in net' : \E r \in net : q = F[r]
    BY <1>3
  <2> HIDE DEF F
  <2>4. \A q \in net' : \E r \in net : q = F[r] /\ Later(q, r)
    BY <2>2, <2>3
  <2>5. ASSUME NEW q \in net'
        PROVE  /\ q.gen <= pager'.generation
               /\ q.kind = "first" <=> q.cursor = None
               /\ q.page # NoPage => (q.page.has_more <=> q.page.next_cursor # None)
               /\ Current(q)' => q.query = query'
               /\ Current(q)' /\ q.kind = "first" => pager'.status = "loading"
               /\ Current(q)' /\ q.kind = "more" =>
                    pager'.status = "ready" /\ pager'.loadingMore /\ q.cursor = pager'.cursor
    <3>1. PICK r \in net : Later(q, r)
      BY <2>4
    <3>2. Current(q)' => Current(r)
      BY <3>1 DEF Current, Later
    <3> QED BY <3>1, <3>2 DEF RequestsInv, Later
  <2>6. ASSUME NEW p \in net', NEW q \in net', Current(p)', Current(q)' PROVE p = q
    <3>1. PICK r \in net : p = F[r] /\ Later(p, r)
      BY <2>4
    <3>2. PICK s \in net : q = F[s] /\ Later(q, s)
      BY <2>4
    <3>3. Current(r) /\ Current(s)
      BY <2>6, <3>1, <3>2 DEF Current, Later
    <3> QED BY <3>1, <3>2, <3>3 DEF RequestsInv
  <2> QED BY <2>5, <2>6 DEF RequestsInv
<1> QED BY <1>1, <1>2, <1>3

LEMMA EffectRequests ==
  ASSUME NEW effect, NEW i, Effect(effect, i)
  PROVE  \E j : net' = net \/ net' = {[r EXCEPT !.page.seen = @ \ {j}] : r \in net}
BY DEF Effect, Forget
LEMMA ReadRequests ==
  ASSUME TInv, RequestsInv, NEW r \in net, Read(r)
  PROVE  RequestsInv'
<1>1. PICK q \in RequestType :
        /\ net' = (net \ {r}) \cup {q}
        /\ q.kind = r.kind /\ q.gen = r.gen /\ q.query = r.query /\ q.cursor = r.cursor
        /\ PageOf(q.page, Listed(r.query, r.cursor), rows, page.order)
  BY ReadIs
<1>2. q.page.has_more <=> q.page.next_cursor # None
  BY <1>1 DEF PageOf
<1>3. UNCHANGED <<page, query, typed, pager>>
  BY DEF Read
<1> QED BY <1>1, <1>2, <1>3 DEF RequestsInv, Current

LEMMA ReceiveRequests ==
  ASSUME TInv, RequestsInv, NEW r \in net, Receive(r)
  PROVE  RequestsInv'
<1>1. /\ UNCHANGED <<page, query, typed>> /\ net' = net \ {r} /\ r.page # NoPage
      /\ pager'.generation = pager.generation
      /\ r.gen # pager.generation => pager' = pager
  BY ReceiveIs DEF Receive
<1>2. CASE ~Current(r)
  BY <1>1, <1>2 DEF RequestsInv, Current
<1>3. CASE Current(r)
  <2>1. /\ pager'.hasMore = r.page.has_more /\ pager'.cursor = r.page.next_cursor
    BY <1>3, ReceiveIs DEF Current
  <2>2. \A q \in net' : ~Current(q)
    BY <1>1, <1>3 DEF RequestsInv
  <2> QED BY <1>1, <2>1, <2>2 DEF RequestsInv, Current
<1> QED BY <1>2, <1>3

LEMMA FailRequests ==
  ASSUME TInv, RequestsInv, NEW r \in net, Fail(r)
  PROVE  RequestsInv'
<1>1. /\ UNCHANGED <<page, query, typed>> /\ net' = net \ {r}
      /\ pager'.generation = pager.generation
      /\ pager'.hasMore = pager.hasMore /\ pager'.cursor = pager.cursor
      /\ r.gen # pager.generation => pager' = pager
  BY FailIs DEF Fail
<1>2. CASE ~Current(r)
  BY <1>1, <1>2 DEF RequestsInv, Current
<1>3. CASE Current(r)
  <2>2. \A q \in net' : ~Current(q)
    BY <1>1, <1>3 DEF RequestsInv
  <2> QED BY <1>1, <2>2 DEF RequestsInv, Current
<1> QED BY <1>2, <1>3

LEMMA RequestsStep == TInv /\ RequestsInv /\ [Next]_vars => RequestsInv'
<1> SUFFICES ASSUME TInv, RequestsInv, [Next]_vars PROVE RequestsInv'
  OBVIOUS
<1>1. ASSUME UNCHANGED <<page, query, net>>, typed' \in QueryOf(page),
             pager'.generation = pager.generation, pager'.status = pager.status,
             pager'.loadingMore = pager.loadingMore,
             pager'.hasMore = pager.hasMore, pager'.cursor = pager.cursor
      PROVE  RequestsInv'
  BY <1>1, SameRequestsStep
<1>2. ASSUME UNCHANGED <<page, query, net, typed, pager>> PROVE RequestsInv'
  BY <1>1, <1>2 DEF RequestsInv
<1>3. CASE Type
  BY <1>1, <1>3 DEF Type
<1>4. CASE Search
  <2>1. query' \in QueryOf(page) /\ typed' \in QueryOf(page) /\ page' = page /\ load(query')
    BY <1>4 DEF Search, RequestsInv
  <2>2. query' \in Query
    BY <2>1, QueriesType
  <2> QED BY <2>1, <2>2, loadRequests
<1>5. CASE Retry
  <2>1. UNCHANGED <<page, query, typed>> /\ load(query')
    BY <1>5 DEF Retry
  <2>2. query' \in QueryOf(page) /\ typed' \in QueryOf(page) /\ query' \in Query
    BY <2>1, TypeParts DEF TInv, RequestsInv
  <2> QED BY <2>1, <2>2, loadRequests
<1>6. CASE loadMore
  BY <1>6, loadMoreRequests
<1>7. ASSUME NEW op \in page.ops, NEW i \in Targets(op), Send(op, i) PROVE RequestsInv'
  BY <1>2, <1>7 DEF Send
<1>8. CASE Other
  <2>1. PICK effect \in {"create", "change", "remove"}, i \in Id : Effect(effect, i)
    BY <1>8 DEF Other
  <2> QED BY <1>8, <2>1, EffectRequests, LaterRequests DEF Other
<1>9. ASSUME NEW r \in net, Read(r) PROVE RequestsInv'
  BY <1>9, ReadRequests
<1>10. ASSUME NEW r \in net, Receive(r) PROVE RequestsInv'
  BY <1>10, ReceiveRequests
<1>11. ASSUME NEW r \in net, Fail(r) PROVE RequestsInv'
  BY <1>11, FailRequests
<1>12. ASSUME NEW c \in calls, Apply(c) PROVE RequestsInv'
  <2>1. PICK i : Effect(c.op.effect, i)
    BY <1>12 DEF Apply
  <2> QED BY <1>12, <2>1, EffectRequests, LaterRequests DEF Apply
<1>13. ASSUME NEW c \in calls, Confirmed(c) PROVE RequestsInv'
  <2>1. UNCHANGED <<page, query, net, typed>>
    BY <1>13 DEF Confirmed
  <2>2. typed' \in QueryOf(page)
    BY <2>1 DEF RequestsInv
  <2> QED BY <1>1, <1>13, <2>1, <2>2, ConfirmedIs
<1>14. ASSUME NEW c \in calls, Refused(c) PROVE RequestsInv'
  BY <1>2, <1>14 DEF Refused
<1>15. CASE UNCHANGED vars
  BY <1>2, <1>15 DEF vars
<1> QED BY <1>3, <1>4, <1>5, <1>6, <1>7, <1>8, <1>9, <1>10, <1>11, <1>12, <1>13, <1>14, <1>15
        DEF Next, User

-----------------------------------------------------------------------------
(***************************************************************************)
(* Nothing is missed.  What an answer has not listed comes after its       *)
(* cursor, and a row that is there all the time keeps its place.           *)
(***************************************************************************)
Covered(i, items, more, c) == i \in Ids(items) \/ (more /\ Follows(page.order, i, c))

SeenLive == /\ \A i \in base : Live(i)
            /\ \A r \in net : \A i \in r.page.seen : Live(i)

ListCovers(i) ==
  Matches(query, i) => Covered(i, pager.items, pager.hasMore, pager.cursor)

ShownCovers == pager.status = "ready" => \A i \in base : ListCovers(i)

\* What the answer to r says of the row i.
AnswerCovers(r, i) ==
  Matches(r.query, i) => Covered(i, r.page.items, r.page.has_more, r.page.next_cursor)

FirstCovers ==
  \A r \in net : r.page # NoPage /\ r.kind = "first" => \A i \in r.page.seen : AnswerCovers(r, i)

MoreCovers ==
  \A r \in net : r.page # NoPage /\ r.kind = "more" /\ Current(r) =>
    \A i \in base : Follows(page.order, i, r.cursor) => AnswerCovers(r, i)

\* A row that is to be taken from the list is gone, for good or as long as the
\* dialog is open.
Gone(c) ==
  /\ page.revives => pager.status = "ready"
  /\ c.answer # None =>
       /\ c.id \notin base
       /\ ~page.revives => ~Live(c.id) /\ rows[c.id].created # 0

RemovedGone == \A c \in calls : c.op.effect = "remove" => Gone(c)

CoverInv == SeenLive /\ ShownCovers /\ FirstCovers /\ MoreCovers /\ RemovedGone

\* A row that lives before and after a step, with its date and no lower version.
Steady(i) ==
  /\ Live(i)' /\ Key(i)' = Key(i)
  /\ \A q : Matches(q, i)' => Matches(q, i)
  /\ \A order, c : Follows(order, i, c)' <=> Follows(order, i, c)

LEMMA RowsStay ==
  ASSUME rows' = rows, NEW i
  PROVE  /\ Live(i)' <=> Live(i)
         /\ Key(i)' = Key(i)
         /\ \A q : Matches(q, i)' <=> Matches(q, i)
         /\ \A order, c : Follows(order, i, c)' <=> Follows(order, i, c)
BY DEF Live, Key, Matches, Follows

LEMMA EffectSteady ==
  ASSUME TInv, RowsInv, NEW effect, NEW i \in Id, EffectFacts(effect, i), NEW j \in Id, Live(j),
         j # i \/ effect \in {"create", "change"}
  PROVE  Steady(j)
<1>1. /\ \A k \in Id : rows[k].version \in Nat /\ rows'[k].version \in Nat
      /\ rows[j].version >= 1
  BY TypeParts DEF TInv, EffectFacts, RowType, RowsInv
<1>2. Live(j)' /\ rows'[j].created = rows[j].created /\ rows'[j].version >= rows[j].version
  <2>1. CASE j # i
    BY <2>1, <1>1 DEF EffectFacts, Live
  <2>2. CASE j = i /\ effect = "change"
    BY <2>2, <1>1 DEF EffectFacts
  <2> QED BY <2>1, <2>2 DEF EffectFacts
<1>3. Key(j)' = Key(j)
  BY <1>2 DEF Key
<1>4. \A q : Matches(q, j)' => Matches(q, j)
  BY <1>1, <1>2 DEF Matches
<1>5. \A order, c : Follows(order, j, c)' <=> Follows(order, j, c)
  BY <1>3 DEF Follows
<1> QED BY <1>2, <1>3, <1>4, <1>5 DEF Steady
LEMMA SteadyStay ==
  ASSUME rows' = rows, NEW i, Live(i)
  PROVE  Steady(i)
BY RowsStay DEF Steady

\* A step that neither reads nor shows an answer.
LEMMA CoverKept ==
  ASSUME TInv, CoverInv, page' = page, base' \subseteq base,
         \A i \in base' : Steady(i),
         \A q \in net' : \A i \in q.page.seen : Steady(i),
         \A q \in net' : \/ q.page = NoPage
                         \/ \E r \in net : Later(q, r) /\ (Current(q)' => Current(r)),
         pager'.status = "ready" =>
           /\ pager.status = "ready" /\ query' = query
           /\ pager'.hasMore = pager.hasMore /\ pager'.cursor = pager.cursor
           /\ \A i \in base' : i \in Ids(pager.items) => i \in Ids(pager'.items)
  PROVE  SeenLive' /\ ShownCovers' /\ FirstCovers' /\ MoreCovers'
<1>1. SeenLive'
  BY DEF SeenLive, Steady
<1>2. ASSUME pager'.status = "ready", NEW i \in base' PROVE ListCovers(i)'
  <2>1. Steady(i) /\ i \in base /\ pager.status = "ready" /\ query' = query
    BY <1>2
  <2>2. ListCovers(i)
    BY <2>1 DEF CoverInv, ShownCovers
  <2>3. Matches(query, i)' => Matches(query, i)
    BY <2>1 DEF Steady, Matches
  <2> QED BY <1>2, <2>1, <2>2, <2>3 DEF ListCovers, Covered, Steady
<1>3. ShownCovers'
  BY <1>2 DEF ShownCovers
<1>4. ASSUME NEW q \in net', NEW r \in net, NEW i, Later(q, r), Steady(i), AnswerCovers(r, i)
      PROVE  AnswerCovers(q, i)'
  BY <1>4 DEF AnswerCovers, Covered, Later, Steady
<1>5. ASSUME NEW q \in net', q.page # NoPage, q.kind = "first", NEW i \in q.page.seen
      PROVE  AnswerCovers(q, i)'
  <2>1. PICK r \in net : Later(q, r)
    BY <1>5
  <2>2. AnswerCovers(r, i)
    BY <1>5, <2>1 DEF CoverInv, FirstCovers, Later
  <2> QED BY <1>4, <1>5, <2>1, <2>2
<1>6. FirstCovers'
  BY <1>5 DEF FirstCovers
<1>7. ASSUME NEW q \in net', q.page # NoPage, q.kind = "more", Current(q)', NEW i \in base',
             Follows(page.order, i, q.cursor)'
      PROVE  AnswerCovers(q, i)'
  <2>1. PICK r \in net : Later(q, r) /\ Current(r)
    BY <1>7
  <2>2. Follows(page.order, i, q.cursor)
    BY <1>7 DEF Steady, Follows
  <2>3. AnswerCovers(r, i)
    BY <1>7, <2>1, <2>2 DEF CoverInv, MoreCovers, Later
  <2> QED BY <1>4, <1>7, <2>1, <2>3
<1>8. MoreCovers'
  BY <1>7 DEF MoreCovers
<1> QED BY <1>1, <1>3, <1>6, <1>8

LEMMA GoneKept ==
  ASSUME RemovedGone, page' = page,
         \A i : i \in base' => i \in base,
         \A i \in Id : ~page.revives /\ ~Live(i) /\ rows[i].created # 0 =>
           ~Live(i)' /\ rows'[i].created # 0,
         TInv,
         \A c \in calls' : c.op.effect = "remove" =>
           \/ c \in calls
           \/ c.answer = None /\ (page.revives => pager.status = "ready"),
         page.revives /\ pager.status = "ready" /\ (\E c \in calls' : c.op.effect = "remove") =>
           pager'.status = "ready"
  PROVE  RemovedGone'
<1> SUFFICES ASSUME NEW c \in calls', c.op.effect = "remove" PROVE Gone(c)'
  BY DEF RemovedGone
<1>1. CASE c \in calls
  <2>1. Gone(c)
    BY <1>1 DEF RemovedGone
  <2>2. c.answer # None => c.id \in Id
    BY <1>1 DEF TInv, Known
  <2> QED BY <2>1, <2>2 DEF Gone
<1>2. CASE c.answer = None /\ (page.revives => pager.status = "ready")
  BY <1>2 DEF Gone
<1> QED BY <1>1, <1>2

LEMMA CoverInit == Init => CoverInv
<1> SUFFICES ASSUME Init PROVE CoverInv
  OBVIOUS
<1>1. /\ net = {Request("first", 1, query, None)} /\ base = {} /\ calls = {}
      /\ pager.status = "loading"
  BY DEF Init
<1>2. \A r \in net : r.page = NoPage /\ r.page.seen = {}
  BY <1>1, NoPageType DEF Request
<1> QED BY <1>1, <1>2 DEF CoverInv, SeenLive, ShownCovers, FirstCovers, MoreCovers, RemovedGone

\* Steps of the browser that ask, fail, start or end a change: the rows stay.
LEMMA BrowserCover ==
  ASSUME TInv, CoverInv, UNCHANGED <<page, rows, base>>,
         \A q \in net' : q.page = NoPage \/ (q \in net /\ (Current(q)' => Current(q))),
         pager'.status = "ready" =>
           /\ pager.status = "ready" /\ query' = query
           /\ pager'.hasMore = pager.hasMore /\ pager'.cursor = pager.cursor
           /\ \A i \in base : i \in Ids(pager.items) => i \in Ids(pager'.items),
         \A c \in calls' : c.op.effect = "remove" =>
           \/ c \in calls
           \/ c.answer = None /\ (page.revives => pager.status = "ready"),
         page.revives /\ pager.status = "ready" /\ (\E c \in calls' : c.op.effect = "remove") =>
           pager'.status = "ready"
  PROVE  CoverInv'
<1>1. net \subseteq RequestType
  BY TypeParts DEF TInv
<1>2. \A i \in base : Steady(i)
  BY SteadyStay DEF CoverInv, SeenLive
<1>3. ASSUME NEW q \in net', NEW i \in q.page.seen PROVE Steady(i)
  <2>1. q \in net
    BY <1>3, NoPageType
  <2>2. Live(i)
    BY <2>1 DEF CoverInv, SeenLive
  <2> QED BY <2>2, SteadyStay
<1>4. \A q \in net' : \/ q.page = NoPage
                      \/ \E r \in net : Later(q, r) /\ (Current(q)' => Current(r))
  BY <1>1, LaterIsReflexive
<1>5. SeenLive' /\ ShownCovers' /\ FirstCovers' /\ MoreCovers'
  BY <1>2, <1>3, <1>4, CoverKept
<1>6. \A i \in Id : ~Live(i) /\ rows[i].created # 0 => ~Live(i)' /\ rows'[i].created # 0
  BY RowsStay
<1>7. RemovedGone'
  BY <1>6, GoneKept DEF CoverInv
<1> QED BY <1>5, <1>7 DEF CoverInv
\* Steps of the server.
LEMMA EffectCover ==
  ASSUME TInv, RowsInv, CoverInv, NEW effect, NEW i \in Id, EffectFacts(effect, i),
         UNCHANGED <<page, query, pager>>
  PROVE  /\ SeenLive' /\ ShownCovers' /\ FirstCovers' /\ MoreCovers'
         /\ \A j \in Id : ~page.revives /\ ~Live(j) /\ rows[j].created # 0 =>
              ~Live(j)' /\ rows'[j].created # 0
<1>1. base \subseteq Id /\ \A r \in net : r.page.seen \subseteq Id
  BY TypeParts, RequestParts DEF TInv
<1>2. ASSUME NEW j \in base' PROVE Steady(j)
  <2>1. j \in Id /\ Live(j)
    BY <1>1 DEF EffectFacts, CoverInv, SeenLive
  <2>2. j # i \/ effect \in {"create", "change"}
    BY DEF EffectFacts
  <2> QED BY <2>1, <2>2, EffectSteady
<1>3. ASSUME NEW q \in net', NEW j \in q.page.seen PROVE Steady(j)
  <2>1. PICK r \in net : Later(q, r) /\ (effect \notin {"create", "change"} => i \notin q.page.seen)
    BY DEF EffectFacts
  <2>2. j \in r.page.seen /\ j \in Id
    BY <1>1, <2>1 DEF Later
  <2>3. Live(j)
    BY <2>2 DEF CoverInv, SeenLive
  <2>4. j # i \/ effect \in {"create", "change"}
    BY <2>1
  <2> QED BY <2>2, <2>3, <2>4, EffectSteady
<1>4. \A q \in net' : \E r \in net : Later(q, r) /\ (Current(q)' => Current(r))
  BY DEF EffectFacts, Later, Current
<1>5. SeenLive' /\ ShownCovers' /\ FirstCovers' /\ MoreCovers'
  BY <1>2, <1>3, <1>4, CoverKept DEF EffectFacts
<1>6. ASSUME NEW j \in Id, ~page.revives, ~Live(j), rows[j].created # 0
      PROVE  ~Live(j)' /\ rows'[j].created # 0
  <2>1. j # i
    BY <1>6 DEF EffectFacts
  <2> QED BY <1>6, <2>1 DEF EffectFacts, Live
<1> QED BY <1>5, <1>6

LEMMA ApplyCover ==
  ASSUME TInv, RowsInv, CoverInv, NEW c \in calls, Apply(c)
  PROVE  CoverInv'
<1>1. PICK i \in Id, a \in CallType :
        /\ EffectFacts(c.op.effect, i)
        /\ calls' = (calls \ {c}) \cup {a}
        /\ a.op = c.op /\ a.id = i
  BY ApplyIs
<1>2. UNCHANGED <<page, query, pager>>
  BY DEF Apply
<1>3. /\ SeenLive' /\ ShownCovers' /\ FirstCovers' /\ MoreCovers'
      /\ \A j \in Id : ~page.revives /\ ~Live(j) /\ rows[j].created # 0 =>
           ~Live(j)' /\ rows'[j].created # 0
  BY <1>1, <1>2, EffectCover
<1>4. a.op = c.op /\ a.id = i /\ calls' = (calls \ {c}) \cup {a}
  BY <1>1
<1>6. ASSUME NEW d \in calls, d.op.effect = "remove" PROVE Gone(d)'
  <2>1. Gone(d)
    BY <1>6 DEF CoverInv, RemovedGone
  <2>2. d.answer # None => d.id \in Id
    BY <1>6 DEF TInv, Known
  <2>3. base' \subseteq base
    BY <1>1 DEF EffectFacts
  <2> QED BY <1>2, <1>3, <2>1, <2>2, <2>3 DEF Gone
<1>7. ASSUME a.op.effect = "remove" PROVE Gone(a)'
  <2>1. /\ i \notin base' /\ ~Live(i)' /\ Live(i) /\ rows'[i].created = rows[i].created
    BY <1>1, <1>4, <1>7 DEF EffectFacts
  <2>2. rows[i].created # 0
    BY <2>1 DEF RowsInv
  <2>3. Gone(c)
    BY <1>4, <1>7 DEF CoverInv, RemovedGone
  <2> QED BY <1>2, <1>4, <2>1, <2>2, <2>3 DEF Gone
<1>8. RemovedGone'
  BY <1>4, <1>6, <1>7 DEF RemovedGone
<1> QED BY <1>3, <1>8 DEF CoverInv

LEMMA ReadCover ==
  ASSUME TInv, RequestsInv, CoverInv, NEW r \in net, Read(r)
  PROVE  CoverInv'
<1>1. PICK q \in RequestType :
        /\ net' = (net \ {r}) \cup {q}
        /\ q.kind = r.kind /\ q.gen = r.gen /\ q.query = r.query /\ q.cursor = r.cursor
        /\ PageOf(q.page, Listed(r.query, r.cursor), rows, page.order)
  BY ReadIs
<1>2. UNCHANGED <<page, rows, query, pager, calls, base>>
  BY DEF Read
<1>3. /\ q.page.seen = {i \in Id : Live(i)}
      /\ \A i \in Listed(r.query, r.cursor) :
           Covered(i, q.page.items, q.page.has_more, q.page.next_cursor)
  BY <1>1 DEF PageOf, Covered
<1>4. ASSUME NEW i \in Id, Live(i), r.cursor # None => Follows(page.order, i, r.cursor)
      PROVE  AnswerCovers(q, i)
  BY <1>1, <1>3, <1>4 DEF AnswerCovers, Listed
<1>5. ASSUME NEW s, NEW i, AnswerCovers(s, i) PROVE AnswerCovers(s, i)'
  BY <1>2, <1>5, RowsStay DEF AnswerCovers, Covered
<1>6. SeenLive'
  BY <1>1, <1>2, <1>3, RowsStay DEF CoverInv, SeenLive
<1>7. ShownCovers'
  BY <1>2, RowsStay DEF CoverInv, ShownCovers, ListCovers, Covered
<1>8. FirstCovers'
  <2>1. ASSUME r.kind = "first", NEW i \in q.page.seen PROVE AnswerCovers(q, i)
    <3>1. r.cursor = None
      BY <2>1 DEF RequestsInv
    <3> QED BY <1>3, <1>4, <3>1
  <2> SUFFICES ASSUME NEW s \in net', s.page # NoPage, s.kind = "first", NEW i \in s.page.seen
               PROVE  AnswerCovers(s, i)
    BY <1>5 DEF FirstCovers
  <2> QED BY <1>1, <2>1 DEF CoverInv, FirstCovers
<1>9. MoreCovers'
  <2>1. ASSUME NEW i \in base, Follows(page.order, i, r.cursor) PROVE AnswerCovers(q, i)
    <3>1. i \in Id /\ Live(i)
      BY TypeParts DEF TInv, CoverInv, SeenLive
    <3> QED BY <1>4, <2>1, <3>1
  <2> SUFFICES ASSUME NEW s \in net', s.page # NoPage, s.kind = "more", Current(s), NEW i \in base,
                      Follows(page.order, i, s.cursor)
               PROVE  AnswerCovers(s, i)
    BY <1>2, <1>5, RowsStay DEF MoreCovers, Current
  <2> QED BY <1>1, <2>1 DEF CoverInv, MoreCovers
<1>10. RemovedGone'
  BY <1>2, RowsStay DEF CoverInv, RemovedGone, Gone
<1> QED BY <1>6, <1>7, <1>8, <1>9, <1>10 DEF CoverInv

LEMMA ReceiveCover ==
  ASSUME TInv, RequestsInv, CoverInv, NEW r \in net, Receive(r)
  PROVE  CoverInv'
<1>1. /\ r \in RequestType /\ r.page # NoPage /\ net' = net \ {r}
      /\ pager'.generation = pager.generation
      /\ r.gen # pager.generation => pager' = pager /\ base' = base
  BY ReceiveIs
<1>2. UNCHANGED <<page, rows, query, calls>>
  BY DEF Receive
<1>3. CASE ~Current(r)
  <2>1. pager' = pager /\ base' = base
    BY <1>1, <1>3 DEF Current
  <2> QED BY <1>1, <1>2, <2>1, BrowserCover DEF Current
<1>4. CASE Current(r)
  <2>1. /\ pager'.status = "ready"
        /\ pager'.hasMore = r.page.has_more /\ pager'.cursor = r.page.next_cursor
        /\ r.kind = "first" => pager'.items = r.page.items /\ base' = r.page.seen
        /\ r.kind # "first" => pager'.items = pager.items \o r.page.items /\ base' = base
    BY <1>4, ReceiveIs DEF Current
  <2>2. \A q \in net' : ~Current(q)'
    BY <1>1, <1>4 DEF RequestsInv, Current
  <2>3. r.query = query
    BY <1>4 DEF RequestsInv
  <2>4. MoreCovers'
    BY <2>2 DEF MoreCovers
  <2>5. ASSUME NEW s, NEW i, AnswerCovers(s, i) PROVE AnswerCovers(s, i)'
    BY <1>2, <2>5, RowsStay DEF AnswerCovers, Covered
  <2>6. FirstCovers'
    BY <1>1, <2>5 DEF CoverInv, FirstCovers
  <2>7. \A i \in base' : Live(i)
    BY <2>1 DEF CoverInv, SeenLive
  <2>8. SeenLive'
    BY <1>1, <1>2, <2>7, RowsStay DEF CoverInv, SeenLive
  <2>9. \A c \in calls : c.op.effect = "remove" /\ c.answer # None => c.id \notin base'
    <3> SUFFICES ASSUME NEW c \in calls, c.op.effect = "remove", c.answer # None
                 PROVE  c.id \notin base'
      OBVIOUS
    <3>1. Gone(c)
      BY DEF CoverInv, RemovedGone
    <3>2. CASE r.kind # "first"
      BY <2>1, <3>1, <3>2 DEF Gone
    <3>3. CASE r.kind = "first"
      <4>1. pager.status = "loading"
        BY <1>4, <3>3 DEF RequestsInv
      <4>2. ~Live(c.id)
        BY <3>1, <4>1 DEF Gone
      <4> QED BY <2>7, <4>2
    <3> QED BY <3>2, <3>3
  <2>10. RemovedGone'
    <3> SUFFICES ASSUME NEW c \in calls, c.op.effect = "remove" PROVE Gone(c)'
      BY <1>2 DEF RemovedGone
    <3>1. Gone(c)
      BY DEF CoverInv, RemovedGone
    <3> QED BY <1>2, <2>1, <2>9, <3>1, RowsStay DEF Gone
  <2>11. ASSUME NEW i \in base'
         PROVE  Matches(query, i) => Covered(i, pager'.items, pager'.hasMore, pager'.cursor)
    <3> SUFFICES ASSUME Matches(query, i)
                 PROVE  Covered(i, pager'.items, pager'.hasMore, pager'.cursor)
      OBVIOUS
    <3>1. CASE r.kind = "first"
      <4>1. AnswerCovers(r, i)
        BY <1>1, <2>1, <3>1 DEF CoverInv, FirstCovers
      <4> QED BY <2>1, <2>3, <3>1, <4>1 DEF AnswerCovers
    <3>2. CASE r.kind = "more"
      <4>1. pager.status = "ready" /\ r.cursor = pager.cursor /\ i \in base
        BY <1>4, <2>1, <3>2 DEF RequestsInv
      <4>2. Covered(i, pager.items, pager.hasMore, pager.cursor)
        BY <4>1 DEF CoverInv, ShownCovers, ListCovers
      <4>3. Ids(pager'.items) = Ids(pager.items) \cup Ids(r.page.items)
        <5>1. pager.items \in Seq(Item) /\ r.page.items \in Seq(Item)
          BY <1>1, TypeParts, PagerParts, RequestParts DEF TInv
        <5> QED BY <2>1, <3>2, <5>1, AppendedIs
      <4>4. CASE i \in Ids(pager.items)
        BY <4>3, <4>4 DEF Covered
      <4>5. CASE i \notin Ids(pager.items)
        <5>1. Follows(page.order, i, r.cursor)
          BY <4>1, <4>2, <4>5 DEF Covered
        <5>2. AnswerCovers(r, i)
          BY <1>1, <1>4, <3>2, <4>1, <5>1 DEF CoverInv, MoreCovers
        <5> QED BY <2>1, <2>3, <4>3, <5>2 DEF AnswerCovers, Covered
      <4> QED BY <4>4, <4>5
    <3> QED BY <1>1, <3>1, <3>2, RequestParts
  <2>12. ShownCovers'
    BY <1>2, <2>11, RowsStay DEF ShownCovers, ListCovers, Covered
  <2> QED BY <2>4, <2>6, <2>8, <2>10, <2>12 DEF CoverInv
<1> QED BY <1>3, <1>4
LEMMA loadCover ==
  ASSUME TInv, RequestsInv, CoverInv, NEW q \in Query, load(q),
         UNCHANGED <<page, rows, base, calls>>,
         ~(page.revives /\ pager.status = "ready")
  PROVE  CoverInv'
<1>1. pager'.status = "loading" /\ pager'.generation = pager.generation + 1
  BY loadTypes
<1>2. net' = net \cup {Request("first", pager.generation + 1, q, None)}
  BY DEF load
<1>3. pager.generation \in Nat /\ \A r \in net : r.gen \in Nat
  BY TypeParts, PagerParts, RequestParts DEF TInv
<1>4. \A r \in net' : r.page = NoPage \/ (r \in net /\ (Current(r)' => Current(r)))
  BY <1>1, <1>2, <1>3 DEF Request, RequestsInv, Current
<1> QED BY <1>1, <1>4, BrowserCover

LEMMA CoverStep == TInv /\ RowsInv /\ RequestsInv /\ CoverInv /\ [Next]_vars => CoverInv'
<1> SUFFICES ASSUME TInv, RowsInv, RequestsInv, CoverInv, [Next]_vars PROVE CoverInv'
  OBVIOUS
<1>1. ASSUME UNCHANGED <<page, rows, base, query, pager, net>>,
             \A c \in calls' : c.op.effect = "remove" =>
               \/ c \in calls
               \/ c.answer = None /\ (page.revives => pager.status = "ready")
      PROVE  CoverInv'
  BY <1>1, BrowserCover DEF Current
<1>2. ASSUME UNCHANGED <<page, rows, base, query, pager, net>>, calls' \subseteq calls
      PROVE  CoverInv'
  BY <1>1, <1>2
<1>3. page \in Page /\ query \in Query
  BY TypeParts DEF TInv
<1>4. CASE Type
  BY <1>2, <1>4 DEF Type
<1>5. CASE Search
  <2>1. UNCHANGED <<page, rows, base, calls>> /\ load(query') /\ query' \in Query
    BY <1>5, TypeParts, QueriesType DEF Search, TInv
  <2>2. ~page.revives
    <3>1. page.filter = "none" => FALSE
      BY <1>5 DEF Search, QueryOf, RequestsInv
    <3> QED BY <3>1, <1>3, Pages
  <2> QED BY <2>1, <2>2, loadCover
<1>6. CASE Retry
  BY <1>3, <1>6, loadCover DEF Retry
<1>7. CASE loadMore
  <2>1. /\ pager'.status = pager.status /\ pager'.hasMore = pager.hasMore
        /\ pager'.cursor = pager.cursor /\ pager'.items = pager.items
        /\ pager'.generation = pager.generation
    BY <1>7, TypeParts DEF TInv, loadMore, PagerType
  <2>2. \A r \in net' : r.page = NoPage \/ (r \in net /\ (Current(r)' => Current(r)))
    BY <1>7, <2>1 DEF loadMore, Request, Current
  <2>3. UNCHANGED <<page, rows, base, query, calls>>
    BY <1>7 DEF loadMore
  <2> QED BY <2>1, <2>2, <2>3, BrowserCover
<1>8. ASSUME NEW op \in page.ops, NEW i \in Targets(op), Send(op, i) PROVE CoverInv'
  <2>1. /\ calls' = calls \cup {Call(op, i)} /\ UNCHANGED <<page, rows, base, query, pager, net>>
        /\ i # 0 => pager.status = "ready"
    BY <1>8 DEF Send
  <2>2. /\ Call(op, i).op = op /\ Call(op, i).answer = None
        /\ op.effect # "create" => i # 0
    BY TargetIs, Numbers
  <2> QED BY <1>1, <2>1, <2>2
<1>9. CASE Other
  <2>1. PICK effect \in {"create", "change", "remove"}, i \in Id : EffectFacts(effect, i)
    BY <1>9, OtherIs
  <2>2. UNCHANGED <<page, query, pager, calls>>
    BY <1>9 DEF Other
  <2>3. /\ SeenLive' /\ ShownCovers' /\ FirstCovers' /\ MoreCovers'
        /\ \A j \in Id : ~page.revives /\ ~Live(j) /\ rows[j].created # 0 =>
             ~Live(j)' /\ rows'[j].created # 0
    BY <2>1, <2>2, EffectCover
  <2>4. base' \subseteq base
    BY <2>1 DEF EffectFacts
  <2>5. RemovedGone'
    BY <2>2, <2>3, <2>4, GoneKept DEF CoverInv
  <2> QED BY <2>3, <2>5 DEF CoverInv
<1>10. ASSUME NEW r \in net, Read(r) PROVE CoverInv'
  BY <1>10, ReadCover
<1>11. ASSUME NEW r \in net, Receive(r) PROVE CoverInv'
  BY <1>11, ReceiveCover
<1>12. ASSUME NEW r \in net, Fail(r) PROVE CoverInv'
  <2>1. /\ net' = net \ {r} /\ pager'.items = pager.items
        /\ pager'.hasMore = pager.hasMore /\ pager'.cursor = pager.cursor
        /\ pager'.generation = pager.generation
        /\ pager'.status \in {pager.status, "error"}
        /\ r.gen # pager.generation => pager' = pager
        /\ r.kind # "first" => pager'.status = pager.status
    BY <1>12, FailIs
  <2>2. UNCHANGED <<page, rows, base, query, calls>>
    BY <1>12 DEF Fail
  <2>3. pager.status = "ready" => pager'.status = "ready"
    BY <2>1 DEF RequestsInv, Current
  <2> QED BY <2>1, <2>2, <2>3, BrowserCover DEF Current
<1>13. ASSUME NEW c \in calls, Apply(c) PROVE CoverInv'
  BY <1>13, ApplyCover
<1>14. ASSUME NEW c \in calls, Confirmed(c) PROVE CoverInv'
  <2> DEFINE items == pager.items
  <2>1. /\ c \in CallType /\ calls' = calls \ {c}
        /\ pager'.status = pager.status /\ pager'.hasMore = pager.hasMore
        /\ pager'.cursor = pager.cursor /\ pager'.generation = pager.generation
        /\ c.op.effect = "create" => Ids(pager'.items) = Ids(items) \cup {c.id}
        /\ c.op.effect = "change" => Ids(pager'.items) = Ids(items)
        /\ c.op.effect = "remove" => Ids(pager'.items) = Ids(items) \ {c.id}
    BY <1>14, ConfirmedIs
  <2>2. UNCHANGED <<page, rows, base, query, net>> /\ c.answer # None
    BY <1>14 DEF Confirmed
  <2>3. c.op.effect = "remove" => c.id \notin base
    BY <2>2 DEF CoverInv, RemovedGone, Gone
  <2>4. c.op.effect \in {"create", "change", "remove"}
    BY <1>3, <2>1, CallParts
  <2>5. \A i \in base : i \in Ids(pager.items) => i \in Ids(pager'.items)
    BY <2>1, <2>3, <2>4
  <2> QED BY <2>1, <2>2, <2>5, BrowserCover DEF Current
<1>15. ASSUME NEW c \in calls, Refused(c) PROVE CoverInv'
  BY <1>2, <1>15 DEF Refused
<1>16. CASE UNCHANGED vars
  BY <1>2, <1>16 DEF vars
<1> QED BY <1>4, <1>5, <1>6, <1>7, <1>8, <1>9, <1>10, <1>11, <1>12, <1>13, <1>14, <1>15, <1>16
        DEF Next, User

LEMMA CoverMisses == TInv /\ CoverInv => NothingMissed
<1> SUFFICES ASSUME TInv, CoverInv, pager.status = "ready", ~pager.hasMore,
                    NEW i \in base, Matches(query, i)
             PROVE  i \in visible
  BY DEF NothingMissed
<1>1. i \in Ids(pager.items)
  BY DEF CoverInv, ShownCovers, ListCovers, Covered
<1> QED BY <1>1 DEF visible

\* A list read to its end shows every row that matches its query and has existed
\* since its first page was read: for any number of rows, pages, people and
\* answers, with any limit (pagination.ts:44, paginator.svelte.ts:32).
THEOREM ListsMissNothing == Spec => []NothingMissed
<1>1. TInv /\ CoverInv => NothingMissed
  BY CoverMisses
<1> QED BY TypesInit, TypesStep, RowsInit, RowsStep, RequestsInit, RequestsStep, CoverInit, CoverStep,
           <1>1, PTL DEF Spec
-----------------------------------------------------------------------------
(***************************************************************************)
(* One thing at a time: without overlap a change has nothing beside it.    *)
(***************************************************************************)
AloneInv == ~overlap => /\ calls = {} \/ net = {}
                        /\ \A c, d \in calls : c = d

LEMMA AloneInit == Init => AloneInv
BY DEF Init, AloneInv

LEMMA AloneStep == TInv /\ AloneInv /\ [Next]_vars => AloneInv' /\ (~overlap' => ~overlap)
<1> SUFFICES ASSUME TInv, AloneInv, [Next]_vars PROVE AloneInv' /\ (~overlap' => ~overlap)
  OBVIOUS
<1> DEFINE Goal == AloneInv' /\ (~overlap' => ~overlap)
<1> HIDE DEF Goal
<1>0. Goal <=> AloneInv' /\ (~overlap' => ~overlap)
  BY DEF Goal
<1> DEFINE Were == \/ overlap
                   \/ (calls = {} \/ net = {}) /\ (\A c, d \in calls : c = d)
           Are == \/ overlap'
                  \/ ~overlap /\ (calls' = {} \/ net' = {}) /\ (\A c, d \in calls' : c = d)
<1>01. Were /\ (Are => Goal)
  BY <1>0, Zenon DEF AloneInv
<1> HIDE DEF Goal
<1>1. ASSUME overlap' = overlap, calls' \subseteq calls, net = {} => net' = {} PROVE Goal
  <2>1. Are
    BY <1>01, <1>1
  <2> QED BY <1>01, <2>1
<1>2. ASSUME NEW q, load(q), calls' = calls PROVE Goal
  <2>1. Are
    BY <1>01, <1>2 DEF load
  <2> QED BY <1>01, <2>1
<1>3. CASE Type
  BY <1>0, <1>1, <1>3 DEF Type
<1>4. CASE Search
  BY <1>0, <1>2, <1>4 DEF Search
<1>5. CASE Retry
  BY <1>0, <1>2, <1>5 DEF Retry
<1>6. CASE loadMore
  <2>1. Are
    BY <1>01, <1>6 DEF loadMore
  <2> QED BY <1>0, <1>01, <2>1
<1>7. ASSUME NEW op \in page.ops, NEW i \in Targets(op), Send(op, i) PROVE Goal
  <2>1. Are
    BY <1>01, <1>7 DEF Send
  <2> QED BY <1>01, <2>1
<1>8. ASSUME NEW effect, NEW i, EffectFacts(effect, i) PROVE net = {} => net' = {}
  BY <1>8 DEF EffectFacts
<1>9. CASE Other
  BY <1>0, <1>1, <1>8, <1>9, OtherIs DEF Other
<1>10. ASSUME NEW r \in net, Read(r) \/ Receive(r) \/ Fail(r) PROVE Goal
  BY <1>1, <1>10 DEF Read, Receive, Fail
<1>11. ASSUME NEW c \in calls, Apply(c) PROVE Goal
  <2>1. PICK i \in Id, a \in CallType :
          EffectFacts(c.op.effect, i) /\ calls' = (calls \ {c}) \cup {a}
    BY <1>11, ApplyIs
  <2>2. net = {} => net' = {}
    BY <1>8, <2>1
  <2>3. overlap' = overlap
    BY <1>11 DEF Apply
  <2>4. Are
    BY <1>01, <2>1, <2>2, <2>3
  <2> QED BY <1>01, <2>4
<1>12. ASSUME NEW c \in calls, Confirmed(c) \/ Refused(c) PROVE Goal
  BY <1>1, <1>12 DEF Confirmed, Refused
<1>13. CASE UNCHANGED vars
  BY <1>0, <1>1, <1>13 DEF vars
<1> QED BY <1>0, <1>3, <1>4, <1>5, <1>6, <1>7, <1>9, <1>10, <1>11, <1>12, <1>13 DEF Next, User

-----------------------------------------------------------------------------
(***************************************************************************)
(* Shown as saved.                                                         *)
(***************************************************************************)
Saved(item) == Live(item.id) /\ rows[item.id].version = item.version

Undisturbed == ~overlap /\ ~lost /\ other = 0

\* The change that is confirmed tells the row as it is.
AnswerSaved(c) ==
  c.answer # None =>
    /\ rows[c.id].version = c.answer
    /\ c.op.effect # "remove" => Live(c.id)
    /\ c.op.effect = "create" => c.id \notin Ids(pager.items)

\* A row of the list that is not as saved is about to be.
ItemSaved(n) == \/ Saved(pager.items[n])
                \/ \E c \in calls : c.answer # None /\ c.id = pager.items[n].id

SavedInv ==
  Undisturbed =>
    /\ \A n \in DOMAIN pager.items : ItemSaved(n)
    /\ \A r \in net : \A n \in DOMAIN r.page.items : Saved(r.page.items[n])
    /\ \A c \in calls : AnswerSaved(c)

LEMMA SavedStay == ASSUME rows' = rows, NEW item PROVE Saved(item)' <=> Saved(item)
BY DEF Saved, Live

LEMMA SavedInit == Init => SavedInv
<1> SUFFICES ASSUME Init PROVE SavedInv
  OBVIOUS
<1>1. /\ net = {Request("first", 1, query, None)} /\ calls = {} /\ pager.items = <<>>
  BY DEF Init
<1>2. \A r \in net : r.page.items = <<>>
  BY <1>1, NoPageType DEF Request
<1> QED BY <1>1, <1>2 DEF SavedInv

\* A step that changes no row, shows nothing and reads nothing.
LEMMA SavedKept ==
  ASSUME SavedInv, rows' = rows, pager'.items = pager.items, Undisturbed' => Undisturbed,
         \A r \in net' : r \in net \/ r.page.items = <<>>,
         Undisturbed' => \A c \in calls : c \in calls' \/ c.answer = None,
         \A c \in calls' : c \in calls \/ c.answer = None
  PROVE  SavedInv'
<1> SUFFICES ASSUME Undisturbed' PROVE SavedInv'
  BY DEF SavedInv
<1>1. Undisturbed
  OBVIOUS
<1>2. \A n \in DOMAIN pager'.items : ItemSaved(n)'
  BY <1>1 DEF SavedInv, ItemSaved, Saved, Live
<1>3. \A r \in net' : \A n \in DOMAIN r.page.items : Saved(r.page.items[n])'
  BY <1>1, SavedStay DEF SavedInv
<1>4. \A c \in calls' : AnswerSaved(c)'
  BY <1>1 DEF SavedInv, AnswerSaved, Live
<1> QED BY <1>2, <1>3, <1>4 DEF SavedInv

LEMMA ReadSaved ==
  ASSUME TInv, SavedInv, NEW r \in net, Read(r)
  PROVE  SavedInv'
<1>1. PICK q \in RequestType :
        /\ net' = (net \ {r}) \cup {q}
        /\ PageOf(q.page, Listed(r.query, r.cursor), rows, page.order)
  BY ReadIs
<1>2. UNCHANGED <<rows, pager, calls, overlap, lost, other>>
  BY DEF Read
<1>3. \A n \in DOMAIN q.page.items : Saved(q.page.items[n])
  BY <1>1 DEF PageOf, Listed, Saved
<1> SUFFICES ASSUME Undisturbed PROVE SavedInv'
  BY <1>2 DEF SavedInv, Undisturbed
<1>4. \A n \in DOMAIN pager'.items : ItemSaved(n)'
  BY <1>2 DEF SavedInv, ItemSaved, Saved, Live
<1>5. \A s \in net' : \A n \in DOMAIN s.page.items : Saved(s.page.items[n])'
  BY <1>1, <1>2, <1>3, SavedStay DEF SavedInv
<1>6. \A c \in calls' : AnswerSaved(c)'
  BY <1>2 DEF SavedInv, AnswerSaved, Live
<1> QED BY <1>4, <1>5, <1>6 DEF SavedInv

LEMMA ReceiveSaved ==
  ASSUME TInv, AloneInv, SavedInv, NEW r \in net, Receive(r)
  PROVE  SavedInv'
<1>1. /\ r \in RequestType /\ net' = net \ {r}
      /\ r.gen # pager.generation => pager' = pager
      /\ r.gen = pager.generation =>
           \/ pager'.items = r.page.items
           \/ pager'.items = pager.items \o r.page.items
  BY ReceiveIs
<1>2. UNCHANGED <<rows, calls, overlap, lost, other>>
  BY DEF Receive
<1>3. SUFFICES ASSUME Undisturbed PROVE SavedInv'
  BY <1>2 DEF SavedInv, Undisturbed
<1>4. calls = {}
  BY <1>3 DEF AloneInv, Undisturbed
<1>5. /\ \A n \in DOMAIN pager.items : Saved(pager.items[n])
      /\ \A s \in net : \A n \in DOMAIN s.page.items : Saved(s.page.items[n])
  BY <1>3, <1>4 DEF SavedInv, ItemSaved
<1>6. \A n \in DOMAIN pager'.items : Saved(pager'.items[n])
  <2>1. CASE pager'.items = pager.items
    BY <1>5, <2>1
  <2>2. CASE pager'.items = r.page.items
    BY <1>5, <2>2
  <2>3. CASE pager'.items = pager.items \o r.page.items
    <3>1. pager.items \in Seq(Item) /\ r.page.items \in Seq(Item)
      BY <1>1, TypeParts, PagerParts, RequestParts DEF TInv
    <3> DEFINE a == pager.items
               b == r.page.items
    <3>2. \A k \in DOMAIN (a \o b) : \/ \E n \in DOMAIN a : (a \o b)[k] = a[n]
                                   \/ \E n \in DOMAIN b : (a \o b)[k] = b[n]
      BY <3>1, AppendedIs, Zenon
    <3>3. /\ \A n \in DOMAIN a : Saved(a[n])
          /\ \A n \in DOMAIN b : Saved(b[n])
      BY <1>1, <1>5
    <3> QED BY <2>3, <3>2, <3>3
  <2> QED BY <1>1, <2>1, <2>2, <2>3
<1>7. \A n \in DOMAIN pager'.items : ItemSaved(n)'
  BY <1>2, <1>6 DEF ItemSaved, Saved, Live
<1> QED BY <1>1, <1>2, <1>4, <1>5, <1>7, SavedStay DEF SavedInv

LEMMA ApplySaved ==
  ASSUME TInv, AloneInv, SavedInv, NEW c \in calls, Apply(c)
  PROVE  SavedInv'
<1>1. PICK i \in Id, a \in CallType :
        /\ EffectFacts(c.op.effect, i)
        /\ calls' = (calls \ {c}) \cup {a}
        /\ a.op = c.op /\ a.id = i /\ a.answer = rows'[i].version /\ a.answer # None
  BY ApplyIs
<1>2. UNCHANGED <<pager, overlap, lost, other>> /\ c.answer = None
  BY DEF Apply
<1>3. SUFFICES ASSUME Undisturbed PROVE SavedInv'
  BY <1>2 DEF SavedInv, Undisturbed
<1>4. net = {} /\ net' = {} /\ calls = {c} /\ calls' = {a}
  BY <1>1, <1>3 DEF AloneInv, Undisturbed, EffectFacts
<1>5. \A n \in DOMAIN pager.items : Saved(pager.items[n])
  BY <1>2, <1>3, <1>4 DEF SavedInv, ItemSaved
<1>6. Ids(pager.items) \subseteq Id
  BY TypeParts, PagerParts, SeqItems DEF TInv
<1>7. \A n \in DOMAIN pager'.items : ItemSaved(n)'
  <2> SUFFICES ASSUME NEW n \in DOMAIN pager.items, pager.items[n].id # i PROVE Saved(pager.items[n])'
    BY <1>1, <1>2, <1>4 DEF ItemSaved
  <2>1. pager.items[n].id \in Id /\ Saved(pager.items[n])
    BY <1>5, <1>6 DEF Ids
  <2> QED BY <1>1, <1>2, <2>1 DEF Saved, Live, EffectFacts
<1>8. /\ a.op.effect # "remove" => Live(i)'
      /\ a.op.effect = "create" => i \notin Ids(pager.items)
  <2>1. a.op.effect \in {"create", "change", "remove"}
    BY CallParts, TypeParts DEF TInv
  <2>2. a.op.effect = "create" => Live(i)' /\ ~Live(i)
    BY <1>1 DEF EffectFacts, RowCreated, Live
  <2>3. a.op.effect = "change" => Live(i)'
    BY <1>1 DEF EffectFacts
  <2>4. \A j \in Ids(pager.items) : Live(j)
    BY <1>5 DEF Saved, Ids
  <2> QED BY <2>1, <2>2, <2>3, <2>4
<1>9. AnswerSaved(a)'
  BY <1>1, <1>2, <1>8 DEF AnswerSaved
<1> QED BY <1>4, <1>7, <1>9 DEF SavedInv

LEMMA ConfirmedSaved ==
  ASSUME TInv, AloneInv, SavedInv, NEW c \in calls, Confirmed(c)
  PROVE  SavedInv'
<1> DEFINE items == pager.items
           e == pager'.items
<1>1. /\ c \in CallType /\ c.id \in Id /\ c.answer \in Nat /\ calls' = calls \ {c}
      /\ \A k \in DOMAIN e : \/ \E n \in DOMAIN items : e[k] = items[n] /\ items[n].id # c.id
                             \/ e[k] = [id |-> c.id, version |-> c.answer] /\ c.op.effect # "remove"
                             \/ c.op.effect = "create" /\ c.id \in Ids(items)
  BY ConfirmedIs
<1>2. UNCHANGED <<rows, net, overlap, lost, other>> /\ c.answer # None
  BY DEF Confirmed
<1>3. SUFFICES ASSUME Undisturbed PROVE SavedInv'
  BY <1>2 DEF SavedInv, Undisturbed
<1>4. net' = {} /\ calls = {c} /\ calls' = {}
  BY <1>1, <1>2, <1>3 DEF AloneInv, Undisturbed
<1>5. \A n \in DOMAIN items : items[n].id # c.id => Saved(items[n])
  BY <1>3, <1>4 DEF SavedInv, ItemSaved
<1>6. AnswerSaved(c)
  BY <1>3 DEF SavedInv
<1>7. \A k \in DOMAIN e : Saved(e[k])
  BY <1>1, <1>2, <1>5, <1>6 DEF AnswerSaved, Saved
<1>8. \A k \in DOMAIN pager'.items : ItemSaved(k)'
  BY <1>2, <1>7 DEF ItemSaved, Saved, Live
<1> QED BY <1>4, <1>8 DEF SavedInv
LEMMA UndisturbedBefore ==
  ASSUME TInv, ~overlap' => ~overlap, [Next]_vars, Undisturbed'
  PROVE  Undisturbed /\ other' = other
<1>1. other \in Nat /\ other' = 0 /\ ~lost' /\ ~overlap'
  BY TypeParts DEF TInv, Undisturbed
<1>2. other' = other /\ ~lost
  <2>1. CASE User
    BY <1>1, <2>1 DEF User, Type, Retry, loadMore, Send
  <2>2. CASE Search
    BY <1>1, <2>2 DEF Search
  <2>3. CASE Other
    BY <1>1, <2>3 DEF Other
  <2>4. ASSUME NEW r \in net, Read(r) \/ Receive(r) \/ Fail(r) PROVE other' = other /\ ~lost
    BY <1>1, <2>4 DEF Read, Receive, Fail
  <2>5. ASSUME NEW c \in calls, Apply(c) \/ Confirmed(c) \/ Refused(c) PROVE other' = other /\ ~lost
    <3>1. UNCHANGED other
      BY <2>5 DEF Apply, Confirmed, Refused
    <3>2. CASE Refused(c)
      <4>1. lost' = (lost \/ c.answer # None)
        BY <3>2 DEF Refused
      <4>2. lost => lost'
        BY <4>1, Zenon
      <4> QED BY <1>1, <3>1, <4>2
    <3>3. CASE Apply(c) \/ Confirmed(c)
      <4>1. UNCHANGED lost
        BY <3>3 DEF Apply, Confirmed
      <4> QED BY <1>1, <3>1, <4>1
    <3> QED BY <2>5, <3>2, <3>3
  <2>6. CASE UNCHANGED vars
    BY <1>1, <2>6 DEF vars
  <2> QED BY <2>1, <2>2, <2>3, <2>4, <2>5, <2>6 DEF Next
<1> QED BY <1>1, <1>2 DEF Undisturbed

LEMMA SavedStep == TInv /\ AloneInv /\ SavedInv /\ [Next]_vars => SavedInv'
<1> SUFFICES ASSUME TInv, AloneInv, SavedInv, [Next]_vars PROVE SavedInv'
  OBVIOUS
<1>0. ~overlap' => ~overlap
  BY AloneStep
<1>1. SUFFICES ASSUME Undisturbed', Undisturbed, other' = other PROVE SavedInv'
  BY <1>0, UndisturbedBefore DEF SavedInv
<1>2. ASSUME rows' = rows, pager'.items = pager.items,
             \A r \in net' : r \in net \/ r.page.items = <<>>,
             \A c \in calls : c \in calls' \/ c.answer = None,
             \A c \in calls' : c \in calls \/ c.answer = None
      PROVE  SavedInv'
  BY <1>1, <1>2, SavedKept
<1>3. ASSUME NEW q \in Query, load(q), rows' = rows, calls' = calls PROVE SavedInv'
  <2>1. pager'.items = pager.items
    BY <1>3, loadTypes
  <2>2. \A r \in net' : r \in net \/ r.page.items = <<>>
    BY <1>3, NoPageType DEF load, Request
  <2> QED BY <1>2, <1>3, <2>1, <2>2
<1>4. CASE Type
  BY <1>2, <1>4 DEF Type
<1>5. CASE Search
  <2>1. query' \in Query
    BY <1>5, TypeParts, QueriesType DEF Search, TInv
  <2> QED BY <1>3, <1>5, <2>1 DEF Search
<1>6. CASE Retry
  BY <1>3, <1>6, TypeParts DEF Retry, TInv
<1>7. CASE loadMore
  <2>1. pager'.items = pager.items
    BY <1>7, TypeParts DEF TInv, loadMore, PagerType
  <2>2. \A r \in net' : r \in net \/ r.page.items = <<>>
    BY <1>7, NoPageType DEF loadMore, Request
  <2> QED BY <1>2, <1>7, <2>1, <2>2 DEF loadMore
<1>8. ASSUME NEW op \in page.ops, NEW i \in Targets(op), Send(op, i) PROVE SavedInv'
  <2>1. calls' = calls \cup {Call(op, i)} /\ UNCHANGED <<rows, pager, net>>
    BY <1>8 DEF Send
  <2>2. Call(op, i).answer = None
    BY TargetIs
  <2> QED BY <1>2, <2>1, <2>2
<1>9. CASE Other
  BY <1>1, <1>9, TypeParts DEF Other, TInv
<1>10. ASSUME NEW r \in net, Read(r) PROVE SavedInv'
  BY <1>10, ReadSaved
<1>11. ASSUME NEW r \in net, Receive(r) PROVE SavedInv'
  BY <1>11, ReceiveSaved
<1>12. ASSUME NEW r \in net, Fail(r) PROVE SavedInv'
  <2>1. net' = net \ {r} /\ pager'.items = pager.items
    BY <1>12, FailIs
  <2> QED BY <1>2, <1>12, <2>1 DEF Fail
<1>13. ASSUME NEW c \in calls, Apply(c) PROVE SavedInv'
  BY <1>13, ApplySaved
<1>14. ASSUME NEW c \in calls, Confirmed(c) PROVE SavedInv'
  BY <1>14, ConfirmedSaved
<1>15. ASSUME NEW c \in calls, Refused(c) PROVE SavedInv'
  <2>1. c.answer = None
    BY <1>1, <1>15 DEF Refused, Undisturbed
  <2> QED BY <1>2, <1>15, <2>1 DEF Refused
<1>16. CASE UNCHANGED vars
  BY <1>2, <1>16 DEF vars
<1> QED BY <1>4, <1>5, <1>6, <1>7, <1>8, <1>9, <1>10, <1>11, <1>12, <1>13, <1>14, <1>15, <1>16
        DEF Next, User

\* After a confirmed change the list shows what is stored, without a reload,
\* unless an answer was lost, requests overlapped, or others made changes: the
\* answer to a change carries the row it has left (paginator.svelte.ts:63).
THEOREM ListsShowWhatIsSaved == Spec => []ShownAsSaved
<1>1. SavedInv => ShownAsSaved
  BY DEF SavedInv, Undisturbed, ItemSaved, ShownAsSaved, Saved
<1> QED BY TypesInit, TypesStep, AloneInit, AloneStep, SavedInit, SavedStep, <1>1, PTL DEF Spec
-----------------------------------------------------------------------------
(***************************************************************************)
(* No row twice, in a list that is newest first.  What is loaded comes     *)
(* after the cursor and what is shown does not; a row that is put in front *)
(* is younger than the cursor.                                             *)
(***************************************************************************)
Desc == page.order = "desc"

\* A row of the list: not after the cursor.
Placed(i) == /\ rows[i].created # 0
             /\ pager.cursor # None => ~Follows(page.order, i, pager.cursor)

\* A row of an answer: after the cursor asked for, not after the next.
PlacedIn(r, i) == /\ rows[i].created # 0
                  /\ r.cursor # None => Follows(page.order, i, r.cursor)
                  /\ r.page.next_cursor # None => ~Follows(page.order, i, r.page.next_cursor)

PageOnce(r) ==
  r.page # NoPage =>
    /\ Once(r.page.items)
    /\ \A i \in Ids(r.page.items) : PlacedIn(r, i)
    /\ r.page.next_cursor # None =>
         /\ r.page.next_cursor[1] <= now
         /\ r.cursor # None => Less(r.page.next_cursor, r.cursor)

\* A row made by a change is younger than what the list was read up to.
Younger(c) ==
  /\ pager.cursor # None => pager.cursor[1] < now
  /\ c.answer # None /\ c.op.effect = "create" =>
       /\ c.id \notin Ids(pager.items) /\ rows[c.id].created # 0
       /\ pager.cursor # None => pager.cursor[1] < rows[c.id].created

OnceInv ==
  Desc /\ ~overlap =>
    /\ Once(pager.items)
    /\ \A i \in Ids(pager.items) : Placed(i)
    /\ pager.cursor # None => pager.cursor[1] <= now
    /\ \A r \in net : PageOnce(r)
    /\ \A c \in calls : Younger(c)

LEMMA CursorParts == \A c \in Cursor : c # None => c \in Nat \X Id /\ c[1] \in Nat
BY DEF Cursor

LEMMA EmptyOnce == Once(<<>>) /\ Ids(<<>>) = {}
BY DEF Once, Ids

LEMMA OnceInit == Init => OnceInv
<1> SUFFICES ASSUME Init PROVE OnceInv
  OBVIOUS
<1>1. /\ net = {Request("first", 1, query, None)} /\ calls = {} /\ pager.items = <<>>
      /\ pager.cursor = None
  BY DEF Init
<1>2. \A r \in net : r.page = NoPage
  BY <1>1 DEF Request
<1> QED BY <1>1, <1>2, EmptyOnce DEF OnceInv, PageOnce

\* Dates stay, time goes on, and nothing is read or shown.
LEMMA OnceKept ==
  ASSUME TInv, OnceInv, page' = page, ~overlap' => ~overlap, now' \in Nat, now' >= now,
         pager'.items = pager.items, pager'.cursor = pager.cursor,
         \A i \in Id : Desc /\ rows[i].created # 0 => rows'[i].created = rows[i].created,
         \A q \in net' : \/ q.page = NoPage
                         \/ \E r \in net : Later(q, r),
         \A c \in calls' : Desc /\ ~overlap' => c \in calls \/ Younger(c)'
  PROVE  OnceInv'
<1> SUFFICES ASSUME Desc, ~overlap' PROVE OnceInv'
  BY DEF OnceInv, Desc
<1>1. /\ Once(pager.items)
      /\ \A i \in Ids(pager.items) : Placed(i)
      /\ pager.cursor # None => pager.cursor[1] <= now
      /\ \A r \in net : PageOnce(r)
      /\ \A c \in calls : Younger(c)
  BY DEF OnceInv
<1>2. /\ now \in Nat /\ Ids(pager.items) \subseteq Id /\ pager.cursor \in Cursor
      /\ pager.cursor # None => pager.cursor[1] \in Nat
  BY TypeParts, PagerParts, SeqItems, CursorParts DEF TInv
<1>3. ASSUME NEW i \in Id, rows[i].created # 0
      PROVE  \A order, c : Follows(order, i, c)' <=> Follows(order, i, c)
  BY <1>3 DEF Follows, Key
<1>4. \A i \in Ids(pager'.items) : Placed(i)'
  BY <1>1, <1>2, <1>3 DEF Placed, Follows, Key
<1>5. ASSUME NEW q \in net' PROVE PageOnce(q)'
  <2> SUFFICES ASSUME q.page # NoPage PROVE PageOnce(q)'
    BY DEF PageOnce
  <2>1. PICK r \in net : Later(q, r)
    OBVIOUS
  <2>2. /\ Once(r.page.items)
        /\ \A i \in Ids(r.page.items) : PlacedIn(r, i)
        /\ r.page.next_cursor # None =>
             /\ r.page.next_cursor[1] <= now
             /\ r.cursor # None => Less(r.page.next_cursor, r.cursor)
    BY <1>1, <2>1 DEF PageOnce, Later
  <2>3. /\ Ids(r.page.items) \subseteq Id
        /\ r.page.next_cursor # None => r.page.next_cursor[1] \in Nat
    BY TypeParts, RequestParts, SeqItems, CursorParts DEF TInv
  <2>4. \A i \in Ids(q.page.items) : PlacedIn(q, i)'
    BY <1>3, <2>1, <2>2, <2>3 DEF PlacedIn, Later, Follows, Key
  <2>5. q.page.next_cursor # None => q.page.next_cursor[1] <= now'
    BY <1>2, <2>1, <2>2, <2>3 DEF Later
  <2> QED BY <2>1, <2>2, <2>4, <2>5 DEF PageOnce, Later
<1>6. ASSUME NEW c \in calls' PROVE Younger(c)'
  <2> SUFFICES ASSUME c \in calls PROVE Younger(c)'
    OBVIOUS
  <2>1. Younger(c)
    BY <1>1
  <2>2. c.answer # None => c.id \in Id /\ rows[c.id].created \in Nat
    BY TypeParts DEF TInv, Known, RowType
  <2> QED BY <1>2, <2>1, <2>2 DEF Younger
<1>7. pager'.cursor # None => pager'.cursor[1] <= now'
  BY <1>1, <1>2
<1> QED BY <1>1, <1>4, <1>5, <1>6, <1>7 DEF OnceInv

\* In a list that is newest first no row is revived: dates stay.
LEMMA DatesStay ==
  ASSUME TInv, NEW effect, NEW i \in Id, EffectFacts(effect, i), Desc
  PROVE  /\ \A j \in Id : rows[j].created # 0 => rows'[j].created = rows[j].created
         /\ effect = "create" => rows[i].created = 0 /\ rows'[i].created = now
<1>1. ~page.revives
  BY TypeParts, Pages DEF TInv, Desc
<1> QED BY <1>1 DEF EffectFacts, RowCreated

LEMMA ReadOnce ==
  ASSUME TInv, RowsInv, OnceInv, NEW r \in net, Read(r)
  PROVE  OnceInv'
<1>1. PICK q \in RequestType :
        /\ net' = (net \ {r}) \cup {q} /\ q.cursor = r.cursor
        /\ PageOf(q.page, Listed(r.query, r.cursor), rows, page.order)
  BY ReadIs
<1>2. UNCHANGED <<page, rows, now, pager, calls, overlap>>
  BY DEF Read
<1> SUFFICES ASSUME Desc, ~overlap PROVE OnceInv'
  BY <1>2 DEF OnceInv, Desc
<1>3. rows \in [Id -> RowType] /\ now \in Nat
  BY TypeParts DEF TInv
<1> DEFINE items == q.page.items
           next == q.page.next_cursor
           after(i, c) == Less(Key(i), c)
<1>4. /\ \A n \in DOMAIN items : items[n].id \in Listed(r.query, r.cursor)
      /\ \A m, n \in DOMAIN items : m < n => Follows(page.order, items[n].id, Key(items[m].id))
      /\ next # None => \E n \in DOMAIN items : /\ next = Key(items[n].id)
                                                /\ \A m \in DOMAIN items : m <= n
      /\ items \in Seq(Item)
  BY <1>1, RequestParts DEF PageOf
<1>5. \A i, c : Follows(page.order, i, c) <=> Less(Key(i), c)
  BY DEF Follows, Desc
<1>6. \A n \in DOMAIN items : /\ items[n].id \in Id /\ Live(items[n].id) /\ n \in Nat
                              /\ Key(items[n].id) \in Nat \X Id
                              /\ rows[items[n].id].created # 0 /\ rows[items[n].id].created <= now
                              /\ Key(items[n].id)[1] = rows[items[n].id].created
                              /\ r.cursor # None => Less(Key(items[n].id), r.cursor)
  BY <1>3, <1>4, <1>5, KeyType, SeqItems DEF Listed, RowsInv
<1>7. \A m, n \in DOMAIN items : m < n => Less(Key(items[n].id), Key(items[m].id))
  BY <1>4, <1>5
<1> HIDE DEF items, next
<1>8. Once(items)
  <2> SUFFICES ASSUME NEW m \in DOMAIN items, NEW n \in DOMAIN items, items[m].id = items[n].id
               PROVE  m = n
    BY DEF Once
  <2>1. ~(m < n) /\ ~(n < m)
    BY <1>6, <1>7, LessIsOrder
  <2> QED BY <2>1, <1>6
<1>9. next # None => /\ next[1] <= now
                     /\ r.cursor # None => Less(next, r.cursor)
                     /\ \A m \in DOMAIN items : ~Less(Key(items[m].id), next)
  <2> SUFFICES ASSUME next # None
               PROVE  /\ next[1] <= now
                      /\ r.cursor # None => Less(next, r.cursor)
                      /\ \A m \in DOMAIN items : ~Less(Key(items[m].id), next)
    OBVIOUS
  <2>1. PICK n \in DOMAIN items : next = Key(items[n].id) /\ \A m \in DOMAIN items : m <= n
    BY <1>4
  <2>2. ASSUME NEW m \in DOMAIN items PROVE ~Less(Key(items[m].id), next)
    <3>1. m = n \/ m < n
      BY <1>6, <2>1
    <3>2. m < n => Less(next, Key(items[m].id))
      BY <1>7, <2>1
    <3> QED BY <1>6, <2>1, <3>1, <3>2, LessIsOrder
  <2> QED BY <1>6, <2>1, <2>2
<1>10. \A i \in Ids(items) : PlacedIn(q, i)
  BY <1>1, <1>5, <1>6, <1>9 DEF Ids, PlacedIn, next
<1>11. PageOnce(q)
  BY <1>1, <1>8, <1>9, <1>10 DEF PageOnce, items, next
<1>12. \A s \in net' : PageOnce(s)
  BY <1>1, <1>11 DEF OnceInv
<1>13. ASSUME NEW s, PageOnce(s) PROVE PageOnce(s)'
  BY <1>2, <1>13, RowsStay DEF PageOnce, PlacedIn
<1> QED BY <1>2, <1>12, <1>13, RowsStay DEF OnceInv, Placed, Younger
LEMMA ReceiveOnce ==
  ASSUME TInv, RequestsInv, AloneInv, OnceInv, NEW r \in net, Receive(r)
  PROVE  OnceInv'
<1>1. /\ r \in RequestType /\ r.page # NoPage /\ net' = net \ {r}
      /\ r.gen # pager.generation => pager' = pager
      /\ r.gen = pager.generation =>
           /\ pager'.cursor = r.page.next_cursor
           /\ r.kind = "first" => pager'.items = r.page.items
           /\ r.kind # "first" => pager'.items = pager.items \o r.page.items
  BY ReceiveIs
<1>2. UNCHANGED <<page, rows, now, calls, overlap>>
  BY DEF Receive
<1> SUFFICES ASSUME Desc, ~overlap PROVE OnceInv'
  BY <1>2 DEF OnceInv, Desc
<1>3. calls = {}
  BY DEF AloneInv
<1>4. ASSUME NEW s, PageOnce(s) PROVE PageOnce(s)'
  BY <1>2, <1>4, RowsStay DEF PageOnce, PlacedIn
<1>5. \A s \in net' : PageOnce(s)'
  BY <1>1, <1>4 DEF OnceInv
<1>6. CASE ~Current(r)
  BY <1>1, <1>2, <1>3, <1>5, <1>6, RowsStay DEF OnceInv, Placed, Current
<1>7. CASE Current(r)
  <2> DEFINE next == r.page.next_cursor
             old == pager.items
             new == r.page.items
  <2>1. /\ Once(new) /\ \A i \in Ids(new) : PlacedIn(r, i)
        /\ next # None => /\ next[1] <= now
                          /\ r.cursor # None => Less(next, r.cursor)
    BY <1>1 DEF OnceInv, PageOnce
  <2>2. /\ \A i \in Ids(new) : rows[i].created # 0
        /\ \A i \in Ids(new) : next # None => ~Follows(page.order, i, next)
    BY <2>1 DEF PlacedIn
  <2>3. /\ Once(pager'.items)
        /\ \A i \in Ids(pager'.items) :
             rows[i].created # 0 /\ (next # None => ~Follows(page.order, i, next))
    <3>1. CASE r.kind = "first"
      BY <1>1, <1>7, <2>1, <2>2, <3>1 DEF Current
    <3>2. CASE r.kind = "more"
      <4>1. r.cursor = pager.cursor /\ r.cursor # None
        BY <1>7, <3>2 DEF RequestsInv
      <4>2. \A i \in Ids(old) : rows[i].created # 0 /\ ~Follows(page.order, i, r.cursor)
        BY <4>1 DEF OnceInv, Placed
      <4>3. \A i \in Ids(new) : Follows(page.order, i, r.cursor)
        BY <2>1, <4>1 DEF PlacedIn
      <4>4. /\ old \in Seq(Item) /\ new \in Seq(Item) /\ Ids(old) \subseteq Id
            /\ rows \in [Id -> RowType] /\ r.cursor \in Nat \X Id
            /\ next # None => next \in Nat \X Id
        BY <1>1, <4>1, TypeParts, PagerParts, RequestParts, SeqItems, CursorParts DEF TInv
      <4>5. Ids(old) \cap Ids(new) = {}
        BY <4>2, <4>3
      <4>6. Once(old) /\ pager'.items = old \o new
        BY <1>1, <1>7, <3>2 DEF OnceInv, Current
      <4>7. Once(old \o new) /\ Ids(old \o new) = Ids(old) \cup Ids(new)
        BY <2>1, <4>4, <4>5, <4>6, AppendedIs
      <4>8. ASSUME NEW i \in Ids(old), next # None PROVE ~Follows(page.order, i, next)
        <5>1. Key(i) \in Nat \X Id /\ next \in Nat \X Id /\ Less(next, r.cursor)
          BY <2>1, <4>1, <4>4, <4>8, KeyType
        <5>2. ~Less(Key(i), r.cursor)
          BY <4>2 DEF Follows, Desc
        <5>3. ~Less(Key(i), next)
          BY <4>4, <5>1, <5>2, LessIsOrder
        <5> QED BY <5>3 DEF Follows, Desc
      <4> QED BY <2>2, <4>2, <4>6, <4>7, <4>8
    <3> QED BY <1>1, <3>1, <3>2, RequestParts
  <2>4. pager'.cursor = next
    BY <1>1, <1>7 DEF Current
  <2>5. \A i \in Ids(pager'.items) : Placed(i)'
    BY <1>2, <2>3, <2>4, RowsStay DEF Placed
  <2>6. pager'.cursor # None => pager'.cursor[1] <= now'
    BY <1>2, <2>1, <2>4
  <2> QED BY <1>2, <1>3, <1>5, <2>3, <2>5, <2>6 DEF OnceInv
<1> QED BY <1>6, <1>7

LEMMA ApplyOnce ==
  ASSUME TInv, RowsInv, OnceInv, NEW c \in calls, Apply(c)
  PROVE  OnceInv'
<1>1. PICK i \in Id, a \in CallType :
        /\ EffectFacts(c.op.effect, i)
        /\ calls' = (calls \ {c}) \cup {a}
        /\ a.op = c.op /\ a.id = i /\ a.answer = rows'[i].version /\ a.answer # None
  BY ApplyIs
<1>2. UNCHANGED <<page, pager, overlap, now>>
  BY DEF Apply
<1>3. Desc => /\ \A j \in Id : rows[j].created # 0 => rows'[j].created = rows[j].created
              /\ c.op.effect = "create" => rows[i].created = 0 /\ rows'[i].created = now
  BY <1>1, DatesStay
<1>4. ASSUME Desc, ~overlap' PROVE Younger(a)'
  <2>1. Younger(c) /\ \A j \in Ids(pager.items) : rows[j].created # 0
    BY <1>2, <1>4 DEF OnceInv, Placed
  <2>2. now \in Nat /\ now >= 1
    BY TypeParts DEF TInv, RowsInv
  <2> QED BY <1>1, <1>2, <1>3, <1>4, <2>1, <2>2 DEF Younger
<1>5. now \in Nat
  BY TypeParts DEF TInv
<1>6. \A q \in net' : \E r \in net : Later(q, r)
  BY <1>1 DEF EffectFacts
<1>7. \A d \in calls' : Desc /\ ~overlap' => d \in calls \/ Younger(d)'
  BY <1>1, <1>4
<1> QED BY <1>2, <1>3, <1>5, <1>6, <1>7, OnceKept

LEMMA ConfirmedOnce ==
  ASSUME TInv, AloneInv, OnceInv, NEW c \in calls, Confirmed(c)
  PROVE  OnceInv'
<1> DEFINE items == pager.items
           e == pager'.items
<1>1. /\ c \in CallType /\ c.id \in Id /\ calls' = calls \ {c} /\ pager'.cursor = pager.cursor
      /\ c.op.effect = "create" => Ids(e) = Ids(items) \cup {c.id}
      /\ c.op.effect = "change" => Ids(e) = Ids(items)
      /\ c.op.effect = "remove" => Ids(e) = Ids(items) \ {c.id}
      /\ Once(items) /\ (c.op.effect = "create" => c.id \notin Ids(items)) => Once(e)
  BY ConfirmedIs
<1>2. UNCHANGED <<page, rows, now, net, overlap>> /\ c.answer # None
  BY DEF Confirmed
<1> SUFFICES ASSUME Desc, ~overlap PROVE OnceInv'
  BY <1>2 DEF OnceInv, Desc
<1>3. net = {} /\ calls' = {}
  BY <1>1 DEF AloneInv
<1>4. Younger(c) /\ Once(items) /\ \A i \in Ids(items) : Placed(i)
  BY DEF OnceInv
<1>5. c.op.effect \in {"create", "change", "remove"}
  BY <1>1, CallParts, TypeParts DEF TInv
<1>6. c.op.effect = "create" => Placed(c.id)
  <2> SUFFICES ASSUME c.op.effect = "create" PROVE Placed(c.id)
    OBVIOUS
  <2>1. /\ rows[c.id].created # 0 /\ rows[c.id].created \in Nat
        /\ pager.cursor # None =>
             pager.cursor[1] < rows[c.id].created /\ pager.cursor[1] \in Nat
    BY <1>1, <1>2, <1>4, TypeParts, PagerParts, CursorParts DEF TInv, Younger, RowType
  <2>2. pager.cursor # None => ~Less(Key(c.id), pager.cursor)
    BY <2>1 DEF Less, Key
  <2> QED BY <2>1, <2>2 DEF Placed, Follows, Desc
<1>7. \A i \in Ids(e) : Placed(i)
  BY <1>1, <1>4, <1>5, <1>6
<1>8. Once(e)
  BY <1>1, <1>2, <1>4 DEF Younger
<1>9. \A i \in Ids(pager'.items) : Placed(i)'
  BY <1>1, <1>2, <1>7, RowsStay DEF Placed
<1>10. pager'.cursor # None => pager'.cursor[1] <= now'
  BY <1>1, <1>2 DEF OnceInv
<1> QED BY <1>2, <1>3, <1>8, <1>9, <1>10 DEF OnceInv

LEMMA OnceStep ==
  TInv /\ RowsInv /\ RequestsInv /\ AloneInv /\ OnceInv /\ [Next]_vars => OnceInv'
<1> SUFFICES ASSUME TInv, RowsInv, RequestsInv, AloneInv, OnceInv, [Next]_vars PROVE OnceInv'
  OBVIOUS
<1>0. /\ ~overlap' => ~overlap
      /\ now \in Nat /\ net \subseteq RequestType
  BY AloneStep, TypeParts DEF TInv
<1>1. ASSUME UNCHANGED <<page, rows, now>>, pager'.items = pager.items,
             pager'.cursor = pager.cursor,
             \A q \in net' : q.page = NoPage \/ q \in net, calls' \subseteq calls
      PROVE  OnceInv'
  <2>1. \A q \in net' : q.page = NoPage \/ \E r \in net : Later(q, r)
    BY <1>0, <1>1, LaterIsReflexive
  <2> QED BY <1>0, <1>1, <2>1, OnceKept
<1>2. ASSUME NEW q \in Query, load(q), UNCHANGED <<page, rows, now, calls>> PROVE OnceInv'
  <2>1. pager'.items = pager.items /\ pager'.cursor = pager.cursor
    BY <1>2, loadTypes
  <2>2. \A r \in net' : r.page = NoPage \/ r \in net
    BY <1>2 DEF load, Request
  <2> QED BY <1>1, <1>2, <2>1, <2>2
<1>3. CASE Type
  BY <1>1, <1>3 DEF Type
<1>4. CASE Search
  <2>1. query' \in Query
    BY <1>4, TypeParts, QueriesType DEF Search, TInv
  <2> QED BY <1>2, <1>4, <2>1 DEF Search
<1>5. CASE Retry
  BY <1>2, <1>5, TypeParts DEF Retry, TInv
<1>6. CASE loadMore
  <2>1. pager'.items = pager.items /\ pager'.cursor = pager.cursor
    BY <1>6, TypeParts DEF TInv, loadMore, PagerType
  <2>2. \A r \in net' : r.page = NoPage \/ r \in net
    BY <1>6 DEF loadMore, Request
  <2> QED BY <1>1, <1>6, <2>1, <2>2 DEF loadMore
<1>7. ASSUME NEW op \in page.ops, NEW i \in Targets(op), Send(op, i) PROVE OnceInv'
  <2>1. /\ calls' = calls \cup {Call(op, i)} /\ UNCHANGED <<page, rows, pager, net>>
        /\ now' = now + 1
    BY <1>7 DEF Send
  <2>2. Call(op, i).answer = None
    BY TargetIs
  <2>3. ASSUME Desc, ~overlap' PROVE Younger(Call(op, i))'
    <3>1. pager.cursor # None => pager.cursor[1] <= now /\ pager.cursor[1] \in Nat
      BY <1>0, <2>3, TypeParts, PagerParts, CursorParts DEF OnceInv, TInv
    <3> QED BY <1>0, <2>1, <2>2, <3>1 DEF Younger
  <2>4. \A r \in net' : \E s \in net : Later(r, s)
    BY <1>0, <2>1, LaterIsReflexive
  <2>5. \A d \in calls' : Desc /\ ~overlap' => d \in calls \/ Younger(d)'
    BY <2>1, <2>3
  <2> QED BY <1>0, <2>1, <2>4, <2>5, OnceKept
<1>8. CASE Other
  <2>1. PICK effect \in {"create", "change", "remove"}, i \in Id : EffectFacts(effect, i)
    BY <1>8, OtherIs
  <2>2. UNCHANGED <<page, pager, calls, overlap, now>>
    BY <1>8 DEF Other
  <2>3. \A q \in net' : \E r \in net : Later(q, r)
    BY <2>1 DEF EffectFacts
  <2>4. Desc => \A j \in Id : rows[j].created # 0 => rows'[j].created = rows[j].created
    BY <2>1, DatesStay
  <2> QED BY <1>0, <2>2, <2>3, <2>4, OnceKept
<1>9. ASSUME NEW r \in net, Read(r) PROVE OnceInv'
  BY <1>9, ReadOnce
<1>10. ASSUME NEW r \in net, Receive(r) PROVE OnceInv'
  BY <1>10, ReceiveOnce
<1>11. ASSUME NEW r \in net, Fail(r) PROVE OnceInv'
  <2>1. net' = net \ {r} /\ pager'.items = pager.items /\ pager'.cursor = pager.cursor
    BY <1>11, FailIs
  <2> QED BY <1>1, <1>11, <2>1 DEF Fail
<1>12. ASSUME NEW c \in calls, Apply(c) PROVE OnceInv'
  BY <1>12, ApplyOnce
<1>13. ASSUME NEW c \in calls, Confirmed(c) PROVE OnceInv'
  BY <1>13, ConfirmedOnce
<1>14. ASSUME NEW c \in calls, Refused(c) PROVE OnceInv'
  BY <1>1, <1>14 DEF Refused
<1>15. CASE UNCHANGED vars
  BY <1>1, <1>15 DEF vars
<1> QED BY <1>3, <1>4, <1>5, <1>6, <1>7, <1>8, <1>9, <1>10, <1>11, <1>12, <1>13, <1>14, <1>15
        DEF Next, User

\* A row is in the list once, also if it was put in front and its page is loaded
\* after that: for any rows and limit, in every list that is newest first, as
\* long as no change overlaps with a load (endpoints.ts:47, paginator.svelte.ts:63).
THEOREM ListsShowRowsOnce == Spec => []NoRowTwice
<1>1. OnceInv => NoRowTwice
  BY DEF OnceInv, Desc, NoRowTwice, Once, NoDuplicates
<1> QED BY TypesInit, TypesStep, RowsInit, RowsStep, RequestsInit, RequestsStep, AloneInit, AloneStep,
           OnceInit, OnceStep, <1>1, PTL DEF Spec
=============================================================================
