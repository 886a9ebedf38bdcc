--------------------------- MODULE SnapshotProofs ---------------------------
(***************************************************************************)
(* For any ids, limits and number of pages.  Whatever writers do, the      *)
(* client never goes back (TInv), and rows, log and pages are well-typed   *)
(* and a page within its limit (Bounds).  That the log is needs the        *)
(* folders to be a forest (Tree): then the rows a cascade takes have an    *)
(* order, and each its tombstone.                                          *)
(*                                                                         *)
(* If no folder is deleted or moved with subfolders, a client that has     *)
(* pulled to the end holds what the server holds (ConvInv): an item whose  *)
(* place is not after the cursor has been put on a page, or the log has    *)
(* touched it since the checkpoint, and the pull brings it.                *)
(***************************************************************************)
EXTENDS Snapshot, FiniteSetTheorems, WellFoundedInduction, TLAPS

(***************************************************************************)
(* Order of positions, and the first rows in it.                           *)
(***************************************************************************)
LEMMA Numbers ==
  /\ Id \subseteq Nat /\ 0 \notin Id /\ IsFiniteSet(Id)
  /\ Folder \subseteq Id /\ Request \subseteq Id /\ Global \subseteq Id
  /\ IsFiniteSet(Folder) /\ Cardinality(Folder) \in Nat
  /\ PageLimit \in Nat /\ PageLimit > 0
<1>1. /\ Id \subseteq Nat /\ 0 \notin Id /\ IsFiniteSet(Id) /\ PageLimit \in Nat /\ PageLimit > 0
      /\ Folder \subseteq Id /\ Request \subseteq Id /\ Global \subseteq Id
  BY SnapshotAssumption DEF Id
<1>2. IsFiniteSet(Folder)
  BY <1>1, FS_Subset
<1> QED BY <1>1, <1>2, FS_CardinalityType

LEMMA LessIsWellFounded ==
  \E R : IsWellFoundedOn(R, Nat) /\ \A m, n \in Nat : m < n => <<m, n>> \in R
<1> DEFINE R == {p \in Nat \X Nat : p[1] < p[2]}
<1>1. OpToRel(<, Nat) = R
  BY DEF OpToRel
<1>2. IsWellFoundedOn(R, Nat)
  BY <1>1, NatLessThanWellFounded
<1>3. \A m, n \in Nat : m < n => <<m, n>> \in R
  OBVIOUS
<1> QED BY <1>2, <1>3

LEMMA Least ==
  ASSUME NEW S, S \subseteq Nat, S # {}
  PROVE  \E n \in S : \A m \in S : n <= m
<1>1. PICK R : IsWellFoundedOn(R, Nat) /\ \A m, n \in Nat : m < n => <<m, n>> \in R
  BY LessIsWellFounded
<1>2. IsWellFoundedOn(R, Nat)
  BY <1>1
<1>3. \E n \in S : \A m \in S : ~ (<<m, n>> \in R)
  BY <1>2, WFMin
<1>4. PICK n \in S : \A m \in S : ~ (<<m, n>> \in R)
  BY <1>3
<1>5. ASSUME NEW m \in S, m < n PROVE FALSE
  BY <1>1, <1>4, <1>5
<1>6. \A m \in S : n <= m
  BY <1>5
<1> QED BY <1>6

\* A set with 0 and with the successor of each of its members has every number.
LEMMA Induct ==
  ASSUME NEW S, 0 \in S, \A n \in Nat : n \in S => n + 1 \in S
  PROVE  Nat \subseteq S
<1> DEFINE T == Nat \ S
<1>1. SUFFICES ASSUME T # {} PROVE FALSE
  OBVIOUS
<1>2. PICK n \in T : \A m \in T : n <= m
  BY <1>1, Least
<1>3. n # 0 /\ n - 1 \in Nat
  OBVIOUS
<1>4. n - 1 \in S
  BY <1>2, <1>3
<1> QED BY <1>3, <1>4

Pair == Nat \X Nat

LEMMA EarlierIsOrder ==
  /\ \A p \in Pair : ~Earlier(p, p)
  /\ \A p, q, r \in Pair : Earlier(p, q) /\ Earlier(q, r) => Earlier(p, r)
  /\ \A p, q \in Pair : p = q \/ Earlier(p, q) \/ Earlier(q, p)
<1> SUFFICES ASSUME NEW p \in Pair, NEW q \in Pair, NEW r \in Pair
             PROVE  /\ ~Earlier(p, p)
                    /\ Earlier(p, q) /\ Earlier(q, r) => Earlier(p, r)
                    /\ p = q \/ Earlier(p, q) \/ Earlier(q, p)
  OBVIOUS
<1>1. /\ p[1] \in Nat /\ p[2] \in Nat /\ q[1] \in Nat /\ q[2] \in Nat
      /\ r[1] \in Nat /\ r[2] \in Nat
      /\ p[1] = q[1] /\ p[2] = q[2] => p = q
  BY DEF Pair
<1> QED BY <1>1 DEF Earlier

Before(p, S) == {q \in S : Earlier(q, p)}

LEMMA BeforeGrows ==
  ASSUME NEW S, S \subseteq Pair, IsFiniteSet(S)
  PROVE  /\ \A p \in S : /\ Cardinality(Before(p, S)) \in Nat
                         /\ Cardinality(Before(p, S)) < Cardinality(S)
         /\ \A p, q \in S : Earlier(p, q) => Cardinality(Before(p, S)) < Cardinality(Before(q, S))
<1>1. ASSUME NEW p \in S
      PROVE  /\ IsFiniteSet(Before(p, S)) /\ Cardinality(Before(p, S)) \in Nat
             /\ Cardinality(Before(p, S)) < Cardinality(S)
  <2>1. Before(p, S) \subseteq S /\ p \notin Before(p, S)
    BY EarlierIsOrder DEF Before
  <2>2. /\ IsFiniteSet(Before(p, S)) /\ Cardinality(Before(p, S)) <= Cardinality(S)
        /\ Cardinality(S) = Cardinality(Before(p, S)) => S = Before(p, S)
    BY <2>1, FS_Subset, Zenon
  <2>3. Cardinality(Before(p, S)) \in Nat /\ Cardinality(S) \in Nat
    BY <2>2, FS_CardinalityType
  <2> QED BY <2>1, <2>2, <2>3
<1>2. ASSUME NEW p \in S, NEW q \in S, Earlier(p, q)
      PROVE  Cardinality(Before(p, S)) < Cardinality(Before(q, S))
  <2>1. Before(p, S) \subseteq Before(q, S) /\ p \in Before(q, S) /\ p \notin Before(p, S)
    BY <1>2, EarlierIsOrder DEF Before
  <2>2. /\ Cardinality(Before(p, S)) <= Cardinality(Before(q, S))
        /\ Cardinality(Before(q, S)) = Cardinality(Before(p, S)) => Before(q, S) = Before(p, S)
    BY <1>1, <2>1, FS_Subset, Zenon
  <2> QED BY <1>1, <2>1, <2>2
<1> QED BY <1>1, <1>2

LEMMA FirstIs ==
  ASSUME NEW S, NEW n PROVE First(n, S) = {p \in S : Cardinality(Before(p, S)) < n}
BY DEF First, Before

\* What is not among the first comes after them.
LEMMA FirstComeFirst ==
  ASSUME NEW S, S \subseteq Pair, IsFiniteSet(S), NEW n \in Nat,
         NEW q \in First(n, S), NEW p \in S \ First(n, S)
  PROVE  Earlier(q, p)
<1>1. q \in S /\ Cardinality(Before(q, S)) < n /\ ~(Cardinality(Before(p, S)) < n)
  BY FirstIs
<1>2. p \in S /\ p # q
  OBVIOUS
<1>3. ~Earlier(p, q)
  <2>1. Cardinality(Before(q, S)) \in Nat /\ Cardinality(Before(p, S)) \in Nat
    BY <1>1, BeforeGrows
  <2>2. Earlier(p, q) => Cardinality(Before(p, S)) < Cardinality(Before(q, S))
    BY <1>1, <1>2, BeforeGrows
  <2> QED BY <1>1, <2>1, <2>2
<1> QED BY <1>1, <1>2, <1>3, EarlierIsOrder

\* The first n are no more than n.
LEMMA FirstIsSmall ==
  ASSUME NEW S, S \subseteq Pair, IsFiniteSet(S), NEW n \in Nat
  PROVE  Cardinality(First(n, S)) <= n
<1> DEFINE F == First(n, S)
           rank == [p \in F |-> Cardinality(Before(p, S))]
<1>1. F \subseteq S /\ \A p \in F : rank[p] \in 0 .. n - 1
  <2>1. F \subseteq S /\ \A p \in F : rank[p] < n
    BY FirstIs
  <2>2. \A p \in F : rank[p] \in Nat
    BY <2>1, BeforeGrows
  <2> QED BY <2>1, <2>2
<1>2. ASSUME NEW p \in F, NEW q \in F, rank[p] = rank[q] PROVE p = q
  <2>1. p \in S /\ q \in S /\ p \in Pair /\ q \in Pair
    BY <1>1
  <2>2. Cardinality(Before(p, S)) = Cardinality(Before(q, S)) /\ Cardinality(Before(p, S)) \in Nat
    BY <1>2, <2>1, BeforeGrows
  <2>3. ~Earlier(p, q) /\ ~Earlier(q, p)
    BY <2>1, <2>2, BeforeGrows
  <2> QED BY <2>1, <2>3, EarlierIsOrder
<1>3. rank \in Injection(F, 0 .. n - 1)
  BY <1>1, <1>2 DEF Injection, IsInjective
<1> HIDE DEF rank, F
<1>4. IsFiniteSet(0 .. n - 1) /\ Cardinality(0 .. n - 1) = n
  BY FS_Interval
<1>5. Cardinality(F) <= Cardinality(0 .. n - 1)
  BY <1>3, <1>4, FS_Injection, Zenon
<1> QED BY <1>4, <1>5 DEF F

\* All of a set that is small enough is among its first.
LEMMA FewAreFirst ==
  ASSUME NEW S, S \subseteq Pair, IsFiniteSet(S), NEW n \in Nat, Cardinality(S) <= n
  PROVE  First(n, S) = S
<1>1. Cardinality(S) \in Nat
  BY FS_CardinalityType
<1>2. \A p \in S : Cardinality(Before(p, S)) \in Nat /\ Cardinality(Before(p, S)) < Cardinality(S)
  BY BeforeGrows
<1>3. \A p \in S : Cardinality(Before(p, S)) < n
  BY <1>1, <1>2
<1> QED BY <1>3, FirstIs

\* If one more than n were asked for and n came, there are no others.
LEMMA NoneIsLeft ==
  ASSUME NEW S, S \subseteq Pair, IsFiniteSet(S), NEW n \in Nat,
         Cardinality(First(n + 1, S)) <= n
  PROVE  First(n + 1, S) = S
<1> DEFINE F == First(n + 1, S)
           rank == [p \in S |-> Cardinality(Before(p, S))]
<1>1. F = {p \in S : rank[p] < n + 1}
  BY FirstIs
<1>2. \A p \in S : rank[p] \in Nat
  BY BeforeGrows
<1>3. SUFFICES ASSUME S \ F # {} PROVE FALSE
  BY <1>1
<1> DEFINE R == {rank[p] : p \in S \ F}
<1>4. R \subseteq Nat /\ R # {}
  BY <1>2, <1>3
<1>5. PICK k \in R : \A m \in R : k <= m
  BY <1>4, Least
<1>6. PICK p \in S \ F : rank[p] = k
  BY <1>5
<1>7. \A q \in S \ F : rank[p] <= rank[q]
  BY <1>5, <1>6
<1>8. Before(p, S) \subseteq F
  <2> SUFFICES ASSUME NEW q \in S, Earlier(q, p), q \notin F PROVE FALSE
    BY DEF Before
  <2>1. rank[q] < rank[p]
    BY BeforeGrows
  <2> QED BY <1>2, <1>7, <2>1
<1>9. IsFiniteSet(F) /\ Cardinality(F) \in Nat
  <2>1. F \subseteq S
    BY <1>1
  <2>2. IsFiniteSet(F)
    BY <2>1, FS_Subset
  <2> QED BY <2>2, FS_CardinalityType
<1>10. rank[p] <= n
  <2>1. Cardinality(Before(p, S)) <= Cardinality(F)
    BY <1>8, <1>9, FS_Subset, Zenon
  <2> QED BY <1>2, <1>9, <2>1
<1> HIDE DEF rank, F, R
<1>11. rank[p] < n + 1
  BY <1>2, <1>10
<1> QED BY <1>1, <1>11

LEMMA LastIsLast ==
  ASSUME NEW S, S \subseteq Pair, IsFiniteSet(S), S # {}
  PROVE  LastOf(S) \in S /\ \A q \in S : ~Earlier(LastOf(S), q)
<1> DEFINE rank == [p \in S |-> Cardinality(S) - Cardinality(Before(p, S))]
           R == {rank[p] : p \in S}
<1>1. Cardinality(S) \in Nat
  BY FS_CardinalityType
<1>2. \A p \in S : rank[p] \in Nat
  BY <1>1, BeforeGrows
<1>3. R \subseteq Nat /\ R # {}
  BY <1>2
<1>4. PICK k \in R : \A m \in R : k <= m
  BY <1>3, Least
<1>5. PICK p \in S : rank[p] = k
  BY <1>4
<1>6. ASSUME NEW q \in S, Earlier(p, q) PROVE FALSE
  <2>1. Cardinality(Before(p, S)) < Cardinality(Before(q, S))
    BY <1>6, BeforeGrows
  <2>2. Cardinality(Before(p, S)) \in Nat /\ Cardinality(Before(q, S)) \in Nat
    BY BeforeGrows
  <2>3. rank[q] < rank[p]
    BY <1>1, <2>1, <2>2
  <2>4. rank[p] <= rank[q]
    BY <1>4, <1>5
  <2> QED BY <1>2, <2>3, <2>4
<1>7. \E x \in S : \A q \in S : ~Earlier(x, q)
  BY <1>6
<1> QED BY <1>7 DEF LastOf

-----------------------------------------------------------------------------
(***************************************************************************)
(* Levels of the folder tree, and the places of the rows, in any rows rw.  *)
(***************************************************************************)
RowType == [version : Nat, parent : Folder \cup {0}]

There(rw, i) == rw[i].version > 0

Roots(rw) == {f \in Folder : There(rw, f) /\ (rw[f].parent = 0 \/ ~There(rw, rw[f].parent))}
Kids(rw, S) == {f \in Folder : There(rw, f) /\ rw[f].parent \in S}

IsLevel(l, rw, N) ==
  l = [n \in 0 .. N |-> IF n = 0 THEN Roots(rw) ELSE Kids(rw, l[n - 1])]

LevelsOf(rw) == CHOOSE l : IsLevel(l, rw, Cardinality(Folder))

Places(rw, ids) ==
  IF ids = Folder
  THEN UNION {{n} \X LevelsOf(rw)[n] : n \in DOMAIN LevelsOf(rw)}
  ELSE {0} \X {i \in ids : There(rw, i)}

LEMMA LevelIs == Level = LevelsOf(row) /\ Level' = LevelsOf(row')
BY DEF Level, LevelsOf, IsLevel, Roots, Kids, There, Exists

LEMMA PositionsAre ==
  ASSUME NEW ids
  PROVE  Positions(ids) = Places(row, ids) /\ Positions(ids)' = Places(row', ids)
BY LevelIs DEF Positions, Places, Exists, There

LEMMA LevelsExist ==
  ASSUME NEW rw, NEW N \in Nat
  PROVE  \E l : IsLevel(l, rw, N)
<1> DEFINE S == {k \in Nat : \E l \in [0 .. k -> SUBSET Folder] : IsLevel(l, rw, k)}
<1>1. 0 \in S
  <2> DEFINE l == [n \in 0 .. 0 |-> Roots(rw)]
  <2>1. l \in [0 .. 0 -> SUBSET Folder] /\ IsLevel(l, rw, 0)
    BY DEF IsLevel, Roots
  <2> QED BY <2>1
<1>2. ASSUME NEW k \in Nat, k \in S PROVE k + 1 \in S
  <2>1. PICK l \in [0 .. k -> SUBSET Folder] : IsLevel(l, rw, k)
    BY <1>2
  <2>2. \A m \in 0 .. k : l[m] = IF m = 0 THEN Roots(rw) ELSE Kids(rw, l[m - 1])
    <3> HIDE DEF S
    <3> QED BY <2>1 DEF IsLevel
  <2> DEFINE g == [n \in 0 .. k + 1 |-> IF n \in 0 .. k THEN l[n] ELSE Kids(rw, l[k])]
  <2>3. g \in [0 .. k + 1 -> SUBSET Folder]
    BY DEF Kids
  <2>4. ASSUME NEW n \in 0 .. k + 1
        PROVE  g[n] = IF n = 0 THEN Roots(rw) ELSE Kids(rw, g[n - 1])
    <3>1. CASE n = 0
      BY <2>2, <3>1
    <3>2. CASE n \in 1 .. k
      <4>1. n - 1 \in 0 .. k /\ n \in 0 .. k
        BY <3>2
      <4>2. l[n] = Kids(rw, l[n - 1])
        BY <2>2, <3>2, <4>1
      <4> QED BY <3>2, <4>1, <4>2
    <3>3. CASE n = k + 1
      BY <2>1, <3>3
    <3> QED BY <3>1, <3>2, <3>3
  <2>5. IsLevel(g, rw, k + 1)
    BY <2>3, <2>4 DEF IsLevel
  <2> HIDE DEF g
  <2>6. \E h \in [0 .. k + 1 -> SUBSET Folder] : IsLevel(h, rw, k + 1)
    BY <2>3, <2>5
  <2> QED BY <1>2, <2>6
<1> HIDE DEF S
<1>3. N \in S
  BY <1>1, <1>2, Induct
<1> QED BY <1>3 DEF S

LEMMA LevelFacts ==
  ASSUME NEW rw
  PROVE  LET l == LevelsOf(rw)
             N == Cardinality(Folder)
         IN /\ DOMAIN l = 0 .. N
            /\ l[0] = Roots(rw)
            /\ \A n \in 1 .. N : l[n] = Kids(rw, l[n - 1])
            /\ \A n \in 0 .. N : l[n] \subseteq {f \in Folder : There(rw, f)}
<1> DEFINE N == Cardinality(Folder)
           l == LevelsOf(rw)
           P(k) == IsLevel(k, rw, N)
<1>1. N \in Nat
  BY Numbers
<1>2. \E k : P(k)
  BY <1>1, LevelsExist
<1>3. l = CHOOSE k : P(k)
  BY DEF LevelsOf
<1> HIDE DEF P, l, N
<1>4. P(l)
  BY <1>2, <1>3
<1>5. l = [n \in 0 .. N |-> IF n = 0 THEN Roots(rw) ELSE Kids(rw, l[n - 1])]
  BY <1>4 DEF P, IsLevel
<1>6. DOMAIN l = 0 .. N
  BY <1>5
<1>7. \A n \in 0 .. N : l[n] = IF n = 0 THEN Roots(rw) ELSE Kids(rw, l[n - 1])
  BY <1>5
<1>8. l[0] = Roots(rw) /\ \A n \in 1 .. N : l[n] = Kids(rw, l[n - 1])
  BY <1>1, <1>7
<1>9. ASSUME NEW n \in 0 .. N PROVE l[n] \subseteq {f \in Folder : There(rw, f)}
  BY <1>7 DEF Roots, Kids
<1> QED BY <1>6, <1>8, <1>9 DEF l, N

\* Folders that keep their parents, which are among them, keep their levels.
LEMMA LevelsKept ==
  ASSUME NEW rw \in [Id -> RowType], NEW sw \in [Id -> RowType], NEW K \in SUBSET Folder,
         \A f \in K : /\ There(sw, f) <=> There(rw, f)
                      /\ There(rw, f) => sw[f].parent = rw[f].parent /\ rw[f].parent \in K \cup {0}
  PROVE  \A n \in 0 .. Cardinality(Folder) : \A f \in K :
           f \in LevelsOf(sw)[n] <=> f \in LevelsOf(rw)[n]
<1> DEFINE N == Cardinality(Folder)
           l == LevelsOf(rw)
           m == LevelsOf(sw)
           S == {n \in Nat : n <= N => \A f \in K : f \in m[n] <=> f \in l[n]}
<1>1. N \in Nat
  BY Numbers
<1>2. /\ l[0] = Roots(rw) /\ m[0] = Roots(sw)
      /\ \A n \in 1 .. N : l[n] = Kids(rw, l[n - 1]) /\ m[n] = Kids(sw, m[n - 1])
  BY LevelFacts
<1> HIDE DEF N, l, m
<1>3. 0 \notin Folder
  BY Numbers
<1>4. 0 \in S
  BY <1>2, <1>3 DEF Roots
<1>5. ASSUME NEW n \in Nat, n \in S PROVE n + 1 \in S
  <2> SUFFICES ASSUME n + 1 <= N, NEW f \in K PROVE f \in m[n + 1] <=> f \in l[n + 1]
    OBVIOUS
  <2>1. \A g \in K : g \in m[n] <=> g \in l[n]
    BY <1>1, <1>5
  <2>2. n + 1 \in 1 .. N /\ (n + 1) - 1 = n
    BY <1>1
  <2>3. l[n + 1] = Kids(rw, l[n]) /\ m[n + 1] = Kids(sw, m[n])
    BY <1>2, <2>2
  <2>4. \A g \in l[n] \cup m[n] : g \in Folder
    <3>1. n \in 0 .. N
      BY <1>1
    <3> QED BY <3>1, LevelFacts DEF l, m, N
  <2> QED BY <1>3, <2>1, <2>3, <2>4 DEF Kids
<1> HIDE DEF S
<1>6. Nat \subseteq S
  BY <1>4, <1>5, Induct
<1>7. \A n \in 0 .. N : n \in Nat /\ n <= N
  BY <1>1
<1> QED BY <1>6, <1>7 DEF S, N, l, m

\* A folder is in one level.
LEMMA LevelsAreApart ==
  ASSUME NEW rw \in [Id -> RowType]
  PROVE  \A m, n \in 0 .. Cardinality(Folder) : \A f :
           f \in LevelsOf(rw)[m] /\ f \in LevelsOf(rw)[n] => m = n
<1> DEFINE N == Cardinality(Folder)
           l == LevelsOf(rw)
           S == {n \in Nat : n <= N => \A m \in 0 .. N : \A f : f \in l[m] /\ f \in l[n] => m >= n}
<1>1. N \in Nat /\ 0 \notin Folder
  BY Numbers
<1>2. /\ l[0] = Roots(rw)
      /\ \A n \in 1 .. N : l[n] = Kids(rw, l[n - 1])
      /\ \A n \in 0 .. N : l[n] \subseteq {f \in Folder : There(rw, f)}
  BY LevelFacts
<1> HIDE DEF N, l
<1>3. 0 \in S
  BY <1>1
<1>4. ASSUME NEW n \in Nat, n \in S PROVE n + 1 \in S
  <2> SUFFICES ASSUME n + 1 <= N, NEW m \in 0 .. N, NEW f, f \in l[m], f \in l[n + 1]
               PROVE  m >= n + 1
    OBVIOUS
  <2>1. n + 1 \in 1 .. N /\ (n + 1) - 1 = n /\ n \in 0 .. N
    BY <1>1
  <2>2. f \in Kids(rw, l[n])
    BY <1>2, <2>1
  <2>3. rw[f].parent \in l[n]
    BY <2>2 DEF Kids
  <2>4. rw[f].parent \in Folder /\ There(rw, rw[f].parent)
    BY <1>2, <2>1, <2>3
  <2>5. m # 0
    BY <1>1, <1>2, <2>4 DEF Roots
  <2>6. m \in 1 .. N /\ m - 1 \in 0 .. N
    BY <1>1, <2>5
  <2>7. rw[f].parent \in l[m - 1]
    BY <1>2, <2>6 DEF Kids
  <2>8. m - 1 >= n
    BY <1>1, <1>4, <2>3, <2>6, <2>7
  <2> QED BY <2>8
<1> HIDE DEF S
<1>5. Nat \subseteq S
  BY <1>3, <1>4, Induct
<1>6. \A m, n \in 0 .. N : \A f : f \in l[m] /\ f \in l[n] => m >= n
  BY <1>1, <1>5 DEF S
<1>7. \A m, n \in 0 .. N : \A f : f \in l[m] /\ f \in l[n] => m = n
  BY <1>1, <1>6
<1> QED BY <1>7 DEF N, l
\* The folders of the first levels; a level is reached only with enough of them.
Upto(rw, n) == UNION {LevelsOf(rw)[m] : m \in 0 .. n}

LEMMA LevelsAreFilled ==
  ASSUME NEW rw \in [Id -> RowType]
  PROVE  \A n \in 0 .. Cardinality(Folder) :
           LevelsOf(rw)[n] # {} => n + 1 <= Cardinality(Upto(rw, n))
<1> DEFINE N == Cardinality(Folder)
           l == LevelsOf(rw)
           S == {n \in Nat : n <= N /\ l[n] # {} => n + 1 <= Cardinality(Upto(rw, n))}
<1>1. N \in Nat
  BY Numbers
<1>2. /\ \A n \in 1 .. N : l[n] = Kids(rw, l[n - 1])
      /\ \A n \in 0 .. N : l[n] \subseteq Folder
  BY LevelFacts
<1>3. \A m, n \in 0 .. N : \A f : f \in l[m] /\ f \in l[n] => m = n
  BY LevelsAreApart
<1>4. \A n : Upto(rw, n) = UNION {l[m] : m \in 0 .. n}
  BY DEF Upto
<1> HIDE DEF N, l
<1>5. ASSUME NEW n \in 0 .. N PROVE IsFiniteSet(Upto(rw, n)) /\ Cardinality(Upto(rw, n)) \in Nat
  <2>1. Upto(rw, n) \subseteq Folder
    BY <1>1, <1>2, <1>4
  <2>2. IsFiniteSet(Upto(rw, n))
    BY <2>1, Numbers, FS_Subset
  <2> QED BY <2>2, FS_CardinalityType
<1>6. 0 \in S
  <2> SUFFICES ASSUME l[0] # {} PROVE 1 <= Cardinality(Upto(rw, 0))
    BY <1>1
  <2>1. Upto(rw, 0) # {}
    BY <1>4
  <2>2. Cardinality(Upto(rw, 0)) # 0
    BY <1>1, <1>5, <2>1, FS_EmptySet
  <2> QED BY <1>1, <1>5, <2>2
<1>7. ASSUME NEW n \in Nat, n \in S PROVE n + 1 \in S
  <2> SUFFICES ASSUME n + 1 <= N, l[n + 1] # {} PROVE (n + 1) + 1 <= Cardinality(Upto(rw, n + 1))
    OBVIOUS
  <2>1. n + 1 \in 1 .. N /\ (n + 1) - 1 = n /\ n \in 0 .. N /\ n + 1 \in 0 .. N
    BY <1>1
  <2>2. PICK f : f \in l[n + 1]
    OBVIOUS
  <2>3. l[n] # {}
    BY <1>2, <2>1, <2>2 DEF Kids
  <2>4. n + 1 <= Cardinality(Upto(rw, n))
    BY <1>7, <2>1, <2>3
  <2>5. f \notin Upto(rw, n)
    <3> SUFFICES ASSUME NEW m \in 0 .. n, f \in l[m] PROVE FALSE
      BY <1>4
    <3>1. m \in 0 .. N /\ m # n + 1
      BY <1>1, <2>1
    <3> QED BY <1>3, <2>1, <2>2, <3>1
  <2>6. Upto(rw, n) \cup {f} \subseteq Upto(rw, n + 1)
    <3>1. \A m \in 0 .. n : m \in 0 .. n + 1
      OBVIOUS
    <3>2. n + 1 \in 0 .. n + 1
      OBVIOUS
    <3> QED BY <1>4, <2>2, <3>1, <3>2
  <2>7. Cardinality(Upto(rw, n) \cup {f}) = Cardinality(Upto(rw, n)) + 1
    BY <1>5, <2>1, <2>5, FS_AddElement
  <2>8. Cardinality(Upto(rw, n) \cup {f}) <= Cardinality(Upto(rw, n + 1))
    BY <1>5, <2>1, <2>6, FS_Subset, Zenon
  <2> QED BY <1>5, <2>1, <2>4, <2>7, <2>8
<1> HIDE DEF S
<1>8. Nat \subseteq S
  BY <1>6, <1>7, Induct
<1> QED BY <1>1, <1>8 DEF S, N, l

\* Every folder has a level.
Placed(rw) ==
  \A f \in Folder : There(rw, f) => \E n \in 0 .. Cardinality(Folder) : f \in LevelsOf(rw)[n]

\* When a folder without subfolders is written, all others keep their levels.
LEMMA LeafLevels ==
  ASSUME NEW rw \in [Id -> RowType], NEW i \in Folder, NEW r \in RowType,
         \A f \in Folder \ {i} : There(rw, f) => rw[f].parent # i
  PROVE  \A n \in 0 .. Cardinality(Folder) : \A f \in Folder \ {i} :
           f \in LevelsOf([rw EXCEPT ![i] = r])[n] <=> f \in LevelsOf(rw)[n]
<1> DEFINE sw == [rw EXCEPT ![i] = r]
           K == Folder \ {i}
<1>1. Folder \subseteq Id
  BY Numbers
<1>2. sw \in [Id -> RowType] /\ \A f \in K : sw[f] = rw[f]
  BY <1>1
<1> HIDE DEF sw
<1>3. \A f \in K : /\ There(sw, f) <=> There(rw, f)
                   /\ There(rw, f) => sw[f].parent = rw[f].parent /\ rw[f].parent \in K \cup {0}
  BY <1>1, <1>2 DEF There, RowType
<1>4. \A n \in 0 .. Cardinality(Folder) : \A f \in K : f \in LevelsOf(sw)[n] <=> f \in LevelsOf(rw)[n]
  BY <1>2, <1>3, LevelsKept
<1> QED BY <1>4 DEF sw

\* A step that leaves the folders, or their parents, leaves their levels.
LEMMA SameLevels ==
  ASSUME NEW rw \in [Id -> RowType], NEW sw \in [Id -> RowType],
         \A f \in Folder : /\ There(sw, f) <=> There(rw, f)
                           /\ There(rw, f) => sw[f].parent = rw[f].parent
  PROVE  \A n \in 0 .. Cardinality(Folder) : \A f \in Folder :
           f \in LevelsOf(sw)[n] <=> f \in LevelsOf(rw)[n]
<1>1. \A f \in Folder : rw[f].parent \in Folder \cup {0}
  BY Numbers DEF RowType
<1> QED BY <1>1, LevelsKept

Types == {Folder, Request, Global}

LEMMA PlacesFacts ==
  ASSUME NEW rw \in [Id -> RowType], NEW ids \in Types
  PROVE  /\ Places(rw, ids) \subseteq (0 .. Cardinality(Folder)) \X ids
         /\ Places(rw, ids) \subseteq Nat \X ids /\ IsFiniteSet(Places(rw, ids))
         /\ \A p \in Places(rw, ids) : There(rw, p[2])
         /\ Placed(rw) => \A i \in ids : There(rw, i) => \E p \in Places(rw, ids) : p[2] = i
<1> DEFINE N == Cardinality(Folder)
<1>1. N \in Nat /\ ids \subseteq Id /\ IsFiniteSet(Id)
  BY Numbers DEF Types
<1>2. \A p \in Places(rw, ids) : p \in (0 .. N) \X ids /\ There(rw, p[2])
  <2>1. CASE ids = Folder
    <3> SUFFICES ASSUME NEW n \in 0 .. N, NEW p \in {n} \X LevelsOf(rw)[n]
                 PROVE  p \in (0 .. N) \X ids /\ There(rw, p[2])
      BY <2>1, LevelFacts DEF Places
    <3>1. LevelsOf(rw)[n] \subseteq {f \in Folder : There(rw, f)}
      BY LevelFacts
    <3> QED BY <2>1, <3>1
  <2>2. CASE ids # Folder
    BY <1>1, <2>2 DEF Places
  <2> QED BY <2>1, <2>2
<1>3. IsFiniteSet((0 .. N) \X ids)
  <2>1. IsFiniteSet(0 .. N) /\ IsFiniteSet(ids)
    BY <1>1, FS_Interval, FS_Subset
  <2> QED BY <2>1, FS_Product
<1>4. Places(rw, ids) \subseteq (0 .. N) \X ids
  BY <1>2
<1>5. IsFiniteSet(Places(rw, ids))
  BY <1>3, <1>4, FS_Subset
<1>6. ASSUME Placed(rw), NEW i \in ids, There(rw, i)
      PROVE  \E p \in Places(rw, ids) : p[2] = i
  <2>1. CASE ids = Folder
    <3>1. PICK n \in 0 .. N : i \in LevelsOf(rw)[n]
      BY <1>6, <2>1 DEF Placed
    <3>2. n \in DOMAIN LevelsOf(rw)
      BY <3>1, LevelFacts
    <3>3. <<n, i>> \in {n} \X LevelsOf(rw)[n]
      BY <3>1
    <3>4. <<n, i>> \in Places(rw, ids)
      BY <2>1, <3>2, <3>3 DEF Places
    <3> QED BY <3>4
  <2>2. CASE ids # Folder
    <3>1. <<0, i>> \in Places(rw, ids)
      BY <1>6, <2>2 DEF Places
    <3> QED BY <3>1
  <2> QED BY <2>1, <2>2
<1>7. Places(rw, ids) \subseteq Nat \X ids
  BY <1>1, <1>4
<1> QED BY <1>2, <1>4, <1>5, <1>6, <1>7

\* What is in the same levels is in the same places.
LEMMA SamePlaces ==
  ASSUME NEW rw \in [Id -> RowType], NEW sw \in [Id -> RowType], NEW ids \in Types,
         NEW K, \A i \in ids \cap K : There(sw, i) <=> There(rw, i),
         \A n \in 0 .. Cardinality(Folder) : \A f \in Folder \cap K :
           f \in LevelsOf(sw)[n] <=> f \in LevelsOf(rw)[n]
  PROVE  \A p : p[2] \in K => (p \in Places(sw, ids) <=> p \in Places(rw, ids))
<1> DEFINE N == Cardinality(Folder)
<1>1. CASE ids = Folder
  <2>1. ASSUME NEW x \in [Id -> RowType], NEW p
        PROVE  p \in Places(x, ids) <=> \E n \in 0 .. N : p \in {n} \X LevelsOf(x)[n]
    <3>1. DOMAIN LevelsOf(x) = 0 .. N
      BY LevelFacts
    <3>2. Places(x, ids) = UNION {{n} \X LevelsOf(x)[n] : n \in DOMAIN LevelsOf(x)}
      BY <1>1 DEF Places
    <3> HIDE DEF N
    <3> QED BY <3>1, <3>2
  <2>2. \A n \in 0 .. N : LevelsOf(rw)[n] \subseteq Folder /\ LevelsOf(sw)[n] \subseteq Folder
    BY LevelFacts
  <2>3. ASSUME NEW p, p[2] \in K, NEW n \in 0 .. N
        PROVE  p \in {n} \X LevelsOf(sw)[n] <=> p \in {n} \X LevelsOf(rw)[n]
    <3>1. p[2] \in LevelsOf(sw)[n] <=> p[2] \in LevelsOf(rw)[n]
      BY <2>2, <2>3
    <3>2. \A A : p \in {n} \X A <=> p = <<n, p[2]>> /\ p[2] \in A
      OBVIOUS
    <3> QED BY <3>1, <3>2
  <2> QED BY <2>1, <2>3
<1>2. CASE ids # Folder
  <2>1. ASSUME NEW x
        PROVE  Places(x, ids) = {0} \X {i \in ids : There(x, i)}
    BY <1>2 DEF Places
  <2>2. ASSUME NEW p, p[2] \in K
        PROVE  p \in {0} \X {i \in ids : There(sw, i)} <=> p \in {0} \X {i \in ids : There(rw, i)}
    <3>1. \A A : p \in {0} \X A <=> p = <<0, p[2]>> /\ p[2] \in A
      OBVIOUS
    <3> QED BY <2>2, <3>1
  <2> QED BY <2>1, <2>2
<1> QED BY <1>1, <1>2
-----------------------------------------------------------------------------
(* What is in an item, and what a client makes of a page of the log. *)

Inside(S) == {j \in Id : Exists(j) /\ row[j].parent \in S}

Wider(S) == S \cup Inside(S)

IsSubtree(g, i, N) == g = [n \in 0 .. N |-> IF n = 0 THEN {i} ELSE Wider(g[n - 1])]

LEMMA SubtreesExist ==
  ASSUME NEW i \in Id, NEW N \in Nat
  PROVE  \E g : IsSubtree(g, i, N)
<1> DEFINE S == {k \in Nat : \E l \in [0 .. k -> SUBSET Id] : IsSubtree(l, i, k)}
<1>1. 0 \in S
  <2> DEFINE l == [n \in 0 .. 0 |-> {i}]
  <2>1. l \in [0 .. 0 -> SUBSET Id] /\ IsSubtree(l, i, 0)
    BY DEF IsSubtree
  <2> QED BY <2>1
<1>2. ASSUME NEW k \in Nat, k \in S PROVE k + 1 \in S
  <2>1. PICK l \in [0 .. k -> SUBSET Id] : IsSubtree(l, i, k)
    BY <1>2
  <2>2. \A m \in 0 .. k : l[m] = IF m = 0 THEN {i} ELSE Wider(l[m - 1])
    <3> HIDE DEF S
    <3> QED BY <2>1 DEF IsSubtree
  <2> DEFINE g == [n \in 0 .. k + 1 |-> IF n \in 0 .. k THEN l[n] ELSE Wider(l[k])]
  <2>3. g \in [0 .. k + 1 -> SUBSET Id]
    BY DEF Wider, Inside
  <2>4. ASSUME NEW n \in 0 .. k + 1
        PROVE  g[n] = IF n = 0 THEN {i} ELSE Wider(g[n - 1])
    <3>1. CASE n = 0
      BY <2>2, <3>1
    <3>2. CASE n \in 1 .. k
      <4>1. n - 1 \in 0 .. k /\ n \in 0 .. k
        BY <3>2
      <4>2. l[n] = Wider(l[n - 1])
        BY <2>2, <3>2, <4>1
      <4> QED BY <3>2, <4>1, <4>2
    <3>3. CASE n = k + 1
      BY <2>1, <3>3
    <3> QED BY <3>1, <3>2, <3>3
  <2>5. IsSubtree(g, i, k + 1)
    BY <2>3, <2>4 DEF IsSubtree
  <2> HIDE DEF g
  <2>6. \E h \in [0 .. k + 1 -> SUBSET Id] : IsSubtree(h, i, k + 1)
    BY <2>3, <2>5
  <2> QED BY <1>2, <2>6
<1> HIDE DEF S
<1>3. N \in S
  BY <1>1, <1>2, Induct
<1> QED BY <1>3 DEF S

LEMMA SubtreeIs ==
  ASSUME NEW i \in Id
  PROVE  LET N == Cardinality(Folder) + 1
         IN  \E g : /\ Subtree(i) = g[N] /\ g[0] = {i}
                    /\ \A n \in 1 .. N : g[n] = Wider(g[n - 1])
<1> DEFINE N == Cardinality(Folder) + 1
           P(g) == IsSubtree(g, i, N)
           g == CHOOSE k : P(k)
<1>1. N \in Nat /\ N >= 1
  BY Numbers
<1>2. \E k : P(k)
  BY <1>1, SubtreesExist
<1>3. Subtree(i) = g[N]
  BY DEF Subtree, IsSubtree, Wider, Inside
<1> HIDE DEF P, g, N
<1>4. P(g)
  BY <1>2 DEF g
<1>5. g = [n \in 0 .. N |-> IF n = 0 THEN {i} ELSE Wider(g[n - 1])]
  BY <1>4 DEF P, IsSubtree
<1>6. \A n \in 0 .. N : g[n] = IF n = 0 THEN {i} ELSE Wider(g[n - 1])
  BY <1>5
<1>7. g[0] = {i} /\ \A n \in 1 .. N : g[n] = Wider(g[n - 1])
  BY <1>1, <1>6
<1> QED BY <1>3, <1>7 DEF N

LEMMA SubtreeFacts ==
  ASSUME NEW i \in Id
  PROVE  /\ Subtree(i) \subseteq Id /\ i \in Subtree(i) /\ Inside({i}) \subseteq Subtree(i)
         /\ Inside({i}) \subseteq {i} => Subtree(i) = {i}
         /\ \A j \in Subtree(i) \ {i} : Exists(j)
<1> DEFINE N == Cardinality(Folder) + 1
<1>1. N \in Nat /\ N >= 1
  BY Numbers
<1>2. PICK g : /\ Subtree(i) = g[N] /\ g[0] = {i}
               /\ \A n \in 1 .. N : g[n] = Wider(g[n - 1])
  BY SubtreeIs
<1> HIDE DEF N
<1> DEFINE S == {n \in Nat : n + 1 <= N =>
                   /\ g[n + 1] \subseteq Id /\ i \in g[n + 1] /\ Inside({i}) \subseteq g[n + 1]
                   /\ Inside({i}) \subseteq {i} => g[n + 1] = {i}
                   /\ \A j \in g[n + 1] \ {i} : Exists(j)}
<1>3. 0 \in S
  <2>1. 1 \in 1 .. N /\ 1 - 1 = 0
    BY <1>1
  <2>2. g[1] = Wider({i})
    BY <1>2, <2>1
  <2> QED BY <2>2 DEF Inside, Wider
<1>4. ASSUME NEW n \in Nat, n \in S PROVE n + 1 \in S
  <2> SUFFICES ASSUME n + 2 <= N
               PROVE  /\ g[n + 2] \subseteq Id /\ i \in g[n + 2] /\ Inside({i}) \subseteq g[n + 2]
                      /\ Inside({i}) \subseteq {i} => g[n + 2] = {i}
                      /\ \A j \in g[n + 2] \ {i} : Exists(j)
    OBVIOUS
  <2>1. n + 2 \in 1 .. N /\ (n + 2) - 1 = n + 1 /\ n + 1 <= N
    BY <1>1
  <2>2. g[n + 2] = g[n + 1] \cup Inside(g[n + 1])
    BY <1>2, <2>1 DEF Wider
  <2>3. Inside(g[n + 1]) \subseteq Id /\ \A j \in Inside(g[n + 1]) : Exists(j)
    BY DEF Inside
  <2> QED BY <1>4, <2>1, <2>2, <2>3
<1> HIDE DEF S
<1>5. N - 1 \in S
  <2>1. Nat \subseteq S
    BY <1>3, <1>4, Induct
  <2> QED BY <1>1, <2>1
<1>6. (N - 1) + 1 = N /\ (N - 1) + 1 <= N
  BY <1>1
<1>7. /\ g[N] \subseteq Id /\ i \in g[N] /\ Inside({i}) \subseteq g[N]
      /\ Inside({i}) \subseteq {i} => g[N] = {i}
      /\ \A j \in g[N] \ {i} : Exists(j)
  BY <1>5, <1>6 DEF S
<1> QED BY <1>2, <1>7 DEF N

\* Nothing is inside a subtree and not in it: every further round but the last
\* has found another folder.
LEMMA SubtreeIsClosed ==
  ASSUME NEW i \in Id, \A j \in Id : row[j].parent \in Folder \cup {0}
  PROVE  Inside(Subtree(i)) \subseteq Subtree(i)
<1> DEFINE N == Cardinality(Folder) + 1
<1>1. N \in Nat /\ N >= 1 /\ IsFiniteSet(Folder) /\ Cardinality(Folder) \in Nat /\ 0 \notin Id
  BY Numbers
<1>2. PICK g : /\ Subtree(i) = g[N] /\ g[0] = {i}
               /\ \A n \in 1 .. N : g[n] = Wider(g[n - 1])
  BY SubtreeIs
<1> DEFINE F(n) == g[n] \cap Folder
           Closed(n) == Inside(g[n]) \subseteq g[n]
<1>3. ASSUME NEW n
      PROVE  IsFiniteSet(F(n)) /\ Cardinality(F(n)) \in Nat /\ Cardinality(F(n)) <= Cardinality(Folder)
  <2>1. IsFiniteSet(F(n)) /\ Cardinality(F(n)) <= Cardinality(Folder)
    <3>1. F(n) \subseteq Folder
      OBVIOUS
    <3> HIDE DEF F
    <3> QED BY <1>1, <3>1, FS_Subset, Zenon
  <2> QED BY <2>1, FS_CardinalityType
<1>4. ASSUME NEW n \in Nat, n + 1 <= N, g[n] \subseteq Id
      PROVE  /\ g[n + 1] \subseteq Id /\ F(n) \subseteq F(n + 1)
             /\ F(n) = F(n + 1) \/ Closed(n) => Closed(n + 1)
  <2>1. n + 1 \in 1 .. N /\ (n + 1) - 1 = n
    <3> HIDE DEF N
    <3> QED BY <1>1, <1>4
  <2>2. g[n + 1] = g[n] \cup Inside(g[n])
    BY <1>2, <2>1 DEF Wider
  <2>3. F(n) = F(n + 1) => Closed(n + 1)
    BY <1>1, <1>4, <2>2 DEF Inside
  <2>4. Closed(n) => Closed(n + 1)
    BY <2>2 DEF Inside
  <2>5. g[n + 1] \subseteq Id
    BY <1>4, <2>2 DEF Inside
  <2> QED BY <2>2, <2>3, <2>4, <2>5
<1> HIDE DEF F, Closed
<1> DEFINE S == {n \in Nat : n + 1 <= N =>
                   g[n + 1] \subseteq Id /\ (Closed(n + 1) \/ n + 1 <= Cardinality(F(n + 1)))}
<1>5. ASSUME NEW n \in Nat, n + 1 <= N, g[n] \subseteq Id,
             Closed(n) \/ n <= Cardinality(F(n))
      PROVE  Closed(n + 1) \/ n + 1 <= Cardinality(F(n + 1))
  <2>1. F(n) \subseteq F(n + 1) /\ (F(n) = F(n + 1) \/ Closed(n) => Closed(n + 1))
    BY <1>4, <1>5
  <2>2. F(n) # F(n + 1) => Cardinality(F(n)) < Cardinality(F(n + 1))
    <3>1. /\ Cardinality(F(n)) <= Cardinality(F(n + 1))
          /\ Cardinality(F(n + 1)) = Cardinality(F(n)) => F(n + 1) = F(n)
      BY <1>3, <2>1, FS_Subset, Zenon
    <3> QED BY <1>3, <3>1
  <2> QED BY <1>3, <1>5, <2>1, <2>2
<1>6. 0 \in S
  <2>1. g[0] \subseteq Id /\ 0 <= Cardinality(F(0))
    BY <1>2, <1>3
  <2> QED BY <1>4, <1>5, <2>1
<1>7. ASSUME NEW n \in Nat, n \in S PROVE n + 1 \in S
  <2> SUFFICES ASSUME (n + 1) + 1 <= N
               PROVE  /\ g[(n + 1) + 1] \subseteq Id
                      /\ Closed((n + 1) + 1) \/ (n + 1) + 1 <= Cardinality(F((n + 1) + 1))
    OBVIOUS
  <2>1. n + 1 \in Nat /\ n + 1 <= N
    <3> HIDE DEF N, S
    <3> QED BY <1>1
  <2>2. g[n + 1] \subseteq Id /\ (Closed(n + 1) \/ n + 1 <= Cardinality(F(n + 1)))
    BY <1>7, <2>1
  <2> HIDE DEF S, N
  <2> QED BY <1>4, <1>5, <2>1, <2>2
<1> HIDE DEF S
<1>8. N - 1 \in S
  <2>1. Nat \subseteq S
    BY <1>6, <1>7, Induct
  <2> QED BY <1>1, <2>1
<1>9. (N - 1) + 1 = N
  BY <1>1
<1>10. Closed(N) \/ N <= Cardinality(F(N))
  <2> HIDE DEF N
  <2> QED BY <1>1, <1>8, <1>9 DEF S
<1>11. ~(N <= Cardinality(F(N)))
  BY <1>1, <1>3
<1> QED BY <1>2, <1>10, <1>11 DEF Closed

IsApplied(g, from, last) ==
  g = [n \in from .. last |-> IF n = from THEN store ELSE Delivered(log[n], g[n - 1])]

LEMMA AppliedExists ==
  ASSUME NEW from \in Nat, NEW k \in Nat
  PROVE  \E g : IsApplied(g, from, from + k)
<1> DEFINE S == {n \in Nat : \E g : IsApplied(g, from, from + n)}
<1>1. 0 \in S
  <2> DEFINE g == [n \in from .. from + 0 |-> store]
  <2>1. IsApplied(g, from, from + 0)
    BY DEF IsApplied
  <2> HIDE DEF g
  <2> QED BY <2>1
<1>2. ASSUME NEW n \in Nat, n \in S PROVE n + 1 \in S
  <2>1. PICK l : IsApplied(l, from, from + n)
    BY <1>2
  <2>2. \A m \in from .. from + n : l[m] = IF m = from THEN store ELSE Delivered(log[m], l[m - 1])
    <3> HIDE DEF S
    <3> QED BY <2>1 DEF IsApplied
  <2> DEFINE last == from + (n + 1)
             g == [m \in from .. last |-> IF m = last THEN Delivered(log[m], l[m - 1]) ELSE l[m]]
  <2>3. ASSUME NEW m \in from .. last
        PROVE  g[m] = IF m = from THEN store ELSE Delivered(log[m], g[m - 1])
    <3>1. CASE m = from
      BY <2>2, <3>1
    <3>2. CASE m # from
      <4>1. m \in Nat /\ m - 1 \in from .. last /\ m - 1 # last /\ g[m - 1] = l[m - 1]
        BY <3>2
      <4>2. CASE m = last
        BY <3>2, <4>1, <4>2
      <4>3. CASE m # last
        <5>1. m \in from .. from + n /\ g[m] = l[m]
          BY <4>3
        <5>2. l[m] = Delivered(log[m], l[m - 1])
          BY <2>2, <3>2, <5>1
        <5> QED BY <3>2, <4>1, <5>1, <5>2
      <4> QED BY <4>2, <4>3
    <3> QED BY <3>1, <3>2
  <2>4. IsApplied(g, from, last)
    BY <2>3 DEF IsApplied
  <2> HIDE DEF g
  <2>5. \E h : IsApplied(h, from, from + (n + 1))
    BY <2>4
  <2> QED BY <2>5
<1> HIDE DEF S
<1>3. k \in S
  BY <1>1, <1>2, Induct
<1> QED BY <1>3 DEF S

\* The replica after each entry of a page.
LEMMA AppliedFacts ==
  ASSUME NEW from \in Nat, NEW k \in Nat
  PROVE  \E g : /\ g[from] = store /\ Applied(from, from + k) = g[from + k]
                /\ \A n \in from + 1 .. from + k : g[n] = Delivered(log[n], g[n - 1])
<1> DEFINE last == from + k
           P(g) == IsApplied(g, from, last)
           g == CHOOSE h : P(h)
<1>1. \E h : P(h)
  BY AppliedExists
<1>2. Applied(from, last) = g[last]
  BY DEF Applied, IsApplied
<1> HIDE DEF P, g
<1>3. P(g)
  BY <1>1 DEF g
<1>4. g = [n \in from .. last |-> IF n = from THEN store ELSE Delivered(log[n], g[n - 1])]
  BY <1>3 DEF P, IsApplied
<1>5. last \in Nat /\ from <= last
  OBVIOUS
<1>6. \A n \in from .. last : g[n] = IF n = from THEN store ELSE Delivered(log[n], g[n - 1])
  <2> HIDE DEF last
  <2> QED BY <1>4
<1>7. g[from] = store /\ \A n \in from + 1 .. last : g[n] = Delivered(log[n], g[n - 1])
  BY <1>5, <1>6
<1> QED BY <1>2, <1>7
-----------------------------------------------------------------------------
(***************************************************************************)
(* Types.  A page has each item once, since a type that is done is not     *)
(* read again for it.                                                      *)
(***************************************************************************)
\* The number of i's type in SNAPSHOT_ORDER.
TypeNo(i) == IF i \in Folder THEN 1 ELSE IF i \in Request THEN 2 ELSE 3

Told(e) == [version |-> e.version, parent |-> e.parent]

UpsertType == [id : Id, op : {"upsert"}, version : Nat \ {0}, parent : Folder \cup {0}]
CursorType == [c : Nat, t : 1 .. 4, a : Pair]
ItemType == [id : Id, state : RowType]
PageType == [pc : {"off", "fetch", "rows", "more"}, cur : CursorType,
             buf : SUBSET ItemType, found : SUBSET Pair]

LogTyped ==
  /\ \E X : log \in Seq(X)
  /\ \A n \in 1 .. Len(log) : log[n].op = "delete" \/ log[n] \in UpsertType

IsPage(p) == p = [pc |-> p.pc, cur |-> p.cur, buf |-> p.buf, found |-> p.found]

PageTyped(p) ==
  /\ p \in PageType /\ IsFiniteSet(p.buf) /\ IsFiniteSet(p.found)
  /\ \A d, e \in p.buf : d.id = e.id => d = e
  /\ p.pc \in {"fetch", "rows"} => \A e \in p.buf : TypeNo(e.id) < p.cur.t
  /\ p.pc = "rows" =>
       /\ p.cur.t <= 3 /\ SNAPSHOT_ORDER[p.cur.t] = Folder /\ p.found \subseteq Nat \X Folder
       /\ Cardinality(p.buf) < PageLimit

TInv ==
  /\ row \in [Id -> RowType] /\ store \in [Id -> RowType]
  /\ LogTyped
  /\ phase \in {"new", "paging", "pulling"} /\ pulled \in 0 .. Len(log)
  /\ cursor \in CursorType /\ cursor.c <= Len(log)
  /\ PageTyped(page) /\ page.cur.c <= Len(log)
  /\ phase = "pulling" => page.pc = "off"

LEMMA SnapshotTypes ==
  /\ Len(SNAPSHOT_ORDER) = 3
  /\ \A t \in 1 .. 3 : SNAPSHOT_ORDER[t] \in Types
  /\ \A i \in Id : /\ TypeNo(i) \in 1 .. 3
                   /\ \A t \in 1 .. 3 : i \in SNAPSHOT_ORDER[t] <=> TypeNo(i) = t
<1>1. /\ SNAPSHOT_ORDER[1] = Folder /\ SNAPSHOT_ORDER[2] = Request /\ SNAPSHOT_ORDER[3] = Global
      /\ Len(SNAPSHOT_ORDER) = 3
  BY DEF SNAPSHOT_ORDER
<1>2. \A t \in 1 .. 3 : t = 1 \/ t = 2 \/ t = 3
  OBVIOUS
<1> QED BY <1>1, <1>2, SnapshotAssumption DEF Types, TypeNo, Id

LEMMA RowsTyped ==
  /\ NoRow \in RowType /\ NoRow.version = 0 /\ NoRow.parent = 0
  /\ Start \in Pair /\ NoCursor \in CursorType /\ NoCursor.c = 0
  /\ PageTyped(NoPage) /\ NoPage.pc = "off" /\ NoPage.cur = NoCursor
<1>1. NoRow \in RowType /\ NoRow.version = 0 /\ NoRow.parent = 0
  BY DEF NoRow, RowType
<1>2. Start \in Pair
  BY DEF Start, Pair
<1>3. NoCursor \in CursorType /\ NoCursor.c = 0
  BY <1>2 DEF NoCursor, CursorType
<1>4. /\ NoPage \in PageType /\ NoPage.pc = "off" /\ NoPage.cur = NoCursor
      /\ NoPage.buf = {} /\ NoPage.found = {}
  BY <1>3 DEF NoPage, PageType
<1> QED BY <1>1, <1>2, <1>3, <1>4, FS_EmptySet DEF PageTyped

LEMMA LogAppends ==
  ASSUME NEW X, log \in Seq(X), NEW e, log' = Append(log, e)
  PROVE  /\ \E Y : log' \in Seq(Y)
         /\ Len(log) \in Nat /\ Len(log') = Len(log) + 1
         /\ \A n \in 1 .. Len(log) : log'[n] = log[n]
         /\ log'[Len(log) + 1] = e
<1> DEFINE Y == X \cup {e}
<1>1. Len(log) \in Nat /\ log \in [1 .. Len(log) -> X]
  OBVIOUS
<1>2. log \in [1 .. Len(log) -> Y]
  BY <1>1
<1>3. log \in Seq(Y) /\ e \in Y
  <2> HIDE DEF Y
  <2> QED BY <1>1, <1>2 DEF Y
<1> HIDE DEF Y
<1>4. log' \in Seq(Y)
  BY <1>3
<1> QED BY <1>3, <1>4

LEMMA LogExtends ==
  ASSUME NEW X, log \in Seq(X), NEW N \in Nat, NEW T, NEW Z, T \in [1 .. N -> Z], log' = log \o T
  PROVE  /\ \E Y : log' \in Seq(Y)
         /\ Len(log) \in Nat /\ Len(log') = Len(log) + N
         /\ \A n \in 1 .. Len(log') : log'[n] = IF n <= Len(log) THEN log[n] ELSE T[n - Len(log)]
<1> DEFINE Y == X \cup Z
<1>1. Len(log) \in Nat /\ log \in [1 .. Len(log) -> X]
  OBVIOUS
<1>2. log \in [1 .. Len(log) -> Y] /\ T \in [1 .. N -> Y]
  BY <1>1
<1> HIDE DEF Y
<1>3. log \in Seq(Y)
  <2> DEFINE n == Len(log)
  <2>1. n \in Nat /\ log \in [1 .. n -> Y]
    BY <1>1, <1>2
  <2> HIDE DEF n
  <2> QED BY <2>1
<1>5. T \in Seq(Y) /\ Len(T) = N
  BY <1>2
<1>4. log' \in Seq(Y)
  BY <1>3, <1>5
<1> QED BY <1>3, <1>4, <1>5

\* The rows put on a page.
Put(W) == {[id |-> p[2], state |-> row[p[2]]] : p \in W}

Onward(W) == [page.cur EXCEPT !.a = IF W = {} THEN @ ELSE LastOf(W)]

\* A page takes the first rows found, and goes on after them.
Takes(found, W) ==
  /\ W \subseteq found /\ Cardinality(W) <= Remaining
  /\ \A q \in W, p \in found \ W : Earlier(q, p)
  /\ IsPage(page') /\ page'.buf = page.buf \cup Put(W) /\ page'.found = {}
  /\ \/ page'.pc = "more" /\ page'.cur = Onward(W)
     \/ /\ page'.pc = "fetch" /\ page'.cur = NextType
        /\ W = found /\ Cardinality(found) <= Remaining

LEMMA PageParts ==
  ASSUME PageTyped(page)
  PROVE  /\ page.cur \in CursorType /\ page.cur.t \in 1 .. 4 /\ page.cur.a \in Pair /\ page.cur.c \in Nat
         /\ Cardinality(page.buf) \in Nat
         /\ IsPage(page)
         /\ page.buf \in SUBSET ItemType /\ page.found \in SUBSET Pair
         /\ page.pc \in {"off", "fetch", "rows", "more"}
BY FS_CardinalityType DEF PageTyped, PageType, CursorType, IsPage

LEMMA FillTakes ==
  ASSUME PageTyped(page), NEW found, found \subseteq Pair, IsFiniteSet(found),
         Remaining > 0, Fill(found)
  PROVE  \E W : Takes(found, W)
<1>1. Remaining \in Nat /\ Cardinality(found) \in Nat
  BY PageParts, Numbers, FS_CardinalityType DEF Remaining
<1> DEFINE want == First(Remaining, found)
<1>2. want \subseteq found /\ \A q \in want, p \in found \ want : Earlier(q, p)
  BY <1>1, FirstComeFirst DEF First
<1>3. want \subseteq Pair /\ IsFiniteSet(want)
  BY <1>2, FS_Subset
<1>4. Cardinality(want) \in Nat /\ Cardinality(want) <= Remaining
  BY <1>1, <1>3, FirstIsSmall, FS_CardinalityType
<1> HIDE DEF want
<1>5. CASE page' = [page EXCEPT !.buf = @ \cup Put(want), !.found = {},
                 !.pc  = IF Cardinality(found) > Remaining THEN "more" ELSE "fetch",
                 !.cur = IF Cardinality(found) > Remaining THEN Onward(want) ELSE NextType]
  <2>1. /\ IsPage(page') /\ page'.buf = page.buf \cup Put(want) /\ page'.found = {}
        /\ page'.pc  = IF Cardinality(found) > Remaining THEN "more" ELSE "fetch"
        /\ page'.cur = IF Cardinality(found) > Remaining THEN Onward(want) ELSE NextType
    BY <1>5, PageParts DEF IsPage
  <2>2. ~(Cardinality(found) > Remaining) => want = found /\ Cardinality(found) <= Remaining
    BY <1>1, FewAreFirst DEF want
  <2>3. Takes(found, want)
    BY <1>2, <1>4, <2>1, <2>2 DEF Takes
  <2> QED BY <2>3
<1>6. ASSUME NEW n \in 0 .. Cardinality(want) - 1,
             page' = [page EXCEPT !.buf = @ \cup Put(First(n, want)), !.found = {},
                        !.pc = "more", !.cur = Onward(First(n, want))]
      PROVE  \E W : Takes(found, W)
  <2> DEFINE W == First(n, want)
  <2>1. n \in Nat
    BY <1>4
  <2>2. W \subseteq want /\ \A q \in W, p \in want \ W : Earlier(q, p)
    BY <1>3, <2>1, FirstComeFirst DEF First
  <2>3. W \subseteq found /\ \A q \in W, p \in found \ W : Earlier(q, p)
    BY <1>2, <2>2
  <2>4. Cardinality(W) <= Remaining
    <3>1. Cardinality(W) <= Cardinality(want) /\ IsFiniteSet(W)
      BY <1>3, <2>2, FS_Subset, Zenon
    <3>2. Cardinality(W) \in Nat
      BY <3>1, FS_CardinalityType
    <3> QED BY <1>1, <1>4, <3>1, <3>2
  <2> HIDE DEF W
  <2>5. /\ IsPage(page') /\ page'.buf = page.buf \cup Put(W) /\ page'.found = {}
        /\ page'.pc  = "more" /\ page'.cur = Onward(W)
    BY <1>6, PageParts DEF W, IsPage
  <2>6. Takes(found, W)
    BY <2>3, <2>4, <2>5 DEF Takes
  <2> QED BY <2>6
<1> QED BY <1>5, <1>6 DEF Fill, Put, Onward, want

LEMMA OnwardTyped ==
  ASSUME PageTyped(page), NEW W, W \subseteq Pair, IsFiniteSet(W)
  PROVE  /\ Onward(W) \in CursorType /\ Onward(W).c = page.cur.c /\ Onward(W).t = page.cur.t
         /\ Onward(W).a = IF W = {} THEN page.cur.a ELSE LastOf(W)
<1>1. W # {} => LastOf(W) \in Pair
  BY LastIsLast
<1> QED BY <1>1, PageParts DEF Onward, CursorType

LEMMA NextTypeTyped ==
  ASSUME PageTyped(page), page.cur.t <= 3
  PROVE  /\ NextType \in CursorType /\ NextType.c = page.cur.c /\ NextType.t = page.cur.t + 1
         /\ NextType.a = Start
<1>1. page.cur \in CursorType /\ page.cur.t + 1 \in 1 .. 4 /\ Start \in Pair
  BY PageParts, RowsTyped
<1>2. ASSUME NEW x \in CursorType
      PROVE  /\ [x EXCEPT !.t = @ + 1, !.a = Start].c = x.c
             /\ [x EXCEPT !.t = @ + 1, !.a = Start].t = x.t + 1
             /\ [x EXCEPT !.t = @ + 1, !.a = Start].a = Start
             /\ x.t + 1 \in 1 .. 4 => [x EXCEPT !.t = @ + 1, !.a = Start] \in CursorType
  BY <1>1 DEF CursorType
<1>3. /\ NextType.c = page.cur.c /\ NextType.t = page.cur.t + 1 /\ NextType.a = Start
      /\ NextType \in CursorType
  BY <1>1, <1>2 DEF NextType
<1> QED BY <1>3

LEMMA PutIsSmall ==
  ASSUME NEW W, IsFiniteSet(W)
  PROVE  IsFiniteSet(Put(W)) /\ Cardinality(Put(W)) <= Cardinality(W)
<1> DEFINE f == [p \in W |-> [id |-> p[2], state |-> row[p[2]]]]
<1>1. f \in Surjection(W, Put(W))
  BY DEF Put, Surjection
<1> QED BY <1>1, FS_Surjection, Zenon

LEMMA TakesTyped ==
  ASSUME TInv, page.cur.t <= 3, page.pc \in {"fetch", "rows"},
         NEW found, found \subseteq Nat \X Type, IsFiniteSet(found), NEW W, Takes(found, W)
  PROVE  PageTyped(page') /\ page'.cur.c = page.cur.c
<1>1. PageTyped(page) /\ row \in [Id -> RowType]
  BY DEF TInv
<1>2. page.cur.t \in 1 .. 3
  BY <1>1, PageParts
<1>3. Type \in Types /\ Type \subseteq Id /\ Id \subseteq Nat
  BY <1>2, SnapshotTypes, Numbers DEF Type, Types
<1>4. W \subseteq found /\ W \subseteq Pair /\ IsFiniteSet(W)
  <2>1. W \subseteq found /\ W \subseteq Pair
    BY <1>3 DEF Takes, Pair
  <2> QED BY <2>1, FS_Subset
<1>5. \A p \in W : p[2] \in Type /\ TypeNo(p[2]) = page.cur.t
  <2>1. \A p \in W : p[2] \in Type
    BY <1>4
  <2> QED BY <1>2, <1>3, <2>1, SnapshotTypes DEF Type
<1>6. Put(W) \subseteq ItemType /\ \A e \in Put(W) : TypeNo(e.id) = page.cur.t /\ e.state = row[e.id]
  <2> SUFFICES ASSUME NEW p \in W
               PROVE  LET e == [id |-> p[2], state |-> row[p[2]]]
                      IN  e \in ItemType /\ TypeNo(e.id) = page.cur.t /\ e.state = row[e.id]
    BY DEF Put
  <2>1. p[2] \in Id /\ row[p[2]] \in RowType
    BY <1>1, <1>3, <1>5
  <2> QED BY <1>5, <2>1 DEF ItemType
<1>7. IsFiniteSet(Put(W))
  BY <1>4, PutIsSmall
<1>8. /\ page'.buf \subseteq ItemType /\ IsFiniteSet(page'.buf)
  <2>1. IsFiniteSet(page.buf) /\ page.buf \subseteq ItemType
    BY <1>1, PageParts DEF PageTyped
  <2>2. IsFiniteSet(page.buf \cup Put(W))
    BY <1>7, <2>1, FS_Union
  <2> QED BY <1>6, <2>1, <2>2 DEF Takes
<1>9. \A e \in page.buf : TypeNo(e.id) < page.cur.t /\ e.id \in Id
  BY <1>1, PageParts DEF PageTyped, ItemType
<1>10. \A d, e \in page'.buf : d.id = e.id => d = e
  <2> SUFFICES ASSUME NEW d \in page.buf \cup Put(W), NEW e \in page.buf \cup Put(W), d.id = e.id
               PROVE  d = e
    BY DEF Takes
  <2>1. CASE d \in page.buf /\ e \in page.buf
    BY <1>1, <2>1 DEF PageTyped
  <2>2. CASE d \in Put(W) /\ e \in Put(W)
    BY <2>2 DEF Put
  <2>3. CASE d \in page.buf /\ e \in Put(W)
    BY <1>2, <1>6, <1>9, <2>3, SnapshotTypes
  <2>4. CASE e \in page.buf /\ d \in Put(W)
    BY <1>2, <1>6, <1>9, <2>4, SnapshotTypes
  <2> QED BY <2>1, <2>2, <2>3, <2>4
<1>11. page'.pc = "fetch" => \A e \in page'.buf : TypeNo(e.id) < page'.cur.t
  <2> SUFFICES ASSUME page'.pc = "fetch", NEW e \in page'.buf PROVE TypeNo(e.id) < page'.cur.t
    OBVIOUS
  <2>1. page'.cur = NextType
    BY DEF Takes
  <2>2. page'.cur.t = page.cur.t + 1
    BY <1>1, <1>2, <2>1, NextTypeTyped
  <2>3. e.id \in Id /\ (e \in page.buf \/ e \in Put(W))
    BY <1>8 DEF Takes, ItemType
  <2>4. TypeNo(e.id) \in Nat
    BY <2>3, SnapshotTypes
  <2> QED BY <1>2, <1>6, <1>9, <2>2, <2>3, <2>4
<1>12. page'.cur \in CursorType /\ page'.cur.c = page.cur.c /\ page'.pc \in {"more", "fetch"}
       /\ page'.found = {} /\ page'.buf \in SUBSET ItemType
       /\ IsPage(page')
  <2>1. Onward(W) \in CursorType /\ Onward(W).c = page.cur.c
    BY <1>1, <1>4, OnwardTyped
  <2>2. NextType \in CursorType /\ NextType.c = page.cur.c
    BY <1>1, <1>2, NextTypeTyped
  <2> QED BY <1>8, <2>1, <2>2 DEF Takes
<1>13. IsFiniteSet(page'.found)
  BY <1>12, FS_EmptySet
<1>14. page' \in PageType
  BY <1>12 DEF PageType, IsPage
<1> QED BY <1>8, <1>10, <1>11, <1>12, <1>13, <1>14 DEF PageTyped
LEMMA InitTyped == Init => TInv
<1> SUFFICES ASSUME Init PROVE TInv
  OBVIOUS
<1>1. log = <<>> /\ Len(log) = 0 /\ log \in Seq({})
  BY DEF Init
<1>2. row \in [Id -> RowType] /\ store \in [Id -> RowType]
  BY RowsTyped DEF Init
<1>3. LogTyped
  BY <1>1 DEF LogTyped
<1>4. cursor = NoCursor /\ page = NoPage /\ phase = "new" /\ pulled = 0
  BY DEF Init
<1> QED BY <1>1, <1>2, <1>3, <1>4, RowsTyped DEF TInv

\* A step of writers makes the log longer, by entries that are as they should be.
LEMMA WriterTyped ==
  ASSUME TInv, UNCHANGED <<page, clientVars>>, row' \in [Id -> RowType], \E Y : log' \in Seq(Y),
         Len(log) \in Nat, Len(log') \in Nat, Len(log') >= Len(log),
         \A n \in 1 .. Len(log) : log'[n] = log[n],
         \A n \in Len(log) + 1 .. Len(log') : log'[n].op = "delete" \/ log'[n] \in UpsertType
  PROVE  TInv'
<1>1. \A n \in 1 .. Len(log') : log'[n].op = "delete" \/ log'[n] \in UpsertType
  <2> TAKE n \in 1 .. Len(log')
  <2>1. CASE n <= Len(log)
    BY <2>1 DEF TInv, LogTyped
  <2>2. CASE n > Len(log)
    BY <2>2
  <2> QED BY <2>1, <2>2
<1>2. LogTyped'
  BY <1>1 DEF LogTyped
<1>3. page' = page /\ phase' = phase /\ cursor' = cursor /\ store' = store /\ pulled' = pulled
  BY DEF clientVars
<1>4. page.cur.c \in Nat /\ cursor.c \in Nat /\ pulled \in Nat
  BY PageParts DEF TInv, CursorType
<1>5. PageTyped(page)'
  BY <1>3 DEF TInv, PageTyped
<1> QED BY <1>2, <1>3, <1>4, <1>5 DEF TInv

LEMMA UpsertTyped ==
  ASSUME TInv, NEW i \in Id, NEW p \in Parents(i), Upsert(i, p)
  PROVE  /\ TInv'
         /\ LET r == [version |-> row[i].version + 1, parent |-> p] IN
            /\ r \in RowType /\ r.version > 0
            /\ p # 0 => p # i /\ Exists(p)
            /\ row' = [row EXCEPT ![i] = r]
            /\ Len(log) \in Nat /\ Len(log') = Len(log) + 1
            /\ \A n \in 1 .. Len(log) : log'[n] = log[n]
            /\ log'[Len(log) + 1] = Entry(i, "upsert", r)
<1> DEFINE r == [version |-> row[i].version + 1, parent |-> p]
<1>1. row[i] \in RowType /\ p \in Folder \cup {0}
  BY DEF TInv, Parents
<1>2. r \in RowType /\ r.version > 0 /\ r.version = row[i].version + 1 /\ r.parent = p
  BY <1>1 DEF RowType
<1>3. row' = [row EXCEPT ![i] = r] /\ log' = Append(log, Entry(i, "upsert", r))
      /\ UNCHANGED <<page, clientVars>>
  BY DEF Upsert
<1>4. p # 0 => p # i /\ Exists(p)
  BY SubtreeFacts DEF Upsert
<1> HIDE DEF r
<1>5. Entry(i, "upsert", r) \in UpsertType
  BY <1>2 DEF Entry, UpsertType, RowType
<1>6. PICK X : log \in Seq(X)
  BY DEF TInv, LogTyped
<1>7. /\ \E Y : log' \in Seq(Y)
      /\ Len(log) \in Nat /\ Len(log') = Len(log) + 1
      /\ \A n \in 1 .. Len(log) : log'[n] = log[n]
      /\ log'[Len(log) + 1] = Entry(i, "upsert", r)
  BY <1>3, <1>6, LogAppends
<1>8. row' \in [Id -> RowType]
  BY <1>2, <1>3 DEF TInv
<1>9. \A n \in Len(log) + 1 .. Len(log') : log'[n] \in UpsertType
  <2>1. \A n \in Len(log) + 1 .. Len(log') : n = Len(log) + 1
    BY <1>7
  <2> QED BY <1>5, <1>7, <2>1
<1>10. TInv'
  BY <1>3, <1>7, <1>8, <1>9, WriterTyped
<1> QED BY <1>2, <1>3, <1>4, <1>7, <1>10 DEF r

LEMMA DeleteTyped ==
  ASSUME TInv, NEW i \in Id, Delete(i)
  PROVE  TInv'
<1> DEFINE S == Subtree(i)
           T == Tombstones(S)
           N == Cardinality(S)
<1>1. S \subseteq Id /\ IsFiniteSet(S) /\ N \in Nat
  <2>1. S \subseteq Id
    BY SubtreeFacts
  <2>2. IsFiniteSet(S)
    BY <2>1, Numbers, FS_Subset
  <2> QED BY <2>1, <2>2, FS_CardinalityType
<1>2. row' = [j \in Id |-> IF j \in S THEN NoRow ELSE row[j]] /\ log' = log \o T
      /\ UNCHANGED <<page, clientVars>>
  BY DEF Delete
<1>3. PICK s : T = [k \in 1 .. N |-> Entry(s[k], "delete", row[s[k]])]
  <2> DEFINE s == [k \in 1 .. N |->
                     CHOOSE x \in S : Cardinality({y \in S : TombstoneBefore(y, x)}) = k - 1]
  <2>1. T = [k \in 1 .. N |-> Entry(s[k], "delete", row[s[k]])]
    BY DEF Tombstones
  <2> QED BY <2>1
<1> HIDE DEF S, T, N
<1>4. \A k \in 1 .. N : T[k].op = "delete"
  BY <1>3 DEF Entry
<1> DEFINE Z == {T[k] : k \in 1 .. N}
<1>5. T \in [1 .. N -> Z]
  BY <1>3
<1> HIDE DEF Z
<1>6. PICK X : log \in Seq(X)
  BY DEF TInv, LogTyped
<1>7. /\ \E Y : log' \in Seq(Y)
      /\ Len(log) \in Nat /\ Len(log') = Len(log) + N
      /\ \A n \in 1 .. Len(log') : log'[n] = IF n <= Len(log) THEN log[n] ELSE T[n - Len(log)]
  BY <1>1, <1>2, <1>5, <1>6, LogExtends
<1>8. \A n \in 1 .. Len(log) : log'[n] = log[n]
  BY <1>1, <1>7
<1>9. ASSUME NEW n \in Len(log) + 1 .. Len(log') PROVE log'[n].op = "delete"
  <2>1. n \in 1 .. Len(log') /\ ~(n <= Len(log)) /\ n - Len(log) \in 1 .. N
    BY <1>1, <1>7
  <2> QED BY <1>4, <1>7, <2>1
<1>10. row' \in [Id -> RowType]
  BY <1>2, RowsTyped DEF TInv
<1>11. Len(log') \in Nat /\ Len(log') >= Len(log)
  BY <1>1, <1>7
<1> QED BY <1>2, <1>7, <1>8, <1>9, <1>10, <1>11, WriterTyped

\* A step of the server changes the page, and not which checkpoint it is for.
LEMMA PageMoves ==
  ASSUME TInv, UNCHANGED <<serverVars, clientVars>>, page.pc # "off" \/ page'.pc = "off",
         PageTyped(page'), page'.cur.c <= Len(log)
  PROVE  TInv'
<1>1. /\ row' = row /\ log' = log
      /\ phase' = phase /\ cursor' = cursor /\ store' = store /\ pulled' = pulled
  BY DEF serverVars, clientVars
<1>2. LogTyped'
  BY <1>1 DEF TInv, LogTyped
<1>3. PageTyped(page)'
  OBVIOUS
<1> QED BY <1>1, <1>2, <1>3 DEF TInv

\* What is after the cursor in a type.
LEMMA AfterFacts ==
  ASSUME TInv, page.cur.t <= 3
  PROVE  LET S == After(page.cur.a, Type)
             F == First(Remaining + 1, S)
         IN /\ Type \in Types /\ Type \subseteq Id
            /\ Positions(Type) \subseteq Nat \X Type /\ IsFiniteSet(Positions(Type))
            /\ Nat \X Type \subseteq Pair
            /\ S \subseteq Positions(Type) /\ IsFiniteSet(S) /\ S \subseteq Pair
            /\ F \subseteq S /\ IsFiniteSet(F)
<1>1. Type \in Types /\ Type \subseteq Id /\ Type \subseteq Nat
  <2>1. page.cur.t \in 1 .. 3
    BY PageParts DEF TInv
  <2> QED BY <2>1, SnapshotTypes, Numbers DEF Type, Types
<1>2. Positions(Type) \subseteq Nat \X Type /\ IsFiniteSet(Positions(Type))
  BY <1>1, PlacesFacts, PositionsAre DEF TInv
<1>3. After(page.cur.a, Type) \subseteq Positions(Type) /\ IsFiniteSet(After(page.cur.a, Type))
  BY <1>2, FS_Subset DEF After
<1>4. First(Remaining + 1, After(page.cur.a, Type)) \subseteq After(page.cur.a, Type)
  BY DEF First
<1>5. IsFiniteSet(First(Remaining + 1, After(page.cur.a, Type)))
  BY <1>3, <1>4, FS_Subset
<1>6. Nat \X Type \subseteq Pair
  BY <1>1 DEF Pair
<1> QED BY <1>1, <1>2, <1>3, <1>4, <1>5, <1>6

LEMMA SkipTyped ==
  ASSUME TInv, page.pc = "fetch", page.cur.t <= 3
  PROVE  LET p == [page EXCEPT !.cur = NextType]
         IN  /\ PageTyped(p) /\ p.cur = NextType /\ p.pc = page.pc /\ p.buf = page.buf
             /\ NextType.c = page.cur.c /\ NextType.t = page.cur.t + 1 /\ NextType.a = Start
<1> DEFINE p == [page EXCEPT !.cur = NextType]
<1>1. PageTyped(page)
  BY DEF TInv
<1>2. /\ NextType \in CursorType /\ NextType.c = page.cur.c /\ NextType.t = page.cur.t + 1
      /\ NextType.a = Start
  BY <1>1, NextTypeTyped
<1>3. page \in PageType /\ page.cur.t \in Nat
  BY <1>1, PageParts DEF PageTyped
<1>4. /\ p \in PageType /\ p.cur = NextType /\ p.pc = "fetch" /\ p.buf = page.buf
      /\ p.found = page.found
  BY <1>2, <1>3 DEF PageType
<1> HIDE DEF p
<1>5. \A e \in p.buf : TypeNo(e.id) < page.cur.t /\ TypeNo(e.id) \in Nat
  BY <1>1, <1>4, PageParts, SnapshotTypes DEF PageTyped, ItemType
<1>6. \A e \in p.buf : TypeNo(e.id) < p.cur.t
  BY <1>2, <1>3, <1>4, <1>5
<1>7. PageTyped(p)
  BY <1>1, <1>4, <1>6 DEF PageTyped
<1> QED BY <1>2, <1>4, <1>7 DEF p

LEMMA MoreTyped ==
  ASSUME TInv, page.pc = "fetch"
  PROVE  LET p == [page EXCEPT !.pc = "more"]
         IN  PageTyped(p) /\ p.cur = page.cur /\ p.pc = "more" /\ p.buf = page.buf
<1> DEFINE p == [page EXCEPT !.pc = "more"]
<1>1. page \in PageType
  BY DEF TInv, PageTyped
<1>2. p \in PageType /\ p.cur = page.cur /\ p.pc = "more" /\ p.buf = page.buf /\ p.found = page.found
  BY <1>1 DEF PageType
<1> HIDE DEF p
<1>3. PageTyped(p)
  BY <1>2 DEF PageTyped, TInv
<1> QED BY <1>2, <1>3 DEF p

LEMMA OrderTyped ==
  ASSUME TInv, FetchFolderOrder
  PROVE  /\ PageTyped(page') /\ page'.cur = page.cur /\ page'.pc = "rows" /\ page'.buf = page.buf
         /\ page'.found = First(Remaining + 1, After(page.cur.a, Folder))
<1> DEFINE F == First(Remaining + 1, After(page.cur.a, Folder))
<1>1. page \in PageType /\ Type = Folder /\ page.cur.t <= 3 /\ Remaining > 0 /\ page.pc = "fetch"
  BY SnapshotTypes DEF TInv, PageTyped, FetchFolderOrder
<1>2. F \subseteq Nat \X Folder /\ F \subseteq Pair /\ IsFiniteSet(F)
  BY <1>1, AfterFacts, Zenon
<1>3. Cardinality(page.buf) < PageLimit
  BY <1>1, PageParts, Numbers DEF Remaining, TInv
<1>4. page' = [page EXCEPT !.pc = "rows", !.found = F]
  BY DEF FetchFolderOrder
<1> HIDE DEF F
<1>5. page' \in PageType /\ page'.cur = page.cur /\ page'.pc = "rows" /\ page'.buf = page.buf
      /\ page'.found = F
  BY <1>1, <1>2, <1>4 DEF PageType
<1>6. PageTyped(page')
  BY <1>1, <1>2, <1>3, <1>5 DEF PageTyped, TInv, Type
<1> QED BY <1>5, <1>6 DEF F

\* The rows of a page, in any type.
Fetched == IF page.pc = "rows" THEN {p \in page.found : Exists(p[2])}
           ELSE First(Remaining + 1, After(page.cur.a, Type))

Fetches == FetchRows \/ FetchFolderRows

LEMMA FetchTakes ==
  ASSUME TInv, Fetches
  PROVE  /\ page.pc \in {"fetch", "rows"} /\ page.cur.t <= 3 /\ Remaining > 0
         /\ Fetched \subseteq Nat \X Type /\ Fetched \subseteq Pair /\ IsFiniteSet(Fetched)
         /\ UNCHANGED <<serverVars, clientVars>>
         /\ \E W : Takes(Fetched, W)
<1>1. PageTyped(page)
  BY DEF TInv
<1>2. CASE FetchRows
  <2>1. page.pc = "fetch" /\ page.cur.t <= 3 /\ Remaining > 0 /\ Fill(Fetched)
    BY <1>2, SnapshotTypes DEF FetchRows, Fetched
  <2>2. Fetched \subseteq Nat \X Type /\ Fetched \subseteq Pair /\ IsFiniteSet(Fetched)
    BY <2>1, AfterFacts, Zenon DEF Fetched
  <2> QED BY <1>1, <1>2, <2>1, <2>2, FillTakes DEF FetchRows
<1>3. CASE FetchFolderRows
  <2>1. page.pc = "rows" /\ Fill(Fetched)
    BY <1>3 DEF FetchFolderRows, Fetched
  <2>2. page.cur.t <= 3 /\ Type = Folder /\ page.found \subseteq Nat \X Folder
    BY <1>1, <2>1 DEF PageTyped, Type
  <2>3. Remaining > 0
    BY <1>1, <2>1, PageParts, Numbers DEF PageTyped, Remaining
  <2>4. Fetched \subseteq Nat \X Type /\ Fetched \subseteq Pair /\ IsFiniteSet(Fetched)
    <3>1. Fetched \subseteq page.found
      BY <2>1 DEF Fetched
    <3>2. page.found \subseteq Pair /\ IsFiniteSet(page.found)
      BY <1>1, PageParts DEF PageTyped
    <3> QED BY <2>2, <3>1, <3>2, FS_Subset
  <2> QED BY <1>1, <1>3, <2>1, <2>2, <2>3, <2>4, FillTakes DEF FetchFolderRows
<1> QED BY <1>2, <1>3 DEF Fetches

LEMMA ServerTyped ==
  ASSUME TInv, ServerStep
  PROVE  TInv'
<1>1. PageTyped(page) /\ page.cur.c <= Len(log)
  BY DEF TInv
<1>2. CASE SkipType \/ Peek
  <2>1. /\ page.pc = "fetch" /\ page.cur.t <= 3 /\ UNCHANGED <<serverVars, clientVars>>
        /\ page' = [page EXCEPT !.cur = NextType] \/ page' = [page EXCEPT !.pc = "more"]
    BY <1>2, SnapshotTypes DEF SkipType, Peek
  <2>2. PageTyped(page') /\ page'.cur.c = page.cur.c
    BY <2>1, SkipTyped, MoreTyped
  <2> QED BY <1>1, <2>1, <2>2, PageMoves
<1>3. CASE FetchFolderOrder
  BY <1>1, <1>3, OrderTyped, PageMoves DEF FetchFolderOrder
<1>4. CASE Fetches
  <2>1. PICK W : Takes(Fetched, W)
    BY <1>4, FetchTakes
  <2>2. PageTyped(page') /\ page'.cur.c = page.cur.c
    BY <1>4, <2>1, FetchTakes, TakesTyped
  <2> QED BY <1>1, <1>4, <2>2, FetchTakes, PageMoves
<1> QED BY <1>2, <1>3, <1>4 DEF ServerStep, Fetches
-----------------------------------------------------------------------------
(* The client *)

\* What a page changes: newer states, one for each item.
LEMMA NewerFacts ==
  ASSUME TInv
  PROVE  /\ Newer(page.buf) \in [Id -> RowType]
         /\ \A i \in Id :
              \/ /\ Newer(page.buf)[i] = store[i]
                 /\ \A e \in page.buf : e.id = i => ~(e.state.version > store[i].version)
              \/ \E e \in page.buf : /\ e.id = i /\ e.state.version > store[i].version
                                     /\ Newer(page.buf)[i] = e.state
<1> DEFINE B == page.buf
           New(i) == IF \E e \in B : e.id = i /\ e.state.version > store[i].version
                     THEN (CHOOSE e \in B : e.id = i).state ELSE store[i]
<1>1. B \subseteq ItemType /\ (\A d, e \in B : d.id = e.id => d = e) /\ store \in [Id -> RowType]
  BY PageParts DEF TInv, PageTyped
<1>2. Newer(B) = [i \in Id |-> New(i)]
  BY DEF Newer
<1> HIDE DEF B
<1>3. ASSUME NEW i \in Id
      PROVE  \/ /\ New(i) = store[i]
                /\ \A e \in B : e.id = i => ~(e.state.version > store[i].version)
             \/ \E e \in B : /\ e.id = i /\ e.state.version > store[i].version
                             /\ New(i) = e.state
  <2>1. CASE \E e \in B : e.id = i /\ e.state.version > store[i].version
    <3>1. PICK e \in B : e.id = i /\ e.state.version > store[i].version
      BY <2>1
    <3>2. (CHOOSE d \in B : d.id = i) \in B /\ (CHOOSE d \in B : d.id = i).id = i
      BY <3>1
    <3>3. (CHOOSE d \in B : d.id = i) = e
      BY <1>1, <3>1, <3>2
    <3>4. New(i) = e.state
      BY <2>1, <3>3
    <3> QED BY <3>1, <3>4
  <2>2. CASE ~ \E e \in B : e.id = i /\ e.state.version > store[i].version
    BY <2>2
  <2> QED BY <2>1, <2>2
<1> HIDE DEF New
<1>4. \A i \in Id : New(i) \in RowType
  BY <1>1, <1>3 DEF ItemType
<1> QED BY <1>2, <1>3, <1>4 DEF B

LEMMA ApplyTyped ==
  ASSUME NEW s \in [Id -> RowType], NEW e, e.op = "delete" \/ e \in UpsertType
  PROVE  /\ Apply(e, s) \in [Id -> RowType]
         /\ \A i \in Id : \/ Apply(e, s)[i].version >= s[i].version
                          \/ e.id = i /\ e.op = "delete"
<1>0. \A i \in Id : s[i].version \in Nat
  BY DEF RowType
<1>1. CASE e.op = "delete"
  <2>1. Apply(e, s) = [s EXCEPT ![e.id] = NoRow]
    BY <1>1 DEF Apply
  <2>2. Apply(e, s) \in [Id -> RowType] /\ \A i \in Id : i # e.id => Apply(e, s)[i] = s[i]
    BY <2>1, RowsTyped
  <2> QED BY <1>0, <1>1, <2>2
<1>2. CASE e.op # "delete"
  <2>1. e \in UpsertType /\ e.id \in Id
    BY <1>2 DEF UpsertType
  <2>2. Apply(e, s) = IF e.version > s[e.id].version THEN [s EXCEPT ![e.id] = Told(e)] ELSE s
    BY <1>2 DEF Apply, Told
  <2>3. Told(e) \in RowType /\ Told(e).version = e.version
    BY <2>1 DEF Told, UpsertType, RowType
  <2>4. CASE e.version > s[e.id].version
    <3>1. Apply(e, s) = [s EXCEPT ![e.id] = Told(e)]
      BY <2>2, <2>4
    <3>2. /\ Apply(e, s) \in [Id -> RowType]
          /\ \A i \in Id : Apply(e, s)[i] = IF i = e.id THEN Told(e) ELSE s[i]
      BY <2>3, <3>1
    <3>3. e.version \in Nat
      BY <2>1 DEF UpsertType
    <3> QED BY <1>0, <2>1, <2>3, <2>4, <3>2, <3>3
  <2>5. CASE ~(e.version > s[e.id].version)
    BY <1>0, <2>2, <2>5
  <2> QED BY <2>4, <2>5
<1> QED BY <1>1, <1>2

LEMMA DeliveredTyped ==
  ASSUME NEW s \in [Id -> RowType], NEW e, e.op = "delete" \/ e \in UpsertType
  PROVE  /\ Delivered(e, s) \in [Id -> RowType]
         /\ \A i \in Id : \/ Delivered(e, s)[i].version >= s[i].version
                          \/ e.id = i /\ e.op = "delete"
<1>1. Delivered(e, s) = Apply(e, s) \/ Delivered(e, s) = s
  BY DEF Delivered
<1>2. \A i \in Id : s[i].version \in Nat
  BY DEF RowType
<1> QED BY <1>1, <1>2, ApplyTyped

LEMMA PullTyped ==
  ASSUME TInv, NEW k \in Nat, pulled + k <= Len(log)
  PROVE  /\ Applied(pulled, pulled + k) \in [Id -> RowType]
         /\ \A i \in Id :
              \/ Applied(pulled, pulled + k)[i].version >= store[i].version
              \/ \E n \in pulled + 1 .. pulled + k : log[n].id = i /\ log[n].op = "delete"
<1>1. pulled \in Nat /\ Len(log) \in Nat /\ store \in [Id -> RowType]
  BY DEF TInv, LogTyped
<1>2. PICK g : /\ g[pulled] = store /\ Applied(pulled, pulled + k) = g[pulled + k]
               /\ \A n \in pulled + 1 .. pulled + k : g[n] = Delivered(log[n], g[n - 1])
  BY <1>1, AppliedFacts
<1> DEFINE Dropped(i, n) == \E m \in pulled + 1 .. pulled + n : log[m].id = i /\ log[m].op = "delete"
           S == {n \in Nat : n <= k =>
                   /\ g[pulled + n] \in [Id -> RowType]
                   /\ \A i \in Id : g[pulled + n][i].version >= store[i].version \/ Dropped(i, n)}
<1>3. 0 \in S
  <2>1. \A i \in Id : store[i].version \in Nat
    BY <1>1 DEF RowType
  <2>2. pulled + 0 = pulled
    BY <1>1
  <2> QED BY <1>1, <1>2, <2>1, <2>2
<1>4. ASSUME NEW n \in Nat, n \in S PROVE n + 1 \in S
  <2> SUFFICES ASSUME n + 1 <= k
               PROVE  /\ g[pulled + (n + 1)] \in [Id -> RowType]
                      /\ \A i \in Id : g[pulled + (n + 1)][i].version >= store[i].version
                                       \/ Dropped(i, n + 1)
    OBVIOUS
  <2> DEFINE m == pulled + (n + 1)
  <2>1. m \in pulled + 1 .. pulled + k /\ m - 1 = pulled + n /\ m \in 1 .. Len(log) /\ n <= k
    BY <1>1
  <2>2. /\ g[pulled + n] \in [Id -> RowType]
        /\ \A i \in Id : g[pulled + n][i].version >= store[i].version \/ Dropped(i, n)
    BY <1>4, <2>1
  <2>3. g[m] = Delivered(log[m], g[pulled + n])
    BY <1>2, <2>1
  <2>4. log[m].op = "delete" \/ log[m] \in UpsertType
    BY <2>1 DEF TInv, LogTyped
  <2>5. /\ g[m] \in [Id -> RowType]
        /\ \A i \in Id : \/ g[m][i].version >= g[pulled + n][i].version
                         \/ log[m].id = i /\ log[m].op = "delete"
    BY <2>2, <2>3, <2>4, DeliveredTyped
  <2>6. \A i \in Id : Dropped(i, n) => Dropped(i, n + 1)
    BY <1>1
  <2>7. m \in pulled + 1 .. pulled + (n + 1)
    BY <1>1
  <2>8. \A i \in Id : log[m].id = i /\ log[m].op = "delete" => Dropped(i, n + 1)
    BY <2>7
  <2> HIDE DEF m, Dropped
  <2>9. \A i \in Id : /\ g[m][i].version \in Nat /\ g[pulled + n][i].version \in Nat
                      /\ store[i].version \in Nat
    BY <1>1, <2>2, <2>5 DEF RowType
  <2>10. \A i \in Id : g[m][i].version >= store[i].version \/ Dropped(i, n + 1)
    BY <2>2, <2>5, <2>6, <2>8, <2>9
  <2> QED BY <2>5, <2>10 DEF m
<1> HIDE DEF S
<1>5. k \in S
  BY <1>3, <1>4, Induct
<1> QED BY <1>2, <1>5 DEF S

LEMMA ReceiveFacts ==
  ASSUME TInv, ReceivePage
  PROVE  /\ store' = Newer(page.buf) /\ page' = NoPage /\ row' = row /\ log' = log
         /\ page.pc \in {"fetch", "more"}
         /\ \/ /\ page.cur.t = 4 /\ page.pc = "fetch"
               /\ phase' = "pulling" /\ pulled' = page.cur.c /\ cursor' = NoCursor
            \/ phase' = "paging" /\ pulled' = pulled /\ cursor' = page.cur /\ page.pc = "more"
<1>1. page.cur.t \in 1 .. 4
  BY PageParts DEF TInv
<1> QED BY <1>1, SnapshotTypes DEF ReceivePage, LastPage, serverVars

LEMMA ClientTyped ==
  ASSUME TInv, ClientStep
  PROVE  TInv'
<1>1. /\ PageTyped(page) /\ page.cur.c <= Len(log) /\ page.cur \in CursorType /\ page.cur.c \in Nat
      /\ Len(log) \in Nat
  BY PageParts DEF TInv, LogTyped
<1>2. CASE FirstPage
  <2>1. page' = [NoPage EXCEPT !.pc = "fetch", !.cur.c = Len(log)]
    BY <1>2 DEF FirstPage
  <2>2. NoPage \in PageType /\ NoPage.buf = {} /\ NoPage.found = {}
    BY RowsTyped DEF PageTyped, NoPage
  <2>3. /\ page' \in PageType /\ page'.buf = {} /\ page'.found = {} /\ page'.pc = "fetch"
        /\ page'.cur.c = Len(log)
    BY <1>1, <2>1, <2>2 DEF PageType, CursorType
  <2>4. PageTyped(page')
    BY <2>3, FS_EmptySet DEF PageTyped
  <2>5. row' = row /\ log' = log /\ phase' = phase /\ cursor' = cursor /\ store' = store /\ pulled' = pulled
        /\ phase = "new"
    BY <1>2 DEF FirstPage, serverVars, clientVars
  <2>6. LogTyped'
    BY <2>5 DEF TInv, LogTyped
  <2>7. PageTyped(page)' /\ page'.cur.c <= Len(log)
    BY <1>1, <2>3, <2>4
  <2> QED BY <2>5, <2>6, <2>7 DEF TInv
<1>3. CASE NextPage
  <2>1. page' = [NoPage EXCEPT !.pc = "fetch", !.cur = cursor]
    BY <1>3 DEF NextPage
  <2>2. NoPage \in PageType /\ NoPage.buf = {} /\ NoPage.found = {}
    BY RowsTyped DEF PageTyped, NoPage
  <2>3. /\ page' \in PageType /\ page'.buf = {} /\ page'.found = {} /\ page'.pc = "fetch"
        /\ page'.cur = cursor
    BY <2>1, <2>2 DEF PageType, TInv
  <2>4. PageTyped(page')
    BY <2>3, FS_EmptySet DEF PageTyped
  <2>5. row' = row /\ log' = log /\ phase' = phase /\ cursor' = cursor /\ store' = store /\ pulled' = pulled
        /\ phase = "paging"
    BY <1>3 DEF NextPage, serverVars, clientVars
  <2>6. LogTyped'
    BY <2>5 DEF TInv, LogTyped
  <2>7. PageTyped(page)' /\ page'.cur.c <= Len(log)
    BY <2>3, <2>4 DEF TInv
  <2> QED BY <2>5, <2>6, <2>7 DEF TInv
<1>4. CASE ReceivePage
  <2>1. store' \in [Id -> RowType] /\ row' = row /\ log' = log
    BY <1>4, ReceiveFacts, NewerFacts
  <2>2. LogTyped'
    BY <2>1 DEF TInv, LogTyped
  <2>3. page' = NoPage /\ NoPage.cur.c = 0 /\ PageTyped(page') /\ page'.pc = "off" /\ page'.cur.c = 0
    BY <1>4, ReceiveFacts, RowsTyped
  <2>4. PageTyped(page)' /\ page'.cur.c <= Len(log)
    BY <1>1, <2>3
  <2>5. \/ phase' = "pulling" /\ pulled' = page.cur.c /\ cursor' = NoCursor
        \/ phase' = "paging" /\ pulled' = pulled /\ cursor' = page.cur
    BY <1>4, ReceiveFacts
  <2>6. pulled' \in 0 .. Len(log) /\ cursor' \in CursorType /\ cursor'.c <= Len(log)
        /\ phase' \in {"new", "paging", "pulling"}
    BY <1>1, <2>5, RowsTyped DEF TInv
  <2> QED BY <2>1, <2>2, <2>3, <2>4, <2>6 DEF TInv
<1>5. CASE LosePage
  <2>1. page' = NoPage /\ UNCHANGED <<serverVars, clientVars>>
    BY <1>5 DEF LosePage
  <2>2. PageTyped(page') /\ page'.pc = "off" /\ page'.cur.c = 0
    BY <2>1, RowsTyped
  <2> QED BY <1>1, <2>1, <2>2, PageMoves
<1>6. CASE Pull
  <2>1. PICK k \in 0 .. PageLimit : /\ pulled + k <= Len(log) /\ pulled' = pulled + k
                                    /\ store' = Applied(pulled, pulled + k)
    BY <1>6 DEF Pull
  <2>2. k \in Nat /\ pulled \in Nat
    BY <2>1, Numbers DEF TInv
  <2>3. store' \in [Id -> RowType]
    BY <2>1, <2>2, PullTyped
  <2>4. row' = row /\ log' = log /\ page' = page /\ phase' = phase /\ cursor' = cursor
    BY <1>6 DEF Pull, serverVars
  <2>5. LogTyped'
    BY <2>4 DEF TInv, LogTyped
  <2>6. pulled' \in 0 .. Len(log)
    BY <1>1, <2>1, <2>2
  <2>7. PageTyped(page)'
    BY <1>1, <2>4
  <2> QED BY <2>3, <2>4, <2>5, <2>6, <2>7 DEF TInv
<1> QED BY <1>2, <1>3, <1>4, <1>5, <1>6 DEF ClientStep

LEMMA TypedStep == TInv /\ [Next]_vars => TInv'
<1> SUFFICES ASSUME TInv, [Next]_vars PROVE TInv'
  OBVIOUS
<1>1. CASE Writer
  <2>1. PICK i \in Id : Create(i) \/ Edit(i) \/ Delete(i)
    BY <1>1 DEF Writer
  <2> QED BY <2>1, UpsertTyped, DeleteTyped DEF Create, Edit
<1>2. CASE ServerStep
  BY <1>2, ServerTyped
<1>3. CASE ClientStep
  BY <1>3, ClientTyped
<1>4. CASE UNCHANGED vars
  <2>1. UNCHANGED <<row, log, page, phase, cursor, store, pulled>>
    BY <1>4 DEF vars, serverVars, clientVars
  <2>2. LogTyped' /\ PageTyped(page)'
    BY <2>1 DEF TInv, LogTyped
  <2> QED BY <2>1, <2>2 DEF TInv
<1> QED BY <1>1, <1>2, <1>3, <1>4 DEF Next

\* The client never goes back, whatever writers do with folders, and whichever
\* pages are lost: a page gives it what is newer than what it has, the log the
\* newer upserts and the deletions, each once and in order.
THEOREM ReplicasMoveForward == Spec => ReplicaMovesForward
<1>1. ASSUME TInv, [Next]_vars, ~UNCHANGED vars
      PROVE  \A i \in Id :
               \/ store'[i].version >= store[i].version
               \/ \E n \in pulled + 1 .. pulled' : log[n].id = i /\ log[n].op = "delete"
  <2>1. \A i \in Id : store[i].version \in Nat
    BY <1>1 DEF TInv, RowType
  <2>2. CASE store' = store
    BY <2>1, <2>2
  <2>3. CASE ReceivePage
    <3>1. store' = Newer(page.buf)
      BY <2>3 DEF ReceivePage
    <3>2. \A e \in page.buf : e.state.version \in Nat
      BY <1>1, PageParts DEF TInv, ItemType, RowType
    <3>3. \A i \in Id : \/ store'[i] = store[i]
                        \/ \E e \in page.buf : e.state.version > store[i].version /\ store'[i] = e.state
      BY <1>1, <3>1, NewerFacts
    <3> QED BY <2>1, <3>2, <3>3
  <2>4. CASE Pull
    <3>1. PICK k \in 0 .. PageLimit : /\ pulled + k <= Len(log) /\ pulled' = pulled + k
                                      /\ store' = Applied(pulled, pulled + k)
      BY <2>4 DEF Pull
    <3>2. k \in Nat
      BY <3>1, Numbers
    <3> QED BY <1>1, <3>1, <3>2, PullTyped
  <2>5. CASE Writer \/ ServerStep \/ FirstPage \/ NextPage \/ LosePage
    <3>1. store' = store
      BY <2>5 DEF Writer, Create, Edit, Upsert, Delete, ServerStep, SkipType, Peek, FetchRows,
                  FetchFolderOrder, FetchFolderRows, FirstPage, NextPage, LosePage, clientVars
    <3> QED BY <2>2, <3>1
  <2> QED BY <1>1, <2>3, <2>4, <2>5 DEF Next, ClientStep
<1>2. TInv /\ [Next]_vars =>
        [\A i \in Id :
           \/ store'[i].version >= store[i].version
           \/ \E n \in pulled + 1 .. pulled' : log[n].id = i /\ log[n].op = "delete"]_vars
  BY <1>1
<1> QED BY InitTyped, TypedStep, <1>2, PTL DEF Spec, ReplicaMovesForward
-----------------------------------------------------------------------------
(***************************************************************************)
(* The rows stay a tree, whatever writers do.                              *)
(***************************************************************************)
\* The rows: a tree, of which every folder has a level.
Tree(rw) ==
  /\ \A i \in Id : /\ rw[i].version = 0 => rw[i] = NoRow
                   /\ rw[i].parent # 0 => There(rw, rw[i].parent)
  /\ Placed(rw)

IsRank(rank, rw) ==
  \A f \in Folder : There(rw, f) /\ rw[f].parent # 0 => rank[rw[f].parent] < rank[f]

LEMMA ParentsAre ==
  ASSUME TInv PROVE \A j \in Id : row[j].parent \in Folder \cup {0} /\ row[j].version \in Nat
BY DEF TInv, RowType

\* The levels rank the folders of a tree, and what is ranked has levels.
LEMMA PlacedIsRanked ==
  ASSUME NEW rw \in [Id -> RowType], Tree(rw)
  PROVE  \E rank \in [Folder -> Nat] : IsRank(rank, rw)
<1> DEFINE N == Cardinality(Folder)
           l == LevelsOf(rw)
           P(f, n) == f \in l[n]
           rank == [f \in Folder |-> IF There(rw, f) THEN CHOOSE n \in 0 .. N : P(f, n) ELSE 0]
<1>1. N \in Nat /\ Folder \subseteq Id
  BY Numbers
<1>2. /\ l[0] = Roots(rw) /\ \A n \in 1 .. N : l[n] = Kids(rw, l[n - 1])
      /\ \A n \in 0 .. N : l[n] \subseteq {f \in Folder : There(rw, f)}
  BY LevelFacts
<1>3. \A m, n \in 0 .. N : \A f : f \in l[m] /\ f \in l[n] => m = n
  BY LevelsAreApart
<1>4. \A f \in Folder : There(rw, f) => \E n \in 0 .. N : P(f, n)
  BY DEF Tree, Placed
<1> HIDE DEF P, l, N
<1>5. \A f \in Folder : There(rw, f) => rank[f] \in 0 .. N /\ P(f, rank[f])
  BY <1>4
<1>6. rank \in [Folder -> Nat]
  BY <1>1, <1>5
<1> HIDE DEF rank
<1>7. ASSUME NEW f \in Folder, There(rw, f), rw[f].parent # 0
      PROVE  rank[rw[f].parent] < rank[f]
  <2> DEFINE q == rw[f].parent
             n == rank[f]
  <2>1. q \in Folder /\ There(rw, q)
    BY <1>1, <1>7 DEF Tree, RowType
  <2>2. n \in 0 .. N /\ f \in l[n] /\ rank[q] \in 0 .. N /\ q \in l[rank[q]]
    BY <1>5, <1>7, <2>1 DEF P
  <2>3. n # 0
    BY <1>2, <1>7, <2>1, <2>2 DEF Roots
  <2>4. n \in 1 .. N /\ n - 1 \in 0 .. N
    BY <1>1, <2>2, <2>3
  <2>5. q \in l[n - 1]
    BY <1>2, <2>2, <2>4 DEF Kids
  <2>6. rank[q] = n - 1
    BY <1>3, <2>2, <2>4, <2>5
  <2> QED BY <2>2, <2>6
<1> QED BY <1>6, <1>7 DEF IsRank

LEMMA RankedIsPlaced ==
  ASSUME NEW rw \in [Id -> RowType], NEW rank \in [Folder -> Nat], IsRank(rank, rw),
         \A f \in Folder : There(rw, f) /\ rw[f].parent # 0 => There(rw, rw[f].parent)
  PROVE  Placed(rw)
<1> DEFINE N == Cardinality(Folder)
           l == LevelsOf(rw)
           U == {f \in Folder : There(rw, f) /\ ~ \E n \in 0 .. N : f \in l[n]}
           R == {rank[f] : f \in U}
<1>1. N \in Nat /\ IsFiniteSet(Folder) /\ Folder \subseteq Id
  BY Numbers
<1>2. /\ l[0] = Roots(rw) /\ \A n \in 1 .. N : l[n] = Kids(rw, l[n - 1])
      /\ \A n \in 0 .. N : l[n] \subseteq {f \in Folder : There(rw, f)}
  BY LevelFacts
<1>3. ASSUME U # {} PROVE FALSE
  <2>1. R \subseteq Nat /\ R # {}
    BY <1>3
  <2>2. PICK k \in R : \A m \in R : k <= m
    BY <2>1, Least
  <2>3. PICK f \in U : rank[f] = k
    BY <2>2
  <2>4. \A g \in U : rank[f] <= rank[g]
    BY <2>2, <2>3
  <2>5. f \in Folder /\ There(rw, f) /\ \A n \in 0 .. N : f \notin l[n]
    BY <2>3
  <2> DEFINE q == rw[f].parent
  <2>6. q # 0
    BY <1>1, <1>2, <2>5 DEF Roots
  <2>7. q \in Folder /\ There(rw, q) /\ rank[q] < rank[f]
    BY <1>1, <2>5, <2>6 DEF IsRank, RowType
  <2>8. PICK n \in 0 .. N : q \in l[n]
    <3>1. q \notin U
      <4> HIDE DEF U, q
      <4>1. rank[q] \in Nat /\ rank[f] \in Nat
        BY <2>5, <2>7
      <4> QED BY <2>4, <2>7, <4>1
    <3> QED BY <2>7, <3>1
  <2> HIDE DEF q, l, N, U, R
  <2>9. CASE n = N
    <3>1. n + 1 <= Cardinality(Upto(rw, n))
      BY <2>8, LevelsAreFilled DEF l, N
    <3>2. Upto(rw, n) \subseteq Folder
      <4>1. \A m \in 0 .. n : l[m] \subseteq Folder
        BY <1>1, <1>2
      <4> QED BY <4>1 DEF Upto, l
    <3>3. Cardinality(Upto(rw, n)) <= N /\ IsFiniteSet(Upto(rw, n))
      BY <1>1, <3>2, FS_Subset, Zenon DEF N
    <3>4. Cardinality(Upto(rw, n)) \in Nat
      BY <3>3, FS_CardinalityType
    <3> QED BY <1>1, <2>9, <3>1, <3>3, <3>4
  <2>10. CASE n # N
    <3>1. n + 1 \in 1 .. N /\ (n + 1) - 1 = n /\ n + 1 \in 0 .. N
      BY <1>1, <2>10
    <3>2. f \in l[n + 1]
      BY <1>2, <2>5, <2>8, <3>1 DEF Kids, q
    <3> QED BY <2>5, <3>1, <3>2
  <2> QED BY <2>9, <2>10
<1> QED BY <1>3 DEF Placed

\* What is moved takes its subtree along, below a folder that is not in it.
LEMMA UpsertTree ==
  ASSUME TInv, Tree(row), NEW i \in Id, NEW p \in Parents(i), Upsert(i, p)
  PROVE  Tree(row')
<1> DEFINE r == [version |-> row[i].version + 1, parent |-> p]
           S == Subtree(i)
<1>1. /\ r \in RowType /\ r.version > 0 /\ row' = [row EXCEPT ![i] = r] /\ r.parent = p
      /\ p # 0 => p \in Folder /\ There(row, p) /\ p \notin S
  <2>1. r \in RowType /\ r.version > 0 /\ row' = [row EXCEPT ![i] = r]
    BY UpsertTyped, Zenon
  <2> QED BY <2>1 DEF Upsert, Exists, There, Parents
<1> HIDE DEF r
<1>2. row \in [Id -> RowType] /\ row' \in [Id -> RowType] /\ Folder \subseteq Id /\ 0 \notin Id
  BY <1>1, Numbers DEF TInv
<1>3. row'[i] = r /\ \A j \in Id \ {i} : row'[j] = row[j]
  BY <1>1, <1>2
<1>4. \A j \in Id : There(row, j) => There(row', j)
  BY <1>1, <1>3 DEF There
<1>5. ASSUME NEW j \in Id
      PROVE  /\ row'[j].version = 0 => row'[j] = NoRow
             /\ row'[j].parent # 0 => There(row', row'[j].parent)
  <2>1. CASE j = i
    <3>1. row'[j] = r /\ r.version # 0
      BY <1>1, <1>3, <2>1
    <3>2. r.parent # 0 => r.parent \in Id /\ There(row, r.parent)
      BY <1>1, <1>2
    <3> QED BY <1>4, <3>1, <3>2
  <2>2. CASE j # i
    <3>1. row[j].parent # 0 => row[j].parent \in Id /\ There(row, row[j].parent)
      BY <1>2, ParentsAre DEF Tree
    <3> QED BY <1>3, <1>4, <2>2, <3>1 DEF Tree
  <2> QED BY <2>1, <2>2
<1>6. PICK rank \in [Folder -> Nat] : IsRank(rank, row)
  BY <1>2, PlacedIsRanked
<1>7. Inside(S) \subseteq S /\ i \in S
  BY ParentsAre, SubtreeIsClosed, SubtreeFacts
<1> HIDE DEF S
<1> DEFINE below == IF p = 0 THEN 0 ELSE rank[p]
           new == [f \in Folder |-> IF f \in S THEN rank[f] + below + 1 ELSE rank[f]]
<1>8. below \in Nat /\ new \in [Folder -> Nat]
  BY <1>1, <1>6
<1>9. ASSUME NEW f \in Folder, There(row', f), row'[f].parent # 0
       PROVE  new[row'[f].parent] < new[f]
  <2> DEFINE q == row'[f].parent
  <2>1. q \in Folder
    BY <1>2, <1>9 DEF RowType
  <2>2. rank[q] \in Nat /\ rank[f] \in Nat
    BY <1>6, <2>1
  <2>3. CASE f = i
    <3>1. q = p /\ p # 0 /\ q \notin S /\ f \in S /\ below = rank[q]
      BY <1>1, <1>3, <1>7, <1>9, <2>3
    <3> HIDE DEF q, below
    <3>2. new[q] = rank[q] /\ new[f] = rank[f] + rank[q] + 1
      BY <2>1, <3>1 DEF q
    <3> QED BY <2>2, <3>2 DEF q
  <2>4. CASE f # i
    <3>1. f \in Id /\ row'[f] = row[f] /\ There(row, f)
      BY <1>2, <1>3, <1>9, <2>4 DEF There
    <3>2. rank[q] < rank[f]
      BY <1>6, <1>9, <3>1 DEF IsRank
    <3>3. q \in S => f \in S
      BY <1>7, <3>1 DEF Inside, Exists, There
    <3> HIDE DEF q, below
    <3>4. /\ new[q] = IF q \in S THEN rank[q] + below + 1 ELSE rank[q]
          /\ new[f] = IF f \in S THEN rank[f] + below + 1 ELSE rank[f]
      BY <2>1
    <3>5. new[q] < new[f]
      <4> HIDE DEF new
      <4> QED BY <1>8, <2>2, <3>2, <3>3, <3>4
    <3> QED BY <3>5 DEF q
  <2> QED BY <2>3, <2>4
<1> HIDE DEF new
<1>10. IsRank(new, row')
  BY <1>9 DEF IsRank
<1>11. Placed(row')
  BY <1>2, <1>5, <1>8, <1>10, RankedIsPlaced
<1> QED BY <1>5, <1>11 DEF Tree

LEMMA DeleteTree ==
  ASSUME TInv, Tree(row), NEW i \in Id, Delete(i)
  PROVE  Tree(row')
<1> DEFINE S == Subtree(i)
<1>1. row' = [j \in Id |-> IF j \in S THEN NoRow ELSE row[j]]
  BY DEF Delete
<1>2. Inside(S) \subseteq S
  BY ParentsAre, SubtreeIsClosed
<1> HIDE DEF S
<1>3. row \in [Id -> RowType] /\ row' \in [Id -> RowType] /\ Folder \subseteq Id /\ 0 \notin Id
  BY <1>1, RowsTyped, Numbers DEF TInv
<1>4. \A j \in Id : row'[j] = IF j \in S THEN NoRow ELSE row[j]
  BY <1>1
<1>5. ASSUME NEW j \in Id
      PROVE  /\ row'[j].version = 0 => row'[j] = NoRow
             /\ row'[j].parent # 0 => There(row', row'[j].parent)
  <2>1. CASE j \in S
    BY <1>4, <2>1, RowsTyped
  <2>2. CASE j \notin S
    <3>1. row'[j] = row[j]
      BY <1>4, <2>2
    <3>2. ASSUME row[j].parent # 0 PROVE There(row', row[j].parent)
      <4>1. row[j].parent \in Id /\ There(row, row[j].parent)
        BY <1>3, <3>2, ParentsAre DEF Tree
      <4>2. Exists(j)
        BY <3>2, RowsTyped, ParentsAre DEF Tree, Exists
      <4>3. row[j].parent \notin S
        BY <1>2, <2>2, <4>2 DEF Inside
      <4> QED BY <1>4, <4>1, <4>3 DEF There
    <3> QED BY <3>1, <3>2 DEF Tree
  <2> QED BY <2>1, <2>2
<1>6. PICK rank \in [Folder -> Nat] : IsRank(rank, row)
  BY <1>3, PlacedIsRanked
<1>7. IsRank(rank, row')
  <2>1. ASSUME NEW f \in Folder, There(row', f) PROVE row'[f] = row[f] /\ There(row, f)
    BY <1>3, <1>4, <2>1, RowsTyped DEF There
  <2> QED BY <1>6, <2>1 DEF IsRank
<1>8. Placed(row')
  BY <1>3, <1>5, <1>6, <1>7, RankedIsPlaced
<1> QED BY <1>5, <1>8 DEF Tree

\* The tombstones of a delete are one for each thing that goes: what comes before
\* another is ordered, so that every place in the order is taken by one of them.
LEMMA EveryRankIsTaken ==
  ASSUME NEW S, IsFiniteSet(S), NEW R,
         \A x \in S : <<x, x>> \notin R,
         \A x, y, z \in S : <<x, y>> \in R /\ <<y, z>> \in R => <<x, z>> \in R,
         \A x, y \in S : x = y \/ <<x, y>> \in R \/ <<y, x>> \in R,
         NEW k \in 1 .. Cardinality(S)
  PROVE  \E x \in S : Cardinality({y \in S : <<y, x>> \in R}) = k - 1
<1> DEFINE N == Cardinality(S)
           Below(x) == {y \in S : <<y, x>> \in R}
           rank == [x \in S |-> Cardinality(Below(x))]
<1>1. N \in Nat
  BY FS_CardinalityType
<1>2. ASSUME NEW x \in S
      PROVE  IsFiniteSet(Below(x)) /\ Cardinality(Below(x)) \in 0 .. N - 1
  <2>1. Below(x) \subseteq S /\ x \notin Below(x)
    OBVIOUS
  <2> HIDE DEF Below
  <2>2. /\ IsFiniteSet(Below(x)) /\ Cardinality(Below(x)) <= N
        /\ Cardinality(S) = Cardinality(Below(x)) => S = Below(x)
    BY <2>1, FS_Subset, Zenon
  <2>3. Cardinality(Below(x)) \in Nat
    BY <2>2, FS_CardinalityType
  <2> QED BY <1>1, <2>1, <2>2, <2>3
<1>3. ASSUME NEW x \in S, NEW y \in S, <<x, y>> \in R
      PROVE  Cardinality(Below(x)) < Cardinality(Below(y))
  <2>1. Below(x) \subseteq Below(y) /\ x \in Below(y) /\ x \notin Below(x)
    BY <1>3
  <2> HIDE DEF Below
  <2>2. /\ Cardinality(Below(x)) <= Cardinality(Below(y))
        /\ Cardinality(Below(y)) = Cardinality(Below(x)) => Below(y) = Below(x)
    BY <1>2, <2>1, FS_Subset, Zenon
  <2>3. Cardinality(Below(x)) \in Nat /\ Cardinality(Below(y)) \in Nat
    BY <1>2
  <2> QED BY <2>1, <2>2, <2>3
<1> HIDE DEF Below
<1>4. rank \in Injection(S, 0 .. N - 1)
  <2>1. rank \in [S -> 0 .. N - 1]
    BY <1>2
  <2>2. \A x, y \in S : rank[x] = rank[y] => x = y
    <3>1. \A x \in S : rank[x] = Cardinality(Below(x)) /\ rank[x] \in Nat
      BY <1>2
    <3> HIDE DEF rank
    <3> SUFFICES ASSUME NEW x \in S, NEW y \in S, rank[x] = rank[y], x # y PROVE FALSE
      OBVIOUS
    <3>2. ~(<<x, y>> \in R) /\ ~(<<y, x>> \in R)
      BY <1>3, <3>1
    <3> QED BY <3>2
  <2> QED BY <2>1, <2>2 DEF Injection, IsInjective
<1> HIDE DEF rank
<1>5. IsFiniteSet(0 .. N - 1) /\ Cardinality(0 .. N - 1) = N
  <2> HIDE DEF N
  <2> QED BY <1>1, FS_Interval
<1>6. rank \in Surjection(S, 0 .. N - 1)
  BY <1>4, <1>5, FS_Injection, Zenon
<1>7. k - 1 \in 0 .. N - 1
  BY <1>1
<1>8. PICK x \in S : rank[x] = k - 1
  BY <1>6, <1>7 DEF Surjection
<1> QED BY <1>8 DEF rank, Below

LEMMA TombstonesAre ==
  ASSUME TInv, Tree(row), NEW S, S \subseteq Id, \A j \in S : Exists(j)
  PROVE  /\ Cardinality(S) \in Nat
         /\ \E s \in [1 .. Cardinality(S) -> S] :
              Tombstones(S) = [k \in 1 .. Cardinality(S) |-> Entry(s[k], "delete", row[s[k]])]
<1> DEFINE N == Cardinality(S)
           R == {p \in S \X S : TombstoneBefore(p[1], p[2])}
           s == [k \in 1 .. N |->
                   CHOOSE x \in S : Cardinality({y \in S : TombstoneBefore(y, x)}) = k - 1]
<1>1. IsFiniteSet(S) /\ N \in Nat
  <2>1. IsFiniteSet(S)
    BY Numbers, FS_Subset
  <2> QED BY <2>1, FS_CardinalityType
<1>2. ASSUME NEW f \in S, f \in Folder PROVE Depth(f) \in Nat
  <2>1. PICK n \in 0 .. Cardinality(Folder) : f \in LevelsOf(row)[n]
    BY <1>2 DEF Tree, Placed, Exists, There
  <2>2. DOMAIN LevelsOf(row) = 0 .. Cardinality(Folder)
    BY LevelFacts
  <2>3. Depth(f) = CHOOSE m \in DOMAIN LevelsOf(row) : f \in LevelsOf(row)[m]
    BY LevelIs DEF Depth
  <2>4. Depth(f) \in 0 .. Cardinality(Folder)
    BY <2>1, <2>2, <2>3
  <2> QED BY <2>4
<1>3. \A x \in S : x \in Nat
  BY Numbers
<1>4. \A x, y \in S : <<x, y>> \in R <=> TombstoneBefore(x, y)
  OBVIOUS
<1> HIDE DEF R
<1>5. /\ \A x \in S : <<x, x>> \notin R
      /\ \A x, y \in S : x = y \/ <<x, y>> \in R \/ <<y, x>> \in R
  BY <1>2, <1>3, <1>4 DEF TombstoneBefore
<1>6. \A x, y, z \in S : <<x, y>> \in R /\ <<y, z>> \in R => <<x, z>> \in R
  BY <1>2, <1>3, <1>4 DEF TombstoneBefore
<1>7. ASSUME NEW k \in 1 .. N
      PROVE  \E x \in S : Cardinality({y \in S : TombstoneBefore(y, x)}) = k - 1
  <2>1. PICK x \in S : Cardinality({y \in S : <<y, x>> \in R}) = k - 1
    BY <1>1, <1>5, <1>6, EveryRankIsTaken
  <2>2. {y \in S : <<y, x>> \in R} = {y \in S : TombstoneBefore(y, x)}
    BY <1>4
  <2> QED BY <2>1, <2>2
<1>8. Tombstones(S) = [k \in 1 .. N |-> Entry(s[k], "delete", row[s[k]])]
  BY DEF Tombstones
<1>9. s \in [1 .. N -> S]
  BY <1>7
<1> HIDE DEF s
<1> QED BY <1>1, <1>8, <1>9

LEMMA TreeStep == TInv /\ Tree(row) /\ [Next]_vars => Tree(row')
<1> SUFFICES ASSUME TInv, Tree(row), [Next]_vars PROVE Tree(row')
  OBVIOUS
<1>1. CASE Writer
  <2>1. PICK i \in Id : Create(i) \/ Edit(i) \/ Delete(i)
    BY <1>1 DEF Writer
  <2> QED BY <2>1, UpsertTree, DeleteTree DEF Create, Edit
<1>2. CASE row' = row
  BY <1>2
<1> QED BY <1>1, <1>2 DEF Next, ServerStep, SkipType, Peek, FetchRows, FetchFolderOrder, FetchFolderRows,
     ClientStep, FirstPage, NextPage, ReceivePage, LosePage, Pull, vars, serverVars

-----------------------------------------------------------------------------
(***************************************************************************)
(* The types and bounds of TypeOK.                                         *)
(***************************************************************************)
EntryType == [id : Id, op : {"upsert", "delete"}, version : 1 .. MaxVersion,
              parent : Folder \cup {0}]

Small(r) == r.version <= MaxVersion

LogBounds ==
  Len(log) <= MaxLog /\ \A n \in 1 .. Len(log) : log[n] \in EntryType

PageBounds ==
  /\ \A e \in page.buf : Small(e.state)
  /\ page.cur.a \in Position /\ page.found \subseteq Position
  /\ Cardinality(page.buf) <= PageLimit

Bounds ==
  /\ \A i \in Id : Small(row[i]) /\ Small(store[i])
  /\ LogBounds /\ PageBounds /\ cursor.a \in Position

LEMMA BoundsFacts ==
  /\ MaxVersion \in Nat /\ MaxLog \in Nat /\ Small(NoRow)
  /\ Start \in Position /\ NoCursor.a = Start /\ NoPage.buf = {} /\ NoPage.found = {}
<1>1. MaxVersion \in Nat /\ MaxLog \in Nat
  BY SnapshotAssumption
<1>2. Start \in Position
  BY Numbers DEF Start, Position
<1> QED BY <1>1, <1>2, RowsTyped DEF Small, NoCursor, NoPage

LEMMA BoundsAreTypes == TInv /\ Bounds => TypeOK
<1> SUFFICES ASSUME TInv, Bounds PROVE TypeOK
  OBVIOUS
<1>1. /\ MaxVersion \in Nat /\ MaxLog \in Nat /\ Len(log) \in Nat /\ Len(log) <= MaxLog
  BY BoundsFacts DEF Bounds, LogBounds, TInv, LogTyped
<1>2. ASSUME NEW r \in RowType, Small(r) PROVE r \in State
  BY <1>1, <1>2 DEF RowType, Small, State
<1>3. row \in [Id -> State] /\ store \in [Id -> State]
  BY <1>2 DEF TInv, Bounds
<1>4. log \in Seq(EntryType)
  <2>1. PICK X : log \in Seq(X)
    BY DEF TInv, LogTyped
  <2>2. log \in [1 .. Len(log) -> EntryType]
    BY <2>1 DEF Bounds, LogBounds
  <2> QED BY <1>1, <2>2
<1>5. ASSUME NEW c \in CursorType, c.c <= Len(log), c.a \in Position
      PROVE  c \in Cursor
  <2>1. c.c \in 0 .. MaxLog /\ c.t \in 1 .. Len(SNAPSHOT_ORDER) + 1
    BY <1>1, <1>5, SnapshotTypes DEF CursorType
  <2> QED BY <1>5, <2>1 DEF CursorType, Cursor
<1>6. page.cur \in Cursor /\ cursor \in Cursor
  BY <1>5, PageParts DEF TInv, Bounds, PageBounds
<1>7. page.buf \subseteq [id : Id, state : State]
  <2>1. ASSUME NEW e \in ItemType, Small(e.state) PROVE e \in [id : Id, state : State]
    BY <1>2, <2>1 DEF ItemType
  <2> QED BY <2>1, PageParts DEF TInv, Bounds, PageBounds
<1>8. page.pc \in {"off", "fetch", "rows", "more"}
  BY PageParts DEF TInv
<1> QED BY <1>3, <1>4, <1>6, <1>7, <1>8 DEF TypeOK, TInv, Bounds, PageBounds, EntryType

LEMMA WriterBounds ==
  ASSUME TInv, Tree(row), Bounds, Writer
  PROVE  Bounds'
<1>1. PICK i \in Id : Create(i) \/ Edit(i) \/ Delete(i)
  BY DEF Writer
<1>2. /\ Len(log) \in Nat /\ row \in [Id -> RowType] /\ MaxVersion \in Nat /\ MaxLog \in Nat
      /\ \A n \in 1 .. Len(log) : log[n] \in EntryType
      /\ UNCHANGED <<page, clientVars>>
  <2>1. Len(log) \in Nat /\ row \in [Id -> RowType] /\ MaxVersion \in Nat /\ MaxLog \in Nat
    BY BoundsFacts DEF TInv, LogTyped
  <2>2. \A n \in 1 .. Len(log) : log[n] \in EntryType
    BY DEF Bounds, LogBounds
  <2>3. (\E p : Upsert(i, p)) \/ Delete(i)
    BY <1>1 DEF Create, Edit
  <2>4. UNCHANGED <<page, clientVars>>
    BY <2>3 DEF Upsert, Delete
  <2> QED BY <2>1, <2>2, <2>4
<1>3. ASSUME \A j \in Id : Small(row'[j]), LogBounds' PROVE Bounds'
  BY <1>2, <1>3 DEF Bounds, PageBounds, clientVars
<1>4. ASSUME NEW p \in Parents(i), Upsert(i, p) PROVE Bounds'
  <2> DEFINE r == [version |-> row[i].version + 1, parent |-> p]
  <2>1. /\ r \in RowType /\ r.version > 0
        /\ row' = [row EXCEPT ![i] = r]
        /\ Len(log') = Len(log) + 1
        /\ \A n \in 1 .. Len(log) : log'[n] = log[n]
        /\ log'[Len(log) + 1] = Entry(i, "upsert", r)
    BY <1>4, UpsertTyped, Zenon
  <2>2. Small(r) /\ Len(log) < MaxLog
    BY <1>4 DEF Upsert, Small
  <2> HIDE DEF r
  <2>3. \A j \in Id : Small(row'[j])
    BY <1>2, <2>1, <2>2 DEF Bounds
  <2>4. Entry(i, "upsert", r) \in EntryType
    <3>1. r.version \in 1 .. MaxVersion /\ r.parent \in Folder \cup {0}
      BY <1>2, <2>1, <2>2 DEF RowType, Small
    <3> QED BY <3>1 DEF Entry, EntryType
  <2>5. \A n \in 1 .. Len(log') : n \in 1 .. Len(log) \/ n = Len(log) + 1
    BY <1>2, <2>1
  <2>6. \A n \in 1 .. Len(log') : log'[n] \in EntryType
    BY <1>2, <2>1, <2>4, <2>5
  <2>7. LogBounds'
    BY <1>2, <2>1, <2>2, <2>6 DEF LogBounds
  <2> QED BY <1>3, <2>3, <2>7
<1>5. CASE Delete(i)
  <2> DEFINE S == Subtree(i)
             N == Cardinality(S)
             T == Tombstones(S)
  <2>1. /\ Len(log) + N <= MaxLog /\ log' = log \o T
        /\ row' = [j \in Id |-> IF j \in S THEN NoRow ELSE row[j]]
        /\ S \subseteq Id /\ \A j \in S : Exists(j)
    BY <1>5, SubtreeFacts DEF Delete
  <2>2. PICK s \in [1 .. N -> S] :
          N \in Nat /\ T = [k \in 1 .. N |-> Entry(s[k], "delete", row[s[k]])]
    BY <2>1, TombstonesAre, Zenon
  <2> HIDE DEF S, N, T
  <2>3. ASSUME NEW j \in S PROVE Entry(j, "delete", row[j]) \in EntryType
    <3>1. j \in Id /\ row[j] \in RowType /\ row[j].version > 0 /\ Small(row[j])
      BY <1>2, <2>1 DEF Bounds, Exists
    <3>2. row[j].version \in 1 .. MaxVersion /\ row[j].parent \in Folder \cup {0}
      BY <1>2, <3>1 DEF RowType, Small
    <3> QED BY <3>1, <3>2 DEF Entry, EntryType
  <2>4. T \in [1 .. N -> EntryType] /\ N \in Nat
    BY <2>2, <2>3
  <2>5. PICK X : log \in Seq(X)
    BY DEF TInv, LogTyped
  <2>6. /\ Len(log') = Len(log) + N
        /\ \A n \in 1 .. Len(log') : log'[n] = IF n <= Len(log) THEN log[n] ELSE T[n - Len(log)]
    BY <2>1, <2>4, <2>5, LogExtends
  <2>7. ASSUME NEW n \in 1 .. Len(log') PROVE log'[n] \in EntryType
    <3>1. n <= Len(log) => n \in 1 .. Len(log)
      BY <1>2
    <3>2. ~(n <= Len(log)) => n - Len(log) \in 1 .. N
      BY <1>2, <2>4, <2>6
    <3> QED BY <1>2, <2>4, <2>6, <3>1, <3>2
  <2>8. LogBounds'
    BY <2>1, <2>6, <2>7 DEF LogBounds
  <2>9. \A j \in Id : Small(row'[j])
    BY <2>1, BoundsFacts DEF Bounds
  <2> QED BY <1>3, <2>8, <2>9
<1> QED BY <1>1, <1>4, <1>5 DEF Create, Edit

\* A page has no more items than its limit.
LEMMA TakesBounds ==
  ASSUME TInv, Bounds, page.cur.t <= 3, page.pc \in {"fetch", "rows"},
         NEW found, found \subseteq Nat \X Type, found \subseteq Position, IsFiniteSet(found),
         NEW W, Takes(found, W)
  PROVE  PageBounds'
<1>1. PageTyped(page) /\ row \in [Id -> RowType] /\ page.cur.t \in 1 .. 3
  BY PageParts DEF TInv
<1>2. Type \subseteq Id /\ Type \subseteq Nat
  BY <1>1, SnapshotTypes, Numbers DEF Type, Types
<1>3. W \subseteq found /\ W \subseteq Pair /\ W \subseteq Position /\ IsFiniteSet(W)
  <2>1. W \subseteq found /\ W \subseteq Pair /\ W \subseteq Position
    BY <1>2 DEF Takes, Pair
  <2> QED BY <2>1, FS_Subset
<1>4. IsFiniteSet(Put(W)) /\ Cardinality(Put(W)) <= Cardinality(W)
  BY <1>3, PutIsSmall
<1>5. page'.buf = page.buf \cup Put(W) /\ page'.found = {} /\ Cardinality(W) <= Remaining
  BY DEF Takes
<1>6. \A e \in Put(W) : Small(e.state)
  <2> SUFFICES ASSUME NEW p \in W
               PROVE  Small([id |-> p[2], state |-> row[p[2]]].state)
    BY DEF Put
  <2>1. p[2] \in Id
    BY <1>2, <1>3
  <2> QED BY <2>1 DEF Bounds
<1>7. Cardinality(page'.buf) <= PageLimit
  <2>1. IsFiniteSet(page.buf)
    BY <1>1 DEF PageTyped
  <2>2. /\ Cardinality(page.buf \cup Put(W)) =
             Cardinality(page.buf) + Cardinality(Put(W)) - Cardinality(page.buf \cap Put(W))
    BY <1>4, <2>1, FS_Union, Zenon
  <2>3. IsFiniteSet(page.buf \cap Put(W))
    BY <1>4, FS_Subset
  <2>4. /\ Cardinality(page.buf) \in Nat /\ Cardinality(Put(W)) \in Nat /\ Cardinality(W) \in Nat
        /\ Cardinality(page.buf \cap Put(W)) \in Nat /\ PageLimit \in Nat
    BY <1>3, <1>4, <2>1, <2>3, FS_CardinalityType, Numbers
  <2> QED BY <1>4, <1>5, <2>2, <2>4 DEF Remaining
<1>8. page'.cur.a \in Position
  <2>1. CASE page'.cur = Onward(W)
    <3>1. page'.cur.a = IF W = {} THEN page.cur.a ELSE LastOf(W)
      BY <1>1, <1>3, <2>1, OnwardTyped
    <3>2. W # {} => LastOf(W) \in W
      BY <1>3, LastIsLast
    <3> QED BY <1>3, <3>1, <3>2 DEF Bounds, PageBounds
  <2>2. CASE page'.cur = NextType
    BY <1>1, <2>2, NextTypeTyped, BoundsFacts
  <2> QED BY <2>1, <2>2 DEF Takes
<1> QED BY <1>5, <1>6, <1>7, <1>8 DEF PageBounds, Bounds

LEMMA PageMovesBounds ==
  ASSUME Bounds, UNCHANGED <<serverVars, clientVars>>, PageBounds'
  PROVE  Bounds'
BY DEF Bounds, LogBounds, serverVars, clientVars

LEMMA ServerBounds ==
  ASSUME TInv, Bounds, ServerStep
  PROVE  Bounds'
<1>1. ASSUME page'.buf = page.buf, page'.cur.a \in Position, page'.found \subseteq Position
      PROVE  PageBounds'
  BY <1>1 DEF Bounds, PageBounds
<1>2. ASSUME page.cur.t <= 3
      PROVE  First(Remaining + 1, After(page.cur.a, Type)) \subseteq Position
  <2>1. page.cur.t \in 1 .. 3 /\ row \in [Id -> RowType]
    BY <1>2, PageParts DEF TInv
  <2>2. Type \in Types /\ Type \subseteq Id
    BY <2>1, SnapshotTypes, Numbers DEF Type, Types
  <2>3. Positions(Type) \subseteq (0 .. Cardinality(Folder)) \X Type
    BY <2>1, <2>2, PlacesFacts, PositionsAre
  <2>4. (0 .. Cardinality(Folder)) \X Type \subseteq Position
    BY <2>2 DEF Position
  <2> QED BY <2>3, <2>4 DEF First, After
<1>3. CASE SkipType \/ Peek
  <2>1. /\ page.pc = "fetch" /\ page.cur.t <= 3 /\ UNCHANGED <<serverVars, clientVars>>
        /\ page' = [page EXCEPT !.cur = NextType] \/ page' = [page EXCEPT !.pc = "more"]
    BY <1>3, SnapshotTypes DEF SkipType, Peek
  <2>2. page'.found = page.found
    <3>1. page \in PageType
      BY DEF TInv, PageTyped
    <3> QED BY <2>1, <3>1 DEF PageType
  <2>3. page'.buf = page.buf /\ page'.cur.a \in Position
    BY <2>1, SkipTyped, MoreTyped, BoundsFacts DEF Bounds, PageBounds
  <2> QED BY <1>1, <2>1, <2>2, <2>3, PageMovesBounds DEF Bounds, PageBounds
<1>4. CASE FetchFolderOrder
  <2>1. Type = Folder /\ page.cur.t <= 3 /\ UNCHANGED <<serverVars, clientVars>>
    BY <1>4, SnapshotTypes DEF FetchFolderOrder
  <2>2. /\ page'.cur = page.cur /\ page'.buf = page.buf
        /\ page'.found = First(Remaining + 1, After(page.cur.a, Type))
    BY <1>4, <2>1, OrderTyped
  <2>3. page'.found \subseteq Position
    BY <1>2, <2>1, <2>2
  <2> QED BY <1>1, <2>1, <2>2, <2>3, PageMovesBounds DEF Bounds, PageBounds
<1>5. CASE Fetches
  <2>1. /\ page.pc \in {"fetch", "rows"} /\ page.cur.t <= 3
        /\ Fetched \subseteq Nat \X Type /\ IsFiniteSet(Fetched)
        /\ UNCHANGED <<serverVars, clientVars>>
        /\ \E W : Takes(Fetched, W)
    BY <1>5, FetchTakes
  <2>2. Fetched \subseteq Position
    BY <1>2, <2>1 DEF Fetched, Bounds, PageBounds
  <2>3. PICK W : Takes(Fetched, W)
    BY <2>1
  <2> HIDE DEF Fetched
  <2>4. PageBounds'
    BY <2>1, <2>2, <2>3, TakesBounds
  <2> QED BY <2>1, <2>4, PageMovesBounds
<1> QED BY <1>3, <1>4, <1>5 DEF ServerStep, Fetches

LEMMA PullBounds ==
  ASSUME TInv, Bounds, NEW k \in Nat, pulled + k <= Len(log)
  PROVE  \A i \in Id : Small(Applied(pulled, pulled + k)[i])
<1>1. pulled \in Nat /\ Len(log) \in Nat /\ store \in [Id -> RowType]
  BY DEF TInv, LogTyped
<1>2. PICK g : /\ g[pulled] = store /\ Applied(pulled, pulled + k) = g[pulled + k]
               /\ \A n \in pulled + 1 .. pulled + k : g[n] = Delivered(log[n], g[n - 1])
  BY <1>1, AppliedFacts
<1> DEFINE Good(n) == g[n] \in [Id -> RowType] /\ \A i \in Id : Small(g[n][i])
           S == {n \in Nat : n <= k => Good(pulled + n)}
<1>3. 0 \in S
  <2>1. pulled + 0 = pulled
    BY <1>1
  <2> QED BY <1>1, <1>2, <2>1 DEF Bounds
<1>4. ASSUME NEW n \in Nat, n \in S PROVE n + 1 \in S
  <2> SUFFICES ASSUME n + 1 <= k PROVE Good(pulled + (n + 1))
    OBVIOUS
  <2> DEFINE m == pulled + (n + 1)
             e == log[m]
             s == g[m - 1]
  <2>1. m \in pulled + 1 .. pulled + k /\ m - 1 = pulled + n /\ m \in 1 .. Len(log) /\ n <= k
    BY <1>1
  <2>2. s \in [Id -> RowType] /\ \A i \in Id : Small(s[i])
    BY <1>4, <2>1
  <2>3. g[m] = Delivered(e, s)
    BY <1>2, <2>1
  <2>4. e.op = "delete" \/ e \in UpsertType
    BY <2>1 DEF TInv, LogTyped
  <2>5. e.id \in Id /\ Small(Told(e))
    BY <2>1 DEF Bounds, LogBounds, EntryType, Small, Told
  <2> HIDE DEF m, e, s
  <2>6. g[m] \in [Id -> RowType]
    BY <2>2, <2>3, <2>4, DeliveredTyped
  <2>7. g[m] = s \/ g[m] = [s EXCEPT ![e.id] = NoRow] \/ g[m] = [s EXCEPT ![e.id] = Told(e)]
    BY <2>3 DEF Delivered, Apply, Told
  <2>8. \A i \in Id : Small(g[m][i])
    BY <2>2, <2>5, <2>7, BoundsFacts
  <2>9. Good(m)
    BY <2>6, <2>8
  <2> QED BY <2>9 DEF m
<1> HIDE DEF S
<1>5. k \in S
  BY <1>3, <1>4, Induct
<1>6. Good(pulled + k)
  BY <1>5 DEF S
<1> QED BY <1>2, <1>6

LEMMA ClientBounds ==
  ASSUME TInv, Bounds, ClientStep
  PROVE  Bounds'
<1>1. row' = row /\ log' = log
  BY DEF ClientStep, FirstPage, NextPage, ReceivePage, LosePage, Pull, serverVars
<1>2. ASSUME page'.buf = {}, page'.cur.a \in Position, page'.found = {} PROVE PageBounds'
  BY <1>2, FS_EmptySet, Numbers DEF PageBounds
<1>3. ASSUME \A i \in Id : Small(store'[i]), PageBounds', cursor'.a \in Position PROVE Bounds'
  BY <1>1, <1>3 DEF Bounds, LogBounds
<1>4. CASE FirstPage \/ NextPage
  <2>1. /\ UNCHANGED <<serverVars, clientVars>>
        /\ \/ page' = [NoPage EXCEPT !.pc = "fetch", !.cur.c = Len(log)]
           \/ page' = [NoPage EXCEPT !.pc = "fetch", !.cur = cursor]
    BY <1>4 DEF FirstPage, NextPage
  <2>2. /\ page'.buf = {} /\ page'.found = {}
        /\ page'.cur.a = Start \/ page'.cur.a = cursor.a
    BY <2>1 DEF NoPage, NoCursor
  <2> QED BY <1>2, <2>1, <2>2, BoundsFacts, PageMovesBounds DEF Bounds
<1>5. page' = NoPage => PageBounds'
  BY <1>2, BoundsFacts, RowsTyped
<1>6. CASE ReceivePage
  <2>1. /\ store' = Newer(page.buf) /\ page' = NoPage
        /\ cursor' = NoCursor \/ cursor' = page.cur
    BY <1>6, ReceiveFacts
  <2>2. \A i \in Id : store'[i] = store[i] \/ \E e \in page.buf : store'[i] = e.state
    BY <2>1, NewerFacts
  <2>3. \A i \in Id : Small(store'[i])
    BY <2>2 DEF Bounds, PageBounds
  <2> QED BY <1>3, <1>5, <2>1, <2>3, BoundsFacts DEF Bounds, PageBounds
<1>7. CASE LosePage
  BY <1>5, <1>7, PageMovesBounds DEF LosePage
<1>8. CASE Pull
  <2>1. PICK k \in 0 .. PageLimit : pulled + k <= Len(log) /\ store' = Applied(pulled, pulled + k)
    BY <1>8 DEF Pull
  <2>2. k \in Nat
    BY <2>1, Numbers
  <2>3. \A i \in Id : Small(store'[i])
    BY <2>1, <2>2, PullBounds
  <2>4. page' = page /\ cursor' = cursor
    BY <1>8 DEF Pull
  <2>5. PageBounds' /\ cursor'.a \in Position
    BY <1>1, <2>4 DEF Bounds, PageBounds
  <2> QED BY <1>3, <2>3, <2>5
<1> QED BY <1>4, <1>6, <1>7, <1>8 DEF ClientStep

LEMMA BoundsStep == TInv /\ Tree(row) /\ Bounds /\ [Next]_vars => Bounds'
<1> SUFFICES ASSUME TInv, Tree(row), Bounds, [Next]_vars PROVE Bounds'
  OBVIOUS
<1>1. CASE UNCHANGED vars
  <2>1. UNCHANGED <<row, log, page, phase, cursor, store, pulled>>
    BY <1>1 DEF vars, serverVars, clientVars
  <2> QED BY <2>1 DEF Bounds, LogBounds, PageBounds
<1> QED BY <1>1, WriterBounds, ServerBounds, ClientBounds DEF Next

LEMMA InitBounds == Init => Tree(row) /\ Bounds
<1> SUFFICES ASSUME Init PROVE Tree(row) /\ Bounds
  OBVIOUS
<1>1. /\ row = [i \in Id |-> NoRow] /\ store = [i \in Id |-> NoRow]
      /\ Len(log) = 0 /\ page = NoPage /\ cursor = NoCursor
  BY DEF Init
<1>2. \A i \in Id : row[i] = NoRow /\ store[i] = NoRow /\ ~There(row, i)
  BY <1>1, RowsTyped DEF There
<1>3. Tree(row)
  BY <1>2, RowsTyped, Numbers DEF Tree, Placed
<1>4. LogBounds
  BY <1>1, BoundsFacts DEF LogBounds
<1>5. PageBounds
  BY <1>1, BoundsFacts, RowsTyped, FS_EmptySet, Numbers DEF PageBounds
<1> QED BY <1>1, <1>2, <1>3, <1>4, <1>5, BoundsFacts DEF Bounds

\* Rows, log, pages and replica are well-typed, whatever writers do with
\* folders; a page never has more items than its limit.
THEOREM TypesHold == Spec => []TypeOK
<1>1. Init => TInv /\ Tree(row) /\ Bounds
  BY InitTyped, InitBounds
<1>2. TInv /\ Tree(row) /\ Bounds /\ [Next]_vars => (TInv /\ Tree(row) /\ Bounds)'
  BY TypedStep, TreeStep, BoundsStep
<1> QED BY <1>1, <1>2, BoundsAreTypes, PTL DEF Spec

-----------------------------------------------------------------------------
(***************************************************************************)
(* Convergence, for rows rw and a log lg.                                  *)
(***************************************************************************)
\* No folder is moved with subfolders, or deleted.
Flat == Change \cap {"moveSubtree", "deleteFolder"} = {}

\* What the client may be told of.
Vis(i) == i \in Global => Declared

\* The log has an entry of i, or a deletion, after the first k.
Touched(lg, i, k) == \E n \in k + 1 .. Len(lg) : lg[n].id = i
Deleted(lg, i, k) == \E n \in k + 1 .. Len(lg) : lg[n].id = i /\ lg[n].op = "delete"

\* What somebody has of i is the row, or older, unless it was deleted after k.
Behind(rw, lg, state, i, k) ==
  ~Deleted(lg, i, k) => state.version < rw[i].version \/ state = rw[i]

\* The last entry tells the row; those since its last deletion are not ahead of it.
Tells(rw, lg) ==
  /\ \A i \in Id : ~Touched(lg, i, 0) => rw[i] = NoRow
  /\ \A n \in 1 .. Len(lg) :
       /\ lg[n].id \in Id
       /\ ~Touched(lg, lg[n].id, n) =>
            rw[lg[n].id] = IF lg[n].op = "delete" THEN NoRow ELSE Told(lg[n])
       /\ lg[n].op # "delete" => Behind(rw, lg, Told(lg[n]), lg[n].id, n)

\* The place of i is not after the cursor.
Covered(rw, i, cur) ==
  \/ TypeNo(i) < cur.t
  \/ /\ TypeNo(i) = cur.t
     /\ \E p \in Places(rw, SNAPSHOT_ORDER[cur.t]) : p[2] = i /\ ~Earlier(cur.a, p)

\* The pages up to the cursor owe it to the client: the pull will not bring it.
Due(rw, lg, i, cur) ==
  Vis(i) /\ There(rw, i) /\ ~Touched(lg, i, cur.c) /\ Covered(rw, i, cur)

StoreInv ==
  /\ \A i \in Id : ~Vis(i) => store[i] = NoRow
  /\ phase = "new" => \A i \in Id : store[i] = NoRow
  /\ phase = "paging" =>
       \A i \in Id : /\ Behind(row, log, store[i], i, cursor.c)
                     /\ Due(row, log, i, cursor) => store[i] = row[i]
  /\ phase = "pulling" =>
       \A i \in Id : Vis(i) => /\ Behind(row, log, store[i], i, pulled)
                               /\ ~Touched(log, i, pulled) => store[i] = row[i]

\* What is on the page is as it was when it was read.
PageInv ==
  page.pc # "off" =>
    /\ phase = "paging" => page.cur.c = cursor.c
    /\ \A e \in page.buf : Vis(e.id) /\ Behind(row, log, e.state, e.id, page.cur.c)
    /\ \A i \in Id : Due(row, log, i, page.cur) =>
         store[i] = row[i] \/ [id |-> i, state |-> row[i]] \in page.buf

\* What was found passes over nothing that the log will not bring.
Reaches(found) ==
  \A p \in Places(row, Type) : ~Touched(log, p[2], page.cur.c) =>
    \/ ~Earlier(page.cur.a, p)
    \/ p \in found
    \/ Cardinality(found) > Remaining /\ \A q \in found : Earlier(q, p)

FoundInv ==
  page.pc = "rows" => Reaches(page.found) /\ \A p \in page.found : Exists(p[2])

ConvInv == Tree(row) /\ Tells(row, log) /\ StoreInv /\ PageInv /\ FoundInv

LEMMA InitConv == Init => ConvInv
<1> SUFFICES ASSUME Init PROVE ConvInv
  OBVIOUS
<1>1. /\ row = [i \in Id |-> NoRow] /\ store = [i \in Id |-> NoRow] /\ log = <<>>
      /\ page = NoPage /\ phase = "new" /\ Len(log) = 0
  BY DEF Init
<1>2. Tree(row)
  BY InitBounds
<1>3. Tells(row, log)
  BY <1>1, RowsTyped DEF Tells
<1> QED BY <1>1, <1>2, <1>3, RowsTyped DEF ConvInv, StoreInv, PageInv, FoundInv

-----------------------------------------------------------------------------
(* Writers *)

\* One row is written, and its entry is the last of the log.
Writes(i, r) ==
  /\ UNCHANGED <<page, clientVars>>
  /\ row' = [row EXCEPT ![i] = r]
  /\ Len(log') = Len(log) + 1
  /\ \A n \in 1 .. Len(log) : log'[n] = log[n]
  /\ log'[Len(log) + 1].id = i
  /\ IF log'[Len(log) + 1].op = "delete" THEN r = NoRow /\ i \notin Folder
     ELSE r = Told(log'[Len(log) + 1]) /\ r.version = row[i].version + 1

\* The places of all others stay.
OthersStay(i) ==
  \A ids \in Types : \A p : p[2] \in Id \ {i} =>
    (p \in Places(row', ids) <=> p \in Places(row, ids))

LEMMA FlatUpsert ==
  ASSUME Flat, TInv, Tree(row), NEW i \in Id, NEW p \in Parents(i), Upsert(i, p),
         \/ ~Exists(i)
         \/ Exists(i) /\ ((p # row[i].parent /\ Subtree(i) \cap Folder # {i} /\ i \in Folder)
                            => "moveSubtree" \in Change)
  PROVE  \E r \in RowType : Writes(i, r) /\ Tree(row') /\ OthersStay(i)
<1> DEFINE r == [version |-> row[i].version + 1, parent |-> p]
<1>1. /\ r \in RowType /\ r.version > 0
      /\ p # 0 => p # i /\ Exists(p)
      /\ row' = [row EXCEPT ![i] = r]
      /\ Len(log') = Len(log) + 1
      /\ \A n \in 1 .. Len(log) : log'[n] = log[n]
      /\ log'[Len(log) + 1] = Entry(i, "upsert", r)
  BY UpsertTyped, Zenon
<1>2. r.version = row[i].version + 1 /\ r.parent = p /\ r = [version |-> r.version, parent |-> r.parent]
  OBVIOUS
<1> HIDE DEF r
<1>3. Writes(i, r)
  <2>1. UNCHANGED <<page, clientVars>>
    BY DEF Upsert
  <2>2. /\ Entry(i, "upsert", r).id = i /\ Entry(i, "upsert", r).op = "upsert"
        /\ Told(Entry(i, "upsert", r)) = r
    BY <1>2 DEF Entry, Told
  <2> QED BY <1>1, <1>2, <2>1, <2>2 DEF Writes
<1>4. row \in [Id -> RowType] /\ row' \in [Id -> RowType] /\ Folder \subseteq Id /\ 0 \notin Id
  BY <1>1, Numbers DEF TInv
<1>5. row'[i] = r /\ \A j \in Id \ {i} : row'[j] = row[j]
  BY <1>1, <1>4
<1>6. \A n \in 0 .. Cardinality(Folder) : \A f \in Folder \ {i} :
        f \in LevelsOf(row')[n] <=> f \in LevelsOf(row)[n]
  <2>1. CASE i \notin Folder
    <3>1. \A f \in Folder : /\ There(row', f) <=> There(row, f)
                            /\ There(row, f) => row'[f].parent = row[f].parent
      BY <1>4, <1>5, <2>1 DEF There
    <3> QED BY <1>4, <3>1, SameLevels
  <2>2. CASE i \in Folder /\ Exists(i) /\ p = row[i].parent
    <3>1. \A f \in Folder : /\ There(row', f) <=> There(row, f)
                            /\ There(row, f) => row'[f].parent = row[f].parent
      BY <1>1, <1>2, <1>4, <1>5, <2>2 DEF There, Exists
    <3> QED BY <1>4, <3>1, SameLevels
  <2>3. CASE i \in Folder /\ (Exists(i) => p # row[i].parent)
    <3>1. \A f \in Folder \ {i} : There(row, f) => row[f].parent # i
      <4>1. CASE ~Exists(i)
        BY <1>4, <4>1 DEF Tree, Exists, There
      <4>2. CASE Exists(i)
        <5>1. Subtree(i) \cap Folder = {i}
          BY <2>3, <4>2 DEF Flat
        <5>2. Inside({i}) \subseteq Subtree(i)
          BY SubtreeFacts
        <5> QED BY <1>4, <5>1, <5>2 DEF Inside, Exists, There
      <4> QED BY <4>1, <4>2
    <3> QED BY <1>1, <1>4, <2>3, <3>1, LeafLevels
  <2> QED BY <2>1, <2>2, <2>3
<1>7. Tree(row')
  BY UpsertTree
<1>8. OthersStay(i)
  <2>1. \A j \in Id \ {i} : There(row', j) <=> There(row, j)
    BY <1>5 DEF There
  <2> SUFFICES ASSUME NEW ids \in Types
               PROVE  \A q : q[2] \in Id \ {i} => (q \in Places(row', ids) <=> q \in Places(row, ids))
    BY DEF OthersStay
  <2>2. \A j \in ids \cap (Id \ {i}) : There(row', j) <=> There(row, j)
    BY <2>1
  <2>3. \A n \in 0 .. Cardinality(Folder) : \A f \in Folder \cap (Id \ {i}) :
          f \in LevelsOf(row')[n] <=> f \in LevelsOf(row)[n]
    BY <1>6
  <2> QED BY <1>4, <2>2, <2>3, SamePlaces
<1> QED BY <1>1, <1>3, <1>7, <1>8

LEMMA FlatDelete ==
  ASSUME TInv, Tree(row), NEW i \in Id, i \notin Folder, Delete(i)
  PROVE  Writes(i, NoRow) /\ Tree(row') /\ OthersStay(i)
<1>1. row \in [Id -> RowType] /\ Folder \subseteq Id /\ 0 \notin Id
  BY Numbers DEF TInv
<1>2. Subtree(i) = {i}
  <2>1. Inside({i}) = {}
    BY <1>1, ParentsAre DEF Inside
  <2> QED BY <2>1, SubtreeFacts
<1> DEFINE e == Entry(i, "delete", row[i])
<1>3. Tombstones({i}) = [k \in 1 .. 1 |-> e]
  <2>1. Cardinality({i}) = 1
    BY FS_Singleton
  <2>2. PICK s \in [1 .. 1 -> {i}] :
          Tombstones({i}) = [k \in 1 .. 1 |-> Entry(s[k], "delete", row[s[k]])]
    <3>1. {i} \subseteq Id /\ \A j \in {i} : Exists(j)
      BY DEF Delete
    <3> QED BY <2>1, <3>1, TombstonesAre
  <2>3. \A k \in 1 .. 1 : Entry(s[k], "delete", row[s[k]]) = e
    BY <2>2
  <2> QED BY <2>2, <2>3, Zenon
<1>4. log' = log \o Tombstones({i}) /\ UNCHANGED <<page, clientVars>>
      /\ row' = [j \in Id |-> IF j \in {i} THEN NoRow ELSE row[j]]
  BY <1>2 DEF Delete
<1>5. e.id = i /\ e.op = "delete"
  BY DEF Entry
<1> HIDE DEF e
<1>6. Tombstones({i}) \in [1 .. 1 -> {e}]
  BY <1>3
<1>7. PICK X : log \in Seq(X)
  BY DEF TInv, LogTyped
<1>8. /\ Len(log) \in Nat /\ Len(log') = Len(log) + 1
      /\ \A n \in 1 .. Len(log') : log'[n] = IF n <= Len(log) THEN log[n] ELSE Tombstones({i})[n - Len(log)]
  BY <1>4, <1>6, <1>7, LogExtends
<1>9. /\ \A n \in 1 .. Len(log) : log'[n] = log[n]
      /\ log'[Len(log) + 1] = e
  <2>1. Len(log) + 1 \in 1 .. Len(log') /\ ~(Len(log) + 1 <= Len(log)) /\ (Len(log) + 1) - Len(log) = 1
    BY <1>8
  <2>2. Tombstones({i})[1] = e
    BY <1>3
  <2> QED BY <1>8, <2>1, <2>2
<1>10. row' = [row EXCEPT ![i] = NoRow] /\ row' \in [Id -> RowType]
  BY <1>1, <1>4, RowsTyped
<1>11. Writes(i, NoRow)
  BY <1>4, <1>5, <1>8, <1>9, <1>10 DEF Writes
<1>12. row'[i] = NoRow /\ \A j \in Id \ {i} : row'[j] = row[j]
  BY <1>1, <1>10
<1>13. \A n \in 0 .. Cardinality(Folder) : \A f \in Folder :
         f \in LevelsOf(row')[n] <=> f \in LevelsOf(row)[n]
  <2>1. \A f \in Folder : /\ There(row', f) <=> There(row, f)
                          /\ There(row, f) => row'[f].parent = row[f].parent
    BY <1>1, <1>12 DEF There
  <2> QED BY <1>1, <1>10, <2>1, SameLevels
<1>14. Tree(row')
  BY DeleteTree
<1>15. OthersStay(i)
  <2>1. \A j \in Id \ {i} : There(row', j) <=> There(row, j)
    BY <1>12 DEF There
  <2> SUFFICES ASSUME NEW ids \in Types
               PROVE  \A q : q[2] \in Id \ {i} => (q \in Places(row', ids) <=> q \in Places(row, ids))
    BY DEF OthersStay
  <2>2. \A j \in ids \cap (Id \ {i}) : There(row', j) <=> There(row, j)
    BY <2>1
  <2>3. \A n \in 0 .. Cardinality(Folder) : \A f \in Folder \cap (Id \ {i}) :
          f \in LevelsOf(row')[n] <=> f \in LevelsOf(row)[n]
    BY <1>13
  <2> QED BY <1>1, <1>10, <2>2, <2>3, SamePlaces
<1> QED BY <1>11, <1>14, <1>15
LEMMA FlatWrite ==
  ASSUME Flat, TInv, Tree(row), Writer
  PROVE  \E i \in Id, r \in RowType : Writes(i, r) /\ Tree(row') /\ OthersStay(i)
<1>1. PICK i \in Id :
        \/ "create" \in Change /\ Create(i)
        \/ "edit" \in Change /\ Edit(i)
        \/ (IF i \in Folder THEN "deleteFolder" ELSE "delete") \in Change /\ Delete(i)
  BY DEF Writer
<1>2. CASE Create(i)
  <2>1. PICK p \in Parents(i) : ~Exists(i) /\ Upsert(i, p)
    BY <1>2 DEF Create
  <2> QED BY <2>1, FlatUpsert
<1>3. CASE Edit(i)
  <2>1. PICK p \in Parents(i) :
          /\ Exists(i) /\ Upsert(i, p)
          /\ (p # row[i].parent /\ Subtree(i) \cap Folder # {i} /\ i \in Folder) => "moveSubtree" \in Change
    BY <1>3 DEF Edit
  <2> QED BY <2>1, FlatUpsert
<1>4. CASE Delete(i) /\ i \notin Folder
  BY <1>4, FlatDelete, RowsTyped
<1> QED BY <1>1, <1>2, <1>3, <1>4 DEF Flat

\* What a write does to the terms of ConvInv.
LEMMA WriteFacts ==
  ASSUME TInv, NEW i \in Id, NEW r \in RowType, Writes(i, r), OthersStay(i)
  PROVE  /\ Len(log) \in Nat
         /\ row'[i] = r /\ \A j \in Id \ {i} : row'[j] = row[j]
         /\ \A k \in 0 .. Len(log) : Touched(log', i, k)
         /\ \A j \in Id \ {i}, k \in Nat : Touched(log, j, k) <=> Touched(log', j, k)
         /\ \A j \in Id, k \in 0 .. Len(log), s \in RowType :
              Behind(row, log, s, j, k) => Behind(row', log', s, j, k)
         /\ \A j \in Id, cur \in CursorType :
              cur.c <= Len(log) /\ Due(row', log', j, cur) => j # i /\ Due(row, log, j, cur)
<1> DEFINE L == Len(log)
<1>1. /\ L \in Nat /\ row \in [Id -> RowType] /\ Len(log') = L + 1
      /\ \A n \in 1 .. L : log'[n] = log[n]
      /\ log'[L + 1].id = i
      /\ row' = [row EXCEPT ![i] = r]
  BY DEF TInv, LogTyped, Writes
<1>2. row'[i] = r /\ \A j \in Id \ {i} : row'[j] = row[j]
  BY <1>1
<1> HIDE DEF L
<1>3. ASSUME NEW k \in 0 .. L PROVE Touched(log', i, k)
  <2>1. L + 1 \in k + 1 .. Len(log')
    BY <1>1
  <2> QED BY <1>1, <2>1 DEF Touched
<1>4. ASSUME NEW j, NEW k \in Nat
      PROVE  /\ j # i => (Touched(log, j, k) <=> Touched(log', j, k))
             /\ j # i => (Deleted(log, j, k) <=> Deleted(log', j, k))
             /\ Deleted(log, j, k) => Deleted(log', j, k)
  <2>1. \A n \in k + 1 .. L : n \in k + 1 .. Len(log') /\ log'[n] = log[n]
    BY <1>1
  <2>2. \A n \in k + 1 .. Len(log') : n \in k + 1 .. L \/ n = L + 1
    BY <1>1
  <2>3. Touched(log, j, k) => Touched(log', j, k)
    BY <2>1 DEF Touched, L
  <2>4. Deleted(log, j, k) => Deleted(log', j, k)
    BY <2>1 DEF Deleted, L
  <2>5. j # i => (Touched(log', j, k) => Touched(log, j, k))
    BY <1>1, <2>1, <2>2 DEF Touched, L
  <2>6. j # i => (Deleted(log', j, k) => Deleted(log, j, k))
    BY <1>1, <2>1, <2>2 DEF Deleted, L
  <2> QED BY <2>3, <2>4, <2>5, <2>6
<1>5. ASSUME NEW j \in Id, NEW k \in 0 .. L, NEW s \in RowType, Behind(row, log, s, j, k)
      PROVE  Behind(row', log', s, j, k)
  <2>1. k \in Nat
    BY <1>1
  <2>2. CASE j # i
    BY <1>2, <1>4, <1>5, <2>1, <2>2 DEF Behind
  <2>3. CASE j = i /\ log'[L + 1].op = "delete"
    <3>1. L + 1 \in k + 1 .. Len(log')
      BY <1>1
    <3>2. Deleted(log', i, k)
      BY <1>1, <2>3, <3>1 DEF Deleted
    <3> QED BY <2>3, <3>2 DEF Behind
  <2>4. CASE j = i /\ log'[L + 1].op # "delete"
    <3>1. r.version = row[i].version + 1 /\ row[i].version \in Nat /\ s.version \in Nat
      BY <1>1, <2>4 DEF Writes, L, RowType
    <3>2. s.version < row[i].version \/ s = row[i] => s.version < row'[i].version
      BY <1>2, <3>1
    <3> QED BY <1>4, <1>5, <2>1, <2>4, <3>2 DEF Behind
  <2> QED BY <2>2, <2>3, <2>4
<1>6. ASSUME NEW j \in Id, NEW cur \in CursorType, cur.c <= L, Due(row', log', j, cur)
      PROVE  j # i /\ Due(row, log, j, cur)
  <2>1. cur.c \in 0 .. L /\ cur.c \in Nat /\ cur.t \in 1 .. 4
    BY <1>1, <1>6 DEF CursorType
  <2>2. j # i
    BY <1>3, <1>6, <2>1 DEF Due
  <2>3. There(row, j) /\ ~Touched(log, j, cur.c)
    BY <1>2, <1>4, <1>6, <2>1, <2>2 DEF Due, There
  <2>4. Covered(row, j, cur)
    <3>1. CASE TypeNo(j) < cur.t
      BY <3>1 DEF Covered
    <3>2. CASE TypeNo(j) = cur.t
      <4>1. SNAPSHOT_ORDER[cur.t] \in Types
        BY <3>2, SnapshotTypes
      <4>2. ~(TypeNo(j) < cur.t)
        BY <2>1, <3>2
      <4>3. PICK p \in Places(row', SNAPSHOT_ORDER[cur.t]) : p[2] = j /\ ~Earlier(cur.a, p)
        BY <1>6, <4>2 DEF Due, Covered
      <4>4. p \in Places(row, SNAPSHOT_ORDER[cur.t])
        BY <2>2, <4>1, <4>3 DEF OthersStay
      <4> QED BY <3>2, <4>3, <4>4 DEF Covered
    <3> QED BY <1>6, <3>1, <3>2 DEF Due, Covered
  <2> QED BY <1>6, <2>2, <2>3, <2>4 DEF Due
<1> QED BY <1>1, <1>2, <1>3, <1>4, <1>5, <1>6 DEF L

LEMMA WriteInv ==
  ASSUME TInv, ConvInv, NEW i \in Id, NEW r \in RowType, Writes(i, r), Tree(row'), OthersStay(i)
  PROVE  ConvInv'
<1> DEFINE L == Len(log)
<1>1. /\ L \in Nat
      /\ row'[i] = r /\ \A j \in Id \ {i} : row'[j] = row[j]
      /\ \A k \in 0 .. L : Touched(log', i, k)
      /\ \A j \in Id \ {i}, k \in Nat : Touched(log, j, k) <=> Touched(log', j, k)
  BY WriteFacts
<1>2. \A j \in Id, k \in 0 .. L, s \in RowType :
         Behind(row, log, s, j, k) => Behind(row', log', s, j, k)
  BY WriteFacts
<1>3. \A j \in Id, cur \in CursorType :
         cur.c <= L /\ Due(row', log', j, cur) => j # i /\ Due(row, log, j, cur)
  BY WriteFacts
<1>4. page' = page /\ phase' = phase /\ cursor' = cursor /\ store' = store /\ pulled' = pulled
  BY DEF Writes, clientVars
<1>5. /\ row \in [Id -> RowType] /\ store \in [Id -> RowType] /\ cursor \in CursorType
      /\ page.cur \in CursorType /\ page.buf \subseteq ItemType
      /\ cursor.c \in 0 .. L /\ page.cur.c \in 0 .. L /\ pulled \in 0 .. L
  BY <1>1, PageParts DEF TInv, CursorType
<1>6. Tells(row', log')
  <2>1. ASSUME NEW j \in Id, ~Touched(log', j, 0) PROVE row'[j] = NoRow
    <3>1. j # i
      BY <1>1, <2>1
    <3> QED BY <1>1, <2>1, <3>1 DEF ConvInv, Tells
  <2>2. ASSUME NEW n \in 1 .. L, NEW j, j = log[n].id
        PROVE  /\ j \in Id
               /\ ~Touched(log', j, n) => row'[j] = IF log[n].op = "delete" THEN NoRow ELSE Told(log[n])
               /\ log[n].op # "delete" => Behind(row', log', Told(log[n]), j, n)
    <3>1. /\ j \in Id
          /\ ~Touched(log, j, n) => row[j] = IF log[n].op = "delete" THEN NoRow ELSE Told(log[n])
          /\ log[n].op # "delete" => Behind(row, log, Told(log[n]), j, n)
      BY <2>2 DEF ConvInv, Tells, L
    <3>2. n \in 0 .. L /\ n \in Nat
      BY <1>1
    <3>3. ~Touched(log', j, n) => j # i
      BY <1>1, <3>2
    <3>4. log[n].op # "delete" => Told(log[n]) \in RowType
      <4>1. ASSUME NEW e \in UpsertType PROVE Told(e) \in RowType
        BY DEF UpsertType, Told, RowType
      <4> QED BY <4>1 DEF TInv, LogTyped, L
    <3> QED BY <1>1, <1>2, <3>1, <3>2, <3>3, <3>4
  <2>3. /\ Len(log') = L + 1 /\ \A n \in 1 .. L : log'[n] = log[n]
        /\ log'[L + 1].id = i
        /\ r = IF log'[L + 1].op = "delete" THEN NoRow ELSE Told(log'[L + 1])
    BY DEF Writes
  <2>4. \A n \in 1 .. Len(log') : n \in 1 .. L \/ n = L + 1
    BY <1>1, <2>3
  <2>5. log'[L + 1].op # "delete" => Behind(row', log', Told(log'[L + 1]), i, L + 1)
    BY <1>1, <2>3 DEF Behind
  <2> HIDE DEF L
  <2>6. ASSUME NEW n \in 1 .. Len(log')
        PROVE  /\ log'[n].id \in Id
               /\ ~Touched(log', log'[n].id, n) =>
                    row'[log'[n].id] = IF log'[n].op = "delete" THEN NoRow ELSE Told(log'[n])
               /\ log'[n].op # "delete" => Behind(row', log', Told(log'[n]), log'[n].id, n)
    <3>1. CASE n \in 1 .. L
      <4>1. log'[n] = log[n]
        BY <2>3, <3>1
      <4> QED BY <2>2, <3>1, <4>1
    <3>2. CASE n = L + 1
      BY <1>1, <2>3, <2>5, <3>2
    <3> QED BY <2>4, <3>1, <3>2
  <2> QED BY <2>1, <2>6 DEF Tells
<1> HIDE DEF L
<1>7. StoreInv'
  <2>1. \A j \in Id : ~Vis(j) => store[j] = NoRow
    BY DEF ConvInv, StoreInv
  <2>2. phase = "new" => \A j \in Id : store[j] = NoRow
    BY DEF ConvInv, StoreInv
  <2>3. ASSUME phase = "paging", NEW j \in Id
        PROVE  /\ Behind(row', log', store[j], j, cursor.c)
               /\ Due(row', log', j, cursor) => store[j] = row'[j]
    <3>1. Behind(row, log, store[j], j, cursor.c) /\ (Due(row, log, j, cursor) => store[j] = row[j])
      BY <2>3 DEF ConvInv, StoreInv
    <3>2. Behind(row', log', store[j], j, cursor.c)
      BY <1>2, <1>5, <3>1
    <3>3. Due(row', log', j, cursor) => j # i /\ Due(row, log, j, cursor)
      BY <1>1, <1>3, <1>5
    <3> QED BY <1>1, <3>1, <3>2, <3>3
  <2>4. ASSUME phase = "pulling", NEW j \in Id, Vis(j)
        PROVE  /\ Behind(row', log', store[j], j, pulled)
               /\ ~Touched(log', j, pulled) => store[j] = row'[j]
    <3>1. Behind(row, log, store[j], j, pulled) /\ (~Touched(log, j, pulled) => store[j] = row[j])
      BY <2>4 DEF ConvInv, StoreInv
    <3>2. Behind(row', log', store[j], j, pulled)
      BY <1>2, <1>5, <3>1
    <3>3. ~Touched(log', j, pulled) => j # i /\ ~Touched(log, j, pulled)
      BY <1>1, <1>5
    <3> QED BY <1>1, <3>1, <3>2, <3>3
  <2> QED BY <1>4, <2>1, <2>2, <2>3, <2>4 DEF StoreInv, Vis
<1>8. PageInv'
  <2> SUFFICES ASSUME page.pc # "off"
               PROVE  /\ phase = "paging" => page.cur.c = cursor.c
                      /\ \A e \in page.buf : Vis(e.id) /\ Behind(row', log', e.state, e.id, page.cur.c)
                      /\ \A j \in Id : Due(row', log', j, page.cur) =>
                           store[j] = row'[j] \/ [id |-> j, state |-> row'[j]] \in page.buf
    BY <1>4 DEF PageInv, Vis
  <2>1. /\ phase = "paging" => page.cur.c = cursor.c
        /\ \A e \in page.buf : Vis(e.id) /\ Behind(row, log, e.state, e.id, page.cur.c)
        /\ \A j \in Id : Due(row, log, j, page.cur) =>
             store[j] = row[j] \/ [id |-> j, state |-> row[j]] \in page.buf
    BY DEF ConvInv, PageInv
  <2>2. \A e \in page.buf : e.id \in Id /\ e.state \in RowType
    BY <1>5 DEF ItemType
  <2>3. \A e \in page.buf : Vis(e.id) /\ Behind(row', log', e.state, e.id, page.cur.c)
    BY <1>2, <1>5, <2>1, <2>2
  <2>4. \A j \in Id : Due(row', log', j, page.cur) => j # i /\ Due(row, log, j, page.cur)
    BY <1>1, <1>3, <1>5
  <2> QED BY <1>1, <2>1, <2>3, <2>4
<1>9. FoundInv'
  <2> SUFFICES ASSUME page.pc = "rows"
               PROVE  /\ \A p \in Places(row', Type) : ~Touched(log', p[2], page.cur.c) =>
                           \/ ~Earlier(page.cur.a, p)
                           \/ p \in page.found
                           \/ Cardinality(page.found) > Remaining /\ \A q \in page.found : Earlier(q, p)
                      /\ \A p \in page.found : row'[p[2]].version > 0
    BY <1>4 DEF FoundInv, Reaches, Type, Remaining, Exists
  <2>1. /\ Reaches(page.found) /\ \A p \in page.found : Exists(p[2])
        /\ page.found \subseteq Nat \X Folder
    BY DEF ConvInv, FoundInv, TInv, PageTyped
  <2>2. Type \in Types /\ \A p \in Nat \X Type : p[2] \in Id
    <3>1. page.cur.t \in 1 .. 3
      BY PageParts DEF TInv, PageTyped
    <3>2. Type \in Types
      BY <3>1, SnapshotTypes DEF Type
    <3> QED BY <3>2, Numbers DEF Types
  <2>3. row' \in [Id -> RowType]
    BY <1>5 DEF Writes
  <2>4. ASSUME NEW p \in Places(row', Type), ~Touched(log', p[2], page.cur.c)
        PROVE  \/ ~Earlier(page.cur.a, p)
               \/ p \in page.found
               \/ Cardinality(page.found) > Remaining /\ \A q \in page.found : Earlier(q, p)
    <3>1. p[2] \in Id
      BY <2>2, <2>3, PlacesFacts
    <3>2. p[2] # i
      BY <1>1, <1>5, <2>4
    <3>3. p \in Places(row, Type)
      BY <2>2, <3>1, <3>2 DEF OthersStay
    <3>4. page.cur.c \in Nat
      BY <1>1, <1>5
    <3>5. ~Touched(log, p[2], page.cur.c)
      BY <1>1, <2>4, <3>1, <3>2, <3>4
    <3> QED BY <2>1, <3>3, <3>5 DEF Reaches
  <2>5. ASSUME NEW p \in page.found PROVE row'[p[2]].version > 0
    <3>1. p[2] \in Folder /\ p[2] \in Id /\ row[p[2]].version > 0 /\ row[p[2]].version \in Nat
      BY <1>5, <2>1, Numbers DEF Exists, RowType
    <3>2. CASE p[2] # i
      BY <1>1, <3>1, <3>2
    <3>3. CASE p[2] = i
      <4>1. r.version = row[i].version + 1
        BY <3>1, <3>3 DEF Writes
      <4> QED BY <1>1, <3>1, <3>3, <4>1
    <3> QED BY <3>2, <3>3
  <2> QED BY <2>4, <2>5
<1> QED BY <1>6, <1>7, <1>8, <1>9 DEF ConvInv

-----------------------------------------------------------------------------
(* readSnapshotPage *)

LEMMA PagesKeep ==
  ASSUME ConvInv, UNCHANGED <<serverVars, clientVars>>, PageInv', FoundInv'
  PROVE  ConvInv'
<1>1. /\ row' = row /\ log' = log
      /\ phase' = phase /\ cursor' = cursor /\ store' = store /\ pulled' = pulled
  BY DEF serverVars, clientVars
<1>2. Tree(row') /\ Tells(row', log')
  BY <1>1 DEF ConvInv
<1>3. StoreInv'
  BY <1>1 DEF ConvInv, StoreInv, Vis
<1> QED BY <1>2, <1>3 DEF ConvInv

LEMMA StartIsFirst ==
  ASSUME row \in [Id -> RowType], NEW ids \in Types, NEW p \in Places(row, ids)
  PROVE  Earlier(Start, p)
<1>1. p[1] \in Nat /\ p[2] \in ids
  BY PlacesFacts
<1>2. p[2] \in Nat /\ p[2] > 0
  <2>1. p[2] \in Id
    BY <1>1, Numbers DEF Types
  <2>2. p[2] \in Nat /\ p[2] # 0
    BY <2>1, Numbers
  <2> QED BY <2>2
<1>3. Start[1] = 0 /\ Start[2] = 0
  BY DEF Start
<1> QED BY <1>1, <1>2, <1>3 DEF Earlier

\* What the next type adds to what is due: the rest of this one.
LEMMA NextDue ==
  ASSUME TInv, Tree(row), page.cur.t <= 3, NEW i \in Id, Due(row, log, i, NextType)
  PROVE  \/ Due(row, log, i, page.cur)
         \/ /\ i \in Type /\ Vis(i) /\ ~Touched(log, i, page.cur.c)
            /\ \E p \in Places(row, Type) : p[2] = i /\ Earlier(page.cur.a, p)
<1> DEFINE t == page.cur.t
<1>1. /\ row \in [Id -> RowType] /\ t \in 1 .. 3
      /\ NextType.c = page.cur.c /\ NextType.t = t + 1 /\ NextType.a = Start
  BY NextTypeTyped, PageParts DEF TInv
<1>2. Vis(i) /\ There(row, i) /\ ~Touched(log, i, page.cur.c) /\ Covered(row, i, NextType)
  BY <1>1 DEF Due
<1>3. TypeNo(i) \in 1 .. 3 /\ (i \in Type <=> TypeNo(i) = t)
  BY <1>1, SnapshotTypes DEF Type
<1> HIDE DEF t
<1>4. TypeNo(i) <= t
  <2>1. CASE TypeNo(i) = t + 1
    <3>1. SNAPSHOT_ORDER[t + 1] \in Types
      BY <1>3, <2>1, SnapshotTypes
    <3>2. ~(TypeNo(i) < t + 1)
      BY <1>3, <2>1
    <3>3. PICK p \in Places(row, SNAPSHOT_ORDER[t + 1]) : ~Earlier(Start, p)
      BY <1>1, <1>2, <3>2 DEF Covered
    <3> QED BY <1>1, <3>1, <3>3, StartIsFirst
  <2>2. CASE TypeNo(i) # t + 1
    <3>1. TypeNo(i) < t + 1
      BY <1>1, <1>2, <2>2 DEF Covered
    <3> QED BY <1>1, <1>3, <3>1
  <2> QED BY <2>1, <2>2
<1>5. CASE TypeNo(i) < t
  BY <1>2, <1>5 DEF Due, Covered, t
<1>6. CASE TypeNo(i) = t
  <2>1. i \in Type /\ Type \in Types
    BY <1>1, <1>3, <1>6, SnapshotTypes DEF Type, t
  <2>2. PICK p \in Places(row, Type) : p[2] = i
    BY <1>1, <1>2, <2>1, PlacesFacts DEF Tree
  <2>3. CASE Earlier(page.cur.a, p)
    BY <1>2, <2>1, <2>2, <2>3
  <2>4. CASE ~Earlier(page.cur.a, p)
    BY <1>2, <1>6, <2>2, <2>4 DEF Due, Covered, Type, t
  <2> QED BY <2>3, <2>4
<1> QED BY <1>1, <1>3, <1>4, <1>5, <1>6

LEMMA FirstReaches ==
  ASSUME TInv, page.cur.t <= 3, Remaining > 0
  PROVE  /\ Reaches(First(Remaining + 1, After(page.cur.a, Type)))
         /\ \A p \in First(Remaining + 1, After(page.cur.a, Type)) : Exists(p[2])
<1> DEFINE S == After(page.cur.a, Type)
           F == First(Remaining + 1, S)
<1>1. /\ Type \in Types /\ S \subseteq Positions(Type) /\ IsFiniteSet(S) /\ S \subseteq Pair /\ F \subseteq S
      /\ Positions(Type) = Places(row, Type) /\ row \in [Id -> RowType]
  BY AfterFacts, PositionsAre, Zenon DEF TInv
<1>2. Remaining \in Nat
  BY PageParts, Numbers DEF Remaining, TInv
<1>3. IsFiniteSet(F)
  BY <1>1, FS_Subset
<1>4. Cardinality(F) \in Nat
  BY <1>3, FS_CardinalityType
<1>5. ASSUME NEW p \in Places(row, Type), Earlier(page.cur.a, p), p \notin F
      PROVE  Cardinality(F) > Remaining /\ \A q \in F : Earlier(q, p)
  <2>1. p \in S
    BY <1>1, <1>5 DEF After
  <2> HIDE DEF S
  <2>2. Remaining + 1 \in Nat
    BY <1>2
  <2>3. \A q \in F : Earlier(q, p)
    BY <1>1, <1>5, <2>1, <2>2, FirstComeFirst
  <2>4. Cardinality(F) <= Remaining => F = S
    BY <1>1, <1>2, NoneIsLeft
  <2> QED BY <1>2, <1>4, <1>5, <2>1, <2>3, <2>4
<1>6. \A p \in F : Exists(p[2])
  BY <1>1, PlacesFacts DEF Exists, There
<1> HIDE DEF F
<1> QED BY <1>5, <1>6 DEF Reaches, F

\* The rows read in one statement go over nothing that is due.
LEMMA TakesConv ==
  ASSUME TInv, ConvInv, page.cur.t <= 3, page.pc \in {"fetch", "rows"},
         UNCHANGED <<serverVars, clientVars>>, \A i \in Type : Vis(i),
         NEW found, found \subseteq Nat \X Type, IsFiniteSet(found), Reaches(found),
         NEW W, Takes(found, W)
  PROVE  ConvInv'
<1>1. /\ PageTyped(page) /\ row \in [Id -> RowType] /\ Tree(row) /\ page.cur.t \in 1 .. 3
      /\ IsFiniteSet(W) /\ W \subseteq found /\ \A q \in W, p \in found \ W : Earlier(q, p)
  <2>1. IsFiniteSet(W)
    BY FS_Subset DEF Takes
  <2> QED BY <2>1, PageParts DEF TInv, ConvInv, Takes
<1>2. Type \in Types /\ found \subseteq Pair /\ W \subseteq Pair /\ \A p \in W : p[2] \in Type
  <2>1. Type \in Types
    BY <1>1, SnapshotTypes DEF Type
  <2>2. Type \subseteq Nat
    BY <2>1, Numbers DEF Types
  <2>3. found \subseteq Pair
    BY <2>2 DEF Pair
  <2>4. W \subseteq Nat \X Type /\ W \subseteq Pair
    BY <1>1, <2>3
  <2> QED BY <2>1, <2>3, <2>4
<1>3. /\ page'.buf = page.buf \cup Put(W)
      /\ \/ page'.pc = "more" /\ page'.cur = Onward(W)
         \/ /\ page'.pc = "fetch" /\ page'.cur = NextType
            /\ W = found /\ Cardinality(found) <= Remaining
  BY DEF Takes
<1>4. /\ phase = "paging" => page.cur.c = cursor.c
      /\ \A e \in page.buf : Vis(e.id) /\ Behind(row, log, e.state, e.id, page.cur.c)
      /\ \A i \in Id : Due(row, log, i, page.cur) =>
           store[i] = row[i] \/ [id |-> i, state |-> row[i]] \in page.buf
  BY DEF ConvInv, PageInv
<1>5. page'.cur.c = page.cur.c
  BY <1>1, <1>2, <1>3, OnwardTyped, NextTypeTyped
<1>6. \A e \in Put(W) : Vis(e.id) /\ Behind(row, log, e.state, e.id, page.cur.c)
  <2> SUFFICES ASSUME NEW p \in W
               PROVE  LET e == [id |-> p[2], state |-> row[p[2]]]
                      IN  Vis(e.id) /\ Behind(row, log, e.state, e.id, page.cur.c)
    BY DEF Put
  <2> QED BY <1>2 DEF Behind
<1>7. ASSUME NEW i \in Id, Due(row, log, i, page'.cur)
      PROVE  store[i] = row[i] \/ [id |-> i, state |-> row[i]] \in page'.buf
  <2>1. Due(row, log, i, page.cur) => store[i] = row[i] \/ [id |-> i, state |-> row[i]] \in page'.buf
    BY <1>3, <1>4
  <2>2. ASSUME NEW p \in W, p[2] = i PROVE [id |-> i, state |-> row[i]] \in page'.buf
    BY <1>3, <2>2 DEF Put
  <2>3. ASSUME NEW p \in Places(row, Type), p[2] = i, Earlier(page.cur.a, p)
        PROVE  p \in found \/ (Cardinality(found) > Remaining /\ \A q \in found : Earlier(q, p))
    BY <1>5, <1>7, <2>3 DEF Reaches, Due
  <2>4. CASE page'.cur = Onward(W)
    <3>1. /\ page'.cur.t = page.cur.t
          /\ page'.cur.a = IF W = {} THEN page.cur.a ELSE LastOf(W)
      BY <1>1, <1>2, <2>4, OnwardTyped
    <3>2. CASE TypeNo(i) < page.cur.t
      BY <1>5, <1>7, <2>1, <3>2 DEF Due, Covered
    <3>3. CASE ~(TypeNo(i) < page.cur.t)
      <4>1. PICK p \in Places(row, Type) : p[2] = i /\ ~Earlier(page'.cur.a, p)
        BY <1>7, <3>1, <3>3 DEF Due, Covered, Type
      <4>2. TypeNo(i) = page.cur.t
        BY <1>7, <3>1, <3>3 DEF Due, Covered
      <4>3. CASE ~Earlier(page.cur.a, p)
        BY <1>5, <1>7, <2>1, <4>1, <4>2, <4>3 DEF Due, Covered, Type
      <4>4. CASE Earlier(page.cur.a, p)
        <5>1. W # {} /\ LastOf(W) \in W /\ ~Earlier(LastOf(W), p)
          BY <1>1, <1>2, <3>1, <4>1, <4>4, LastIsLast
        <5>2. p \in found
          BY <1>1, <2>3, <4>1, <4>4, <5>1
        <5>3. p \in W
          BY <1>1, <5>1, <5>2
        <5> QED BY <2>2, <4>1, <5>3
      <4> QED BY <4>3, <4>4
    <3> QED BY <3>2, <3>3
  <2>5. CASE page'.cur = NextType /\ W = found /\ Cardinality(found) <= Remaining
    <3>1. CASE Due(row, log, i, page.cur)
      BY <2>1, <3>1
    <3>2. CASE ~Due(row, log, i, page.cur)
      <4>1. PICK p \in Places(row, Type) : p[2] = i /\ Earlier(page.cur.a, p)
        BY <1>1, <1>7, <2>5, <3>2, NextDue
      <4>2. Cardinality(found) \in Nat /\ Remaining \in Int
        BY <1>1, PageParts, Numbers, FS_CardinalityType DEF Remaining
      <4>3. p \in W
        BY <2>3, <2>5, <4>1, <4>2
      <4> QED BY <2>2, <4>1, <4>3
    <3> QED BY <3>1, <3>2
  <2> QED BY <1>3, <2>4, <2>5
<1>8. /\ row' = row /\ log' = log /\ phase' = phase /\ cursor' = cursor /\ store' = store
  BY DEF serverVars, clientVars
<1>9. PageInv'
  <2>1. \A e \in page'.buf : Vis(e.id) /\ Behind(row, log, e.state, e.id, page'.cur.c)
    BY <1>3, <1>4, <1>5, <1>6
  <2> QED BY <1>4, <1>5, <1>7, <1>8, <2>1 DEF PageInv, Vis
<1>10. FoundInv'
  BY <1>3 DEF FoundInv
<1> QED BY <1>9, <1>10, PagesKeep

LEMMA ServerConv ==
  ASSUME TInv, ConvInv, ServerStep
  PROVE  ConvInv'
<1>1. /\ PageTyped(page) /\ row \in [Id -> RowType] /\ Tree(row)
      /\ \A i \in Id : Due(row, log, i, page.cur) =>
           store[i] = row[i] \/ [id |-> i, state |-> row[i]] \in page.buf \/ page.pc = "off"
      /\ page.pc # "off" =>
           /\ phase = "paging" => page.cur.c = cursor.c
           /\ \A e \in page.buf : Vis(e.id) /\ Behind(row, log, e.state, e.id, page.cur.c)
  BY DEF TInv, ConvInv, PageInv
<1>2. ASSUME SkipType \/ Peek \/ FetchFolderOrder,
             page'.cur.c = page.cur.c, page'.buf = page.buf,
             \A i \in Id : Due(row, log, i, page'.cur) => Due(row, log, i, page.cur)
      PROVE  PageInv'
  <2>1. /\ row' = row /\ log' = log /\ phase' = phase /\ cursor' = cursor /\ store' = store
        /\ page.pc = "fetch"
    BY <1>2 DEF SkipType, Peek, FetchFolderOrder, serverVars, clientVars
  <2> QED BY <1>1, <1>2, <2>1 DEF PageInv, Vis
<1>3. CASE SkipType \/ Peek
  <2>1. /\ page.pc = "fetch" /\ page.cur.t <= 3 /\ UNCHANGED <<serverVars, clientVars>>
    BY <1>3, SnapshotTypes DEF SkipType, Peek
  <2>2. CASE page' = [page EXCEPT !.pc = "more"]
    <3>1. page'.cur = page.cur /\ page'.pc = "more" /\ page'.buf = page.buf
      BY <2>1, <2>2, MoreTyped
    <3>2. PageInv'
      BY <1>2, <1>3, <3>1
    <3> QED BY <2>1, <3>1, <3>2, PagesKeep DEF FoundInv
  <2>3. CASE page' = [page EXCEPT !.cur = NextType] /\ (SkipType \/ After(page.cur.a, Type) = {})
    <3>1. page'.cur = NextType /\ page'.pc = "fetch" /\ page'.buf = page.buf /\ page'.cur.c = page.cur.c
      BY <2>1, <2>3, SkipTyped
    <3>2. ASSUME NEW i \in Id, Due(row, log, i, NextType), ~Due(row, log, i, page.cur)
          PROVE  FALSE
      <4>1. /\ i \in Type /\ Vis(i)
            /\ \E p \in Places(row, Type) : p[2] = i /\ Earlier(page.cur.a, p)
        BY <1>1, <2>1, <3>2, NextDue
      <4>2. CASE SkipType
        BY <4>1, <4>2 DEF SkipType, typeVisible, Vis
      <4>3. CASE After(page.cur.a, Type) = {}
        BY <4>1, <4>3, PositionsAre DEF After
      <4> QED BY <2>3, <4>2, <4>3
    <3>3. PageInv'
      BY <1>2, <1>3, <3>1, <3>2
    <3> QED BY <2>1, <3>1, <3>3, PagesKeep DEF FoundInv
  <2> QED BY <1>3, <2>2, <2>3 DEF SkipType, Peek
<1>4. CASE FetchFolderOrder
  <2>1. /\ page'.cur = page.cur /\ page'.pc = "rows" /\ page'.buf = page.buf
        /\ page'.found = First(Remaining + 1, After(page.cur.a, Folder))
    BY <1>4, OrderTyped
  <2>2. Type = Folder /\ page.cur.t <= 3 /\ Remaining > 0 /\ UNCHANGED <<serverVars, clientVars>>
    BY <1>4, SnapshotTypes DEF FetchFolderOrder
  <2>3. PageInv'
    BY <1>2, <1>4, <2>1
  <2>4. Reaches(page'.found) /\ \A p \in page'.found : Exists(p[2])
    BY <2>1, <2>2, FirstReaches
  <2>5. row' = row /\ log' = log
    BY <2>2 DEF serverVars
  <2>6. FoundInv'
    BY <2>1, <2>4, <2>5 DEF FoundInv, Reaches, Type, Remaining, Exists
  <2> QED BY <2>2, <2>3, <2>6, PagesKeep
<1>5. CASE Fetches
  <2>1. /\ page.pc \in {"fetch", "rows"} /\ page.cur.t <= 3 /\ Remaining > 0
        /\ Fetched \subseteq Nat \X Type /\ IsFiniteSet(Fetched)
        /\ UNCHANGED <<serverVars, clientVars>>
        /\ \E W : Takes(Fetched, W)
    BY <1>5, FetchTakes
  <2>2. Reaches(Fetched)
    <3>1. CASE page.pc = "rows"
      <4>1. Reaches(page.found) /\ \A p \in page.found : Exists(p[2])
        BY <3>1 DEF ConvInv, FoundInv
      <4>2. Fetched = page.found
        BY <3>1, <4>1 DEF Fetched
      <4> QED BY <4>1, <4>2
    <3>2. CASE page.pc # "rows"
      BY <2>1, <3>2, FirstReaches DEF Fetched
    <3> QED BY <3>1, <3>2
  <2>3. \A i \in Type : Vis(i)
    <3>1. CASE FetchRows
      <4>1. Type = Global => Declared
        BY <3>1 DEF FetchRows, typeVisible
      <4>2. Type # Global => Type \cap Global = {}
        <5>1. Type \in Types
          BY <2>1, AfterFacts
        <5> QED BY <5>1, SnapshotAssumption DEF Types
      <4> QED BY <4>1, <4>2 DEF Vis
    <3>2. CASE FetchFolderRows
      <4>1. Type = Folder
        BY <1>1, <3>2 DEF FetchFolderRows, PageTyped, Type
      <4> QED BY <4>1, SnapshotAssumption DEF Vis
    <3> QED BY <1>5, <3>1, <3>2 DEF Fetches
  <2>4. PICK W : Takes(Fetched, W)
    BY <2>1
  <2> HIDE DEF Fetched
  <2> QED BY <2>1, <2>2, <2>3, <2>4, TakesConv
<1> QED BY <1>3, <1>4, <1>5 DEF ServerStep, Fetches

-----------------------------------------------------------------------------
(* The client *)

\* What the replica s holds of i, when the log has been applied up to k.
Holds(s, i, k) ==
  /\ ~Vis(i) => s[i] = NoRow
  /\ Vis(i) => Behind(row, log, s[i], i, k) /\ (~Touched(log, i, k) => s[i] = row[i])

LEMMA NoRowIsBehind ==
  ASSUME TInv, Tree(row), NEW i \in Id, NEW k
  PROVE  Behind(row, log, NoRow, i, k)
<1>1. NoRow.version = 0 /\ row[i].version \in Nat /\ (row[i].version = 0 => row[i] = NoRow)
  BY RowsTyped, ParentsAre DEF Tree
<1> QED BY <1>1 DEF Behind

LEMMA DeliveredHolds ==
  ASSUME TInv, Tree(row), Tells(row, log), NEW s \in [Id -> RowType], NEW m \in 1 .. Len(log),
         \A i \in Id : Holds(s, i, m - 1)
  PROVE  \A i \in Id : Holds(Delivered(log[m], s), i, m)
<1> DEFINE e == log[m]
           d == Delivered(e, s)
<1>1. /\ Len(log) \in Nat /\ m \in Nat /\ m - 1 \in Nat /\ e.id \in Id
      /\ e.op = "delete" \/ e \in UpsertType
      /\ ~Touched(log, e.id, m) => row[e.id] = IF e.op = "delete" THEN NoRow ELSE Told(e)
      /\ e.op # "delete" => Behind(row, log, Told(e), e.id, m)
  BY DEF TInv, LogTyped, Tells
<1>2. ASSUME NEW i \in Id
      PROVE  /\ Touched(log, i, m - 1) => Touched(log, i, m) \/ e.id = i
             /\ Deleted(log, i, m - 1) => Deleted(log, i, m) \/ (e.id = i /\ e.op = "delete")
  <2>1. \A n \in (m - 1) + 1 .. Len(log) : n \in m + 1 .. Len(log) \/ n = m
    BY <1>1
  <2> QED BY <2>1 DEF Touched, Deleted
<1>3. e.id \in Id /\ s[e.id] \in RowType /\ s[e.id].version \in Nat /\ row[e.id].version \in Nat
  BY <1>1, ParentsAre DEF RowType
<1>4. d = IF ~Vis(e.id) THEN s
          ELSE IF e.op = "delete" THEN [s EXCEPT ![e.id] = NoRow]
          ELSE IF e.version > s[e.id].version THEN [s EXCEPT ![e.id] = Told(e)] ELSE s
  BY DEF Delivered, Apply, Vis, Told
<1>5. /\ \A i \in Id \ {e.id} : d[i] = s[i]
      /\ d[e.id] = IF ~Vis(e.id) THEN s[e.id]
                   ELSE IF e.op = "delete" THEN NoRow
                   ELSE IF e.version > s[e.id].version THEN Told(e) ELSE s[e.id]
  BY <1>1, <1>4
<1> HIDE DEF d, e
<1>6. ASSUME NEW i \in Id, i # e.id PROVE Holds(d, i, m)
  <2>1. d[i] = s[i] /\ Holds(s, i, m - 1)
    BY <1>5, <1>6
  <2>2. ~Touched(log, i, m) => ~Touched(log, i, m - 1)
    BY <1>2, <1>6
  <2>3. ~Deleted(log, i, m) => ~Deleted(log, i, m - 1)
    BY <1>2, <1>6
  <2> QED BY <2>1, <2>2, <2>3 DEF Holds, Behind
<1>7. Holds(d, e.id, m)
  <2>1. Holds(s, e.id, m - 1)
    BY <1>3
  <2>2. CASE ~Vis(e.id)
    BY <1>5, <2>1, <2>2 DEF Holds
  <2>3. CASE Vis(e.id) /\ e.op = "delete"
    <3>1. d[e.id] = NoRow
      BY <1>5, <2>3
    <3>2. Behind(row, log, NoRow, e.id, m)
      BY <1>3, NoRowIsBehind
    <3> QED BY <1>1, <2>3, <3>1, <3>2 DEF Holds
  <2>4. CASE Vis(e.id) /\ e.op # "delete"
    <3>1. d[e.id] = IF e.version > s[e.id].version THEN Told(e) ELSE s[e.id]
      BY <1>5, <2>4
    <3>2. Behind(row, log, s[e.id], e.id, m)
      <4>1. ~Deleted(log, e.id, m) => ~Deleted(log, e.id, m - 1)
        BY <1>2, <1>3, <2>4
      <4> QED BY <2>1, <2>4, <4>1 DEF Holds, Behind
    <3>3. ASSUME ~Touched(log, e.id, m) PROVE d[e.id] = row[e.id]
      <4>1. row[e.id] = Told(e) /\ row[e.id].version = e.version
        BY <1>1, <2>4, <3>3 DEF Told
      <4>2. ~Deleted(log, e.id, m)
        BY <3>3 DEF Touched, Deleted
      <4>3. s[e.id].version < row[e.id].version \/ s[e.id] = row[e.id]
        BY <3>2, <4>2 DEF Behind
      <4> QED BY <1>3, <3>1, <4>1, <4>3
    <3> QED BY <1>1, <2>4, <3>1, <3>2, <3>3 DEF Holds
  <2> QED BY <2>2, <2>3, <2>4
<1> QED BY <1>6, <1>7 DEF d, e

LEMMA AppliedHolds ==
  ASSUME TInv, Tree(row), Tells(row, log), NEW k \in Nat, pulled + k <= Len(log),
         \A i \in Id : Holds(store, i, pulled)
  PROVE  \A i \in Id : Holds(Applied(pulled, pulled + k), i, pulled + k)
<1>1. pulled \in Nat /\ Len(log) \in Nat /\ store \in [Id -> RowType]
  BY DEF TInv, LogTyped
<1>2. PICK g : /\ g[pulled] = store /\ Applied(pulled, pulled + k) = g[pulled + k]
               /\ \A n \in pulled + 1 .. pulled + k : g[n] = Delivered(log[n], g[n - 1])
  BY <1>1, AppliedFacts
<1> DEFINE Good(n) == g[n] \in [Id -> RowType] /\ \A i \in Id : Holds(g[n], i, n)
           S == {n \in Nat : n <= k => Good(pulled + n)}
<1>3. 0 \in S
  <2>1. pulled + 0 = pulled
    BY <1>1
  <2> QED BY <1>1, <1>2, <2>1
<1>4. ASSUME NEW n \in Nat, n \in S PROVE n + 1 \in S
  <2> SUFFICES ASSUME n + 1 <= k PROVE Good(pulled + (n + 1))
    OBVIOUS
  <2> DEFINE m == pulled + (n + 1)
  <2>1. m \in pulled + 1 .. pulled + k /\ m - 1 = pulled + n /\ m \in 1 .. Len(log) /\ n <= k
    BY <1>1
  <2>2. Good(m - 1)
    BY <1>4, <2>1
  <2>3. g[m] = Delivered(log[m], g[m - 1])
    BY <1>2, <2>1
  <2>4. log[m].op = "delete" \/ log[m] \in UpsertType
    BY <2>1 DEF TInv, LogTyped
  <2> HIDE DEF m
  <2>5. g[m - 1] \in [Id -> RowType] /\ \A i \in Id : Holds(g[m - 1], i, m - 1)
    BY <2>2
  <2>6. Delivered(log[m], g[m - 1]) \in [Id -> RowType]
    BY <2>4, <2>5, DeliveredTyped
  <2>7. \A i \in Id : Holds(Delivered(log[m], g[m - 1]), i, m)
    BY <2>1, <2>5, DeliveredHolds
  <2>8. Good(m)
    BY <2>3, <2>6, <2>7
  <2> QED BY <2>8 DEF m
<1> HIDE DEF S
<1>5. k \in S
  BY <1>3, <1>4, Induct
<1>6. Good(pulled + k)
  BY <1>5 DEF S
<1> QED BY <1>2, <1>6

\* A page that arrives brings what is due, and takes nothing back.
LEMMA ReceiveConv ==
  ASSUME TInv, ConvInv, ReceivePage
  PROVE  StoreInv'
<1>1. /\ store' = Newer(page.buf) /\ page.pc # "off" /\ row' = row /\ log' = log
      /\ \/ page.cur.t = 4 /\ phase' = "pulling" /\ pulled' = page.cur.c
         \/ phase' = "paging" /\ cursor' = page.cur
  BY ReceiveFacts
<1>2. /\ phase = "paging" => page.cur.c = cursor.c
      /\ \A e \in page.buf : Vis(e.id) /\ Behind(row, log, e.state, e.id, page.cur.c)
      /\ \A i \in Id : Due(row, log, i, page.cur) =>
           store[i] = row[i] \/ [id |-> i, state |-> row[i]] \in page.buf
      /\ \A i \in Id : ~Vis(i) => store[i] = NoRow
  BY <1>1 DEF ConvInv, PageInv, StoreInv
<1>3. /\ row \in [Id -> RowType] /\ store \in [Id -> RowType] /\ Tree(row)
      /\ \A d, e \in page.buf : d.id = e.id => d = e
      /\ phase \in {"new", "paging"}
  BY <1>1 DEF TInv, PageTyped, ConvInv
<1>4. \A i \in Id : Behind(row, log, store[i], i, page.cur.c)
  <2>1. CASE phase = "new"
    BY <2>1, NoRowIsBehind DEF ConvInv, StoreInv
  <2>2. CASE phase = "paging"
    BY <1>2, <2>2 DEF ConvInv, StoreInv
  <2> QED BY <1>3, <2>1, <2>2
<1>5. ASSUME NEW i \in Id
      PROVE  /\ ~Vis(i) => store'[i] = NoRow
             /\ Behind(row, log, store'[i], i, page.cur.c)
             /\ Due(row, log, i, page.cur) => store'[i] = row[i]
  <2>1. CASE /\ store'[i] = store[i]
             /\ \A e \in page.buf : e.id = i => ~(e.state.version > store[i].version)
    <3>1. ASSUME Due(row, log, i, page.cur) PROVE store[i] = row[i]
      <4>1. ~Deleted(log, i, page.cur.c)
        BY <3>1 DEF Due, Touched, Deleted
      <4>2. store[i].version < row[i].version \/ store[i] = row[i]
        BY <1>4, <4>1 DEF Behind
      <4>3. CASE [id |-> i, state |-> row[i]] \in page.buf
        <5>1. ~(row[i].version > store[i].version)
          BY <2>1, <4>3
        <5> QED BY <4>2, <5>1
      <4> QED BY <1>2, <3>1, <4>3
    <3> QED BY <1>2, <1>4, <2>1, <3>1
  <2>2. CASE \E e \in page.buf : e.id = i /\ e.state.version > store[i].version /\ store'[i] = e.state
    <3>1. PICK e \in page.buf : e.id = i /\ e.state.version > store[i].version /\ store'[i] = e.state
      BY <2>2
    <3>2. Vis(i) /\ Behind(row, log, e.state, i, page.cur.c)
      BY <1>2, <3>1
    <3>3. ASSUME Due(row, log, i, page.cur) PROVE e.state = row[i]
      <4>1. ~Deleted(log, i, page.cur.c)
        BY <3>3 DEF Due, Touched, Deleted
      <4>2. e.state.version < row[i].version \/ e.state = row[i]
        BY <3>2, <4>1 DEF Behind
      <4>3. CASE [id |-> i, state |-> row[i]] \in page.buf
        <5> DEFINE d == [id |-> i, state |-> row[i]]
        <5>1. d.id = i /\ d.state = row[i]
          OBVIOUS
        <5> HIDE DEF d
        <5>2. d = e
          BY <1>3, <3>1, <4>3, <5>1 DEF d
        <5> QED BY <5>1, <5>2
      <4>4. CASE store[i] = row[i]
        <5>1. e.state.version \in Nat /\ row[i].version \in Nat
          BY <3>1, PageParts, ParentsAre DEF TInv, ItemType, RowType
        <5> QED BY <3>1, <4>2, <4>4, <5>1
      <4> QED BY <1>2, <3>3, <4>3, <4>4
    <3> QED BY <3>1, <3>2, <3>3
  <2> QED BY <1>1, <2>1, <2>2, NewerFacts
<1>6. ASSUME page.cur.t = 4, NEW i \in Id, Vis(i)
      PROVE  ~Touched(log, i, page.cur.c) => store'[i] = row[i]
  <2>1. CASE There(row, i)
    <3>1. TypeNo(i) < page.cur.t
      BY <1>6, SnapshotTypes
    <3> QED BY <1>5, <1>6, <2>1, <3>1 DEF Due, Covered
  <2>2. CASE ~There(row, i)
    <3>1. row[i].version = 0
      BY <2>2, ParentsAre DEF There
    <3>2. store'[i].version \in Nat
      BY <1>1, NewerFacts DEF RowType
    <3>3. ~Touched(log, i, page.cur.c) => ~Deleted(log, i, page.cur.c)
      BY DEF Touched, Deleted
    <3>4. ~Deleted(log, i, page.cur.c) => store'[i].version < row[i].version \/ store'[i] = row[i]
      BY <1>5 DEF Behind
    <3> QED BY <3>1, <3>2, <3>3, <3>4
  <2> QED BY <2>1, <2>2
<1> QED BY <1>1, <1>5, <1>6 DEF StoreInv, Vis

LEMMA ClientConv ==
  ASSUME TInv, ConvInv, ClientStep
  PROVE  ConvInv'
<1>1. row \in [Id -> RowType] /\ Tree(row) /\ Tells(row, log)
  BY DEF TInv, ConvInv
<1>2. CASE FirstPage \/ NextPage
  <2>1. /\ UNCHANGED <<serverVars, clientVars>>
        /\ \/ /\ page' = [NoPage EXCEPT !.pc = "fetch", !.cur.c = Len(log)]
              /\ phase = "new"
           \/ page' = [NoPage EXCEPT !.pc = "fetch", !.cur = cursor] /\ phase = "paging"
    BY <1>2 DEF FirstPage, NextPage
  <2>2. /\ page'.pc = "fetch" /\ page'.buf = {}
        /\ \/ phase = "new" /\ page'.cur.t = 1 /\ page'.cur.a = Start
           \/ phase = "paging" /\ page'.cur = cursor
    BY <2>1 DEF NoPage, NoCursor
  <2>3. /\ row' = row /\ log' = log /\ phase' = phase /\ cursor' = cursor /\ store' = store
    BY <2>1 DEF serverVars, clientVars
  <2>4. ASSUME NEW i \in Id, Due(row, log, i, page'.cur) PROVE store[i] = row[i]
    <3>1. CASE phase = "new" /\ page'.cur.t = 1 /\ page'.cur.a = Start
      <4>1. ~(TypeNo(i) < 1) /\ SNAPSHOT_ORDER[1] \in Types
        <5>1. TypeNo(i) \in 1 .. 3 /\ 1 \in 1 .. 3
          BY SnapshotTypes
        <5> QED BY <5>1, SnapshotTypes
      <4>2. \E p \in Places(row, SNAPSHOT_ORDER[1]) : ~Earlier(Start, p)
        BY <2>4, <3>1, <4>1 DEF Due, Covered
      <4> QED BY <1>1, <4>1, <4>2, StartIsFirst
    <3>2. CASE phase = "paging" /\ page'.cur = cursor
      BY <2>4, <3>2 DEF ConvInv, StoreInv
    <3> QED BY <2>2, <3>1, <3>2
  <2>5. PageInv'
    BY <2>2, <2>3, <2>4 DEF PageInv
  <2>6. FoundInv'
    BY <2>2 DEF FoundInv
  <2> QED BY <2>1, <2>5, <2>6, PagesKeep
<1>3. CASE ReceivePage
  <2>1. row' = row /\ log' = log /\ page'.pc = "off"
    BY <1>3, ReceiveFacts, RowsTyped
  <2>2. StoreInv'
    BY <1>3, ReceiveConv
  <2> QED BY <1>1, <2>1, <2>2 DEF ConvInv, PageInv, FoundInv
<1>4. CASE LosePage
  <2>1. page'.pc = "off" /\ UNCHANGED <<serverVars, clientVars>>
    BY <1>4, RowsTyped DEF LosePage
  <2>2. PageInv' /\ FoundInv'
    BY <2>1 DEF PageInv, FoundInv
  <2> QED BY <2>1, <2>2, PagesKeep
<1>5. CASE Pull
  <2>1. PICK k \in 0 .. PageLimit : /\ pulled + k <= Len(log) /\ pulled' = pulled + k
                                    /\ store' = Applied(pulled, pulled + k)
    BY <1>5 DEF Pull
  <2>2. k \in Nat
    BY <2>1, Numbers
  <2>3. row' = row /\ log' = log /\ page' = page /\ phase' = phase /\ phase = "pulling" /\ page.pc = "off"
    BY <1>5 DEF Pull, serverVars
  <2>4. \A i \in Id : Holds(store, i, pulled)
    BY <2>3 DEF ConvInv, StoreInv, Holds
  <2>5. \A i \in Id : Holds(store', i, pulled')
    BY <1>1, <2>1, <2>2, <2>4, AppliedHolds
  <2>6. StoreInv'
    BY <2>3, <2>5 DEF StoreInv, Holds, Vis
  <2>7. PageInv' /\ FoundInv'
    BY <2>3 DEF PageInv, FoundInv
  <2> QED BY <1>1, <2>3, <2>6, <2>7 DEF ConvInv
<1> QED BY <1>2, <1>3, <1>4, <1>5 DEF ClientStep

LEMMA ConvStep ==
  ASSUME Flat
  PROVE  TInv /\ ConvInv /\ [Next]_vars => ConvInv'
<1> SUFFICES ASSUME TInv, ConvInv, [Next]_vars PROVE ConvInv'
  OBVIOUS
<1>1. CASE Writer
  <2>1. PICK i \in Id, r \in RowType : Writes(i, r) /\ Tree(row') /\ OthersStay(i)
    BY <1>1, FlatWrite DEF ConvInv
  <2> QED BY <2>1, WriteInv
<1>2. CASE ServerStep
  BY <1>2, ServerConv
<1>3. CASE ClientStep
  BY <1>3, ClientConv
<1>4. CASE UNCHANGED vars
  <2>1. UNCHANGED <<serverVars, clientVars>> /\ page' = page
    BY <1>4 DEF vars
  <2>2. UNCHANGED <<row, log, page, phase, cursor, store, pulled>>
    BY <1>4 DEF vars, serverVars, clientVars
  <2>3. PageInv'
    BY <2>2 DEF ConvInv, PageInv, Vis
  <2>4. FoundInv'
    BY <2>2 DEF ConvInv, FoundInv, Reaches, Type, Remaining, Exists
  <2> QED BY <2>1, <2>3, <2>4, PagesKeep
<1> QED BY <1>1, <1>2, <1>3, <1>4 DEF Next

\* A client that has pulled to the end after its snapshot holds what the server
\* holds, however the writes fall between the statements of a page, between
\* pages and pulls, and whichever pages are lost.  With moves or deletions of
\* whole folders it need not (README, "Known not to hold").
THEOREM SnapshotsConverge == Flat => (Spec => []SnapshotConverges)
<1>1. TInv /\ ConvInv => SnapshotConverges
  <2> SUFFICES ASSUME TInv, ConvInv, phase = "pulling", pulled = Len(log)
               PROVE  store = Seen(row)
    BY DEF SnapshotConverges
  <2>1. Len(log) \in Nat /\ store \in [Id -> RowType]
    BY DEF TInv, LogTyped
  <2>2. ASSUME NEW i \in Id
        PROVE  store[i] = IF i \in Global /\ ~Declared THEN NoRow ELSE row[i]
    <3>1. pulled + 1 .. Len(log) = {}
      BY <2>1
    <3>2. ~Touched(log, i, pulled)
      BY <3>1 DEF Touched
    <3> QED BY <3>2 DEF ConvInv, StoreInv, Vis
  <2>3. Seen(row) = [i \in Id |-> IF i \in Global /\ ~Declared THEN NoRow ELSE row[i]]
    BY DEF Seen
  <2>4. store = [i \in Id |-> store[i]]
    BY <2>1
  <2> QED BY <2>2, <2>3, <2>4
<1>2. ASSUME Flat PROVE Spec => []SnapshotConverges
  <2>1. TInv /\ ConvInv /\ [Next]_vars => ConvInv'
    BY <1>2, ConvStep
  <2> QED BY InitTyped, TypedStep, InitConv, <2>1, <1>1, PTL DEF Spec
<1> QED BY <1>2
=============================================================================
