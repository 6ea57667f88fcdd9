----------------------- MODULE KeysetPaginationProofs -----------------------
(***************************************************************************)
(* Theorems about KeysetPagination: a walk is complete, without repeats,   *)
(* and never stuck, for every finite set of ids, every set of titles and   *)
(* all page sizes.                                                         *)
(***************************************************************************)
EXTENDS KeysetPagination, FiniteSetTheorems, WellFoundedInduction, TLAPS

-----------------------------------------------------------------------------
\* The order of keys and the pages it gives

Before(keys, k) == {l \in keys : Less(l, k)}

\* Less is a strict total order: the id breaks ties of the sort value.
LEMMA LessIsTotalOrder ==
  /\ \A k \in Keys : ~Less(k, k)
  /\ \A k, l, m \in Keys : Less(k, l) /\ Less(l, m) => Less(k, m)
  /\ \A k, l \in Keys : k = l \/ Less(k, l) \/ Less(l, k)
<1>1. \A k \in Keys : k[1] \in Int /\ k[2] \in Int /\ k = <<k[1], k[2]>>
  <2> SUFFICES ASSUME NEW k \in Keys PROVE k[1] \in Int /\ k[2] \in Int /\ k = <<k[1], k[2]>>
    OBVIOUS
  <2>1. PICK t \in Titles, i \in Ids : k = <<t, i>>
    BY DEF Keys
  <2>2. t \in Int /\ i \in Int
    BY PaginationAssumption
  <2> QED
    BY <2>1, <2>2
<1>2. \A k \in Keys : ~Less(k, k)
  BY <1>1 DEF Less
<1>3. \A k, l, m \in Keys : Less(k, l) /\ Less(l, m) => Less(k, m)
  BY <1>1 DEF Less
<1>4. ASSUME NEW k \in Keys, NEW l \in Keys PROVE k = l \/ Less(k, l) \/ Less(l, k)
  <2>1. k[1] = l[1] /\ k[2] = l[2] => k = l
    BY <1>1
  <2> QED
    BY <1>1, <2>1 DEF Less
<1> QED
  BY <1>2, <1>3, <1>4

\* The keys before a key are finitely many.
LEMMA BeforeIsFinite ==
  ASSUME NEW keys, IsFiniteSet(keys), NEW k
  PROVE  /\ IsFiniteSet(Before(keys, k))
         /\ Cardinality(Before(keys, k)) \in Nat
  BY FS_Subset, FS_CardinalityType DEF Before

\* A nonempty finite set of keys has a first one.
LEMMA FirstKey ==
  ASSUME NEW keys \in SUBSET Keys, IsFiniteSet(keys), NEW some \in SUBSET keys, some # {}
  PROVE  \E k \in some : \A l \in some : ~Less(l, k)
<1> DEFINE T == {Before(keys, k) : k \in some}
<1>1. T \subseteq FiniteSubsetsOf(keys) /\ T # {}
  <2>1. ASSUME NEW k \in some PROVE Before(keys, k) \in FiniteSubsetsOf(keys)
    <3>1. Before(keys, k) \subseteq keys
      BY DEF Before
    <3> QED
      BY <3>1, FS_Subset DEF FiniteSubsetsOf
  <2>2. T # {}
    OBVIOUS
  <2> QED
    BY <2>1, <2>2
<1>2. PICK x \in T : \A y \in T : <<y, x>> \notin StrictSubsetOrdering(keys)
  <2> HIDE DEF T
  <2> QED
    BY <1>1, WFMin, FS_StrictSubsetOrderingWellFounded
<1>3. PICK k \in some : x = Before(keys, k)
  OBVIOUS
<1>4. ASSUME NEW l \in some, Less(l, k) PROVE FALSE
  <2>1. Before(keys, l) \subseteq Before(keys, k)
    BY <1>4, LessIsTotalOrder DEF Before
  <2>2. l \in Before(keys, k) /\ l \notin Before(keys, l)
    BY <1>4, LessIsTotalOrder DEF Before
  <2>3. <<Before(keys, l), Before(keys, k)>> \in StrictSubsetOrdering(keys)
    BY <2>1, <2>2 DEF StrictSubsetOrdering, Before
  <2> QED
    BY <1>2, <1>3, <2>3
<1> QED
  BY <1>4

\* A page has no gaps: with a key it has all keys before it.
LEMMA PageHasNoGaps ==
  ASSUME NEW keys \in SUBSET Keys, IsFiniteSet(keys), NEW n \in Nat,
         NEW k \in Smallest(keys, n), NEW l \in keys, Less(l, k)
  PROVE  l \in Smallest(keys, n)
<1>1. Before(keys, l) \subseteq Before(keys, k)
  BY LessIsTotalOrder DEF Before, Smallest
<1>2. Cardinality(Before(keys, l)) <= Cardinality(Before(keys, k))
  BY <1>1, BeforeIsFinite, FS_Subset
<1>3. Cardinality(Before(keys, k)) < n
  BY DEF Smallest, Before
<1>4. Cardinality(Before(keys, l)) < n
  BY <1>2, <1>3, BeforeIsFinite
<1> QED
  BY <1>4 DEF Smallest, Before

\* LIMIT n leaves out nothing of n rows.
LEMMA ShortPageIsAll ==
  ASSUME NEW keys \in SUBSET Keys, IsFiniteSet(keys), NEW n \in Nat, Cardinality(keys) <= n
  PROVE  Smallest(keys, n) = keys
<1> SUFFICES ASSUME NEW k \in keys PROVE Cardinality(Before(keys, k)) < n
  BY DEF Smallest, Before
<1>1. Before(keys, k) \subseteq keys \ {k}
  BY LessIsTotalOrder DEF Before
<1>2. /\ IsFiniteSet(keys \ {k})
      /\ Cardinality(keys \ {k}) = Cardinality(keys) - 1
  BY FS_RemoveElement
<1>3. Cardinality(Before(keys, k)) <= Cardinality(keys) - 1
  BY <1>1, <1>2, FS_Subset
<1> QED
  BY <1>3, BeforeIsFinite, FS_CardinalityType

\* If the probe for n + 1 rows finds at most n, it has found all: otherwise the
\* first row it missed has n + 1 rows before it, all of them found.
LEMMA ProbeIsTruthful ==
  ASSUME NEW keys \in SUBSET Keys, IsFiniteSet(keys), NEW n \in Nat,
         Cardinality(Smallest(keys, n + 1)) <= n
  PROVE  Smallest(keys, n + 1) = keys
<1> DEFINE probe == Smallest(keys, n + 1)
           missed == keys \ probe
<1>1. probe \subseteq keys
  BY DEF Smallest
<1>2. SUFFICES ASSUME missed # {} PROVE FALSE
  BY <1>1
<1>3. PICK k \in missed : \A l \in missed : ~Less(l, k)
  BY <1>2, FirstKey
<1>4. Before(keys, k) \subseteq probe
  BY <1>3 DEF Before
<1>5. IsFiniteSet(probe) /\ Cardinality(probe) \in Nat
  BY <1>1, FS_Subset, FS_CardinalityType
<1>6. Cardinality(Before(keys, k)) <= Cardinality(probe)
  BY <1>4, <1>5, FS_Subset
<1>7. ~(Cardinality(Before(keys, k)) < n + 1)
  BY DEF Smallest, Before
<1> QED
  BY <1>5, <1>6, <1>7, BeforeIsFinite

\* Only LIMIT 0 makes an empty page of some rows.
LEMMA PageIsNotEmpty ==
  ASSUME NEW keys \in SUBSET Keys, IsFiniteSet(keys), keys # {}, NEW n \in Nat, n > 0
  PROVE  Smallest(keys, n) # {}
<1>1. PICK k \in keys : \A l \in keys : ~Less(l, k)
  BY FirstKey
<1>2. Before(keys, k) = {}
  BY <1>1 DEF Before
<1>3. Cardinality(Before(keys, k)) = 0
  BY <1>2, FS_EmptySet
<1> QED
  BY <1>3 DEF Smallest, Before

\* A page is never larger than MAX_PAGE_SIZE (clamp_first).
LEMMA ClampBounds ==
  \A first \in Firsts \cup {Omitted} : clamp_first(first) \in 0..MAX_PAGE_SIZE
  BY PaginationAssumption DEF clamp_first

\* The rows behind a cursor are finitely many.
LEMMA RestIsFinite ==
  ASSUME TypeOK, NEW c
  PROVE  Rest(c) \in SUBSET Keys /\ IsFiniteSet(Rest(c))
<1>1. Rest(c) \in SUBSET Keys
  BY DEF Rest, TypeOK, Keys, Key, Present
<1>2. \A k \in Rest(c) : k[2] \in Ids /\ k = Key(k[2])
  BY DEF Rest, TypeOK, Key, Present
<1> DEFINE f == [k \in Rest(c) |-> k[2]]
<1>3. f \in Injection(Rest(c), Ids)
  BY <1>2 DEF Injection, IsInjective
<1> HIDE DEF f
<1>4. IsFiniteSet(Rest(c))
  BY <1>3, FS_Injection, PaginationAssumption
<1> QED
  BY <1>1, <1>4

-----------------------------------------------------------------------------
\* The inductive invariant

\* A row is committed together with its songs or photos row.
ItemsAreWhole == Present \subseteq detail

Passed(i) == after # NoCursor /\ ~Less(after, Key(i))

\* Between pages, the untouched rows delivered are those up to the cursor.
BetweenPages == pc = "idle" => \A i \in untouched : i \in got <=> Passed(i)

\* Between the statements of a page: the page continues behind the cursor, has
\* the untouched rows under their key, has no gaps among them, and has all the
\* rest of them unless a next page is announced.
WithinPage == pc = "listed" =>
    /\ \A i \in untouched : i \in got <=> Passed(i)
    /\ \A k \in page : k[2] \in detail /\ (after # NoCursor => Less(after, k))
    /\ \A k \in page : k[2] \in untouched => k = Key(k[2])
    /\ \A i \in untouched : ~Passed(i) =>
          /\ hasNext \/ Key(i) \in page
          /\ \A k \in page : Less(Key(i), k) => Key(i) \in page
    /\ hasNext /\ page = {} => limit = 0

IInv ==
    /\ TypeOK
    /\ ItemsAreWhole
    /\ BetweenPages
    /\ WithinPage
    /\ WalkIsComplete
    /\ NeverStuck

\* Before the walk, nothing is promised.
LEMMA InitIInv == Init => IInv
<1> SUFFICES ASSUME Init PROVE IInv
  OBVIOUS
<1>1. TypeOK
  <2>1. 0 \in 0..MAX_PAGE_SIZE
    BY PaginationAssumption
  <2>2. title \in [Ids -> Titles \cup {Absent}] /\ detail \subseteq Ids
    BY DEF Init
  <2> QED
    BY <2>1, <2>2 DEF Init, TypeOK, Present
<1>2. ItemsAreWhole /\ BetweenPages /\ WithinPage
  BY DEF Init, ItemsAreWhole, BetweenPages, WithinPage, Passed
<1>3. WalkIsComplete /\ NeverStuck
  BY DEF Init, WalkIsComplete, NeverStuck
<1> QED
  BY <1>1, <1>2, <1>3 DEF IInv

\* The first statement of a page takes the rows right behind the cursor.
LEMMA ListPageKeeps ==
  ASSUME IInv, NEW first \in Firsts \cup {Omitted}, ListPage(first)
  PROVE  IInv'
<1> DEFINE n == clamp_first(first)
           rest == Rest(after)
           probe == Smallest(rest, n + 1)
<1> USE DEF IInv
<1>1. /\ n \in 0..MAX_PAGE_SIZE /\ n \in Nat /\ n + 1 \in Nat
      /\ rest \in SUBSET Keys /\ IsFiniteSet(rest)
  BY ClampBounds, RestIsFinite, PaginationAssumption
<1>2. /\ pc = "idle" /\ pc' = "listed" /\ limit' = n
      /\ page' = Smallest(probe, n) /\ hasNext' = (Cardinality(probe) > n)
      /\ UNCHANGED <<title, detail, after, got, untouched>>
  BY DEF ListPage, ProbeSize, library
<1>3. probe \subseteq rest /\ page' \subseteq probe
  BY <1>2 DEF Smallest
<1>4. IsFiniteSet(probe) /\ Cardinality(probe) \in Nat
  BY <1>1, <1>3, FS_Subset, FS_CardinalityType
<1>5. TypeOK'
  BY <1>1, <1>2, <1>3 DEF TypeOK, Present
<1>6. ItemsAreWhole'
  BY <1>2 DEF ItemsAreWhole, Present
<1>7. \A i \in untouched : ~Passed(i) => Key(i) \in rest
  BY DEF Passed, Rest, TypeOK
<1>8. \A k \in rest : k[2] \in detail /\ (after # NoCursor => Less(after, k)) /\ k = Key(k[2])
  BY DEF Rest, Key, ItemsAreWhole
<1>9. probe = Smallest(rest, n + 1)
  OBVIOUS
<1>10. hasNext' <=> Cardinality(probe) > n
  BY <1>2
<1> HIDE DEF n, rest, probe
<1>11. ~hasNext' => page' = rest
  <2> SUFFICES ASSUME Cardinality(probe) <= n PROVE Smallest(probe, n) = rest
    BY <1>1, <1>2, <1>4, <1>10
  <2>1. probe = rest
    BY <1>1, <1>9, ProbeIsTruthful
  <2> QED
    BY <1>1, <2>1, ShortPageIsAll
<1>12. ASSUME NEW k \in page', NEW l \in rest, Less(l, k) PROVE l \in page'
  <2>1. l \in probe
    BY <1>1, <1>3, <1>12, <1>9, PageHasNoGaps
  <2> QED
    BY <1>1, <1>2, <1>3, <1>4, <1>12, <2>1, PageHasNoGaps
<1>13. hasNext' /\ page' = {} => limit' = 0
  <2> SUFFICES ASSUME Cardinality(probe) > n, n > 0 PROVE Smallest(probe, n) # {}
    BY <1>1, <1>2, <1>10
  <2>1. probe # {}
    BY <1>1, <1>4, FS_EmptySet
  <2> QED
    BY <1>1, <1>3, <1>4, <2>1, PageIsNotEmpty
<1>14. WithinPage'
  BY <1>2, <1>3, <1>7, <1>11, <1>12, <1>13, <1>8 DEF WithinPage, BetweenPages, Passed, Key
<1>15. BetweenPages' /\ WalkIsComplete' /\ NeverStuck'
  BY <1>2 DEF BetweenPages, WalkIsComplete, NeverStuck
<1> QED
  BY <1>5, <1>6, <1>14, <1>15

\* The second statement and the connection: what is delivered joins the walk.
LEMMA BuildConnectionKeeps == ASSUME IInv, BuildConnection PROVE IInv'
<1> USE DEF IInv
<1>1. /\ pc = "listed" /\ Edges = page
      /\ got' = got \cup {k[2] : k \in page}
      /\ UNCHANGED <<title, detail, limit, page, hasNext, untouched>>
  BY DEF BuildConnection, Edges, WithinPage, library
<1>2. \A i \in untouched : i \in got' <=> Passed(i) \/ Key(i) \in page
  BY <1>1 DEF WithinPage, Key
<1>3. \A i \in untouched : Key(i) \in Keys
  BY DEF TypeOK, Present, Key, Keys
<1>4. ItemsAreWhole'
  BY <1>1 DEF ItemsAreWhole, Present
<1>5. got' \subseteq Ids
  BY <1>1 DEF TypeOK, Keys
<1>6. CASE ~hasNext
  <2>1. pc' = "ended" /\ after' = after
    BY <1>6 DEF BuildConnection
  <2>2. untouched \subseteq got'
    BY <1>2, <1>6, <1>1 DEF WithinPage
  <2> QED
    BY <1>1, <1>4, <1>5, <2>1, <2>2
       DEF TypeOK, Present, BetweenPages, WithinPage, WalkIsComplete, NeverStuck
<1>7. CASE hasNext /\ page = {}
  <2>1. pc' = "stuck" /\ after' = after
    BY <1>1, <1>7 DEF BuildConnection
  <2> QED
    BY <1>1, <1>4, <1>5, <1>7, <2>1
       DEF TypeOK, Present, BetweenPages, WithinPage, WalkIsComplete, NeverStuck
<1>8. CASE hasNext /\ page # {}
  <2>1. PICK k \in page : /\ \A l \in page : l = k \/ Less(l, k)
                         /\ after' = k /\ pc' = "idle"
    BY <1>1, <1>8 DEF BuildConnection
  <2>2. k \in Keys /\ k # NoCursor
    BY PaginationAssumption DEF TypeOK, Keys
  <2>3. ASSUME NEW i \in untouched PROVE i \in got' <=> ~Less(k, Key(i))
    <3>1. CASE Passed(i)
      <4>1. Less(after, k) /\ after \in Keys /\ ~Less(after, Key(i))
        BY <3>1, <1>1 DEF Passed, WithinPage, TypeOK
      <4>2. ~Less(k, Key(i))
        BY <4>1, <2>2, <1>3, LessIsTotalOrder
      <4> QED
        BY <4>2, <1>2, <3>1
    <3>2. CASE ~Passed(i)
      <4>1. Less(Key(i), k) => Key(i) \in page
        BY <3>2, <1>1 DEF WithinPage
      <4>2. Key(i) \in page <=> ~Less(k, Key(i))
        BY <4>1, <2>1, <2>2, <1>3, LessIsTotalOrder
      <4> QED
        BY <4>2, <1>2, <3>2
    <3> QED
      BY <3>1, <3>2
  <2>4. BetweenPages'
    BY <1>1, <2>1, <2>2, <2>3 DEF BetweenPages, Passed, Key
  <2> QED
    BY <1>1, <1>4, <1>5, <2>1, <2>2, <2>4
       DEF TypeOK, Present, WithinPage, WalkIsComplete, NeverStuck
<1> QED
  BY <1>6, <1>7, <1>8

\* A client may start over at any time.
LEMMA StartWalkKeeps == ASSUME IInv, StartWalk PROVE IInv'
<1> USE DEF IInv
<1>1. 0 \in 0..MAX_PAGE_SIZE
  BY PaginationAssumption
<1>2. /\ pc' = "idle" /\ limit' = 0 /\ after' = NoCursor /\ page' = {} /\ ~hasNext'
      /\ hasNext' \in BOOLEAN /\ got' = {} /\ untouched' = Present
      /\ UNCHANGED <<title, detail>>
  BY DEF StartWalk, library
<1>3. TypeOK'
  BY <1>1, <1>2 DEF TypeOK, Present
<1>4. ItemsAreWhole' /\ BetweenPages' /\ WithinPage' /\ WalkIsComplete' /\ NeverStuck'
  BY <1>2 DEF ItemsAreWhole, BetweenPages, WithinPage, Passed, WalkIsComplete, NeverStuck, Present
<1> QED
  BY <1>3, <1>4

\* A writer leaves the walk alone, and the keys of the rows it has not touched.
LEMMA WriterKeeps ==
  ASSUME IInv, UNCHANGED walk, untouched' \subseteq untouched, detail \subseteq detail',
         TypeOK', ItemsAreWhole', \A i \in untouched' : title'[i] = title[i]
  PROVE  IInv'
<1>1. \A i \in untouched' : i \in untouched /\ Key(i)' = Key(i) /\ Passed(i)' = Passed(i)
  BY DEF Key, Passed, walk
<1>2. BetweenPages'
  BY <1>1 DEF IInv, BetweenPages, walk
<1>3. WithinPage'
  BY <1>1 DEF IInv, WithinPage, walk
<1>4. WalkIsComplete' /\ NeverStuck'
  BY DEF IInv, WalkIsComplete, NeverStuck, walk
<1> QED
  BY <1>2, <1>3, <1>4 DEF IInv

\* Writers disturb only rows they touch.
LEMMA SeedKeeps == ASSUME IInv, Seed PROVE IInv'
<1> USE DEF IInv
<1>1. PICK i \in Ids : \/ \E t \in Titles : Insert(i, t) \/ Rename(i, t) \/ MoveIn(i, t)
                      \/ MoveOut(i)
  BY DEF Seed
<1>2. CASE \E t \in Titles : Insert(i, t) \/ MoveIn(i, t)
  <2>1. PICK t \in Titles : Insert(i, t) \/ MoveIn(i, t)
    BY <1>2
  <2>2. /\ title[i] = Absent /\ title' = [title EXCEPT ![i] = t]
        /\ detail' = detail \cup {i}
        /\ UNCHANGED walk /\ UNCHANGED untouched
    BY <2>1 DEF Insert, MoveIn
  <2>3. TypeOK' /\ ItemsAreWhole' /\ \A j \in untouched' : title'[j] = title[j]
    BY <2>2, PaginationAssumption DEF TypeOK, ItemsAreWhole, Present, walk
  <2> QED
    BY <2>2, <2>3, WriterKeeps
<1>3. CASE MoveOut(i) \/ \E t \in Titles : Rename(i, t)
  <2>1. PICK t \in Titles \cup {Absent} :
           /\ title[i] # Absent /\ title' = [title EXCEPT ![i] = t]
           /\ untouched' = untouched \ {i}
           /\ UNCHANGED detail /\ UNCHANGED walk
    BY <1>3 DEF MoveOut, Rename
  <2>2. TypeOK' /\ ItemsAreWhole' /\ \A j \in untouched' : title'[j] = title[j]
    BY <2>1 DEF TypeOK, ItemsAreWhole, Present, walk
  <2> QED
    BY <2>1, <2>2, WriterKeeps
<1> QED
  BY <1>1, <1>2, <1>3

\* In every walk, everything untouched up to the cursor has been delivered.
THEOREM IInvariance == Spec => []IInv
<1>1. IInv /\ [Next]_vars => IInv'
  <2> SUFFICES ASSUME IInv, [Next]_vars PROVE IInv'
    OBVIOUS
  <2>1. CASE Reader
    BY <2>1, ListPageKeeps, BuildConnectionKeeps, StartWalkKeeps DEF Reader
  <2>2. CASE Seed
    BY <2>2, SeedKeeps
  <2>3. CASE UNCHANGED vars
    BY <2>3 DEF vars, IInv, TypeOK, ItemsAreWhole, BetweenPages, WithinPage, Passed, Key,
                WalkIsComplete, NeverStuck, Present
  <2> QED
    BY <2>1, <2>2, <2>3 DEF Next
<1> QED
  BY <1>1, InitIInv, PTL DEF Spec

\* Rows, cursors and pages are well typed in every walk.
THEOREM WalkTypes == Spec => []TypeOK
  BY IInvariance, PTL DEF IInv

-----------------------------------------------------------------------------
\* A walk that ended has shown every row that stayed put meanwhile.
THEOREM Complete == Spec => []WalkIsComplete
<1>1. IInv => WalkIsComplete
  BY DEF IInv
<1> QED
  BY <1>1, IInvariance, PTL

\* hasNextPage always comes with a cursor, but for `first: 0`.
THEOREM Progress == Spec => []NeverStuck
<1>1. IInv => NeverStuck
  BY DEF IInv
<1> QED
  BY <1>1, IInvariance, PTL

\* No page shows a row that stayed put a second time.
THEOREM NoRepeats == Spec => NothingTwice
<1>1. IInv /\ [Next]_vars
        => [BuildConnection => {k[2] : k \in Edges} \cap got \cap untouched = {}]_vars
  <2> SUFFICES ASSUME IInv, pc = "listed", NEW k \in page,
                      k[2] \in got, k[2] \in untouched
               PROVE  FALSE
    BY DEF BuildConnection, Edges
  <2>1. k = Key(k[2]) /\ Passed(k[2]) /\ (after # NoCursor => Less(after, k))
    BY DEF IInv, WithinPage
  <2> QED
    BY <2>1 DEF Passed
<1> QED
  BY <1>1, IInvariance, PTL DEF Spec, NothingTwice
=============================================================================
