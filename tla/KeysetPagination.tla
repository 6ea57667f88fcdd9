-------------------------- MODULE KeysetPagination --------------------------
(***************************************************************************)
(* The forward Relay connections: albums, Album.items, Author.items and    *)
(* search.entries (graphql/pagination.py, the list_*_page statements of    *)
(* repositories/, and their resolvers).  A client walks one of them page   *)
(* by page while the seed, the bulk generator or a re-run of either commit *)
(* rows, rename them and move them between albums.                         *)
(*                                                                         *)
(* A page takes two statements, each with its own snapshot: the keyset     *)
(* page, then the songs and photos rows of its items.  A key is the pair   *)
(* <<sort value, id>>; a search orders by descending score, so there the   *)
(* sort value is the rank of the score.                                    *)
(***************************************************************************)
EXTENDS Integers, FiniteSets

CONSTANTS
    Ids,               \* primary keys that rows may have
    Titles,            \* sort values
    Firsts,            \* values of `first` the client uses
    Omitted,           \* `first` left out
    DEFAULT_PAGE_SIZE,
    MAX_PAGE_SIZE,
    Absent,            \* sort value of an id outside the collection
    NoCursor           \* null

ASSUME PaginationAssumption ==
    /\ Ids \subseteq Int /\ IsFiniteSet(Ids)
    /\ Titles \subseteq Int /\ Absent \notin Titles
    /\ NoCursor \notin Titles \X Ids
    /\ Firsts \subseteq Nat /\ Omitted \notin Int
    /\ MAX_PAGE_SIZE \in Nat \ {0} /\ DEFAULT_PAGE_SIZE \in 1..MAX_PAGE_SIZE

VARIABLES
    title,      \* committed: the sort value of each id in the collection
    detail,     \* committed: ids that have their songs or photos row
    pc,         \* the walk: between pages, between the statements of a page, over
    limit,      \* page size of the request
    after,      \* cursor the next page starts behind
    page,       \* keys the first statement found, truncated to the page size
    hasNext,    \* whether the probe row was there
    got,        \* ids delivered in this walk
    untouched   \* history: ids in the collection, with one key, since it began

library == <<title, detail>>
walk    == <<pc, limit, after, page, hasNext, got>>
vars    == <<title, detail, pc, limit, after, page, hasNext, got, untouched>>

Keys == Titles \X Ids

Present == {i \in Ids : title[i] # Absent}

Key(i) == <<title[i], i>>

TypeOK ==
    /\ title \in [Ids -> Titles \cup {Absent}]
    /\ detail \subseteq Ids
    /\ pc \in {"idle", "listed", "ended", "stuck"}
    /\ limit \in 0..MAX_PAGE_SIZE
    /\ after \in Keys \cup {NoCursor}
    /\ page \subseteq Keys
    /\ hasNext \in BOOLEAN
    /\ got \subseteq Ids
    /\ untouched \subseteq Present

Init ==
    /\ title \in [Ids -> Titles \cup {Absent}]
    /\ detail \in SUBSET Ids /\ Present \subseteq detail
    /\ pc = "idle"
    /\ limit = 0
    /\ after = NoCursor
    /\ page = {}
    /\ hasNext = FALSE
    /\ got = {}
    /\ untouched = Present

-----------------------------------------------------------------------------
\* Pages

\* ROW (title, id) > (:title, :id).
Less(k, l) == \/ k[1] < l[1]
              \/ k[1] = l[1] /\ k[2] < l[2]

\* Mutant of Rest: ROW (title, id) >= (:title, :id).
RestFrom(c) == {k \in {Key(i) : i \in Present} : c # NoCursor => ~Less(k, c)}

\* The rows of the WHERE clause.
Rest(c) == {k \in {Key(i) : i \in Present} : c # NoCursor => Less(c, k)}

\* ORDER BY title, id LIMIT n.
Smallest(keys, n) == {k \in keys : Cardinality({l \in keys : Less(l, k)}) < n}

\* Mutant of clamp_first: any page size is granted.
ClampDefaultOnly(first) == IF first = Omitted THEN DEFAULT_PAGE_SIZE ELSE first

clamp_first(first) ==
    IF first = Omitted THEN DEFAULT_PAGE_SIZE
    ELSE IF first < MAX_PAGE_SIZE THEN first ELSE MAX_PAGE_SIZE

\* Mutant of ProbeSize: has_next_page without a probe row.
ProbeSizeExact(n) == n

ProbeSize(n) == n + 1

\* First statement of a page.  A negative `first`, a `last` or a `before` is
\* refused before it.
ListPage(first) ==
    LET n == clamp_first(first)
        probe == Smallest(Rest(after), ProbeSize(n))
    IN  /\ pc = "idle"
        /\ limit' = n
        /\ page' = Smallest(probe, n)
        /\ hasNext' = (Cardinality(probe) > n)
        /\ pc' = "listed"
        /\ UNCHANGED <<library, after, got, untouched>>

\* Items without their songs or photos row are not in the entry map.
Edges == {k \in page : k[2] \in detail}

\* Second statement, and the answer.  The client goes on behind endCursor as
\* long as hasNextPage says so; a null endCursor leaves it nowhere to go on.
BuildConnection ==
    /\ pc = "listed"
    /\ got' = got \cup {k[2] : k \in Edges}
    /\ IF hasNext
       THEN \/ /\ Edges = {}
               /\ pc' = "stuck"
               /\ UNCHANGED after
            \/ \E k \in Edges :
                 /\ \A l \in Edges : l = k \/ Less(l, k)
                 /\ after' = k
                 /\ pc' = "idle"
       ELSE pc' = "ended" /\ UNCHANGED after
    /\ UNCHANGED <<library, limit, page, hasNext, untouched>>

\* The client, or another one, begins again without a cursor.
StartWalk ==
    /\ pc \in {"ended", "stuck"}
    /\ pc' = "idle"
    /\ after' = NoCursor
    /\ got' = {}
    /\ untouched' = Present
    /\ page' = {}
    /\ hasNext' = FALSE
    /\ limit' = 0
    /\ UNCHANGED library

-----------------------------------------------------------------------------
\* Writers.  Each of these is part of a transaction that has committed.

\* Mutant of Insert: the songs or photos row is left to a later transaction.
InsertItemOnly(i, t) ==
    /\ title[i] = Absent /\ i \notin detail
    /\ title' = [title EXCEPT ![i] = t]
    /\ UNCHANGED <<detail, walk, untouched>>

\* seed and generate-bulk-media: the row and its songs or photos row.
Insert(i, t) ==
    /\ title[i] = Absent /\ i \notin detail
    /\ title' = [title EXCEPT ![i] = t]
    /\ detail' = detail \cup {i}
    /\ UNCHANGED <<walk, untouched>>

\* A re-run of seed with other fixtures: a new title, ...
Rename(i, t) ==
    /\ title[i] \notin {Absent, t}
    /\ title' = [title EXCEPT ![i] = t]
    /\ untouched' = untouched \ {i}
    /\ UNCHANGED <<detail, walk>>

\* ... another album: the item leaves the one that is walked, ...
MoveOut(i) ==
    /\ title[i] # Absent
    /\ title' = [title EXCEPT ![i] = Absent]
    /\ untouched' = untouched \ {i}
    /\ UNCHANGED <<detail, walk>>

\* ... or comes into it.
MoveIn(i, t) ==
    /\ title[i] = Absent /\ i \in detail
    /\ title' = [title EXCEPT ![i] = t]
    /\ UNCHANGED <<detail, walk, untouched>>

Seed == \E i \in Ids :
    \/ \E t \in Titles : Insert(i, t) \/ Rename(i, t) \/ MoveIn(i, t)
    \/ MoveOut(i)

Reader ==
    \/ \E first \in Firsts \cup {Omitted} : ListPage(first)
    \/ BuildConnection
    \/ StartWalk

Next == Reader \/ Seed

Spec == Init /\ [][Next]_vars

-----------------------------------------------------------------------------
\* A walk that ran to its end has shown every row that was there all the time
\* under one title, whatever was inserted, renamed and moved between its pages
\* and between the two statements of each.
WalkIsComplete == pc = "ended" => untouched \subseteq got

\* No such row is shown twice, also not when the page sizes change on the way.
NothingTwice ==
    [][BuildConnection => {k[2] : k \in Edges} \cap got \cap untouched = {}]_vars

\* hasNextPage always comes with a cursor that leads on, unless the client asked
\* for no rows (`first: 0`).  It takes that the second statement never drops a
\* whole page, so no item may be visible before its songs or photos row.
NeverStuck == pc = "stuck" => limit = 0
=============================================================================
