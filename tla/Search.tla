------------------------------- MODULE Search -------------------------------
(***************************************************************************)
(* A search over the rows of the catalogue (graphql/queries.py,            *)
(* repositories/media_items.py, repositories/authors.py): items on their   *)
(* own, albums as cards that stand for their members, authors beside them, *)
(* possibly all within the kind of one section.  Each statement sees what  *)
(* is committed when it begins, and runs commit between them.              *)
(*                                                                         *)
(* pg_trgm and ILIKE are two relations: the texts a query matches, and the *)
(* names it matches best.  Order and pages are the subject of              *)
(* KeysetPagination: a search here finds all its entries at once.          *)
(***************************************************************************)
EXTENDS Catalogue

CONSTANTS
    Hits,    \* the titles, subtitles and names each query matches
    Best,    \* the names among them whose similarity is the greatest, 1
    Plain,   \* names whose slug keeps all of their trigrams
    Pinned,  \* the items each section's curated list names
    Limit    \* of search_authors

Queries == DOMAIN Hits
Sections == DOMAIN Pinned

\* slugify and pg_trgm cut an ASCII name into the same words.  A slug is Plain when
\* only such names have it: not "unknown", which stands for all names without a
\* word, nor one of a name whose letters slugify drops.  Typed in full, such a name
\* finds each of its spellings, with similarity 1.
ASSUME HitsAssumption ==
    /\ Plain \subseteq Names
    /\ \A q \in Queries :
          /\ None \notin Hits[q]
          /\ q \in Plain => {n \in Names : Base[n] = Base[q]} \subseteq Best[q] \cap Hits[q]

VARIABLE search  \* what the statements of a search have found so far

searchVars == <<vars, search>>

NoSearch == [pc |-> "idle", query |-> None, section |-> None, items |-> {}, albums |-> {},
             authors |-> {}, credited |-> {}]

SearchInit == Init /\ search = NoSearch

-----------------------------------------------------------------------------
\* Matches

Item(i) == db[<<"item", i>>]
Album(a) == db[<<"album", a>>]

Everything == {"song", "photo"}

\* The kinds a use of _section_kind_subquery may stand for: that of any one curated
\* item, chosen again by each use; none for a section without items.
Scope(s) ==
    IF s = None THEN {Everything}
    ELSE LET kinds == {{Item(i).kind} : i \in Pinned[s] \cap Rows("item")}
         IN  IF kinds = {} THEN {{}} ELSE kinds

\* The outer join with songs: a photo has no artist.
ByArtist(q, i) == i \in Rows("song") /\ db[<<"song", i>>].artist \in Hits[q]

own_match(q, i) == Item(i).title \in Hits[q] \/ Item(i).subtitle \in Hits[q] \/ ByArtist(q, i)

ParentMatch(q, i) == Item(i).album # None /\ Album(Item(i).album).title \in Hits[q]

_matched_album_ids(q, kinds) ==
    {a \in Rows("album") :
        /\ Album(a).title \in Hits[q] \/ Album(a).subtitle \in Hits[q]
        /\ kinds = Everything \/ \E i \in Rows("item") :
              Item(i).album = a /\ Item(i).kind \in kinds}

\* The media branch of _search_union: what matches by itself or by its album's
\* title, less the members of a matched album that do not match by themselves.
ItemEntries(q, kinds, folding) ==
    {i \in Rows("item") :
        /\ Item(i).kind \in kinds
        /\ own_match(q, i) \/ ParentMatch(q, i)
        /\ \/ Item(i).album = None
           \/ Item(i).album \notin _matched_album_ids(q, folding)
           \/ own_match(q, i)}

\* At most Limit of the authors that match, none of them less similar than one that
\* is left out.
Ranked(q, matches) ==
    {list \in SUBSET matches :
        /\ list = matches \/ Cardinality(list) = Limit
        /\ Cardinality(list) <= Limit
        /\ \A a \in list, b \in matches \ list :
              db[<<"author", b>>].name \in Best[q] => db[<<"author", a>>].name \in Best[q]}

\* Mutant of search_authors: in a section, only the authors of its curated items.
search_authors_curated(q, s, kinds) ==
    Ranked(q, {a \in Rows("author") :
        /\ db[<<"author", a>>].name \in Hits[q]
        /\ s = None \/ \E i \in Pinned[s] \cap Rows("item") :
              Item(i).author = a /\ Item(i).kind \in kinds})

\* The lists it may return.
search_authors(q, s, kinds) ==
    Ranked(q, {a \in Rows("author") :
        /\ db[<<"author", a>>].name \in Hits[q]
        /\ s = None \/ \E i \in Rows("item") :
              Item(i).author = a /\ Item(i).kind \in kinds})

-----------------------------------------------------------------------------
\* The statements

\* A song by an artist whose name has the slug of q.
SongBy(q, i) ==
    i \in Rows("song") /\ db[<<"song", i>>].artist # None /\ Base[db[<<"song", i>>].artist] = Base[q]

\* _search_union: the subquery is used three times.  credited is history: the songs
\* among the entries whose artist's name was typed in full.
FindEntries(q, s) ==
    /\ search.pc = "idle"
    /\ \E kinds, folding, cards \in Scope(s) :
          LET items == ItemEntries(q, kinds, folding)
          IN  search' = [NoSearch EXCEPT
                 !.pc = "items", !.query = q, !.section = s,
                 !.items = items, !.albums = _matched_album_ids(q, cards),
                 !.credited = IF migrated /\ q \in Plain THEN {i \in items : SongBy(q, i)} ELSE {}]
    /\ UNCHANGED vars

\* _hydrate_search_rows: an entry whose row is gone is dropped from the page.
HydrateItems ==
    /\ search.pc = "items"
    /\ search' = [search EXCEPT !.pc = "albums", !.items =
                     {i \in @ \cap Rows("item") : Item(i).kind = "song" => i \in Rows("song")}]
    /\ UNCHANGED vars

HydrateAlbums ==
    /\ search.pc = "albums"
    /\ search' = [search EXCEPT !.pc = "authors", !.albums = @ \cap Rows("album")]
    /\ UNCHANGED vars

FindAuthors ==
    /\ search.pc = "authors"
    /\ \E kinds \in Scope(search.section) :
          \E list \in search_authors(search.query, search.section, kinds) :
             search' = [search EXCEPT !.pc = "reply", !.authors = list]
    /\ UNCHANGED vars

ReplyToSearch ==
    /\ search.pc = "reply"
    /\ search' = NoSearch
    /\ UNCHANGED vars

SearchStep ==
    \/ \E q \in Queries, s \in Sections \cup {None} : FindEntries(q, s)
    \/ HydrateItems
    \/ HydrateAlbums
    \/ FindAuthors
    \/ ReplyToSearch

\* A step of the catalogue.  Downgrading deletes the authors: nobody is promised one.
CatalogueStep ==
    /\ Next
    /\ search' = [search EXCEPT !.credited = IF migrated' THEN @ ELSE {}]

SearchNext == SearchStep \/ CatalogueStep

SearchSpec == SearchInit /\ [][SearchNext]_searchVars /\ Fairness

-----------------------------------------------------------------------------
\* The entries a search still shows and has promised an author for.  In a section of
\* songs the author has to credit one of them when the list is read.
Owed ==
    {i \in search.credited \cap search.items :
        search.section # None => Scope(search.section) = {{"song"}} /\ SongBy(search.query, i)}

\* A song found by the full name of its artist comes with an author of that slug,
\* unless others as similar fill the list: although the authors are read three
\* statements later, whichever spelling the song and the author have by then, and
\* whether seed, generator or migration has credited the song in between.
AuthorsComeAlong ==
    [][FindAuthors /\ Owed # {} =>
          \/ \E a \in search'.authors : Base[db[<<"author", a>>].name] = Base[search.query]
          \/ /\ Cardinality(search'.authors) = Limit
             /\ \A a \in search'.authors : db[<<"author", a>>].name \in Best[search.query]]_searchVars

\* "its members fold into the album card" (tests/test_graphql_search.py:50): an album
\* that matches is shown instead of its members.  Violated: a member that matches by
\* its own artist or subtitle stays.
MembersFoldIntoMatchedAlbum ==
    \A q \in Queries : \A i \in ItemEntries(q, Everything, Everything) :
        Item(i).album \notin _matched_album_ids(q, Everything)

=============================================================================
