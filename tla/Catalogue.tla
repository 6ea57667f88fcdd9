----------------------------- MODULE Catalogue -----------------------------
(***************************************************************************)
(* Who writes authors, albums, items and songs, and how they meet: seed    *)
(* (seed/seed_data.py), generate-bulk-data (seed/bulk_generate.py), both   *)
(* through seed/authors.py, and the backfill migration b2c3d4e5f6a7.       *)
(*                                                                         *)
(* A run is one transaction under READ COMMITTED, taken statement by       *)
(* statement.  It reads what is committed and what it wrote itself; it     *)
(* writes the columns that differ from the row it loaded; a row or a       *)
(* unique key another run has written stays locked until that run ends.    *)
(*                                                                         *)
(* A slug is a pair: the text slugify makes of a name, and the number the  *)
(* migration appends (1 for none).  No name ends in such a number.         *)
(***************************************************************************)
EXTENDS Naturals, FiniteSets, SequencesExt

CONSTANTS
    Runs,          \* processes
    Versions,      \* of the seed's fixtures
    Lines,         \* albums.json followed by home_sections.json, per version
    Bulk,          \* the command generate-bulk-data
    BulkArtists,   \* its ARTISTS
    BulkLines,     \* the albums and items it makes up
    Sorted,        \* the names of artists, as sorted() has them
    Base,          \* what slugify makes of a name
    Photographer,  \* PHOTOGRAPHER_NAME
    None           \* NULL, a blank name, no command

Names == ToSet(Sorted)

\* A line is an album, or an item as it is listed under an album or in a section;
\* an item may be listed twice.
Albums(lines) == {l \in ToSet(lines) : l.kind = "album"}
Items(lines) == {l \in ToSet(lines) : l.kind # "album"}

AllLines == {Lines[v] : v \in Versions} \cup {BulkLines}

\* An item has one kind.  An album is listed once, before the items that are in it
\* (slug_to_album); a song that names an author names one of its artist's slug (no
\* fixture names any).  The generator credits its own artists, makes up each slug
\* once, and its bulk-* slugs are its own.  No slug is NULL.
ASSUME CatalogueAssumption ==
    /\ DOMAIN Lines = Versions /\ DOMAIN Base = Names
    /\ Bulk \notin Versions /\ None \notin Versions \cup {Bulk} /\ None \notin Names
    /\ None \notin {Base[name] : name \in Names} \X Nat
    /\ Sorted \in Seq(Names)
    /\ BulkArtists \in Seq(Names) /\ Photographer \in Names

ASSUME LinesAssumption ==
    \A lines \in AllLines :
       /\ lines \in Seq(ToSet(lines))
       /\ \A l \in Items(lines) :
             /\ l.kind \in {"song", "photo"}
             /\ l.by \in Names \cup {None}
             /\ l.kind = "song" =>
                   /\ l.subtitle \in Names \cup {None}
                   /\ l.by # None => l.subtitle # None /\ Base[l.by] = Base[l.subtitle]
       /\ \A i \in DOMAIN lines : lines[i].kind # "album" /\ lines[i].album # None =>
             \E j \in 1..(i - 1) : lines[j].kind = "album" /\ lines[j].slug = lines[i].album
       /\ \A i, j \in DOMAIN lines :
             lines[i].kind = "album" /\ lines[j].kind = "album" /\ lines[i].slug = lines[j].slug => i = j

ASSUME SlugAssumption ==
    /\ \A lines, others \in AllLines : \A l \in Items(lines), m \in Items(others) :
          l.slug = m.slug => l.kind = m.kind
    /\ \A v \in Versions : \A l \in ToSet(Lines[v]), b \in ToSet(BulkLines) : l.slug # b.slug
    /\ \A l \in Items(BulkLines) :
          /\ l.kind = "song" => l.subtitle \in ToSet(BulkArtists)
          /\ l.by \in ToSet(BulkArtists) \cup {None}
    /\ \A i, j \in DOMAIN BulkLines :
          BulkLines[i].kind # "album" /\ BulkLines[j].kind # "album"
          /\ BulkLines[i].slug = BulkLines[j].slug => i = j

VARIABLES
    db,        \* the committed rows: a function of <<table, slug>>
    migrated,  \* whether b2c3d4e5f6a7 is applied
    run        \* the transaction of each process

vars == <<db, migrated, run>>

Empty == [k \in {} |-> None]

\* f @@ g of module TLC, which the proofs cannot expand.
Over(f, g) == [x \in DOMAIN f \cup DOMAIN g |-> IF x \in DOMAIN f THEN f[x] ELSE g[x]]

Idle == [command |-> None, line |-> 1, at |-> 1, seen |-> Empty, wrote |-> Empty]

Commands == Versions \cup {Bulk}

Init == db = Empty /\ migrated = FALSE /\ run = [r \in Runs |-> Idle]

Rows(table) == {k[2] : k \in {key \in DOMAIN db : key[1] = table}}

-----------------------------------------------------------------------------
\* The statements of a line, by number: 1 and 2 are about the album or the item, 3
\* and 4 about the author, 5 credits the item, 6 and 7 are about the song.  A line
\* has some of them.

slugify(name) == <<Base[name], 1>>

Select(table, slug) == [op |-> "select", key |-> <<table, slug>>]

\* Set cols on the row loaded before; insert it, with fresh, if there is none.
Save(table, slug, cols, fresh) ==
    [op |-> "save", key |-> <<table, slug>>, cols |-> cols, fresh |-> fresh]

get_or_create_author(name) ==
    IF name = None THEN Empty
    ELSE [n \in {3, 4} |->
            IF n = 3 THEN Select("author", slugify(name))
            ELSE Save("author", slugify(name), [name |-> name], Empty)]

\* The photographer is never renamed.
get_or_create_photographer ==
    [n \in {3, 4} |->
        IF n = 3 THEN Select("author", slugify(Photographer))
        ELSE Save("author", slugify(Photographer), Empty, [name |-> Photographer])]

\* The name a line credits; a photo without one goes to the photographer.
CreditOf(line) == IF line.by # None THEN line.by
                  ELSE IF line.kind = "song" THEN line.subtitle ELSE Photographer

Credit(line) ==
    IF line.kind # "song" /\ line.by = None THEN get_or_create_photographer
    ELSE get_or_create_author(CreditOf(line))

AuthorId(line) == IF CreditOf(line) = None THEN None ELSE slugify(CreditOf(line))

\* Mutant of AlbumColumn: a section's line, which names no album, clears it.
AlbumColumnAlways(line) == [album |-> line.album]

\* if album_id is not None
AlbumColumn(line) == IF line.album = None THEN Empty ELSE [album |-> line.album]

Texts(line) == [title |-> line.title, subtitle |-> line.subtitle]

SaveSong(line) == Save("song", line.slug, [artist |-> line.subtitle], Empty)

_get_or_create_album(line) ==
    [n \in {1, 2} |-> IF n = 1 THEN Select("album", line.slug)
                      ELSE Save("album", line.slug, Texts(line), Empty)]

\* The query for the author flushes what was set on the item before it.
_upsert_media_item(line) ==
    LET item == [n \in {1, 2, 5} |->
                   CASE n = 1 -> Select("item", line.slug)
                     [] n = 2 -> Save("item", line.slug, Over(AlbumColumn(line), Texts(line)),
                                      [kind |-> line.kind, album |-> None, author |-> None])
                     [] n = 5 -> Save("item", line.slug, [author |-> AuthorId(line)], Empty)]
        song == IF line.kind = "photo" THEN Empty
                ELSE [n \in {6, 7} |-> IF n = 6 THEN Select("song", line.slug) ELSE SaveSong(line)]
    IN  Over(item, Over(Credit(line), song))

SeedLine(line) == IF line.kind = "album" THEN _get_or_create_album(line)
                  ELSE _upsert_media_item(line)

\* Plain inserts, without a look at the table.
BulkLine(line) ==
    IF line.kind = "artist" THEN Credit(line)
    ELSE IF line.kind = "album"
    THEN [n \in {2} |-> Save("album", line.slug, Texts(line), Empty)]
    ELSE [n \in IF line.kind = "photo" THEN {2} ELSE {2, 7} |->
            IF n = 7 THEN SaveSong(line)
            ELSE Save("item", line.slug,
                      [title |-> line.title, subtitle |-> line.subtitle, kind |-> line.kind,
                       album |-> line.album, author |-> AuthorId(line)], Empty)]

\* ARTISTS and the photographer come first.
Credits == [i \in 1..(Len(BulkArtists) + 1) |->
    [kind |-> "artist", by |-> IF i <= Len(BulkArtists) THEN BulkArtists[i] ELSE None]]

Work == [c \in Commands |-> IF c = Bulk THEN Credits \o BulkLines ELSE Lines[c]]

Script == [c \in Commands |-> [l \in DOMAIN Work[c] |->
    IF c = Bulk THEN BulkLine(Work[c][l]) ELSE SeedLine(Work[c][l])]]

-----------------------------------------------------------------------------
\* The transactions

Running(r) == run[r].command # None

AtStep(r) == Running(r) /\ run[r].line \in DOMAIN Script[run[r].command]

Step(r) == Script[run[r].command][run[r].line][run[r].at]

First(c, l) == IF l \in DOMAIN Script[c] THEN Min(DOMAIN Script[c][l]) ELSE 1

\* r when it has executed its statement.
Moved(r) ==
    LET c == run[r].command
        l == run[r].line
        later == {n \in DOMAIN Script[c][l] : n > run[r].at}
    IN  IF later = {} THEN [run[r] EXCEPT !.line = l + 1, !.at = First(c, l + 1)]
        ELSE [run[r] EXCEPT !.at = Min(later)]

RowOf(rows, k) == IF k \in DOMAIN rows THEN rows[k] ELSE Empty

SetRow(rows, k, row) == [x \in DOMAIN rows \cup {k} |-> IF x = k THEN row ELSE rows[x]]

SetCols(rows, k, cols) == SetRow(rows, k, Over(cols, RowOf(rows, k)))

\* The row a statement of r sees: what is committed, and its own writes.
Visible(r, k) == Over(RowOf(run[r].wrote, k), RowOf(db, k))

LockedBy(k, r) == k \in DOMAIN run[r].wrote

\* What a save has to write: all of a new row, the differences to a loaded one.
Change(r) ==
    LET s == Step(r) IN
    IF s.key \notin DOMAIN run[r].seen THEN Over(s.cols, s.fresh)
    ELSE Restrict(s.cols, {c \in DOMAIN s.cols : s.cols[c] # run[r].seen[s.key][c]})

Writes(r) == AtStep(r) /\ Step(r).op = "save" /\ Change(r) # Empty

WaitsFor(r, s) == r # s /\ Writes(r) /\ LockedBy(Step(r).key, s)

\* Mutant of Rollback: the session stays open, its transaction goes on.
RollbackStaysOpen(r) == UNCHANGED run

Rollback(r) == run' = [run EXCEPT ![r] = Idle]

\* A command is started.  A deployment replaces the fixture when no seed runs.
Start(r, c) ==
    /\ migrated /\ ~Running(r)
    /\ c \in Versions => \A s \in Runs : run[s].command \in {None, Bulk, c}
    /\ run' = [run EXCEPT ![r] = [Idle EXCEPT !.command = c, !.at = First(c, 1)]]
    /\ UNCHANGED <<db, migrated>>

Query(r) ==
    /\ AtStep(r) /\ Step(r).op = "select"
    /\ LET k == Step(r).key
           t == run[r]
           found == k \in DOMAIN db \/ LockedBy(k, r)
       IN  run' = [run EXCEPT ![r] =
              [Moved(r) EXCEPT !.seen = IF found THEN SetRow(t.seen, k, Visible(r, k))
                                        ELSE Restrict(t.seen, DOMAIN t.seen \ {k})]]
    /\ UNCHANGED <<db, migrated>>

\* A new row's unique key is free, or the row was loaded and nobody holds it.
Flush(r) ==
    /\ AtStep(r) /\ Step(r).op = "save"
    /\ \A s \in Runs : ~WaitsFor(r, s)
    /\ LET k == Step(r).key
           t == run[r]
       IN  /\ k \in DOMAIN db => k \in DOMAIN t.seen
           /\ run' = [run EXCEPT ![r] =
                 [Moved(r) EXCEPT
                    !.seen = SetCols(t.seen, k, Change(r)),
                    !.wrote = IF Change(r) = Empty THEN t.wrote ELSE SetCols(t.wrote, k, Change(r))]]
    /\ UNCHANGED <<db, migrated>>

\* The insert of a row another run has committed since, or before.
IntegrityError(r) ==
    /\ AtStep(r) /\ Step(r).op = "save"
    /\ Step(r).key \in DOMAIN db /\ Step(r).key \notin DOMAIN run[r].seen
    /\ \A s \in Runs : ~WaitsFor(r, s)
    /\ Rollback(r)
    /\ UNCHANGED <<db, migrated>>

\* PostgreSQL ends a transaction that waits in a circle.
DeadlockDetected(r) ==
    /\ \E circle \in SUBSET Runs :
          r \in circle /\ \A s \in circle : \E t \in circle : WaitsFor(s, t)
    /\ Rollback(r)
    /\ UNCHANGED <<db, migrated>>

Killed(r) == Running(r) /\ Rollback(r) /\ UNCHANGED <<db, migrated>>

\* Mutant of Finished: every statement commits by itself.
FinishedEarly(r) == Running(r)

Finished(r) == Running(r) /\ ~AtStep(r)

Commit(r) ==
    /\ Finished(r)
    /\ db' = Over([k \in DOMAIN run[r].wrote |-> Visible(r, k)], db)
    /\ Rollback(r)
    /\ UNCHANGED migrated

-----------------------------------------------------------------------------
\* The migration.  The table of authors is empty before it: the revision before
\* created it, or downgrade emptied it.

Artists == {db[k].artist : k \in {key \in DOMAIN db : key[1] = "song"}} \ {None}

Place(name) == CHOOSE i \in DOMAIN Sorted : Sorted[i] = name

\* Mutant of BackfillSlug: without the loop that looks for a free suffix.
BackfillSlugPlain(artist) == slugify(artist)

\* The first free of slug, slug-2, slug-3, ... when the artists come sorted.
BackfillSlug(artist) ==
    <<Base[artist],
      Cardinality({a \in Artists : Base[a] = Base[artist] /\ Place(a) <= Place(artist)})>>

Backfill ==
    LET authors == [k \in {<<"author", BackfillSlug(a)>> : a \in Artists} |->
                       [name |-> CHOOSE a \in Artists : BackfillSlug(a) = k[2]]]
        named(artist) == {k[2] : k \in {key \in DOMAIN authors : authors[key].name = artist}}
        photographer == [k \in {<<"author", slugify(Photographer)>>} |-> [name |-> Photographer]]
        credit(slug) ==
            IF db[<<"item", slug>>].kind = "photo" THEN slugify(Photographer)
            ELSE LET found == named(db[<<"song", slug>>].artist)
                 IN  IF found = {} THEN None ELSE CHOOSE author \in found : TRUE
        items == [k \in {<<"item", slug>> : slug \in Rows("item")} |->
                     [db[k] EXCEPT !.author = credit(k[2])]]
    IN  /\ ~migrated /\ migrated' = TRUE
        /\ db' = Over(items, Over(authors, Over(photographer, db)))
        /\ UNCHANGED run

Downgrade ==
    /\ migrated /\ \A r \in Runs : ~Running(r)
    /\ migrated' = FALSE
    /\ db' = [k \in {key \in DOMAIN db : key[1] # "author"} |->
                 IF k[1] = "item" THEN [db[k] EXCEPT !.author = None] ELSE db[k]]
    /\ UNCHANGED run

Next ==
    \/ Backfill
    \/ Downgrade
    \/ \E r \in Runs :
          \/ \E c \in Commands : Start(r, c)
          \/ Query(r)
          \/ Flush(r)
          \/ IntegrityError(r)
          \/ DeadlockDetected(r)
          \/ Killed(r)
          \/ Commit(r)

\* A run that can go on does; PostgreSQL wakes the waiters of a lock in turn and
\* looks for circles.
Fairness ==
    \A r \in Runs :
       /\ SF_vars(Query(r) \/ Flush(r) \/ IntegrityError(r) \/ Commit(r))
       /\ WF_vars(DeadlockDetected(r))

Spec == Init /\ [][Next]_vars /\ Fairness

-----------------------------------------------------------------------------
\* Rows refer to rows, every song has its song row and nothing else has, and an
\* author's name slugifies to the author's slug.
TypeOK ==
    /\ migrated \in BOOLEAN
    /\ \A k \in DOMAIN db : k[1] \in {"album", "item", "song", "author"}
    /\ \A slug \in Rows("item") :
          LET row == db[<<"item", slug>>] IN
          /\ row.kind \in {"song", "photo"}
          /\ row.album \in Rows("album") \cup {None}
          /\ row.author \in Rows("author") \cup {None}
    /\ Rows("song") = {slug \in Rows("item") : db[<<"item", slug>>].kind = "song"}
    /\ \A slug \in Rows("author") :
          LET name == db[<<"author", slug>>].name IN name \in Names /\ Base[name] = slug[1]
    /\ \A r \in Runs : run[r].command \in Commands \cup {None} /\ (run[r] = Idle \/ Running(r))

\* Whoever wrote a song last - seed, generator or migration, alone or overlapping,
\* killed and run again, with two spellings of one slug - it is credited to an
\* author whose name has the slug of its artist, and to nobody if it has none
\* (get_or_create_author, authors.py; upgrade, b2c3d4e5f6a7:34).
CreditsFollowSlugs ==
    migrated => \A slug \in Rows("song") \cap Rows("item") :
        LET artist == db[<<"song", slug>>].artist
            author == db[<<"item", slug>>].author
        IN  IF artist = None THEN author = None
            ELSE author # None /\ Base[db[<<"author", author>>].name] = Base[artist]

\* Where an item is listed.
Listed(lines, slug) == {i \in DOMAIN lines : lines[i].kind # "album" /\ lines[i].slug = slug}

Published(lines) ==
    /\ \A a \in Albums(lines) : /\ db[<<"album", a.slug>>].title = a.title
                                 /\ db[<<"album", a.slug>>].subtitle = a.subtitle
    /\ \A l \in Items(lines) :
          LET last == lines[Max(Listed(lines, l.slug))]
              placed == {i \in Listed(lines, l.slug) : lines[i].album # None}
              row == db[<<"item", l.slug>>]
          IN  /\ row.title = last.title /\ row.subtitle = last.subtitle
              /\ row.author = AuthorId(last)
              /\ l.kind = "song" => db[<<"song", l.slug>>].artist = last.subtitle
              /\ placed # {} => row.album = lines[Max(placed)].album

\* A seed that commits has published its whole fixture, whatever the library held
\* before and whatever overlapped it: each item as it is listed last, under the
\* author of that line and in the last album that lists it, although a section
\* lists it again without one (run and _upsert_media_item, seed_data.py).
SeedPublishesFixture ==
    [][\A r \in Runs, v \in Versions :
          run[r].command = v /\ Commit(r) => Published(Lines[v])']_vars

\* No run waits for ever for a row or a unique key of another: it commits, fails or
\* is killed, although seed and generator insert authors in orders of their own.
EveryRunEnds == \A r \in Runs : Running(r) ~> ~Running(r)

=============================================================================
