# Formal models of the Miya server

TLA+ models of `Miya-Service` (FastAPI, Strawberry GraphQL, SQLAlchemy on
PostgreSQL, media files on disk), TLC runs that check them on small instances,
and TLAPS proofs of what matters most for instances of any size. Paths below are
relative to `src/` of the repository, `miya_server/` stands for
`src/miya_server/`.

    tlc -config MCRefreshTokens.cfg MCRefreshTokens.tla      # one run
    tlapm RefreshTokensProofs.tla                            # one proof module

## 1. The system

One uvicorn process serves GraphQL and media files. Every request gets a session
of its own (`db/base.py`), so it is one PostgreSQL transaction under READ
COMMITTED: it sees the last committed rows at each statement, others see its
writes after its commit. Every `await` lets another request run. Four command
line programs (`seed`, `generate-bulk-data`, `ingest-media`,
`backfill-thumbnails`) write to the same database and to `MEDIA_ROOT` while the
server runs; each of them is one process and (the bulk generator: two)
transactions.

| component | state it keeps | operations | what is hard |
|---|---|---|---|
| Refresh-token store, `auth/tokens.py`, `db/models/user.py` | `users`, `refresh_tokens` (hash, `revoked_at`, `replaced_by_id`, `expires_at`) | issue, redeem and rotate, revoke chain, sign out | check-then-act across awaits, row locks, a commit that has to precede an exception, replies lost after a commit |
| Auth mutations, `graphql/mutations.py` | none; transaction boundaries | `signInWithGoogle`, `refreshSession`, `signOut` | one transaction each, except that `_revoke_chain` commits by itself |
| User upsert, `repositories/users.py` | `users` row, cached profile | find, then insert or update, by `google_sub` | two first sign-ins at once, two sign-ins that update one row |
| Google sign-in, `auth/google.py` | JWKS cache | code exchange, `id_token` verification | external |
| Access tokens, context, permissions, `auth/tokens.py:32-55`, `graphql/context.py`, `graphql/permissions.py` | the JWT, the viewer of a request | mint, verify, resolve the viewer once, gate each field | good until they expire, whatever is revoked |
| Request-scoped session, loaders and pool, `graphql/context.py`, `db/base.py`, `repositories/{authors,albums}.py` | a lock, two loader queues, the connection of each request | `execute`, `flush`, `commit`, batched loads, close | sibling resolvers run concurrently on one connection, go on after an error has answered the request, and compete with downloads for the pool |
| Media links and router, `media/storage.py`, `media/router.py` | none on the server; the clients' HTTP caches | build and verify signed URLs, send original or thumbnail | expiry on an hourly grid and checked once, before the row is read and the file streamed; fallback bytes under an immutable URL |
| Ingest, `media/ingest.py` | `media_files`, foreign keys, files on disk | list, skip, look up by checksum, copy, thumbnail, insert, link, one commit for a directory | disk before database, kills, overlapping runs, sources that change, two files of one stem, rows that are not seeded yet |
| Thumbnails, `media/thumbnails.py` | thumbnail columns and files | backfill | the same, against a live server |
| Pagination, `graphql/pagination.py`, `repositories/{albums,media_items}.py`, `graphql/types/*` | none; cursors held by clients | keyset page, probe row, second statement, connection | rows that move between pages and between the statements of a page |
| Search, `repositories/media_items.py:109-287`, `repositories/authors.py` | none | trigram union of items and album cards, authors, scope of a section | four statements with four snapshots, beside runs that create, rename and delete authors; each subquery picks the kind of a section anew |
| Home sections, `repositories/sections.py`, `db/models/{section,associations}.py` | `sections`, `section_items`, `section_albums` | two statements merged into one list | two sort orders, two snapshots |
| Seed, `seed/seed_data.py`, `seed/authors.py` | all content rows | upsert by slug, get or create an author, delete and insert links | re-runs, overlap with the bulk generator and with another seed, two spellings of one artist |
| Bulk generator, `seed/bulk_generate.py` | `bulk-*` rows, links of a sample | generate, `--relink-sections`, `--clean` | appends behind what is there when it looks |
| Backfill of authors, `migrations/versions/b2c3d4e5f6a7` | `authors`, `media_items.author_id` | upgrade, downgrade | gives slugs by another rule than the seed |
| Schema, other migrations, configuration, scripts | DDL | run once | - |

Components meet in three places: the database (all of them), `MEDIA_ROOT`
(ingest, backfill, router), and what a client carries from one request into the
next (tokens, URLs, cursors). `PROJECT.json` lists every component with its
status and every hazard with its line and the properties that cover it.

What makes each component correct:

* tokens: a redemption burns what it redeems in the transaction that issues the
  successor; no reply announces what is not durable; a user is signed out by
  nobody else; after lock-out only a sign-in helps; a token is used once, and
  nothing survives the detection of reuse; no request hangs.
* links: a URL lives at least its TTL and hardly longer; only URLs the server
  handed out open anything; fallback bytes are soon out of reach.
* access: revocation touches only the database, so what it stops, it stops with a
  delay: the delay is bounded, from the last session's death to the last request a
  link lets in. What was let in streams on.
* sessions of requests: one statement at a time on a connection; nothing of the
  library is read for a request without a viewer (`Query.viewer` and the mutations
  are ungated on purpose); every request ends, and leaves no lock and no connection
  behind.
* catalogue: every song is credited to an author with the slug of its artist,
  whoever wrote it; a seed that commits has published its fixture; no run waits
  for another for ever.
* search: a song found by the full name of its artist brings an author of that
  name, although the authors are read three statements later.
* media: a visible row has its bytes, whole, for ever; thumbnails are whole and
  of their row; one row per content; a committed run has published the last file
  of every row that is there, and touched no other; a repeated run changes nothing.
* pagination: a walk that ends has shown every row that stayed put, once, and
  never stops without a cursor.
* sections: replies are totally ordered; a bulk sample stays behind; re-runs
  change nothing.

## 2. Modules

| module | stands for | state and actions |
|---|---|---|
| `SessionFamilies` | the promise of the token store, one step per operation | `owner`, `revoked`, `parent`; `SignIn`, `Refresh`, `Reuse`, `SignOut` |
| `RefreshTokens` | tokens.py, users.py, mutations.py at the grain of SQL statements | rows `users`, `owner`, `revoked`, `replacedBy`, the set `expired`, a record per request in progress (`req`) with its next statement in `pc`, and the tokens clients received (`known`); history: `parent`, `condemned` |
| `MediaLinks` | storage.py, router.py, a caching client | the clock, when a thumbnail was committed, the link last handed out, all URLs, the cache, a record per media request (`download`); `Accept`, `Find`, `Deliver`, `Abort` are its signature check, its SELECT, its last byte and its other ends |
| `MediaLibrary` | ingest.py, thumbnails.py | the operator's files (`source`), rows they may stand for (`named`), disk (`original`, `thumb`), committed rows (`checksum`, `thumbed`, `primary`, `image`), a record per process |
| `KeysetPagination` | pagination.py, the paged resolvers and statements, their concurrent writers | sort value and detail row of each id; one walk (`pc`, `limit`, `after`, `page`, `hasNext`, `got`); history: `untouched` |
| `HomeSections` | seed_data.py `_seed_sections`, bulk_generate.py linking, sections.py | one section: `order` of each slot, a record per command with its next statement, one reader between its statements; history: `seeded`, `linked`, `orderly` |
| `AccessTokens` | mint/verify of tokens.py, context.py, permissions.py, composed with `SessionFamilies` and `MediaLinks` | the variables of both, `minted`, a record per query; `SignIn`, `RefreshSession`, `ReuseDetected`, `SignOut`, `Admit`, `BuildFor`, `Reply`, `Media`, `PassTime`; history: `lockedAt`, `heldBy` |
| `RequestSessions` | context.py, permissions.py, base.py, the loaders, what the router does to the pool | a record per GraphQL request (`stage`, `doc`, `at`, `loads`, `inFlight`, `holder`, `running`, `conn`, `aborted`), the state of each download |
| `Catalogue` | `_seed_albums`, `_upsert_media_item`, authors.py, `_generate`, the backfill of authors | committed rows `db`, a record per run (`command`, the statement at `line` and `at`, `seen`, `wrote`), `migrated` |
| `Search` | the `search` resolver with `_search_union`, `_matched_album_ids`, `_hydrate_search_rows`, `search_authors` | extends `Catalogue` by `search`, what the statements so far have found; `FindEntries`, `HydrateItems`, `HydrateAlbums`, `FindAuthors`, `ReplyToSearch` interleave with the runs |
| `RefreshTokensProofs`, `MediaLinksProofs`, `MediaLibraryProofs`, `KeysetPaginationProofs`, `HomeSectionsProofs`, `AccessTokensProofs`, `RequestSessionsProofs`, `CatalogueProofs` | theorems | - |
| `MCRefreshTokens`, `MCMediaLibrary`, `MCKeysetPagination`, `MCHomeSections`, `MCAccessTokens`, `MCRequestSessions`, `MCSearch` | sets, documents, fixtures and symmetry for TLC | - |

`SessionFamilies` stands between two modules: `RefreshTokens` instantiates it and
states that it implements it (`ImplementsFamilies`); `AccessTokens` takes it, in
place of the statements, as the part of the system that issues and revokes.
Definitions named "Mutant of ..." in a comment are not part of any
specification: each is a definition with a plausible mistake, and replacing the
original by it makes TLC find a violation of the property `PROJECT.json` pairs
it with. They show that the properties can fail.

### How the code appears

* **A request is a sequence of statements.** `RedeemLookup` is the SELECT of
  `redeem_refresh_token` with its three tests; `RedeemRotate` the INSERT of the
  replacement and the UPDATE of the presented row, which waits for its row lock
  (`Locked`); `CommitRefresh` the commit in the resolver. Rows appear in the
  variables at the commit; what an open transaction has written is visible only
  through the locks it holds (`HoldsRow`, `InsertsUser`).
* **`_revoke_chain` locks row by row.** The UPDATE sees the rows committed when
  it starts (`RevokeChainSnapshot`), locks the unrevoked ones of them one after
  the other, in an order nothing fixes (`LockChainRow`), keeps what it has while it
  waits, and is committed before the exception. Two chain updates of one user can
  so wait for each other. PostgreSQL ends one of them (`DeadlockDetected`), whose
  client gets an error that is no `AuthError`.
* **A sign-in updates the `users` row** only if the profile differs from what is
  cached; then it holds that row's lock until its commit (`UpdateUser`,
  `commit_profile`). What the profile says is abstracted.
* **`Drop`** is a killed process or a closed connection: before the commit a
  rollback, after it a lost reply.
* **Clients** present tokens they received (`known`) or garbage (`NoToken`), in
  any order and as often as they like, from several devices.
* **Hashes and signatures are ideal**: a token is its row, an HMAC is the pair it
  was computed over.
* **An UPDATE that waits for a row lock** is applied, in `MediaLibrary`, at the
  commit of its transaction; the ORM's habit of writing only the columns that
  differ from what was loaded is kept (`loaded`, `Written`), since that decides
  whether the two columns of a photo agree. What a photo, a cover and a portrait
  differ in is the second foreign key, so `Photos` is the only distinction; audio
  files take the path of an image Pillow cannot decode.
* **A file stands for a slot** (`Target`), a foreign key of the row its stem and
  extension name. It is passed over (`SkipFile`) if no such row is committed or its
  extension fits none (ingest.py:139-140, 173, 181); several files of one stem, say
  `x.heic` and `x.jpg`, stand for one slot and write it in sorted order. The two tests
  `song is not None` and `photo is not None` (152, 164) have no branch of their own:
  seed and generator commit an item together with its song or photo (`TypeOK` of
  `Catalogue`), and nothing deletes those, so the row is there when its item is.
* **A media request** is let in by its signature (`Accept`), then waits for a
  connection and its SELECT (`Find`), then streams (`Deliver`). Time passes between
  any two of these, and the expiry is not looked at again: what `ExposureIsBounded`
  bounds is `Accept`.
* **Kills are between any two steps**, including inside a `copy2` or a
  `write_bytes` (the value `Partial`).
* **A page of a connection is two statements with two snapshots**, and the client
  that walks changes its page size as it likes. Search orders by descending
  score; there a sort value is a rank. The code deletes no media item, so a page
  loses rows between its statements only if an item is visible before its
  `songs`/`photos` row, which the writers' single commit rules out (`ItemsAreWhole`
  in the proofs).
* **Time** is one clock in seconds for tokens and links. A query is answered within
  `RequestTime` seconds of its admission; this is an assumption about the
  deployment, without it an admitted query could build links for ever. The code
  mints the access token a moment before it commits; the model mints with the
  commit, so the token is good for a moment longer, never shorter. Only a user's
  newest access token is kept: the older ones expire before it.
* **A query document** is a set of fields that touch the database, each with the
  statements and keys it awaits in turn (`Documents`, `Parent`, `Needs`); a mutation
  is a root field without a gate (`Ungated`) that may raise after a statement and
  ends with a commit, which gives the connection back. A viewer lookup may find no
  user (a deleted account). `Close` sends its ROLLBACK past the lock: a field that
  executes meanwhile is refused by the driver (`Refuse`), and with a statement in
  progress the ROLLBACK itself is. What graphql-core,
  DataLoader, FastAPI and the pool do is external and listed at the head of
  `RequestSessions`: an error does not stop the siblings of a field, the session
  is closed after the reply, a checkout gives up in the end.
* **A seed or bulk run is one transaction**: lines of SELECTs and saves (`Work`,
  `Script`). The statements of a line have fixed numbers - the album or the item,
  its author, the credit, the song - of which a line has some, so that a
  proof can name them. A save writes the columns that differ from the row the run loaded;
  what it wrote is an overlay (`wrote`) that others see at the commit and that
  holds row locks and unique keys until then. Overlapping seeds read one version
  of the fixture: it ships with the code. Columns that no
  property speaks of (detail, the names of images) are left out.
* **A slug is a pair**, the text `slugify` makes of a name and the number the
  migration appends. Names that end in such a number are left out. `CreditsFollowSlugs`
  reads "the author's name has the slug of the song's artist", since the rename in
  `get_or_create_author` makes two spellings share a row.
* **What a query matches** (`%`, `ILIKE`) is a relation from queries to texts
  (`Hits`), with the names among them that match with similarity 1 (`Best`), which
  the list of at most `Limit` authors prefers. One thing is assumed (`HitsAssumption`),
  and only of `Plain` names, those whose slug only ASCII names have: typed in full,
  such a name matches every name of its slug with similarity 1, because `slugify`
  and pg_trgm cut ASCII text into the same words. Names with letters `slugify`
  drops, and those that become `unknown` (authors.py:24-25), are not `Plain`, and
  nothing is promised of them.
* **The kind of a section** is that of any one curated item (`LIMIT 1` without an
  order), chosen by each of the four subqueries of a search for itself (`Scope`).
* **Each statement of a search sees what is committed when it runs**: an entry whose
  row is gone by then is dropped, an author list may be newer than the entries.
* **Home sections** models one section; the sections of a fixture do not share
  link rows. Fixtures name no `bulk-*` row, and no list names a slot twice
  (`SectionAssumption`).

## 3. Runs

All runs explore the complete state graph of their instance.

| run | instance | what it shows |
|---|---|---|
| `refresh_tokens` | 2 users, 3 tokens, 2 requests | every interleaving, row lock by row lock: `SuccessorBurnsOriginal`, `RepliesAreCommitted`, `OnlySignInReopens`, `RevocationsAreOwned` |
| `refresh_tokens_serial` | the same, no two open requests of one account (`SerialSpec`) | `SingleUse`, `ReuseLeavesNoSurvivor`, and the refinement `ImplementsFamilies` |
| `refresh_tokens_live` | 1 user, 3 tokens, 2 requests, `FairSpec` | `EveryRequestEnds`: no request waits for ever for a row of a chain, of a user, or for the unique index, circular waits included |
| `single_use_race` | 1 user, 3 tokens, 2 requests | **violated**: `SingleUse` when two redemptions of one token overlap |
| `media_links` | TTL 3, bucket 2, access TTL 2, queries within 1, clock to 7; 1 user, 3 refresh tokens, 1 query, one image, 1 download | `LinkOutlivesTtl`, `FallbackIsShortLived`, `ExposureIsBounded` |
| `media_library` | 2 slots with a file each, all rows seeded and every ingest given the whole directory (`SeededSpec`), 2 contents, 2 files, 2 ingests, 1 backfill, sources edited at any time, with and without files from before there were thumbnails | `RowsHaveBytes`, `ThumbsAreWhole`, `BytesAreImmutable` |
| `media_library_operator` | one process at a time, sources edited and rows seeded only in between, any part of a directory of two images of one photo and the audio of a song, 3 files | `OneRowPerContent`, `ChecksumIsTrue`, `PhotoColumnsAgree`, `IngestPublishes`, `ReingestIsNoOp` |
| `keyset_pagination` | 4 ids, 2 sort values, `first` omitted, 0, 1 or 3, capped at 2 | `WalkIsComplete`, `NothingTwice`, `NeverStuck` |
| `home_sections` | 4 curated songs (one folded into a card), one card, bulk rows, two fixtures, three samples, 2 commands, 1 reader | `SeedIsIdempotent`, `RelinkIsNoOp` under every overlap; `ReplyIsOrdered`, `BulkSortsLast` while commands come in turn and seed first |
| `request_sessions` | 2 requests, each for a document of 5 fields (statements, nested fields, two keys of one loader) or for a mutation, 1 download, a pool of 1 connection | `OneStatementAtATime`, `LibraryNeedsViewer`, `EveryQueryEnds` |
| `catalogue` | 2 processes, 2 versions of a fixture, a bulk run, 2 spellings of one artist, migration up and down, one search at a time for a name, everywhere or in a section; a search overlaps one run (`BoundedSpec`) | `CreditsFollowSlugs`, `AuthorsComeAlong`, `SeedPublishesFixture`, `EveryRunEnds` |
| `search_folding` | the same data, one seed or generator (`OneRun`) beside the migration, `SearchSpec` without a further bound | **violated**: `MembersFoldIntoMatchedAlbum`; members that match by their own artist are listed beside the card |

Why these bounds. *Tokens*: a race needs two requests; three tokens are a token,
its successor and one more (a second successor, a second session or a sign-in
after lock-out); two users let one disturb the other. *Links*: the clock runs
through several buckets, the TTL is no multiple of the bucket, and both
are small enough that every offset of a build within a bucket occurs; `Horizon` is
past `Exposure`, so that a request could be let in too late. *Sessions*: a pool
of one is exhausted by one download or by the other query; the document has a
root field whose error is the reply, a field under a field, and two loads that
may share a batch or not. *Catalogue*: the song is listed in its album and again
in a section, under the other spelling; the second version moves an item into an
album, takes an artist away and credits a photo by name; fixture and bulk run
insert their authors in opposite orders, which makes them deadlock. Two runs
overlap whenever no search is under way, and a search with each step of one run,
so that rows come, change and go between its statements; `Limit` is as small as the
number of spellings, so a list can be full. *Media*:
two files are enough for a duplicate, for an edit and for one orphan that is in
the way; one of two slots is a photo, one of two contents cannot be decoded.
Overlapping ingests are given the same whole directory, which is what makes them
collide; skipped files, partial directories and two files of one stem are left to
the run of the operator, whose claims they matter to. That one has three files, so
that a slot can be edited and edited back. *Pagination*: four ids and two titles give ties inside a page, at its end
and after it; the cap is exceeded by a page size. *Sections*: the fixture is the
"music" section in short: songs, one of them a member of the card that follows.

Symmetry is declared only where no set is ordered by the specification, and not in
the liveness run.

`BytesAreImmutable` and `ThumbsAreWhole` are claimed of one backfill at a time. Two
overlapping ones can truncate a thumbnail whose columns the first has committed,
for the length of one `write_bytes`; nothing in the repository speaks of running
two.

The deadlock check is off only in the links model, whose clock stops at
`Horizon`; all other systems can always take another step.

### Fairness

Three runs assume some.

* `RefreshTokens!FairSpec`: strong fairness of a request's next statement (the
  event loop runs whatever can run, and PostgreSQL wakes the waiters of a lock in
  order, so a waiter is not overtaken for ever), weak fairness of its reply
  (`Answer`) and of PostgreSQL's deadlock detector. Clients owe nothing: they may never send another request. The clock
  stands still in that run; an expired token only ends its request sooner.
* `RequestSessions!Spec`: weak fairness of the steps of each query taken together.
  It suffices, because a query that waits for a connection can always give up
  (`CheckoutTimeout` is `pool_timeout`). Downloads have none: a client may stop
  reading a file and keep the connection.
* `Catalogue!Spec`: strong fairness of each run's next statement, as above, and weak
  fairness of PostgreSQL's deadlock detector. Nobody has to start a command.

### Findings

Each is a run with a counterexample, with the text it contradicts in
`PROJECT.json`:

* refresh tokens are not single-use under overlap (`auth/tokens.py:116`: the row
  is read without `FOR UPDATE`);
* a search that matches an album does not fold all members into its card
  (`repositories/media_items.py:216`: a member that matches by itself stays),
  where a test expects the members gone.

Met while modelling and not made runs: a client that lost the reply of a refresh
and tries again revokes its own family (`RedeemLookup`, reuse); two overlapping
ingests of one file leave two rows with one checksum, and every later ingest of
that content raises (`pc = "ambiguous"` in `MediaLibrary`); bulk albums come between
curated songs, whose sort orders count only songs (`NextOrder`); of two overlapping
first sign-ins one ends in an `IntegrityError` rather than an
`AuthError` (`InsertUser`); a fixture's mix of songs and cards is not kept by two
counters (`Numbered`); a source edited during a run is stored under the checksum
of bytes nobody has (`AddRow`; this is why `media_library_operator` keeps sources
at rest); a `/thumb` URL fetched before the backfill is cached with the
original's bytes (`FallbackIsShortLived` bounds how long such links are handed
out); two overlapping seeds of an empty database end with one `IntegrityError`
(`Catalogue!IntegrityError`); the victim of two chain revocations that deadlock is
answered with a database error rather than an `AuthError` (`DeadlockDetected`); a
download that is let in a second before its link expires may stream for as long as
its client likes (`Accept`, `Deliver`); a download that nobody reads keeps its connection, so
that as many as the pool holds make every query fail by timeout (`Stream`).

## 4. Proofs

For all values of the constants, from the assumptions in the modules: `NoValues`
(null values are no users and no tokens), `TimesAreNatural`,
`PaginationAssumption` (ids finite and ordered, 1 <= default page size <= maximum),
`AccessAssumption` (an access token lives at least a second), `SessionAssumption`
(every field has a parent or none and needs something; a mutation is a root field
and loads nothing; names are distinct; the pool is not empty), `LibraryAssumption`
(names of files are numbers in their sorted order, each stands for a slot or none;
no file is being written under the name of a content), `SectionAssumption` (finitely many slots; a
fixture and a sample have none in common), `CatalogueAssumption`,
`LinesAssumption`, `SlugAssumption`, `HitsAssumption` (what the full name of a `Plain`
artist finds, see section 2; nothing is assumed of other names, of the other texts a
query matches, or of what a section lists). Nothing bounds the number
of users, tokens, requests, files, fixtures, rows, processes or steps.

What the three assumptions on the catalogue ask of its inputs: an album is listed
once and before its items (`slug_to_album` needs that), an item has one kind
wherever it is listed, and a song that names an author (the code allows it,
no fixture does it) names one with the slug of its artist, without which
`CreditsFollowSlugs` is false as written; the generator makes up every slug once,
with a prefix no fixture uses, and credits artists of its own list; a slug is not
NULL.

Two hypotheses are stated in theorems, because the properties fail without them.
`BackfillsApart`: no two backfills at once (`ThumbsWhole`, `Immutability`; see
section 3). `OneSetOfSlots`: all versions of a fixture list the same slots, in
whatever order (`RepliesAreOrdered`, `BulkStaysBehind`). The seed numbers a slot
the fixture has gained with an order that a bulk row may already have, and one
it has lost keeps its link; then rows are tied, and the code does not say in
which order it sends them.

| theorem | statement | argument |
|---|---|---|
| `RefreshTokensProofs!Invariance`, `TypeCorrect`, `Rotation`, `Durability` | `Spec => []Inv`, and `TypeOK`, `SuccessorBurnsOriginal`, `RepliesAreCommitted` | `Inv` adds what those need to be inductive: a drawn token is private until its commit (`DrawnTokensArePrivate`), and what a request has read about its token stays true (`RequestsReadIssuedRows`) |
| `Ownership`, `Lockout` | `RevocationsAreOwned`, `OnlySignInReopens` | step by step from `Inv`; `RowWriters` reduces `Next` to the four commits |
| `SerialInvariance`, `SerialSingleUse`, `SerialReuse` | `SerialSpec => []SingleUse`, `[]ReuseLeavesNoSurvivor` | without overlap a token being redeemed is still live and the snapshot of a chain is still the whole family (`SerialReadsStayCurrent`); condemned families are closed under succession |
| `Refinement` | `SerialSpec => ImplementsFamilies` | each commit is one step of `SessionFamilies`, every other statement a stutter |
| `MediaLinksProofs!LinksInvariance`, `LinksTypeCorrect`, `Lifetime`, `Openness`, `Freshness` | types, `LinkOutlivesTtl`, `OnlyBuiltLinksOpen`, `FallbackIsShortLived` | `RoundUpBounds`: the grid adds less than a bucket; a stale cache entry was built before the thumbnail |
| `AccessTokensProofs!Composition`, `SystemLinks`, `SystemTypeCorrect` | `SystemSpec => Spec /\ Families!Spec`, and the properties of the links in the composed system | each step is one of a part and a stutter of the other, so that the theorems above carry over |
| `BoundedExposure` | `SystemSpec => ExposureIsBounded` | a chain of four bounds from lock-out on (`ExposureInv`): the newest access token was minted while a session lived, a query was admitted while it was good, a link was built while the query ran, a request is let in while the link is open |
| `RequestSessionsProofs!SessionInvariance`, `SessionTypes`, `Serialized`, `Gated` | `[]SessionInv`, and `TypeOK`, `OneStatementAtATime`, `LibraryNeedsViewer`, for every document | a statement in progress is the lock holder's, and a rollback begins only when there is none; batches in flight are disjoint and sent; a field below the root has got somewhere only if a root field has, and that one had a viewer |
| `CatalogueProofs!Invariance`, `TypeCorrect`, `Credited` | `Spec => []Inv`, and `TypeOK`, `CreditsFollowSlugs` under every overlap of seeds, generators, kills and migrations | committed rows are complete and refer to rows, a transaction holds what it wrote in rows nobody else writes; at its end every statement is past, and the row of a song and the credit of its item were set by lines of one name (`CommittedRows`); the migration gives two artists two slugs (`BackfillSlugsDiffer`) |
| `Publication` | `SeedPublishesFixture`, for every fixture | `LastIsDone`: what a past statement was the last of its command to set is still visible |
| `SearchInvariance`, `SearchesFindAuthors` | `SearchSpec => AuthorsComeAlong` | a search only reads (`SearchesOnlyRead`), so that types and credits hold of what each statement sees; once a song by the name has been found, an author of its slug is there (`SongsHaveAuthors`), and stays whatever is committed (`AuthorsStay`): runs rename within a slug and nothing but the downgrade deletes; all its names are similar to the full name, so only names as similar can take its place in the list |
| `KeysetPaginationProofs!IInvariance`, `WalkTypes`, `Complete`, `Progress`, `NoRepeats` | types and the three properties of a walk | `IInv`: everything untouched up to the cursor has been delivered, everything delivered and untouched is not behind it; `PageHasNoGaps` and `ProbeIsTruthful` are the facts about keyset pages it rests on |
| `MediaLibraryProofs!Invariance`, `TypeCorrect`, `VisibleRowsHaveBytes`, `OriginalsImmutable` | `Spec => []Inv`, and `TypeOK`, `RowsHaveBytes`; no step writes the original of a row | rows staged by a process have their bytes; the file a process has drawn is nobody else's and no row's, so that a copy or a kill in its middle touches no row |
| `ThumbInvariance`, `ThumbsWhole`, `Immutability` | `ThumbsAreWhole`, `BytesAreImmutable`, while backfills do not overlap | a thumbnail that is staged, or visible, is whole; the backfill at work is the only writer of thumbnails of rows, and it loads only rows without one |
| `OperatorInvariance`, `ContentHasOneRow`, `TrueChecksums`, `OnePhotoFile`, `LookupIsUnambiguous`, `Publication`, `Reingestion` | `OperatorSpec => []OneRowPerContent`, and the other properties of the operator's runs | rows and staged rows have different checksums, each that of its bytes; what was loaded is what the transaction would read now; a slot is left alone or will lead to the bytes of the last of its files that are done (`SlotsAreDone`), and a file passed over is none of them |
| `HomeSectionsProofs!Invariance`, `TypeCorrect`, `SeedAgain`, `RelinkAgain` | `TypeOK`, `SeedIsIdempotent`, `RelinkIsNoOp` under every overlap | `SeedInPlace`: until another fixture is committed, every slot of the last one has the number the next seed would give it; samples and fixtures do not meet; `SamplesInPlace`: every slot of a sample some run has linked has a link, because a seed deletes only the links of its own slots |
| `OrderlyInvariance`, `RepliesAreOrdered`, `BulkStaysBehind` | `ReplyIsOrdered`, `BulkSortsLast`, for commands in turn and `OneSetOfSlots` | a fixture numbers its slots of a table below their number (`PlaceBound`); a sample begins at or above that number, because distinct orders of n slots have a maximum of at least n - 1 (`NextOrderHasRoom`); so no seed ever reaches the bulk rows |

The strengthenings are needed: `SuccessorBurnsOriginal` is preserved by
`CommitRefresh` only if the replacement has no row and no link yet, which is true
of reachable states and no part of the property; likewise the page in hand of a
walk must be the rows behind the cursor as they were at the first statement.

`LastIsDone` of the catalogue is the case that needs most. A save sends only the
columns that differ from the row its run has loaded, takes no lock if none
does, and reads committed rows; so a run may skip a column another run
changes before it commits. It is not inductive without `SeenIsFresh`: a loaded
column that already has the value of the fixture's last line about it keeps it,
because whoever else may write that row is a seed of the same version
(`Together`), and it too ends with that value (`LastIsDone` of the other run, at
its commit). Seed and generator share no rows but authors, and of those
the invariant only says that their names have their slugs; a deployment of a
second version while a seed of the first runs would break the argument, and is
what `Start` excludes.

Only model-checked: liveness (`EveryRequestEnds`, `EveryQueryEnds`,
`EveryRunEnds`), which needs ENABLED. Every invariant and every action property
of a passing run is the statement of a theorem.

## 5. Not modelled

* The score of a search hit, and the rounding of a float score in a cursor;
  PostgreSQL's `pg_trgm` decides that. Pages of a search are those of
  `KeysetPagination`, with an exact rank for a score.
* `album(slug)`, `node(id)` and `totalCount`: single reads without a protocol.
* Google's side of a sign-in, JWT and image codecs: libraries; their outcome is a
  choice in the models.
* What the cached profile of a user says; the synthetic corpus and its placeholder
  files; `--clean`, which deletes sections that old versions created.
* Migrations other than the backfill of authors: DDL run once. Configuration, health check, shell scripts: no state.

## 6. Plan

Done, in this order: the token store and its promise; media links; the media
library; pagination; home sections; access tokens with time, composed of the
first two; request sessions, loaders and the pool; the catalogue and its authors;
search; proofs about each of them.

Next:

1. A refinement of `MediaLibrary` by a one-step content store.
2. `--clean` of the bulk generator: it deletes two sections and their links
   while readers are about.
