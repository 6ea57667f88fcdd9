---------------------------- MODULE MediaLibrary ----------------------------
(***************************************************************************)
(* The media files on disk and their rows: the ingest-media command        *)
(* (media/ingest.py), the backfill-thumbnails command (media/thumbnails.py)*)
(* and what the server hands out while they run.  Each command is one      *)
(* process with one transaction over all its files; it writes to disk      *)
(* before it commits, and may be killed between any two steps.             *)
(*                                                                         *)
(* A slot is what a file is for: the image of a photo, with a foreign key  *)
(* in media_items and one in photos, or anything with a single one (song   *)
(* audio or image, album cover, author portrait).  A file stands for a     *)
(* slot by its stem and extension, and several may stand for one.  A       *)
(* writer that waits for a row lock of another transaction writes when     *)
(* that one has committed, so UPDATEs appear here at the commit of their   *)
(* transaction.                                                            *)
(***************************************************************************)
EXTENDS Naturals, FiniteSets

CONSTANTS
    Names,       \* paths of the operator's files, as their places in sorted order
    Slots,       \* what files can be for
    Photos,      \* the images of photos
    Target,      \* the slot a name stands for; Nothing if its extension fits none
    Contents,    \* bytes a file can have; a checksum is injective
    Undecodable, \* contents Pillow raises on
    Files,       \* uuid4 values: media_files.id and the stem on disk
    Ingests,     \* ingest-media processes
    Backfills,   \* backfill-thumbnails processes
    Nothing,     \* NULL, and no file
    Partial      \* a file that is being written

ASSUME LibraryAssumption ==
    /\ Names \subseteq Nat \ {0} /\ Target \in [Names -> Slots \cup {Nothing}]
    /\ Photos \subseteq Slots /\ Undecodable \subseteq Contents
    /\ Nothing \notin Slots \cup Contents \cup Files /\ Partial \notin Contents \cup {Nothing}

VARIABLES
    source,    \* the operator's files
    named,     \* slots whose row (item, album, author) is committed
    original,  \* MEDIA_ROOT: {subdir}/{id}{suffix}
    thumb,     \* MEDIA_ROOT: the _thumb.webp next to it, as what it was made of
    checksum,  \* committed media_files rows: checksum_sha256
    thumbed,   \* committed rows whose thumbnail columns are set
    primary,   \* the slot's foreign key (primary_media_file_id of a photo)
    image,     \* photos.image_file_id
    ingest,    \* what each ingest process has read and staged
    backfill   \* the same of each backfill process

disk == <<original, thumb>>
db   == <<checksum, thumbed, primary, image>>
vars == <<source, named, original, thumb, checksum, thumbed, primary, image, ingest, backfill>>

Rows == {f \in Files : checksum[f] # Nothing}

NoLinks == [s \in Slots |-> Nothing]
NoRows  == [f \in Files |-> Nothing]

\* A transaction of ingest-media: the files of the directory, the one it has
\* got to, the foreign key its row had when it was loaded, the checksum of the
\* source, the file it is given, and the rows and links to be committed.
Ingest == [pc : {"idle", "lookup", "copy", "copying", "link", "between", "ambiguous"},
           dir : SUBSET Names, at : Names \cup {0},
           loaded : Files \cup {Nothing}, sum : Contents \cup {Nothing},
           file : Files \cup {Nothing}, rows : [Files -> Contents \cup {Nothing}],
           thumbs : SUBSET Files, links : [Slots -> Files \cup {Nothing}],
           images : [Slots -> Files \cup {Nothing}]]

IdleIngest == [pc |-> "idle", dir |-> {}, at |-> 0, loaded |-> Nothing,
               sum |-> Nothing, file |-> Nothing, rows |-> NoRows, thumbs |-> {},
               links |-> NoLinks, images |-> NoLinks]

Backfill == [pc : {"idle", "scan", "writing"}, todo : SUBSET Files,
             file : Files \cup {Nothing}, done : SUBSET Files]

IdleBackfill == [pc |-> "idle", todo |-> {}, file |-> Nothing, done |-> {}]

TypeOK ==
    /\ source \in [Names -> Contents]
    /\ named \subseteq Slots
    /\ original \in [Files -> Contents \cup {Nothing, Partial}]
    /\ thumb \in [Files -> (Contents \ Undecodable) \cup {Nothing, Partial}]
    /\ checksum \in [Files -> Contents \cup {Nothing}]
    /\ thumbed \subseteq Rows
    /\ primary \in [Slots -> Files \cup {Nothing}]
    /\ image \in [Slots -> Files \cup {Nothing}]
    /\ ingest \in [Ingests -> Ingest]
    /\ backfill \in [Backfills -> Backfill]

\* Slots have no files yet, some perhaps one ingested before there were
\* thumbnails: the migration that added their columns left them NULL.
Init ==
    /\ source \in [Names -> Contents]
    /\ named \in SUBSET Slots
    /\ primary \in [Slots -> Files \cup {Nothing}]
    /\ \A s \in Slots \ named : primary[s] = Nothing
    /\ image = [s \in Slots |-> IF s \in Photos THEN primary[s] ELSE Nothing]
    /\ checksum \in [Files -> Contents \cup {Nothing}]
    /\ Rows = {primary[s] : s \in Slots} \ {Nothing}
    /\ \A f, g \in Rows : checksum[f] = checksum[g] => f = g
    /\ original = checksum
    /\ thumb = [f \in Files |-> Nothing]
    /\ thumbed = {}
    /\ ingest = [p \in Ingests |-> IdleIngest]
    /\ backfill = [b \in Backfills |-> IdleBackfill]

-----------------------------------------------------------------------------
\* ingest-media

\* The files are listed before the first one is read.
StartIngest(p, d) ==
    /\ ingest[p].pc = "idle"
    /\ ingest' = [ingest EXCEPT ![p] = [IdleIngest EXCEPT !.pc = "between", !.dir = d]]
    /\ UNCHANGED <<source, named, disk, db, backfill>>

IsNext(p, n) ==
    /\ n \in ingest[p].dir /\ n > ingest[p].at
    /\ \A m \in ingest[p].dir : m > ingest[p].at => n <= m

\* No row has the stem as its slug, or the extension does not fit its kind.  (A
\* song or photo whose item is committed has its own row too: the commit of the
\* item is the commit of that row.)
SkipFile(p, n) ==
    /\ ingest[p].pc = "between"
    /\ IsNext(p, n)
    /\ Target[n] \notin named
    /\ ingest' = [ingest EXCEPT ![p].at = n]
    /\ UNCHANGED <<source, named, disk, db, backfill>>

\* A foreign key as the transaction reads it: what it has written itself, or
\* what is committed.
Seen(own, committed) == IF own = Nothing THEN committed ELSE own

\* The next file in sorted order: the row it stands for is loaded, the file
\* hashed.
BeginFile(p, n) ==
    /\ ingest[p].pc = "between"
    /\ IsNext(p, n)
    /\ Target[n] \in named
    /\ ingest' = [ingest EXCEPT ![p] =
                    [ingest[p] EXCEPT !.pc = "lookup", !.at = n, !.sum = source[n],
                        !.loaded = Seen(ingest[p].links[Target[n]], primary[Target[n]])]]
    /\ UNCHANGED <<source, named, disk, db, backfill>>

\* Mutants of Matches: rows of the own transaction are not flushed yet; or only
\* those are looked at.
MatchesCommitted(p) == {f \in Files : ingest[p].sum = checksum[f]}
MatchesStaged(p) == {f \in Files : ingest[p].sum = ingest[p].rows[f]}

\* The rows with the checksum: committed ones and those the transaction has
\* inserted itself.
Matches(p) ==
    {f \in Files : ingest[p].sum \in {checksum[f], ingest[p].rows[f]}}

\* A new uuid4: nothing on disk has it, nor has another process drawn it.
Unused(f) == original[f] = Nothing /\ \A p \in Ingests : ingest[p].file # f

\* Mutant of LookUp: a changed file keeps the id of the row its slot has.
LookUpInPlace(p, f) ==
    /\ ingest[p].pc = "lookup"
    /\ ingest' = [ingest EXCEPT ![p] =
                    IF Cardinality(Matches(p)) > 1
                    THEN [ingest[p] EXCEPT !.pc = "ambiguous"]
                    ELSE [ingest[p] EXCEPT !.pc = IF Matches(p) = {} THEN "copy" ELSE "link",
                                           !.file = f]]
    /\ IF Matches(p) # {} THEN f \in Matches(p)
       ELSE IF ingest[p].loaded = Nothing THEN Unused(f) ELSE f = ingest[p].loaded
    /\ UNCHANGED <<source, named, disk, db, backfill>>

\* scalar_one_or_none: raises when two rows have the checksum.
LookUp(p, f) ==
    /\ ingest[p].pc = "lookup"
    /\ ingest' = [ingest EXCEPT ![p] =
                    IF Cardinality(Matches(p)) > 1
                    THEN [ingest[p] EXCEPT !.pc = "ambiguous"]
                    ELSE [ingest[p] EXCEPT !.pc = IF Matches(p) = {} THEN "copy" ELSE "link",
                                           !.file = f]]
    /\ IF Matches(p) = {} THEN Unused(f) ELSE f \in Matches(p)
    /\ UNCHANGED <<source, named, disk, db, backfill>>

\* shutil.copy2 opens the destination ...
CopyFile(p) ==
    /\ ingest[p].pc = "copy"
    /\ original' = [original EXCEPT ![ingest[p].file] = Partial]
    /\ ingest' = [ingest EXCEPT ![p].pc = "copying"]
    /\ UNCHANGED <<source, named, thumb, db, backfill>>

\* Mutant of AddRow: what cannot be decoded is its own thumbnail.
AddRowThumbAnyway(p) ==
    LET f == ingest[p].file
        bytes == source[ingest[p].at]
    IN  /\ ingest[p].pc = "copying"
        /\ original' = [original EXCEPT ![f] = bytes]
        /\ thumb' = [thumb EXCEPT ![f] = bytes]
        /\ ingest' = [ingest EXCEPT ![p] =
                        [ingest[p] EXCEPT !.pc = "link", !.rows[f] = ingest[p].sum,
                                          !.thumbs = @ \cup {f}]]
        /\ UNCHANGED <<source, named, db, backfill>>

\* ... and has read the source once more; a thumbnail is made of the copy, and
\* the row is inserted with the checksum of the first reading.
AddRow(p) ==
    LET f == ingest[p].file
        bytes == source[ingest[p].at]
        small == bytes \notin Undecodable
    IN  /\ ingest[p].pc = "copying"
        /\ original' = [original EXCEPT ![f] = bytes]
        /\ thumb' = IF small THEN [thumb EXCEPT ![f] = bytes] ELSE thumb
        /\ ingest' = [ingest EXCEPT ![p] =
                        [ingest[p] EXCEPT !.pc = "link", !.rows[f] = ingest[p].sum,
                                          !.thumbs = IF small THEN @ \cup {f} ELSE @]]
        /\ UNCHANGED <<source, named, db, backfill>>

\* Mutant of LinkFile: a photo whose media_items row is up to date is left alone.
LinkFileItemFirst(p) ==
    LET s == Target[ingest[p].at]
        f == ingest[p].file
        new == IF f = ingest[p].loaded THEN ingest[p].links[s] ELSE f
    IN  /\ ingest[p].pc = "link"
        /\ ingest' = [ingest EXCEPT ![p] =
                        [ingest[p] EXCEPT
                            !.pc = "between", !.loaded = Nothing, !.sum = Nothing,
                            !.file = Nothing, !.links[s] = new,
                            !.images[s] = IF image[s] = Nothing THEN new ELSE Nothing]]
        /\ UNCHANGED <<source, named, disk, db, backfill>>

\* Mutant of LinkFile: a slot that has a file keeps it.
LinkFileOnce(p) ==
    LET s == Target[ingest[p].at]
        new == IF ingest[p].loaded = Nothing THEN ingest[p].file ELSE ingest[p].links[s]
    IN  /\ ingest[p].pc = "link"
        /\ ingest' = [ingest EXCEPT ![p] =
                        [ingest[p] EXCEPT
                            !.pc = "between", !.loaded = Nothing, !.sum = Nothing,
                            !.file = Nothing, !.links[s] = new,
                            !.images[s] = IF s \in Photos THEN new ELSE Nothing]]
        /\ UNCHANGED <<source, named, disk, db, backfill>>

\* The foreign keys of the slot, over those of an earlier file of the same stem.
\* The photos row is read only now, and the ORM writes a column only if it
\* differs from what was loaded.
LinkFile(p) ==
    LET s == Target[ingest[p].at]
        f == ingest[p].file
    IN  /\ ingest[p].pc = "link"
        /\ ingest' = [ingest EXCEPT ![p] =
                        [ingest[p] EXCEPT
                            !.pc = "between", !.loaded = Nothing, !.sum = Nothing,
                            !.file = Nothing,
                            !.links[s] = IF f = ingest[p].loaded THEN @ ELSE f,
                            !.images[s] =
                               IF s \in Photos /\ f # Seen(@, image[s]) THEN f ELSE @]]
        /\ UNCHANGED <<source, named, disk, db, backfill>>

Written(old, new) == [s \in Slots |-> Seen(new[s], old[s])]

\* All files are done: one commit for the directory.
CommitIngest(p) ==
    /\ ingest[p].pc = "between"
    /\ \A n \in ingest[p].dir : n <= ingest[p].at
    /\ checksum' = [f \in Files |-> IF ingest[p].rows[f] = Nothing THEN checksum[f]
                                    ELSE ingest[p].rows[f]]
    /\ thumbed' = thumbed \cup ingest[p].thumbs
    /\ primary' = Written(primary, ingest[p].links)
    /\ image' = Written(image, ingest[p].images)
    /\ ingest' = [ingest EXCEPT ![p] = IdleIngest]
    /\ UNCHANGED <<source, named, disk, backfill>>

\* Killed, or ended by an exception: rolled back, but not on disk.
AbortIngest(p) ==
    /\ ingest[p].pc # "idle"
    /\ ingest' = [ingest EXCEPT ![p] = IdleIngest]
    /\ UNCHANGED <<source, named, disk, db, backfill>>

-----------------------------------------------------------------------------
\* backfill-thumbnails

\* Mutant of SelectRows: every image row is done again.
SelectRowsAll(b) ==
    /\ backfill[b].pc = "idle"
    /\ backfill' = [backfill EXCEPT ![b] = [IdleBackfill EXCEPT !.pc = "scan", !.todo = Rows]]
    /\ UNCHANGED <<source, named, disk, db, ingest>>

\* SELECT of the rows without a thumbnail.
SelectRows(b) ==
    /\ backfill[b].pc = "idle"
    /\ backfill' = [backfill EXCEPT ![b] =
                      [IdleBackfill EXCEPT !.pc = "scan", !.todo = Rows \ thumbed]]
    /\ UNCHANGED <<source, named, disk, db, ingest>>

\* Missing on disk, or Pillow cannot decode it: the row is left as it is.
SkipRow(b, f) ==
    /\ backfill[b].pc = "scan"
    /\ f \in backfill[b].todo
    /\ original[f] \in Undecodable \cup {Nothing, Partial}
    /\ backfill' = [backfill EXCEPT ![b].todo = @ \ {f}]
    /\ UNCHANGED <<source, named, disk, db, ingest>>

\* write_bytes truncates the file first ...
TruncateThumb(b, f) ==
    /\ backfill[b].pc = "scan"
    /\ f \in backfill[b].todo
    /\ original[f] \in Contents \ Undecodable
    /\ thumb' = [thumb EXCEPT ![f] = Partial]
    /\ backfill' = [backfill EXCEPT ![b] =
                      [backfill[b] EXCEPT !.pc = "writing", !.todo = @ \ {f}, !.file = f]]
    /\ UNCHANGED <<source, named, original, db, ingest>>

\* ... and the columns of the row are set once it is written.
WriteThumb(b) ==
    LET f == backfill[b].file
    IN  /\ backfill[b].pc = "writing"
        /\ thumb' = [thumb EXCEPT ![f] = original[f]]
        /\ backfill' = [backfill EXCEPT ![b] =
                          [backfill[b] EXCEPT !.pc = "scan", !.file = Nothing, !.done = @ \cup {f}]]
        /\ UNCHANGED <<source, named, original, db, ingest>>

CommitBackfill(b) ==
    /\ backfill[b].pc = "scan"
    /\ backfill[b].todo = {}
    /\ thumbed' = thumbed \cup backfill[b].done
    /\ backfill' = [backfill EXCEPT ![b] = IdleBackfill]
    /\ UNCHANGED <<source, named, disk, checksum, primary, image, ingest>>

AbortBackfill(b) ==
    /\ backfill[b].pc # "idle"
    /\ backfill' = [backfill EXCEPT ![b] = IdleBackfill]
    /\ UNCHANGED <<source, named, disk, db, ingest>>

-----------------------------------------------------------------------------
\* The operator replaces a file, at any time.
EditSource(n, c) ==
    /\ source[n] # c
    /\ source' = [source EXCEPT ![n] = c]
    /\ UNCHANGED <<named, disk, db, ingest, backfill>>

\* A run of the seed commits a row that was not there yet.
SeedRow(s) ==
    /\ s \notin named
    /\ named' = named \cup {s}
    /\ UNCHANGED <<source, disk, db, ingest, backfill>>

IngestStep(p) ==
    \/ \E d \in SUBSET Names : StartIngest(p, d)
    \/ \E n \in Names : SkipFile(p, n)
    \/ \E n \in Names : BeginFile(p, n)
    \/ \E f \in Files : LookUp(p, f)
    \/ CopyFile(p)
    \/ AddRow(p)
    \/ LinkFile(p)
    \/ CommitIngest(p)
    \/ AbortIngest(p)

BackfillStep(b) ==
    \/ SelectRows(b)
    \/ \E f \in Files : SkipRow(b, f)
    \/ \E f \in Files : TruncateThumb(b, f)
    \/ WriteThumb(b)
    \/ CommitBackfill(b)
    \/ AbortBackfill(b)

Next ==
    \/ \E p \in Ingests : IngestStep(p)
    \/ \E b \in Backfills : BackfillStep(b)
    \/ \E n \in Names, c \in Contents : EditSource(n, c)
    \/ \E s \in Slots : SeedRow(s)

Spec == Init /\ [][Next]_vars

Running == {p \in Ingests : ingest[p].pc # "idle"}
Filling == {b \in Backfills : backfill[b].pc # "idle"}

BackfillsApart == \A b, c \in Filling : b = c

\* How the commands are meant to be used: one at a time, on files at rest, the
\* seed as well.
OneAtATime ==
    /\ \A p, q \in Running : p = q
    /\ BackfillsApart
    /\ Running = {} \/ Filling = {}
AtRest == Running = {} /\ Filling = {}

OperatorSpec ==
    Init /\ [][Next /\ OneAtATime' /\ (AtRest \/ UNCHANGED <<source, named>>)]_vars

-----------------------------------------------------------------------------
\* However many ingests overlap, whenever they are killed and whatever the
\* operator does to the sources meanwhile:

\* A row the server can read has its file, and the whole of it: rows become
\* visible only after the copy, and no copy is made onto a file that has one.
RowsHaveBytes == \A f \in Rows : original[f] \in Contents

\* What the server hands out as "immutable" is: neither command writes to the
\* file of a visible row, or to a thumbnail whose columns are visible.  It takes
\* backfills that do not overlap.
BytesAreImmutable ==
    [][/\ \A f \in Rows : original'[f] = original[f]
       /\ \A f \in thumbed : thumb'[f] = thumb[f]]_vars

\* A row that announces a thumbnail has one on disk, complete and made of the
\* file of that row, although it is written in another step than the original,
\* by another command perhaps, and before the commit that announces it.
ThumbsAreWhole == \A f \in thumbed : thumb[f] = original[f]

\* One command at a time, on sources at rest while it runs; it may still be
\* killed at any step:

\* No two rows have one checksum, so the lookup by checksum never raises.
OneRowPerContent ==
    \A f, g \in Rows : checksum[f] = checksum[g] => f = g

\* A row's checksum is that of the bytes on disk.
ChecksumIsTrue == \A f \in Rows : original[f] = checksum[f]

\* media_items.primary_media_file_id and photos.image_file_id, written by two
\* UPDATEs that each leave out what did not change, name the same file.
PhotoColumnsAgree == \A s \in Photos : primary[s] = image[s]

\* The files of a run that stand for slot s, once its row exists, and the last.
Offers(p, s) == {n \in ingest[p].dir : Target[n] = s /\ s \in named}
LastOffer(p, s, n) == n \in Offers(p, s) /\ \A m \in Offers(p, s) : m <= n

\* A run that commits has published its directory: a slot for which there are
\* files leads to a row with the bytes of the last of them, whatever earlier
\* files of that stem wrote in between; every other slot, of a row that is not
\* there yet for instance, has kept its file.
IngestPublishes ==
    [][\A p \in Ingests : CommitIngest(p) =>
         \A s \in Slots :
            /\ Offers(p, s) = {} => primary'[s] = primary[s]
            /\ \A n \in Names : LastOffer(p, s, n) =>
                  primary'[s] # Nothing /\ original'[primary'[s]] = source[n]]_vars

\* Re-ingesting changes nothing in the database when the library has the bytes of
\* every file, and every slot those of its last: what an earlier file of a stem
\* overwrites, the last one restores.
ReingestIsNoOp ==
    [][\A p \in Ingests :
         (/\ CommitIngest(p)
          /\ \A s \in Slots, n \in Names :
                /\ n \in Offers(p, s) => \E f \in Rows : original[f] = source[n]
                /\ LastOffer(p, s, n) =>
                      primary[s] # Nothing /\ original[primary[s]] = source[n])
         => UNCHANGED db]_vars
=============================================================================
