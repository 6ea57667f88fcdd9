---------------------------- MODULE HomeSections ----------------------------
(***************************************************************************)
(* One Home section: the links and sort orders that seed                   *)
(* (seed/seed_data.py) and generate-bulk-data (seed/bulk_generate.py)      *)
(* write, each in one transaction, and the list of entries a query makes   *)
(* of them (repositories/sections.py) with one statement per link table.   *)
(***************************************************************************)
EXTENDS Naturals, FiniteSets, Sequences

CONSTANTS
    Items,     \* media items of the section's kind
    Albums,    \* albums of that kind
    AlbumOf,   \* media_items.album_id
    Fixtures,  \* versions of the section in home_sections.json
    Samples,   \* what rng.sample may draw of the bulk-* rows
    Commands,  \* processes
    Unlinked,  \* sort order of a slot without a link row
    None       \* no album, no fixture, no sample

Slots == Items \cup Albums

Members(slots) == {slots[k] : k \in DOMAIN slots}

\* The fixture names no bulk-* row, and a sample no other: their link rows never
\* meet under one primary key.  Neither lists a slot twice.
ASSUME SectionAssumption ==
    /\ Items \cap Albums = {} /\ None \notin Albums
    /\ AlbumOf \in [Items -> Albums \cup {None}]
    /\ IsFiniteSet(Slots)
    /\ Fixtures \cup Samples \subseteq Seq(Slots)
    /\ \A list \in Fixtures \cup Samples : \A j, k \in DOMAIN list : list[j] = list[k] => j = k
    /\ \A f \in Fixtures, sample \in Samples : Members(f) \cap Members(sample) = {}
    /\ Unlinked \notin Nat /\ None \notin Fixtures \cup Samples

VARIABLES
    section,  \* whether the sections row exists
    order,    \* committed section_items and section_albums: sort_order
    command,  \* what each process has read and is about to write
    reader,   \* a query: the sort orders its two statements have read
    seeded,   \* history: the fixture committed last
    linked,   \* history: the samples committed so far
    orderly   \* history: seed came first and one command ran at a time

vars == <<section, order, command, reader, seeded, linked, orderly>>

Command == [pc : {"idle", "seed", "items", "albums", "link"}, slots : Fixtures \cup Samples \cup {None},
            creates : BOOLEAN, itemBase : Nat, albumBase : Nat, stale : BOOLEAN]

Idle == [pc |-> "idle", slots |-> None, creates |-> FALSE,
         itemBase |-> 0, albumBase |-> 0, stale |-> FALSE]

Nothing == [s \in Slots |-> Unlinked]

TypeOK ==
    /\ section \in BOOLEAN
    /\ order \in [Slots -> Nat \cup {Unlinked}]
    /\ ~section => order = Nothing
    /\ command \in [Commands -> Command]
    /\ reader \in [pc : {"idle", "items", "done"}, read : [Slots -> Nat \cup {Unlinked}]]
    /\ seeded \in Fixtures \cup {None}
    /\ linked \subseteq Samples
    /\ orderly \in BOOLEAN

Init ==
    /\ section = FALSE
    /\ order = Nothing
    /\ command = [p \in Commands |-> Idle]
    /\ reader = [pc |-> "idle", read |-> Nothing]
    /\ seeded = None
    /\ linked = {}
    /\ orderly = TRUE

Linked(table) == {s \in table : order[s] # Unlinked}

-----------------------------------------------------------------------------
\* seed

\* The section is looked up, and the old link rows of the fixture are deleted.
BeginSeed(p, f) ==
    /\ command[p].pc = "idle"
    /\ command' = [command EXCEPT ![p] =
                     [Idle EXCEPT !.pc = "seed", !.slots = f, !.creates = ~section]]
    /\ UNCHANGED <<section, order, reader, seeded, linked>>

\* Mutant of Numbered: one counter that goes on where the table ends.
NumberedOn(slots, k) ==
    Cardinality(Linked(Slots)) + k - 1

\* item_order and album_order: slots of either kind have a counter of their own.
Numbered(slots, k) ==
    Cardinality({j \in 1..(k - 1) : slots[j] \in Albums <=> slots[k] \in Albums})

Place(slots, s) == Numbered(slots, CHOOSE k \in DOMAIN slots : slots[k] = s)

\* Mutant of CommitSeed: it clears the section, whoever linked the rows.
CommitSeedClears(p) ==
    LET f == command[p].slots
    IN  /\ command[p].pc = "seed"
        /\ ~(command[p].creates /\ section)
        /\ section' = TRUE
        /\ order' = [s \in Slots |-> IF s \in Members(f) THEN Place(f, s) ELSE Unlinked]
        /\ seeded' = f
        /\ command' = [command EXCEPT ![p] = Idle]
        /\ UNCHANGED <<reader, linked>>

\* The new link rows.  A link row that another seed committed since the DELETE
\* violates the primary key, a section created since the lookup the unique slug.
CommitSeed(p) ==
    LET f == command[p].slots
    IN  /\ command[p].pc = "seed"
        /\ ~command[p].stale
        /\ ~(command[p].creates /\ section)
        /\ section' = TRUE
        /\ order' = [s \in Slots |-> IF s \in Members(f) THEN Place(f, s) ELSE order[s]]
        /\ seeded' = f
        /\ command' = [q \in Commands |->
                         IF q = p THEN Idle
                         ELSE IF /\ command[q].pc = "seed"
                                 /\ Members(command[q].slots) \cap Members(f) # {}
                         THEN [command[q] EXCEPT !.stale = TRUE]
                         ELSE command[q]]
        /\ UNCHANGED <<reader, linked>>

-----------------------------------------------------------------------------
\* generate-bulk-data, its last transaction, and --relink-sections

\* Mutant of NextOrder: the current maximum itself.
NextOrderMax(table) ==
    IF Linked(table) = {} THEN 0
    ELSE CHOOSE n \in {order[s] : s \in Linked(table)} : \A s \in Linked(table) : order[s] <= n

\* Mutant of NextOrder: without the coalesce, NULL.
NextOrderNull(table) ==
    IF Linked(table) = {} THEN Unlinked
    ELSE 1 + CHOOSE n \in {order[s] : s \in Linked(table)} :
                \A s \in Linked(table) : order[s] <= n

\* coalesce(max(sort_order), -1) + 1
NextOrder(table) ==
    IF Linked(table) = {} THEN 0
    ELSE 1 + CHOOSE n \in {order[s] : s \in Linked(table)} :
                \A s \in Linked(table) : order[s] <= n

\* The section is looked up, and the bulk-* rows are drawn from.
BeginLink(p, sample) ==
    /\ command[p].pc = "idle"
    /\ command' = [command EXCEPT ![p] =
                     [Idle EXCEPT !.pc = "items", !.slots = sample, !.creates = ~section]]
    /\ UNCHANGED <<section, order, reader, seeded, linked>>

\* item_base and album_base, each a statement of its own.
ReadItemBase(p) ==
    /\ command[p].pc = "items"
    /\ command' = [command EXCEPT ![p].pc = "albums", ![p].itemBase = NextOrder(Items)]
    /\ UNCHANGED <<section, order, reader, seeded, linked>>

ReadAlbumBase(p) ==
    /\ command[p].pc = "albums"
    /\ command' = [command EXCEPT ![p].pc = "link", ![p].albumBase = NextOrder(Albums)]
    /\ UNCHANGED <<section, order, reader, seeded, linked>>

Appended(p, s) ==
    (IF s \in Items THEN command[p].itemBase ELSE command[p].albumBase)
        + Place(command[p].slots, s)

\* ON CONFLICT DO NOTHING.
Inserted(p, s) == s \in Members(command[p].slots) /\ order[s] = Unlinked

CommitLink(p) ==
    /\ command[p].pc = "link"
    /\ ~(command[p].creates /\ section)
    /\ section' = TRUE
    /\ order' = [s \in Slots |-> IF Inserted(p, s) THEN Appended(p, s) ELSE order[s]]
    /\ linked' = linked \cup {command[p].slots}
    /\ command' = [command EXCEPT ![p] = Idle]
    /\ UNCHANGED <<reader, seeded>>

\* Killed, or ended by a constraint: rolled back.
Fail(p) ==
    /\ command[p].pc # "idle"
    /\ command' = [command EXCEPT ![p] = Idle]
    /\ UNCHANGED <<section, order, reader, seeded, linked>>

-----------------------------------------------------------------------------
\* sections and section(slug)

ReadItems ==
    /\ reader.pc = "idle" /\ section
    /\ reader' = [pc |-> "items",
                   read |-> [s \in Slots |-> IF s \in Items THEN order[s] ELSE Unlinked]]
    /\ UNCHANGED <<section, order, command, seeded, linked>>

ReadAlbums ==
    /\ reader.pc = "items"
    /\ reader' = [pc |-> "done",
                   read |-> [s \in Slots |-> IF s \in Albums THEN order[s] ELSE reader.read[s]]]
    /\ UNCHANGED <<section, order, command, seeded, linked>>

Reply ==
    /\ reader.pc = "done"
    /\ reader' = [pc |-> "idle", read |-> Nothing]
    /\ UNCHANGED <<section, order, command, seeded, linked>>

\* An item is folded away when the card of its album is there.
Entries == {s \in Slots : /\ reader.read[s] # Unlinked
                          /\ s \in Items /\ AlbumOf[s] # None
                               => reader.read[AlbumOf[s]] = Unlinked}

\* A stable sort by sort_order of the items followed by the albums.  Two items,
\* or two albums, of one sort_order come in any order.
Precedes(s, t) == \/ reader.read[s] < reader.read[t]
                  \/ reader.read[s] = reader.read[t] /\ s \in Items /\ t \in Albums

-----------------------------------------------------------------------------
CommandStep(p) ==
    \/ \E f \in Fixtures : BeginSeed(p, f)
    \/ CommitSeed(p)
    \/ \E sample \in Samples : BeginLink(p, sample)
    \/ ReadItemBase(p)
    \/ ReadAlbumBase(p)
    \/ CommitLink(p)
    \/ Fail(p)

Step ==
    \/ \E p \in Commands : CommandStep(p)
    \/ ReadItems
    \/ ReadAlbums
    \/ Reply

\* The order the scripts are documented in: seed first, one command at a time.
InTurn ==
    /\ \A p, q \in Commands : command[p].pc # "idle" /\ command[q].pc # "idle" => p = q
    /\ seeded = None => \A p \in Commands : command[p].pc \in {"idle", "seed"}

Next == Step /\ orderly' = (orderly /\ InTurn')

Spec == Init /\ [][Next]_vars

Bulk == UNION {Members(sample) : sample \in Samples}

-----------------------------------------------------------------------------
\* A query that reads one table before a commit and the other after it still has
\* one order: no two of its entries are tied.  Overlapping commands break it.
ReplyIsOrdered ==
    orderly /\ reader.pc = "done" =>
        \A s, t \in Entries : s = t \/ Precedes(s, t) \/ Precedes(t, s)

\* The bulk sample comes after the curated links of its table, also when seed
\* has numbered those anew; commands that overlap or come in another order
\* break it.
BulkSortsLast ==
    orderly => \A s \in Bulk, t \in Slots \ Bulk :
        /\ order[s] # Unlinked /\ order[t] # Unlinked
        /\ s \in Items <=> t \in Items
        => order[t] < order[s]

\* A second seed of the same fixture changes nothing, whatever was linked since
\* and whatever runs beside it.
SeedIsIdempotent ==
    [][\A p \in Commands : CommitSeed(p) /\ seeded = command[p].slots
                               => order' = order]_vars

\* generate-bulk-data and --relink-sections with a seed that was used before link
\* nothing anew, whatever was seeded or linked in between and whatever runs beside
\* them: nobody takes the links of a sample away.
RelinkIsNoOp ==
    [][\A p \in Commands : CommitLink(p) /\ command[p].slots \in linked
                               => order' = order]_vars
=============================================================================
