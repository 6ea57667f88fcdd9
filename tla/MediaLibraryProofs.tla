------------------------- MODULE MediaLibraryProofs -------------------------
(***************************************************************************)
(* Proofs about MediaLibrary, for any number of files, slots, ingests and  *)
(* backfills.                                                              *)
(***************************************************************************)
EXTENDS MediaLibrary, FiniteSetTheorems, TLAPS

-----------------------------------------------------------------------------
\* The inductive invariant of all behaviours: overlapping ingests, kills, sources
\* that change at any time.

\* What a process needs at each step it has read before.
StepsAreReady ==
    \A p \in Ingests :
        /\ ingest[p].pc \in {"lookup", "copy", "copying", "link"}
              => /\ ingest[p].at \in Names /\ Target[ingest[p].at] \in Slots
                 /\ ingest[p].sum \in Contents
        /\ ingest[p].pc \in {"copy", "copying", "link"} => ingest[p].file \in Files

\* A file that is drawn and not copied yet is nobody else's.
DrawnFilesAreNew ==
    /\ \A p \in Ingests :
          /\ ingest[p].pc = "copy" => original[ingest[p].file] = Nothing
          /\ ingest[p].pc = "copying" => original[ingest[p].file] = Partial
    /\ \A p, q \in Ingests :
          /\ ingest[p].pc \in {"copy", "copying"}
          /\ ingest[q].pc \in {"copy", "copying"}
          /\ ingest[p].file = ingest[q].file
          => p = q

Staged(p) == {f \in Files : ingest[p].rows[f] # Nothing}

\* A row to be committed has its bytes already, and is no other row.
StagedRowsAreNew ==
    /\ \A p \in Ingests :
          /\ \A f \in Staged(p) : original[f] \in Contents /\ f \notin Rows
          /\ ingest[p].thumbs \subseteq Staged(p)
    /\ \A p, q \in Ingests : p # q => Staged(p) \cap Staged(q) = {}

\* A backfill works on rows.
BackfillsRows ==
    \A b \in Backfills :
        /\ backfill[b].todo \subseteq Rows
        /\ backfill[b].done \subseteq Rows
        /\ backfill[b].pc = "writing" =>
              backfill[b].file \in Rows /\ original[backfill[b].file] \in Contents \ Undecodable

Inv ==
    /\ TypeOK
    /\ RowsHaveBytes
    /\ StepsAreReady
    /\ DrawnFilesAreNew
    /\ StagedRowsAreNew
    /\ BackfillsRows

\* It holds at first.
LEMMA InitInv == Init => Inv
<1> SUFFICES ASSUME Init PROVE Inv
  OBVIOUS
<1> USE LibraryAssumption DEF Init
<1>1. TypeOK
  BY DEF TypeOK, Ingest, IdleIngest, Backfill, IdleBackfill, NoRows, NoLinks, Rows
<1>2. RowsHaveBytes
  BY DEF RowsHaveBytes, Rows
<1>3. StepsAreReady /\ DrawnFilesAreNew
  BY DEF StepsAreReady, DrawnFilesAreNew, IdleIngest
<1>4. StagedRowsAreNew
  BY DEF StagedRowsAreNew, Staged, IdleIngest, NoRows
<1>5. BackfillsRows
  BY DEF BackfillsRows, IdleBackfill
<1> QED
  BY <1>1, <1>2, <1>3, <1>4, <1>5 DEF Inv

\* A step that leaves the disk and the database alone, and stages nothing, keeps the
\* invariant if the process that makes it is ready for its next one.
LEMMA ReadingKeepsInv ==
  ASSUME Inv, NEW p \in Ingests, NEW i \in Ingest,
         ingest' = [ingest EXCEPT ![p] = i],
         UNCHANGED <<named, disk, db, backfill>>, source' \in [Names -> Contents],
         \/ i.rows = ingest[p].rows /\ i.thumbs = ingest[p].thumbs
         \/ i.rows = NoRows /\ i.thumbs = {},
         i.pc \in {"lookup", "copy", "copying", "link"} =>
            i.at \in Names /\ Target[i.at] \in Slots /\ i.sum \in Contents,
         i.pc \in {"copy", "link"} => i.file \in Files,
         i.pc # "copying",
         i.pc = "copy" => Unused(i.file)
  PROVE  Inv'
<1> USE DEF Inv, disk, db
<1>0. ingest'[p] = i /\ \A q \in Ingests \ {p} : ingest'[q] = ingest[q]
  BY DEF TypeOK
<1>1. TypeOK'
  BY DEF TypeOK, Rows
<1>2. RowsHaveBytes'
  BY DEF RowsHaveBytes, Rows
<1>3. StepsAreReady'
  BY <1>0 DEF StepsAreReady
<1>4. DrawnFilesAreNew'
  BY <1>0 DEF DrawnFilesAreNew, Unused
<1>5. StagedRowsAreNew'
  <2>1. \A q \in Ingests : Staged(q)' \subseteq Staged(q) /\ ingest'[q].thumbs \subseteq Staged(q)'
    BY <1>0 DEF StagedRowsAreNew, Staged, NoRows
  <2>2. UNCHANGED Rows
    BY DEF Rows
  <2> QED
    BY <2>1, <2>2 DEF StagedRowsAreNew
<1>6. BackfillsRows'
  BY DEF BackfillsRows, Rows
<1> QED
  BY <1>1, <1>2, <1>3, <1>4, <1>5, <1>6

\* The directory is listed.
LEMMA StartIngestInv ==
  ASSUME Inv, NEW p \in Ingests, NEW d \in SUBSET Names, StartIngest(p, d)  PROVE  Inv'
<1> DEFINE i == [IdleIngest EXCEPT !.pc = "between", !.dir = d]
<1>1. i \in Ingest /\ i.rows = NoRows /\ i.thumbs = {} /\ i.pc = "between"
  BY DEF Ingest, IdleIngest, NoRows, NoLinks
<1>2. ingest' = [ingest EXCEPT ![p] = i] /\ UNCHANGED <<named, disk, db, backfill>> /\ source' \in [Names -> Contents]
  BY DEF StartIngest, Inv, TypeOK
<1> HIDE DEF i
<1> QED
  BY <1>1, <1>2, ReadingKeepsInv

\* A file is passed over.
LEMMA SkipFileInv ==
  ASSUME Inv, NEW p \in Ingests, NEW n \in Names, SkipFile(p, n)  PROVE  Inv'
<1> DEFINE i == [ingest[p] EXCEPT !.at = n]
<1>1. i \in Ingest /\ i.rows = ingest[p].rows /\ i.thumbs = ingest[p].thumbs /\ i.pc = "between"
  BY DEF SkipFile, Inv, TypeOK, Ingest
<1>2. ingest' = [ingest EXCEPT ![p] = i] /\ UNCHANGED <<named, disk, db, backfill>> /\ source' \in [Names -> Contents]
  BY DEF SkipFile, Inv, TypeOK, Ingest
<1> HIDE DEF i
<1> QED
  BY <1>1, <1>2, ReadingKeepsInv

\* A process reads the row and the bytes of its next file.
LEMMA BeginFileInv ==
  ASSUME Inv, NEW p \in Ingests, NEW n \in Names, BeginFile(p, n)  PROVE  Inv'
<1> DEFINE l == Seen(ingest[p].links[Target[n]], primary[Target[n]])
           i == [ingest[p] EXCEPT !.pc = "lookup", !.at = n, !.sum = source[n], !.loaded = l]
<1>0. Target[n] \in Slots /\ l \in Files \cup {Nothing}
  BY DEF BeginFile, Inv, TypeOK, Ingest, Seen
<1> HIDE DEF l
<1>1. i \in Ingest /\ i.rows = ingest[p].rows /\ i.thumbs = ingest[p].thumbs
      /\ i.pc = "lookup" /\ i.at = n /\ i.sum \in Contents
  BY <1>0 DEF Inv, TypeOK, Ingest
<1>2. ingest' = [ingest EXCEPT ![p] = i] /\ UNCHANGED <<named, disk, db, backfill>> /\ source' \in [Names -> Contents]
  BY DEF BeginFile, Inv, TypeOK, l
<1> HIDE DEF i
<1> QED
  BY <1>0, <1>1, <1>2, ReadingKeepsInv

\* What it finds by the checksum, or a new file nobody has drawn.
LEMMA LookUpInv ==
  ASSUME Inv, NEW p \in Ingests, NEW f \in Files, LookUp(p, f)  PROVE  Inv'
<1> DEFINE i == IF Cardinality(Matches(p)) > 1
                THEN [ingest[p] EXCEPT !.pc = "ambiguous"]
                ELSE [ingest[p] EXCEPT !.pc = IF Matches(p) = {} THEN "copy" ELSE "link",
                                       !.file = f]
<1>1. ingest' = [ingest EXCEPT ![p] = i] /\ UNCHANGED <<named, disk, db, backfill>> /\ source' \in [Names -> Contents]
  BY DEF LookUp, Inv, TypeOK
<1>2. i \in Ingest /\ i.rows = ingest[p].rows /\ i.thumbs = ingest[p].thumbs
      /\ i.at = ingest[p].at /\ i.sum = ingest[p].sum
      /\ (i.pc # "ambiguous" => i.file = f)
      /\ i.pc \in {"ambiguous", "copy", "link"}
      /\ (i.pc = "copy" => Matches(p) = {})
  BY DEF Inv, TypeOK, Ingest
<1>3. i.pc = "copy" => Unused(i.file)
  BY <1>2 DEF LookUp
<1>4. ingest[p].at \in Names /\ Target[ingest[p].at] \in Slots /\ ingest[p].sum \in Contents
  BY DEF LookUp, Inv, StepsAreReady
<1> HIDE DEF i
<1> QED
  BY <1>1, <1>2, <1>3, <1>4, ReadingKeepsInv

\* A file is linked: the fields of the process that change.
LEMMA LinkFileFields ==
  ASSUME Inv, NEW p \in Ingests, LinkFile(p)
  PROVE  LET i == ingest[p]
             j == ingest'[p]
             s == Target[i.at]
         IN  /\ ingest' = [ingest EXCEPT ![p] = j]
             /\ i.at \in Names /\ s \in Slots /\ i.file \in Files
             /\ j \in Ingest /\ j.pc = "between" /\ j.dir = i.dir /\ j.at = i.at
             /\ j.file = Nothing /\ j.rows = i.rows /\ j.thumbs = i.thumbs
             /\ j.links = [i.links EXCEPT ![s] = IF i.file = i.loaded THEN i.links[s] ELSE i.file]
             /\ j.images = [i.images EXCEPT ![s] =
                              IF s \in Photos /\ i.file # Seen(i.images[s], image[s]) THEN i.file
                              ELSE i.images[s]]
<1> DEFINE s == Target[ingest[p].at]
           f == ingest[p].file
           l == IF f = ingest[p].loaded THEN ingest[p].links[s] ELSE f
           m == IF s \in Photos /\ f # Seen(ingest[p].images[s], image[s]) THEN f ELSE ingest[p].images[s]
           j == ingest'[p]
<1>1. ingest[p].at \in Names /\ s \in Slots /\ f \in Files /\ ingest[p] \in Ingest
  BY DEF LinkFile, Inv, TypeOK, StepsAreReady
<1>2. l \in Files \cup {Nothing} /\ m \in Files \cup {Nothing}
  BY <1>1 DEF Ingest
<1>3. /\ j = [ingest[p] EXCEPT !.pc = "between", !.loaded = Nothing, !.sum = Nothing,
                               !.file = Nothing, !.links[s] = l, !.images[s] = m]
      /\ ingest' = [ingest EXCEPT ![p] = j]
  BY DEF LinkFile, Inv, TypeOK
<1> HIDE DEF s, f, l, m, j
<1>4. /\ j \in Ingest /\ j.pc = "between" /\ j.dir = ingest[p].dir /\ j.at = ingest[p].at
      /\ j.file = Nothing /\ j.rows = ingest[p].rows /\ j.thumbs = ingest[p].thumbs
      /\ j.links = [ingest[p].links EXCEPT ![s] = l]
      /\ j.images = [ingest[p].images EXCEPT ![s] = m]
  BY <1>1, <1>2, <1>3 DEF Ingest
<1> QED
  BY <1>1, <1>3, <1>4 DEF s, f, l, m, j

\* The foreign keys are staged.
LEMMA LinkFileInv ==
  ASSUME Inv, NEW p \in Ingests, LinkFile(p)  PROVE  Inv'
<1>1. UNCHANGED <<named, disk, db, backfill>> /\ source' \in [Names -> Contents]
  BY DEF LinkFile, Inv, TypeOK
<1> QED
  BY <1>1, LinkFileFields, ReadingKeepsInv

\* The records of processes that do not run.
LEMMA IdleIsTyped == IdleIngest \in Ingest /\ IdleBackfill \in Backfill
  BY DEF IdleIngest, Ingest, IdleBackfill, Backfill, NoRows, NoLinks

\* What was staged is forgotten; the files stay, with no row.
LEMMA AbortIngestInv ==
  ASSUME Inv, NEW p \in Ingests, AbortIngest(p)  PROVE  Inv'
<1>1. IdleIngest.pc = "idle" /\ IdleIngest.rows = NoRows /\ IdleIngest.thumbs = {}
  BY DEF IdleIngest
<1>2. ingest' = [ingest EXCEPT ![p] = IdleIngest] /\ UNCHANGED <<named, disk, db, backfill>> /\ source' \in [Names -> Contents]
  BY DEF AbortIngest, Inv, TypeOK
<1> QED
  BY <1>1, <1>2, IdleIsTyped, ReadingKeepsInv

\* The copy goes to a file that no row, staged or committed, speaks of.
LEMMA CopyFileInv ==
  ASSUME Inv, NEW p \in Ingests, CopyFile(p)  PROVE  Inv'
<1> DEFINE f == ingest[p].file
<1> USE LibraryAssumption DEF Inv
<1>0. f \in Files /\ original[f] = Nothing /\ original[f] \notin Contents /\ ingest[p].pc = "copy"
  BY DEF CopyFile, StepsAreReady, DrawnFilesAreNew
<1>1. /\ original'[f] = Partial /\ \A g \in Files \ {f} : original'[g] = original[g]
      /\ UNCHANGED Rows
  BY <1>0 DEF CopyFile, TypeOK, db, Rows
<1>2. /\ ingest'[p] = [ingest[p] EXCEPT !.pc = "copying"]
      /\ \A q \in Ingests \ {p} : ingest'[q] = ingest[q]
      /\ \A q \in Ingests : /\ ingest'[q].rows = ingest[q].rows
                            /\ ingest'[q].thumbs = ingest[q].thumbs
                            /\ ingest'[q].file = ingest[q].file
                            /\ ingest'[q].at = ingest[q].at
                            /\ ingest'[q].sum = ingest[q].sum
      /\ ingest'[p].pc = "copying"
  BY DEF CopyFile, TypeOK, Ingest
<1>3. TypeOK'
  <2>1. original' \in [Files -> Contents \cup {Nothing, Partial}]
    BY DEF CopyFile, TypeOK
  <2>2. ingest'[p] \in Ingest
    BY <1>2 DEF TypeOK, Ingest
  <2>3. ingest' \in [Ingests -> Ingest]
    BY <1>2, <2>2 DEF CopyFile, TypeOK
  <2> QED
    BY <1>1, <2>1, <2>3 DEF CopyFile, TypeOK, db
<1>4. RowsHaveBytes'
  BY <1>0, <1>1 DEF RowsHaveBytes, Rows
<1>5. StepsAreReady'
  BY <1>0, <1>2 DEF StepsAreReady
<1>6. DrawnFilesAreNew'
  <2>1. \A q \in Ingests : ingest[q].pc \in {"copy", "copying"} =>
           ingest[q].file \in Files /\ (ingest[q].file = f => q = p)
    BY <1>0 DEF DrawnFilesAreNew, StepsAreReady
  <2>2. \A q \in Ingests : ingest'[q].pc \in {"copy", "copying"} =>
           /\ ingest[q].pc \in {"copy", "copying"} /\ ingest'[q].file = ingest[q].file
           /\ q # p => ingest'[q].pc = ingest[q].pc /\ original'[ingest[q].file] = original[ingest[q].file]
    BY <1>0, <1>1, <1>2, <2>1
  <2>3. \A q \in Ingests : /\ ingest'[q].pc = "copy" => original'[ingest'[q].file] = Nothing
                           /\ ingest'[q].pc = "copying" => original'[ingest'[q].file] = Partial
    <3> SUFFICES ASSUME NEW q \in Ingests
                 PROVE  /\ ingest'[q].pc = "copy" => original'[ingest'[q].file] = Nothing
                        /\ ingest'[q].pc = "copying" => original'[ingest'[q].file] = Partial
      OBVIOUS
    <3>1. CASE q = p
      BY <1>1, <1>2, <3>1
    <3>2. CASE q # p
      BY <2>2, <3>2 DEF DrawnFilesAreNew
    <3> QED
      BY <3>1, <3>2
  <2>4. \A q, r \in Ingests : /\ ingest'[q].pc \in {"copy", "copying"}
                              /\ ingest'[r].pc \in {"copy", "copying"}
                              /\ ingest'[q].file = ingest'[r].file
                              => q = r
    BY <2>2 DEF DrawnFilesAreNew
  <2> QED
    BY <2>3, <2>4 DEF DrawnFilesAreNew
<1>7. StagedRowsAreNew'
  <2>1. \A q \in Ingests : UNCHANGED Staged(q)
    BY <1>2 DEF Staged
  <2>2. \A q \in Ingests : f \notin Staged(q)
    BY <1>0 DEF StagedRowsAreNew
  <2>3. \A q \in Ingests : Staged(q) \subseteq Files
    BY DEF Staged
  <2> QED
    BY <1>1, <1>2, <2>1, <2>2, <2>3 DEF StagedRowsAreNew
<1>8. BackfillsRows'
  BY <1>0, <1>1 DEF BackfillsRows, CopyFile, Rows, RowsHaveBytes
<1> QED
  BY <1>3, <1>4, <1>5, <1>6, <1>7, <1>8

\* A file is copied: its row and perhaps its thumbnail are staged.
LEMMA AddRowFields ==
  ASSUME Inv, NEW p \in Ingests, AddRow(p)
  PROVE  LET i == ingest[p]
             j == ingest'[p]
             bytes == source[i.at]
         IN  /\ i.file \in Files /\ i.at \in Names /\ i.sum \in Contents /\ bytes \in Contents
             /\ original[i.file] = Partial
             /\ original' = [original EXCEPT ![i.file] = bytes]
             /\ ingest' = [ingest EXCEPT ![p] = j]
             /\ j \in Ingest /\ j.pc = "link" /\ j.dir = i.dir /\ j.at = i.at /\ j.sum = i.sum
             /\ j.loaded = i.loaded /\ j.file = i.file /\ j.links = i.links /\ j.images = i.images
             /\ j.rows = [i.rows EXCEPT ![i.file] = i.sum]
             /\ j.thumbs = IF bytes \notin Undecodable THEN i.thumbs \cup {i.file} ELSE i.thumbs
<1> DEFINE f == ingest[p].file
           bytes == source[ingest[p].at]
           small == bytes \notin Undecodable
           j == ingest'[p]
<1> USE DEF Inv
<1>1. /\ f \in Files /\ original[f] = Partial /\ ingest[p].at \in Names
      /\ ingest[p].sum \in Contents /\ bytes \in Contents /\ ingest[p] \in Ingest
  BY DEF AddRow, StepsAreReady, DrawnFilesAreNew, TypeOK
<1>2. /\ original' = [original EXCEPT ![f] = bytes]
      /\ ingest' = [ingest EXCEPT ![p] = j]
      /\ j = [ingest[p] EXCEPT !.pc = "link", !.rows[f] = ingest[p].sum,
                               !.thumbs = IF small THEN @ \cup {f} ELSE @]
  BY DEF AddRow, TypeOK
<1> HIDE DEF f, bytes, small, j
<1>3. LET i == ingest[p]
      IN  /\ j \in Ingest /\ j.pc = "link" /\ j.dir = i.dir /\ j.at = i.at /\ j.sum = i.sum
          /\ j.loaded = i.loaded /\ j.file = i.file /\ j.links = i.links /\ j.images = i.images
          /\ j.rows = [i.rows EXCEPT ![f] = i.sum]
          /\ j.thumbs = IF small THEN i.thumbs \cup {f} ELSE i.thumbs
  BY <1>1, <1>2 DEF Ingest
<1> QED
  BY <1>1, <1>2, <1>3 DEF f, bytes, small, j

\* The staged row has its bytes by then.
LEMMA AddRowInv ==
  ASSUME Inv, NEW p \in Ingests, AddRow(p)  PROVE  Inv'
<1> DEFINE f == ingest[p].file
           bytes == source[ingest[p].at]
           i == ingest'[p]
<1> USE LibraryAssumption DEF Inv
<1>0. /\ f \in Files /\ original[f] = Partial /\ original[f] \notin Contents
      /\ ingest[p].pc = "copying" /\ ingest[p].at \in Names
      /\ ingest[p].sum \in Contents /\ bytes \in Contents
  BY AddRowFields DEF AddRow
<1>1. /\ original'[f] = bytes /\ \A g \in Files \ {f} : original'[g] = original[g]
      /\ UNCHANGED Rows
  BY <1>0 DEF AddRow, TypeOK, db, Rows
<1>2. \A q \in Ingests \ {p} : ingest'[q] = ingest[q]
  BY DEF AddRow, TypeOK
<1>3. /\ i \in Ingest /\ i.pc = "link" /\ i.at = ingest[p].at /\ i.sum = ingest[p].sum
      /\ i.file = f
      /\ i.rows = [ingest[p].rows EXCEPT ![f] = ingest[p].sum]
      /\ i.thumbs \subseteq ingest[p].thumbs \cup {f}
  BY AddRowFields
<1>4. TypeOK'
  <2>1. thumb' \in [Files -> (Contents \ Undecodable) \cup {Nothing, Partial}]
    BY <1>0 DEF AddRow, TypeOK
  <2>2. ingest' \in [Ingests -> Ingest]
    BY <1>3 DEF AddRow, TypeOK
  <2> QED
    BY <1>0, <2>1, <2>2 DEF AddRow, TypeOK, db, Rows
<1>5. RowsHaveBytes'
  BY <1>0, <1>1 DEF RowsHaveBytes, Rows
<1>6. StepsAreReady'
  BY <1>0, <1>2, <1>3 DEF StepsAreReady
<1>7. DrawnFilesAreNew'
  <2>1. \A q \in Ingests : ingest[q].pc \in {"copy", "copying"} =>
           ingest[q].file \in Files /\ (ingest[q].file = f => q = p)
    BY <1>0 DEF DrawnFilesAreNew, StepsAreReady
  <2>2. \A q \in Ingests : ingest'[q].pc \in {"copy", "copying"} =>
           /\ q # p /\ ingest'[q] = ingest[q]
           /\ original'[ingest[q].file] = original[ingest[q].file]
    BY <1>0, <1>1, <1>2, <1>3, <2>1
  <2> QED
    BY <2>2 DEF DrawnFilesAreNew
<1>8. StagedRowsAreNew'
  <2>1. Staged(p)' = Staged(p) \cup {f} /\ \A q \in Ingests \ {p} : UNCHANGED Staged(q)
    BY <1>0, <1>2, <1>3 DEF Staged, TypeOK, Ingest
  <2>2. f \notin Rows /\ \A q \in Ingests : f \notin Staged(q)
    BY <1>0 DEF StagedRowsAreNew, RowsHaveBytes
  <2>3. \A q \in Ingests : Staged(q) \subseteq Files
    BY DEF Staged
  <2>4. i.thumbs \subseteq Staged(p)'
    BY <1>3, <2>1 DEF StagedRowsAreNew
  <2>5. \A q \in Ingests : \A g \in Staged(q)' : original'[g] \in Contents /\ g \notin Rows'
    BY <1>0, <1>1, <2>1, <2>2, <2>3 DEF StagedRowsAreNew
  <2>6. \A q, r \in Ingests : q # r => Staged(q)' \cap Staged(r)' = {}
    BY <2>1, <2>2 DEF StagedRowsAreNew
  <2>7. ASSUME NEW q \in Ingests PROVE ingest'[q].thumbs \subseteq Staged(q)'
    <3>1. CASE q = p
      BY <2>4, <3>1
    <3>2. CASE q # p
      BY <1>2, <2>1, <3>2 DEF StagedRowsAreNew
    <3> QED
      BY <3>1, <3>2
  <2> QED
    BY <2>5, <2>6, <2>7 DEF StagedRowsAreNew
<1>9. BackfillsRows'
  BY <1>0, <1>1 DEF BackfillsRows, AddRow, Rows, RowsHaveBytes
<1> QED
  BY <1>4, <1>5, <1>6, <1>7, <1>8, <1>9

\* The rows that become visible are whole, and stay apart from those of others.
LEMMA CommitIngestInv ==
  ASSUME Inv, NEW p \in Ingests, CommitIngest(p)  PROVE  Inv'
<1> USE LibraryAssumption DEF Inv
<1>0. ingest' = [ingest EXCEPT ![p] = IdleIngest] /\ UNCHANGED <<source, named, disk, backfill>>
  BY DEF CommitIngest
<1>1. Rows' = Rows \cup Staged(p)
  BY DEF CommitIngest, Rows, Staged
<1>2. ingest'[p] = IdleIngest /\ \A q \in Ingests \ {p} : ingest'[q] = ingest[q]
  BY <1>0 DEF TypeOK
<1>3. TypeOK'
  <2>1. checksum' \in [Files -> Contents \cup {Nothing}]
    BY DEF CommitIngest, TypeOK, Ingest
  <2>2. thumbed' \subseteq Rows'
    BY <1>1 DEF CommitIngest, TypeOK, StagedRowsAreNew
  <2>3. /\ primary' \in [Slots -> Files \cup {Nothing}]
        /\ image' \in [Slots -> Files \cup {Nothing}]
    BY DEF CommitIngest, TypeOK, Ingest, Written, Seen
  <2>4. ingest' \in [Ingests -> Ingest]
    BY <1>0, IdleIsTyped DEF TypeOK
  <2> QED
    BY <1>0, <2>1, <2>2, <2>3, <2>4 DEF TypeOK, disk
<1>4. RowsHaveBytes'
  BY <1>0, <1>1 DEF RowsHaveBytes, StagedRowsAreNew, disk
<1>5. StepsAreReady' /\ DrawnFilesAreNew'
  BY <1>0, <1>2 DEF StepsAreReady, DrawnFilesAreNew, IdleIngest, disk
<1>6. StagedRowsAreNew'
  <2>1. Staged(p)' = {} /\ ingest'[p].thumbs = {} /\ \A q \in Ingests \ {p} : UNCHANGED Staged(q)
    BY <1>2 DEF Staged, IdleIngest, NoRows
  <2> QED
    BY <1>0, <1>1, <1>2, <2>1 DEF StagedRowsAreNew, disk
<1>7. BackfillsRows'
  BY <1>0, <1>1 DEF BackfillsRows, disk
<1> QED
  BY <1>3, <1>4, <1>5, <1>6, <1>7

\* A step of a backfill keeps the invariant if it works on rows.
LEMMA BackfillKeepsInv ==
  ASSUME Inv, NEW b \in Backfills, NEW d \in Backfill,
         backfill' = [backfill EXCEPT ![b] = d],
         UNCHANGED <<source, named, original, checksum, primary, image, ingest>>,
         thumb' \in [Files -> (Contents \ Undecodable) \cup {Nothing, Partial}],
         thumbed' \subseteq Rows,
         d.todo \subseteq Rows, d.done \subseteq Rows,
         d.pc = "writing" => d.file \in Rows /\ original[d.file] \in Contents \ Undecodable
  PROVE  Inv'
<1> USE DEF Inv
<1>0. UNCHANGED Rows
  BY DEF Rows
<1>1. TypeOK'
  BY <1>0 DEF TypeOK
<1>2. RowsHaveBytes' /\ StepsAreReady' /\ DrawnFilesAreNew'
  BY <1>0 DEF RowsHaveBytes, StepsAreReady, DrawnFilesAreNew
<1>3. StagedRowsAreNew'
  <2>1. \A q \in Ingests : UNCHANGED Staged(q)
    BY DEF Staged
  <2> QED
    BY <1>0, <2>1 DEF StagedRowsAreNew
<1>4. BackfillsRows'
  BY <1>0 DEF BackfillsRows, TypeOK
<1> QED
  BY <1>1, <1>2, <1>3, <1>4

\* Every step of a backfill is one of those.
LEMMA BackfillStepInv ==
  ASSUME Inv, NEW b \in Backfills, BackfillStep(b)  PROVE  Inv'
<1> USE DEF Inv, TypeOK, disk, db
<1>1. CASE SelectRows(b)
  <2> DEFINE d == [IdleBackfill EXCEPT !.pc = "scan", !.todo = Rows \ thumbed]
  <2>1. d \in Backfill /\ d.todo \subseteq Rows /\ d.done \subseteq Rows /\ d.pc # "writing"
    BY DEF Backfill, IdleBackfill, Rows
  <2> QED
    BY <1>1, <2>1, BackfillKeepsInv DEF SelectRows
<1>2. ASSUME NEW f \in Files, SkipRow(b, f) PROVE Inv'
  <2> DEFINE d == [backfill[b] EXCEPT !.todo = @ \ {f}]
  <2>1. d \in Backfill /\ d.todo \subseteq Rows /\ d.done \subseteq Rows /\ d.pc # "writing"
    BY <1>2 DEF Backfill, SkipRow, BackfillsRows
  <2>2. backfill' = [backfill EXCEPT ![b] = d]
    BY <1>2 DEF SkipRow, Backfill
  <2> HIDE DEF d
  <2> QED
    BY <1>2, <2>1, <2>2, BackfillKeepsInv DEF SkipRow
<1>3. ASSUME NEW f \in Files, TruncateThumb(b, f) PROVE Inv'
  <2> DEFINE d == [backfill[b] EXCEPT !.pc = "writing", !.todo = @ \ {f}, !.file = f]
  <2>1. d \in Backfill /\ d.todo \subseteq Rows /\ d.done \subseteq Rows /\ d.file = f
        /\ f \in Rows /\ original[f] \in Contents \ Undecodable
    BY <1>3 DEF Backfill, TruncateThumb, BackfillsRows
  <2> HIDE DEF d
  <2> QED
    BY <1>3, <2>1, BackfillKeepsInv DEF TruncateThumb, d
<1>4. CASE WriteThumb(b)
  <2> DEFINE f == backfill[b].file
             d == [backfill[b] EXCEPT !.pc = "scan", !.file = Nothing, !.done = @ \cup {f}]
  <2>1. f \in Rows /\ f \in Files /\ original[f] \in Contents \ Undecodable
    BY <1>4 DEF WriteThumb, BackfillsRows, Rows
  <2>2. d \in Backfill /\ d.todo \subseteq Rows /\ d.done \subseteq Rows /\ d.pc # "writing"
    BY <2>1 DEF Backfill, BackfillsRows
  <2> HIDE DEF d
  <2> QED
    BY <1>4, <2>1, <2>2, BackfillKeepsInv DEF WriteThumb, d
<1>5. CASE CommitBackfill(b)
  <2>1. IdleBackfill.todo \subseteq Rows /\ IdleBackfill.done \subseteq Rows /\ IdleBackfill.pc # "writing"
    BY DEF IdleBackfill
  <2>2. thumbed' \subseteq Rows
    BY <1>5 DEF CommitBackfill, BackfillsRows
  <2> QED
    BY <1>5, <2>1, <2>2, IdleIsTyped, BackfillKeepsInv DEF CommitBackfill
<1>6. CASE AbortBackfill(b)
  <2>1. IdleBackfill.todo \subseteq Rows /\ IdleBackfill.done \subseteq Rows /\ IdleBackfill.pc # "writing"
    BY DEF IdleBackfill
  <2> QED
    BY <1>6, <2>1, IdleIsTyped, BackfillKeepsInv DEF AbortBackfill
<1> QED
  BY <1>1, <1>2, <1>3, <1>4, <1>5, <1>6 DEF BackfillStep

\* The sources, and which rows they are for, are no part of it.
LEMMA EditSourceInv ==
  ASSUME Inv,
         \/ \E n \in Names, c \in Contents : EditSource(n, c)
         \/ \E s \in Slots : SeedRow(s)
  PROVE  Inv'
<1> USE DEF Inv, EditSource, SeedRow, disk, db
<1>1. UNCHANGED Rows /\ \A q \in Ingests : UNCHANGED Staged(q)
  BY DEF Rows, Staged
<1>2. TypeOK' /\ RowsHaveBytes' /\ StepsAreReady' /\ DrawnFilesAreNew'
  BY <1>1 DEF TypeOK, RowsHaveBytes, StepsAreReady, DrawnFilesAreNew
<1> QED
  BY <1>1, <1>2 DEF StagedRowsAreNew, BackfillsRows

\* So every step keeps it, ...
LEMMA StepInv == Inv /\ [Next]_vars => Inv'
<1> SUFFICES ASSUME Inv, [Next]_vars PROVE Inv'
  OBVIOUS
<1>1. ASSUME NEW p \in Ingests, IngestStep(p) PROVE Inv'
  BY <1>1, StartIngestInv, SkipFileInv, BeginFileInv, LookUpInv, CopyFileInv, AddRowInv, LinkFileInv, CommitIngestInv,
     AbortIngestInv DEF IngestStep
<1>2. ASSUME NEW b \in Backfills, BackfillStep(b) PROVE Inv'
  BY <1>2, BackfillStepInv
<1>3. CASE \/ \E n \in Names, c \in Contents : EditSource(n, c)
           \/ \E s \in Slots : SeedRow(s)
  BY <1>3, EditSourceInv
<1>4. CASE UNCHANGED vars
  <2>1. UNCHANGED Rows /\ \A q \in Ingests : UNCHANGED Staged(q)
    BY <1>4 DEF Rows, Staged, vars
  <2> QED
    BY <1>4, <2>1 DEF vars, Inv, TypeOK, RowsHaveBytes, StepsAreReady, DrawnFilesAreNew,
                      StagedRowsAreNew, BackfillsRows
<1> QED
  BY <1>1, <1>2, <1>3, <1>4 DEF Next

\* ... and it holds of all reachable states.
THEOREM Invariance == Spec => []Inv
  BY InitInv, StepInv, PTL DEF Spec

\* The variables have their types; that a thumbnail file never holds bytes Pillow
\* cannot decode is part of them.
THEOREM TypeCorrect == Spec => []TypeOK
  BY Invariance, PTL DEF Inv

\* A row the server can read has the whole of its file on disk, however many
\* ingests overlap and wherever they are killed.
THEOREM VisibleRowsHaveBytes == Spec => []RowsHaveBytes
  BY Invariance, PTL DEF Inv

-----------------------------------------------------------------------------
\* With backfills that do not overlap: the thumbnails of a transaction are whole
\* before it commits, and a backfill only touches those nobody can see.
ThumbsAreWholeBefore ==
    /\ \A p \in Ingests : \A f \in ingest[p].thumbs : thumb[f] = original[f]
    /\ \A b \in Backfills :
          /\ \A f \in backfill[b].done : thumb[f] = original[f]
          /\ backfill[b].todo \cap (thumbed \cup backfill[b].done) = {}
          /\ backfill[b].pc = "writing" =>
                backfill[b].file \notin thumbed \cup backfill[b].todo \cup backfill[b].done
          /\ backfill[b].pc = "idle" => backfill[b] = IdleBackfill

ThumbInv == ThumbsAreWhole /\ ThumbsAreWholeBefore

-----------------------------------------------------------------------------
\* Neither command writes to a file that has a row, or will have one at a commit.
LEMMA OriginalsStay ==
  ASSUME Inv, [Next]_vars
  PROVE  \A f \in Files : f \in Rows \/ (\E p \in Ingests : f \in Staged(p)) => original'[f] = original[f]
<1> SUFFICES ASSUME NEW f \in Files, original[f] \in Contents PROVE original'[f] = original[f]
  BY DEF Inv, RowsHaveBytes, StagedRowsAreNew
<1>1. ASSUME NEW p \in Ingests, CopyFile(p) \/ AddRow(p) PROVE original'[f] = original[f]
  <2>1. original[ingest[p].file] \notin Contents
    BY <1>1, LibraryAssumption DEF Inv, DrawnFilesAreNew, CopyFile, AddRow
  <2> QED
    BY <1>1, <2>1 DEF CopyFile, AddRow, Inv, TypeOK
<1> QED
  BY <1>1 DEF Next, IngestStep, BackfillStep, StartIngest, SkipFile, BeginFile, LookUp, LinkFile, CommitIngest, AbortIngest,
     SelectRows, SkipRow, TruncateThumb, WriteThumb, CommitBackfill, AbortBackfill, EditSource, SeedRow, vars, disk

\* A thumbnail file changes under the hands of the transaction that copies the
\* original, or of a backfill that has the row before it.
LEMMA ThumbWriters ==
  ASSUME Inv, [Next]_vars, NEW f \in Files, thumb'[f] # thumb[f]
  PROVE  \/ \E p \in Ingests : AddRow(p) /\ f = ingest[p].file /\ f \notin Rows
                               /\ \A q \in Ingests : f \notin Staged(q)
         \/ \E b \in Backfills : TruncateThumb(b, f)
         \/ \E b \in Backfills : WriteThumb(b) /\ f = backfill[b].file
<1>1. ASSUME NEW p \in Ingests, AddRow(p)
      PROVE  f = ingest[p].file /\ f \notin Rows /\ \A q \in Ingests : f \notin Staged(q)
  <2>1. ingest[p].file \in Files /\ original[ingest[p].file] \notin Contents
    BY <1>1, LibraryAssumption DEF Inv, DrawnFilesAreNew, StepsAreReady, AddRow
  <2>2. f = ingest[p].file
    BY <1>1 DEF AddRow, Inv, TypeOK
  <2> QED
    BY <2>1, <2>2 DEF Inv, RowsHaveBytes, StagedRowsAreNew
<1>2. ASSUME NEW b \in Backfills, NEW g \in Files, TruncateThumb(b, g) PROVE f = g
  BY <1>2 DEF TruncateThumb, Inv, TypeOK
<1>3. ASSUME NEW b \in Backfills, WriteThumb(b) PROVE f = backfill[b].file
  BY <1>3 DEF WriteThumb, Inv, TypeOK
<1> QED
  BY <1>1, <1>2, <1>3 DEF Next, IngestStep, BackfillStep, StartIngest, SkipFile, BeginFile, LookUp, CopyFile, LinkFile,
     CommitIngest, AbortIngest, SelectRows, SkipRow, CommitBackfill, AbortBackfill, EditSource, SeedRow, vars, disk

\* So nothing a transaction of an ingest has staged is touched by another process, ...
LEMMA StagedThumbsStay ==
  ASSUME Inv, [Next]_vars, NEW p \in Ingests, NEW f \in Staged(p)
  PROVE  thumb'[f] = thumb[f] /\ original'[f] = original[f]
<1>1. f \in Files /\ f \notin Rows
  BY DEF Staged, Inv, StagedRowsAreNew
<1>2. \A b \in Backfills : ~TruncateThumb(b, f) /\ ~(WriteThumb(b) /\ f = backfill[b].file)
  BY <1>1 DEF TruncateThumb, WriteThumb, Inv, BackfillsRows
<1> QED
  BY <1>1, <1>2, ThumbWriters, OriginalsStay

\* ... and no thumbnail the server announces is touched at all.
LEMMA AnnouncedThumbsStay ==
  ASSUME Inv, ThumbInv, [Next]_vars, NEW f \in thumbed
  PROVE  thumb'[f] = thumb[f] /\ original'[f] = original[f]
<1>1. f \in Files /\ f \in Rows
  BY DEF Inv, TypeOK, Rows
<1>2. \A b \in Backfills : ~TruncateThumb(b, f) /\ ~(WriteThumb(b) /\ f = backfill[b].file)
  BY DEF TruncateThumb, WriteThumb, ThumbInv, ThumbsAreWholeBefore
<1> QED
  BY <1>1, <1>2, ThumbWriters, OriginalsStay

\* It holds at first: nothing has a thumbnail.
LEMMA ThumbInit == Init => ThumbInv
  BY DEF Init, ThumbInv, ThumbsAreWhole, ThumbsAreWholeBefore, IdleIngest, IdleBackfill

\* The thumbnails a transaction has staged stay whole until its commit.
LEMMA IngestThumbsWhole ==
  ASSUME Inv, ThumbInv, [Next]_vars, NEW p \in Ingests, NEW f \in ingest'[p].thumbs
  PROVE  thumb'[f] = original'[f]
<1>1. CASE f \in ingest[p].thumbs
  <2>1. f \in Staged(p) /\ thumb[f] = original[f]
    BY <1>1 DEF Inv, StagedRowsAreNew, ThumbInv, ThumbsAreWholeBefore
  <2> QED
    BY <2>1, StagedThumbsStay
<1>2. CASE AddRow(p)
  <2> DEFINE g == ingest[p].file
             bytes == source[ingest[p].at]
             small == bytes \notin Undecodable
  <2>1. g \in Files
    BY <1>2 DEF AddRow, Inv, StepsAreReady
  <2>2. ingest'[p].thumbs = IF small THEN ingest[p].thumbs \cup {g} ELSE ingest[p].thumbs
    BY <1>2, AddRowFields
  <2>3. CASE f = g /\ small
    BY <1>2, <2>1, <2>3 DEF AddRow, Inv, TypeOK
  <2> QED
    BY <1>1, <2>2, <2>3
<1>3. CASE ~AddRow(p)
  <2>1. ingest'[p].thumbs = ingest[p].thumbs \/ ingest'[p].thumbs = {}
    <3>1. ASSUME NEW q \in Ingests, IngestStep(q)
          PROVE  ingest'[p].thumbs = ingest[p].thumbs \/ ingest'[p].thumbs = {}
      <4>1. ingest[p] \in Ingest
        BY DEF Inv, TypeOK
      <4>2. CASE q = p
        <5>1. CASE LinkFile(p)
          BY <5>1, LinkFileFields
        <5>2. ASSUME NEW g \in Files, LookUp(p, g) PROVE ingest'[p].thumbs = ingest[p].thumbs
          BY <5>2, <4>1 DEF LookUp, Inv, TypeOK, Ingest
        <5>3. ASSUME NEW n \in Names, SkipFile(p, n) \/ BeginFile(p, n)
              PROVE  ingest'[p].thumbs = ingest[p].thumbs
          BY <5>3, <4>1 DEF SkipFile, BeginFile, Inv, TypeOK, Ingest
        <5>6. ASSUME NEW d \in SUBSET Names, StartIngest(p, d) PROVE ingest'[p].thumbs = {}
          BY <5>6 DEF StartIngest, Inv, TypeOK, IdleIngest
        <5>4. CASE CopyFile(p)
          BY <5>4, <4>1 DEF CopyFile, Inv, TypeOK, Ingest
        <5>5. CASE CommitIngest(p) \/ AbortIngest(p)
          BY <5>5 DEF CommitIngest, AbortIngest, Inv, TypeOK, IdleIngest
        <5> QED
          BY <1>3, <3>1, <4>2, <5>1, <5>2, <5>3, <5>4, <5>5, <5>6 DEF IngestStep
      <4>3. CASE q # p
        BY <1>3, <3>1, <4>3 DEF IngestStep, StartIngest, SkipFile, BeginFile, LookUp, CopyFile, AddRow, LinkFile, CommitIngest, AbortIngest,
           Inv, TypeOK
      <4> QED
        BY <4>2, <4>3
    <3>2. CASE UNCHANGED ingest
      BY <3>2
    <3> QED
      BY <3>1, <3>2 DEF Next, BackfillStep, SelectRows, SkipRow, TruncateThumb, WriteThumb, CommitBackfill,
         AbortBackfill, EditSource, SeedRow, vars
  <2> QED
    BY <1>1, <2>1
<1> QED
  BY <1>2, <1>3

\* What the invariant says of one backfill.
BackfillThumbs(b) ==
    /\ \A f \in backfill[b].done : thumb[f] = original[f]
    /\ backfill[b].todo \cap (thumbed \cup backfill[b].done) = {}
    /\ backfill[b].pc = "writing" =>
          backfill[b].file \notin thumbed \cup backfill[b].todo \cup backfill[b].done
    /\ backfill[b].pc = "idle" => backfill[b] = IdleBackfill

\* A backfill that does not run has none.
LEMMA IdleThumbs ==
  ASSUME NEW b \in Backfills, backfill'[b] = IdleBackfill  PROVE  BackfillThumbs(b)'
  BY DEF BackfillThumbs, IdleBackfill

\* A step of a backfill keeps what the invariant says of each, the others being idle.
LEMMA BackfillThumbsWhole ==
  ASSUME Inv, ThumbInv, BackfillsApart, NEW b \in Backfills, BackfillStep(b), NEW c \in Backfills
  PROVE  BackfillThumbs(c)'
<1> USE DEF disk, db
<1>0. /\ BackfillThumbs(b) /\ BackfillThumbs(c) /\ backfill[b] \in Backfill
      /\ backfill \in [Backfills -> Backfill]
      /\ \A f \in backfill[b].todo \cup backfill[b].done : f \in Rows /\ f \in Files
  BY DEF ThumbInv, ThumbsAreWholeBefore, BackfillThumbs, Inv, TypeOK, BackfillsRows, Rows
<1>1. CASE SelectRows(b)
  <2>1. CASE c = b
    <3>1. backfill'[c] = [IdleBackfill EXCEPT !.pc = "scan", !.todo = Rows \ thumbed]
      BY <1>0, <1>1, <2>1 DEF SelectRows
    <3>2. /\ backfill'[c].pc = "scan" /\ backfill'[c].done = {}
          /\ backfill'[c].todo = Rows \ thumbed /\ thumbed' = thumbed
      BY <1>1, <3>1 DEF SelectRows, IdleBackfill
    <3> QED
      BY <3>2 DEF BackfillThumbs
  <2>2. CASE c # b
    <3>1. backfill'[c] = backfill[c]
      BY <1>0, <1>1, <2>2 DEF SelectRows
    <3> QED
      BY <1>0, <1>1, <3>1 DEF SelectRows, BackfillThumbs
  <2> QED
    BY <2>1, <2>2
<1>2. CASE c # b /\ ~SelectRows(b)
  <2>1. backfill[b].pc # "idle"
    BY <1>2 DEF BackfillStep, SkipRow, TruncateThumb, WriteThumb, CommitBackfill, AbortBackfill
  <2>2. backfill[c] = IdleBackfill
    BY <1>0, <1>2, <2>1 DEF BackfillsApart, Filling, BackfillThumbs
  <2>3. backfill'[c] = backfill[c]
    BY <1>0, <1>2 DEF BackfillStep, SkipRow, TruncateThumb, WriteThumb, CommitBackfill, AbortBackfill
  <2> QED
    BY <2>2, <2>3, IdleThumbs
<1>3. ASSUME c = b, NEW f \in Files, SkipRow(b, f) PROVE BackfillThumbs(c)'
  <2>1. backfill'[b] = [backfill[b] EXCEPT !.todo = @ \ {f}]
    BY <1>0, <1>3 DEF SkipRow
  <2> QED
    BY <1>0, <1>3, <2>1 DEF SkipRow, BackfillThumbs, Backfill
<1>4. ASSUME c = b, NEW f \in Files, TruncateThumb(b, f) PROVE BackfillThumbs(c)'
  <2>1. backfill'[b] = [backfill[b] EXCEPT !.pc = "writing", !.todo = @ \ {f}, !.file = f]
    BY <1>0, <1>4 DEF TruncateThumb
  <2>2. f \notin backfill[b].done /\ f \notin thumbed
    BY <1>0, <1>4 DEF TruncateThumb, BackfillThumbs
  <2>3. \A g \in backfill[b].done : thumb'[g] = thumb[g]
    BY <1>0, <1>4, <2>2 DEF TruncateThumb, Inv, TypeOK
  <2> QED
    BY <1>0, <1>4, <2>1, <2>2, <2>3 DEF TruncateThumb, BackfillThumbs, Backfill
<1>5. CASE c = b /\ WriteThumb(b)
  <2> DEFINE f == backfill[b].file
  <2>1. backfill'[b] = [backfill[b] EXCEPT !.pc = "scan", !.file = Nothing, !.done = @ \cup {f}]
    BY <1>0, <1>5 DEF WriteThumb
  <2>2. f \in Files /\ f \notin backfill[b].todo /\ f \notin thumbed
    BY <1>0, <1>5 DEF WriteThumb, BackfillThumbs, Inv, BackfillsRows, Rows
  <2>3. \A g \in backfill[b].done \cup {f} : thumb'[g] = original'[g]
    BY <1>0, <1>5, <2>2 DEF WriteThumb, BackfillThumbs, Inv, TypeOK
  <2> QED
    BY <1>0, <1>5, <2>1, <2>2, <2>3 DEF WriteThumb, BackfillThumbs, Backfill
<1>6. CASE c = b /\ (CommitBackfill(b) \/ AbortBackfill(b))
  <2>1. backfill'[b] = IdleBackfill
    BY <1>0, <1>6 DEF CommitBackfill, AbortBackfill
  <2> QED
    BY <1>6, <2>1, IdleThumbs
<1> QED
  BY <1>1, <1>2, <1>3, <1>4, <1>5, <1>6 DEF BackfillStep

\* A step keeps the invariant, from a state in which backfills do not overlap.
LEMMA ThumbStep == Inv /\ ThumbInv /\ BackfillsApart /\ [Next]_vars => ThumbInv'
<1> SUFFICES ASSUME Inv, ThumbInv, BackfillsApart, [Next]_vars PROVE ThumbInv'
  OBVIOUS
<1>1. ThumbsAreWhole'
  <2> SUFFICES ASSUME NEW f \in thumbed' PROVE thumb'[f] = original'[f]
    BY DEF ThumbsAreWhole
  <2>1. CASE f \in thumbed
    BY <2>1, AnnouncedThumbsStay DEF ThumbInv, ThumbsAreWhole
  <2>2. ASSUME NEW p \in Ingests, CommitIngest(p), f \in ingest[p].thumbs
        PROVE  thumb'[f] = original'[f]
    BY <2>2 DEF CommitIngest, ThumbInv, ThumbsAreWholeBefore, disk
  <2>3. ASSUME NEW b \in Backfills, CommitBackfill(b), f \in backfill[b].done
        PROVE  thumb'[f] = original'[f]
    BY <2>3 DEF CommitBackfill, ThumbInv, ThumbsAreWholeBefore, disk
  <2>4. \/ f \in thumbed
        \/ \E p \in Ingests : CommitIngest(p) /\ f \in ingest[p].thumbs
        \/ \E b \in Backfills : CommitBackfill(b) /\ f \in backfill[b].done
    BY DEF Next, IngestStep, BackfillStep, StartIngest, SkipFile, BeginFile, LookUp, CopyFile, AddRow, LinkFile, CommitIngest,
       AbortIngest, SelectRows, SkipRow, TruncateThumb, WriteThumb, CommitBackfill, AbortBackfill, EditSource,
       SeedRow, vars, db
  <2> QED
    BY <2>1, <2>2, <2>3, <2>4
<1>2. ASSUME NEW c \in Backfills PROVE BackfillThumbs(c)'
  <2>1. ASSUME NEW b \in Backfills, BackfillStep(b) PROVE BackfillThumbs(c)'
    BY <2>1, BackfillThumbsWhole
  <2>2. CASE UNCHANGED backfill
    <3>1. BackfillThumbs(c) /\ \A f \in backfill[c].done : f \in Rows /\ f \in Files
      BY DEF ThumbInv, ThumbsAreWholeBefore, BackfillThumbs, Inv, BackfillsRows, Rows
    <3>2. \A f \in Rows : f \in thumbed' => f \in thumbed
      <4>1. ASSUME NEW p \in Ingests, CommitIngest(p), NEW f \in Rows, f \in thumbed' PROVE f \in thumbed
        BY <4>1 DEF CommitIngest, Inv, StagedRowsAreNew
      <4>2. ASSUME NEW b \in Backfills, CommitBackfill(b), NEW f \in Rows, f \in thumbed' PROVE f \in thumbed
        BY <2>2, <4>2, <3>1 DEF CommitBackfill, Inv, TypeOK, IdleBackfill
      <4> QED
        BY <4>1, <4>2 DEF Next, IngestStep, BackfillStep, StartIngest, SkipFile, BeginFile, LookUp, CopyFile, AddRow, LinkFile,
           AbortIngest, SelectRows, SkipRow, TruncateThumb, WriteThumb, AbortBackfill, EditSource, SeedRow,
           vars, db
    <3>3. \A f \in backfill[c].done : thumb'[f] = original'[f]
      <4> SUFFICES ASSUME NEW f \in backfill[c].done PROVE thumb'[f] = thumb[f]
        BY <3>1, OriginalsStay DEF BackfillThumbs
      <4>1. ASSUME NEW b \in Backfills, TruncateThumb(b, f) \/ WriteThumb(b) PROVE FALSE
        <5>1. backfill[b] \in Backfill /\ backfill \in [Backfills -> Backfill]
          BY DEF Inv, TypeOK
        <5>2. CASE TruncateThumb(b, f)
          <6>1. backfill'[b] = [backfill[b] EXCEPT !.pc = "writing", !.todo = @ \ {f}, !.file = f]
            BY <5>1, <5>2 DEF TruncateThumb
          <6> QED
            BY <2>2, <5>1, <5>2, <6>1 DEF TruncateThumb, Backfill
        <5>3. CASE WriteThumb(b)
          <6>1. backfill'[b] = [backfill[b] EXCEPT !.pc = "scan", !.file = Nothing,
                                                   !.done = @ \cup {backfill[b].file}]
            BY <5>1, <5>3 DEF WriteThumb
          <6> QED
            BY <2>2, <5>1, <5>3, <6>1 DEF WriteThumb, Backfill
        <5> QED
          BY <4>1, <5>2, <5>3
      <4> QED
        BY <3>1, <4>1, ThumbWriters
    <3> QED
      BY <2>2, <3>1, <3>2, <3>3 DEF BackfillThumbs, Inv, BackfillsRows
  <2> QED
    BY <2>1, <2>2 DEF Next, IngestStep, StartIngest, SkipFile, BeginFile, LookUp, CopyFile, AddRow, LinkFile, CommitIngest,
       AbortIngest, EditSource, SeedRow, vars
<1> QED
  BY <1>1, <1>2, IngestThumbsWhole DEF ThumbInv, ThumbsAreWholeBefore, BackfillThumbs

\* Hence it is one of behaviours in which they never do.
THEOREM ThumbInvariance == Spec /\ []BackfillsApart => []ThumbInv
<1>1. Inv /\ ThumbInv /\ BackfillsApart /\ [Next]_vars => ThumbInv'
  BY ThumbStep
<1> QED
  BY <1>1, ThumbInit, Invariance, PTL DEF Spec

\* With backfills that do not overlap, a row that announces a thumbnail has a whole one.
THEOREM ThumbsWhole == Spec /\ []BackfillsApart => []ThumbsAreWhole
  BY ThumbInvariance, PTL DEF ThumbInv

\* ... and what the server calls immutable never changes on disk.
THEOREM Immutability == Spec /\ []BackfillsApart => BytesAreImmutable
<1>1. Inv /\ ThumbInv /\ [Next]_vars =>
         [/\ \A f \in Rows : original'[f] = original[f]
          /\ \A f \in thumbed : thumb'[f] = thumb[f]]_vars
  BY OriginalsStay, AnnouncedThumbsStay DEF Rows
<1> QED
  BY <1>1, Invariance, ThumbInvariance, PTL DEF Spec, BytesAreImmutable

\* The originals need no such condition.
THEOREM OriginalsImmutable == Spec => [][\A f \in Rows : original'[f] = original[f]]_vars
<1>1. Inv /\ [Next]_vars => [\A f \in Rows : original'[f] = original[f]]_vars
  BY OriginalsStay DEF Rows
<1> QED
  BY <1>1, Invariance, PTL DEF Spec

-----------------------------------------------------------------------------
\* One command at a time, on sources at rest.

\* The files a transaction of p can find: committed ones and its own.
Known(p) == Rows \cup Staged(p)

SumOf(p, f) == IF ingest[p].rows[f] # Nothing THEN ingest[p].rows[f] ELSE checksum[f]

\* The checksums p sees are true and tell its files apart.
SumsTellFiles(p) ==
    /\ \A f \in Staged(p) : original[f] = ingest[p].rows[f]
    /\ \A f, g \in Known(p) : SumOf(p, f) = SumOf(p, g) => f = g

\* What p has read of its file and its slot is still so.
ReadsAreCurrent(p) ==
    LET i == ingest[p] IN
    /\ i.pc # "ambiguous"
    /\ i.pc = "idle" => i = IdleIngest
    /\ i.pc \in {"lookup", "copy", "copying", "link"} =>
          /\ i.at \in i.dir /\ Target[i.at] \in named
          /\ i.sum = source[i.at]
          /\ i.loaded = Seen(i.links[Target[i.at]], primary[Target[i.at]])
    /\ i.pc \in {"copy", "copying"} => \A f \in Known(p) : SumOf(p, f) # i.sum
    /\ i.pc = "link" => i.file \in Known(p) /\ SumOf(p, i.file) = i.sum

\* The files p has done and not skipped, and those of one slot.
DoneBy(p) ==
    {n \in ingest[p].dir : /\ Target[n] \in named
                           /\ n < ingest[p].at \/ (ingest[p].pc = "between" /\ n = ingest[p].at)}

DoneFor(p, s) == {n \in DoneBy(p) : Target[n] = s}

\* The foreign key of s once p has committed.
Published(p, s) == Seen(ingest[p].links[s], primary[s])

\* Slot s is left alone, or will lead to the bytes of the last of its files that
\* are done.
SlotIsDone(p, s) ==
    \/ DoneFor(p, s) = {} /\ ingest[p].links[s] = Nothing
    \/ \E n \in DoneFor(p, s) :
          /\ \A m \in DoneFor(p, s) : m <= n
          /\ Published(p, s) \in Known(p)
          /\ original[Published(p, s)] = source[n]

\* That holds of every slot, in both columns, and nothing is staged that is not
\* the copy of a file done or in hand.
SlotsAreDone(p) ==
    LET i == ingest[p] IN
    /\ \A s \in Slots : SlotIsDone(p, s)
    /\ \A s \in Slots : i.images[s] = IF s \in Photos THEN i.links[s] ELSE Nothing
    /\ \A f \in Staged(p) : \/ i.pc = "link" /\ i.file = f
                            \/ \E n \in DoneBy(p) : original[f] = source[n]

IngestInv(p) == SumsTellFiles(p) /\ ReadsAreCurrent(p) /\ SlotsAreDone(p)

LinksAreRows == \A s \in Slots : primary[s] \in Rows \cup {Nothing}

RowsInv == OneRowPerContent /\ ChecksumIsTrue /\ PhotoColumnsAgree /\ LinksAreRows

OperatorInv == OneAtATime /\ RowsInv /\ \A p \in Ingests : IngestInv(p)

OperatorStep == Next /\ OneAtATime' /\ (AtRest \/ UNCHANGED <<source, named>>)

\* It holds at first.
LEMMA OperatorInit == Init => OperatorInv
<1> SUFFICES ASSUME Init PROVE OperatorInv
  OBVIOUS
<1> USE LibraryAssumption
<1>1. OneAtATime
  BY DEF Init, OneAtATime, Running, Filling, BackfillsApart, IdleIngest, IdleBackfill
<1>2. RowsInv
  BY DEF Init, RowsInv, OneRowPerContent, ChecksumIsTrue, PhotoColumnsAgree, LinksAreRows, Rows
<1>3. ASSUME NEW p \in Ingests PROVE IngestInv(p)
  <2>1. ingest[p] = IdleIngest /\ OneRowPerContent
    BY <1>2 DEF Init, RowsInv
  <2>2. Staged(p) = {} /\ DoneBy(p) = {}
    BY <2>1 DEF Staged, IdleIngest, NoRows, DoneBy
  <2> QED
    BY <2>1, <2>2 DEF IngestInv, SumsTellFiles, ReadsAreCurrent, SlotsAreDone, SlotIsDone, DoneFor, Known, SumOf,
                      OneRowPerContent, IdleIngest, NoRows, NoLinks, Rows
<1> QED
  BY <1>1, <1>2, <1>3 DEF OperatorInv

\* The same of a process that is idle after a step.
LEMMA IdleInv ==
  ASSUME NEW p \in Ingests, ingest'[p] = IdleIngest, OneRowPerContent'  PROVE  IngestInv(p)'
<1>1. Staged(p)' = {} /\ DoneBy(p)' = {}
  BY DEF Staged, IdleIngest, NoRows, DoneBy
<1> QED
  BY <1>1 DEF IngestInv, SumsTellFiles, ReadsAreCurrent, SlotsAreDone, SlotIsDone, DoneFor, Known, SumOf,
              OneRowPerContent, IdleIngest, NoRows, NoLinks, Rows

\* A checksum a process sees is that of the file.
LEMMA KnownSums ==
  ASSUME Inv, OperatorInv, NEW p \in Ingests, NEW f \in Known(p)
  PROVE  f \in Files /\ original[f] = SumOf(p, f) /\ SumOf(p, f) \in Contents
<1>1. CASE f \in Staged(p)
  BY <1>1, LibraryAssumption DEF Staged, SumOf, OperatorInv, IngestInv, SumsTellFiles, Inv, TypeOK, Ingest
<1>2. CASE f \notin Staged(p)
  BY <1>2, LibraryAssumption DEF Known, Staged, SumOf, OperatorInv, RowsInv, ChecksumIsTrue, Rows,
                                 Inv, TypeOK, Ingest
<1> QED
  BY <1>1, <1>2

\* While one process works, the others are idle.
LEMMA OthersAreIdle ==
  ASSUME Inv, OperatorInv, OneAtATime', NEW p \in Ingests, IngestStep(p), NEW q \in Ingests, q # p
  PROVE  ingest'[q] = ingest[q] /\ ingest[q] = IdleIngest
<1>1. ingest'[q] = ingest[q]
  BY DEF IngestStep, StartIngest, SkipFile, BeginFile, LookUp, CopyFile, AddRow, LinkFile, CommitIngest, AbortIngest, Inv, TypeOK
<1>2. ingest[p].pc # "idle" \/ ingest'[p].pc # "idle"
  <2>1. ASSUME NEW d \in SUBSET Names, StartIngest(p, d) PROVE ingest'[p].pc # "idle"
    BY <2>1 DEF StartIngest, Inv, TypeOK, IdleIngest
  <2> QED
    BY <2>1 DEF IngestStep, SkipFile, BeginFile, LookUp, CopyFile, AddRow, LinkFile, CommitIngest, AbortIngest
<1>3. ingest[q].pc = "idle"
  BY <1>1, <1>2 DEF OneAtATime, Running, OperatorInv
<1> QED
  BY <1>1, <1>3 DEF OperatorInv, IngestInv, ReadsAreCurrent

\* While a backfill works, all ingests are.
LEMMA IngestsAreIdle ==
  ASSUME Inv, OperatorInv, OneAtATime', NEW b \in Backfills, BackfillStep(b), NEW p \in Ingests
  PROVE  ingest' = ingest /\ ingest[p] = IdleIngest
<1>1. ingest' = ingest
  BY DEF BackfillStep, SelectRows, SkipRow, TruncateThumb, WriteThumb, CommitBackfill, AbortBackfill
<1>2. backfill[b].pc # "idle" \/ backfill'[b].pc # "idle"
  <2>1. CASE SelectRows(b)
    <3>1. backfill'[b] = [IdleBackfill EXCEPT !.pc = "scan", !.todo = Rows \ thumbed]
      BY <2>1 DEF SelectRows, Inv, TypeOK
    <3> QED
      BY <3>1 DEF IdleBackfill
  <2> QED
    BY <2>1 DEF BackfillStep, SkipRow, TruncateThumb, WriteThumb, CommitBackfill, AbortBackfill
<1>3. ingest[p].pc = "idle"
  BY <1>1, <1>2 DEF OneAtATime, Running, Filling, OperatorInv
<1> QED
  BY <1>1, <1>3 DEF OperatorInv, IngestInv, ReadsAreCurrent

-----------------------------------------------------------------------------
\* The steps of an ingest.  If the files done and the sources are as before, and so
\* is what is staged, then so are the slots.
LEMMA SlotsStay ==
  ASSUME NEW p \in Ingests, SlotsAreDone(p), UNCHANGED <<source, primary>>,
         ingest'[p].links = ingest[p].links, ingest'[p].images = ingest[p].images,
         DoneBy(p)' = DoneBy(p), Known(p) \subseteq Known(p)',
         \A f \in Known(p) : original'[f] = original[f],
         \A f \in Staged(p)' : \/ /\ f \in Staged(p)
                                  /\ ~(ingest[p].pc = "link" /\ ingest[p].file = f)
                               \/ ingest'[p].pc = "link" /\ ingest'[p].file = f
  PROVE  SlotsAreDone(p)'
<1>1. ASSUME NEW s \in Slots PROVE SlotIsDone(p, s)'
  <2>1. SlotIsDone(p, s) /\ DoneFor(p, s)' = DoneFor(p, s) /\ Published(p, s)' = Published(p, s)
    BY DEF SlotsAreDone, DoneFor, Published
  <2> QED
    BY <2>1 DEF SlotIsDone
<1>2. \A f \in Staged(p)' : \/ /\ ingest'[p].pc = "link"
                                /\ ingest'[p].file = f
                             \/ \E n \in DoneBy(p) : original'[f] = source[n]
  BY DEF SlotsAreDone, Known
<1> QED
  BY <1>1, <1>2 DEF SlotsAreDone

\* Nothing is done when the directory has been listed.
LEMMA StartIngestKeeps ==
  ASSUME Inv, OperatorInv, NEW p \in Ingests, NEW d \in SUBSET Names, StartIngest(p, d)
  PROVE  IngestInv(p)'
<1> DEFINE j == ingest'[p]
<1>1. /\ j.pc = "between" /\ j.dir = d /\ j.at = 0 /\ j.rows = NoRows /\ j.links = NoLinks
      /\ j.images = NoLinks
  BY DEF StartIngest, Inv, TypeOK, IdleIngest
<1>2. UNCHANGED <<source, original, checksum, primary>> /\ OneRowPerContent
  BY DEF StartIngest, disk, db, OperatorInv, RowsInv
<1> HIDE DEF j
<1>3. Staged(p)' = {}
  BY <1>1 DEF Staged, NoRows, j
<1>4. DoneBy(p)' = {}
  <2>1. \A n \in d : n \in Nat /\ n # 0
    BY LibraryAssumption
  <2>2. \A n \in d : ~(n < 0) /\ n # 0
    BY <2>1
  <2> QED
    BY <1>1, <2>2 DEF DoneBy, j
<1>5. Known(p)' = Rows /\ \A f \in Rows : SumOf(p, f)' = checksum[f]
  BY <1>1, <1>2, <1>3 DEF Known, Rows, SumOf, NoRows, j
<1>6. SumsTellFiles(p)'
  BY <1>2, <1>3, <1>5 DEF SumsTellFiles, OneRowPerContent
<1>7. ReadsAreCurrent(p)'
  BY <1>1 DEF ReadsAreCurrent, j
<1>8. SlotsAreDone(p)'
  BY <1>1, <1>3, <1>4 DEF SlotsAreDone, SlotIsDone, DoneFor, NoLinks, j
<1> QED
  BY <1>6, <1>7, <1>8 DEF IngestInv

\* Names are compared as numbers.
LEMMA NamesAreNumbers ==
  ASSUME Inv, NEW p \in Ingests
  PROVE  ingest[p].at \in Nat /\ \A n \in ingest[p].dir : n \in Nat /\ n # 0
<1>1. ingest[p] \in Ingest
  BY DEF Inv, TypeOK
<1>2. ingest[p].at \in Names \cup {0} /\ ingest[p].dir \subseteq Names
  BY <1>1 DEF Ingest
<1>3. \A n : n \in Names => n \in Nat /\ n # 0
  <2>1. Names \subseteq Nat \ {0}
    BY LibraryAssumption
  <2> QED
    BY <2>1, Zenon
<1>4. ingest[p].at \in Nat
  <2>1. CASE ingest[p].at = 0
    BY <2>1
  <2>2. CASE ingest[p].at \in Names
    BY <2>2, <1>3, Zenon
  <2> QED
    BY <1>2, <2>1, <2>2
<1>5. \A n \in ingest[p].dir : n \in Nat /\ n # 0
  BY <1>2, <1>3, Zenon
<1> QED
  BY <1>4, <1>5

\* A file is passed over that stands for no row: it is not done.
LEMMA SkipFileKeeps ==
  ASSUME Inv, OperatorInv, NEW p \in Ingests, NEW n \in Names, SkipFile(p, n)
  PROVE  IngestInv(p)'
<1> DEFINE i == ingest[p]
           j == ingest'[p]
<1>1. i \in Ingest /\ IngestInv(p) /\ j = [i EXCEPT !.at = n] /\ i.pc = "between"
  BY DEF SkipFile, Inv, TypeOK, OperatorInv
<1>2. UNCHANGED <<source, named, original, checksum, primary>>
  BY DEF SkipFile, disk, db
<1>3. /\ j.pc = "between" /\ j.at = n /\ j.dir = i.dir /\ j.rows = i.rows /\ j.links = i.links
      /\ j.images = i.images
  BY <1>1 DEF Ingest
<1>4. UNCHANGED <<Rows, Staged(p), Known(p)>> /\ \A f : SumOf(p, f)' = SumOf(p, f)
  BY <1>2, <1>3 DEF Rows, Staged, Known, SumOf
<1>5. DoneBy(p)' = DoneBy(p)
  <2>1. /\ n \in i.dir /\ n > i.at /\ Target[n] \notin named
        /\ \A m \in i.dir : m > i.at => n <= m
    BY DEF SkipFile, IsNext
  <2>2. \A m \in i.dir : Target[m] \in named => ((m < n \/ m = n) <=> (m < i.at \/ m = i.at))
    BY <2>1, NamesAreNumbers
  <2> QED
    BY <1>1, <1>2, <1>3, <2>2 DEF DoneBy
<1> HIDE DEF i, j
<1>6. SumsTellFiles(p)'
  BY <1>1, <1>2, <1>3, <1>4 DEF IngestInv, SumsTellFiles, i, j
<1>7. ReadsAreCurrent(p)'
  BY <1>3 DEF ReadsAreCurrent, j
<1>8. SlotsAreDone(p)'
  BY <1>1, <1>2, <1>3, <1>4, <1>5, SlotsStay DEF IngestInv, i, j
<1> QED
  BY <1>6, <1>7, <1>8 DEF IngestInv

\* The next file: it is not done, and has been read now.
LEMMA BeginFileKeeps ==
  ASSUME Inv, OperatorInv, NEW p \in Ingests, NEW n \in Names, BeginFile(p, n)
  PROVE  IngestInv(p)'
<1> DEFINE i == ingest[p]
           j == ingest'[p]
           l == Seen(i.links[Target[n]], primary[Target[n]])
<1>1. /\ i \in Ingest /\ IngestInv(p) /\ i.pc = "between"
      /\ j = [i EXCEPT !.pc = "lookup", !.at = n, !.sum = source[n], !.loaded = l]
  BY DEF BeginFile, Inv, TypeOK, OperatorInv
<1>2. UNCHANGED <<source, named, original, checksum, primary>>
  BY DEF BeginFile, disk, db
<1>3. /\ n \in i.dir /\ n > i.at /\ Target[n] \in named
      /\ \A m \in i.dir : m > i.at => n <= m
  BY DEF BeginFile, IsNext
<1> HIDE DEF l
<1>4. /\ j.pc = "lookup" /\ j.dir = i.dir /\ j.at = n /\ j.loaded = l
      /\ j.sum = source[n] /\ j.rows = i.rows /\ j.links = i.links /\ j.images = i.images
  BY <1>1 DEF Ingest
<1>5. DoneBy(p)' = DoneBy(p)
  <2>1. \A m \in i.dir : m < n <=> (m < i.at \/ m = i.at)
    BY <1>3, NamesAreNumbers
  <2> QED
    BY <1>1, <1>2, <1>4, <2>1 DEF DoneBy
<1>6. UNCHANGED <<Rows, Staged(p), Known(p)>> /\ \A f : SumOf(p, f)' = SumOf(p, f)
  BY <1>2, <1>4 DEF Rows, Staged, Known, SumOf
<1> HIDE DEF i, j
<1>7. SumsTellFiles(p)'
  BY <1>1, <1>2, <1>4, <1>6 DEF IngestInv, SumsTellFiles, i, j
<1>8. ReadsAreCurrent(p)'
  BY <1>2, <1>3, <1>4 DEF ReadsAreCurrent, i, j, l
<1>9. SlotsAreDone(p)'
  BY <1>1, <1>2, <1>4, <1>5, <1>6, SlotsStay DEF IngestInv, i, j
<1> QED
  BY <1>7, <1>8, <1>9 DEF IngestInv

\* No two files a process can see have one checksum, so the lookup finds one at most.
LEMMA OneMatch ==
  ASSUME Inv, OperatorInv, NEW p \in Ingests, ingest[p].pc = "lookup"
  PROVE  /\ ~(Cardinality(Matches(p)) > 1)
         /\ \A f \in Files : f \in Matches(p) <=> f \in Known(p) /\ SumOf(p, f) = ingest[p].sum
<1>1. ingest[p].sum \in Contents /\ ingest[p].sum # Nothing
  BY LibraryAssumption DEF Inv, StepsAreReady
<1>2. ASSUME NEW f \in Files
      PROVE  f \in Matches(p) <=> f \in Known(p) /\ SumOf(p, f) = ingest[p].sum
  <2>1. ~(f \in Rows /\ f \in Staged(p))
    BY DEF Inv, StagedRowsAreNew
  <2> QED
    BY <1>1, <1>2, <2>1 DEF Matches, Known, SumOf, Rows, Staged
<1>3. \A f, g \in Matches(p) : f = g
  BY <1>2 DEF OperatorInv, IngestInv, SumsTellFiles, Matches
<1>4. Cardinality(Matches(p)) \in {0, 1}
  <2>1. CASE Matches(p) = {}
    BY <2>1, FS_EmptySet
  <2>2. CASE Matches(p) # {}
    <3>1. PICK f \in Matches(p) : Matches(p) = {f}
      BY <1>3, <2>2
    <3> QED
      BY <3>1, FS_Singleton
  <2> QED
    BY <2>1, <2>2
<1> QED
  BY <1>2, <1>4

\* The file that is found has the bytes of the slot; a new one has a checksum nobody has.
LEMMA LookUpKeeps ==
  ASSUME Inv, OperatorInv, NEW p \in Ingests, NEW f \in Files, LookUp(p, f)
  PROVE  IngestInv(p)'
<1> DEFINE i == ingest[p]
           j == ingest'[p]
<1>1. i \in Ingest /\ IngestInv(p) /\ i.pc = "lookup"
  BY DEF LookUp, Inv, TypeOK, OperatorInv
<1>2. j = [i EXCEPT !.pc = IF Matches(p) = {} THEN "copy" ELSE "link", !.file = f]
  BY <1>1, OneMatch DEF LookUp, Inv, TypeOK
<1>3. UNCHANGED <<source, named, original, checksum, primary>>
  BY DEF LookUp, disk, db
<1>4. /\ j.pc \in {"copy", "link"} /\ j.file = f
      /\ j.pc = "copy" => Matches(p) = {}
      /\ j.pc = "link" => f \in Matches(p)
      /\ j.dir = i.dir /\ j.at = i.at /\ j.loaded = i.loaded /\ j.sum = i.sum
      /\ j.rows = i.rows /\ j.links = i.links /\ j.images = i.images
  <2> HIDE DEF i, j
  <2>1. Matches(p) # {} => f \in Matches(p)
    BY DEF LookUp
  <2> QED
    BY <1>1, <1>2, <2>1 DEF Ingest
<1>5. UNCHANGED <<Rows, Staged(p), Known(p)>> /\ \A g : SumOf(p, g)' = SumOf(p, g)
  BY <1>3, <1>4 DEF Rows, Staged, Known, SumOf
<1>6. DoneBy(p)' = DoneBy(p)
  BY <1>1, <1>3, <1>4 DEF DoneBy
<1>7. Known(p) \subseteq Files
  BY DEF Known, Rows, Staged
<1> HIDE DEF i, j
<1>8. SumsTellFiles(p)'
  BY <1>1, <1>3, <1>4, <1>5 DEF IngestInv, SumsTellFiles, i, j
<1>9. ReadsAreCurrent(p)'
  BY <1>1, <1>3, <1>4, <1>5, <1>7, OneMatch DEF IngestInv, ReadsAreCurrent, i, j
<1>10. SlotsAreDone(p)'
  BY <1>1, <1>3, <1>4, <1>5, <1>6, SlotsStay DEF IngestInv, i, j
<1> QED
  BY <1>8, <1>9, <1>10 DEF IngestInv

\* The copy touches no file the process knows.
LEMMA CopyFileKeeps ==
  ASSUME Inv, OperatorInv, NEW p \in Ingests, CopyFile(p)
  PROVE  IngestInv(p)'
<1> DEFINE i == ingest[p]
           j == ingest'[p]
<1>1. i \in Ingest /\ IngestInv(p) /\ i.pc = "copy" /\ j = [i EXCEPT !.pc = "copying"]
  BY DEF CopyFile, Inv, TypeOK, OperatorInv
<1>2. UNCHANGED <<source, named, checksum, primary>>
  BY DEF CopyFile, db
<1>3. \A g \in Known(p) : original'[g] = original[g] /\ g \in Files
  BY OriginalsStay DEF Next, IngestStep, Known, Rows, Staged
<1>4. /\ j.pc = "copying" /\ j.file = i.file
      /\ j.dir = i.dir /\ j.at = i.at /\ j.loaded = i.loaded /\ j.sum = i.sum
      /\ j.rows = i.rows /\ j.links = i.links /\ j.images = i.images
  BY <1>1 DEF Ingest
<1>5. UNCHANGED <<Rows, Staged(p), Known(p)>> /\ \A g : SumOf(p, g)' = SumOf(p, g)
  BY <1>2, <1>4 DEF Rows, Staged, Known, SumOf
<1>6. DoneBy(p)' = DoneBy(p)
  BY <1>1, <1>2, <1>4 DEF DoneBy
<1> HIDE DEF i, j
<1>7. SumsTellFiles(p)'
  BY <1>1, <1>3, <1>4, <1>5 DEF IngestInv, SumsTellFiles, Known, i, j
<1>8. ReadsAreCurrent(p)'
  BY <1>1, <1>2, <1>4, <1>5 DEF IngestInv, ReadsAreCurrent, i, j
<1>9. SlotsAreDone(p)'
  BY <1>1, <1>2, <1>3, <1>4, <1>5, <1>6, SlotsStay DEF IngestInv, i, j
<1> QED
  BY <1>7, <1>8, <1>9 DEF IngestInv

\* The new row has a new checksum, that of its file.
LEMMA AddRowKeeps ==
  ASSUME Inv, OperatorInv, NEW p \in Ingests, AddRow(p)
  PROVE  IngestInv(p)'
<1> DEFINE i == ingest[p]
           j == ingest'[p]
           f == i.file
<1>1. i \in Ingest /\ IngestInv(p) /\ i.pc = "copying"
  BY DEF AddRow, Inv, TypeOK, OperatorInv
<1>2. UNCHANGED <<source, named, checksum, primary>>
  BY DEF AddRow, db
<1>3. \A g \in Known(p) : original'[g] = original[g] /\ g \in Files
  BY OriginalsStay DEF Next, IngestStep, Known, Rows, Staged
<1>4. /\ f \in Files /\ original'[f] = i.sum /\ i.sum \in Contents /\ i.sum # Nothing
      /\ j.pc = "link" /\ j.file = f
      /\ j.dir = i.dir /\ j.at = i.at /\ j.loaded = i.loaded /\ j.sum = i.sum
      /\ j.rows = [i.rows EXCEPT ![f] = i.sum] /\ j.links = i.links /\ j.images = i.images
  <2>1. /\ f \in Files /\ i.sum \in Contents /\ j.pc = "link" /\ j.file = f
        /\ j.dir = i.dir /\ j.at = i.at /\ j.loaded = i.loaded /\ j.sum = i.sum
        /\ j.rows = [i.rows EXCEPT ![f] = i.sum] /\ j.links = i.links /\ j.images = i.images
        /\ original' = [original EXCEPT ![f] = source[i.at]]
    BY AddRowFields
  <2>2. source[i.at] = i.sum
    BY <1>1 DEF IngestInv, ReadsAreCurrent
  <2>3. original'[f] = i.sum
    BY <2>1, <2>2 DEF Inv, TypeOK
  <2> QED
    BY <2>1, <2>3, LibraryAssumption
<1>5. Rows' = Rows /\ Staged(p)' = Staged(p) \cup {f} /\ Known(p)' = Known(p) \cup {f}
  BY <1>1, <1>2, <1>4 DEF Rows, Staged, Known, Ingest
<1>6. f \notin Known(p)
  BY <1>1, LibraryAssumption DEF AddRow, Known, Inv, RowsHaveBytes, StagedRowsAreNew, DrawnFilesAreNew
<1>7. (\A g \in {f} : SumOf(p, g)' = i.sum) /\ \A g \in Known(p) : SumOf(p, g)' = SumOf(p, g)
  BY <1>1, <1>2, <1>3, <1>4, <1>6 DEF SumOf, Ingest
<1>8. DoneBy(p)' = DoneBy(p)
  BY <1>1, <1>2, <1>4 DEF DoneBy
<1> HIDE DEF i, j, f
<1>9. SumsTellFiles(p)'
  <2>1. \A g \in Staged(p)' : original'[g] = j.rows[g]
    BY <1>1, <1>3, <1>4, <1>5, <1>6 DEF IngestInv, SumsTellFiles, Known, Staged, Ingest, i
  <2>2. \A g \in Known(p) : SumOf(p, g) # i.sum
    BY <1>1 DEF IngestInv, ReadsAreCurrent, i
  <2>3. \A g, h \in Known(p)' : SumOf(p, g)' = SumOf(p, h)' => g = h
    BY <1>1, <1>5, <1>7, <2>2 DEF IngestInv, SumsTellFiles
  <2> QED
    BY <2>1, <2>3 DEF SumsTellFiles, j
<1>10. ReadsAreCurrent(p)'
  BY <1>1, <1>2, <1>4, <1>5, <1>7 DEF IngestInv, ReadsAreCurrent, i, j
<1>11. SlotsAreDone(p)'
  BY <1>1, <1>2, <1>3, <1>4, <1>5, <1>8, SlotsStay DEF IngestInv, i, j, f
<1> QED
  BY <1>9, <1>10, <1>11 DEF IngestInv

\* The slot is done: its row leads to the bytes of this file, or will.
LEMMA LinkFileKeeps ==
  ASSUME Inv, OperatorInv, NEW p \in Ingests, LinkFile(p)
  PROVE  IngestInv(p)'
<1> DEFINE i == ingest[p]
           j == ingest'[p]
           n == i.at
           s == Target[n]
           f == i.file
<1>1. i \in Ingest /\ IngestInv(p) /\ i.pc = "link"
  BY DEF LinkFile, Inv, TypeOK, OperatorInv
<1>2. UNCHANGED <<source, named, original, checksum, primary, image>>
  BY DEF LinkFile, disk, db
<1>3. /\ s \in Slots /\ f \in Files /\ f # Nothing
      /\ j.pc = "between" /\ j.dir = i.dir /\ j.at = n /\ j.rows = i.rows
      /\ j.links = [i.links EXCEPT ![s] = IF f = i.loaded THEN i.links[s] ELSE f]
      /\ j.images = [i.images EXCEPT ![s] =
                       IF s \in Photos /\ f # Seen(i.images[s], image[s]) THEN f ELSE i.images[s]]
  BY LinkFileFields, LibraryAssumption
<1>4. UNCHANGED <<Rows, Staged(p), Known(p)>> /\ \A g : SumOf(p, g)' = SumOf(p, g)
  BY <1>2, <1>3 DEF Rows, Staged, Known, SumOf
<1>5. /\ n \in i.dir /\ s \in named /\ i.loaded = Seen(i.links[s], primary[s])
      /\ f \in Known(p) /\ original[f] = source[n]
  BY <1>1, KnownSums DEF IngestInv, ReadsAreCurrent
<1>6. DoneBy(p)' = DoneBy(p) \cup {n} /\ \A m \in DoneBy(p) : m <= n
  <2>1. n \in Nat /\ \A m \in i.dir : m \in Nat
    BY NamesAreNumbers
  <2> QED
    BY <1>1, <1>2, <1>3, <1>5, <2>1 DEF DoneBy
<1>7. /\ i.links \in [Slots -> Files \cup {Nothing}] /\ i.images \in [Slots -> Files \cup {Nothing}]
      /\ n \in Nat
  BY <1>1, NamesAreNumbers DEF Ingest
<1>8. s \in Photos => image[s] = primary[s]
  BY DEF OperatorInv, RowsInv, PhotoColumnsAgree
<1>9. SlotsAreDone(p)
  BY <1>1 DEF IngestInv
<1> HIDE DEF i, j, n, s, f
<1>10. SumsTellFiles(p)'
  BY <1>1, <1>2, <1>3, <1>4 DEF IngestInv, SumsTellFiles, i, j
<1>11. ReadsAreCurrent(p)'
  BY <1>3 DEF ReadsAreCurrent, j
<1>12. SlotsAreDone(p)'
  <2>1. ASSUME NEW t \in Slots PROVE SlotIsDone(p, t)'
    <3>1. CASE t = s
      <4>1. Published(p, t)' = f
        BY <1>2, <1>3, <1>5, <1>7, <3>1 DEF Published, Seen, j
      <4>2. n \in DoneFor(p, t)' /\ \A m \in DoneFor(p, t)' : m <= n
        BY <1>6, <1>7, <3>1 DEF DoneFor, s
      <4> QED
        BY <1>2, <1>4, <1>5, <4>1, <4>2 DEF SlotIsDone
    <3>2. CASE t # s
      <4>1. DoneFor(p, t)' = DoneFor(p, t)
        BY <1>6, <3>2 DEF DoneFor, s
      <4>2. ingest'[p].links[t] = ingest[p].links[t] /\ Published(p, t)' = Published(p, t)
        BY <1>2, <1>3, <1>7, <3>2 DEF Published, i, j
      <4> QED
        BY <1>2, <1>4, <1>9, <4>1, <4>2 DEF SlotIsDone, SlotsAreDone
    <3> QED
      BY <3>1, <3>2
  <2>2. \A t \in Slots : j.images[t] = IF t \in Photos THEN j.links[t] ELSE Nothing
    BY <1>3, <1>5, <1>7, <1>8, <1>9 DEF SlotsAreDone, i
  <2>3. \A g \in Staged(p) : \E m \in DoneBy(p)' : original[g] = source[m]
    BY <1>5, <1>6, <1>9 DEF SlotsAreDone, i, f
  <2> QED
    BY <1>2, <1>4, <2>1, <2>2, <2>3 DEF SlotsAreDone, j
<1> QED
  BY <1>10, <1>11, <1>12 DEF IngestInv

\* When all files are done or skipped, those done are what the directory offers.
LEMMA AllAreDone ==
  ASSUME Inv, NEW p \in Ingests, CommitIngest(p), NEW s \in Slots
  PROVE  DoneFor(p, s) = Offers(p, s)
<1>1. \A n \in ingest[p].dir : n <= ingest[p].at /\ ingest[p].pc = "between"
  BY DEF CommitIngest
<1>2. \A n \in ingest[p].dir : n < ingest[p].at \/ n = ingest[p].at
  BY <1>1, NamesAreNumbers
<1> QED
  BY <1>1, <1>2 DEF DoneFor, DoneBy, Offers

\* What a commit publishes.
LEMMA CommitPublishes ==
  ASSUME Inv, OperatorInv, NEW p \in Ingests, CommitIngest(p)
  PROVE  /\ ingest' = [ingest EXCEPT ![p] = IdleIngest]
         /\ UNCHANGED <<source, original>>
         /\ Rows' = Known(p)
         /\ \A f \in Known(p) : checksum'[f] = SumOf(p, f)
         /\ \A s \in Slots :
               \/ Offers(p, s) = {} /\ primary'[s] = primary[s]
               \/ \E n \in Names : /\ LastOffer(p, s, n)
                                   /\ primary'[s] \in Known(p) /\ original[primary'[s]] = source[n]
         /\ \A f \in Staged(p) : \E s \in Slots : \E n \in Offers(p, s) : original[f] = source[n]
<1>1. IngestInv(p) /\ ingest[p] \in Ingest /\ ingest[p].pc = "between"
  BY DEF OperatorInv, Inv, TypeOK, CommitIngest
<1>2. Rows' = Known(p) /\ \A f \in Known(p) : checksum'[f] = SumOf(p, f)
  BY DEF CommitIngest, Rows, Known, Staged, SumOf
<1>3. ingest' = [ingest EXCEPT ![p] = IdleIngest] /\ UNCHANGED <<source, original>>
  BY DEF CommitIngest, disk
<1>4. ASSUME NEW s \in Slots
      PROVE  \/ Offers(p, s) = {} /\ primary'[s] = primary[s]
             \/ \E n \in Names : /\ LastOffer(p, s, n)
                                 /\ primary'[s] \in Known(p) /\ original[primary'[s]] = source[n]
  <2>1. primary'[s] = Published(p, s)
    BY DEF CommitIngest, Written, Published
  <2>2. SlotIsDone(p, s) /\ DoneFor(p, s) = Offers(p, s)
    BY <1>1, AllAreDone DEF IngestInv, SlotsAreDone
  <2>3. ASSUME NEW n \in Offers(p, s) PROVE n \in Names
    BY <1>1 DEF Offers, Ingest
  <2> QED
    BY <2>1, <2>2, <2>3 DEF SlotIsDone, LastOffer, Published, Seen
<1>5. ASSUME NEW f \in Staged(p)
      PROVE  \E s \in Slots : \E n \in Offers(p, s) : original[f] = source[n]
  <2>1. PICK n \in DoneBy(p) : original[f] = source[n]
    BY <1>1 DEF IngestInv, SlotsAreDone
  <2>2. Target[n] \in Slots /\ n \in DoneFor(p, Target[n])
    BY DEF DoneBy, DoneFor, Inv, TypeOK
  <2> QED
    BY <2>1, <2>2, AllAreDone
<1> QED
  BY <1>2, <1>3, <1>4, <1>5

\* The rows are as a transaction has seen them.
LEMMA CommitKeepsRows ==
  ASSUME Inv, OperatorInv, NEW p \in Ingests, CommitIngest(p)
  PROVE  RowsInv'
<1>1. IngestInv(p) /\ Known(p) \subseteq Files
  BY DEF OperatorInv, Known, Rows, Staged
<1>2. OneRowPerContent'
  BY <1>1, CommitPublishes DEF OneRowPerContent, IngestInv, SumsTellFiles
<1>3. ChecksumIsTrue'
  BY CommitPublishes, KnownSums DEF ChecksumIsTrue
<1>4. PhotoColumnsAgree'
  <2>1. image' = Written(image, ingest[p].images) /\ primary' = Written(primary, ingest[p].links)
    BY DEF CommitIngest
  <2> QED
    BY <1>1, <2>1, LibraryAssumption DEF PhotoColumnsAgree, OperatorInv, RowsInv, Written, Seen, IngestInv, SlotsAreDone
<1>5. LinksAreRows'
  BY CommitPublishes DEF LinksAreRows, OperatorInv, RowsInv, Known
<1> QED
  BY <1>2, <1>3, <1>4, <1>5 DEF RowsInv

\* Every other step leaves the rows and their originals alone.
LEMMA RowsStay ==
  ASSUME Inv, OperatorInv, [Next]_vars, UNCHANGED <<checksum, primary, image>>
  PROVE  RowsInv'
<1>1. Rows' = Rows /\ \A f \in Rows : original'[f] = original[f]
  BY OriginalsStay DEF Rows
<1> QED
  BY <1>1 DEF OperatorInv, RowsInv, OneRowPerContent, ChecksumIsTrue, PhotoColumnsAgree, LinksAreRows

\* Every step of the operator's specification keeps the invariant.
LEMMA OperatorKeeps ==
  ASSUME Inv, OperatorInv, [OperatorStep]_vars
  PROVE  OperatorInv'
<1>1. [Next]_vars
  BY DEF OperatorStep
<1>2. ASSUME NEW p \in Ingests, IngestStep(p), OneAtATime' PROVE OperatorInv'
  <2>1. RowsInv'
    <3>1. CASE CommitIngest(p)
      BY <3>1, CommitKeepsRows
    <3>2. CASE ~CommitIngest(p)
      <4>1. UNCHANGED <<checksum, primary, image>>
        BY <1>2, <3>2 DEF IngestStep, StartIngest, SkipFile, BeginFile, LookUp, CopyFile, AddRow, LinkFile, AbortIngest, db
      <4> QED
        BY <1>1, <4>1, RowsStay
    <3> QED
      BY <3>1, <3>2
  <2>2. IngestInv(p)'
    <3>1. CASE CommitIngest(p) \/ AbortIngest(p)
      <4>1. ingest'[p] = IdleIngest
        BY <3>1 DEF CommitIngest, AbortIngest, Inv, TypeOK
      <4> QED
        BY <2>1, <4>1, IdleInv DEF RowsInv
    <3> QED
      BY <1>2, <3>1, StartIngestKeeps, SkipFileKeeps, BeginFileKeeps, LookUpKeeps, CopyFileKeeps, AddRowKeeps, LinkFileKeeps DEF IngestStep
  <2>3. ASSUME NEW q \in Ingests, q # p PROVE IngestInv(q)'
    BY <1>2, <2>1, <2>3, OthersAreIdle, IdleInv DEF RowsInv
  <2> QED
    BY <1>2, <2>1, <2>2, <2>3 DEF OperatorInv
<1>3. ASSUME NEW b \in Backfills, BackfillStep(b), OneAtATime' PROVE OperatorInv'
  <2>1. UNCHANGED <<checksum, primary, image>>
    BY <1>3 DEF BackfillStep, SelectRows, SkipRow, TruncateThumb, WriteThumb, CommitBackfill, AbortBackfill, db
  <2>2. RowsInv'
    BY <1>1, <2>1, RowsStay
  <2>3. ASSUME NEW p \in Ingests PROVE IngestInv(p)'
    BY <1>3, <2>2, IngestsAreIdle, IdleInv DEF RowsInv
  <2> QED
    BY <1>3, <2>2, <2>3 DEF OperatorInv
<1>4. ASSUME \/ \E n \in Names, c \in Contents : EditSource(n, c)
             \/ \E s \in Slots : SeedRow(s),
             OneAtATime', AtRest \/ UNCHANGED <<source, named>>
      PROVE  OperatorInv'
  <2>1. AtRest /\ ingest' = ingest /\ UNCHANGED <<checksum, primary, image>>
    BY <1>4 DEF EditSource, SeedRow, Inv, TypeOK, db
  <2>2. RowsInv'
    BY <1>1, <2>1, RowsStay
  <2>3. ASSUME NEW p \in Ingests PROVE IngestInv(p)'
    <3>1. ingest[p] = IdleIngest
      BY <2>1 DEF AtRest, Running, OperatorInv, IngestInv, ReadsAreCurrent
    <3> QED
      BY <2>1, <2>2, <3>1, IdleInv DEF RowsInv
  <2> QED
    BY <1>4, <2>2, <2>3 DEF OperatorInv
<1>5. CASE UNCHANGED vars
  <2>1. UNCHANGED <<Rows, OneAtATime>> /\ RowsInv'
    BY <1>1, <1>5, RowsStay DEF Rows, OperatorInv, OneAtATime, Running, Filling, BackfillsApart, vars
  <2>2. ASSUME NEW p \in Ingests PROVE IngestInv(p)'
    <3>1. UNCHANGED <<Staged(p), Known(p), DoneBy(p)>> /\ \A f : SumOf(p, f)' = SumOf(p, f)
      BY <1>5, <2>1 DEF Staged, Known, DoneBy, SumOf, vars
    <3>2. \A s : UNCHANGED <<DoneFor(p, s), Published(p, s)>>
      BY <1>5, <3>1 DEF DoneFor, Published, vars
    <3> QED
      BY <1>5, <3>1, <3>2 DEF OperatorInv, IngestInv, SumsTellFiles, ReadsAreCurrent, SlotsAreDone,
                              SlotIsDone, vars
  <2> QED
    BY <2>1, <2>2 DEF OperatorInv
<1> QED
  BY <1>2, <1>3, <1>4, <1>5 DEF OperatorStep, Next

\* So both invariants hold of all its reachable states.
THEOREM OperatorInvariance == OperatorSpec => [](Inv /\ OperatorInv)
<1>1. OperatorInv /\ Inv /\ [OperatorStep]_vars => (Inv /\ OperatorInv)'
  <2>1. [OperatorStep]_vars => [Next]_vars
    BY DEF OperatorStep
  <2> QED
    BY <2>1, StepInv, OperatorKeeps
<1> QED
  BY <1>1, InitInv, OperatorInit, PTL DEF OperatorSpec, OperatorStep

\* One command at a time: no two rows have one checksum, ...
THEOREM ContentHasOneRow == OperatorSpec => []OneRowPerContent
  BY OperatorInvariance, PTL DEF OperatorInv, RowsInv

\* ... a row's checksum is that of its file, ...
THEOREM TrueChecksums == OperatorSpec => []ChecksumIsTrue
  BY OperatorInvariance, PTL DEF OperatorInv, RowsInv

\* ... and the two columns of a photo name one file.
THEOREM OnePhotoFile == OperatorSpec => []PhotoColumnsAgree
  BY OperatorInvariance, PTL DEF OperatorInv, RowsInv

\* The lookup by checksum never finds two rows, and never raises.
THEOREM LookupIsUnambiguous == OperatorSpec => [](\A p \in Ingests : ingest[p].pc # "ambiguous")
<1>1. OperatorInv => \A p \in Ingests : ingest[p].pc # "ambiguous"
  BY DEF OperatorInv, IngestInv, ReadsAreCurrent
<1> QED
  BY <1>1, OperatorInvariance, PTL

\* A run that commits leaves every slot it has files for with the bytes of the last
\* of them, and every other slot as it was.
THEOREM Publication == OperatorSpec => IngestPublishes
<1>1. Inv /\ OperatorInv =>
        [\A p \in Ingests : CommitIngest(p) =>
            \A s \in Slots :
               /\ Offers(p, s) = {} => primary'[s] = primary[s]
               /\ \A n \in Names : LastOffer(p, s, n) =>
                     primary'[s] # Nothing /\ original'[primary'[s]] = source[n]]_vars
  <2> SUFFICES ASSUME Inv, OperatorInv, NEW p \in Ingests, CommitIngest(p), NEW s \in Slots
               PROVE  /\ Offers(p, s) = {} => primary'[s] = primary[s]
                      /\ \A n \in Names : LastOffer(p, s, n) =>
                            primary'[s] # Nothing /\ original'[primary'[s]] = source[n]
    OBVIOUS
  <2>1. Offers(p, s) = {} => primary'[s] = primary[s]
    BY CommitPublishes DEF LastOffer
  <2>2. ASSUME NEW n \in Names, LastOffer(p, s, n)
        PROVE  primary'[s] # Nothing /\ original'[primary'[s]] = source[n]
    <3>1. PICK m \in Names : /\ LastOffer(p, s, m)
                             /\ primary'[s] \in Known(p) /\ original[primary'[s]] = source[m]
      BY <2>2, CommitPublishes DEF LastOffer
    <3>2. m = n
      BY <2>2, <3>1, LibraryAssumption DEF LastOffer
    <3>3. original' = original
      BY CommitPublishes
    <3> QED
      BY <3>1, <3>2, <3>3, KnownSums, LibraryAssumption
  <2> QED
    BY <2>1, <2>2
<1> QED
  BY <1>1, OperatorInvariance, PTL DEF IngestPublishes

\* A run over a directory whose bytes the library has, each slot those of its last
\* file, commits nothing new.
LEMMA SameFilesSameRows ==
  ASSUME Inv, OperatorInv, NEW p \in Ingests, CommitIngest(p),
         \A s \in Slots, n \in Names :
            /\ n \in Offers(p, s) => \E f \in Rows : original[f] = source[n]
            /\ LastOffer(p, s, n) => primary[s] # Nothing /\ original[primary[s]] = source[n]
  PROVE  UNCHANGED db
<1> USE LibraryAssumption
<1>0. /\ IngestInv(p) /\ ingest[p] \in Ingest
      /\ primary \in [Slots -> Files \cup {Nothing}] /\ image \in [Slots -> Files \cup {Nothing}]
  BY DEF OperatorInv, Inv, TypeOK
<1>6. ASSUME NEW f \in Known(p), NEW g \in Known(p), original[f] = original[g] PROVE f = g
  BY <1>0, <1>6, KnownSums DEF IngestInv, SumsTellFiles
<1>1. ASSUME NEW s \in Slots PROVE primary'[s] = primary[s]
  <2>1. CASE Offers(p, s) = {}
    BY <2>1, CommitPublishes DEF LastOffer
  <2>2. ASSUME NEW n \in Names, LastOffer(p, s, n), primary'[s] \in Known(p),
               original[primary'[s]] = source[n]
        PROVE  primary'[s] = primary[s]
    <3>1. original[primary[s]] = original[primary'[s]] /\ primary[s] \in Known(p)
      BY <2>2 DEF OperatorInv, RowsInv, LinksAreRows, Known
    <3> QED
      BY <1>6, <2>2, <3>1
  <2> QED
    BY <2>1, <2>2, CommitPublishes
<1>2. primary' = primary
  <2>2. primary' \in [Slots -> Files \cup {Nothing}]
    BY <1>0 DEF CommitIngest, Written, Seen, Ingest
  <2>3. /\ primary' = [s \in Slots |-> primary'[s]]
        /\ primary = [s \in Slots |-> primary[s]]
    BY <1>0, <2>2
  <2> QED
    BY <1>1, <2>3
<1>3. Staged(p) = {}
  <2> SUFFICES ASSUME NEW f \in Staged(p) PROVE FALSE
    OBVIOUS
  <2>1. PICK s \in Slots : \E n \in Offers(p, s) : original[f] = source[n]
    BY CommitPublishes
  <2>2. PICK n \in Offers(p, s) : original[f] = source[n]
    BY <2>1
  <2>3. n \in Names
    BY <1>0 DEF Offers, Ingest
  <2>4. PICK g \in Rows : original[g] = source[n]
    BY <2>3
  <2>5. f = g
    BY <1>6, <2>2, <2>4 DEF Known
  <2> QED
    BY <2>4, <2>5 DEF Inv, StagedRowsAreNew
<1>4. checksum' = checksum /\ thumbed' = thumbed
  BY <1>3 DEF CommitIngest, Staged, Inv, TypeOK, StagedRowsAreNew
<1>5. image' = image
  <2>1. image' = Written(image, ingest[p].images) /\ primary' = Written(primary, ingest[p].links)
    BY DEF CommitIngest
  <2>2. ASSUME NEW s \in Slots PROVE image'[s] = image[s]
    <3>1. CASE s \in Photos
      BY <1>0, <1>2, <2>1, <3>1 DEF Written, Seen, IngestInv, SlotsAreDone, OperatorInv, RowsInv,
                                    PhotoColumnsAgree
    <3>2. CASE s \notin Photos
      BY <1>0, <2>1, <3>2 DEF Written, Seen, IngestInv, SlotsAreDone
    <3> QED
      BY <3>1, <3>2
  <2>3. image' \in [Slots -> Files \cup {Nothing}]
    BY <1>0, <2>1 DEF Written, Seen, Ingest
  <2>4. /\ image' = [s \in Slots |-> image'[s]]
        /\ image = [s \in Slots |-> image[s]]
    BY <1>0, <2>3
  <2> QED
    BY <2>2, <2>4
<1> QED
  BY <1>2, <1>4, <1>5 DEF db

\* Re-ingesting what the library has changes nothing in the database.
THEOREM Reingestion == OperatorSpec => ReingestIsNoOp
<1>1. Inv /\ OperatorInv =>
        [\A p \in Ingests :
           (/\ CommitIngest(p)
            /\ \A s \in Slots, n \in Names :
                  /\ n \in Offers(p, s) => \E f \in Rows : original[f] = source[n]
                  /\ LastOffer(p, s, n) =>
                        primary[s] # Nothing /\ original[primary[s]] = source[n])
           => UNCHANGED db]_vars
  BY SameFilesSameRows
<1> QED
  BY <1>1, OperatorInvariance, PTL DEF ReingestIsNoOp

=============================================================================
