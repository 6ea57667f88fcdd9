-------------------------- MODULE CatalogueProofs --------------------------
(***************************************************************************)
(* Proofs about Catalogue, and about Search upon it, for any fixtures,     *)
(* artists and queries and any number of processes.                        *)
(***************************************************************************)
EXTENDS Search, FunctionTheorems, SequenceTheorems, FiniteSetTheorems,
        WellFoundedInduction, TLAPS

-----------------------------------------------------------------------------
Tables == {"album", "item", "song", "author"}

ColumnsOf(table) ==
    CASE table = "album" -> {"title", "subtitle"}
      [] table = "item" -> {"title", "subtitle", "kind", "album", "author"}
      [] table = "song" -> {"artist"}
      [] table = "author" -> {"name"}

IsKey(k) == k = <<k[1], k[2]>> /\ k[1] \in Tables

\* The rows: a row has its columns, ...
RowsComplete(rows) == \A k \in DOMAIN rows : IsKey(k) /\ DOMAIN rows[k] = ColumnsOf(k[1])

\* ... a column holds what it may, and refers to a row, ...
Fits(k, col, value) ==
    /\ col = "name" => value \in Names /\ Base[value] = k[2][1]
    /\ col = "kind" => /\ value \in {"song", "photo"}
                       /\ \A lines \in AllLines : \A l \in Items(lines) : l.slug = k[2] => l.kind = value
    /\ col = "artist" => value \in Names \cup {None}

Refers(col, value) == IF col \in {"album", "author"} /\ value # None THEN {<<col, value>>} ELSE {}

RowsFit(rows) ==
    \A k \in DOMAIN rows : \A col \in DOMAIN rows[k] :
        /\ Fits(k, col, rows[k][col])
        /\ Refers(col, rows[k][col]) \subseteq DOMAIN rows

\* ... songs and no other items have a row of songs, and the slug of the author a
\* song is credited to is its artist's.
SongsHaveRows(rows) ==
    \A k \in DOMAIN rows :
        /\ k[1] = "song" => <<"item", k[2]>> \in DOMAIN rows /\ rows[<<"item", k[2]>>].kind = "song"
        /\ k[1] = "item" /\ rows[k].kind = "song" => <<"song", k[2]>> \in DOMAIN rows

CreditsFit(rows) ==
    \A k \in DOMAIN rows : k[1] = "song" =>
        LET artist == rows[k].artist
            author == rows[<<"item", k[2]>>].author
        IN  IF artist = None THEN author = None ELSE author # None /\ author[1] = Base[artist]

\* ... while the migration is applied.
DbInv ==
    /\ migrated \in BOOLEAN
    /\ RowsComplete(db) /\ RowsFit(db) /\ SongsHaveRows(db)
    /\ migrated => CreditsFit(db)

\* Positions.  A save is past when its run has executed it; a statement sets a column
\* last when no later one of its command sets it.

Statements(c) == {p \in (DOMAIN Script[c]) \X (1..7) : p[2] \in DOMAIN Script[c][p[1]]}
At(c, p) == Script[c][p[1]][p[2]]
Saves(c) == {p \in Statements(c) : At(c, p).op = "save"}
Precedes(p, q) == p[1] < q[1] \/ (p[1] = q[1] /\ p[2] < q[2])
Position(r) == <<run[r].line, run[r].at>>
Past(r) == {p \in Saves(run[r].command) : Precedes(p, Position(r))}

Sets(c, p, k, col) == p \in Saves(c) /\ At(c, p).key = k /\ col \in DOMAIN At(c, p).cols
SetsLast(c, p, k, col) == Sets(c, p, k, col) /\ \A q \in Saves(c) : Sets(c, q, k, col) => q = p \/ Precedes(q, p)

\* Transactions.  A run stands at a statement or at the end, ...

InScript(r) ==
    /\ run[r].line \in 1..(Len(Work[run[r].command]) + 1)
    /\ run[r].line \in DOMAIN Script[run[r].command] => Position(r) \in Statements(run[r].command)

\* ... has loaded every row it has saved, and written none but those, ...
HoldsWhatItWrote(r) ==
    /\ DOMAIN run[r].wrote \subseteq DOMAIN run[r].seen
    /\ DOMAIN run[r].seen \subseteq DOMAIN db \cup DOMAIN run[r].wrote
    /\ \A k \in DOMAIN run[r].wrote : \E p \in Past(r) : At(run[r].command, p).key = k
    /\ \A p \in Past(r) : At(run[r].command, p).key \in DOMAIN run[r].seen

\* ... and all the columns of those that are not committed yet, ...
ColumnsComplete(r) ==
    /\ \A k \in DOMAIN run[r].seen : IsKey(k) /\ DOMAIN run[r].seen[k] = ColumnsOf(k[1])
    /\ \A k \in DOMAIN run[r].wrote : IsKey(k) /\ DOMAIN run[r].wrote[k] \subseteq ColumnsOf(k[1])
    /\ \A k \in DOMAIN run[r].wrote \ DOMAIN db : DOMAIN run[r].wrote[k] = ColumnsOf(k[1])

\* ... with values that fit and refer to rows it can see.
WritesAreGood(r) ==
    \A k \in DOMAIN run[r].wrote : \A col \in DOMAIN run[r].wrote[k] :
        /\ Fits(k, col, run[r].wrote[k][col])
        /\ Refers(col, run[r].wrote[k][col]) \subseteq DOMAIN db \cup DOMAIN run[r].wrote

\* What a past save was the last to set is still visible, although a save sends only
\* what differs from the row that was loaded, ...
LastIsDone(r) ==
    \A p \in Past(r) : \A k \in DOMAIN run[r].seen : \A col \in DOMAIN run[r].seen[k] :
       k[1] # "author" /\ SetsLast(run[r].command, p, k, col) => Visible(r, k)[col] = At(run[r].command, p).cols[col]

\* ... because a loaded column that has the value already is still what is committed:
\* whoever else may write it writes the same.
SeenIsFresh(r) ==
    \A p \in Saves(run[r].command) : \A k \in DOMAIN run[r].seen : \A col \in DOMAIN run[r].seen[k] :
       /\ k[1] # "author" /\ SetsLast(run[r].command, p, k, col)
       /\ run[r].seen[k][col] = At(run[r].command, p).cols[col]
       => Visible(r, k)[col] = At(run[r].command, p).cols[col]

Transaction(r) ==
    /\ InScript(r)
    /\ HoldsWhatItWrote(r)
    /\ ColumnsComplete(r)
    /\ WritesAreGood(r)
    /\ LastIsDone(r)
    /\ SeenIsFresh(r)

\* No run overlaps the migration, seeds have one version, and a row has one writer.
Together ==
    /\ ~migrated => \A r \in Runs : ~Running(r)
    /\ \A r, s \in Runs : run[r].command \in Versions /\ run[s].command \in Versions =>
          run[r].command = run[s].command
    /\ \A r, s \in Runs : r # s => DOMAIN run[r].wrote \cap DOMAIN run[s].wrote = {}

RunsAreRecords ==
    /\ run = [r \in Runs |-> [command |-> run[r].command, line |-> run[r].line, at |-> run[r].at,
                              seen |-> run[r].seen, wrote |-> run[r].wrote]]
    /\ \A r \in Runs : run[r].command \in Commands \cup {None} /\ (run[r] = Idle \/ Running(r))

\* The inductive invariant.
Inv ==
    /\ DbInv
    /\ RunsAreRecords
    /\ Together
    /\ \A r \in Runs : Running(r) => Transaction(r)

-----------------------------------------------------------------------------
\* Rows and positions

\* Over, value by value.
LEMMA OverValues ==
  ASSUME NEW f, NEW g
  PROVE  /\ DOMAIN Over(f, g) = DOMAIN f \cup DOMAIN g
         /\ \A x \in DOMAIN f : Over(f, g)[x] = f[x]
         /\ \A x \in DOMAIN g \ DOMAIN f : Over(f, g)[x] = g[x]
BY DEF Over

\* A finite set of numbers that is not empty has a greatest.
LEMMA GreatestExists ==
  ASSUME NEW T \in SUBSET Nat, IsFiniteSet(T), T # {}
  PROVE  \E n \in T : \A m \in T : m <= n
<1> DEFINE HasGreatest(U) == \E n \in U : \A m \in U : m <= n
           Bad == {U \in SUBSET T : U # {} /\ ~HasGreatest(U)}
<1> SUFFICES ASSUME Bad # {} PROVE FALSE
  OBVIOUS
<1>1. FiniteSubsetsOf(T) = SUBSET T
  BY FS_FiniteSubsetsOfFinite
<1>2. PICK U \in Bad : \A V \in Bad : ~(<<V, U>> \in StrictSubsetOrdering(T))
  <2>1. Bad \subseteq FiniteSubsetsOf(T)
    BY <1>1
  <2>2. IsWellFoundedOn(StrictSubsetOrdering(T), FiniteSubsetsOf(T))
    BY FS_StrictSubsetOrderingWellFounded
  <2> HIDE DEF Bad
  <2> QED
    BY <2>1, <2>2, WFMin
<1>3. PICK x \in U : TRUE
  OBVIOUS
<1> DEFINE V == U \ {x}
<1>4. V \in SUBSET T /\ U \in SUBSET T /\ V # U /\ V \subseteq U
  BY <1>3
<1>5. V \notin Bad
  BY <1>1, <1>2, <1>4 DEF StrictSubsetOrdering
<1>6. CASE V = {}
  BY <1>3, <1>6
<1>7. CASE V # {}
  <2>1. PICK n \in V : \A m \in V : m <= n
    BY <1>4, <1>5, <1>7
  <2>2. CASE x <= n
    BY <1>3, <2>1, <2>2
  <2>3. CASE ~(x <= n)
    <3>1. \A m \in U : m <= x
      BY <1>3, <2>1, <2>3
    <3> QED
      BY <1>3, <3>1
  <2> QED
    BY <2>2, <2>3
<1> QED
  BY <1>6, <1>7

\* And any set of numbers that is not empty has a least.
LEMMA LeastExists ==
  ASSUME NEW S \in SUBSET Nat, S # {}
  PROVE  \E n \in S : \A m \in S : n <= m
<1>1. PICK m \in S : TRUE
  OBVIOUS
<1> DEFINE below == {n \in 0..m : \A y \in S : n <= y}
<1>2. below \in SUBSET Nat /\ 0 \in below
  BY <1>1
<1>3. IsFiniteSet(below)
  <2>1. IsFiniteSet(0..m)
    BY <1>1, FS_Interval
  <2> QED
    BY <2>1, FS_Subset
<1>4. PICK n \in below : \A k \in below : k <= n
  <2> HIDE DEF below
  <2> QED
    BY <1>2, <1>3, GreatestExists
<1>5. n \in S
  <2> SUFFICES ASSUME n \notin S PROVE FALSE
    OBVIOUS
  <2>1. n + 1 \in below
    BY <1>1, <1>4
  <2> QED
    BY <1>4, <2>1
<1> QED
  BY <1>4, <1>5

\* Min and Max are what they are called.
LEMMA MinIsLeast ==
  ASSUME NEW S \in SUBSET Nat, S # {}
  PROVE  Min(S) \in S /\ \A y \in S : Min(S) <= y
BY LeastExists DEF Min

\* The same of Max.
LEMMA MaxIsGreatest ==
  ASSUME NEW S \in SUBSET Nat, IsFiniteSet(S), S # {}
  PROVE  Max(S) \in S /\ \A y \in S : y <= Max(S)
<1>1. \E x \in S : \A y \in S : x >= y
  BY GreatestExists
<1> QED
  BY <1>1 DEF Max

-----------------------------------------------------------------------------
\* The scripts

\* The lines of a command are numbered from 1, and each is a credit of the
\* generator or a line of a fixture.
LEMMA WorkLines ==
  ASSUME NEW c \in Commands
  PROVE  /\ Len(Work[c]) \in Nat /\ DOMAIN Work[c] = 1..Len(Work[c])
         /\ DOMAIN Script[c] = DOMAIN Work[c]
         /\ c # Bulk => c \in Versions /\ Work[c] = Lines[c] /\ Lines[c] \in AllLines
         /\ c = Bulk => \A l \in DOMAIN Work[c] :
               IF l <= Len(BulkArtists) + 1
               THEN Work[c][l] = Credits[l] /\ l \in DOMAIN Credits
               ELSE /\ l - (Len(BulkArtists) + 1) \in DOMAIN BulkLines
                    /\ Work[c][l] = BulkLines[l - (Len(BulkArtists) + 1)]
         /\ c = Bulk => \A l \in DOMAIN Credits : l \in DOMAIN Work[c] /\ Work[c][l] = Credits[l]
<1> DEFINE n == Len(BulkArtists) + 1
<1>1. CASE c # Bulk
  <2>1. c \in Versions /\ Work[c] = Lines[c] /\ Lines[c] \in AllLines
    BY <1>1 DEF Work, Commands, AllLines
  <2>2. Lines[c] \in Seq(ToSet(Lines[c]))
    BY <2>1, LinesAssumption
  <2>3. DOMAIN Script[c] = DOMAIN Work[c]
    BY DEF Script
  <2> QED
    BY <1>1, <2>1, <2>2, <2>3
<1>2. CASE c = Bulk
  <2> DEFINE all == {Credits[i] : i \in 1..n} \cup ToSet(BulkLines)
  <2>1. Len(BulkArtists) \in Nat /\ n \in Nat
    BY CatalogueAssumption
  <2>2. Credits \in Seq(all) /\ Len(Credits) = n /\ DOMAIN Credits = 1..n
    BY <2>1 DEF Credits
  <2>3. BulkLines \in AllLines /\ BulkLines \in Seq(ToSet(BulkLines))
    BY LinesAssumption DEF AllLines
  <2>4. BulkLines \in Seq(all)
    BY <2>3
  <2>5. /\ Work[c] = Credits \o BulkLines /\ Work[c] \in Seq(all)
        /\ Len(Work[c]) = n + Len(BulkLines)
        /\ \A i \in 1..(n + Len(BulkLines)) :
              Work[c][i] = IF i <= n THEN Credits[i] ELSE BulkLines[i - n]
    <3>1. Work[c] = Credits \o BulkLines
      BY <1>2 DEF Work
    <3>2. /\ Credits \o BulkLines \in Seq(all)
          /\ Len(Credits \o BulkLines) = Len(Credits) + Len(BulkLines)
          /\ \A i \in 1..(Len(Credits) + Len(BulkLines)) : (Credits \o BulkLines)[i] =
                IF i <= Len(Credits) THEN Credits[i] ELSE BulkLines[i - Len(Credits)]
      <4> HIDE DEF all, n
      <4> QED
        BY <2>2, <2>4, ConcatProperties
    <3>3. Len(Credits) = n
      BY <2>2
    <3> HIDE DEF all, n
    <3> QED
      BY <3>1, <3>2, <3>3
  <2>6. DOMAIN Script[c] = DOMAIN Work[c]
    BY DEF Script
  <2>7. Len(BulkLines) \in Nat /\ DOMAIN BulkLines = 1..Len(BulkLines)
    BY <2>3
  <2>8. DOMAIN Work[c] = 1..(n + Len(BulkLines))
    BY <2>5
  <2> QED
    BY <1>2, <2>1, <2>2, <2>5, <2>6, <2>7, <2>8
<1> QED
  BY <1>1, <1>2

ArtistLine(c, l) == c = Bulk /\ Work[c][l].kind = "artist" /\ CreditOf(Work[c][l]) \in Names

AlbumLine(c, l) == Work[c][l].kind = "album"

ItemLine(c, l) ==
    /\ Work[c][l].kind \in {"song", "photo"}
    /\ CreditOf(Work[c][l]) \in Names \cup {None}
    /\ Work[c][l].kind = "song" =>
          /\ Work[c][l].subtitle \in Names \cup {None}
          /\ CreditOf(Work[c][l]) = None <=> Work[c][l].subtitle = None
          /\ CreditOf(Work[c][l]) # None => Base[CreditOf(Work[c][l])] = Base[Work[c][l].subtitle]
    /\ \E lines \in AllLines : Work[c][l] \in Items(lines)

\* There are no other lines.
LEMMA LineKinds ==
  ASSUME NEW c \in Commands, NEW l \in DOMAIN Work[c]
  PROVE  ArtistLine(c, l) \/ AlbumLine(c, l) \/ ItemLine(c, l)
<1> DEFINE line == Work[c][l]
<1>1. ASSUME NEW lines \in AllLines, line \in ToSet(lines) PROVE AlbumLine(c, l) \/ ItemLine(c, l)
  <2>1. CASE line.kind = "album"
    BY <2>1 DEF AlbumLine
  <2>2. CASE line.kind # "album"
    <3>1. line \in Items(lines)
      BY <1>1, <2>2 DEF Items
    <3>2. /\ line.kind \in {"song", "photo"} /\ line.by \in Names \cup {None}
          /\ line.kind = "song" =>
               /\ line.subtitle \in Names \cup {None}
               /\ line.by # None => line.subtitle # None /\ Base[line.by] = Base[line.subtitle]
      BY <3>1, LinesAssumption
    <3>3. CreditOf(line) \in Names \cup {None}
      BY <3>2, CatalogueAssumption DEF CreditOf
    <3>4. line.kind = "song" =>
            /\ CreditOf(line) = None <=> line.subtitle = None
            /\ CreditOf(line) # None => Base[CreditOf(line)] = Base[line.subtitle]
      BY <3>2 DEF CreditOf
    <3> QED
      BY <3>1, <3>2, <3>3, <3>4 DEF ItemLine
  <2> QED
    BY <2>1, <2>2
<1>2. CASE c # Bulk
  <2>1. Lines[c] \in AllLines /\ line \in ToSet(Lines[c])
    BY <1>2, WorkLines DEF ToSet
  <2> QED
    BY <1>1, <2>1
<1>3. CASE c = Bulk /\ ~(l <= Len(BulkArtists) + 1)
  <2>1. BulkLines \in AllLines /\ line \in ToSet(BulkLines)
    BY <1>3, WorkLines DEF ToSet, AllLines
  <2> QED
    BY <1>1, <2>1
<1>4. CASE c = Bulk /\ l <= Len(BulkArtists) + 1
  <2>1. line = Credits[l] /\ l \in DOMAIN Credits
    BY <1>4, WorkLines
  <2>2. l \in 1..(Len(BulkArtists) + 1) /\ Len(BulkArtists) \in Nat
    BY <2>1, CatalogueAssumption DEF Credits
  <2>3. /\ line.kind = "artist"
        /\ line.by = IF l <= Len(BulkArtists) THEN BulkArtists[l] ELSE None
    BY <2>1, <2>2 DEF Credits
  <2>4. l <= Len(BulkArtists) => BulkArtists[l] \in Names
    BY <2>2, CatalogueAssumption
  <2>5. CreditOf(line) \in Names
    BY <2>3, <2>4, CatalogueAssumption DEF CreditOf
  <2> QED
    BY <1>4, <2>3, <2>5 DEF ArtistLine
<1> QED
  BY <1>2, <1>3, <1>4

\* What a line does about its author: nothing, or a look and a save of the name.
LEMMA CreditStatements ==
  ASSUME NEW line, CreditOf(line) \in Names \cup {None}
  PROVE  /\ CreditOf(line) = None => Credit(line) = Empty
         /\ CreditOf(line) # None =>
               /\ DOMAIN Credit(line) = {3, 4}
               /\ Credit(line)[3] = Select("author", slugify(CreditOf(line)))
               /\ \E cols, fresh \in {Empty, [name |-> CreditOf(line)]} :
                     /\ cols # fresh
                     /\ Credit(line)[4] = Save("author", slugify(CreditOf(line)), cols, fresh)
<1>1. Empty # [name |-> CreditOf(line)]
  <2>1. DOMAIN Empty = {} /\ DOMAIN [name |-> CreditOf(line)] = {"name"}
    BY DEF Empty
  <2> QED
    BY <2>1
<1>2. CASE line.kind # "song" /\ line.by = None
  <2>1. CreditOf(line) = Photographer /\ CreditOf(line) # None
    BY <1>2, CatalogueAssumption DEF CreditOf
  <2>2. Credit(line) = get_or_create_photographer
    BY <1>2 DEF Credit
  <2> QED
    BY <1>1, <2>1, <2>2 DEF get_or_create_photographer
<1>3. CASE ~(line.kind # "song" /\ line.by = None)
  <2>1. Credit(line) = get_or_create_author(CreditOf(line))
    BY <1>3 DEF Credit
  <2> QED
    BY <1>1, <2>1 DEF get_or_create_author
<1> QED
  BY <1>2, <1>3

\* The statements of the lines of each kind.
LEMMA ArtistStatements ==
  ASSUME NEW c \in Commands, NEW l \in DOMAIN Work[c], ArtistLine(c, l)
  PROVE  Script[c][l] = Credit(Work[c][l])
<1>1. Script[c][l] = BulkLine(Work[c][l])
  BY DEF Script, ArtistLine
<1> QED
  BY <1>1 DEF ArtistLine, BulkLine

\* An album is saved as it is, by the seed after a look.
LEMMA AlbumStatements ==
  ASSUME NEW c \in Commands, NEW l \in DOMAIN Work[c], AlbumLine(c, l)
  PROVE  /\ DOMAIN Script[c][l] = IF c = Bulk THEN {2} ELSE {1, 2}
         /\ c # Bulk => Script[c][l][1] = Select("album", Work[c][l].slug)
         /\ Script[c][l][2] = Save("album", Work[c][l].slug, Texts(Work[c][l]), Empty)
<1>1. CASE c = Bulk
  <2>1. Script[c][l] = [n \in {2} |-> Save("album", Work[c][l].slug, Texts(Work[c][l]), Empty)]
    BY <1>1 DEF Script, BulkLine, AlbumLine
  <2> QED
    BY <1>1, <2>1
<1>2. CASE c # Bulk
  <2>1. Script[c][l] = _get_or_create_album(Work[c][l])
    BY <1>2 DEF Script, SeedLine, AlbumLine
  <2> QED
    BY <1>2, <2>1 DEF _get_or_create_album
<1> QED
  BY <1>1, <1>2

\* The generator inserts an item with all its columns, ...
LEMMA BulkItemStatements ==
  ASSUME NEW l \in DOMAIN Work[Bulk], ItemLine(Bulk, l)
  PROVE  LET line == Work[Bulk][l] IN
         /\ DOMAIN Script[Bulk][l] = IF line.kind = "song" THEN {2, 7} ELSE {2}
         /\ Script[Bulk][l][2] =
               Save("item", line.slug,
                    [title |-> line.title, subtitle |-> line.subtitle, kind |-> line.kind,
                     album |-> line.album, author |-> AuthorId(line)], Empty)
         /\ line.kind = "song" => Script[Bulk][l][7] = SaveSong(line)
<1> DEFINE line == Work[Bulk][l]
<1>1. line.kind # "artist" /\ line.kind # "album" /\ (line.kind = "photo" <=> line.kind # "song")
  BY DEF ItemLine
<1>2. Script[Bulk][l] = BulkLine(line)
  BY DEF Script, Commands
<1> HIDE DEF line
<1>3. BulkLine(line) =
        [n \in IF line.kind = "photo" THEN {2} ELSE {2, 7} |->
            IF n = 7 THEN SaveSong(line)
            ELSE Save("item", line.slug,
                      [title |-> line.title, subtitle |-> line.subtitle, kind |-> line.kind,
                       album |-> line.album, author |-> AuthorId(line)], Empty)]
  BY <1>1 DEF BulkLine
<1>4. /\ DOMAIN Script[Bulk][l] = IF line.kind = "song" THEN {2, 7} ELSE {2}
      /\ Script[Bulk][l][2] =
               Save("item", line.slug,
                    [title |-> line.title, subtitle |-> line.subtitle, kind |-> line.kind,
                     album |-> line.album, author |-> AuthorId(line)], Empty)
      /\ line.kind = "song" => Script[Bulk][l][7] = SaveSong(line)
  BY <1>1, <1>2, <1>3
<1> QED
  BY <1>4 DEF line

\* ... the seed sets texts and album, then the author.
LEMMA SeedItemStatements ==
  ASSUME NEW c \in Commands, c # Bulk, NEW l \in DOMAIN Work[c], ItemLine(c, l)
  PROVE  LET line == Work[c][l] IN
         /\ DOMAIN Script[c][l] = {1, 2, 5} \cup DOMAIN Credit(line)
                                   \cup (IF line.kind = "song" THEN {6, 7} ELSE {})
         /\ Script[c][l][1] = Select("item", line.slug)
         /\ Script[c][l][2] = Save("item", line.slug, Over(AlbumColumn(line), Texts(line)),
                                   [kind |-> line.kind, album |-> None, author |-> None])
         /\ \A n \in DOMAIN Credit(line) : Script[c][l][n] = Credit(line)[n]
         /\ Script[c][l][5] = Save("item", line.slug, [author |-> AuthorId(line)], Empty)
         /\ line.kind = "song" => /\ Script[c][l][6] = Select("song", line.slug)
                                  /\ Script[c][l][7] = SaveSong(line)
<1> DEFINE line == Work[c][l]
           item == [n \in {1, 2, 5} |->
                   CASE n = 1 -> Select("item", line.slug)
                     [] n = 2 -> Save("item", line.slug, Over(AlbumColumn(line), Texts(line)),
                                      [kind |-> line.kind, album |-> None, author |-> None])
                     [] n = 5 -> Save("item", line.slug, [author |-> AuthorId(line)], Empty)]
           song == IF line.kind = "photo" THEN Empty
                   ELSE [n \in {6, 7} |-> IF n = 6 THEN Select("song", line.slug) ELSE SaveSong(line)]
<1>1. line.kind # "album" /\ (line.kind = "photo" <=> line.kind # "song")
  BY DEF ItemLine
<1>2. Script[c][l] = _upsert_media_item(line)
  BY <1>1 DEF Script, SeedLine
<1>3. Script[c][l] = Over(item, Over(Credit(line), song))
  BY <1>2 DEF _upsert_media_item
<1>4. DOMAIN item = {1, 2, 5} /\ DOMAIN song = IF line.kind = "song" THEN {6, 7} ELSE {}
  BY <1>1 DEF Empty
<1>5. DOMAIN Credit(line) \subseteq {3, 4}
  <2>1. CreditOf(line) \in Names \cup {None}
    BY DEF ItemLine
  <2> QED
    BY <2>1, CreditStatements DEF Empty
<1>6. /\ item[1] = Select("item", line.slug)
      /\ item[2] = Save("item", line.slug, Over(AlbumColumn(line), Texts(line)),
                                      [kind |-> line.kind, album |-> None, author |-> None])
      /\ item[5] = Save("item", line.slug, [author |-> AuthorId(line)], Empty)
  OBVIOUS
<1>7. line.kind = "song" => song[6] = Select("song", line.slug) /\ song[7] = SaveSong(line)
  BY <1>1
<1> HIDE DEF line, item, song
<1>8. /\ DOMAIN Over(item, Over(Credit(line), song)) = DOMAIN item \cup DOMAIN Credit(line) \cup DOMAIN song
      /\ \A n \in DOMAIN item : Over(item, Over(Credit(line), song))[n] = item[n]
      /\ \A n \in DOMAIN Credit(line) \ DOMAIN item : Over(item, Over(Credit(line), song))[n] = Credit(line)[n]
      /\ \A n \in DOMAIN song \ (DOMAIN item \cup DOMAIN Credit(line)) :
            Over(item, Over(Credit(line), song))[n] = song[n]
  <2> DEFINE rest == Over(Credit(line), song)
  <2>1. /\ DOMAIN rest = DOMAIN Credit(line) \cup DOMAIN song
        /\ \A n \in DOMAIN Credit(line) : rest[n] = Credit(line)[n]
        /\ \A n \in DOMAIN song \ DOMAIN Credit(line) : rest[n] = song[n]
    BY OverValues
  <2> HIDE DEF rest
  <2>2. /\ DOMAIN Over(item, rest) = DOMAIN item \cup DOMAIN rest
        /\ \A n \in DOMAIN item : Over(item, rest)[n] = item[n]
        /\ \A n \in DOMAIN rest \ DOMAIN item : Over(item, rest)[n] = rest[n]
    BY OverValues
  <2>3. /\ DOMAIN Over(item, rest) = DOMAIN item \cup DOMAIN Credit(line) \cup DOMAIN song
        /\ \A n \in DOMAIN item : Over(item, rest)[n] = item[n]
        /\ \A n \in DOMAIN Credit(line) \ DOMAIN item : Over(item, rest)[n] = Credit(line)[n]
        /\ \A n \in DOMAIN song \ (DOMAIN item \cup DOMAIN Credit(line)) :
              Over(item, rest)[n] = song[n]
    BY <2>1, <2>2
  <2> QED
    BY <2>3 DEF rest
<1>9. /\ DOMAIN Script[c][l] = {1, 2, 5} \cup DOMAIN Credit(line) \cup (IF line.kind = "song" THEN {6, 7} ELSE {})
      /\ \A n \in {1, 2, 5} : Script[c][l][n] = item[n]
      /\ \A n \in DOMAIN Credit(line) : Script[c][l][n] = Credit(line)[n]
      /\ line.kind = "song" => Script[c][l][6] = song[6] /\ Script[c][l][7] = song[7]
  BY <1>3, <1>4, <1>5, <1>8
<1> QED
  BY <1>6, <1>7, <1>9 DEF line

LineAt(c, p) == Work[c][p[1]]

\* The saves there are.
AuthorSave(c, p) ==
    /\ p[2] = 4 /\ CreditOf(LineAt(c, p)) \in Names
    /\ \E cols, fresh \in {Empty, [name |-> CreditOf(LineAt(c, p))]} :
          /\ cols # fresh
          /\ At(c, p) = Save("author", slugify(CreditOf(LineAt(c, p))), cols, fresh)

AlbumSave(c, p) ==
    /\ p[2] = 2 /\ AlbumLine(c, p[1])
    /\ At(c, p) = Save("album", LineAt(c, p).slug, Texts(LineAt(c, p)), Empty)

ItemInsert(c, p) ==
    /\ c = Bulk /\ p[2] = 2 /\ ItemLine(c, p[1])
    /\ At(c, p) = Save("item", LineAt(c, p).slug,
                       [title |-> LineAt(c, p).title, subtitle |-> LineAt(c, p).subtitle,
                        kind |-> LineAt(c, p).kind, album |-> LineAt(c, p).album,
                        author |-> AuthorId(LineAt(c, p))], Empty)

ItemUpsert(c, p) ==
    /\ c # Bulk /\ p[2] = 2 /\ ItemLine(c, p[1])
    /\ At(c, p) = Save("item", LineAt(c, p).slug, Over(AlbumColumn(LineAt(c, p)), Texts(LineAt(c, p))),
                       [kind |-> LineAt(c, p).kind, album |-> None, author |-> None])

ItemCredit(c, p) ==
    /\ c # Bulk /\ p[2] = 5 /\ ItemLine(c, p[1])
    /\ At(c, p) = Save("item", LineAt(c, p).slug, [author |-> AuthorId(LineAt(c, p))], Empty)

SongSave(c, p) ==
    /\ p[2] = 7 /\ ItemLine(c, p[1]) /\ LineAt(c, p).kind = "song"
    /\ At(c, p) = SaveSong(LineAt(c, p))

SomeSave(c, p) ==
    \/ AuthorSave(c, p) \/ AlbumSave(c, p) \/ ItemInsert(c, p)
    \/ ItemUpsert(c, p) \/ ItemCredit(c, p) \/ SongSave(c, p)

\* Every statement is a save of these or a look at a row.
LEMMA StatementCases ==
  ASSUME NEW c \in Commands, NEW p \in Statements(c)
  PROVE  \/ At(c, p).op = "select" /\ IsKey(At(c, p).key)
         \/ At(c, p).op = "save" /\ SomeSave(c, p)
<1> DEFINE l == p[1]
           n == p[2]
           line == Work[c][l]
<1>1. l \in DOMAIN Work[c] /\ n \in 1..7 /\ n \in DOMAIN Script[c][l] /\ At(c, p) = Script[c][l][n]
  BY WorkLines DEF Statements, At
<1>2. ASSUME NEW table \in Tables, NEW slug
      PROVE  LET st == Select(table, slug) IN st.op = "select" /\ IsKey(st.key)
  BY DEF Select, IsKey
<1>3. ASSUME NEW table, NEW slug, NEW cols, NEW fresh
      PROVE  Save(table, slug, cols, fresh).op = "save"
  BY DEF Save
<1>4. ASSUME n \in DOMAIN Credit(line), Script[c][l][n] = Credit(line)[n],
             CreditOf(line) \in Names \cup {None}
      PROVE  \/ At(c, p).op = "select" /\ IsKey(At(c, p).key)
             \/ At(c, p).op = "save" /\ AuthorSave(c, p)
  <2>1. CreditOf(line) # None
    BY <1>4, CreditStatements DEF Empty
  <2>2. n \in {3, 4}
    BY <1>4, <2>1, CreditStatements
  <2>3. CASE n = 3
    <3>1. At(c, p) = Select("author", slugify(CreditOf(line)))
      BY <1>1, <1>4, <2>1, <2>3, CreditStatements
    <3> QED
      BY <3>1, <1>2 DEF Tables
  <2>4. CASE n = 4
    <3>1. \E cols, fresh \in {Empty, [name |-> CreditOf(line)]} :
             /\ cols # fresh
             /\ At(c, p) = Save("author", slugify(CreditOf(line)), cols, fresh)
      BY <1>1, <1>4, <2>1, <2>4, CreditStatements
    <3> QED
      BY <1>3, <1>4, <2>1, <2>4, <3>1 DEF AuthorSave, LineAt
  <2> QED
    BY <2>2, <2>3, <2>4
<1>5. CASE ArtistLine(c, l)
  <2>1. Script[c][l] = Credit(line) /\ CreditOf(line) \in Names
    BY <1>1, <1>5, ArtistStatements DEF ArtistLine
  <2> QED
    BY <1>1, <1>4, <2>1 DEF SomeSave
<1>6. CASE AlbumLine(c, l)
  <2>1. \/ n = 1 /\ At(c, p) = Select("album", line.slug)
        \/ n = 2 /\ At(c, p) = Save("album", line.slug, Texts(line), Empty)
    BY <1>1, <1>6, AlbumStatements
  <2> QED
    BY <1>2, <1>3, <1>6, <2>1 DEF SomeSave, AlbumSave, LineAt, Tables
<1>7. CASE ItemLine(c, l) /\ c = Bulk
  <2>1. \/ n = 2 /\ ItemInsert(c, p)
        \/ n = 7 /\ SongSave(c, p)
    BY <1>1, <1>7, BulkItemStatements DEF ItemInsert, SongSave, LineAt
  <2>2. At(c, p).op = "save"
    BY <2>1 DEF ItemInsert, SongSave, Save, SaveSong
  <2> QED
    BY <2>1, <2>2 DEF SomeSave
<1>8. CASE ItemLine(c, l) /\ c # Bulk
  <2>1. CreditOf(line) \in Names \cup {None}
    BY <1>8 DEF ItemLine
  <2>2. \/ n = 1 /\ At(c, p) = Select("item", line.slug)
        \/ n = 2 /\ ItemUpsert(c, p)
        \/ n \in DOMAIN Credit(line) /\ Script[c][l][n] = Credit(line)[n]
        \/ n = 5 /\ ItemCredit(c, p)
        \/ n = 6 /\ At(c, p) = Select("song", line.slug)
        \/ n = 7 /\ SongSave(c, p)
    BY <1>1, <1>8, SeedItemStatements DEF ItemUpsert, ItemCredit, SongSave, LineAt
  <2>3. ItemUpsert(c, p) \/ ItemCredit(c, p) \/ SongSave(c, p) => At(c, p).op = "save"
    BY DEF ItemUpsert, ItemCredit, SongSave, Save, SaveSong
  <2> QED
    BY <1>2, <1>4, <2>1, <2>2, <2>3 DEF SomeSave, Tables
<1> QED
  BY <1>1, <1>5, <1>6, <1>7, <1>8, LineKinds

\* What is said of a line is done.
LEMMA SavesOfLines ==
  ASSUME NEW c \in Commands, NEW l \in DOMAIN Work[c]
  PROVE  /\ AlbumLine(c, l) => <<l, 2>> \in Saves(c) /\ AlbumSave(c, <<l, 2>>)
         /\ ItemLine(c, l) =>
               /\ <<l, 2>> \in Saves(c) /\ (ItemInsert(c, <<l, 2>>) \/ ItemUpsert(c, <<l, 2>>))
               /\ c # Bulk => <<l, 5>> \in Saves(c) /\ ItemCredit(c, <<l, 5>>)
               /\ Work[c][l].kind = "song" => <<l, 7>> \in Saves(c) /\ SongSave(c, <<l, 7>>)
         /\ (ArtistLine(c, l) \/ (ItemLine(c, l) /\ c # Bulk)) /\ CreditOf(Work[c][l]) # None =>
               /\ <<l, 4>> \in Saves(c) /\ AuthorSave(c, <<l, 4>>)
<1> DEFINE line == Work[c][l]
<1>1. ASSUME NEW n \in 1..7, n \in DOMAIN Script[c][l]
      PROVE  <<l, n>> \in Statements(c) /\ At(c, <<l, n>>) = Script[c][l][n]
             /\ LineAt(c, <<l, n>>) = line /\ <<l, n>>[1] = l /\ <<l, n>>[2] = n
  BY <1>1, WorkLines DEF Statements, At, LineAt
<1>2. ASSUME AlbumLine(c, l) PROVE <<l, 2>> \in Saves(c) /\ AlbumSave(c, <<l, 2>>)
  <2>1. 2 \in DOMAIN Script[c][l] /\ 2 \in 1..7
    BY <1>2, AlbumStatements
  <2>2. Script[c][l][2] = Save("album", line.slug, Texts(line), Empty)
    BY <1>2, AlbumStatements
  <2>3. AlbumSave(c, <<l, 2>>)
    BY <1>1, <1>2, <2>1, <2>2 DEF AlbumSave
  <2> QED
    BY <1>1, <2>1, <2>2, <2>3 DEF Saves, Save
<1>3. ASSUME ItemLine(c, l), c = Bulk
      PROVE  /\ <<l, 2>> \in Saves(c) /\ ItemInsert(c, <<l, 2>>)
             /\ line.kind = "song" => <<l, 7>> \in Saves(c) /\ SongSave(c, <<l, 7>>)
  <2>0. DOMAIN Script[c][l] = IF line.kind = "song" THEN {2, 7} ELSE {2}
    BY <1>3, BulkItemStatements
  <2>1. 2 \in DOMAIN Script[c][l] /\ 2 \in 1..7
    BY <2>0
  <2>2. line.kind = "song" => 7 \in DOMAIN Script[c][l] /\ 7 \in 1..7
    BY <2>0
  <2>3. ItemInsert(c, <<l, 2>>)
    BY <1>1, <1>3, <2>1, BulkItemStatements DEF ItemInsert
  <2>4. line.kind = "song" => SongSave(c, <<l, 7>>)
    BY <1>1, <1>3, <2>2, BulkItemStatements DEF SongSave
  <2> QED
    BY <1>1, <2>1, <2>2, <2>3, <2>4 DEF Saves, Save, ItemInsert, SongSave, SaveSong
<1>4. ASSUME ItemLine(c, l), c # Bulk
      PROVE  /\ <<l, 2>> \in Saves(c) /\ ItemUpsert(c, <<l, 2>>)
             /\ <<l, 5>> \in Saves(c) /\ ItemCredit(c, <<l, 5>>)
             /\ line.kind = "song" => <<l, 7>> \in Saves(c) /\ SongSave(c, <<l, 7>>)
  <2>0. /\ DOMAIN Script[c][l] = {1, 2, 5} \cup DOMAIN Credit(line)
                                   \cup (IF line.kind = "song" THEN {6, 7} ELSE {})
        /\ line.kind = "song" => Script[c][l][7] = SaveSong(line)
    BY <1>4, SeedItemStatements
  <2>1. 2 \in DOMAIN Script[c][l] /\ 2 \in 1..7 /\ 5 \in DOMAIN Script[c][l] /\ 5 \in 1..7
    BY <2>0
  <2>2. line.kind = "song" => 7 \in DOMAIN Script[c][l] /\ 7 \in 1..7
    BY <2>0
  <2>3. ItemUpsert(c, <<l, 2>>) /\ ItemCredit(c, <<l, 5>>)
    BY <1>1, <1>4, <2>1, SeedItemStatements DEF ItemUpsert, ItemCredit
  <2>4. line.kind = "song" => SongSave(c, <<l, 7>>)
    BY <1>1, <1>4, <2>0, <2>2 DEF SongSave
  <2> QED
    BY <1>1, <2>1, <2>2, <2>3, <2>4 DEF Saves, Save, ItemUpsert, ItemCredit, SongSave, SaveSong
<1>5. ASSUME ArtistLine(c, l) \/ (ItemLine(c, l) /\ c # Bulk), CreditOf(line) # None
      PROVE  <<l, 4>> \in Saves(c) /\ AuthorSave(c, <<l, 4>>)
  <2>1. CreditOf(line) \in Names
    BY <1>5 DEF ArtistLine, ItemLine
  <2>2. 4 \in DOMAIN Credit(line)
    BY <1>5, <2>1, CreditStatements
  <2>3. 4 \in DOMAIN Script[c][l] /\ Script[c][l][4] = Credit(line)[4] /\ 4 \in 1..7
    <3>1. CASE ArtistLine(c, l)
      BY <2>2, <3>1, ArtistStatements
    <3>2. CASE ItemLine(c, l) /\ c # Bulk
      <4>1. /\ DOMAIN Script[c][l] = {1, 2, 5} \cup DOMAIN Credit(line)
                                   \cup (IF line.kind = "song" THEN {6, 7} ELSE {})
            /\ \A n \in DOMAIN Credit(line) : Script[c][l][n] = Credit(line)[n]
        BY <3>2, SeedItemStatements
      <4> QED
        BY <2>2, <4>1
    <3> QED
      BY <1>5, <3>1, <3>2
  <2>4. PICK cols, fresh \in {Empty, [name |-> CreditOf(line)]} :
               /\ cols # fresh
               /\ Credit(line)[4] = Save("author", slugify(CreditOf(line)), cols, fresh)
    BY <1>5, <2>1, CreditStatements
  <2>5. AuthorSave(c, <<l, 4>>)
    BY <1>1, <2>1, <2>3, <2>4 DEF AuthorSave
  <2> QED
    BY <1>1, <2>3, <2>4, <2>5 DEF Saves, Save
<1> QED
  BY <1>2, <1>3, <1>4, <1>5

-----------------------------------------------------------------------------
\* What a save relies on

SavedBefore(c, p, k) == \E q \in Saves(c) : Precedes(q, p) /\ At(c, q).key = k

\* An item's album is listed before it.
LEMMA AlbumBefore ==
  ASSUME NEW c \in Commands, NEW l \in DOMAIN Work[c], ItemLine(c, l), Work[c][l].album # None,
         NEW n \in 1..7
  PROVE  SavedBefore(c, <<l, n>>, <<"album", Work[c][l].album>>)
<1>1. PICK j \in DOMAIN Work[c] : j < l /\ AlbumLine(c, j) /\ Work[c][j].slug = Work[c][l].album
  <2>1. CASE c # Bulk
    <3>1. Lines[c] \in AllLines /\ Work[c] = Lines[c] /\ l \in Nat /\ DOMAIN Lines[c] = 1..Len(Lines[c])
          /\ Len(Lines[c]) \in Nat
      BY <2>1, WorkLines
    <3>2. Lines[c][l].kind # "album" /\ Lines[c][l].album # None
      BY <3>1 DEF ItemLine
    <3>3. PICK j \in 1..(l - 1) : Lines[c][j].kind = "album" /\ Lines[c][j].slug = Lines[c][l].album
      BY <3>1, <3>2, LinesAssumption
    <3>4. j \in DOMAIN Work[c] /\ j < l
      BY <3>1, <3>3
    <3> QED
      BY <3>1, <3>3, <3>4 DEF AlbumLine
  <2>2. CASE c = Bulk
    <3> DEFINE m == Len(BulkArtists) + 1
               i == l - m
    <3>1. Len(Work[c]) \in Nat /\ DOMAIN Work[c] = 1..Len(Work[c]) /\ m \in Nat /\ l \in 1..Len(Work[c])
      BY WorkLines, CatalogueAssumption
    <3>2. ~(l <= m)
      <4> SUFFICES ASSUME l <= m PROVE FALSE
        OBVIOUS
      <4>1. Work[c][l] = Credits[l] /\ l \in 1..m
        BY <2>2, <3>1, WorkLines DEF Credits
      <4>2. Credits[l].kind = "artist"
        BY <4>1 DEF Credits
      <4> QED
        BY <4>1, <4>2 DEF ItemLine
    <3>3. i \in DOMAIN BulkLines /\ Work[c][l] = BulkLines[i] /\ BulkLines \in AllLines
      BY <2>2, <3>2, WorkLines DEF AllLines
    <3>4. BulkLines \in Seq(ToSet(BulkLines))
      BY <3>3, LinesAssumption
    <3>5. BulkLines[i].kind # "album" /\ BulkLines[i].album # None
      BY <3>3 DEF ItemLine
    <3>6. PICK j \in 1..(i - 1) : BulkLines[j].kind = "album" /\ BulkLines[j].slug = BulkLines[i].album
      BY <3>3, <3>5, LinesAssumption
    <3>7. j + m \in DOMAIN Work[c] /\ j + m < l /\ ~(j + m <= m) /\ (j + m) - m = j
      BY <3>1, <3>2, <3>6
    <3>8. Work[c][j + m] = BulkLines[j]
      <4>1. Work[c][j + m] = BulkLines[(j + m) - m]
        BY <2>2, <3>7, WorkLines
      <4> QED
        BY <3>7, <4>1
    <3> HIDE DEF i, m
    <3> QED
      BY <3>3, <3>6, <3>7, <3>8 DEF AlbumLine
  <2> QED
    BY <2>1, <2>2
<1>2. <<j, 2>> \in Saves(c) /\ AlbumSave(c, <<j, 2>>)
  BY <1>1, SavesOfLines
<1>3. At(c, <<j, 2>>).key = <<"album", Work[c][l].album>>
  BY <1>1, <1>2 DEF AlbumSave, LineAt, Save
<1>4. Precedes(<<j, 2>>, <<l, n>>)
  BY <1>1 DEF Precedes
<1> QED
  BY <1>2, <1>3, <1>4 DEF SavedBefore

\* The author a line credits has been seen to.
LEMMA AuthorBefore ==
  ASSUME NEW c \in Commands, NEW p \in Saves(c), ItemInsert(c, p) \/ ItemCredit(c, p),
         AuthorId(LineAt(c, p)) # None
  PROVE  SavedBefore(c, p, <<"author", AuthorId(LineAt(c, p))>>)
<1> DEFINE l == p[1]
           line == Work[c][l]
<1>1. l \in DOMAIN Work[c] /\ p = <<l, p[2]>> /\ LineAt(c, p) = line /\ l \in Nat /\ p[2] \in Nat
  <2>1. p \in (DOMAIN Work[c]) \X (1..7)
    BY WorkLines DEF Saves, Statements
  <2> QED
    BY <2>1, WorkLines DEF LineAt
<1>2. CreditOf(line) # None /\ AuthorId(line) = slugify(CreditOf(line))
  BY <1>1 DEF AuthorId
<1>3. ASSUME NEW j \in DOMAIN Work[c], AuthorSave(c, <<j, 4>>), <<j, 4>> \in Saves(c),
             CreditOf(Work[c][j]) = CreditOf(line), Precedes(<<j, 4>>, p)
      PROVE  SavedBefore(c, p, <<"author", AuthorId(LineAt(c, p))>>)
  <2>1. At(c, <<j, 4>>).key = <<"author", slugify(CreditOf(line))>>
    BY <1>3 DEF AuthorSave, LineAt, Save
  <2> QED
    BY <1>1, <1>2, <1>3, <2>1 DEF SavedBefore
<1>4. CASE ItemCredit(c, p)
  <2>1. ItemLine(c, l) /\ c # Bulk /\ p[2] = 5
    BY <1>4 DEF ItemCredit
  <2>2. <<l, 4>> \in Saves(c) /\ AuthorSave(c, <<l, 4>>)
    BY <1>1, <1>2, <2>1, SavesOfLines
  <2>3. Precedes(<<l, 4>>, p)
    BY <1>1, <2>1 DEF Precedes
  <2> QED
    BY <1>1, <1>3, <2>2, <2>3
<1>5. CASE ItemInsert(c, p)
  <2> DEFINE m == Len(BulkArtists) + 1
  <2>1. c = Bulk /\ ItemLine(c, l) /\ m \in Nat /\ Len(BulkArtists) \in Nat
    BY <1>5, CatalogueAssumption DEF ItemInsert
  <2>2. ~(l <= m)
    <3> SUFFICES ASSUME l <= m PROVE FALSE
      OBVIOUS
    <3>1. line = Credits[l] /\ l \in 1..m
      BY <1>1, <2>1, WorkLines DEF Credits
    <3>2. Credits[l].kind = "artist"
      BY <3>1 DEF Credits
    <3> QED
      BY <2>1, <3>1, <3>2 DEF ItemLine
  <2>3. line \in Items(BulkLines)
    <3>1. l - m \in DOMAIN BulkLines /\ line = BulkLines[l - m]
      BY <1>1, <2>1, <2>2, WorkLines
    <3>2. line.kind # "album"
      BY <2>1 DEF ItemLine
    <3> QED
      BY <3>1, <3>2 DEF Items, ToSet
  <2>4. CreditOf(line) \in ToSet(BulkArtists) \cup {Photographer}
    BY <2>1, <2>3, SlugAssumption DEF CreditOf, ItemLine
  <2>5. PICK j \in 1..m : CreditOf(Credits[j]) = CreditOf(line)
    <3>1. CASE CreditOf(line) \in ToSet(BulkArtists)
      <4>1. PICK j \in DOMAIN BulkArtists : BulkArtists[j] = CreditOf(line)
        BY <3>1 DEF ToSet
      <4>2. j \in 1..m /\ j <= Len(BulkArtists)
        BY <2>1, <4>1, CatalogueAssumption
      <4>3. Credits[j].by = CreditOf(line)
        BY <4>1, <4>2 DEF Credits
      <4> QED
        BY <1>2, <4>2, <4>3 DEF CreditOf
    <3>2. CASE CreditOf(line) = Photographer
      <4>1. m \in 1..m /\ ~(m <= Len(BulkArtists))
        BY <2>1
      <4>2. Credits[m].by = None /\ Credits[m].kind = "artist"
        BY <4>1 DEF Credits
      <4> HIDE DEF m
      <4> QED
        BY <3>2, <4>1, <4>2 DEF CreditOf
    <3> QED
      BY <2>4, <3>1, <3>2
  <2>6. j \in DOMAIN Work[c] /\ Work[c][j] = Credits[j] /\ Credits[j].kind = "artist"
    <3>1. j \in DOMAIN Credits
      BY <2>5 DEF Credits
    <3> QED
      BY <2>1, <2>5, <3>1, WorkLines DEF Credits
  <2>7. ArtistLine(c, j)
    <3>1. ~AlbumLine(c, j) /\ ~ItemLine(c, j)
      BY <2>6 DEF AlbumLine, ItemLine
    <3> QED
      BY <2>6, <3>1, LineKinds
  <2>8. <<j, 4>> \in Saves(c) /\ AuthorSave(c, <<j, 4>>)
    BY <1>2, <2>5, <2>6, <2>7, SavesOfLines
  <2>9. Precedes(<<j, 4>>, p)
    BY <1>1, <2>1, <2>2, <2>5 DEF Precedes
  <2> QED
    BY <1>3, <2>5, <2>6, <2>8, <2>9
<1> QED
  BY <1>4, <1>5

\* A save has a key, sets columns of its table - all of them where it can insert the
\* row - and sets them to values that fit, which refer to rows saved before.
LEMMA SaveFacts ==
  ASSUME NEW c \in Commands, NEW p \in Saves(c)
  PROVE  LET s == At(c, p)
             all == Over(s.cols, s.fresh)
         IN  /\ IsKey(s.key)
             /\ DOMAIN s.cols \subseteq ColumnsOf(s.key[1])
             /\ DOMAIN all \subseteq ColumnsOf(s.key[1])
             /\ DOMAIN all = ColumnsOf(s.key[1]) \/ SavedBefore(c, p, s.key)
             /\ \A col \in DOMAIN all :
                   /\ Fits(s.key, col, all[col])
                   /\ \A ref \in Refers(col, all[col]) : SavedBefore(c, p, ref)
<1> DEFINE line == LineAt(c, p)
           s == At(c, p)
           all == Over(s.cols, s.fresh)
           Facts == /\ IsKey(s.key)
                    /\ DOMAIN s.cols \subseteq ColumnsOf(s.key[1])
                    /\ DOMAIN all = ColumnsOf(s.key[1]) \/ (DOMAIN all \subseteq ColumnsOf(s.key[1]) /\ SavedBefore(c, p, s.key))
                    /\ \A col \in DOMAIN all :
                          /\ Fits(s.key, col, all[col])
                          /\ \A ref \in Refers(col, all[col]) : SavedBefore(c, p, ref)
<1>1. p[1] \in DOMAIN Work[c] /\ p = <<p[1], p[2]>> /\ p[1] \in Nat /\ p[2] \in 1..7 /\ line = Work[c][p[1]]
  <2>1. p \in (DOMAIN Work[c]) \X (1..7)
    BY WorkLines DEF Saves, Statements
  <2> QED
    BY <2>1, WorkLines DEF LineAt
<1>2. SomeSave(c, p)
  BY StatementCases DEF Saves
<1>3. CASE AuthorSave(c, p)
  <2>1. PICK cols, fresh \in {Empty, [name |-> CreditOf(line)]} :
          cols # fresh /\ s = Save("author", slugify(CreditOf(line)), cols, fresh)
    BY <1>3 DEF AuthorSave
  <2>2. s.key = <<"author", <<Base[CreditOf(line)], 1>>>> /\ s.cols = cols /\ s.fresh = fresh
    BY <2>1 DEF Save, slugify
  <2>3. DOMAIN all = {"name"} /\ all["name"] = CreditOf(line) /\ DOMAIN s.cols \subseteq {"name"}
    BY <2>1, <2>2 DEF Over, Empty
  <2>4. CreditOf(line) \in Names
    BY <1>3 DEF AuthorSave
  <2>5. Facts
    BY <2>2, <2>3, <2>4 DEF IsKey, ColumnsOf, Tables, Fits, Refers
  <2> QED
    BY <2>5
<1>4. CASE AlbumSave(c, p)
  <2>1. s.key = <<"album", line.slug>> /\ s.cols = Texts(line) /\ s.fresh = Empty
    BY <1>4 DEF AlbumSave, Save
  <2>2. DOMAIN all = {"title", "subtitle"} /\ DOMAIN s.cols = {"title", "subtitle"}
    BY <2>1 DEF Over, Texts, Empty
  <2>3. Facts
    BY <2>1, <2>2 DEF IsKey, ColumnsOf, Tables, Fits, Refers
  <2> QED
    BY <2>3
<1>5. CASE SongSave(c, p)
  <2>1. s.key = <<"song", line.slug>> /\ s.cols = [artist |-> line.subtitle] /\ s.fresh = Empty
    BY <1>5 DEF SongSave, SaveSong, Save
  <2>2. DOMAIN all = {"artist"} /\ DOMAIN s.cols = {"artist"} /\ all["artist"] = line.subtitle
    BY <2>1 DEF Over, Empty
  <2>3. line.subtitle \in Names \cup {None}
    BY <1>1, <1>5 DEF SongSave, ItemLine
  <2>4. Facts
    BY <2>1, <2>2, <2>3 DEF IsKey, ColumnsOf, Tables, Fits, Refers
  <2> QED
    BY <2>4
<1>6. CASE ItemCredit(c, p)
  <2>1. s.key = <<"item", line.slug>> /\ s.cols = [author |-> AuthorId(line)] /\ s.fresh = Empty
    BY <1>6 DEF ItemCredit, Save
  <2>2. DOMAIN all = {"author"} /\ DOMAIN s.cols = {"author"} /\ all["author"] = AuthorId(line)
    BY <2>1 DEF Over, Empty
  <2>3. AuthorId(line) # None => SavedBefore(c, p, <<"author", AuthorId(line)>>)
    BY <1>6, AuthorBefore
  <2>4. SavedBefore(c, p, <<"item", line.slug>>)
    <3>1. ItemLine(c, p[1]) /\ p[2] = 5 /\ c # Bulk
      BY <1>6 DEF ItemCredit
    <3>2. <<p[1], 2>> \in Saves(c) /\ (ItemInsert(c, <<p[1], 2>>) \/ ItemUpsert(c, <<p[1], 2>>))
      BY <1>1, <3>1, SavesOfLines
    <3>3. At(c, <<p[1], 2>>).key = <<"item", line.slug>>
      BY <1>1, <3>2 DEF ItemInsert, ItemUpsert, Save, LineAt
    <3>4. Precedes(<<p[1], 2>>, p)
      BY <1>1, <3>1 DEF Precedes
    <3> QED
      BY <3>2, <3>3, <3>4 DEF SavedBefore
  <2>5. Facts
    BY <2>1, <2>2, <2>3, <2>4 DEF IsKey, ColumnsOf, Tables, Fits, Refers
  <2> QED
    BY <2>1, <2>2, <2>5
<1>7. CASE ItemInsert(c, p) \/ ItemUpsert(c, p)
  <2> DEFINE columns == {"title", "subtitle", "kind", "album", "author"}
  <2>1. /\ s.key = <<"item", line.slug>>
        /\ DOMAIN all = columns /\ DOMAIN s.cols \subseteq columns
        /\ all["kind"] = line.kind
        /\ all["album"] \in {line.album, None}
        /\ all["author"] \in {AuthorId(line), None}
        /\ ItemUpsert(c, p) => all["author"] = None
    <3>1. CASE ItemInsert(c, p)
      <4>1. s.key = <<"item", line.slug>> /\ s.fresh = Empty
            /\ s.cols = [title |-> line.title, subtitle |-> line.subtitle, kind |-> line.kind,
                         album |-> line.album, author |-> AuthorId(line)]
        BY <3>1 DEF ItemInsert, Save
      <4>2. DOMAIN s.cols = columns /\ DOMAIN s.fresh = {}
        BY <4>1 DEF Empty
      <4>3. DOMAIN all = columns /\ \A col \in columns : all[col] = s.cols[col]
        <5>1. DOMAIN all = DOMAIN s.cols \cup DOMAIN s.fresh /\ \A col \in DOMAIN s.cols : all[col] = s.cols[col]
          BY OverValues
        <5> HIDE DEF all, s
        <5> QED
          BY <4>2, <5>1
      <4>4. ~ItemUpsert(c, p)
        BY <3>1 DEF ItemInsert, ItemUpsert
      <4> QED
        BY <4>1, <4>2, <4>3, <4>4
    <3>2. CASE ItemUpsert(c, p)
      <4>1. s.key = <<"item", line.slug>>
            /\ s.cols = Over(AlbumColumn(line), Texts(line))
            /\ s.fresh = [kind |-> line.kind, album |-> None, author |-> None]
        BY <3>2 DEF ItemUpsert, Save
      <4>2. /\ DOMAIN s.cols \subseteq {"album", "title", "subtitle"}
            /\ {"title", "subtitle"} \subseteq DOMAIN s.cols
            /\ "album" \in DOMAIN s.cols => s.cols["album"] = line.album
        BY <4>1 DEF Over, AlbumColumn, Texts, Empty
      <4>3. DOMAIN s.fresh = {"kind", "album", "author"}
        BY <4>1
      <4>4. /\ DOMAIN all = DOMAIN s.cols \cup DOMAIN s.fresh
            /\ \A col \in DOMAIN s.cols : all[col] = s.cols[col]
            /\ \A col \in DOMAIN s.fresh \ DOMAIN s.cols : all[col] = s.fresh[col]
        BY OverValues
      <4>5. all["kind"] = line.kind /\ all["author"] = None
        BY <4>1, <4>2, <4>3, <4>4
      <4>6. all["album"] \in {line.album, None}
        BY <4>1, <4>2, <4>3, <4>4
      <4>7. DOMAIN all = columns /\ DOMAIN s.cols \subseteq columns
        BY <4>2, <4>3, <4>4
      <4> QED
        BY <4>1, <4>5, <4>6, <4>7
    <3> QED
      BY <1>7, <3>1, <3>2
  <2>2. ItemLine(c, p[1]) /\ p[2] \in 1..7
    BY <1>1, <1>7 DEF ItemInsert, ItemUpsert
  <2>3. line.album # None => SavedBefore(c, p, <<"album", line.album>>)
    BY <1>1, <2>2, AlbumBefore
  <2>4. AuthorId(line) # None /\ ItemInsert(c, p) => SavedBefore(c, p, <<"author", AuthorId(line)>>)
    BY AuthorBefore
  <2>5. line.kind \in {"song", "photo"}
        /\ \A lines \in AllLines : \A l \in Items(lines) : l.slug = line.slug => l.kind = line.kind
    BY <1>1, <2>2, SlugAssumption DEF ItemLine
  <2> HIDE DEF all, s, line
  <2>6. \A col \in columns : Fits(s.key, col, all[col])
    BY <2>1, <2>5 DEF Fits
  <2>7. \A col \in columns : \A ref \in Refers(col, all[col]) : SavedBefore(c, p, ref)
    BY <1>7, <2>1, <2>3, <2>4 DEF Refers
  <2>8. Facts
    BY <2>1, <2>6, <2>7 DEF IsKey, ColumnsOf, Tables
  <2> QED
    BY <2>8 DEF all, s
<1>8. Facts
  BY <1>2, <1>3, <1>4, <1>5, <1>6, <1>7 DEF SomeSave
<1>9. DOMAIN s.cols \subseteq DOMAIN all
  <2>1. DOMAIN all = DOMAIN s.cols \cup DOMAIN s.fresh
    BY OverValues
  <2> QED
    BY <2>1
<1> QED
  BY <1>8, <1>9

-----------------------------------------------------------------------------
\* Positions

\* A statement is a line and one of the seven numbers.
LEMMA StatementPairs ==
  ASSUME NEW c \in Commands, NEW p \in Statements(c)
  PROVE  p[1] \in DOMAIN Work[c] /\ p = <<p[1], p[2]>> /\ p[1] \in Nat /\ p[2] \in 1..7
<1>1. p \in (DOMAIN Work[c]) \X (1..7)
  BY WorkLines DEF Statements
<1> QED
  BY <1>1, WorkLines

\* Every line has a statement.
LEMMA LinesHaveStatements ==
  ASSUME NEW c \in Commands, NEW l \in DOMAIN Work[c]
  PROVE  DOMAIN Script[c][l] \subseteq 1..7 /\ DOMAIN Script[c][l] # {}
<1>1. CASE ArtistLine(c, l)
  <2>1. CreditOf(Work[c][l]) \in Names /\ CreditOf(Work[c][l]) # None
    BY <1>1, CatalogueAssumption DEF ArtistLine
  <2>2. DOMAIN Credit(Work[c][l]) = {3, 4}
    BY <2>1, CreditStatements
  <2> QED
    BY <1>1, <2>2, ArtistStatements
<1>2. CASE AlbumLine(c, l)
  BY <1>2, AlbumStatements
<1>3. CASE ItemLine(c, l) /\ c = Bulk
  <2>1. DOMAIN Script[c][l] = IF Work[c][l].kind = "song" THEN {2, 7} ELSE {2}
    BY <1>3, BulkItemStatements
  <2> QED
    BY <2>1
<1>4. CASE ItemLine(c, l) /\ c # Bulk
  <2>1. DOMAIN Script[c][l] = {1, 2, 5} \cup DOMAIN Credit(Work[c][l])
                                   \cup (IF Work[c][l].kind = "song" THEN {6, 7} ELSE {})
    BY <1>4, SeedItemStatements
  <2>2. DOMAIN Credit(Work[c][l]) \subseteq {3, 4}
    <3>1. CreditOf(Work[c][l]) \in Names \cup {None}
      BY <1>4 DEF ItemLine
    <3> QED
      BY <3>1, CreditStatements DEF Empty
  <2> QED
    BY <2>1, <2>2
<1> QED
  BY <1>1, <1>2, <1>3, <1>4, LineKinds

\* The first statement of a line comes before its others.
LEMMA FirstOfLine ==
  ASSUME NEW c \in Commands, NEW l \in DOMAIN Script[c]
  PROVE  /\ <<l, First(c, l)>> \in Statements(c)
         /\ \A n \in DOMAIN Script[c][l] : First(c, l) <= n
<1>1. l \in DOMAIN Work[c] /\ DOMAIN Script[c][l] \subseteq 1..7 /\ DOMAIN Script[c][l] # {}
  BY WorkLines, LinesHaveStatements
<1>2. DOMAIN Script[c][l] \in SUBSET Nat
  BY <1>1
<1>3. First(c, l) = Min(DOMAIN Script[c][l])
  BY DEF First
<1>4. First(c, l) \in DOMAIN Script[c][l] /\ \A n \in DOMAIN Script[c][l] : First(c, l) <= n
  BY <1>1, <1>2, <1>3, MinIsLeast
<1> QED
  BY <1>1, <1>4 DEF Statements

\* Nothing comes before the beginning, ...
LEMMA Beginning ==
  ASSUME NEW c \in Commands
  PROVE  /\ 1 \in 1..(Len(Work[c]) + 1)
         /\ \A q \in Statements(c) : ~Precedes(q, <<1, First(c, 1)>>)
<1>1. Len(Work[c]) \in Nat /\ DOMAIN Work[c] = 1..Len(Work[c]) /\ DOMAIN Script[c] = DOMAIN Work[c]
  BY WorkLines
<1>2. ASSUME NEW q \in Statements(c), Precedes(q, <<1, First(c, 1)>>) PROVE FALSE
  <2>1. q[1] \in DOMAIN Work[c] /\ q[2] \in 1..7 /\ q[2] \in DOMAIN Script[c][q[1]]
    BY StatementPairs DEF Statements
  <2>2. q[1] = 1 /\ q[2] < First(c, 1)
    BY <1>1, <1>2, <2>1 DEF Precedes
  <2>3. First(c, 1) <= q[2] /\ <<1, First(c, 1)>> \in Statements(c)
    BY <1>1, <2>1, <2>2, FirstOfLine
  <2>4. First(c, 1) \in 1..7
    BY <2>3, StatementPairs
  <2> QED
    BY <2>1, <2>2, <2>3, <2>4
<1> QED
  BY <1>1, <1>2

\* ... everything before the end, ...
LEMMA Ending ==
  ASSUME NEW c \in Commands, NEW l \in 1..(Len(Work[c]) + 1), l \notin DOMAIN Script[c], NEW n,
         NEW q \in Statements(c)
  PROVE  Precedes(q, <<l, n>>)
<1>1. Len(Work[c]) \in Nat /\ DOMAIN Work[c] = 1..Len(Work[c]) /\ DOMAIN Script[c] = DOMAIN Work[c]
  BY WorkLines
<1>2. q[1] \in 1..Len(Work[c])
  BY <1>1, StatementPairs
<1> QED
  BY <1>1, <1>2 DEF Precedes

\* ... and between a statement and the one a run moves on to there is none.
LEMMA Advance ==
  ASSUME NEW c \in Commands, NEW p \in Statements(c)
  PROVE  LET later == {n \in DOMAIN Script[c][p[1]] : n > p[2]}
             next == IF later = {} THEN <<p[1] + 1, First(c, p[1] + 1)>> ELSE <<p[1], Min(later)>>
         IN  /\ next[1] \in 1..(Len(Work[c]) + 1)
             /\ next[1] \in DOMAIN Script[c] => next \in Statements(c)
             /\ \A q \in Statements(c) : Precedes(q, next) <=> Precedes(q, p) \/ q = p
<1> DEFINE later == {n \in DOMAIN Script[c][p[1]] : n > p[2]}
           next == IF later = {} THEN <<p[1] + 1, First(c, p[1] + 1)>> ELSE <<p[1], Min(later)>>
<1>1. Len(Work[c]) \in Nat /\ DOMAIN Work[c] = 1..Len(Work[c]) /\ DOMAIN Script[c] = DOMAIN Work[c]
  BY WorkLines
<1>2. /\ p[1] \in 1..Len(Work[c]) /\ p = <<p[1], p[2]>> /\ p[2] \in 1..7
      /\ p[2] \in DOMAIN Script[c][p[1]] /\ DOMAIN Script[c][p[1]] \subseteq 1..7
  BY <1>1, StatementPairs, LinesHaveStatements DEF Statements
<1>3. ASSUME NEW q \in Statements(c)
      PROVE  q[1] \in 1..Len(Work[c]) /\ q = <<q[1], q[2]>> /\ q[2] \in 1..7 /\ q[2] \in DOMAIN Script[c][q[1]]
  BY <1>1, StatementPairs DEF Statements
<1>4. CASE later = {}
  <2>1. next = <<p[1] + 1, First(c, p[1] + 1)>> /\ next[1] = p[1] + 1 /\ next[2] = First(c, p[1] + 1)
    BY <1>4
  <2>2. next[1] \in 1..(Len(Work[c]) + 1)
    BY <1>1, <1>2, <2>1
  <2>3. next[1] \in DOMAIN Script[c] => next \in Statements(c)
    BY <2>1, FirstOfLine
  <2>4. ASSUME NEW q \in Statements(c) PROVE Precedes(q, next) <=> Precedes(q, p) \/ q = p
    <3>1. q[1] = p[1] => q[2] <= p[2]
      BY <1>2, <1>3, <1>4
    <3>2. ~(q[1] = next[1] /\ q[2] < next[2])
      <4> SUFFICES ASSUME q[1] = next[1], q[2] < next[2] PROVE FALSE
        OBVIOUS
      <4>1. next[1] \in DOMAIN Script[c]
        BY <1>1, <1>3
      <4>2. next[2] <= q[2] /\ next[2] \in 1..7
        <5>1. <<next[1], next[2]>> \in Statements(c) /\ next[2] <= q[2]
          BY <1>3, <2>1, <4>1, FirstOfLine
        <5> HIDE DEF next
        <5> QED
          BY <5>1, StatementPairs
      <4> QED
        BY <1>3, <4>2
    <3>3. Precedes(q, next) <=> q[1] < p[1] + 1
      BY <2>1, <3>2 DEF Precedes
    <3> HIDE DEF next
    <3> QED
      BY <1>2, <1>3, <3>1, <3>3 DEF Precedes
  <2> QED
    BY <2>2, <2>3, <2>4
<1>5. CASE later # {}
  <2>1. next = <<p[1], Min(later)>> /\ next[1] = p[1] /\ next[2] = Min(later)
    BY <1>5
  <2>2. later \in SUBSET Nat
    BY <1>2
  <2>3. Min(later) \in later /\ \A n \in later : Min(later) <= n
    <3> HIDE DEF later
    <3> QED
      BY <1>5, <2>2, MinIsLeast
  <2>4. next[1] \in 1..(Len(Work[c]) + 1)
    BY <1>1, <1>2, <2>1
  <2>5. next \in Statements(c)
    BY <1>1, <1>2, <2>1, <2>3 DEF Statements
  <2>6. ASSUME NEW q \in Statements(c) PROVE Precedes(q, next) <=> Precedes(q, p) \/ q = p
    <3>1. q[1] = p[1] => (q[2] < next[2] <=> q[2] <= p[2])
      <4>1. next[2] \in 1..7 /\ next[2] > p[2]
        BY <1>2, <2>1, <2>3
      <4>2. q[1] = p[1] /\ q[2] > p[2] => next[2] <= q[2]
        BY <1>3, <2>1, <2>3
      <4> HIDE DEF next
      <4> QED
        BY <1>2, <1>3, <4>1, <4>2
    <3>2. next[1] = p[1]
      BY <2>1
    <3> HIDE DEF next
    <3> QED
      BY <1>2, <1>3, <3>1, <3>2 DEF Precedes
  <2> QED
    BY <2>4, <2>5, <2>6
<1> QED
  BY <1>4, <1>5

-----------------------------------------------------------------------------
\* Which lines save what

\* A row is saved by the lines that name it.
LEMMA SavedLines ==
  ASSUME NEW c \in Commands, NEW p \in Saves(c)
  PROVE  LET k == At(c, p).key IN
         /\ k[1] = "author" <=> AuthorSave(c, p)
         /\ k[1] = "album" <=> AlbumSave(c, p)
         /\ k[1] = "item" <=> ItemInsert(c, p) \/ ItemUpsert(c, p) \/ ItemCredit(c, p)
         /\ k[1] = "song" <=> SongSave(c, p)
         /\ k[1] # "author" => /\ k[2] = Work[c][p[1]].slug
                               /\ AlbumLine(c, p[1]) \/ ItemLine(c, p[1])
<1>1. AuthorSave(c, p) => At(c, p).key[1] = "author"
  BY DEF AuthorSave, Save
<1>2. AlbumSave(c, p) => At(c, p).key = <<"album", Work[c][p[1]].slug>> /\ AlbumLine(c, p[1])
  BY DEF AlbumSave, Save, LineAt
<1>3. ItemInsert(c, p) \/ ItemUpsert(c, p) \/ ItemCredit(c, p)
        => At(c, p).key = <<"item", Work[c][p[1]].slug>> /\ ItemLine(c, p[1])
  BY DEF ItemInsert, ItemUpsert, ItemCredit, Save, LineAt
<1>4. SongSave(c, p) => At(c, p).key = <<"song", Work[c][p[1]].slug>> /\ ItemLine(c, p[1])
  BY DEF SongSave, SaveSong, Save, LineAt
<1>5. SomeSave(c, p)
  BY StatementCases DEF Saves
<1> QED
  BY <1>1, <1>2, <1>3, <1>4, <1>5 DEF SomeSave

\* The albums and items of a command are in its fixture.
LEMMA LinesOfCommand ==
  ASSUME NEW c \in Commands, NEW l \in DOMAIN Work[c], AlbumLine(c, l) \/ ItemLine(c, l)
  PROVE  /\ c # Bulk => c \in Versions /\ Work[c][l] \in ToSet(Lines[c])
         /\ c = Bulk => Work[c][l] \in ToSet(BulkLines)
<1>1. c # Bulk => c \in Versions /\ Work[c][l] \in ToSet(Lines[c])
  BY WorkLines DEF ToSet
<1>2. ASSUME c = Bulk PROVE Work[c][l] \in ToSet(BulkLines)
  <2>1. CASE l <= Len(BulkArtists) + 1
    <3>1. Work[c][l] = Credits[l] /\ l \in DOMAIN Credits
      BY <1>2, <2>1, WorkLines
    <3>2. Credits[l].kind = "artist"
      BY <3>1 DEF Credits
    <3> QED
      BY <3>1, <3>2 DEF AlbumLine, ItemLine
  <2>2. CASE ~(l <= Len(BulkArtists) + 1)
    <3>1. l - (Len(BulkArtists) + 1) \in DOMAIN BulkLines
          /\ Work[c][l] = BulkLines[l - (Len(BulkArtists) + 1)]
      BY <1>2, <2>2, WorkLines
    <3> QED
      BY <3>1 DEF ToSet
  <2> QED
    BY <2>1, <2>2
<1> QED
  BY <1>1, <1>2

\* Seed and generator share no row but authors.
LEMMA SharedRows ==
  ASSUME NEW c \in Commands, NEW d \in Commands, c \in Versions /\ d \in Versions => c = d,
         NEW p \in Saves(c), NEW q \in Saves(d),
         At(c, p).key = At(d, q).key, At(c, p).key[1] # "author"
  PROVE  c = d
<1>1. p[1] \in DOMAIN Work[c] /\ q[1] \in DOMAIN Work[d]
  BY StatementPairs DEF Saves
<1>2. /\ AlbumLine(c, p[1]) \/ ItemLine(c, p[1])
      /\ AlbumLine(d, q[1]) \/ ItemLine(d, q[1])
      /\ Work[c][p[1]].slug = Work[d][q[1]].slug
  BY SavedLines
<1>3. /\ c # Bulk => c \in Versions /\ Work[c][p[1]] \in ToSet(Lines[c])
      /\ c = Bulk => Work[c][p[1]] \in ToSet(BulkLines)
      /\ d # Bulk => d \in Versions /\ Work[d][q[1]] \in ToSet(Lines[d])
      /\ d = Bulk => Work[d][q[1]] \in ToSet(BulkLines)
  BY <1>1, <1>2, LinesOfCommand
<1> QED
  BY <1>2, <1>3, SlugAssumption

\* An item is listed last somewhere.
LEMMA LastListed ==
  ASSUME NEW c \in Commands, NEW l \in DOMAIN Work[c], ItemLine(c, l)
  PROVE  \E m \in DOMAIN Work[c] :
            /\ ItemLine(c, m) /\ Work[c][m].slug = Work[c][l].slug
            /\ \A j \in DOMAIN Work[c] : ItemLine(c, j) /\ Work[c][j].slug = Work[c][l].slug => j <= m
<1> DEFINE T == {j \in DOMAIN Work[c] : ItemLine(c, j) /\ Work[c][j].slug = Work[c][l].slug}
<1>1. Len(Work[c]) \in Nat /\ DOMAIN Work[c] = 1..Len(Work[c])
  BY WorkLines
<1>2. T \in SUBSET Nat /\ l \in T
  BY <1>1
<1>3. IsFiniteSet(T)
  <2>1. IsFiniteSet(1..Len(Work[c]))
    BY <1>1, FS_Interval
  <2> QED
    BY <1>1, <2>1, FS_Subset
<1>4. \E m \in T : \A j \in T : j <= m
  <2> HIDE DEF T
  <2> QED
    BY <1>2, <1>3, GreatestExists
<1> QED
  BY <1>4

\* The saves that set a column of an item or of a song.
LEMMA Setters ==
  ASSUME NEW c \in Commands, NEW p \in Saves(c), NEW k, NEW col, Sets(c, p, k, col)
  PROVE  /\ p = <<p[1], p[2]>> /\ p[1] \in DOMAIN Work[c] /\ p[1] \in Nat
         /\ k[1] # "author" => k[2] = Work[c][p[1]].slug
         /\ k[1] = "song" => p[2] = 7 /\ ItemLine(c, p[1])
         /\ k[1] = "album" => p[2] = 2 /\ AlbumLine(c, p[1])
         /\ k[1] = "item" => ItemLine(c, p[1])
         /\ k[1] = "item" /\ col = "author" => p[2] = IF c = Bulk THEN 2 ELSE 5
         /\ k[1] = "item" /\ col \in {"title", "subtitle", "album"} => p[2] = 2
         /\ c # Bulk /\ k[1] = "item" /\ col = "album" => Work[c][p[1]].album # None
<1>1. p = <<p[1], p[2]>> /\ p[1] \in DOMAIN Work[c] /\ p[1] \in Nat
  BY StatementPairs DEF Saves
<1>2. At(c, p).key = k /\ col \in DOMAIN At(c, p).cols
  BY DEF Sets
<1>3. ASSUME ItemUpsert(c, p) PROVE col # "author" /\ (col = "album" => Work[c][p[1]].album # None)
  <2>1. At(c, p).cols = Over(AlbumColumn(LineAt(c, p)), Texts(LineAt(c, p)))
    BY <1>3 DEF ItemUpsert, Save
  <2>2. /\ DOMAIN At(c, p).cols \subseteq {"album", "title", "subtitle"}
        /\ LineAt(c, p).album = None => DOMAIN At(c, p).cols = {"title", "subtitle"}
    BY <2>1 DEF Over, AlbumColumn, Texts, Empty
  <2> QED
    BY <1>2, <2>2 DEF LineAt
<1>4. ASSUME ItemCredit(c, p) PROVE col = "author"
  <2>1. At(c, p).cols = [author |-> AuthorId(LineAt(c, p))]
    BY <1>4 DEF ItemCredit, Save
  <2> QED
    BY <1>2, <2>1
<1>5. /\ k[1] # "author" => k[2] = Work[c][p[1]].slug
      /\ k[1] = "album" => AlbumSave(c, p)
      /\ k[1] = "item" => ItemInsert(c, p) \/ ItemUpsert(c, p) \/ ItemCredit(c, p)
      /\ k[1] = "song" => SongSave(c, p)
  BY <1>2, SavedLines
<1>6. /\ SongSave(c, p) => p[2] = 7 /\ ItemLine(c, p[1])
      /\ AlbumSave(c, p) => p[2] = 2 /\ AlbumLine(c, p[1])
      /\ ItemInsert(c, p) => c = Bulk /\ p[2] = 2 /\ ItemLine(c, p[1])
      /\ ItemUpsert(c, p) => c # Bulk /\ p[2] = 2 /\ ItemLine(c, p[1])
      /\ ItemCredit(c, p) => c # Bulk /\ p[2] = 5 /\ ItemLine(c, p[1])
  BY DEF SongSave, AlbumSave, ItemInsert, ItemUpsert, ItemCredit
<1> QED
  BY <1>1, <1>3, <1>4, <1>5, <1>6

\* The line that lists an item last sets its song's artist and its author last.
LEMMA LastCredit ==
  ASSUME NEW c \in Commands, NEW m \in DOMAIN Work[c], ItemLine(c, m), NEW i, Work[c][m].slug = i,
         \A j \in DOMAIN Work[c] : ItemLine(c, j) /\ Work[c][j].slug = i => j <= m
  PROVE  /\ Work[c][m].kind = "song" =>
              /\ SetsLast(c, <<m, 7>>, <<"song", i>>, "artist")
              /\ At(c, <<m, 7>>).cols["artist"] = Work[c][m].subtitle
         /\ \E p \in Saves(c) : /\ SetsLast(c, p, <<"item", i>>, "author")
                                /\ At(c, p).cols["author"] = AuthorId(Work[c][m])
<1>0. m \in Nat /\ \A n \in {2, 5, 7} : LineAt(c, <<m, n>>) = Work[c][m]
  BY WorkLines DEF LineAt
<1>1. ASSUME NEW n \in {2, 5, 7}, NEW k, k[1] \in {"song", "item"}, k[2] = i, NEW col,
             Sets(c, <<m, n>>, k, col),
             \A q \in Saves(c) : Sets(c, q, k, col) => q[2] = n
      PROVE  SetsLast(c, <<m, n>>, k, col)
  <2>1. ASSUME NEW q \in Saves(c), Sets(c, q, k, col)
        PROVE  q = <<m, n>> \/ Precedes(q, <<m, n>>)
    <3>1. q = <<q[1], q[2]>> /\ q[2] = n /\ q[1] \in Nat /\ q[1] \in DOMAIN Work[c]
          /\ ItemLine(c, q[1]) /\ Work[c][q[1]].slug = i
      BY <1>1, <2>1, Setters
    <3>2. q[1] <= m
      BY <3>1
    <3> QED
      BY <1>0, <3>1, <3>2 DEF Precedes
  <2> QED
    BY <1>1, <2>1 DEF SetsLast
<1>2. ASSUME Work[c][m].kind = "song"
      PROVE  /\ SetsLast(c, <<m, 7>>, <<"song", i>>, "artist")
             /\ At(c, <<m, 7>>).cols["artist"] = Work[c][m].subtitle
  <2>1. <<m, 7>> \in Saves(c) /\ SongSave(c, <<m, 7>>)
    BY <1>2, SavesOfLines
  <2>2. At(c, <<m, 7>>).key = <<"song", i>> /\ At(c, <<m, 7>>).cols = [artist |-> Work[c][m].subtitle]
    BY <1>0, <2>1 DEF SongSave, SaveSong, Save
  <2>3. Sets(c, <<m, 7>>, <<"song", i>>, "artist")
    BY <2>1, <2>2 DEF Sets
  <2>4. \A q \in Saves(c) : Sets(c, q, <<"song", i>>, "artist") => q[2] = 7
    BY Setters
  <2> QED
    BY <1>1, <2>2, <2>3, <2>4
<1>3. \E p \in Saves(c) : /\ SetsLast(c, p, <<"item", i>>, "author")
                          /\ At(c, p).cols["author"] = AuthorId(Work[c][m])
  <2> DEFINE n == IF c = Bulk THEN 2 ELSE 5
  <2>1. <<m, n>> \in Saves(c) /\ (ItemInsert(c, <<m, n>>) \/ ItemCredit(c, <<m, n>>)) /\ n \in {2, 5, 7}
    <3>1. CASE c = Bulk
      <4>1. <<m, 2>> \in Saves(c) /\ (ItemInsert(c, <<m, 2>>) \/ ItemUpsert(c, <<m, 2>>))
        BY SavesOfLines
      <4>2. ~ItemUpsert(c, <<m, 2>>)
        BY <3>1 DEF ItemUpsert
      <4> QED
        BY <3>1, <4>1, <4>2
    <3>2. CASE c # Bulk
      BY <3>2, SavesOfLines
    <3> QED
      BY <3>1, <3>2
  <2>2. LineAt(c, <<m, n>>) = Work[c][m]
    BY <1>0, <2>1
  <2>3. /\ At(c, <<m, n>>).key = <<"item", i>> /\ "author" \in DOMAIN At(c, <<m, n>>).cols
        /\ At(c, <<m, n>>).cols["author"] = AuthorId(Work[c][m])
    <3> HIDE DEF n
    <3>1. CASE ItemInsert(c, <<m, n>>)
      BY <2>2, <3>1 DEF ItemInsert, Save
    <3>2. CASE ItemCredit(c, <<m, n>>)
      BY <2>2, <3>2 DEF ItemCredit, Save
    <3> QED
      BY <2>1, <3>1, <3>2
  <2>4. Sets(c, <<m, n>>, <<"item", i>>, "author")
    BY <2>1, <2>3 DEF Sets
  <2>5. \A q \in Saves(c) : Sets(c, q, <<"item", i>>, "author") => q[2] = n
    BY Setters
  <2> HIDE DEF n
  <2>6. SetsLast(c, <<m, n>>, <<"item", i>>, "author")
    BY <1>1, <2>1, <2>4, <2>5
  <2> QED
    BY <2>1, <2>3, <2>6
<1> QED
  BY <1>2, <1>3

-----------------------------------------------------------------------------
\* Steps of one run

\* What the invariant says of a run.
LEMMA OfRun ==
  ASSUME Inv, NEW r \in Runs, Running(r)
  PROVE  /\ run[r].command \in Commands /\ migrated /\ Transaction(r)
         /\ run[r] = [command |-> run[r].command, line |-> run[r].line, at |-> run[r].at,
                      seen |-> run[r].seen, wrote |-> run[r].wrote]
         /\ AtStep(r) => /\ Position(r) \in Statements(run[r].command)
                         /\ Step(r) = At(run[r].command, Position(r))
<1>1. run[r].command \in Commands /\ Transaction(r)
  BY DEF Inv, RunsAreRecords, Running
<1>2. migrated
  BY DEF Inv, Together
<1>3. run[r] = [command |-> run[r].command, line |-> run[r].line, at |-> run[r].at,
                seen |-> run[r].seen, wrote |-> run[r].wrote]
  BY DEF Inv, RunsAreRecords
<1>4. AtStep(r) => Position(r) \in Statements(run[r].command)
  BY <1>1 DEF AtStep, Transaction, InScript
<1>5. Step(r) = At(run[r].command, Position(r))
  BY DEF Step, At, Position
<1> QED
  BY <1>1, <1>2, <1>3, <1>4, <1>5

\* Where a run is when it has executed its statement.
LEMMA MovedOn ==
  ASSUME Inv, NEW r \in Runs, AtStep(r)
  PROVE  \E l, n :
            /\ Moved(r) = [command |-> run[r].command, line |-> l, at |-> n,
                           seen |-> run[r].seen, wrote |-> run[r].wrote]
            /\ l \in 1..(Len(Work[run[r].command]) + 1)
            /\ l \in DOMAIN Script[run[r].command] => <<l, n>> \in Statements(run[r].command)
            /\ \A q \in Statements(run[r].command) :
                  Precedes(q, <<l, n>>) <=> Precedes(q, Position(r)) \/ q = Position(r)
<1> DEFINE c == run[r].command
           p == Position(r)
           later == {n \in DOMAIN Script[c][p[1]] : n > p[2]}
           next == IF later = {} THEN <<p[1] + 1, First(c, p[1] + 1)>> ELSE <<p[1], Min(later)>>
<1>1. /\ c \in Commands /\ p \in Statements(c)
      /\ run[r] = [command |-> c, line |-> run[r].line, at |-> run[r].at,
                   seen |-> run[r].seen, wrote |-> run[r].wrote]
  BY OfRun DEF AtStep
<1>2. /\ next[1] \in 1..(Len(Work[c]) + 1)
      /\ next[1] \in DOMAIN Script[c] => next \in Statements(c)
      /\ \A q \in Statements(c) : Precedes(q, next) <=> Precedes(q, p) \/ q = p
  BY <1>1, Advance
<1>3. p[1] = run[r].line /\ p[2] = run[r].at
  BY DEF Position
<1>4. next = <<next[1], next[2]>>
  OBVIOUS
<1>5. Moved(r) = [command |-> c, line |-> next[1], at |-> next[2],
                  seen |-> run[r].seen, wrote |-> run[r].wrote]
  <2>1. Moved(r) = IF later = {} THEN [run[r] EXCEPT !.line = p[1] + 1, !.at = First(c, p[1] + 1)]
                   ELSE [run[r] EXCEPT !.at = Min(later)]
    BY <1>3 DEF Moved
  <2>2. CASE later = {}
    <3>1. next[1] = p[1] + 1 /\ next[2] = First(c, p[1] + 1)
      BY <2>2
    <3> HIDE DEF next, later, c
    <3> QED
      BY <1>1, <2>1, <2>2, <3>1 DEF c
  <2>3. CASE later # {}
    <3>1. next[1] = p[1] /\ next[2] = Min(later)
      BY <2>3
    <3> HIDE DEF next, later, c
    <3> QED
      BY <1>1, <1>3, <2>1, <2>3, <3>1 DEF c
  <2> QED
    BY <2>2, <2>3
<1> HIDE DEF next
<1> QED
  BY <1>2, <1>4, <1>5

\* The others are not disturbed by what a run does for itself.
LEMMA Unmoved ==
  ASSUME NEW s, Transaction(s), run'[s] = run[s], db' = db
  PROVE  Transaction(s)'
BY DEF Transaction, InScript, HoldsWhatItWrote, ColumnsComplete, WritesAreGood, LastIsDone, SeenIsFresh,
       Position, Past, Visible

\* A run that moves alone keeps the invariant if it is a transaction or has ended.
LEMMA OneMoves ==
  ASSUME Inv, NEW r \in Runs, NEW c \in Commands \cup {None}, NEW l, NEW n, NEW S, NEW W,
         run' = [run EXCEPT ![r] = [command |-> c, line |-> l, at |-> n, seen |-> S, wrote |-> W]],
         UNCHANGED <<db, migrated>>,
         c = None => run'[r] = Idle,
         c # None => migrated /\ Transaction(r)',
         c \in Versions => \A s \in Runs : s # r /\ run[s].command \in Versions => run[s].command = c,
         \A s \in Runs : s # r => DOMAIN W \cap DOMAIN run[s].wrote = {}
  PROVE  Inv'
<1>1. /\ run'[r] = [command |-> c, line |-> l, at |-> n, seen |-> S, wrote |-> W]
      /\ \A s \in Runs : s # r => run'[s] = run[s]
      /\ run' = [s \in Runs |-> run'[s]]
  BY DEF Inv, RunsAreRecords
<1>2. run'[r].command = c /\ run'[r].wrote = W
  BY <1>1
<1>3. \A s \in Runs : run'[s].command \in Commands \cup {None} /\ (run'[s] = Idle \/ Running(s)')
  BY <1>1, <1>2 DEF Inv, RunsAreRecords, Running
<1>4. DbInv'
  BY DEF Inv, DbInv
<1>5. RunsAreRecords'
  <2>1. \A s \in Runs : run'[s] = [command |-> run'[s].command, line |-> run'[s].line, at |-> run'[s].at,
                                   seen |-> run'[s].seen, wrote |-> run'[s].wrote]
    <3>1. run'[r] = [command |-> run'[r].command, line |-> run'[r].line, at |-> run'[r].at,
                     seen |-> run'[r].seen, wrote |-> run'[r].wrote]
      BY <1>1
    <3>2. \A s \in Runs : run[s] = [command |-> run[s].command, line |-> run[s].line, at |-> run[s].at,
                                    seen |-> run[s].seen, wrote |-> run[s].wrote]
      BY DEF Inv, RunsAreRecords
    <3> QED
      BY <1>1, <3>1, <3>2
  <2> QED
    BY <1>1, <1>3, <2>1 DEF RunsAreRecords
<1>6. Together'
  <2>1. ~migrated' => \A s \in Runs : ~Running(s)'
    BY <1>1, <1>2 DEF Inv, Together, Running
  <2>2. \A s, t \in Runs : run'[s].command \in Versions /\ run'[t].command \in Versions =>
           run'[s].command = run'[t].command
    BY <1>1, <1>2 DEF Inv, Together
  <2>3. \A s, t \in Runs : s # t => DOMAIN run'[s].wrote \cap DOMAIN run'[t].wrote = {}
    BY <1>1, <1>2 DEF Inv, Together
  <2> QED
    BY <2>1, <2>2, <2>3 DEF Together
<1>7. \A s \in Runs : Running(s)' => Transaction(s)'
  <2>1. Running(r)' => Transaction(r)'
    BY <1>2 DEF Running
  <2>2. ASSUME NEW s \in Runs, s # r, Running(s)' PROVE Transaction(s)'
    <3>1. Running(s) /\ Transaction(s) /\ run'[s] = run[s]
      BY <1>1, <2>2 DEF Inv, Running
    <3> QED
      BY <3>1, Unmoved
  <2> QED
    BY <2>1, <2>2
<1> QED
  BY <1>4, <1>5, <1>6, <1>7 DEF Inv

\* A row a run can see has all its columns, which it sees as it wrote them.
LEMMA VisibleRow ==
  ASSUME Inv, NEW r \in Runs, Running(r), NEW k
  PROVE  /\ k \in DOMAIN db \cup DOMAIN run[r].wrote =>
               IsKey(k) /\ DOMAIN Visible(r, k) = ColumnsOf(k[1])
         /\ k \in DOMAIN run[r].wrote => \A col \in DOMAIN run[r].wrote[k] :
               col \in ColumnsOf(k[1]) /\ Visible(r, k)[col] = run[r].wrote[k][col]
         /\ k \in DOMAIN run[r].wrote => \A col \in ColumnsOf(k[1]) \ DOMAIN run[r].wrote[k] :
               k \in DOMAIN db /\ Visible(r, k)[col] = db[k][col]
         /\ k \in DOMAIN db \ DOMAIN run[r].wrote => \A col \in ColumnsOf(k[1]) : Visible(r, k)[col] = db[k][col]
<1> DEFINE w == RowOf(run[r].wrote, k)
           d == RowOf(db, k)
<1>1. /\ k \in DOMAIN run[r].wrote => w = run[r].wrote[k]
      /\ k \notin DOMAIN run[r].wrote => DOMAIN w = {}
      /\ k \in DOMAIN db => d = db[k]
      /\ k \notin DOMAIN db => DOMAIN d = {}
  BY DEF RowOf, Empty
<1>2. /\ DOMAIN Visible(r, k) = DOMAIN w \cup DOMAIN d
      /\ \A col \in DOMAIN w : Visible(r, k)[col] = w[col]
      /\ \A col \in DOMAIN d \ DOMAIN w : Visible(r, k)[col] = d[col]
  BY OverValues DEF Visible
<1>3. k \in DOMAIN db => IsKey(k) /\ DOMAIN db[k] = ColumnsOf(k[1])
  BY DEF Inv, DbInv, RowsComplete
<1>4. /\ k \in DOMAIN run[r].wrote => IsKey(k) /\ DOMAIN run[r].wrote[k] \subseteq ColumnsOf(k[1])
      /\ k \in DOMAIN run[r].wrote \ DOMAIN db => DOMAIN run[r].wrote[k] = ColumnsOf(k[1])
  BY OfRun DEF Transaction, ColumnsComplete
<1> HIDE DEF w, d
<1>5. CASE k \in DOMAIN run[r].wrote /\ k \in DOMAIN db
  BY <1>1, <1>2, <1>3, <1>4, <1>5
<1>6. CASE k \in DOMAIN run[r].wrote /\ k \notin DOMAIN db
  BY <1>1, <1>2, <1>4, <1>6
<1>7. CASE k \notin DOMAIN run[r].wrote /\ k \in DOMAIN db
  BY <1>1, <1>2, <1>3, <1>7
<1> QED
  BY <1>5, <1>6, <1>7

\* What was saved before is there.
LEMMA SavedSeen ==
  ASSUME Inv, NEW r \in Runs, AtStep(r), NEW k, SavedBefore(run[r].command, Position(r), k)
  PROVE  k \in DOMAIN run[r].seen /\ k \in DOMAIN db \cup DOMAIN run[r].wrote
<1>1. HoldsWhatItWrote(r)
  BY OfRun DEF AtStep, Transaction
<1>2. PICK q \in Saves(run[r].command) : Precedes(q, Position(r)) /\ At(run[r].command, q).key = k
  BY DEF SavedBefore
<1>3. q \in Past(r)
  BY <1>2 DEF Past
<1> QED
  BY <1>1, <1>2, <1>3 DEF HoldsWhatItWrote

\* What a save changes: everything of a new row, else what it sets and is not so.
LEMMA ChangeOf ==
  ASSUME Inv, NEW r \in Runs, AtStep(r), Step(r).op = "save"
  PROVE  LET s == Step(r)
             k == s.key
         IN  /\ IsKey(k) /\ Position(r) \in Saves(run[r].command)
             /\ DOMAIN s.cols \subseteq ColumnsOf(k[1]) /\ DOMAIN Change(r) \subseteq ColumnsOf(k[1])
             /\ k \notin DOMAIN run[r].seen => DOMAIN Change(r) = ColumnsOf(k[1]) /\ DOMAIN s.cols \subseteq DOMAIN Change(r)
             /\ k \in DOMAIN run[r].seen => /\ DOMAIN Change(r) \subseteq DOMAIN s.cols
                                            /\ \A col \in DOMAIN s.cols \ DOMAIN Change(r) :
                                                  run[r].seen[k][col] = s.cols[col]
             /\ \A col \in DOMAIN s.cols \cap DOMAIN Change(r) : Change(r)[col] = s.cols[col]
             /\ \A col \in DOMAIN Change(r) :
                   /\ Fits(k, col, Change(r)[col])
                   /\ Refers(col, Change(r)[col]) \subseteq DOMAIN db \cup DOMAIN run[r].wrote
<1> DEFINE s == Step(r)
           k == s.key
           all == Over(s.cols, s.fresh)
           c == run[r].command
           p == Position(r)
<1>1. c \in Commands /\ p \in Saves(c) /\ s = At(c, p)
  BY OfRun DEF AtStep, Saves
<1>2. /\ IsKey(k)
      /\ DOMAIN s.cols \subseteq ColumnsOf(k[1])
      /\ DOMAIN all \subseteq ColumnsOf(k[1])
      /\ DOMAIN all = ColumnsOf(k[1]) \/ SavedBefore(c, p, k)
      /\ \A col \in DOMAIN all :
            /\ Fits(k, col, all[col])
            /\ \A ref \in Refers(col, all[col]) : SavedBefore(c, p, ref)
  BY <1>1, SaveFacts
<1>3. DOMAIN s.cols \subseteq DOMAIN all /\ \A col \in DOMAIN s.cols : all[col] = s.cols[col]
  <2>1. DOMAIN all = DOMAIN s.cols \cup DOMAIN s.fresh /\ \A col \in DOMAIN s.cols : all[col] = s.cols[col]
    BY OverValues
  <2> QED
    BY <2>1
<1>4. \A ref : SavedBefore(c, p, ref) => ref \in DOMAIN run[r].seen /\ ref \in DOMAIN db \cup DOMAIN run[r].wrote
  BY SavedSeen
<1> HIDE DEF all
<1>5. CASE k \notin DOMAIN run[r].seen
  <2>1. Change(r) = all
    BY <1>5 DEF Change, all
  <2>2. DOMAIN all = ColumnsOf(k[1])
    BY <1>2, <1>4, <1>5
  <2> HIDE DEF s, c, p
  <2>3. \A col \in DOMAIN all : Refers(col, all[col]) \subseteq DOMAIN db \cup DOMAIN run[r].wrote
    BY <1>2, <1>4
  <2> QED
    BY <1>1, <1>2, <1>3, <1>5, <2>1, <2>2, <2>3 DEF s, c, p
<1>6. CASE k \in DOMAIN run[r].seen
  <2> DEFINE differs == {col \in DOMAIN s.cols : s.cols[col] # run[r].seen[k][col]}
  <2>1. Change(r) = [col \in differs |-> s.cols[col]]
    BY <1>6 DEF Change, Restrict
  <2>2. DOMAIN Change(r) = differs /\ \A col \in differs : Change(r)[col] = s.cols[col] /\ s.cols[col] = all[col]
    BY <1>3, <2>1
  <2>3. /\ DOMAIN Change(r) \subseteq DOMAIN s.cols
        /\ \A col \in DOMAIN s.cols \ DOMAIN Change(r) : run[r].seen[k][col] = s.cols[col]
    BY <2>2
  <2>4. \A col \in DOMAIN all : Refers(col, all[col]) \subseteq DOMAIN db \cup DOMAIN run[r].wrote
    <3> HIDE DEF s, c, p
    <3> QED
      BY <1>2, <1>4
  <2> HIDE DEF differs, s, c, p
  <2>5. \A col \in DOMAIN Change(r) : col \in DOMAIN all /\ Change(r)[col] = all[col]
    BY <1>3, <2>2, <2>3
  <2> QED
    BY <1>1, <1>2, <1>6, <2>2, <2>3, <2>4, <2>5 DEF s, c, p
<1> QED
  BY <1>5, <1>6

\* What a flush leaves behind.
Flushed(r, l, n, S, W) ==
    LET k == Step(r).key
        changed == DOMAIN Change(r)
        seen == run[r].seen
        wrote == run[r].wrote
    IN  /\ DOMAIN S = DOMAIN seen \cup {k}
        /\ \A x \in DOMAIN seen : x # k => S[x] = seen[x]
        /\ DOMAIN S[k] = changed \cup (IF k \in DOMAIN seen THEN DOMAIN seen[k] ELSE {})
        /\ \A col \in changed : S[k][col] = Change(r)[col]
        /\ k \in DOMAIN seen => \A col \in DOMAIN seen[k] \ changed : S[k][col] = seen[k][col]
        /\ DOMAIN W = DOMAIN wrote \cup (IF changed = {} THEN {} ELSE {k})
        /\ \A x \in DOMAIN wrote : x # k => W[x] = wrote[x]
        /\ changed # {} => DOMAIN W[k] = changed \cup (IF k \in DOMAIN wrote THEN DOMAIN wrote[k] ELSE {})
        /\ changed = {} /\ k \in DOMAIN wrote => W[k] = wrote[k]
        /\ \A col \in changed : W[k][col] = Change(r)[col]
        /\ k \in DOMAIN wrote => \A col \in DOMAIN wrote[k] \ changed : W[k][col] = wrote[k][col]

\* A run at the statement after its own, ...
MovesOn(r, l, n, S, W) ==
    /\ run' = [run EXCEPT ![r] = [command |-> run[r].command, line |-> l, at |-> n, seen |-> S, wrote |-> W]]
    /\ run'[r] = [command |-> run[r].command, line |-> l, at |-> n, seen |-> S, wrote |-> W]
    /\ l \in 1..(Len(Work[run[r].command]) + 1)
    /\ l \in DOMAIN Script[run[r].command] => <<l, n>> \in Statements(run[r].command)
    /\ \A q \in Statements(run[r].command) :
          Precedes(q, <<l, n>>) <=> Precedes(q, Position(r)) \/ q = Position(r)

\* ... which has seen and written more.
LEMMA MovesWith ==
  ASSUME Inv, NEW r \in Runs, AtStep(r), NEW S, NEW W,
         run' = [run EXCEPT ![r] = [Moved(r) EXCEPT !.seen = S, !.wrote = W]]
  PROVE  \E l, n : MovesOn(r, l, n, S, W)
<1>1. PICK l, n :
            /\ Moved(r) = [command |-> run[r].command, line |-> l, at |-> n,
                           seen |-> run[r].seen, wrote |-> run[r].wrote]
            /\ l \in 1..(Len(Work[run[r].command]) + 1)
            /\ l \in DOMAIN Script[run[r].command] => <<l, n>> \in Statements(run[r].command)
            /\ \A q \in Statements(run[r].command) :
                  Precedes(q, <<l, n>>) <=> Precedes(q, Position(r)) \/ q = Position(r)
  BY MovedOn
<1> DEFINE t == [command |-> run[r].command, line |-> l, at |-> n, seen |-> S, wrote |-> W]
<1>2. run' = [run EXCEPT ![r] = t]
  <2>1. [Moved(r) EXCEPT !.seen = S]
          = [command |-> run[r].command, line |-> l, at |-> n, seen |-> S, wrote |-> run[r].wrote]
    BY <1>1
  <2>2. [[command |-> run[r].command, line |-> l, at |-> n, seen |-> S, wrote |-> run[r].wrote]
           EXCEPT !.wrote = W] = t
    OBVIOUS
  <2>3. [Moved(r) EXCEPT !.seen = S, !.wrote = W] = [[Moved(r) EXCEPT !.seen = S] EXCEPT !.wrote = W]
    OBVIOUS
  <2>4. [Moved(r) EXCEPT !.seen = S, !.wrote = W] = t
    BY <2>1, <2>2, <2>3
  <2> QED
    BY <2>4
<1>3. run'[r] = t
  <2> HIDE DEF t
  <2> QED
    BY <1>2 DEF Inv, RunsAreRecords
<1> QED
  BY <1>1, <1>2, <1>3 DEF MovesOn

\* A flush does that.
LEMMA FlushEffect ==
  ASSUME Inv, NEW r \in Runs, Flush(r)
  PROVE  \E l, n, S, W : MovesOn(r, l, n, S, W) /\ Flushed(r, l, n, S, W)
<1> DEFINE k == Step(r).key
           ch == Change(r)
           seen == run[r].seen
           wrote == run[r].wrote
           S == SetCols(seen, k, ch)
           W == IF ch = Empty THEN wrote ELSE SetCols(wrote, k, ch)
<1>1. AtStep(r) /\ Step(r).op = "save"
  BY DEF Flush
<1>2. PICK l, n : MovesOn(r, l, n, S, W)
  <2>1. run' = [run EXCEPT ![r] = [Moved(r) EXCEPT !.seen = S, !.wrote = W]]
    BY DEF Flush
  <2> HIDE DEF S, W
  <2> QED
    BY <1>1, <2>1, MovesWith
<1>5. ASSUME NEW rows
      PROVE  LET T == SetCols(rows, k, ch) IN
             /\ DOMAIN T = DOMAIN rows \cup {k}
             /\ \A x \in DOMAIN rows : x # k => T[x] = rows[x]
             /\ DOMAIN T[k] = DOMAIN ch \cup (IF k \in DOMAIN rows THEN DOMAIN rows[k] ELSE {})
             /\ \A col \in DOMAIN ch : T[k][col] = ch[col]
             /\ k \in DOMAIN rows => \A col \in DOMAIN rows[k] \ DOMAIN ch : T[k][col] = rows[k][col]
  <2> DEFINE T == SetCols(rows, k, ch)
             row == RowOf(rows, k)
  <2>1. T = [x \in DOMAIN rows \cup {k} |-> IF x = k THEN Over(ch, row) ELSE rows[x]]
    BY DEF SetCols, SetRow
  <2>2. /\ DOMAIN Over(ch, row) = DOMAIN ch \cup DOMAIN row
        /\ \A col \in DOMAIN ch : Over(ch, row)[col] = ch[col]
        /\ \A col \in DOMAIN row \ DOMAIN ch : Over(ch, row)[col] = row[col]
    BY OverValues
  <2>3. /\ k \in DOMAIN rows => row = rows[k]
        /\ k \notin DOMAIN rows => DOMAIN row = {}
    BY DEF RowOf, Empty
  <2> HIDE DEF T, row, k, ch
  <2>4. /\ DOMAIN T = DOMAIN rows \cup {k}
        /\ \A x \in DOMAIN rows : x # k => T[x] = rows[x]
        /\ T[k] = Over(ch, row)
    BY <2>1
  <2>5. DOMAIN row = IF k \in DOMAIN rows THEN DOMAIN rows[k] ELSE {}
    BY <2>3
  <2> QED
    BY <2>2, <2>3, <2>4, <2>5 DEF T
<1>6. ch = Empty <=> DOMAIN ch = {}
  <2>1. ch = Over(Step(r).cols, Step(r).fresh)
        \/ ch = [x \in {col \in DOMAIN Step(r).cols : Step(r).cols[col] # seen[k][col]} |-> Step(r).cols[x]]
    BY DEF Change, Restrict
  <2>2. ch = [x \in DOMAIN ch |-> ch[x]]
    BY <2>1 DEF Over
  <2> HIDE DEF ch
  <2> QED
    BY <2>2 DEF Empty
<1>7. /\ DOMAIN ch = {} => W = wrote
      /\ DOMAIN ch # {} => W = SetCols(wrote, k, ch)
  BY <1>6
<1> DEFINE Rest(V) ==
               /\ DOMAIN V = DOMAIN wrote \cup (IF DOMAIN ch = {} THEN {} ELSE {k})
               /\ \A x \in DOMAIN wrote : x # k => V[x] = wrote[x]
               /\ DOMAIN ch # {} => DOMAIN V[k] = DOMAIN ch \cup (IF k \in DOMAIN wrote THEN DOMAIN wrote[k] ELSE {})
               /\ DOMAIN ch = {} /\ k \in DOMAIN wrote => V[k] = wrote[k]
               /\ \A col \in DOMAIN ch : V[k][col] = ch[col]
               /\ k \in DOMAIN wrote => \A col \in DOMAIN wrote[k] \ DOMAIN ch : V[k][col] = wrote[k][col]
<1>8. Rest(W)
  <2>1. CASE DOMAIN ch = {}
    <3>1. W = wrote
      BY <1>7, <2>1
    <3> HIDE DEF W, ch, wrote, k
    <3> QED
      BY <2>1, <3>1
  <2>2. CASE DOMAIN ch # {}
    <3> DEFINE T == SetCols(wrote, k, ch)
    <3>1. W = T
      BY <1>7, <2>2
    <3>2. /\ DOMAIN T = DOMAIN wrote \cup {k}
          /\ \A x \in DOMAIN wrote : x # k => T[x] = wrote[x]
          /\ DOMAIN T[k] = DOMAIN ch \cup (IF k \in DOMAIN wrote THEN DOMAIN wrote[k] ELSE {})
          /\ \A col \in DOMAIN ch : T[k][col] = ch[col]
          /\ k \in DOMAIN wrote => \A col \in DOMAIN wrote[k] \ DOMAIN ch : T[k][col] = wrote[k][col]
      BY <1>5
    <3> HIDE DEF W, ch, wrote, k, T
    <3> QED
      BY <2>2, <3>1, <3>2
  <2> QED
    BY <2>1, <2>2
<1>9. /\ DOMAIN S = DOMAIN seen \cup {k}
      /\ \A x \in DOMAIN seen : x # k => S[x] = seen[x]
      /\ DOMAIN S[k] = DOMAIN ch \cup (IF k \in DOMAIN seen THEN DOMAIN seen[k] ELSE {})
      /\ \A col \in DOMAIN ch : S[k][col] = ch[col]
      /\ k \in DOMAIN seen => \A col \in DOMAIN seen[k] \ DOMAIN ch : S[k][col] = seen[k][col]
  BY <1>5
<1> HIDE DEF S, W
<1>10. Flushed(r, l, n, S, W)
  BY <1>8, <1>9 DEF Flushed
<1> QED
  BY <1>2, <1>10

\* Its row shows what it changed, and nothing else has changed.
LEMMA FlushShows ==
  ASSUME Inv, NEW r \in Runs, Flush(r), NEW l, NEW n, NEW S, NEW W,
         MovesOn(r, l, n, S, W), Flushed(r, l, n, S, W), NEW k, k = Step(r).key
  PROVE  /\ \A x : x # k => Visible(r, x)' = Visible(r, x)
         /\ \A col \in DOMAIN Change(r) : Visible(r, k)'[col] = Change(r)[col]
         /\ k \in DOMAIN run[r].seen => \A col \in ColumnsOf(k[1]) \ DOMAIN Change(r) :
               Visible(r, k)'[col] = Visible(r, k)[col]
<1> DEFINE ch == Change(r)
           seen == run[r].seen
           wrote == run[r].wrote
<1>1. \A x : Visible(r, x)' = Over(RowOf(W, x), RowOf(db, x))
  <2>1. run'[r].wrote = W
    BY DEF MovesOn
  <2>2. db' = db
    BY DEF Flush
  <2> QED
    BY <2>1, <2>2 DEF Visible, RowOf
<1>2. /\ DOMAIN W = DOMAIN wrote \cup (IF DOMAIN ch = {} THEN {} ELSE {k})
      /\ \A x \in DOMAIN wrote : x # k => W[x] = wrote[x]
      /\ DOMAIN ch # {} => DOMAIN W[k] = DOMAIN ch \cup (IF k \in DOMAIN wrote THEN DOMAIN wrote[k] ELSE {})
      /\ DOMAIN ch = {} /\ k \in DOMAIN wrote => W[k] = wrote[k]
      /\ \A col \in DOMAIN ch : W[k][col] = ch[col]
      /\ k \in DOMAIN wrote => \A col \in DOMAIN wrote[k] \ DOMAIN ch : W[k][col] = wrote[k][col]
  BY DEF Flushed
<1>3. ASSUME NEW x, x # k PROVE Visible(r, x)' = Visible(r, x)
  <2>1. RowOf(W, x) = RowOf(wrote, x)
    <3> HIDE DEF ch, wrote
    <3> QED
      BY <1>2, <1>3 DEF RowOf
  <2> QED
    BY <1>1, <2>1 DEF Visible
<1>4. /\ DOMAIN ch = {} => RowOf(W, k) = RowOf(wrote, k)
      /\ DOMAIN ch # {} => RowOf(W, k) = W[k]
  <2> HIDE DEF ch, wrote
  <2> QED
    BY <1>2 DEF RowOf
<1>5. \A f : /\ \A col \in DOMAIN f : Over(f, RowOf(db, k))[col] = f[col]
             /\ \A col \in DOMAIN RowOf(db, k) \ DOMAIN f : Over(f, RowOf(db, k))[col] = RowOf(db, k)[col]
  BY OverValues
<1>6. ASSUME NEW col \in DOMAIN ch PROVE Visible(r, k)'[col] = ch[col]
  <2>1. RowOf(W, k) = W[k] /\ col \in DOMAIN W[k] /\ W[k][col] = ch[col]
    <3> HIDE DEF ch, wrote
    <3> QED
      BY <1>2, <1>4, <1>6
  <2> QED
    BY <1>1, <1>5, <2>1
<1>7. ASSUME k \in DOMAIN seen, NEW col \in ColumnsOf(k[1]) \ DOMAIN ch
      PROVE  Visible(r, k)'[col] = Visible(r, k)[col]
  <2>1. CASE DOMAIN ch = {}
    BY <1>1, <1>4, <2>1 DEF Visible
  <2>2. CASE DOMAIN ch # {}
    <3>1. RowOf(W, k) = W[k]
      BY <1>4, <2>2
    <3>2. Visible(r, k)' = Over(W[k], RowOf(db, k))
      BY <1>1, <3>1
    <3>3. AtStep(r) /\ Running(r) /\ HoldsWhatItWrote(r)
      BY OfRun DEF Flush, AtStep, Transaction
    <3>4. CASE k \in DOMAIN wrote /\ col \in DOMAIN wrote[k]
      <4>1. Visible(r, k)[col] = wrote[k][col]
        BY <3>3, <3>4, VisibleRow
      <4>2. col \in DOMAIN W[k] /\ W[k][col] = wrote[k][col]
        <5> HIDE DEF ch, wrote
        <5> QED
          BY <1>2, <1>7, <2>2, <3>4
      <4> QED
        BY <1>5, <3>2, <4>1, <4>2
    <3>5. CASE ~(k \in DOMAIN wrote /\ col \in DOMAIN wrote[k])
      <4>1. k \in DOMAIN db /\ Visible(r, k)[col] = db[k][col]
        <5>1. k \in DOMAIN db \cup DOMAIN wrote
          BY <1>7, <3>3 DEF HoldsWhatItWrote
        <5> QED
          BY <1>7, <3>3, <3>5, <5>1, VisibleRow
      <4>2. RowOf(db, k) = db[k] /\ DOMAIN db[k] = ColumnsOf(k[1])
        BY <4>1 DEF RowOf, Inv, DbInv, RowsComplete
      <4>3. col \notin DOMAIN W[k]
        <5> HIDE DEF ch, wrote
        <5> QED
          BY <1>2, <1>7, <2>2, <3>5
      <4>4. Over(W[k], RowOf(db, k))[col] = RowOf(db, k)[col]
        BY <1>5, <1>7, <4>2, <4>3
      <4> QED
        BY <3>2, <4>1, <4>2, <4>4
    <3> QED
      BY <3>4, <3>5
  <2> QED
    BY <2>1, <2>2
<1> QED
  BY <1>3, <1>6, <1>7

\* A flush keeps the transaction's own invariant, ...
LEMMA FlushKeeps ==
  ASSUME Inv, NEW r \in Runs, Flush(r), NEW l, NEW n, NEW S, NEW W,
         MovesOn(r, l, n, S, W), Flushed(r, l, n, S, W)
  PROVE  Transaction(r)'
<1> DEFINE c == run[r].command
           p == Position(r)
           s == Step(r)
           ch == Change(r)
           seen == run[r].seen
           wrote == run[r].wrote
<1>1. PICK k : k = s.key
  OBVIOUS
<1>2. /\ AtStep(r) /\ s.op = "save" /\ Running(r) /\ c \in Commands /\ Transaction(r)
      /\ s = At(c, p) /\ p \in Statements(c)
      /\ db' = db /\ (k \in DOMAIN db => k \in DOMAIN seen)
  <2>1. AtStep(r) /\ s.op = "save" /\ db' = db /\ (k \in DOMAIN db => k \in DOMAIN seen)
    BY <1>1 DEF Flush
  <2> QED
    BY <2>1, OfRun DEF AtStep
<1>3. /\ IsKey(k) /\ p \in Saves(c)
      /\ DOMAIN s.cols \subseteq ColumnsOf(k[1]) /\ DOMAIN ch \subseteq ColumnsOf(k[1])
      /\ k \notin DOMAIN seen => DOMAIN ch = ColumnsOf(k[1]) /\ DOMAIN s.cols \subseteq DOMAIN ch
      /\ k \in DOMAIN seen => /\ DOMAIN ch \subseteq DOMAIN s.cols
                              /\ \A col \in DOMAIN s.cols \ DOMAIN ch : seen[k][col] = s.cols[col]
      /\ \A col \in DOMAIN s.cols \cap DOMAIN ch : ch[col] = s.cols[col]
      /\ \A col \in DOMAIN ch :
            /\ Fits(k, col, ch[col])
            /\ Refers(col, ch[col]) \subseteq DOMAIN db \cup DOMAIN wrote
  BY <1>1, <1>2, ChangeOf
<1>4. /\ run'[r].command = c /\ run'[r].line = l /\ run'[r].at = n
      /\ run'[r].seen = S /\ run'[r].wrote = W /\ Position(r)' = <<l, n>>
  BY DEF MovesOn, Position
<1>5. /\ \A q \in Saves(c) : Precedes(q, <<l, n>>) <=> Precedes(q, p) \/ q = p
      /\ Past(r)' = {q \in Saves(c) : Precedes(q, <<l, n>>)}
      /\ Past(r) = {q \in Saves(c) : Precedes(q, p)}
      /\ p \in Past(r)' /\ \A q \in Past(r)' : q \in Past(r) \/ q = p
      /\ Past(r) \subseteq Past(r)'
  <2>1. \A q \in Saves(c) : Precedes(q, <<l, n>>) <=> Precedes(q, p) \/ q = p
    BY DEF MovesOn, Saves
  <2>2. Past(r)' = {q \in Saves(c) : Precedes(q, <<l, n>>)}
    BY <1>4 DEF Past
  <2>3. Past(r) = {q \in Saves(c) : Precedes(q, p)}
    BY DEF Past
  <2> QED
    BY <1>3, <2>1, <2>2, <2>3
<1>6. /\ DOMAIN S = DOMAIN seen \cup {k}
      /\ \A x \in DOMAIN seen : x # k => S[x] = seen[x]
      /\ DOMAIN S[k] = DOMAIN ch \cup (IF k \in DOMAIN seen THEN DOMAIN seen[k] ELSE {})
      /\ \A col \in DOMAIN ch : S[k][col] = ch[col]
      /\ k \in DOMAIN seen => \A col \in DOMAIN seen[k] \ DOMAIN ch : S[k][col] = seen[k][col]
      /\ DOMAIN W = DOMAIN wrote \cup (IF DOMAIN ch = {} THEN {} ELSE {k})
      /\ \A x \in DOMAIN wrote : x # k => W[x] = wrote[x]
      /\ DOMAIN ch # {} => DOMAIN W[k] = DOMAIN ch \cup (IF k \in DOMAIN wrote THEN DOMAIN wrote[k] ELSE {})
      /\ DOMAIN ch = {} /\ k \in DOMAIN wrote => W[k] = wrote[k]
      /\ \A col \in DOMAIN ch : W[k][col] = ch[col]
      /\ k \in DOMAIN wrote => \A col \in DOMAIN wrote[k] \ DOMAIN ch : W[k][col] = wrote[k][col]
  BY <1>1 DEF Flushed
<1>7. /\ \A x : x # k => Visible(r, x)' = Visible(r, x)
      /\ \A col \in DOMAIN ch : Visible(r, k)'[col] = ch[col]
      /\ k \in DOMAIN seen => \A col \in ColumnsOf(k[1]) \ DOMAIN ch :
            Visible(r, k)'[col] = Visible(r, k)[col]
  BY <1>1, FlushShows
<1>8. /\ DOMAIN wrote \subseteq DOMAIN seen
      /\ DOMAIN seen \subseteq DOMAIN db \cup DOMAIN wrote
      /\ \A x \in DOMAIN wrote : \E q \in Past(r) : At(c, q).key = x
      /\ \A q \in Past(r) : At(c, q).key \in DOMAIN seen
  BY <1>2 DEF Transaction, HoldsWhatItWrote
<1>9. /\ \A x \in DOMAIN seen : IsKey(x) /\ DOMAIN seen[x] = ColumnsOf(x[1])
      /\ \A x \in DOMAIN wrote : IsKey(x) /\ DOMAIN wrote[x] \subseteq ColumnsOf(x[1])
      /\ \A x \in DOMAIN wrote \ DOMAIN db : DOMAIN wrote[x] = ColumnsOf(x[1])
  BY <1>2 DEF Transaction, ColumnsComplete
<1>10. ColumnsOf(k[1]) # {}
  BY <1>3 DEF IsKey, Tables, ColumnsOf
<1> HIDE DEF c, p, s, ch, seen, wrote
<1>11. InScript(r)'
  BY <1>4 DEF InScript, MovesOn, c
<1>12. HoldsWhatItWrote(r)'
  <2>1. DOMAIN W \subseteq DOMAIN S
    BY <1>6, <1>8
  <2>2. DOMAIN S \subseteq DOMAIN db \cup DOMAIN W
    <3>1. k \in DOMAIN db \cup DOMAIN W
      BY <1>3, <1>6, <1>8, <1>10
    <3> QED
      BY <1>6, <1>8, <3>1
  <2>3. \A x \in DOMAIN W : \E q \in Past(r)' : At(c, q).key = x
    <3>1. At(c, p).key = k
      BY <1>1, <1>2
    <3> QED
      BY <1>5, <1>6, <1>8, <3>1
  <2>4. \A q \in Past(r)' : At(c, q).key \in DOMAIN S
    BY <1>1, <1>2, <1>5, <1>6, <1>8
  <2> QED
    BY <1>2, <1>4, <2>1, <2>2, <2>3, <2>4 DEF HoldsWhatItWrote
<1>13. DOMAIN S[k] = ColumnsOf(k[1])
  BY <1>3, <1>6, <1>9
<1>14. ColumnsComplete(r)'
  <2>1. \A x \in DOMAIN S : IsKey(x) /\ DOMAIN S[x] = ColumnsOf(x[1])
    BY <1>3, <1>6, <1>9, <1>13
  <2>2. \A x \in DOMAIN W : IsKey(x) /\ DOMAIN W[x] \subseteq ColumnsOf(x[1])
    BY <1>3, <1>6, <1>9
  <2>3. \A x \in DOMAIN W \ DOMAIN db : DOMAIN W[x] = ColumnsOf(x[1])
    <3>1. ASSUME NEW x \in DOMAIN W \ DOMAIN db, x # k PROVE DOMAIN W[x] = ColumnsOf(x[1])
      BY <1>6, <1>9, <3>1
    <3>2. ASSUME k \in DOMAIN W \ DOMAIN db PROVE DOMAIN W[k] = ColumnsOf(k[1])
      <4>1. CASE k \in DOMAIN wrote
        BY <1>3, <1>6, <1>9, <3>2, <4>1
      <4>2. CASE k \notin DOMAIN wrote
        BY <1>3, <1>6, <1>8, <3>2, <4>2
      <4> QED
        BY <4>1, <4>2
    <3> QED
      BY <3>1, <3>2
  <2> QED
    BY <1>2, <1>4, <2>1, <2>2, <2>3 DEF ColumnsComplete
<1>15. WritesAreGood(r)'
  <2>0. \A x \in DOMAIN wrote : \A col \in DOMAIN wrote[x] :
           /\ Fits(x, col, wrote[x][col])
           /\ Refers(col, wrote[x][col]) \subseteq DOMAIN db \cup DOMAIN wrote
    BY <1>2 DEF Transaction, WritesAreGood, wrote
  <2>1. ASSUME NEW x \in DOMAIN W, NEW col \in DOMAIN W[x]
        PROVE  /\ Fits(x, col, W[x][col])
               /\ Refers(col, W[x][col]) \subseteq DOMAIN db \cup DOMAIN W
    <3>1. \/ x \in DOMAIN wrote /\ col \in DOMAIN wrote[x] /\ W[x][col] = wrote[x][col]
          \/ x = k /\ col \in DOMAIN ch /\ W[x][col] = ch[col]
      BY <1>6, <2>1
    <3>2. DOMAIN wrote \subseteq DOMAIN W
      BY <1>6
    <3>3. CASE x \in DOMAIN wrote /\ col \in DOMAIN wrote[x] /\ W[x][col] = wrote[x][col]
      BY <2>0, <3>2, <3>3
    <3>4. CASE x = k /\ col \in DOMAIN ch /\ W[x][col] = ch[col]
      BY <1>3, <3>2, <3>4
    <3> QED
      BY <3>1, <3>3, <3>4
  <2> QED
    BY <1>2, <1>4, <2>1 DEF WritesAreGood
<1>16. SeenIsFresh(r)'
  <2>0. \A q \in Saves(c) : \A x \in DOMAIN seen : \A col \in DOMAIN seen[x] :
           /\ x[1] # "author" /\ SetsLast(c, q, x, col)
           /\ seen[x][col] = At(c, q).cols[col]
           => Visible(r, x)[col] = At(c, q).cols[col]
    BY <1>2 DEF Transaction, SeenIsFresh, c, seen
  <2>1. ASSUME NEW q \in Saves(c), NEW x \in DOMAIN S, NEW col \in DOMAIN S[x],
               x[1] # "author", SetsLast(c, q, x, col), S[x][col] = At(c, q).cols[col]
        PROVE  Visible(r, x)'[col] = At(c, q).cols[col]
    <3>1. CASE x # k
      <4>1. x \in DOMAIN seen /\ S[x] = seen[x]
        BY <1>6, <3>1
      <4>2. Visible(r, x)' = Visible(r, x)
        BY <1>7, <3>1
      <4>3. Visible(r, x)[col] = At(c, q).cols[col]
        BY <2>0, <2>1, <4>1
      <4> QED
        BY <4>2, <4>3
    <3>2. CASE x = k /\ col \in DOMAIN ch
      <4>1. Visible(r, x)'[col] = ch[col] /\ S[x][col] = ch[col]
        BY <1>6, <1>7, <3>2
      <4> QED
        BY <2>1, <4>1
    <3>3. CASE x = k /\ col \notin DOMAIN ch
      <4>1. k \in DOMAIN seen /\ col \in DOMAIN seen[k] /\ S[x][col] = seen[x][col] /\ col \in ColumnsOf(k[1])
        BY <1>6, <1>9, <2>1, <3>3
      <4>2. Visible(r, x)'[col] = Visible(r, x)[col]
        BY <1>7, <3>3, <4>1
      <4>3. Visible(r, x)[col] = At(c, q).cols[col]
        BY <2>0, <2>1, <3>3, <4>1
      <4> QED
        BY <4>2, <4>3
    <3> QED
      BY <3>1, <3>2, <3>3
  <2> QED
    BY <1>4, <2>1 DEF SeenIsFresh
<1>17. LastIsDone(r)'
  <2>0. /\ \A q \in Past(r) : \A x \in DOMAIN seen : \A col \in DOMAIN seen[x] :
              x[1] # "author" /\ SetsLast(c, q, x, col) => Visible(r, x)[col] = At(c, q).cols[col]
        /\ \A q \in Saves(c) : \A x \in DOMAIN seen : \A col \in DOMAIN seen[x] :
              /\ x[1] # "author" /\ SetsLast(c, q, x, col)
              /\ seen[x][col] = At(c, q).cols[col]
              => Visible(r, x)[col] = At(c, q).cols[col]
    BY <1>2 DEF Transaction, LastIsDone, SeenIsFresh, c, seen
  <2>1. ASSUME NEW q \in Past(r)', NEW x \in DOMAIN S, NEW col \in DOMAIN S[x],
               x[1] # "author", SetsLast(c, q, x, col)
        PROVE  Visible(r, x)'[col] = At(c, q).cols[col]
    <3>0. q \in Saves(c) /\ At(c, q).key = x /\ col \in DOMAIN At(c, q).cols
      BY <2>1 DEF SetsLast, Sets
    <3>1. CASE x # k
      <4>1. x \in DOMAIN seen /\ S[x] = seen[x]
        BY <1>6, <3>1
      <4>2. Visible(r, x)' = Visible(r, x)
        BY <1>7, <3>1
      <4>3. q \in Past(r)
        BY <1>1, <1>2, <1>5, <3>0, <3>1
      <4>4. Visible(r, x)[col] = At(c, q).cols[col]
        BY <2>0, <2>1, <4>1, <4>3
      <4> QED
        BY <4>2, <4>4
    <3>2. CASE x = k /\ q = p /\ col \in DOMAIN ch
      <4>1. Visible(r, x)'[col] = ch[col] /\ ch[col] = s.cols[col]
        BY <1>2, <1>3, <1>7, <3>0, <3>2
      <4> QED
        BY <1>2, <3>2, <4>1
    <3>3. CASE x = k /\ q = p /\ col \notin DOMAIN ch
      <4>1. k \in DOMAIN seen /\ col \in DOMAIN seen[k] /\ col \in ColumnsOf(k[1])
        BY <1>6, <1>9, <2>1, <3>3
      <4>2. seen[k][col] = s.cols[col]
        BY <1>2, <1>3, <3>0, <3>3, <4>1
      <4>3. Visible(r, k)[col] = s.cols[col]
        BY <1>2, <1>3, <2>0, <2>1, <3>3, <4>1, <4>2
      <4>4. Visible(r, k)'[col] = Visible(r, k)[col]
        BY <1>7, <3>3, <4>1
      <4> QED
        BY <1>2, <3>3, <4>3, <4>4
    <3>4. CASE x = k /\ q # p
      <4>1. q \in Past(r) /\ Precedes(q, p)
        BY <1>5, <3>4
      <4>2. k \in DOMAIN seen /\ col \in DOMAIN seen[k] /\ col \in ColumnsOf(k[1])
        BY <1>6, <1>8, <1>9, <1>13, <2>1, <3>0, <3>4, <4>1
      <4>3. col \notin DOMAIN ch
        <5> SUFFICES ASSUME col \in DOMAIN ch PROVE FALSE
          OBVIOUS
        <5>1. Sets(c, p, x, col)
          BY <1>1, <1>2, <1>3, <3>4, <4>2 DEF Sets
        <5>2. Precedes(p, q)
          BY <1>3, <2>1, <3>4, <5>1 DEF SetsLast
        <5>3. p[1] \in Nat /\ p[2] \in 1..7 /\ q[1] \in Nat /\ q[2] \in 1..7
          BY <1>2, <3>0, StatementPairs DEF Saves
        <5> QED
          BY <4>1, <5>2, <5>3 DEF Precedes
      <4>4. Visible(r, k)'[col] = Visible(r, k)[col]
        BY <1>7, <4>2, <4>3
      <4>5. Visible(r, k)[col] = At(c, q).cols[col]
        BY <2>0, <2>1, <3>4, <4>1, <4>2
      <4> QED
        BY <3>4, <4>4, <4>5
    <3> QED
      BY <3>1, <3>2, <3>3, <3>4
  <2> QED
    BY <1>4, <2>1 DEF LastIsDone
<1> QED
  BY <1>11, <1>12, <1>14, <1>15, <1>16, <1>17 DEF Transaction

\* ... and locks only what nobody holds.
LEMMA FlushStep ==
  ASSUME Inv, NEW r \in Runs, Flush(r)
  PROVE  Inv'
<1>1. PICK l, n, S, W : MovesOn(r, l, n, S, W) /\ Flushed(r, l, n, S, W)
  BY FlushEffect
<1>2. AtStep(r) /\ Running(r) /\ Step(r).op = "save" /\ UNCHANGED <<db, migrated>>
  BY DEF Flush, AtStep
<1>3. Transaction(r)' /\ migrated /\ run[r].command \in Commands
  BY <1>1, <1>2, FlushKeeps, OfRun
<1>4. ASSUME NEW s \in Runs, s # r PROVE DOMAIN W \cap DOMAIN run[s].wrote = {}
  <2>1. DOMAIN W = DOMAIN run[r].wrote \cup (IF DOMAIN Change(r) = {} THEN {} ELSE {Step(r).key})
    BY <1>1 DEF Flushed
  <2>2. DOMAIN run[r].wrote \cap DOMAIN run[s].wrote = {}
    BY <1>4 DEF Inv, Together
  <2>3. DOMAIN Change(r) # {} => Step(r).key \notin DOMAIN run[s].wrote
    <3>1. ~WaitsFor(r, s)
      BY DEF Flush
    <3>2. DOMAIN Change(r) # {} => Change(r) # Empty
      BY DEF Empty
    <3> QED
      BY <1>2, <1>4, <3>1, <3>2 DEF WaitsFor, Writes, LockedBy
  <2> QED
    BY <2>1, <2>2, <2>3
<1>5. \A s \in Runs : run[r].command \in Versions /\ run[s].command \in Versions
        => run[s].command = run[r].command
  BY DEF Inv, Together
<1>6. run[r].command # None
  BY <1>2 DEF Running
<1>7. run' = [run EXCEPT ![r] = [command |-> run[r].command, line |-> l, at |-> n, seen |-> S, wrote |-> W]]
  BY <1>1 DEF MovesOn
<1> QED
  BY <1>2, <1>3, <1>4, <1>5, <1>6, <1>7, OneMoves

\* A query loads the row as it is.
LEMMA QueryStep ==
  ASSUME Inv, NEW r \in Runs, Query(r)
  PROVE  Inv'
<1> DEFINE c == run[r].command
           p == Position(r)
           seen == run[r].seen
           wrote == run[r].wrote
<1>1. PICK k : k = Step(r).key
  OBVIOUS
<1> DEFINE found == k \in DOMAIN db \cup DOMAIN wrote
           S == IF found THEN SetRow(seen, k, Visible(r, k)) ELSE Restrict(seen, DOMAIN seen \ {k})
<1>2. /\ AtStep(r) /\ Running(r) /\ Step(r).op = "select" /\ UNCHANGED <<db, migrated>>
      /\ c \in Commands /\ c # None /\ migrated /\ Transaction(r)
      /\ p \in Statements(c) /\ Step(r) = At(c, p)
  <2>1. AtStep(r) /\ Running(r) /\ Step(r).op = "select" /\ UNCHANGED <<db, migrated>>
    BY DEF Query, AtStep
  <2> QED
    BY <2>1, OfRun DEF Running
<1>3. PICK l, n : MovesOn(r, l, n, S, wrote)
  <2>1. PICK l, n :
            /\ Moved(r) = [command |-> c, line |-> l, at |-> n, seen |-> seen, wrote |-> wrote]
            /\ l \in 1..(Len(Work[c]) + 1)
            /\ l \in DOMAIN Script[c] => <<l, n>> \in Statements(c)
            /\ \A q \in Statements(c) : Precedes(q, <<l, n>>) <=> Precedes(q, p) \/ q = p
    BY <1>2, MovedOn
  <2>2. run' = [run EXCEPT ![r] = [Moved(r) EXCEPT !.seen = S]]
    BY <1>1 DEF Query, LockedBy
  <2> HIDE DEF S
  <2>3. [Moved(r) EXCEPT !.seen = S] = [command |-> c, line |-> l, at |-> n, seen |-> S, wrote |-> wrote]
    BY <2>1
  <2>4. run' = [run EXCEPT ![r] = [command |-> c, line |-> l, at |-> n, seen |-> S, wrote |-> wrote]]
    BY <2>2, <2>3
  <2>5. run'[r] = [command |-> c, line |-> l, at |-> n, seen |-> S, wrote |-> wrote]
    BY <2>4 DEF Inv, RunsAreRecords
  <2> QED
    BY <2>1, <2>4, <2>5 DEF MovesOn
<1>4. /\ run'[r].command = c /\ run'[r].line = l /\ run'[r].at = n
      /\ run'[r].seen = S /\ run'[r].wrote = wrote /\ Position(r)' = <<l, n>>
  <2> HIDE DEF S
  <2> QED
    BY <1>3 DEF MovesOn, Position
<1>5. Past(r)' = Past(r)
  <2>1. \A q \in Saves(c) : q # p
    BY <1>2 DEF Saves
  <2>2. \A q \in Saves(c) : Precedes(q, <<l, n>>) <=> Precedes(q, p)
    BY <1>3, <2>1 DEF MovesOn, Saves
  <2>3. Past(r)' = {q \in Saves(c) : Precedes(q, <<l, n>>)}
    BY <1>4 DEF Past
  <2>4. Past(r) = {q \in Saves(c) : Precedes(q, p)}
    BY DEF Past
  <2> QED
    BY <2>2, <2>3, <2>4
<1>6. /\ DOMAIN wrote \subseteq DOMAIN seen
      /\ DOMAIN seen \subseteq DOMAIN db \cup DOMAIN wrote
      /\ \A x \in DOMAIN wrote : \E q \in Past(r) : At(c, q).key = x
      /\ \A q \in Past(r) : At(c, q).key \in DOMAIN seen
  BY <1>2 DEF Transaction, HoldsWhatItWrote
<1>7. /\ DOMAIN S = DOMAIN seen \cup (IF found THEN {k} ELSE {})
      /\ \A x \in DOMAIN S : S[x] = IF x = k THEN Visible(r, k) ELSE seen[x]
      /\ k \in DOMAIN S => found
  <2>1. CASE found
    <3>1. S = [x \in DOMAIN seen \cup {k} |-> IF x = k THEN Visible(r, k) ELSE seen[x]]
      BY <2>1 DEF SetRow
    <3> HIDE DEF S, found
    <3> QED
      BY <2>1, <3>1
  <2>2. CASE ~found
    <3>1. S = [x \in DOMAIN seen \ {k} |-> seen[x]] /\ k \notin DOMAIN seen
      BY <1>6, <2>2 DEF Restrict
    <3> HIDE DEF S, found
    <3> QED
      BY <2>2, <3>1
  <2> QED
    BY <2>1, <2>2
<1>8. \A x : Visible(r, x)' = Visible(r, x)
  <2> HIDE DEF S
  <2> QED
    BY <1>2, <1>4 DEF Visible
<1>9. found => IsKey(k) /\ DOMAIN Visible(r, k) = ColumnsOf(k[1])
  BY <1>2, VisibleRow
<1>10. /\ \A x \in DOMAIN seen : IsKey(x) /\ DOMAIN seen[x] = ColumnsOf(x[1])
       /\ \A x \in DOMAIN wrote : IsKey(x) /\ DOMAIN wrote[x] \subseteq ColumnsOf(x[1])
       /\ \A x \in DOMAIN wrote \ DOMAIN db : DOMAIN wrote[x] = ColumnsOf(x[1])
  BY <1>2 DEF Transaction, ColumnsComplete
<1>11. \A x \in DOMAIN S : IsKey(x) /\ DOMAIN S[x] = ColumnsOf(x[1])
  <2> HIDE DEF S, found
  <2> QED
    BY <1>7, <1>9, <1>10
<1> HIDE DEF S, c, p, seen, wrote
<1>12. InScript(r)'
  BY <1>3, <1>4 DEF InScript, MovesOn, c
<1>13. HoldsWhatItWrote(r)'
  BY <1>2, <1>4, <1>5, <1>6, <1>7 DEF HoldsWhatItWrote
<1>14. ColumnsComplete(r)'
  BY <1>2, <1>4, <1>10, <1>11 DEF ColumnsComplete
<1>15. WritesAreGood(r)'
  BY <1>2, <1>4 DEF Transaction, WritesAreGood, wrote
<1>16. LastIsDone(r)'
  <2>0. \A q \in Past(r) : \A x \in DOMAIN seen : \A col \in DOMAIN seen[x] :
              x[1] # "author" /\ SetsLast(c, q, x, col) => Visible(r, x)[col] = At(c, q).cols[col]
    BY <1>2 DEF Transaction, LastIsDone, c, seen
  <2>1. ASSUME NEW q \in Past(r)', NEW x \in DOMAIN S, NEW col \in DOMAIN S[x],
               x[1] # "author", SetsLast(c, q, x, col)
        PROVE  Visible(r, x)'[col] = At(c, q).cols[col]
    <3>1. q \in Past(r) /\ At(c, q).key = x
      BY <1>5, <2>1 DEF SetsLast, Sets
    <3>2. x \in DOMAIN seen /\ col \in DOMAIN seen[x]
      BY <1>6, <1>10, <1>11, <2>1, <3>1
    <3>3. Visible(r, x)[col] = At(c, q).cols[col]
      BY <2>0, <2>1, <3>1, <3>2
    <3> QED
      BY <1>8, <3>3
  <2> QED
    BY <1>4, <2>1 DEF LastIsDone
<1>17. SeenIsFresh(r)'
  <2>0. \A q \in Saves(c) : \A x \in DOMAIN seen : \A col \in DOMAIN seen[x] :
           /\ x[1] # "author" /\ SetsLast(c, q, x, col)
           /\ seen[x][col] = At(c, q).cols[col]
           => Visible(r, x)[col] = At(c, q).cols[col]
    BY <1>2 DEF Transaction, SeenIsFresh, c, seen
  <2>1. ASSUME NEW q \in Saves(c), NEW x \in DOMAIN S, NEW col \in DOMAIN S[x],
               x[1] # "author", SetsLast(c, q, x, col), S[x][col] = At(c, q).cols[col]
        PROVE  Visible(r, x)'[col] = At(c, q).cols[col]
    <3>1. CASE x = k
      <4>1. S[x] = Visible(r, x)
        BY <1>7, <3>1
      <4> QED
        BY <1>8, <2>1, <4>1
    <3>2. CASE x # k
      <4>1. x \in DOMAIN seen /\ S[x] = seen[x]
        BY <1>7, <3>2
      <4>2. Visible(r, x)[col] = At(c, q).cols[col]
        BY <2>0, <2>1, <4>1
      <4> QED
        BY <1>8, <4>2
    <3> QED
      BY <3>1, <3>2
  <2> QED
    BY <1>4, <2>1 DEF SeenIsFresh
<1>18. Transaction(r)'
  BY <1>12, <1>13, <1>14, <1>15, <1>16, <1>17 DEF Transaction
<1>19. run' = [run EXCEPT ![r] = [command |-> c, line |-> l, at |-> n, seen |-> S, wrote |-> wrote]]
  BY <1>3 DEF MovesOn, c
<1>20. \A s \in Runs : c \in Versions /\ run[s].command \in Versions => run[s].command = c
  BY DEF Inv, Together, c
<1>21. \A s \in Runs : s # r => DOMAIN wrote \cap DOMAIN run[s].wrote = {}
  BY DEF Inv, Together, wrote
<1> QED
  BY <1>2, <1>18, <1>19, <1>20, <1>21, OneMoves

\* A run begins with nothing, ...
LEMMA StartStep ==
  ASSUME Inv, NEW r \in Runs, NEW c \in Commands, Start(r, c)
  PROVE  Inv'
<1> DEFINE n == First(c, 1)
           t == [command |-> c, line |-> 1, at |-> n, seen |-> Empty, wrote |-> Empty]
<1>1. run' = [run EXCEPT ![r] = t] /\ UNCHANGED <<db, migrated>> /\ migrated
  <2>1. [Idle EXCEPT !.command = c, !.at = n] = t
    <3>1. [Idle EXCEPT !.command = c] = [command |-> c, line |-> 1, at |-> 1, seen |-> Empty, wrote |-> Empty]
      BY DEF Idle
    <3>2. [[command |-> c, line |-> 1, at |-> 1, seen |-> Empty, wrote |-> Empty] EXCEPT !.at = n] = t
      OBVIOUS
    <3>3. [Idle EXCEPT !.command = c, !.at = n] = [[Idle EXCEPT !.command = c] EXCEPT !.at = n]
      BY DEF Idle
    <3>4. [Idle EXCEPT !.command = c, !.at = n] = t
      BY <3>1, <3>2, <3>3
    <3> QED
      BY <3>4
  <2> QED
    BY <2>1 DEF Start
<1>2. run'[r] = t
  <2> HIDE DEF t
  <2> QED
    BY <1>1 DEF Inv, RunsAreRecords
<1>3. /\ run'[r].command = c /\ run'[r].line = 1 /\ run'[r].at = n
      /\ DOMAIN run'[r].seen = {} /\ DOMAIN run'[r].wrote = {} /\ Position(r)' = <<1, n>>
  <2> HIDE DEF n
  <2> QED
    BY <1>2 DEF Position, Empty
<1>4. /\ Past(r)' = {}
      /\ 1 \in 1..(Len(Work[c]) + 1) /\ (1 \in DOMAIN Script[c] => <<1, n>> \in Statements(c))
  BY <1>3, Beginning, FirstOfLine DEF Past, Saves
<1>5. Transaction(r)'
  <2> HIDE DEF n, t
  <2>1. InScript(r)'
    BY <1>3, <1>4 DEF InScript
  <2>2. HoldsWhatItWrote(r)' /\ ColumnsComplete(r)' /\ WritesAreGood(r)'
    BY <1>3, <1>4 DEF HoldsWhatItWrote, ColumnsComplete, WritesAreGood
  <2>3. LastIsDone(r)' /\ SeenIsFresh(r)'
    BY <1>3, <1>4 DEF LastIsDone, SeenIsFresh
  <2> QED
    BY <2>1, <2>2, <2>3 DEF Transaction
<1>6. c \in Versions => \A s \in Runs : s # r /\ run[s].command \in Versions => run[s].command = c
  BY CatalogueAssumption DEF Start
<1>7. c # None
  BY CatalogueAssumption DEF Commands
<1>8. DOMAIN Empty = {}
  BY DEF Empty
<1> QED
  BY <1>1, <1>5, <1>6, <1>7, <1>8, OneMoves

\* ... and a rollback leaves nothing.
LEMMA RollbackStep ==
  ASSUME Inv, NEW r \in Runs, Rollback(r), UNCHANGED <<db, migrated>>
  PROVE  Inv'
<1> DEFINE t == [command |-> None, line |-> 1, at |-> 1, seen |-> Empty, wrote |-> Empty]
<1>1. run' = [run EXCEPT ![r] = t]
  BY DEF Rollback, Idle
<1>2. run'[r] = Idle
  BY <1>1 DEF Inv, RunsAreRecords, Idle
<1>3. None \notin Versions
  BY CatalogueAssumption
<1>4. \A s \in Runs : s # r => DOMAIN Empty \cap DOMAIN run[s].wrote = {}
  BY DEF Empty
<1>5. run' = [run EXCEPT ![r] = [command |-> None, line |-> 1, at |-> 1, seen |-> Empty, wrote |-> Empty]]
  BY <1>1
<1> HIDE DEF t
<1> QED
  BY <1>2, <1>3, <1>4, <1>5, OneMoves

-----------------------------------------------------------------------------
\* A commit

\* A run that has finished has seen every row it saves.
LEMMA AllIsSaved ==
  ASSUME Inv, NEW r \in Runs, Finished(r)
  PROVE  Past(r) = Saves(run[r].command)
<1>1. /\ run[r].command \in Commands /\ InScript(r)
      /\ run[r].line \notin DOMAIN Script[run[r].command]
  BY OfRun DEF Finished, AtStep, Transaction
<1>2. \A q \in Statements(run[r].command) : Precedes(q, Position(r))
  BY <1>1, Ending DEF InScript, Position
<1> QED
  BY <1>2 DEF Past, Saves

\* What is committed: every row the run saves, as the run has seen it, and as it was
\* set last.
LEMMA Committed ==
  ASSUME Inv, NEW r \in Runs, Commit(r)
  PROVE  /\ DOMAIN db' = DOMAIN db \cup DOMAIN run[r].wrote
         /\ \A k \in DOMAIN db' : IsKey(k) /\ DOMAIN db'[k] = ColumnsOf(k[1])
         /\ \A k \in DOMAIN db \ DOMAIN run[r].wrote : db'[k] = db[k]
         /\ \A k \in DOMAIN db' : \A col \in ColumnsOf(k[1]) :
               \/ /\ k \in DOMAIN run[r].wrote /\ col \in DOMAIN run[r].wrote[k]
                  /\ db'[k][col] = run[r].wrote[k][col]
               \/ k \in DOMAIN db /\ db'[k][col] = db[k][col]
         /\ \A p \in Saves(run[r].command) : At(run[r].command, p).key \in DOMAIN db'
         /\ \A k \in DOMAIN run[r].wrote : \E p \in Saves(run[r].command) : At(run[r].command, p).key = k
         /\ \A p \in Saves(run[r].command) : \A k, col :
               k[1] # "author" /\ SetsLast(run[r].command, p, k, col)
                  => col \in ColumnsOf(k[1]) /\ k \in DOMAIN db' /\ db'[k][col] = At(run[r].command, p).cols[col]
<1> DEFINE c == run[r].command
           seen == run[r].seen
           wrote == run[r].wrote
           new == [k \in DOMAIN wrote |-> Visible(r, k)]
<1>1. Running(r) /\ Transaction(r) /\ Past(r) = Saves(c) /\ db' = Over(new, db) /\ c \in Commands
  BY OfRun, AllIsSaved DEF Commit, Finished
<1>2. /\ DOMAIN wrote \subseteq DOMAIN seen
      /\ DOMAIN seen \subseteq DOMAIN db \cup DOMAIN wrote
      /\ \A x \in DOMAIN wrote : \E q \in Saves(c) : At(c, q).key = x
      /\ \A q \in Saves(c) : At(c, q).key \in DOMAIN seen
  BY <1>1 DEF Transaction, HoldsWhatItWrote
<1>3. /\ DOMAIN db' = DOMAIN wrote \cup DOMAIN db
      /\ \A k \in DOMAIN wrote : db'[k] = Visible(r, k)
      /\ \A k \in DOMAIN db \ DOMAIN wrote : db'[k] = db[k]
  <2>1. /\ DOMAIN Over(new, db) = DOMAIN new \cup DOMAIN db
        /\ \A k \in DOMAIN new : Over(new, db)[k] = new[k]
        /\ \A k \in DOMAIN db \ DOMAIN new : Over(new, db)[k] = db[k]
    BY OverValues
  <2>2. DOMAIN new = DOMAIN wrote /\ \A k \in DOMAIN wrote : new[k] = Visible(r, k)
    OBVIOUS
  <2> HIDE DEF new, wrote
  <2> QED
    BY <1>1, <2>1, <2>2
<1>4. \A k \in DOMAIN db' : IsKey(k) /\ DOMAIN db'[k] = ColumnsOf(k[1])
  <2>1. \A k \in DOMAIN wrote : IsKey(k) /\ DOMAIN Visible(r, k) = ColumnsOf(k[1])
    BY <1>1, VisibleRow
  <2>2. \A k \in DOMAIN db : IsKey(k) /\ DOMAIN db[k] = ColumnsOf(k[1])
    BY DEF Inv, DbInv, RowsComplete
  <2> HIDE DEF wrote
  <2> QED
    BY <1>3, <2>1, <2>2
<1>5. ASSUME NEW k \in DOMAIN db', NEW col \in ColumnsOf(k[1])
      PROVE  /\ \/ k \in DOMAIN wrote /\ col \in DOMAIN wrote[k] /\ db'[k][col] = wrote[k][col]
                \/ k \in DOMAIN db /\ db'[k][col] = db[k][col]
             /\ db'[k][col] = Visible(r, k)[col]
  <2>1. CASE k \in DOMAIN wrote /\ col \in DOMAIN wrote[k]
    BY <1>1, <1>3, <1>5, <2>1, VisibleRow
  <2>2. CASE k \in DOMAIN wrote /\ col \notin DOMAIN wrote[k]
    BY <1>1, <1>3, <1>5, <2>2, VisibleRow
  <2>3. CASE k \notin DOMAIN wrote
    BY <1>1, <1>3, <1>5, <2>3, VisibleRow
  <2> QED
    BY <2>1, <2>2, <2>3
<1>6. ASSUME NEW p \in Saves(c), NEW k, NEW col, k[1] # "author", SetsLast(c, p, k, col)
      PROVE  col \in ColumnsOf(k[1]) /\ k \in DOMAIN db' /\ db'[k][col] = At(c, p).cols[col]
  <2>1. At(c, p).key = k /\ col \in DOMAIN At(c, p).cols
    BY <1>6 DEF SetsLast, Sets
  <2>2. col \in ColumnsOf(k[1])
    BY <1>1, <2>1, SaveFacts
  <2>3. k \in DOMAIN seen /\ col \in DOMAIN seen[k] /\ k \in DOMAIN db'
    <3>1. k \in DOMAIN seen
      BY <1>2, <2>1
    <3>2. DOMAIN seen[k] = ColumnsOf(k[1])
      BY <1>1, <3>1 DEF Transaction, ColumnsComplete
    <3> QED
      BY <1>2, <1>3, <2>2, <3>1, <3>2
  <2>4. Visible(r, k)[col] = At(c, p).cols[col]
    BY <1>1, <1>6, <2>3 DEF Transaction, LastIsDone
  <2> QED
    BY <1>5, <2>2, <2>3, <2>4
<1> HIDE DEF wrote, seen, new, c
<1>7. \A p \in Saves(c) : At(c, p).key \in DOMAIN db'
  BY <1>2, <1>3
<1> QED
  BY <1>2, <1>3, <1>4, <1>5, <1>6, <1>7 DEF c, wrote

\* The rows are as they should be.
LEMMA CommittedRows ==
  ASSUME Inv, NEW r \in Runs, Commit(r)
  PROVE  DbInv'
<1> DEFINE c == run[r].command
           wrote == run[r].wrote
<1>1. /\ DOMAIN db' = DOMAIN db \cup DOMAIN wrote
      /\ \A k \in DOMAIN db' : IsKey(k) /\ DOMAIN db'[k] = ColumnsOf(k[1])
      /\ \A k \in DOMAIN db \ DOMAIN wrote : db'[k] = db[k]
      /\ \A k \in DOMAIN db' : \A col \in ColumnsOf(k[1]) :
            \/ k \in DOMAIN wrote /\ col \in DOMAIN wrote[k] /\ db'[k][col] = wrote[k][col]
            \/ k \in DOMAIN db /\ db'[k][col] = db[k][col]
      /\ \A p \in Saves(c) : At(c, p).key \in DOMAIN db'
      /\ \A k \in DOMAIN wrote : \E p \in Saves(c) : At(c, p).key = k
      /\ \A p \in Saves(c) : \A k, col :
            k[1] # "author" /\ SetsLast(c, p, k, col)
               => col \in ColumnsOf(k[1]) /\ k \in DOMAIN db' /\ db'[k][col] = At(c, p).cols[col]
  BY Committed
<1>2. Running(r) /\ Transaction(r) /\ c \in Commands /\ migrated' = migrated
  BY OfRun DEF Commit, Finished
<1>3. RowsComplete(db)'
  BY <1>1 DEF RowsComplete
<1>4. RowsFit(db)'
  <2>1. \A k \in DOMAIN wrote : \A col \in DOMAIN wrote[k] :
           /\ Fits(k, col, wrote[k][col])
           /\ Refers(col, wrote[k][col]) \subseteq DOMAIN db \cup DOMAIN wrote
    BY <1>2 DEF Transaction, WritesAreGood
  <2>2. \A k \in DOMAIN db : DOMAIN db[k] = ColumnsOf(k[1]) /\ \A col \in DOMAIN db[k] :
           /\ Fits(k, col, db[k][col])
           /\ Refers(col, db[k][col]) \subseteq DOMAIN db
    BY DEF Inv, DbInv, RowsFit, RowsComplete
  <2> HIDE DEF wrote, c
  <2>3. ASSUME NEW k \in DOMAIN db', NEW col \in DOMAIN db'[k]
        PROVE  Fits(k, col, db'[k][col]) /\ Refers(col, db'[k][col]) \subseteq DOMAIN db'
    <3>1. col \in ColumnsOf(k[1])
      BY <1>1, <2>3
    <3>2. CASE k \in DOMAIN wrote /\ col \in DOMAIN wrote[k] /\ db'[k][col] = wrote[k][col]
      BY <1>1, <2>1, <3>2
    <3>3. CASE k \in DOMAIN db /\ db'[k][col] = db[k][col]
      <4>1. Fits(k, col, db[k][col]) /\ Refers(col, db[k][col]) \subseteq DOMAIN db
        BY <2>2, <3>1, <3>3
      <4> QED
        BY <1>1, <3>3, <4>1
    <3> QED
      BY <1>1, <3>1, <3>2, <3>3
  <2> QED
    BY <2>3 DEF RowsFit
\* The lines that save an item are of its kind.
<1>5. ASSUME NEW l \in DOMAIN Work[c], ItemLine(c, l)
      PROVE  LET i == Work[c][l].slug IN
             /\ <<"item", i>> \in DOMAIN db' /\ db'[<<"item", i>>].kind = Work[c][l].kind
             /\ Work[c][l].kind = "song" => <<"song", i>> \in DOMAIN db'
  <2> DEFINE i == Work[c][l].slug
             k == <<"item", i>>
  <2>1. <<l, 2>> \in Saves(c) /\ (ItemInsert(c, <<l, 2>>) \/ ItemUpsert(c, <<l, 2>>))
    BY <1>2, <1>5, SavesOfLines
  <2>2. At(c, <<l, 2>>).key = k
    BY <2>1 DEF ItemInsert, ItemUpsert, Save, LineAt
  <2>3. k \in DOMAIN db' /\ "kind" \in DOMAIN db'[k]
    BY <1>1, <2>1, <2>2 DEF ColumnsOf
  <2>4. Fits(k, "kind", db'[k].kind)
    BY <1>4, <2>3 DEF RowsFit
  <2>5. db'[k].kind = Work[c][l].kind
    BY <1>5, <2>4 DEF ItemLine, Fits
  <2>6. ASSUME Work[c][l].kind = "song" PROVE <<"song", i>> \in DOMAIN db'
    <3>1. <<l, 7>> \in Saves(c) /\ SongSave(c, <<l, 7>>)
      BY <1>2, <1>5, <2>6, SavesOfLines
    <3>2. At(c, <<l, 7>>).key = <<"song", i>>
      BY <3>1 DEF SongSave, SaveSong, Save, LineAt
    <3> QED
      BY <1>1, <3>1, <3>2
  <2> QED
    BY <2>3, <2>5, <2>6
\* A row of items or songs the run wrote is of a line.
<1>6. ASSUME NEW k \in DOMAIN wrote, k[1] \in {"item", "song"}
      PROVE  \E l \in DOMAIN Work[c] : ItemLine(c, l) /\ Work[c][l].slug = k[2]
                                       /\ (k[1] = "song" => Work[c][l].kind = "song")
  <2>1. PICK p \in Saves(c) : At(c, p).key = k
    BY <1>1
  <2>2. p[1] \in DOMAIN Work[c]
    BY <1>2, StatementPairs DEF Saves
  <2>3. Work[c][p[1]].slug = k[2] /\ (k[1] = "item" => ItemInsert(c, p) \/ ItemUpsert(c, p) \/ ItemCredit(c, p))
        /\ (k[1] = "song" => SongSave(c, p))
    BY <1>2, <1>6, <2>1, SavedLines
  <2>4. ItemLine(c, p[1]) /\ (k[1] = "song" => Work[c][p[1]].kind = "song")
    BY <1>6, <2>3 DEF ItemInsert, ItemUpsert, ItemCredit, SongSave, LineAt
  <2> QED
    BY <2>2, <2>3, <2>4
<1>7. \A k \in DOMAIN db' : k = <<k[1], k[2]>>
  BY <1>1 DEF IsKey
<1>8. SongsHaveRows(db)'
  <2>0. /\ \A k \in DOMAIN db : k[1] = "song" =>
              <<"item", k[2]>> \in DOMAIN db /\ db[<<"item", k[2]>>].kind = "song"
        /\ \A k \in DOMAIN db : k[1] = "item" /\ db[k].kind = "song" => <<"song", k[2]>> \in DOMAIN db
    BY DEF Inv, DbInv, SongsHaveRows
  <2>1. ASSUME NEW k \in DOMAIN db', k[1] = "song"
        PROVE  <<"item", k[2]>> \in DOMAIN db' /\ db'[<<"item", k[2]>>].kind = "song"
    <3>1. CASE k \in DOMAIN wrote
      <4>1. PICK l \in DOMAIN Work[c] : ItemLine(c, l) /\ Work[c][l].slug = k[2] /\ Work[c][l].kind = "song"
        BY <1>6, <2>1, <3>1
      <4> QED
        BY <1>5, <4>1
    <3>2. CASE k \in DOMAIN db
      <4> DEFINE m == <<"item", k[2]>>
      <4>1. m \in DOMAIN db /\ db[m].kind = "song"
        BY <2>0, <2>1, <3>2
      <4>2. CASE m \in DOMAIN wrote
        <5>1. PICK l \in DOMAIN Work[c] : ItemLine(c, l) /\ Work[c][l].slug = k[2]
          BY <1>6, <4>2
        <5>2. db'[m].kind = Work[c][l].kind
          BY <1>5, <5>1
        <5>3. Work[c][l].kind = "song"
          <6>1. Fits(m, "kind", db[m].kind)
            BY <4>1 DEF Inv, DbInv, RowsComplete, RowsFit, ColumnsOf
          <6> QED
            BY <4>1, <5>1, <6>1 DEF ItemLine, Fits
        <5> QED
          BY <1>1, <4>1, <5>2, <5>3
      <4>3. CASE m \notin DOMAIN wrote
        BY <1>1, <4>1, <4>3
      <4> QED
        BY <4>2, <4>3
    <3> QED
      BY <1>1, <3>1, <3>2
  <2>2. ASSUME NEW k \in DOMAIN db', k[1] = "item", db'[k].kind = "song"
        PROVE  <<"song", k[2]>> \in DOMAIN db'
    <3>1. CASE k \in DOMAIN wrote
      <4>1. PICK l \in DOMAIN Work[c] : ItemLine(c, l) /\ Work[c][l].slug = k[2]
        BY <1>6, <2>2, <3>1
      <4>2. k = <<"item", Work[c][l].slug>>
        BY <1>7, <2>2, <4>1
      <4> QED
        BY <1>5, <2>2, <4>1, <4>2
    <3>2. CASE k \notin DOMAIN wrote
      BY <1>1, <2>0, <2>2, <3>2
    <3> QED
      BY <3>1, <3>2
  <2> QED
    BY <2>1, <2>2 DEF SongsHaveRows
<1>9. ASSUME NEW k \in DOMAIN db', k[1] = "song"
      PROVE  LET artist == db'[k].artist
                 author == db'[<<"item", k[2]>>].author
             IN  IF artist = None THEN author = None ELSE author # None /\ author[1] = Base[artist]
  <2> DEFINE i == k[2]
             m == <<"item", i>>
             artist == db'[k].artist
             author == db'[m].author
  <2>1. m \in DOMAIN db' /\ db'[m].kind = "song" /\ k = <<"song", i>>
    BY <1>7, <1>8, <1>9 DEF SongsHaveRows
  <2>2. CASE k \in DOMAIN wrote \/ m \in DOMAIN wrote
    <3>1. PICK l \in DOMAIN Work[c] : ItemLine(c, l) /\ Work[c][l].slug = i
      BY <1>6, <1>9, <2>2
    <3>2. PICK last \in DOMAIN Work[c] :
            /\ ItemLine(c, last) /\ Work[c][last].slug = i
            /\ \A j \in DOMAIN Work[c] : ItemLine(c, j) /\ Work[c][j].slug = i => j <= last
      BY <1>2, <3>1, LastListed
    <3> DEFINE line == Work[c][last]
    <3>3. line.kind = "song"
      BY <1>5, <2>1, <3>2
    <3>4. /\ SetsLast(c, <<last, 7>>, <<"song", i>>, "artist")
          /\ At(c, <<last, 7>>).cols["artist"] = line.subtitle
          /\ \E p \in Saves(c) : SetsLast(c, p, <<"item", i>>, "author")
                                 /\ At(c, p).cols["author"] = AuthorId(line)
      BY <1>2, <3>2, <3>3, LastCredit
    <3>5. artist = line.subtitle
      <4>1. <<last, 7>> \in Saves(c)
        BY <3>4 DEF SetsLast, Sets
      <4>2. db'[k]["artist"] = line.subtitle
        BY <1>1, <1>9, <2>1, <3>4, <4>1
      <4> QED
        BY <4>2
    <3>6. author = AuthorId(line)
      <4>1. PICK p \in Saves(c) : SetsLast(c, p, m, "author") /\ At(c, p).cols["author"] = AuthorId(line)
        BY <3>4
      <4>2. m[1] # "author"
        OBVIOUS
      <4>3. db'[m]["author"] = AuthorId(line)
        BY <1>1, <4>1, <4>2
      <4> QED
        BY <4>3
    <3>7. /\ CreditOf(line) = None <=> line.subtitle = None
          /\ CreditOf(line) # None => Base[CreditOf(line)] = Base[line.subtitle]
      BY <3>2, <3>3 DEF ItemLine
    <3>8. /\ CreditOf(line) = None => AuthorId(line) = None
          /\ CreditOf(line) # None => AuthorId(line) = <<Base[CreditOf(line)], 1>>
      BY DEF AuthorId, slugify
    <3>9. CreditOf(line) # None => <<Base[CreditOf(line)], 1>> # None
      BY <3>2, CatalogueAssumption DEF ItemLine
    <3> QED
      BY <3>5, <3>6, <3>7, <3>8, <3>9
  <2>3. CASE k \notin DOMAIN wrote /\ m \notin DOMAIN wrote
    <3>1. k \in DOMAIN db /\ m \in DOMAIN db /\ db'[k] = db[k] /\ db'[m] = db[m]
      BY <1>1, <1>9, <2>1, <2>3
    <3>2. CreditsFit(db)
      BY <1>2, OfRun DEF Inv, DbInv
    <3> QED
      BY <1>9, <3>1, <3>2 DEF CreditsFit
  <2> QED
    BY <2>2, <2>3
<1>10. CreditsFit(db)'
  BY <1>9 DEF CreditsFit
<1> QED
  BY <1>2, <1>3, <1>4, <1>8, <1>10 DEF Inv, DbInv

\* The transactions of the others stay what they are: what is committed to a row they
\* have seen is what they would have saved.
LEMMA CommitOthers ==
  ASSUME Inv, NEW r \in Runs, Commit(r), NEW s \in Runs, s # r, Running(s)
  PROVE  Transaction(s)'
<1> DEFINE c == run[r].command
           d == run[s].command
           seen == run[s].seen
           wrote == run[s].wrote
<1>1. /\ DOMAIN db' = DOMAIN db \cup DOMAIN run[r].wrote
      /\ \A k \in DOMAIN db \ DOMAIN run[r].wrote : db'[k] = db[k]
      /\ \A k \in DOMAIN db' : IsKey(k) /\ DOMAIN db'[k] = ColumnsOf(k[1])
      /\ \A k \in DOMAIN run[r].wrote : \E p \in Saves(c) : At(c, p).key = k
      /\ \A p \in Saves(c) : \A k, col :
            k[1] # "author" /\ SetsLast(c, p, k, col)
               => col \in ColumnsOf(k[1]) /\ k \in DOMAIN db' /\ db'[k][col] = At(c, p).cols[col]
  BY Committed
<1>2. run'[s] = run[s]
  BY DEF Commit, Rollback, Inv, RunsAreRecords
<1>3. /\ Transaction(s) /\ d \in Commands /\ c \in Commands
      /\ c \in Versions /\ d \in Versions => c = d
      /\ DOMAIN run[r].wrote \cap DOMAIN wrote = {}
  BY OfRun DEF Inv, Together, Commit, Finished
<1>4. Past(s)' = Past(s) /\ Past(s) \subseteq Saves(d)
  BY <1>2 DEF Past, Position
<1>5. ASSUME NEW k, k \notin DOMAIN run[r].wrote PROVE Visible(s, k)' = Visible(s, k)
  <2>1. RowOf(db', k) = RowOf(db, k)
    BY <1>1, <1>5 DEF RowOf
  <2> QED
    BY <1>2, <2>1 DEF Visible, RowOf
<1>6. ASSUME NEW k \in DOMAIN run[r].wrote, NEW col \in ColumnsOf(k[1])
      PROVE  Visible(s, k)'[col] = db'[k][col]
  <2>1. Visible(s, k)' = Over(RowOf(wrote, k), RowOf(db', k))
    BY <1>2 DEF Visible, RowOf
  <2>2. DOMAIN RowOf(wrote, k) = {} /\ RowOf(db', k) = db'[k] /\ DOMAIN db'[k] = ColumnsOf(k[1])
    BY <1>1, <1>3, <1>6 DEF RowOf, Empty
  <2>3. \A x \in DOMAIN db'[k] \ DOMAIN RowOf(wrote, k) :
            Over(RowOf(wrote, k), db'[k])[x] = db'[k][x]
    BY OverValues
  <2> QED
    BY <1>6, <2>1, <2>2, <2>3
<1>7. ASSUME NEW p \in Saves(d), NEW k \in DOMAIN run[r].wrote, NEW col,
             k[1] # "author", SetsLast(d, p, k, col)
      PROVE  Visible(s, k)'[col] = At(d, p).cols[col]
  <2>1. PICK q \in Saves(c) : At(c, q).key = k
    BY <1>1
  <2>2. At(d, p).key = k
    BY <1>7 DEF SetsLast, Sets
  <2>3. c = d
    BY <1>3, <1>7, <2>1, <2>2, SharedRows
  <2>4. col \in ColumnsOf(k[1]) /\ db'[k][col] = At(d, p).cols[col]
    <3> HIDE DEF c, d
    <3> QED
      BY <1>1, <1>7, <2>3
  <2> QED
    BY <1>6, <2>4
<1>8. InScript(s)'
  BY <1>2, <1>3 DEF InScript, Position, Transaction
<1>9. HoldsWhatItWrote(s)'
  BY <1>1, <1>2, <1>3, <1>4 DEF HoldsWhatItWrote, Transaction
<1>10. ColumnsComplete(s)'
  BY <1>1, <1>2, <1>3 DEF ColumnsComplete, Transaction
<1>11. WritesAreGood(s)'
  BY <1>1, <1>2, <1>3 DEF WritesAreGood, Transaction
<1>12. LastIsDone(s)'
  <2>1. ASSUME NEW p \in Past(s), NEW k \in DOMAIN seen, NEW col \in DOMAIN seen[k],
               k[1] # "author", SetsLast(d, p, k, col)
        PROVE  Visible(s, k)'[col] = At(d, p).cols[col]
    <3>1. CASE k \in DOMAIN run[r].wrote
      BY <1>4, <1>7, <2>1, <3>1
    <3>2. CASE k \notin DOMAIN run[r].wrote
      BY <1>3, <1>5, <2>1, <3>2 DEF LastIsDone, Transaction
    <3> QED
      BY <3>1, <3>2
  <2> QED
    BY <1>2, <1>4, <2>1 DEF LastIsDone
<1>13. SeenIsFresh(s)'
  <2>1. ASSUME NEW p \in Saves(d), NEW k \in DOMAIN seen, NEW col \in DOMAIN seen[k],
               k[1] # "author", SetsLast(d, p, k, col), seen[k][col] = At(d, p).cols[col]
        PROVE  Visible(s, k)'[col] = At(d, p).cols[col]
    <3>1. CASE k \in DOMAIN run[r].wrote
      BY <1>7, <2>1, <3>1
    <3>2. CASE k \notin DOMAIN run[r].wrote
      BY <1>3, <1>5, <2>1, <3>2 DEF SeenIsFresh, Transaction
    <3> QED
      BY <3>1, <3>2
  <2> QED
    BY <1>2, <2>1 DEF SeenIsFresh
<1> QED
  BY <1>8, <1>9, <1>10, <1>11, <1>12, <1>13 DEF Transaction

\* So a commit keeps the invariant.
LEMMA CommitStep ==
  ASSUME Inv, NEW r \in Runs, Commit(r)
  PROVE  Inv'
<1>1. /\ run' = [run EXCEPT ![r] = Idle] /\ run'[r] = Idle /\ UNCHANGED migrated
      /\ \A s \in Runs : s # r => run'[s] = run[s]
      /\ run' = [s \in Runs |-> run'[s]]
  BY DEF Commit, Rollback, Inv, RunsAreRecords
<1>2. run'[r].command = None /\ DOMAIN run'[r].wrote = {} /\ None \notin Versions
      /\ run'[r] = [command |-> run'[r].command, line |-> run'[r].line, at |-> run'[r].at,
                    seen |-> run'[r].seen, wrote |-> run'[r].wrote]
  BY <1>1, CatalogueAssumption DEF Idle, Empty
<1>3. RunsAreRecords'
  <2>1. \A s \in Runs : run'[s] = [command |-> run'[s].command, line |-> run'[s].line, at |-> run'[s].at,
                                   seen |-> run'[s].seen, wrote |-> run'[s].wrote]
    BY <1>1, <1>2 DEF Inv, RunsAreRecords
  <2>2. \A s \in Runs : run'[s].command \in Commands \cup {None} /\ (run'[s] = Idle \/ Running(s)')
    BY <1>1, <1>2 DEF Inv, RunsAreRecords, Running
  <2> QED
    BY <1>1, <2>1, <2>2 DEF RunsAreRecords
<1>4. Together'
  <2>1. migrated
    BY OfRun DEF Commit, Finished
  <2> QED
    BY <1>1, <1>2, <2>1 DEF Inv, Together
<1>5. ASSUME NEW s \in Runs, Running(s)' PROVE Transaction(s)'
  <2>1. s # r
    BY <1>2, <1>5 DEF Running
  <2>2. Running(s)
    BY <1>1, <1>5, <2>1 DEF Running
  <2> QED
    BY <2>1, <2>2, CommitOthers
<1> QED
  BY <1>3, <1>4, <1>5, CommittedRows DEF Inv

-----------------------------------------------------------------------------
\* The migration

\* A row of a table, by its key.
LEMMA KeysOf ==
  ASSUME NEW rows, RowsComplete(rows), NEW table, NEW i
  PROVE  i \in {k[2] : k \in {key \in DOMAIN rows : key[1] = table}} <=> <<table, i>> \in DOMAIN rows
<1>1. \A k \in DOMAIN rows : k = <<k[1], k[2]>>
  BY DEF RowsComplete, IsKey
<1>2. <<table, i>>[1] = table /\ <<table, i>>[2] = i
  OBVIOUS
<1> QED
  BY <1>1, <1>2

\* Artists are names, and finitely many.
LEMMA ArtistsAreNames ==
  ASSUME DbInv
  PROVE  /\ Artists \subseteq Names /\ IsFiniteSet(Artists)
         /\ \A k \in DOMAIN db : k[1] = "song" => db[k].artist \in Artists \cup {None}
<1>1. ASSUME NEW k \in DOMAIN db, k[1] = "song" PROVE db[k].artist \in Names \cup {None}
  BY <1>1 DEF DbInv, RowsComplete, RowsFit, Fits, ColumnsOf
<1>2. Artists \subseteq Names
  BY <1>1 DEF Artists
<1>3. IsFiniteSet(Names)
  <2>1. Len(Sorted) \in Nat /\ DOMAIN Sorted = 1..Len(Sorted)
    BY CatalogueAssumption
  <2>2. Names = {Sorted[i] : i \in 1..Len(Sorted)} /\ Sorted \in Seq(Names)
    BY <2>1, CatalogueAssumption DEF Names, ToSet
  <2>3. \A x \in Names : \E i \in 1..Len(Sorted) : Sorted[i] = x
    BY <2>2
  <2> QED
    BY <2>2, <2>3 DEF IsFiniteSet
<1>4. IsFiniteSet(Artists)
  BY <1>2, <1>3, FS_Subset
<1> QED
  BY <1>2, <1>4 DEF Artists

\* No two artists get one slug.
LEMMA BackfillSlugsDiffer ==
  ASSUME DbInv, NEW a \in Artists, NEW b \in Artists, BackfillSlug(a) = BackfillSlug(b)
  PROVE  a = b
<1> DEFINE Upto(x) == {y \in Artists : Base[y] = Base[x] /\ Place(y) <= Place(x)}
<1>1. Artists \subseteq Names /\ IsFiniteSet(Artists)
  BY ArtistsAreNames
<1>2. \A x \in Artists : Place(x) \in Nat /\ Sorted[Place(x)] = x
  <2>1. DOMAIN Sorted = 1..Len(Sorted) /\ Len(Sorted) \in Nat
    BY CatalogueAssumption
  <2>2. \A x \in Artists : \E i \in DOMAIN Sorted : Sorted[i] = x
    BY <1>1 DEF Names, ToSet
  <2> QED
    BY <2>1, <2>2 DEF Place
<1>3. Base[a] = Base[b] /\ Cardinality(Upto(a)) = Cardinality(Upto(b))
  BY DEF BackfillSlug
<1>4. ASSUME NEW x \in Artists, NEW y \in Artists, Base[x] = Base[y], Place(x) < Place(y),
             Cardinality(Upto(x)) = Cardinality(Upto(y))
      PROVE  FALSE
  <2>1. Upto(x) \subseteq Upto(y) /\ y \in Upto(y) /\ y \notin Upto(x)
    BY <1>2, <1>4
  <2>2. IsFiniteSet(Upto(y))
    BY <1>1, FS_Subset
  <2>3. Upto(x) = Upto(y)
    <3> HIDE DEF Upto
    <3> QED
      BY <1>4, <2>1, <2>2, FS_Subset
  <2> QED
    BY <2>1, <2>3
<1> HIDE DEF Upto
<1>5. ~(Place(a) < Place(b)) /\ ~(Place(b) < Place(a))
  BY <1>3, <1>4
<1>6. Place(a) = Place(b)
  BY <1>2, <1>5
<1> QED
  BY <1>2, <1>6

\* What the migration makes of the rows.
LEMMA Backfilled ==
  ASSUME Inv, Backfill
  PROVE  /\ DOMAIN db \subseteq DOMAIN db'
         /\ <<"author", slugify(Photographer)>> \in DOMAIN db'
         /\ \A a \in Artists : <<"author", BackfillSlug(a)>> \in DOMAIN db'
         /\ \A k \in DOMAIN db' : k[1] # "author" => k \in DOMAIN db
         /\ \A k \in DOMAIN db' : k[1] = "author" => /\ IsKey(k) /\ DOMAIN db'[k] = {"name"}
                                                    /\ db'[k].name \in Names /\ Base[db'[k].name] = k[2][1]
         /\ \A k \in DOMAIN db : k[1] \in {"album", "song"} => db'[k] = db[k]
         /\ \A k \in DOMAIN db : k[1] = "item" =>
               /\ DOMAIN db'[k] = DOMAIN db[k]
               /\ \A col \in DOMAIN db[k] \ {"author"} : db'[k][col] = db[k][col]
               /\ db[k].kind = "photo" => db'[k].author = slugify(Photographer)
               /\ db[k].kind = "song" =>
                     LET artist == db[<<"song", k[2]>>].artist
                     IN  db'[k].author = IF artist = None THEN None ELSE BackfillSlug(artist)
<1> DEFINE authors == [k \in {<<"author", BackfillSlug(a)>> : a \in Artists} |->
                       [name |-> CHOOSE a \in Artists : BackfillSlug(a) = k[2]]]
           named(artist) == {k[2] : k \in {key \in DOMAIN authors : authors[key].name = artist}}
           photographer == [k \in {<<"author", slugify(Photographer)>>} |-> [name |-> Photographer]]
           credit(slug) ==
            IF db[<<"item", slug>>].kind = "photo" THEN slugify(Photographer)
            ELSE LET found == named(db[<<"song", slug>>].artist)
                 IN  IF found = {} THEN None ELSE CHOOSE author \in found : TRUE
           items == [k \in {<<"item", slug>> : slug \in Rows("item")} |->
                     [db[k] EXCEPT !.author = credit(k[2])]]
<1>1. db' = Over(items, Over(authors, Over(photographer, db)))
  BY DEF Backfill
<1>2. DbInv /\ RowsComplete(db)
  BY DEF Inv, DbInv
<1>3. Artists \subseteq Names /\ \A k \in DOMAIN db : k[1] = "song" => db[k].artist \in Artists \cup {None}
  BY <1>2, ArtistsAreNames
<1>4. ASSUME NEW a \in Artists
      PROVE  /\ <<"author", BackfillSlug(a)>> \in DOMAIN authors
             /\ authors[<<"author", BackfillSlug(a)>>] = [name |-> a]
  <2>1. <<"author", BackfillSlug(a)>> \in DOMAIN authors
    OBVIOUS
  <2>2. (CHOOSE b \in Artists : BackfillSlug(b) = BackfillSlug(a)) = a
    BY <1>2, BackfillSlugsDiffer
  <2> QED
    BY <2>1, <2>2
<1>5. ASSUME NEW k \in DOMAIN authors
      PROVE  \E a \in Artists : k = <<"author", BackfillSlug(a)>> /\ authors[k] = [name |-> a]
  <2>1. PICK a \in Artists : k = <<"author", BackfillSlug(a)>>
    OBVIOUS
  <2>2. authors[<<"author", BackfillSlug(a)>>] = [name |-> a]
    BY <1>4
  <2> HIDE DEF authors
  <2> QED
    BY <2>1, <2>2
<1> HIDE DEF authors
<1>6. ASSUME NEW artist \in Artists PROVE named(artist) = {BackfillSlug(artist)}
  <2>1. \A k \in DOMAIN authors : authors[k].name = artist => k[2] = BackfillSlug(artist)
    BY <1>5
  <2>2. <<"author", BackfillSlug(artist)>> \in {key \in DOMAIN authors : authors[key].name = artist}
    <3>1. /\ <<"author", BackfillSlug(artist)>> \in DOMAIN authors
          /\ authors[<<"author", BackfillSlug(artist)>>] = [name |-> artist]
      BY <1>4
    <3> QED
      BY <3>1
  <2>3. BackfillSlug(artist) \in named(artist)
    BY <2>2
  <2> QED
    BY <2>1, <2>3
<1>7. named(None) = {}
  <2>1. None \notin Artists
    BY DEF Artists
  <2> QED
    BY <1>5, <2>1
<1> HIDE DEF named
<1>8. ASSUME NEW slug, <<"item", slug>> \in DOMAIN db
      PROVE  /\ db[<<"item", slug>>].kind = "photo" => credit(slug) = slugify(Photographer)
             /\ db[<<"item", slug>>].kind = "song" =>
                   LET artist == db[<<"song", slug>>].artist
                   IN  credit(slug) = IF artist = None THEN None ELSE BackfillSlug(artist)
  <2>1. ASSUME db[<<"item", slug>>].kind = "song"
        PROVE  LET artist == db[<<"song", slug>>].artist
               IN  credit(slug) = IF artist = None THEN None ELSE BackfillSlug(artist)
    <3> DEFINE artist == db[<<"song", slug>>].artist
    <3>1. artist \in Artists \cup {None}
      <4>1. <<"song", slug>> \in DOMAIN db
        BY <1>2, <1>8, <2>1 DEF DbInv, SongsHaveRows
      <4> QED
        BY <1>3, <4>1
    <3>2. CASE artist = None
      BY <1>7, <2>1, <3>2
    <3>3. CASE artist # None
      <4>1. named(artist) = {BackfillSlug(artist)}
        BY <1>6, <3>1, <3>3
      <4> QED
        BY <2>1, <3>3, <4>1
    <3> QED
      BY <3>2, <3>3
  <2> QED
    BY <2>1
<1> HIDE DEF credit
<1>9. /\ \A k \in DOMAIN items : k \in DOMAIN db /\ k[1] = "item"
                                 /\ items[k] = [db[k] EXCEPT !.author = credit(k[2])]
      /\ \A k \in DOMAIN db : k[1] = "item" => k \in DOMAIN items /\ k = <<"item", k[2]>>
  <2>1. \A slug : slug \in Rows("item") <=> <<"item", slug>> \in DOMAIN db
    BY <1>2, KeysOf DEF Rows
  <2>2. \A k \in DOMAIN db : k[1] = "item" => k = <<"item", k[2]>>
    BY <1>2 DEF RowsComplete, IsKey
  <2>3. \A k \in DOMAIN items : \E slug \in Rows("item") : k = <<"item", slug>>
    OBVIOUS
  <2> QED
    BY <2>1, <2>2, <2>3
<1> HIDE DEF items
<1>10. /\ DOMAIN photographer = {<<"author", slugify(Photographer)>>}
       /\ \A k \in DOMAIN photographer : photographer[k] = [name |-> Photographer]
  OBVIOUS
<1> HIDE DEF photographer
<1>11. /\ DOMAIN db' = DOMAIN items \cup DOMAIN authors \cup DOMAIN photographer \cup DOMAIN db
       /\ \A k \in DOMAIN items : db'[k] = items[k]
       /\ \A k \in DOMAIN authors \ DOMAIN items : db'[k] = authors[k]
       /\ \A k \in DOMAIN photographer \ (DOMAIN items \cup DOMAIN authors) : db'[k] = photographer[k]
       /\ \A k \in DOMAIN db \ (DOMAIN items \cup DOMAIN authors \cup DOMAIN photographer) : db'[k] = db[k]
  <2> DEFINE one == Over(photographer, db)
             two == Over(authors, one)
             three == Over(items, two)
  <2>1. /\ DOMAIN one = DOMAIN photographer \cup DOMAIN db
        /\ \A k \in DOMAIN photographer : one[k] = photographer[k]
        /\ \A k \in DOMAIN db \ DOMAIN photographer : one[k] = db[k]
    BY OverValues
  <2> HIDE DEF one
  <2>2. /\ DOMAIN two = DOMAIN authors \cup DOMAIN one
        /\ \A k \in DOMAIN authors : two[k] = authors[k]
        /\ \A k \in DOMAIN one \ DOMAIN authors : two[k] = one[k]
    BY OverValues
  <2> HIDE DEF two
  <2>3. /\ DOMAIN three = DOMAIN items \cup DOMAIN two
        /\ \A k \in DOMAIN items : three[k] = items[k]
        /\ \A k \in DOMAIN two \ DOMAIN items : three[k] = two[k]
    BY OverValues
  <2>4. db' = three
    BY <1>1 DEF one, two
  <2> HIDE DEF three
  <2> QED
    BY <2>1, <2>2, <2>3, <2>4
<1>12. \A k \in DOMAIN authors \cup DOMAIN photographer : k[1] = "author"
  BY <1>5, <1>10
<1>13. \A k \in DOMAIN db' : k[1] # "author" => k \in DOMAIN db
  BY <1>9, <1>11, <1>12
<1>14. \A k \in DOMAIN db : k[1] \in {"album", "song"} => db'[k] = db[k]
  BY <1>9, <1>11, <1>12
<1>15. ASSUME NEW k \in DOMAIN db', k[1] = "author"
       PROVE  IsKey(k) /\ DOMAIN db'[k] = {"name"} /\ db'[k].name \in Names /\ Base[db'[k].name] = k[2][1]
  <2>1. CASE k \in DOMAIN authors
    <3>1. PICK a \in Artists : k = <<"author", BackfillSlug(a)>> /\ authors[k] = [name |-> a]
      BY <1>5, <2>1
    <3>2. db'[k] = [name |-> a]
      BY <1>9, <1>11, <1>15, <2>1, <3>1
    <3> QED
      BY <1>3, <3>1, <3>2 DEF IsKey, Tables, BackfillSlug
  <2>2. CASE k \in DOMAIN photographer /\ k \notin DOMAIN authors
    <3>1. db'[k] = [name |-> Photographer] /\ k = <<"author", slugify(Photographer)>>
      BY <1>9, <1>10, <1>11, <1>15, <2>2
    <3> QED
      BY <3>1, CatalogueAssumption DEF IsKey, Tables, slugify
  <2>3. CASE k \notin DOMAIN authors /\ k \notin DOMAIN photographer
    <3>1. k \in DOMAIN db /\ db'[k] = db[k]
      BY <1>9, <1>11, <1>15, <2>3
    <3>2. IsKey(k) /\ DOMAIN db[k] = {"name"}
      BY <1>2, <1>15, <3>1 DEF RowsComplete, ColumnsOf
    <3>3. Fits(k, "name", db[k].name)
      BY <1>2, <3>1, <3>2 DEF DbInv, RowsFit
    <3> QED
      BY <3>1, <3>2, <3>3 DEF Fits
  <2> QED
    BY <2>1, <2>2, <2>3
<1>16. ASSUME NEW k \in DOMAIN db, k[1] = "item"
       PROVE  /\ DOMAIN db'[k] = DOMAIN db[k]
              /\ \A col \in DOMAIN db[k] \ {"author"} : db'[k][col] = db[k][col]
              /\ db'[k].author = credit(k[2])
  <2>1. db'[k] = [db[k] EXCEPT !.author = credit(k[2])]
    BY <1>9, <1>11, <1>16
  <2>2. "author" \in DOMAIN db[k]
    BY <1>2, <1>16 DEF RowsComplete, ColumnsOf
  <2> QED
    BY <2>1, <2>2
<1>17. ASSUME NEW k \in DOMAIN db, k[1] = "item"
       PROVE  /\ db[k].kind = "photo" => db'[k].author = slugify(Photographer)
              /\ db[k].kind = "song" =>
                     LET artist == db[<<"song", k[2]>>].artist
                     IN  db'[k].author = IF artist = None THEN None ELSE BackfillSlug(artist)
  <2>1. k = <<"item", k[2]>>
    BY <1>9, <1>17
  <2>2. db'[k].author = credit(k[2])
    BY <1>16, <1>17
  <2> QED
    BY <1>8, <2>1, <2>2
<1>18. DOMAIN db \subseteq DOMAIN db' /\ <<"author", slugify(Photographer)>> \in DOMAIN db'
       /\ \A a \in Artists : <<"author", BackfillSlug(a)>> \in DOMAIN db'
  BY <1>4, <1>10, <1>11
<1> QED
  BY <1>13, <1>14, <1>15, <1>16, <1>17, <1>18

\* It keeps the invariant: nobody runs before it.
LEMMA BackfillStep ==
  ASSUME Inv, Backfill
  PROVE  Inv'
<1>1. /\ DOMAIN db \subseteq DOMAIN db'
      /\ <<"author", slugify(Photographer)>> \in DOMAIN db'
      /\ \A a \in Artists : <<"author", BackfillSlug(a)>> \in DOMAIN db'
      /\ \A k \in DOMAIN db' : k[1] # "author" => k \in DOMAIN db
      /\ \A k \in DOMAIN db' : k[1] = "author" => /\ IsKey(k) /\ DOMAIN db'[k] = {"name"}
                                                 /\ db'[k].name \in Names /\ Base[db'[k].name] = k[2][1]
      /\ \A k \in DOMAIN db : k[1] \in {"album", "song"} => db'[k] = db[k]
      /\ \A k \in DOMAIN db : k[1] = "item" =>
            /\ DOMAIN db'[k] = DOMAIN db[k]
            /\ \A col \in DOMAIN db[k] \ {"author"} : db'[k][col] = db[k][col]
            /\ db[k].kind = "photo" => db'[k].author = slugify(Photographer)
            /\ db[k].kind = "song" =>
                  LET artist == db[<<"song", k[2]>>].artist
                  IN  db'[k].author = IF artist = None THEN None ELSE BackfillSlug(artist)
  BY Backfilled
<1>2. DbInv /\ RowsComplete(db) /\ RowsFit(db) /\ SongsHaveRows(db)
  BY DEF Inv, DbInv
<1>3. ~migrated /\ migrated' = TRUE /\ run' = run
  BY DEF Backfill
<1>4. /\ Artists \subseteq Names
      /\ \A k \in DOMAIN db : k[1] = "song" => db[k].artist \in Artists \cup {None}
  BY <1>2, ArtistsAreNames
<1>5. ASSUME NEW k \in DOMAIN db' PROVE (k \in DOMAIN db /\ k[1] \in {"album", "song", "item"}) \/ k[1] = "author"
  BY <1>1, <1>2 DEF RowsComplete, IsKey, Tables
<1>6. ASSUME NEW k \in DOMAIN db PROVE IsKey(k) /\ DOMAIN db[k] = ColumnsOf(k[1])
  BY <1>2 DEF RowsComplete
<1>7. RowsComplete(db)'
  <2>1. ASSUME NEW k \in DOMAIN db' PROVE IsKey(k) /\ DOMAIN db'[k] = ColumnsOf(k[1])
    <3>1. CASE k[1] = "author"
      BY <1>1, <3>1 DEF ColumnsOf
    <3>2. CASE k \in DOMAIN db /\ k[1] \in {"album", "song", "item"}
      BY <1>1, <1>6, <3>2
    <3> QED
      BY <1>5, <3>1, <3>2
  <2> QED
    BY <2>1 DEF RowsComplete
<1>8. ASSUME NEW k \in DOMAIN db, k[1] = "item"
      PROVE  /\ db[k].kind \in {"song", "photo"} /\ db'[k].kind = db[k].kind
             /\ db'[k].author # None => <<"author", db'[k].author>> \in DOMAIN db'
  <2>1. "kind" \in DOMAIN db[k] /\ Fits(k, "kind", db[k].kind)
    BY <1>2, <1>6, <1>8 DEF ColumnsOf, RowsFit
  <2>2. db[k].kind \in {"song", "photo"} /\ db'[k].kind = db[k].kind
    BY <1>1, <1>8, <2>1 DEF Fits
  <2>3. CASE db[k].kind = "photo"
    BY <1>1, <1>8, <2>2, <2>3
  <2>4. CASE db[k].kind = "song"
    <3>1. <<"song", k[2]>> \in DOMAIN db
      BY <1>2, <1>8, <2>4 DEF SongsHaveRows
    <3>2. db[<<"song", k[2]>>].artist \in Artists \cup {None}
      BY <1>4, <3>1
    <3>3. db'[k].author = IF db[<<"song", k[2]>>].artist = None THEN None
                          ELSE BackfillSlug(db[<<"song", k[2]>>].artist)
      BY <1>1, <1>8, <2>4
    <3> QED
      BY <1>1, <2>2, <3>2, <3>3
  <2> QED
    BY <2>2, <2>3, <2>4
<1>9. RowsFit(db)'
  <2>1. ASSUME NEW k \in DOMAIN db', NEW col \in DOMAIN db'[k]
        PROVE  Fits(k, col, db'[k][col]) /\ Refers(col, db'[k][col]) \subseteq DOMAIN db'
    <3>1. CASE k[1] = "author"
      <4>1. col = "name" /\ db'[k][col] \in Names /\ Base[db'[k][col]] = k[2][1]
        BY <1>1, <2>1, <3>1
      <4> QED
        BY <4>1 DEF Fits, Refers
    <3>2. CASE k \in DOMAIN db /\ col \in DOMAIN db[k] /\ db'[k][col] = db[k][col]
      BY <1>1, <1>2, <3>2 DEF RowsFit
    <3>3. CASE k \in DOMAIN db /\ k[1] = "item" /\ col = "author"
      BY <1>8, <3>3 DEF Fits, Refers
    <3>4. CASE k \in DOMAIN db /\ k[1] \in {"album", "song"}
      BY <1>1, <2>1, <3>2, <3>4
    <3>5. CASE k \in DOMAIN db /\ k[1] = "item" /\ col # "author"
      <4>1. col \in DOMAIN db[k] \ {"author"}
        BY <1>1, <2>1, <3>5
      <4>2. db'[k][col] = db[k][col]
        BY <1>1, <3>5, <4>1
      <4> QED
        BY <3>2, <3>5, <4>1, <4>2
    <3> QED
      BY <1>5, <3>1, <3>3, <3>4, <3>5
  <2> QED
    BY <2>1 DEF RowsFit
<1>10. SongsHaveRows(db)'
  <2>1. ASSUME NEW k \in DOMAIN db', k[1] = "song"
        PROVE  <<"item", k[2]>> \in DOMAIN db' /\ db'[<<"item", k[2]>>].kind = "song"
    <3>1. k \in DOMAIN db
      BY <1>1, <2>1
    <3>2. <<"item", k[2]>> \in DOMAIN db /\ db[<<"item", k[2]>>].kind = "song"
      BY <1>2, <2>1, <3>1 DEF SongsHaveRows
    <3>3. db'[<<"item", k[2]>>].kind = db[<<"item", k[2]>>].kind
      BY <1>8, <3>2
    <3> QED
      BY <1>1, <3>2, <3>3
  <2>2. ASSUME NEW k \in DOMAIN db', k[1] = "item", db'[k].kind = "song" PROVE <<"song", k[2]>> \in DOMAIN db'
    <3>1. k \in DOMAIN db
      BY <1>1, <2>2
    <3>2. db[k].kind = "song"
      BY <1>8, <2>2, <3>1
    <3> QED
      BY <1>1, <1>2, <2>2, <3>1, <3>2 DEF SongsHaveRows
  <2> QED
    BY <2>1, <2>2 DEF SongsHaveRows
<1>11. CreditsFit(db)'
  <2>1. ASSUME NEW k \in DOMAIN db', k[1] = "song"
        PROVE  LET artist == db'[k].artist
                   author == db'[<<"item", k[2]>>].author
               IN  IF artist = None THEN author = None ELSE author # None /\ author[1] = Base[artist]
    <3> DEFINE m == <<"item", k[2]>>
    <3>1. k \in DOMAIN db /\ db'[k] = db[k] /\ k = <<"song", k[2]>>
      BY <1>1, <1>6, <2>1 DEF IsKey
    <3>2. m \in DOMAIN db /\ db[m].kind = "song"
      BY <1>2, <2>1, <3>1 DEF SongsHaveRows
    <3>3. db'[m].author = IF db[k].artist = None THEN None ELSE BackfillSlug(db[k].artist)
      <4>1. m[1] = "item" /\ <<"song", m[2]>> = k
        BY <3>1
      <4> HIDE DEF m
      <4> QED
        BY <1>1, <3>2, <4>1
    <3>4. db[k].artist \in Artists \cup {None}
      BY <1>4, <2>1, <3>1
    <3>5. ASSUME NEW a \in Artists PROVE BackfillSlug(a) # None /\ BackfillSlug(a)[1] = Base[a]
      <4>1. BackfillSlug(a) \in {Base[name] : name \in Names} \X Nat
        <5> DEFINE upto == {b \in Artists : Base[b] = Base[a] /\ Place(b) <= Place(a)}
        <5>1. IsFiniteSet(Artists)
          BY <1>2, ArtistsAreNames
        <5>2. IsFiniteSet(upto)
          BY <5>1, FS_Subset
        <5>3. Cardinality(upto) \in Nat
          BY <5>2, FS_CardinalityType
        <5>4. BackfillSlug(a) = <<Base[a], Cardinality(upto)>>
          BY DEF BackfillSlug
        <5> HIDE DEF upto
        <5> QED
          BY <1>4, <3>5, <5>3, <5>4
      <4> QED
        BY <4>1, CatalogueAssumption DEF BackfillSlug
    <3> QED
      BY <3>1, <3>3, <3>4, <3>5
  <2> QED
    BY <2>1 DEF CreditsFit
<1>12. DbInv'
  BY <1>3, <1>7, <1>9, <1>10, <1>11 DEF DbInv
<1>13. \A r \in Runs : ~Running(r)
  BY <1>3 DEF Inv, Together
<1>14. RunsAreRecords'
  BY <1>3 DEF Inv, RunsAreRecords, Running
<1>15. Together'
  BY <1>3 DEF Inv, Together
<1>16. \A r \in Runs : ~Running(r)'
  BY <1>3, <1>13 DEF Running
<1> QED
  BY <1>12, <1>14, <1>15, <1>16 DEF Inv

\* Its reverse deletes the authors, and every reference to them.
LEMMA DowngradeStep ==
  ASSUME Inv, Downgrade
  PROVE  Inv'
<1>1. /\ migrated' = FALSE /\ run' = run /\ \A r \in Runs : ~Running(r)
      /\ db' = [k \in {key \in DOMAIN db : key[1] # "author"} |->
                   IF k[1] = "item" THEN [db[k] EXCEPT !.author = None] ELSE db[k]]
  BY DEF Downgrade
<1>2. RowsComplete(db) /\ RowsFit(db) /\ SongsHaveRows(db)
  BY DEF Inv, DbInv
<1>3. /\ DOMAIN db' = {k \in DOMAIN db : k[1] # "author"}
      /\ \A k \in DOMAIN db' : k[1] # "item" => db'[k] = db[k]
      /\ \A k \in DOMAIN db' : k[1] = "item" => db'[k] = [db[k] EXCEPT !.author = None]
  BY <1>1
<1>4. \A k \in DOMAIN db' : IsKey(k) /\ DOMAIN db[k] = ColumnsOf(k[1]) /\ DOMAIN db'[k] = ColumnsOf(k[1])
  <2>1. \A k \in DOMAIN db' : IsKey(k) /\ DOMAIN db[k] = ColumnsOf(k[1])
    BY <1>2, <1>3 DEF RowsComplete
  <2>2. \A k \in DOMAIN db' : DOMAIN db'[k] = DOMAIN db[k]
    BY <1>3
  <2> QED
    BY <2>1, <2>2
<1>5. ASSUME NEW k \in DOMAIN db', k[1] = "item"
      PROVE  db'[k].author = None /\ \A col \in DOMAIN db'[k] \ {"author"} : db'[k][col] = db[k][col]
  <2>1. "author" \in DOMAIN db[k]
    BY <1>4, <1>5 DEF ColumnsOf
  <2>2. db'[k] = [db[k] EXCEPT !.author = None]
    BY <1>3, <1>5
  <2> QED
    BY <2>1, <2>2
<1>6. RowsComplete(db)'
  BY <1>4 DEF RowsComplete
<1>7. RowsFit(db)'
  <2>1. ASSUME NEW k \in DOMAIN db', NEW col \in DOMAIN db'[k]
        PROVE  Fits(k, col, db'[k][col]) /\ Refers(col, db'[k][col]) \subseteq DOMAIN db'
    <3>1. CASE k[1] = "item" /\ col = "author"
      BY <1>5, <3>1 DEF Fits, Refers
    <3>2. CASE ~(k[1] = "item" /\ col = "author")
      <4>1. db'[k][col] = db[k][col] /\ k \in DOMAIN db /\ col \in DOMAIN db[k]
        <5>1. CASE k[1] = "item"
          BY <1>3, <1>4, <1>5, <2>1, <3>2, <5>1
        <5>2. CASE k[1] # "item"
          BY <1>3, <2>1, <5>2
        <5> QED
          BY <5>1, <5>2
      <4>2. Fits(k, col, db[k][col]) /\ Refers(col, db[k][col]) \subseteq DOMAIN db
        BY <1>2, <4>1 DEF RowsFit
      <4>3. col # "author"
        BY <1>4, <2>1, <3>2 DEF ColumnsOf, IsKey, Tables
      <4>4. Refers(col, db[k][col]) \subseteq DOMAIN db'
        BY <1>3, <4>2, <4>3 DEF Refers
      <4> QED
        BY <4>1, <4>2, <4>4
    <3> QED
      BY <3>1, <3>2
  <2> QED
    BY <2>1 DEF RowsFit
<1>8. ASSUME NEW k \in DOMAIN db', k[1] = "item" PROVE db'[k].kind = db[k].kind
  <2>1. "kind" \in DOMAIN db'[k] \ {"author"}
    BY <1>4, <1>8 DEF ColumnsOf
  <2> QED
    BY <1>5, <1>8, <2>1
<1>9. SongsHaveRows(db)'
  <2>1. \A i : <<"item", i>> \in DOMAIN db' <=> <<"item", i>> \in DOMAIN db
    BY <1>3
  <2>2. \A i : <<"song", i>> \in DOMAIN db' <=> <<"song", i>> \in DOMAIN db
    BY <1>3
  <2>3. ASSUME NEW k \in DOMAIN db', k[1] = "song"
        PROVE  <<"item", k[2]>> \in DOMAIN db' /\ db'[<<"item", k[2]>>].kind = "song"
    <3>1. <<"item", k[2]>> \in DOMAIN db /\ db[<<"item", k[2]>>].kind = "song"
      BY <1>2, <1>3, <2>3 DEF SongsHaveRows
    <3> QED
      BY <1>8, <2>1, <3>1
  <2>4. ASSUME NEW k \in DOMAIN db', k[1] = "item", db'[k].kind = "song" PROVE <<"song", k[2]>> \in DOMAIN db'
    BY <1>2, <1>3, <1>8, <2>2, <2>4 DEF SongsHaveRows
  <2> QED
    BY <2>3, <2>4 DEF SongsHaveRows
<1>10. DbInv'
  BY <1>1, <1>6, <1>7, <1>9 DEF DbInv
<1>11. RunsAreRecords' /\ \A r \in Runs : ~Running(r)'
  BY <1>1 DEF Inv, RunsAreRecords, Running
<1>12. Together'
  BY <1>1, <1>11 DEF Inv, Together
<1> QED
  BY <1>10, <1>11, <1>12 DEF Inv

-----------------------------------------------------------------------------
\* The invariant

\* It holds of an empty library, ...
LEMMA InitInv ==
  ASSUME Init
  PROVE  Inv
<1>1. DOMAIN db = {} /\ migrated = FALSE
  BY DEF Init, Empty
<1>2. DbInv
  BY <1>1 DEF DbInv, RowsComplete, RowsFit, SongsHaveRows
<1>3. \A r \in Runs : run[r] = Idle /\ run[r].command = None /\ DOMAIN run[r].wrote = {}
  BY DEF Init, Idle, Empty
<1>4. RunsAreRecords
  <2>1. \A r \in Runs : run[r] = [command |-> run[r].command, line |-> run[r].line, at |-> run[r].at,
                                  seen |-> run[r].seen, wrote |-> run[r].wrote]
    BY <1>3 DEF Idle
  <2> QED
    BY <1>3, <2>1 DEF RunsAreRecords, Init
<1>5. Together
  BY <1>3, CatalogueAssumption DEF Together, Running
<1> QED
  BY <1>2, <1>3, <1>4, <1>5 DEF Inv, Running

\* ... and every step keeps it.
LEMMA NextInv ==
  ASSUME Inv, [Next]_vars
  PROVE  Inv'
<1>1. CASE Backfill
  BY <1>1, BackfillStep
<1>2. CASE Downgrade
  BY <1>2, DowngradeStep
<1>3. ASSUME NEW r \in Runs, NEW c \in Commands, Start(r, c) PROVE Inv'
  BY <1>3, StartStep
<1>4. ASSUME NEW r \in Runs, Query(r) PROVE Inv'
  BY <1>4, QueryStep
<1>5. ASSUME NEW r \in Runs, Flush(r) PROVE Inv'
  BY <1>5, FlushStep
<1>6. ASSUME NEW r \in Runs, IntegrityError(r) \/ DeadlockDetected(r) \/ Killed(r) PROVE Inv'
  <2>1. Rollback(r) /\ UNCHANGED <<db, migrated>>
    BY <1>6 DEF IntegrityError, DeadlockDetected, Killed
  <2> QED
    BY <2>1, RollbackStep
<1>7. ASSUME NEW r \in Runs, Commit(r) PROVE Inv'
  BY <1>7, CommitStep
<1>8. CASE UNCHANGED vars
  <2>1. db' = db /\ migrated' = migrated /\ run' = run
    BY <1>8 DEF vars
  <2>2. \A r \in Runs : Transaction(r) => Transaction(r)'
    BY <2>1, Unmoved
  <2>3. DbInv' /\ RunsAreRecords' /\ Together'
    BY <2>1 DEF Inv, DbInv, RunsAreRecords, Together, Running
  <2> QED
    BY <2>1, <2>2, <2>3 DEF Inv, Running
<1> QED
  BY <1>1, <1>2, <1>3, <1>4, <1>5, <1>6, <1>7, <1>8 DEF Next

\* The invariant of the catalogue: complete rows that refer to rows, and transactions
\* that hold what they have saved, in rows that nobody else writes.
THEOREM Invariance == Spec => []Inv
<1>1. Init => Inv
  BY InitInv
<1>2. Inv /\ [Next]_vars => Inv'
  BY NextInv
<1> QED
  BY <1>1, <1>2, PTL DEF Spec

\* Rows refer to rows, songs and no others have a row of songs, and an author's name
\* has the slug of its row (the foreign keys; get_or_create_author, authors.py).
LEMMA InvTypes ==
  ASSUME Inv
  PROVE  TypeOK
<1>1. migrated \in BOOLEAN /\ RowsComplete(db) /\ RowsFit(db) /\ SongsHaveRows(db)
  BY DEF Inv, DbInv
<1>2. \A table, i : i \in Rows(table) <=> <<table, i>> \in DOMAIN db
  BY <1>1, KeysOf DEF Rows
<1>3. \A k \in DOMAIN db : k[1] \in {"album", "item", "song", "author"}
  BY <1>1 DEF RowsComplete, IsKey, Tables
<1>4. ASSUME NEW slug \in Rows("item")
      PROVE  LET row == db[<<"item", slug>>] IN
             /\ row.kind \in {"song", "photo"}
             /\ row.album \in Rows("album") \cup {None}
             /\ row.author \in Rows("author") \cup {None}
  <2> DEFINE k == <<"item", slug>>
  <2>1. k \in DOMAIN db
    BY <1>2
  <2>2. DOMAIN db[k] = {"title", "subtitle", "kind", "album", "author"}
    BY <1>1, <2>1 DEF RowsComplete, ColumnsOf
  <2>3. \A col \in DOMAIN db[k] : Fits(k, col, db[k][col]) /\ Refers(col, db[k][col]) \subseteq DOMAIN db
    BY <1>1, <2>1 DEF RowsFit
  <2>4. db[k].kind \in {"song", "photo"}
    BY <2>2, <2>3 DEF Fits
  <2>5. Refers("album", db[k].album) \subseteq DOMAIN db /\ Refers("author", db[k].author) \subseteq DOMAIN db
    BY <2>2, <2>3
  <2>6. /\ db[k].album # None => <<"album", db[k].album>> \in DOMAIN db
        /\ db[k].author # None => <<"author", db[k].author>> \in DOMAIN db
    BY <2>5 DEF Refers
  <2> QED
    BY <1>2, <2>4, <2>6
<1>5. Rows("song") = {slug \in Rows("item") : db[<<"item", slug>>].kind = "song"}
  <2>1. \A i : <<"song", i>> \in DOMAIN db <=>
                  <<"item", i>> \in DOMAIN db /\ db[<<"item", i>>].kind = "song"
    BY <1>1 DEF SongsHaveRows
  <2> QED
    BY <1>2, <2>1
<1>6. ASSUME NEW slug \in Rows("author")
      PROVE  LET name == db[<<"author", slug>>].name IN name \in Names /\ Base[name] = slug[1]
  <2>1. <<"author", slug>> \in DOMAIN db
    BY <1>2
  <2>2. "name" \in DOMAIN db[<<"author", slug>>]
    BY <1>1, <2>1 DEF RowsComplete, ColumnsOf
  <2>3. Fits(<<"author", slug>>, "name", db[<<"author", slug>>].name)
    BY <1>1, <2>1, <2>2 DEF RowsFit
  <2> QED
    BY <2>3 DEF Fits
<1>7. \A r \in Runs : run[r].command \in Commands \cup {None} /\ (run[r] = Idle \/ Running(r))
  BY DEF Inv, RunsAreRecords
<1> QED
  BY <1>1, <1>3, <1>4, <1>5, <1>6, <1>7 DEF TypeOK

\* Type correctness.
THEOREM TypeCorrect == Spec => []TypeOK
<1>1. Inv => TypeOK
  BY InvTypes
<1> QED
  BY <1>1, Invariance, PTL

\* A song's author has a row, whose name has the slug.
LEMMA InvCredits ==
  ASSUME Inv
  PROVE  CreditsFollowSlugs
<1> SUFFICES ASSUME migrated, NEW i \in Rows("song") \cap Rows("item")
             PROVE  LET artist == db[<<"song", i>>].artist
                        author == db[<<"item", i>>].author
                    IN  IF artist = None THEN author = None
                        ELSE author # None /\ Base[db[<<"author", author>>].name] = Base[artist]
  BY DEF CreditsFollowSlugs
<1> DEFINE artist == db[<<"song", i>>].artist
           author == db[<<"item", i>>].author
<1>1. TypeOK /\ RowsComplete(db) /\ CreditsFit(db)
  BY InvTypes DEF Inv, DbInv
<1>2. <<"song", i>> \in DOMAIN db
  BY <1>1, KeysOf DEF Rows
<1>3. IF artist = None THEN author = None ELSE author # None /\ author[1] = Base[artist]
  <2>1. <<"song", i>>[1] = "song" /\ <<"song", i>>[2] = i
    OBVIOUS
  <2> QED
    BY <1>1, <1>2, <2>1 DEF CreditsFit
<1>4. author # None => Base[db[<<"author", author>>].name] = author[1]
  BY <1>1 DEF TypeOK
<1> QED
  BY <1>3, <1>4

\* Whoever wrote a song last - seed, generator or migration - it is credited to an
\* author whose name has the slug of its artist, and to nobody if it has none
\* (get_or_create_author, authors.py; upgrade, b2c3d4e5f6a7:34).
THEOREM Credited == Spec => []CreditsFollowSlugs
<1>1. Inv => CreditsFollowSlugs
  BY InvCredits
<1> QED
  BY <1>1, Invariance, PTL

-----------------------------------------------------------------------------
\* A fixture is published

\* The lines of a fixture that are no albums are items.
LEMMA FixtureLines ==
  ASSUME NEW v \in Versions
  PROVE  /\ v \in Commands /\ v # Bulk /\ Work[v] = Lines[v]
         /\ Len(Lines[v]) \in Nat /\ DOMAIN Lines[v] = 1..Len(Lines[v])
         /\ \A j \in DOMAIN Lines[v] : /\ AlbumLine(v, j) <=> Lines[v][j].kind = "album"
                                       /\ ItemLine(v, j) <=> Lines[v][j].kind # "album"
<1>1. v \in Commands /\ v # Bulk
  BY CatalogueAssumption DEF Commands
<1>2. /\ Work[v] = Lines[v] /\ Len(Work[v]) \in Nat /\ DOMAIN Work[v] = 1..Len(Work[v])
  BY <1>1, WorkLines
<1>3. ASSUME NEW j \in DOMAIN Work[v]
      PROVE  /\ AlbumLine(v, j) <=> Work[v][j].kind = "album"
             /\ ItemLine(v, j) <=> Work[v][j].kind # "album"
  BY <1>1, <1>3, LineKinds DEF AlbumLine, ItemLine, ArtistLine
<1> QED
  BY <1>1, <1>2, <1>3

\* An album is saved once, ...
LEMMA AlbumOnce ==
  ASSUME NEW v \in Versions, NEW j \in DOMAIN Lines[v], Lines[v][j].kind = "album",
         NEW col \in {"title", "subtitle"}
  PROVE  /\ <<j, 2>> \in Saves(v) /\ SetsLast(v, <<j, 2>>, <<"album", Lines[v][j].slug>>, col)
         /\ At(v, <<j, 2>>).cols[col] = Lines[v][j][col]
<1> DEFINE k == <<"album", Lines[v][j].slug>>
<1>1. v \in Commands /\ v # Bulk /\ Work[v] = Lines[v] /\ AlbumLine(v, j) /\ Lines[v] \in AllLines
  BY FixtureLines DEF AllLines
<1>2. <<j, 2>> \in Saves(v) /\ AlbumSave(v, <<j, 2>>)
  BY <1>1, SavesOfLines
<1>3. At(v, <<j, 2>>).key = k /\ At(v, <<j, 2>>).cols = Texts(Lines[v][j])
  BY <1>1, <1>2 DEF AlbumSave, Save, LineAt
<1>4. /\ col \in DOMAIN At(v, <<j, 2>>).cols /\ At(v, <<j, 2>>).cols[col] = Lines[v][j][col]
  BY <1>3 DEF Texts
<1>5. ASSUME NEW q \in Saves(v), Sets(v, q, k, col) PROVE q = <<j, 2>>
  <2>1. k[1] = "album" /\ k[2] = Lines[v][j].slug
    OBVIOUS
  <2>2. q = <<q[1], q[2]>> /\ q[1] \in DOMAIN Work[v] /\ k[2] = Work[v][q[1]].slug /\ q[2] = 2
        /\ AlbumLine(v, q[1])
    BY <1>1, <1>5, <2>1, Setters
  <2>3. q[1] = j
    BY <1>1, <2>1, <2>2, LinesAssumption DEF AlbumLine
  <2> QED
    BY <2>2, <2>3
<1> QED
  BY <1>2, <1>3, <1>4, <1>5 DEF SetsLast, Sets

\* ... an item's texts are set last where it is listed last, ...
LEMMA LastTexts ==
  ASSUME NEW v \in Versions, NEW m \in DOMAIN Lines[v], Lines[v][m].kind # "album",
         \A j \in Listed(Lines[v], Lines[v][m].slug) : j <= m,
         NEW col \in {"title", "subtitle"}
  PROVE  /\ <<m, 2>> \in Saves(v) /\ SetsLast(v, <<m, 2>>, <<"item", Lines[v][m].slug>>, col)
         /\ At(v, <<m, 2>>).cols[col] = Lines[v][m][col]
<1> DEFINE k == <<"item", Lines[v][m].slug>>
           line == Lines[v][m]
<1>1. v \in Commands /\ v # Bulk /\ Work[v] = Lines[v] /\ ItemLine(v, m) /\ m \in Nat
  BY FixtureLines
<1>2. <<m, 2>> \in Saves(v) /\ ItemUpsert(v, <<m, 2>>)
  BY <1>1, SavesOfLines DEF ItemInsert
<1>3. At(v, <<m, 2>>).key = k /\ At(v, <<m, 2>>).cols = Over(AlbumColumn(line), Texts(line))
  BY <1>1, <1>2 DEF ItemUpsert, Save, LineAt
<1>4. col \in DOMAIN At(v, <<m, 2>>).cols /\ At(v, <<m, 2>>).cols[col] = line[col]
  <2>1. /\ DOMAIN Over(AlbumColumn(line), Texts(line)) = DOMAIN AlbumColumn(line) \cup DOMAIN Texts(line)
        /\ \A x \in DOMAIN Texts(line) \ DOMAIN AlbumColumn(line) :
              Over(AlbumColumn(line), Texts(line))[x] = Texts(line)[x]
    BY OverValues
  <2>2. col \in DOMAIN Texts(line) \ DOMAIN AlbumColumn(line) /\ Texts(line)[col] = line[col]
    BY DEF AlbumColumn, Texts, Empty
  <2> QED
    BY <1>3, <2>1, <2>2
<1>5. ASSUME NEW q \in Saves(v), Sets(v, q, k, col) PROVE q = <<m, 2>> \/ Precedes(q, <<m, 2>>)
  <2>1. k[1] = "item" /\ k[2] = line.slug
    OBVIOUS
  <2>2. q = <<q[1], q[2]>> /\ q[1] \in DOMAIN Work[v] /\ q[1] \in Nat /\ k[2] = Work[v][q[1]].slug
        /\ q[2] = 2 /\ ItemLine(v, q[1])
    BY <1>1, <1>5, <2>1, Setters
  <2>3. q[1] \in Listed(Lines[v], line.slug)
    BY <1>1, <2>1, <2>2 DEF Listed, ItemLine
  <2>4. q[1] <= m
    BY <2>3
  <2> QED
    BY <1>1, <2>2, <2>4 DEF Precedes
<1> QED
  BY <1>2, <1>3, <1>4, <1>5 DEF SetsLast, Sets

\* ... and its album in the last line that names one.
LEMMA LastAlbum ==
  ASSUME NEW v \in Versions, NEW m \in DOMAIN Lines[v], Lines[v][m].kind # "album",
         Lines[v][m].album # None,
         \A j \in Listed(Lines[v], Lines[v][m].slug) : Lines[v][j].album # None => j <= m
  PROVE  /\ <<m, 2>> \in Saves(v) /\ SetsLast(v, <<m, 2>>, <<"item", Lines[v][m].slug>>, "album")
         /\ At(v, <<m, 2>>).cols["album"] = Lines[v][m].album
<1> DEFINE k == <<"item", Lines[v][m].slug>>
           line == Lines[v][m]
<1>1. v \in Commands /\ v # Bulk /\ Work[v] = Lines[v] /\ ItemLine(v, m) /\ m \in Nat
  BY FixtureLines
<1>2. <<m, 2>> \in Saves(v) /\ ItemUpsert(v, <<m, 2>>)
  BY <1>1, SavesOfLines DEF ItemInsert
<1>3. At(v, <<m, 2>>).key = k /\ At(v, <<m, 2>>).cols = Over(AlbumColumn(line), Texts(line))
  BY <1>1, <1>2 DEF ItemUpsert, Save, LineAt
<1>4. "album" \in DOMAIN At(v, <<m, 2>>).cols /\ At(v, <<m, 2>>).cols["album"] = line.album
  <2>1. /\ DOMAIN Over(AlbumColumn(line), Texts(line)) = DOMAIN AlbumColumn(line) \cup DOMAIN Texts(line)
        /\ \A x \in DOMAIN AlbumColumn(line) :
              Over(AlbumColumn(line), Texts(line))[x] = AlbumColumn(line)[x]
    BY OverValues
  <2>2. "album" \in DOMAIN AlbumColumn(line) /\ AlbumColumn(line)["album"] = line.album
    BY DEF AlbumColumn
  <2> QED
    BY <1>3, <2>1, <2>2
<1>5. ASSUME NEW q \in Saves(v), Sets(v, q, k, "album") PROVE q = <<m, 2>> \/ Precedes(q, <<m, 2>>)
  <2>1. k[1] = "item" /\ k[2] = line.slug
    OBVIOUS
  <2>2. q = <<q[1], q[2]>> /\ q[1] \in DOMAIN Work[v] /\ q[1] \in Nat /\ k[2] = Work[v][q[1]].slug
        /\ q[2] = 2 /\ ItemLine(v, q[1]) /\ Work[v][q[1]].album # None
    BY <1>1, <1>5, <2>1, Setters
  <2>3. q[1] \in Listed(Lines[v], line.slug)
    BY <1>1, <2>1, <2>2 DEF Listed, ItemLine
  <2>4. q[1] <= m
    BY <1>1, <2>2, <2>3
  <2> QED
    BY <1>1, <2>2, <2>4 DEF Precedes
<1> QED
  BY <1>2, <1>3, <1>4, <1>5 DEF SetsLast, Sets

\* At the commit, a column no later statement of its command sets keeps the value
\* it was given.
LEMMA LastSetIsCommitted ==
  ASSUME Inv, NEW r \in Runs, Commit(r)
  PROVE  \A p \in Saves(run[r].command) : \A k, col :
           k[1] # "author" /\ SetsLast(run[r].command, p, k, col)
              => db'[k][col] = At(run[r].command, p).cols[col]
<1>1. \A p \in Saves(run[r].command) : \A k, col :
         k[1] # "author" /\ SetsLast(run[r].command, p, k, col)
            => col \in ColumnsOf(k[1]) /\ k \in DOMAIN db' /\ db'[k][col] = At(run[r].command, p).cols[col]
  BY Committed
<1> QED
  BY <1>1

\* A seed that commits has published its fixture.
LEMMA CommitPublishes ==
  ASSUME Inv, NEW r \in Runs, NEW v \in Versions, run[r].command = v, Commit(r)
  PROVE  Published(Lines[v])'
<1> DEFINE lines == Lines[v]
<1>1. \A p \in Saves(v) : \A k, col :
         k[1] # "author" /\ SetsLast(v, p, k, col) => db'[k][col] = At(v, p).cols[col]
  <2>1. \A p \in Saves(run[r].command) : \A k, col :
           k[1] # "author" /\ SetsLast(run[r].command, p, k, col)
              => db'[k][col] = At(run[r].command, p).cols[col]
    BY LastSetIsCommitted
  <2> QED
    BY <2>1
<1>2. /\ v \in Commands /\ v # Bulk /\ Work[v] = lines
      /\ Len(lines) \in Nat /\ DOMAIN lines = 1..Len(lines)
      /\ \A j \in DOMAIN lines : /\ AlbumLine(v, j) <=> lines[j].kind = "album"
                                 /\ ItemLine(v, j) <=> lines[j].kind # "album"
  BY FixtureLines
<1>3. ASSUME NEW a \in Albums(lines), NEW col \in {"title", "subtitle"}
      PROVE  db'[<<"album", a.slug>>][col] = a[col]
  <2>1. PICK j \in DOMAIN lines : lines[j] = a /\ a.kind = "album"
    BY DEF Albums, ToSet
  <2>2. /\ <<j, 2>> \in Saves(v) /\ SetsLast(v, <<j, 2>>, <<"album", a.slug>>, col)
        /\ At(v, <<j, 2>>).cols[col] = a[col]
    BY <2>1, AlbumOnce
  <2>3. <<"album", a.slug>>[1] # "author"
    OBVIOUS
  <2> QED
    BY <1>1, <2>2, <2>3
<1>4. ASSUME NEW l \in Items(lines)
      PROVE  LET last == lines[Max(Listed(lines, l.slug))]
                 placed == {i \in Listed(lines, l.slug) : lines[i].album # None}
                 row == db'[<<"item", l.slug>>]
             IN  /\ row.title = last.title /\ row.subtitle = last.subtitle
                 /\ row.author = AuthorId(last)
                 /\ l.kind = "song" => db'[<<"song", l.slug>>].artist = last.subtitle
                 /\ placed # {} => row.album = lines[Max(placed)].album
  <2> DEFINE slug == l.slug
             listed == Listed(lines, slug)
             placed == {i \in listed : lines[i].album # None}
             k == <<"item", slug>>
  <2>1. PICK j \in DOMAIN lines : lines[j] = l /\ l.kind # "album"
    BY DEF Items, ToSet
  <2>2. /\ listed \subseteq DOMAIN lines /\ j \in listed
        /\ \A i \in listed : i \in DOMAIN lines /\ lines[i].kind # "album" /\ lines[i].slug = slug
    BY <2>1 DEF Listed
  <2>3. listed \in SUBSET Nat /\ IsFiniteSet(listed) /\ placed \in SUBSET Nat /\ IsFiniteSet(placed)
    <3>1. IsFiniteSet(1..Len(lines))
      BY <1>2, FS_Interval
    <3>2. listed \in SUBSET (1..Len(lines)) /\ placed \in SUBSET (1..Len(lines)) /\ 1..Len(lines) \subseteq Nat
      BY <1>2, <2>2
    <3> HIDE DEF listed, placed, lines
    <3> QED
      BY <3>1, <3>2, FS_Subset
  <2>4. PICK m : m = Max(listed)
    OBVIOUS
  <2>5. m \in listed /\ \A i \in listed : i <= m
    <3> HIDE DEF listed
    <3> QED
      BY <2>2, <2>3, <2>4, MaxIsGreatest
  <2>6. m \in DOMAIN lines /\ lines[m].kind # "album" /\ lines[m].slug = slug
    BY <2>2, <2>5
  <2>7. k[1] # "author" /\ <<"song", slug>>[1] # "author"
    OBVIOUS
  <2>8. ASSUME NEW col \in {"title", "subtitle"} PROVE db'[k][col] = lines[m][col]
    <3>1. /\ <<m, 2>> \in Saves(v) /\ SetsLast(v, <<m, 2>>, k, col)
          /\ At(v, <<m, 2>>).cols[col] = lines[m][col]
      BY <2>5, <2>6, LastTexts
    <3> QED
      BY <1>1, <2>7, <3>1
  <2>9. \A i \in DOMAIN Work[v] : ItemLine(v, i) /\ Work[v][i].slug = slug => i <= m
    BY <1>2, <2>5 DEF Listed
  <2>10. ItemLine(v, m) /\ Work[v][m] = lines[m] /\ m \in DOMAIN Work[v]
    BY <1>2, <2>6
  <2>11. /\ Work[v][m].kind = "song" =>
              /\ SetsLast(v, <<m, 7>>, <<"song", slug>>, "artist")
              /\ At(v, <<m, 7>>).cols["artist"] = Work[v][m].subtitle
        /\ \E p \in Saves(v) : /\ SetsLast(v, p, <<"item", slug>>, "author")
                               /\ At(v, p).cols["author"] = AuthorId(Work[v][m])
    <3>1. Work[v][m].slug = slug
      BY <2>6, <2>10
    <3> HIDE DEF slug, lines
    <3> QED
      BY <1>2, <2>9, <2>10, <3>1, LastCredit
  <2>12. db'[k].author = AuthorId(lines[m])
    <3>1. PICK p \in Saves(v) : SetsLast(v, p, k, "author") /\ At(v, p).cols["author"] = AuthorId(lines[m])
      BY <2>10, <2>11
    <3>2. db'[k]["author"] = AuthorId(lines[m])
      BY <1>1, <2>7, <3>1
    <3> QED
      BY <3>2
  <2>13. l.kind = "song" => db'[<<"song", slug>>].artist = lines[m].subtitle
    <3> SUFFICES ASSUME l.kind = "song" PROVE db'[<<"song", slug>>].artist = lines[m].subtitle
      OBVIOUS
    <3>1. lines[m].kind = "song"
      <4>1. lines \in AllLines /\ l \in Items(lines) /\ lines[m] \in Items(lines)
        BY <2>6 DEF AllLines, Items, ToSet
      <4> QED
        BY <2>6, <4>1, SlugAssumption
    <3>2. /\ SetsLast(v, <<m, 7>>, <<"song", slug>>, "artist")
          /\ At(v, <<m, 7>>).cols["artist"] = lines[m].subtitle
      BY <2>10, <2>11, <3>1
    <3>3. <<m, 7>> \in Saves(v)
      BY <3>2 DEF SetsLast, Sets
    <3>4. db'[<<"song", slug>>]["artist"] = lines[m].subtitle
      BY <1>1, <2>7, <3>2, <3>3
    <3> QED
      BY <3>4
  <2>14. ASSUME placed # {} PROVE db'[k].album = lines[Max(placed)].album
    <3>1. PICK n : n = Max(placed)
      OBVIOUS
    <3>2. n \in placed /\ \A i \in placed : i <= n
      <4> HIDE DEF placed
      <4> QED
        BY <2>3, <2>14, <3>1, MaxIsGreatest
    <3>3. /\ n \in DOMAIN lines /\ lines[n].kind # "album" /\ lines[n].slug = slug /\ lines[n].album # None
          /\ \A i \in Listed(lines, lines[n].slug) : lines[i].album # None => i <= n
      BY <2>2, <3>2
    <3>4. /\ <<n, 2>> \in Saves(v) /\ SetsLast(v, <<n, 2>>, k, "album")
          /\ At(v, <<n, 2>>).cols["album"] = lines[n].album
      BY <3>3, LastAlbum
    <3>5. db'[k]["album"] = lines[n].album
      BY <1>1, <2>7, <3>4
    <3> QED
      BY <3>1, <3>5
  <2> QED
    BY <2>4, <2>8, <2>12, <2>13, <2>14
<1> QED
  BY <1>3, <1>4 DEF Published

\* A seed that commits has published its whole fixture, whatever the library held
\* before and whatever overlapped it: each item as it is listed last, under the author
\* of that line and in the last album that lists it (_upsert_media_item, seed_data.py).
THEOREM Publication == Spec => SeedPublishesFixture
<1>1. Inv /\ [Next]_vars =>
         [\A r \in Runs, v \in Versions : run[r].command = v /\ Commit(r) => Published(Lines[v])']_vars
  BY CommitPublishes
<1> QED
  BY <1>1, Invariance, PTL DEF Spec, SeedPublishesFixture

-----------------------------------------------------------------------------
\* Searches

\* The steps of a search read the catalogue and leave it alone.
LEMMA SearchesOnlyRead == SearchSpec => Spec
<1>1. SearchInit => Init
  BY DEF SearchInit
<1>2. [SearchNext]_searchVars => [Next]_vars
  BY DEF SearchNext, SearchStep, CatalogueStep, FindEntries, HydrateItems, HydrateAlbums, FindAuthors,
         ReplyToSearch, searchVars
<1> QED
  BY <1>1, <1>2, PTL DEF SearchSpec, Spec

\* A promise of an author is kept: one of the slug is there.
SearchInv ==
    /\ search = [pc |-> search.pc, query |-> search.query, section |-> search.section,
                 items |-> search.items, albums |-> search.albums,
                 authors |-> search.authors, credited |-> search.credited]
    /\ search.credited # {} =>
          /\ migrated /\ search.query \in Queries \cap Plain
          /\ \E a \in Rows("author") : a[1] = Base[search.query]

\* Nobody has been promised anything at first.
LEMMA SearchInvInit == SearchInit => SearchInv
BY DEF SearchInit, NoSearch, SearchInv

\* A song is credited to an author of its artist's slug.
LEMMA SongsHaveAuthors ==
    ASSUME TypeOK, CreditsFollowSlugs, migrated, NEW q, NEW i, SongBy(q, i)
    PROVE  /\ i \in Rows("item") /\ Item(i).kind = "song"
           /\ Item(i).author \in Rows("author") /\ Item(i).author[1] = Base[q]
<1>1. i \in Rows("item") /\ Item(i).kind = "song"
  BY DEF TypeOK, SongBy, Item
<1>2. Item(i).author # None /\ Base[db[<<"author", Item(i).author>>].name] = Base[q]
  BY <1>1 DEF CreditsFollowSlugs, SongBy, Item
<1>3. Item(i).author \in Rows("author")
  BY <1>1, <1>2 DEF TypeOK, Item
<1> QED
  BY <1>1, <1>2, <1>3 DEF TypeOK

\* No author is deleted while the migration stays applied.
LEMMA AuthorsStay ==
    ASSUME [Next]_vars, migrated, migrated'
    PROVE  Rows("author") \subseteq Rows("author")'
<1>1. DOMAIN db \subseteq DOMAIN db'
  <2>1. ASSUME NEW r \in Runs, Commit(r) PROVE DOMAIN db \subseteq DOMAIN db'
    BY <2>1, OverValues DEF Commit
  <2>2. CASE Backfill
    BY <2>2 DEF Backfill
  <2>3. CASE Downgrade
    BY <2>3 DEF Downgrade
  <2>4. CASE UNCHANGED db
    BY <2>4
  <2> QED
    BY <2>1, <2>2, <2>3, <2>4 DEF Next, vars, Start, Query, Flush, IntegrityError, DeadlockDetected, Killed
<1> QED
  BY <1>1 DEF Rows

\* Every step keeps it.
LEMMA SearchInvStep ==
    ASSUME TypeOK, CreditsFollowSlugs, SearchInv, [SearchNext]_searchVars
    PROVE  SearchInv'
<1>1. ASSUME NEW q \in Queries, NEW s \in Sections \cup {None}, FindEntries(q, s) PROVE SearchInv'
  <2>1. PICK kinds \in Scope(s), folding \in Scope(s), cards \in Scope(s) :
           LET items == ItemEntries(q, kinds, folding)
           IN  search' = [NoSearch EXCEPT
                  !.pc = "items", !.query = q, !.section = s,
                  !.items = items, !.albums = _matched_album_ids(q, cards),
                  !.credited = IF migrated /\ q \in Plain THEN {i \in items : SongBy(q, i)} ELSE {}]
    BY <1>1 DEF FindEntries
  <2> DEFINE items == ItemEntries(q, kinds, folding)
             credited == IF migrated /\ q \in Plain THEN {i \in items : SongBy(q, i)} ELSE {}
  <2>2. search' = [pc |-> "items", query |-> q, section |-> s, items |-> items,
                   albums |-> _matched_album_ids(q, cards), authors |-> {}, credited |-> credited]
    BY <2>1 DEF NoSearch
  <2>3. ASSUME credited # {}
        PROVE  migrated /\ q \in Plain /\ \E a \in Rows("author") : a[1] = Base[q]
    <3>1. PICK i \in items : SongBy(q, i)
      BY <2>3
    <3>2. migrated /\ q \in Plain
      BY <2>3
    <3> QED
      BY <3>1, <3>2, SongsHaveAuthors
  <2>4. UNCHANGED <<db, migrated>>
    BY <1>1 DEF FindEntries, vars
  <2> HIDE DEF credited, items
  <2> QED
    BY <2>2, <2>3, <2>4 DEF SearchInv, Rows
<1>2. CASE HydrateItems \/ HydrateAlbums \/ FindAuthors
  <2>1. UNCHANGED <<db, migrated>>
    BY <1>2 DEF HydrateItems, HydrateAlbums, FindAuthors, vars
  <2>2. /\ search' = [pc |-> search'.pc, query |-> search'.query, section |-> search'.section,
                      items |-> search'.items, albums |-> search'.albums,
                      authors |-> search'.authors, credited |-> search'.credited]
        /\ search'.query = search.query /\ search'.credited = search.credited
    BY <1>2 DEF SearchInv, HydrateItems, HydrateAlbums, FindAuthors
  <2> QED
    BY <2>1, <2>2 DEF SearchInv, Rows
<1>3. CASE ReplyToSearch
  BY <1>3 DEF ReplyToSearch, NoSearch, SearchInv
<1>4. CASE CatalogueStep
  <2>1. /\ search' = [pc |-> search.pc, query |-> search.query, section |-> search.section,
                      items |-> search.items, albums |-> search.albums, authors |-> search.authors,
                      credited |-> IF migrated' THEN search.credited ELSE {}]
    BY <1>4 DEF CatalogueStep, SearchInv
  <2>2. ASSUME search'.credited # {}
        PROVE  /\ migrated' /\ search.query \in Queries \cap Plain
               /\ \E a \in Rows("author")' : a[1] = Base[search.query]
    <3>1. migrated' /\ search.credited # {}
      BY <2>1, <2>2
    <3>2. migrated /\ Rows("author") \subseteq Rows("author")'
      BY <1>4, <3>1, AuthorsStay DEF SearchInv, CatalogueStep
    <3> QED
      BY <3>1, <3>2 DEF SearchInv
  <2> QED
    BY <2>1, <2>2 DEF SearchInv
<1>5. CASE UNCHANGED searchVars
  BY <1>5 DEF searchVars, vars, SearchInv, Rows
<1> QED
  BY <1>1, <1>2, <1>3, <1>4, <1>5 DEF SearchNext, SearchStep

\* An author of the slug of a name typed in full is in every list statement 3 may
\* return, unless the list is full of names as similar.
LEMMA FullNameIsListed ==
    ASSUME TypeOK, NEW q \in Queries \cap Plain, NEW matches \in SUBSET Rows("author"),
           NEW list \in Ranked(q, matches), NEW a \in matches, a[1] = Base[q]
    PROVE  \/ \E b \in list : Base[db[<<"author", b>>].name] = Base[q]
           \/ Cardinality(list) = Limit /\ \A b \in list : db[<<"author", b>>].name \in Best[q]
<1>1. db[<<"author", a>>].name \in Names /\ Base[db[<<"author", a>>].name] = Base[q]
  BY DEF TypeOK
<1>2. db[<<"author", a>>].name \in Best[q]
  BY <1>1, HitsAssumption
<1>3. CASE a \in list
  BY <1>1, <1>3
<1>4. CASE a \notin list
  BY <1>2, <1>4 DEF Ranked
<1> QED
  BY <1>3, <1>4

\* The list of authors a search reads last has the author of a song it has found first.
LEMMA ListsComeWithAuthors ==
    ASSUME TypeOK, CreditsFollowSlugs, SearchInv, FindAuthors, Owed # {}
    PROVE  \/ \E a \in search'.authors : Base[db[<<"author", a>>].name] = Base[search.query]
           \/ /\ Cardinality(search'.authors) = Limit
              /\ \A a \in search'.authors : db[<<"author", a>>].name \in Best[search.query]
<1> DEFINE q == search.query
           s == search.section
<1>1. PICK kinds \in Scope(s) : \E list \in search_authors(q, s, kinds) :
         search' = [search EXCEPT !.pc = "reply", !.authors = list]
  BY DEF FindAuthors
<1>2. PICK list \in search_authors(q, s, kinds) : search' = [search EXCEPT !.pc = "reply", !.authors = list]
  BY <1>1
<1>3. search'.authors = list
  BY <1>2 DEF SearchInv
<1> DEFINE matches == {a \in Rows("author") :
              /\ db[<<"author", a>>].name \in Hits[q]
              /\ s = None \/ \E i \in Rows("item") : Item(i).author = a /\ Item(i).kind \in kinds}
<1>4. list \in Ranked(q, matches)
  BY <1>2 DEF search_authors
<1>5. migrated /\ q \in Queries \cap Plain /\ \E a \in Rows("author") : a[1] = Base[q]
  BY DEF SearchInv, Owed
<1>6. ASSUME NEW a \in Rows("author"), a[1] = Base[q]
      PROVE  db[<<"author", a>>].name \in Hits[q]
  <2>1. db[<<"author", a>>].name \in Names /\ Base[db[<<"author", a>>].name] = Base[q]
    BY <1>6 DEF TypeOK
  <2> QED
    BY <1>5, <2>1, HitsAssumption
<1>7. \E a \in matches : a[1] = Base[q]
  <2>1. CASE s = None
    BY <1>5, <1>6, <2>1
  <2>2. CASE s # None
    <3>1. PICK i \in search.credited : Scope(s) = {{"song"}} /\ SongBy(q, i)
      BY <2>2 DEF Owed
    <3>2. /\ i \in Rows("item") /\ Item(i).kind = "song"
          /\ Item(i).author \in Rows("author") /\ Item(i).author[1] = Base[q]
      BY <1>5, <3>1, SongsHaveAuthors
    <3>3. kinds = {"song"}
      BY <1>1, <3>1
    <3> QED
      BY <1>6, <3>2, <3>3
  <2> QED
    BY <2>1, <2>2
<1>8. matches \in SUBSET Rows("author")
  OBVIOUS
<1> HIDE DEF matches, q, s
<1>9. \/ \E b \in list : Base[db[<<"author", b>>].name] = Base[q]
      \/ Cardinality(list) = Limit /\ \A b \in list : db[<<"author", b>>].name \in Best[q]
  BY <1>4, <1>5, <1>7, <1>8, FullNameIsListed
<1> QED
  BY <1>3, <1>9 DEF q

\* What holds whenever a statement of a search runs.
LEMMA SearchInvariance == SearchSpec => [](TypeOK /\ CreditsFollowSlugs /\ SearchInv)
<1>1. SearchSpec => [](TypeOK /\ CreditsFollowSlugs)
  BY SearchesOnlyRead, TypeCorrect, Credited, PTL
<1>2. TypeOK /\ CreditsFollowSlugs /\ SearchInv /\ [SearchNext]_searchVars => SearchInv'
  BY SearchInvStep
<1> QED
  BY <1>1, <1>2, SearchInvInit, PTL DEF SearchSpec

\* A song found by the full name of its artist comes with an author of that slug,
\* whatever commits between the three statements (search, queries.py:170-203).
THEOREM SearchesFindAuthors == SearchSpec => AuthorsComeAlong
<1>1. TypeOK /\ CreditsFollowSlugs /\ SearchInv /\ [SearchNext]_searchVars =>
         [FindAuthors /\ Owed # {} =>
            \/ \E a \in search'.authors : Base[db[<<"author", a>>].name] = Base[search.query]
            \/ /\ Cardinality(search'.authors) = Limit
               /\ \A a \in search'.authors : db[<<"author", a>>].name \in Best[search.query]]_searchVars
  BY ListsComeWithAuthors
<1> QED
  BY <1>1, SearchInvariance, PTL DEF SearchSpec, AuthorsComeAlong

=============================================================================
