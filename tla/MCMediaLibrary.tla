--------------------------- MODULE MCMediaLibrary ---------------------------
EXTENDS MediaLibrary, TLC

CONSTANTS c1, c2, c3, f1, f2, f3, i1, i2, b1, b2

CONSTANTS photo, song

TheSlots      == {photo, song}
ThePhotos     == {photo}

\* One file for each slot; two images of the photo (photo.heic, photo.jpg) and
\* the audio of the song.
TwoNames      == {1, 2}
TwoTargets    == (1 :> photo) @@ (2 :> song)
ThreeNames    == {1, 2, 3}
ThreeTargets  == (1 :> photo) @@ (2 :> photo) @@ (3 :> song)

TwoContents   == {c1, c2}
HeicContents  == {c2}
TwoFiles      == {f1, f2}
ThreeFiles    == {f1, f2, f3}
OneIngest     == {i1}
TwoIngests    == {i1, i2}
OneBackfill   == {b1}
TwoBackfills  == {b1, b2}

\* Bounds: every row the files name is there already, and every ingest is given
\* the directory of all files.
WholeDirectories == \A p \in Ingests : ingest[p].dir \in {{}, Names}
SeededSpec == Init /\ named = Slots /\ [][Next /\ WholeDirectories']_vars

Symmetry == Permutations(Files) \cup Permutations(Ingests) \cup Permutations(Backfills)
=============================================================================
