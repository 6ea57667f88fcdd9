--------------------------- MODULE MCHomeSections ---------------------------
EXTENDS HomeSections, TLC

CONSTANTS s1, s2, s3, s4, x1, x2, a1, b1, p1, p2

TheItems   == {s1, s2, s3, s4, x1, x2}
TheAlbums  == {a1, b1}
TheAlbumOf == (s3 :> a1) @@ (x1 :> b1) @@ [s \in {s1, s2, s4, x2} |-> None]

\* The "music" section of home_sections.json, in short: songs, one of them of
\* the album whose card follows.
TheFixture  == <<s1, s2, s3, a1, s4>>
OneFixture  == {TheFixture}
\* ... and an edited one, with the same slots in another order.
TwoFixtures == {TheFixture, <<s3, a1, s4, s1, s2>>}
TheSamples  == {<<x1, b1>>, <<x2, x1, b1>>, <<b1, x2>>}

TwoCommands == {p1, p2}
Symmetry == Permutations(Commands)
=============================================================================
