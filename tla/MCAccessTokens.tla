--------------------------- MODULE MCAccessTokens ---------------------------
EXTENDS AccessTokens, TLC

\* Thumbnail URLs, the ones whose bytes can go stale; a client may still try
\* their signatures on the path of the original.
MCShown == [file : Files, thumb : {TRUE}]

Symmetry == Permutations(Tokens)
=============================================================================
