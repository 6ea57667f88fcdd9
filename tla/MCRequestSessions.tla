-------------------------- MODULE MCRequestSessions --------------------------
EXTENDS RequestSessions

CONSTANTS albums, albumAuthor, authorItems, search, hitAuthor, refreshSession, kA, kB

\* { albums { author { items } }  search { hits { author } } }, with one album
\* and one hit, or mutation { refreshSession }.
MCQuery == {albums, albumAuthor, authorItems, search, hitAuthor}
MCUngated == {refreshSession}
MCFields == MCQuery \cup MCUngated
MCDocuments == {MCQuery, MCUngated}
MCParent == [f \in MCFields |->
    CASE f = albumAuthor -> albums
      [] f = authorItems -> albumAuthor
      [] f = hitAuthor   -> search
      [] OTHER           -> NoField]
MCFatal == {albums, search, refreshSession}
MCKeys == {kA, kB}
MCLoaderOf == [k \in MCKeys |-> "author_loader"]
MCNeeds == [f \in MCFields |->
    CASE f = albumAuthor    -> <<kA>>
      [] f = hitAuthor      -> <<kB>>
      [] f = refreshSession -> <<Statement, Commit>>
      [] OTHER              -> <<Statement>>]
=============================================================================
