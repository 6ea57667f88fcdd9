CONSTANTS
    Queries = {r1, r2}
    Downloads = {d1}
    PoolSize = 1
    albums = albums
    albumAuthor = albumAuthor
    authorItems = authorItems
    search = search
    hitAuthor = hitAuthor
    refreshSession = refreshSession
    kA = kA
    kB = kB
    Fields <- MCFields
    Documents <- MCDocuments
    Ungated <- MCUngated
    Keys <- MCKeys
    Parent <- MCParent
    Needs <- MCNeeds
    Fatal <- MCFatal
    LoaderOf <- MCLoaderOf
    NoField = NoField
    Statement = Statement
    Commit = Commit
    Viewer = Viewer
    Rollback = Rollback
    Nobody = Nobody
    Failed = Failed
SPECIFICATION Spec
INVARIANTS
    TypeOK
    OneStatementAtATime
    LibraryNeedsViewer
PROPERTIES
    EveryQueryEnds
