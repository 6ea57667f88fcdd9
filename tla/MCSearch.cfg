CONSTANTS
    r1 = r1
    r2 = r2
    v1 = v1
    v2 = v2
    Runs <- MCRuns
    Versions <- MCVersions
    Lines <- MCLines
    Bulk = Bulk
    BulkArtists <- MCBulkArtists
    BulkLines <- MCBulkLines
    Sorted <- MCSorted
    Base <- MCBase
    Photographer = "Hurtado"
    None = None
    Hits <- MCHits
    Pinned <- MCPinned
    Best <- MCBest
    Plain <- MCPlain
    Limit = 2
SPECIFICATION BoundedSpec
INVARIANTS
    TypeOK
    CreditsFollowSlugs
PROPERTIES
    AuthorsComeAlong
    SeedPublishesFixture
    EveryRunEnds
