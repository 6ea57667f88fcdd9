CONSTANTS
    s1 = s1
    s2 = s2
    s3 = s3
    s4 = s4
    x1 = x1
    x2 = x2
    a1 = a1
    b1 = b1
    p1 = p1
    p2 = p2
    Items <- TheItems
    Albums <- TheAlbums
    AlbumOf <- TheAlbumOf
    Fixtures <- TwoFixtures
    Samples <- TheSamples
    Commands <- TwoCommands
    Unlinked = Unlinked
    None = None
SYMMETRY Symmetry
SPECIFICATION Spec
INVARIANTS
    TypeOK
    ReplyIsOrdered
    BulkSortsLast
PROPERTIES
    SeedIsIdempotent
    RelinkIsNoOp
