CONSTANTS
    c1 = c1
    c2 = c2
    c3 = c3
    f1 = f1
    f2 = f2
    f3 = f3
    i1 = i1
    i2 = i2
    b1 = b1
    b2 = b2
    photo = photo
    song = song
    Names <- ThreeNames
    Target <- ThreeTargets
    Slots <- TheSlots
    Photos <- ThePhotos
    Contents <- TwoContents
    Undecodable <- HeicContents
    Files <- ThreeFiles
    Ingests <- OneIngest
    Backfills <- OneBackfill
    Nothing = Nothing
    Partial = Partial
SPECIFICATION OperatorSpec
SYMMETRY Symmetry
INVARIANTS
    OneRowPerContent
    ChecksumIsTrue
    PhotoColumnsAgree
PROPERTIES
    IngestPublishes
    ReingestIsNoOp
