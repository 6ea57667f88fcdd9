CONSTANTS
    NumIds = 4
    NumTitles = 2
    Ids <- TheIds
    Titles <- TheTitles
    Firsts <- TheFirsts
    Omitted = Omitted
    DEFAULT_PAGE_SIZE = 1
    MAX_PAGE_SIZE = 2
    Absent = Absent
    NoCursor = NoCursor
SPECIFICATION Spec
INVARIANTS
    TypeOK
    WalkIsComplete
    NeverStuck
PROPERTY NothingTwice
