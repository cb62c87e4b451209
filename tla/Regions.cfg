CONSTANTS
    Slugs <- MCSlugs
    Unknown <- MCUnknown
    Orders <- MCOrders
    Entries <- MCEntries
    Rows <- MCRows
    Queries <- MCQueries
    Forms <- MCForms
    OrgSlugLists <- MCOrgSlugLists
    MaxMerged = 2
    MaxFile = 2
SPECIFICATION RegionSpec
CHECK_DEADLOCK FALSE
INVARIANTS
    CycleCheckExact
    WalksExact
    PagesMirrorLookups
    BrowseTreeConsistent
    LocalRegionsReachable
    EverySpellingFound
    AcceptedSubmissionLoads
