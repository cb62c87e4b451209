SPECIFICATION OperatorSpec
CONSTANTS
    Plan <- MCPlan
    MaxAttempts = 4
    MaxRuns = 2
    CountyState <- MCCountyState
    KnownStates <- MCKnownStates
    placeToLeaf <- MCPlaceToLeaf
    nycBoroughCounty <- MCBoroughs
    countyToLeaf <- MCCountyLeaf
    ctLegacyCounties <- MCCtLegacy
    Provinces = {1, 2}
    fsaToLeaf <- MCFsaToLeaf
    OverlapShare = 4
    Inputs <- MCInputs
    Restaged <- MCRestaged
    CuratedRegions <- MCCurated
    MaxRegenerates = 2
    NumOrgs = 3
    Concurrency = 2
    Stdout = TRUE
INVARIANTS
    DownloadNilVerified
    SeedLoads
    NoStateLeak
    FinestAnchor
    EveryOrgReported
PROPERTIES
    NetworkCommandsEnd
CHECK_DEADLOCK FALSE
