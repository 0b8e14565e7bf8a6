SPECIFICATION EngineSpec
CONSTANTS
    Chunks <- MCChunks
    RuleLists <- MCRules
    Cells <- MCCells
    Manifests <- MCManifests
    Unit = 720720
    Bet = 1
    Cutoffs = {1, 5, 10, 20}
    Tiers = {2}
    SessionSpins = 3
    None = None
INVARIANTS
    AccountsClose
    ReportAddsUp
    GateTellsTheTruth
CHECK_DEADLOCK FALSE
