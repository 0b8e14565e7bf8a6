SPECIFICATION AnalyzerSpec
CONSTANTS
    Arguments <- Commands
    Caches <- SmallCaches
    Requires <- RealRequires
    MaxConsecutiveNet = 2
    MaxNet = 3
    MaxMachine = 2
    MinChunks = 2
    BandLimit = 2
    MinSpins = 4
INVARIANTS
    ReportFaithful
    BudgetKept
