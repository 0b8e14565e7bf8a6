SPECIFICATION StoreSpec
CONSTANTS
    Versions <- MCVersions
    Origin <- MCOrigin
    Tag <- MCTag
    Effective <- MCEffective
    CurrentTag = "current"
    KeepLast = 1
    MaxClock = 0
    MaxReports = 2
    MaxMaint = 2
    MaxFaults = 1
    None = None
INVARIANTS
    FinishedReportsStayListed
    LatestNamesAListedVersion
PROPERTIES
    ReconcileRepairs
CHECK_DEADLOCK FALSE
