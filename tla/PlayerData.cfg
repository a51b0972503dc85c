SPECIFICATION ServicesSpec
CONSTANTS
    c1 = c1
    c2 = c2
    p1 = p1
    p2 = p2
    Nobody = Nobody
    Conn = {c1, c2}
    Profile = {p1, p2}
    Index = {"0"}
    Key = {"a", "b", "c"}
    Message <- Requests
    Login <- Logins
    MaxSent <- Bounds
    MaxPending <- Pending
    MaxFailures = 1
    Column <- Columns
    FileColumn = "m_file_id"
    Ticket = {"t1", "t2"}
    Sessions <- SessionRows
    File = {"small", "big", "huge"}
    SizeOf <- Sizes
    MaxSize = 2
    MaxFiles = 2
    MaxRecords = 2
    MaxFaults = 2
INVARIANTS
    OnlySplitsLag
    ReadsAreCurrent
    CutAnywhere
    UploadsAreKept
    OnlyFaultsPart
CHECK_DEADLOCK FALSE
