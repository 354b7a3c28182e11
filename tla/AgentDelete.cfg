\* Delete under transient multipass failures.
CONSTANTS
    h1 = h1  h2 = h2  n1 = n1  n2 = n2
    None = None  Corrupt = Corrupt  NoNum = NoNum
    Hosts = {h1, h2}
    Names = {n1, n2}
    Procs = {p1}
    p1 = p1  p2 = p2
    Derived <- MCDerived
    Payloads <- HostPayloads
    Bodies <- MCBodies
    MaxCmds = 3
    MaxCrashes = 1
    MaxAckLoss = 1
    MaxOutOfBand = 0
    TornWrites = FALSE
    FsCanFail = TRUE
    CallsCanFail = TRUE
    InfoCanFail = FALSE
    LaunchFailsLate = FALSE
SPECIFICATION Spec
PROPERTY DeleteReportsGone
