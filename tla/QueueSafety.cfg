SPECIFICATION QueueSpec
CONSTANTS
    c1 = c1
    c2 = c2
    d1 = d1
    m1 = m1
    r1 = r1
    r2 = r2
    Conns <- MCConns
    Devices <- MCDevices
    DevOf <- MCDevOf
    Fds = {f1, f2}
    Msgs <- MCMsgs
    To <- MCTo
    Retriers <- MCRetriers
    Threads <- MCThreads
    AuthConns = {}
    TokenResults = {TRUE}
    MaxLogins <- MCMaxLogins
    Persistent = {c1, c2}
    MaxCrashes = 0
    NoConn = NoConn
    NoFd = NoFd
    NoDevice = NoDevice
    NoMsg = NoMsg
CHECK_DEADLOCK FALSE
SYMMETRY Symmetry
INVARIANTS
    QueueTypeOK
    NoStrandedCommand
    OnlineOnlyIfServed
    LatestLoginOnline
    OwnSocketUntilClosed
