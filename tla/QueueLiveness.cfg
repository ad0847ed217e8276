SPECIFICATION QueueFairSpec
CONSTANTS
    c1 = c1
    c2 = c2
    d1 = d1
    m1 = m1
    r1 = r1
    r2 = r2
    Conns <- MCConns
    Devices <- MCDevices
    DevOf <- MCDevOf
    Fds = {f1}
    Msgs <- MCMsgs
    To <- MCTo
    Retriers <- MCOneRetrier
    Threads <- MCThreads1
    AuthConns = {c2}
    TokenResults = {TRUE}
    MaxLogins <- MCOneLogin
    Persistent = {c1, c2}
    MaxCrashes = 1
    NoConn = NoConn
    NoFd = NoFd
    NoDevice = NoDevice
    NoMsg = NoMsg
CHECK_DEADLOCK FALSE
INVARIANT TypeOK
PROPERTIES
    QueueIsDurable
    QueuedIsEventuallyPushed
    DepartedGoesOffline
