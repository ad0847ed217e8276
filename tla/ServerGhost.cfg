SPECIFICATION Spec
CONSTANTS
    c1 = c1
    c2 = c2
    c3 = c3
    d1 = d1
    d2 = d2
    m1 = m1
    Conns <- MCConns
    Devices <- MCDevices
    DevOf <- MCDevOf
    Fds = {f1, f2}
    Threads = {}
    Msgs <- MCMsgs
    To <- MCTo
    AuthConns = {}
    TokenResults = {TRUE}
    MaxLogins <- MCMaxLogins
    NoConn = NoConn
    NoFd = NoFd
    NoDevice = NoDevice
    NoMsg = NoMsg
CHECK_DEADLOCK FALSE
INVARIANT OnlineHasConnection
