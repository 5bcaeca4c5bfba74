SPECIFICATION FairSpec
CONSTANTS
    t1 = t1
    t2 = t2
    t3 = t3
    c1 = c1
    c2 = c2
    f1 = f1
    f2 = f2
    n1 = n1
    n2 = n2
    Threads = {t1, t2}
    Clients = {c1, c2}
    Fds = {f1}
    Nodes = {n1}
    Chunks = {"end"}
    MaxChunks = 2
    NoThread = NoThread
    NoClient = NoClient
    NoNode = NoNode
    NoFd = NoFd
PROPERTIES
    ShutdownCompletes
    DataHandled
