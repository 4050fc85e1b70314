\* The process from start to stop, with two threads, two clients, two scripts whose
\* output fits a pipe or does not, four descriptors, SIGINT twice.
SPECIFICATION MCSpec
CONSTANTS
    EnvPorts = {0, 443, 4433, 8080, 70000}
    Clients = {c1, c2}
    Fds = {0, 1, 2, 3}
    Nobody = nobody
    Signals = 2
    Calls = {g1, g2}
    Server = server
    Capacity = 1
    Outputs = {1, 2}
    Threads = {t1, t2}
    MainThread = main
    Unlocked = unlocked
    Nodes = {n1}
    Letters = {"A", "B"}
    Unset = unset
INVARIANTS
    
    
    StrayIsKnown
    NothingLeftOpen
    WholeOutput
    
    NoZombies
    
    DecodesWithFullTable
    AnswerIsItsOwn
PROPERTIES
    StopCompletes
    
    WarmStaysWarm
    HeaderIsItsOwn
\* The process ends, and the clients, scripts and signals of the instance run out.
CHECK_DEADLOCK FALSE
