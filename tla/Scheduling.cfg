SPECIFICATION FairSpec
CONSTANTS
    MinThreads = 2
    MaxThreads = 3
    MaxBurst = 4
    MaxArrival = 3
    Quantum = 2
INVARIANTS
    TypeOK
    ShownExact
    QueueExact
    RrBoundedWait
    SrtfOptimal
    LogComplete
PROPERTIES
    CpuSpec
    AllReturn
