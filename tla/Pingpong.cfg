SPECIFICATION PSpec
CONSTANTS
    N = 4
    VoidTasks = {1}
    Threadings = {"one", "many"}
    NClients = 2
    Times = 2
    Unit = 2
    Capacity = 2
    MaxFd = 3
    Objects = {0, 1, 2, 3, 4}
INVARIANTS CounterExact CollectsAll WokenOnOneThread CounterOutlivesCalls BytesConserved
PROPERTIES TasksAwaited SocketsReleased
