SPECIFICATION Spec
CONSTANTS
    LocalCoros = {c1}
    RemoteCoros = {c1, c2}
    LocalTasks = {t1, t2}
    RemoteTasks = {}
    ThrowingTasks = {}
    Remotes = {r1, r2}
    Modes = {"run", "poll"}
    RingSize = 3
    MaxTimers = 2
INVARIANTS NeverTwice CoroutineNeverLost TaskNeverLost RingSuffices
PROPERTY QueuesAreFifo
SYMMETRY RemoteSymmetry
