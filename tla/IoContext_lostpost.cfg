SPECIFICATION Spec
CONSTANTS
    LocalCoros = {}
    RemoteCoros = {}
    LocalTasks = {}
    RemoteTasks = {t1}
    ThrowingTasks = {}
    Remotes = {r1}
    Modes = {"run"}
    RingSize = 2
    MaxTimers = 1
INVARIANTS TaskNeverLost
