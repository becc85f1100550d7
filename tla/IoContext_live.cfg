SPECIFICATION FairSpec
CONSTANTS
    LocalCoros = {}
    RemoteCoros = {c1}
    LocalTasks = {t1, t2}
    RemoteTasks = {t2}
    ThrowingTasks = {t2}
    Remotes = {r1}
    Modes = {"run", "run_token", "poll"}
    RingSize = 2
    MaxTimers = 1
INVARIANT IInv
PROPERTIES NothingStarves StopEndsLoop
