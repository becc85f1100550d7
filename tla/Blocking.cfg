SPECIFICATION PSpec
CONSTANTS
    Depth = 4
    Waiters = {w1, w2}
    Notifiers = {n1, n2}
    MaxChanges = 3
    VersionMod = 2
INVARIANTS HandshakeSafe ReturnsOutcome SleeperNotified NoMissedNotify
PROPERTIES NoUseAfterDestroy AwaitIsACall CallReturns WaitReturns
