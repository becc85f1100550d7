SPECIFICATION Spec
CONSTANTS
    N = 2
    VoidTasks = {}
    Threadings = {"many"}
INVARIANT NoLostWakeup
