SPECIFICATION ESpec
CONSTANTS NClients = 1 Times = 2 Unit = 2 Capacity = 2 MaxFd = 2 Objects = {0, 1, 2}
INVARIANT AssertHolds
