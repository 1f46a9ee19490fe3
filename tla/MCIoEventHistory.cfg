CONSTANTS
    NoFd = NoFd
    Fds = {f1, f2}
    NumTypes = 2
    Interval = 4
    Grain = 1
    MaxStep = 2
SPECIFICATION HFairSpec
INVARIANTS OneElementPerFd NothingLeftWorking  NoEventLost
PROPERTIES DispatchShrinks ServedOnce DriveReturns
CHECK_DEADLOCK FALSE
