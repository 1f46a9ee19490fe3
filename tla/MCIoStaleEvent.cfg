CONSTANTS
    NoFd = NoFd
    Fds = {f1, f2}
    NumTypes = 2
    Interval = 4
    Grain = 1
    MaxStep = 2
SPECIFICATION HFairSpec
PROPERTIES EventAfterListen
CHECK_DEADLOCK FALSE
