SPECIFICATION FairSpec
CONSTANTS
    MaxBytes = 3
    RingSize = 3
    Cwnd = 2
    ReadWindow = 2
    PacketSize = 1
    MaxStreams = 2
    MaxTimeouts = 1
    MaxCrashes = 1
CHECK_DEADLOCK FALSE
INVARIANT StreamTypeOK CountsAgree ReaderWithinWindow NobodySleepsOnWork
PROPERTY ImplementsByteStream EofMeansAll OutputArrives
