\* Two connections; logcat is started twice and sends two entries each time;
\* four packets in a grid that shows one and a half of them.
SPECIFICATION LogsSpec
CONSTANTS
    MaxConnections = 2
    MaxStarts = 2
    MaxEntries = 2
    MaxPackets = 4
    RowHeight = 2
    BodyHeight = 3
    NearEnd = 1
INVARIANTS
    LogsTypeOK
    LogInOrder
    RowsSound
CHECK_DEADLOCK FALSE
