CONSTANTS
    MaxConnections = 2
    UsbSerials = {u1}
    WsSerials = {p}
    TcpSerials = {t1}
    PropSerials = {p}
    MaxChanges = 1
    Paths = {root, dir}
    Root = root
    MaxRuns = 1
    MaxUploads = 2
    Features = {"minute"}
    MaxTimers = 3
    MaxMessages = 3
    MaxPorts = 3
SPECIFICATION Spec
CHECK_DEADLOCK FALSE
INVARIANTS WebTypeOK ViewCurrent 
PROPERTIES ImplementsSlot BusyEnds
