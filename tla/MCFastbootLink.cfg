CONSTANTS
    Links = {"usb", "tcp"}
    MaxCommands = 2
    MaxData = 2
    MaxFaults = 2
    MaxInfos = 1
    LateSends = FALSE
    None = None
SPECIFICATION Spec
INVARIANTS Conversation DownloadExact
PROPERTIES TcpHostServed
