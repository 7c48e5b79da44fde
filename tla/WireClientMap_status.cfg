\* A server reply whose status word names no DawnBufferMapAsyncStatus.
CONSTANTS
    Buffers = {b1}
    MaxSerial = 1
    MaxUnmaps = 0
    ServerMisbehaves = TRUE
    MaxForged = 1
    ForgedStatuses = {"OUT_OF_RANGE"}
    ForgedErrorTypes = {}
    ServerErrorTypes = {}
    MaxErrors = 0
SPECIFICATION Spec
CHECK_DEADLOCK FALSE
INVARIANT TypeOK
