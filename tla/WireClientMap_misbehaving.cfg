\* Wire client map replies against a server that may make up one reply of
\* any kind, serial and status, well-formed or not, or an error callback with
\* any type word; the device also reports one validation error.
CONSTANTS
    Buffers = {b1}
    MaxSerial = 2
    MaxUnmaps = 1
    ServerMisbehaves = TRUE
    MaxForged = 1
    ForgedStatuses = {"SUCCESS", "ERROR", "UNKNOWN", "CONTEXT_LOST", "DEVICE_LOST"}
    ForgedErrorTypes = {"VALIDATION", "OUT_OF_RANGE"}
    ServerErrorTypes = {"VALIDATION"}
    MaxErrors = 1
SPECIFICATION Spec
\* The program may stop once the user stops calling: no deadlock check.
CHECK_DEADLOCK FALSE
INVARIANT TypeOK CallbackAtMostOnce AtMostOneHandle HandleMatchesCallback
PROPERTY EveryRequestAnswered
