SPECIFICATION Spec
CONSTANTS
    Singles = {}
    Streams = {}
    Callbacks = {k1}
    Panicking = {}
    Closers = {c1}
    Cancellable = {}
    Size <- SmallSizes
    ContinueSize = 1
    MaxLen = 3
    MaxItems = 3
    Malformed = {}
INVARIANTS CloseAlwaysWaits
CHECK_DEADLOCK FALSE
