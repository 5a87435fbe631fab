SPECIFICATION FairSpec
CONSTANTS
    Singles = {}
    Streams = {}
    Callbacks = {k1, k2}
    Panicking = {k2}
    Closers = {c1, c2}
    Cancellable = {c2}
    Size <- SmallSizes
    ContinueSize = 1
    MaxLen = 3
    MaxItems = 3
    Malformed = {}
INVARIANTS CallbackOrder CloseWaitsForCallbacks
PROPERTIES RecordedNotLost CloseReturns
CHECK_DEADLOCK FALSE
