SPECIFICATION FairSpec
CONSTANTS
    Singles = {}
    Streams = {q1}
    Callbacks = {}
    Panicking = {}
    Closers = {c1}
    Cancellable = {}
    Size <- SmallSizes
    ContinueSize = 1
    MaxLen = 3
    MaxItems = 3
    Malformed = {"NoState"}
PROPERTIES DropCloses RequestsResolve
CHECK_DEADLOCK FALSE
