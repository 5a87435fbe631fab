SPECIFICATION Spec
CONSTANTS
    Singles = {s1}
    Streams = {q1}
    Callbacks = {}
    Panicking = {}
    Closers = {}
    Cancellable = {}
    Size <- SmallSizes
    ContinueSize = 1
    MaxLen = 3
    MaxItems = 3
    Malformed = {"BadRes", "BadRow", "NoState"}
INVARIANTS NoOrphanedSink ContinueMeetsPause RequestsUnderWay
PROPERTIES AnswersKept
CHECK_DEADLOCK FALSE
