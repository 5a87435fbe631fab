SPECIFICATION Spec
CONSTANTS
    FileLens = {0, 1, 2, 3}
    BatchSize = 2
    Attempts = {1, 2}
    Databases <- SomeContents
    ExportAttempts = {1, 2}
    Files <- SomeFiles
    MaxDelimiter = 3
    BufCapacity = 2
    r0 = r0
    r1 = r1
    r2 = r2
    Requests = {r0, r1, r2}
    Opener = r0
    MethodsOf <- SomeMethods
    MaxTokens = 3
    NoToken = NoToken
INVARIANT ExportIdempotent
CHECK_DEADLOCK FALSE
