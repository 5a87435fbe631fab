SPECIFICATION Spec
CONSTANTS
    Log10 = 2
    Word = 128
    Operands <- SomeOperands
    MaxExact = 400
    Durations <- SomeDurations
    MonthsPerYear = 2
    DaysPerWeek = 3
    NanoDigits = 2
    Sixty = 2
    Columns <- TwoColumns
    Headers <- SomeHeaders
    WireRows <- SomeRows
    WireLeaves <- SomeLeaves
    Inputs <- ClientValues
    Day = 2
    MaxDepth = 7
    MaxHandles = 3
    MaxRows = 2
    MaxLost = 1
INVARIANT AnyDecimalText
CHECK_DEADLOCK FALSE
