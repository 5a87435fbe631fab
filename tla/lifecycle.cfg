SPECIFICATION FairSpec
CONSTANTS
    Servers = {s1, s2}
    Conns = {k1, k2, k3}
    Opens = {o1}
    Closers = {f1, f2}
    None = None
INVARIANTS CloseReaches ClosedOpensNothing
PROPERTIES OpensReturn DropReturns
CHECK_DEADLOCK FALSE
