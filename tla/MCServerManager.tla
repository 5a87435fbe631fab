-------------------------- MODULE MCServerManager --------------------------
EXTENDS ServerManager, TLC

\* Every server knows the address of every other.
AllListed == {Servers}

\* One server may be missing from what a server knows, so that the cache and
\* the connection map of the driver lose it.
OneUnlisted == {Servers, Servers \ {CHOOSE s \in Servers : TRUE}}

\* Servers differ only in what happens to them, and so do the operations.
Interchangeable == Permutations(Servers) \cup Permutations(Calls)
=============================================================================
