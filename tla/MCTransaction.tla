---------------------------- MODULE MCTransaction ----------------------------
(* Small instances of TransactionTransmitter for TLC. *)
EXTENDS TransactionTransmitter

(* Encoded lengths against MaxLen = 3: a single fits beside another request, *)
(* a query fills a message, and a query beside a single does not fit.        *)
SmallSizes == [r \in Requests |-> IF r \in Streams THEN 3 ELSE 1]

==============================================================================
