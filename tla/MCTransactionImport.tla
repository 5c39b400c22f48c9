------------------------ MODULE MCTransactionImport ------------------------
(* Small instances of TransactionImport for TLC.                           *)
EXTENDS TransactionImport, TLC

CONSTANTS r1, r2, w1, w2

OneRequest == {r2}
TwoRequests == {r1, r2}
TwoWorkers == {w1, w2}

\* An import, and beside it another or a health check.
SomeKinds == [c \in Requests |-> IF c = r1 THEN {"quiet", "import"} ELSE {"import"}]
=============================================================================
