--------------------------- MODULE MCIdempotency ---------------------------
(* Small instances of Idempotency for TLC.                                 *)
EXTENDS IdempotencyInv, TLC

CONSTANTS r1, r2, r3

TwoRequests   == {r1, r2}
ThreeRequests == {r1, r2, r3}

\* Every attempt carries the same body.
SamePayload == [r \in Requests |-> "body"]
\* r2 uses the key with another body.
OnePayloadDiffers == [r \in Requests |-> IF r = r2 THEN "other" ELSE "body"]

\* Sound where all requests have the same payload and the same faults: the
\* specification then names no request.
RequestSymmetry == Permutations(Requests)

=============================================================================
