------------------------- MODULE MCAuthProvisioning -------------------------
(* A small instance of AuthProvisioning for TLC.                           *)
EXTENDS AuthProvisioning, TLC

CONSTANTS c1, c2, c3, q

\* Two first sign-ins of one account, a confirmation of another account's
\* address, and a request of the first.
FourCalls == {c1, c2, c3, q}
Ops == (c1 :> "session") @@ (c2 :> "session") @@ (c3 :> "confirm") @@ (q :> "request")
ForAccount == (c1 :> "ann") @@ (c2 :> "ann") @@ (c3 :> "bob") @@ (q :> "ann")

TwoAccounts == {"ann", "bob"}
Addresses == {"a@x", "b@x", "c@x"}
FirstAddress == ("ann" :> "a@x") @@ ("bob" :> "b@x")
=============================================================================
