--------------------------- MODULE MCRateLimiter ---------------------------
(* A small instance of RateLimiter for TLC.                                 *)
EXTENDS RateLimiter, TLC

CONSTANTS boot, down, s1, s2, o1

\* The start and the stop of the application, and two strict requests.
LimitedCallers == {boot, down, s1, s2}
LimitedOps == (boot :> "start") @@ (down :> "stop") @@ (s1 :> "ensure") @@ (s2 :> "ensure")
StrictRequests == {s1, s2}

\* Two of the strict tier, and one of an open tier that is configured alike and
\* so shares their policy.
ThreeRequests == {s1, s2, o1}
OnePolicy == [r \in Requests |-> "30 in 60 s"]
=============================================================================
