----------------------------- MODULE HttpClient -----------------------------
(***************************************************************************)
(* A call of an external service, pfm/app/clients/base.py: an attempt that *)
(* times out, breaks or is answered with a 5xx is repeated after a backoff *)
(* up to max_retries times; a 4xx is final.  The service may have handled  *)
(* an attempt whose answer is lost.                                        *)
(***************************************************************************)
EXTENDS Integers

CONSTANTS
    Calls,         \* the calls; one bears the name of the request that makes it
    MaxRetries     \* max_retries

ASSUME ClientAssumption == MaxRetries \in Nat

VARIABLES
    leg,       \* leg[c]: where c's call is, "idle" while there is none
    attempt    \* attempt[c]: the number of the attempt under way

clientVars == <<leg, attempt>>

Legs == {"idle", "sent", "handled", "backoff"}

-----------------------------------------------------------------------------
ClientInit ==
    /\ leg = [c \in Calls |-> "idle"]
    /\ attempt = [c \in Calls |-> 0]

\* The call returns or raises.
EndCall(c) ==
    /\ leg' = [leg EXCEPT ![c] = "idle"]
    /\ attempt' = [attempt EXCEPT ![c] = 0]

Send(c) ==
    /\ leg[c] = "idle"
    /\ leg' = [leg EXCEPT ![c] = "sent"]
    /\ attempt' = [attempt EXCEPT ![c] = 1]

\* The service does what it is asked.
Handle(c) ==
    /\ leg[c] = "sent"
    /\ leg' = [leg EXCEPT ![c] = "handled"]
    /\ UNCHANGED attempt

ReceiveOk(c) == leg[c] = "handled" /\ EndCall(c)

\* A 4xx: it is not repeated.
ReceiveRefusal(c) == leg[c] = "sent" /\ EndCall(c)

\* A timeout, a broken connection or a 5xx, whether or not the service has
\* handled the attempt.
Retry(c) ==
    /\ leg[c] \in {"sent", "handled"} /\ attempt[c] <= MaxRetries
    /\ leg' = [leg EXCEPT ![c] = "backoff"]
    /\ UNCHANGED attempt

GiveUp(c) ==
    /\ leg[c] \in {"sent", "handled"} /\ attempt[c] = MaxRetries + 1
    /\ EndCall(c)

\* Bug: repetitions are not counted.
ResendUncounted(c) ==
    /\ leg[c] = "backoff"
    /\ leg' = [leg EXCEPT ![c] = "sent"]
    /\ UNCHANGED attempt
\* The backoff is over.
Resend(c) ==
    /\ leg[c] = "backoff"
    /\ leg' = [leg EXCEPT ![c] = "sent"]
    /\ attempt' = [attempt EXCEPT ![c] = @ + 1]

\* CancelledError, wherever the call waits; what the service is doing goes on.
CutCall(c) == EndCall(c)

-----------------------------------------------------------------------------
ClientTypeOK ==
    /\ leg \in [Calls -> Legs]
    /\ attempt \in [Calls -> 0 .. MaxRetries + 1]
=============================================================================
