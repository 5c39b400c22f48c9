-------------------------- MODULE SupabaseProvider --------------------------
(***************************************************************************)
(* The provider adapter of pfm/app/auth/supabase.py, as the service drives *)
(* it: the calls to the identity provider and what their outcomes become,  *)
(* the password reset of two calls (prove the one-time code, then set the  *)
(* password), and the verification of a session that the provider issues,  *)
(* which is a verification of JwksCache.                                   *)
(*                                                                         *)
(* A request is sent, has its effect or is refused at the provider, and is *)
(* answered; the answer may be lost at any point, and the caller cannot    *)
(* tell whether the effect took place.                                     *)
(***************************************************************************)
EXTENDS JwksCache

VARIABLES
    op,            \* op[c]: "bearer" (a token to verify), "session" (sign-up,
                   \* sign-in, refresh), "reset" (confirm a password reset),
                   \* "confirm" (an e-mail address) or "quiet" (reset request,
                   \* resend, logout: their client errors are suppressed)
    leg,           \* leg[c]: 1, or 2 once a reset has proved its code
    wire,          \* wire[c]: where c's request is
    code,          \* the mailed one-time code of the account is outstanding
    spent,         \* the callers whose code the provider accepted
    setters,       \* the callers that set the password
    answer         \* answer[c]: what the provider call returned or raised

providerVars == <<op, leg, wire, code, spent, setters, answer>>
vars == <<jwksVars, providerVars>>

Calls == {"session", "reset", "confirm", "quiet"}
Answers == {"none", "done", "bad_code", "refused", "failed", "cancelled"}

-----------------------------------------------------------------------------
ProviderInit ==
    /\ Init
    /\ op = [c \in Callers |-> "none"]
    /\ leg = [c \in Callers |-> 1]
    /\ wire = [c \in Callers |-> "unsent"]
    /\ code = TRUE
    /\ spent = {} /\ setters = {}
    /\ answer = [c \in Callers |-> "none"]

Finish(c, what) ==
    /\ wire' = [wire EXCEPT ![c] = "over"]
    /\ answer' = [answer EXCEPT ![c] = what]

\* A bearer token is verified at once.
Authenticate(c) ==
    /\ op[c] = "none"
    /\ op' = [op EXCEPT ![c] = "bearer"]
    /\ \E k \in Kids : Present(c, k)
    /\ UNCHANGED <<leg, wire, code, spent, setters, answer>>

Post(c) ==
    /\ op[c] = "none"
    /\ \E o \in Calls : op' = [op EXCEPT ![c] = o]
    /\ wire' = [wire EXCEPT ![c] = "sent"]
    /\ UNCHANGED <<jwksVars, leg, code, spent, setters, answer>>

\* The request has its effect: a reset's first leg spends the code, which the
\* provider takes once, its second, with the session that proof gave, sets the
\* password.
Apply(c) ==
    /\ wire[c] = "sent"
    /\ wire' = [wire EXCEPT ![c] = "applied"]
    /\ \/ op[c] # "reset" /\ UNCHANGED <<code, spent, setters>>
       \/ /\ op[c] = "reset" /\ leg[c] = 1 /\ code
          /\ code' = FALSE /\ spent' = spent \cup {c}
          /\ UNCHANGED setters
       \/ /\ op[c] = "reset" /\ leg[c] = 2
          /\ setters' = setters \cup {c}
          /\ UNCHANGED <<code, spent>>
    /\ UNCHANGED <<jwksVars, op, leg, answer>>

\* A 4xx answer: a code that is wrong, lapsed or spent, or any other refusal.
Deny(c) ==
    /\ wire[c] = "sent"
    /\ wire' = [wire EXCEPT ![c] = "denied"]
    /\ UNCHANGED <<jwksVars, op, leg, code, spent, setters, answer>>

\* The session is in the answer: the service verifies its token as any other.
SessionIssued(c) ==
    /\ op[c] = "session" /\ wire[c] = "applied"
    /\ op' = [op EXCEPT ![c] = "bearer"]
    /\ wire' = [wire EXCEPT ![c] = "unsent"]
    /\ \E k \in Kids : Present(c, k)
    /\ UNCHANGED <<leg, code, spent, setters, answer>>

\* Bug: the outcome of the second request is taken for granted.
ResetAssumed(c) ==
    /\ op[c] = "reset" /\ leg[c] = 1 /\ wire[c] = "applied"
    /\ Finish(c, "done")
    /\ UNCHANGED <<jwksVars, op, leg, code, spent, setters>>
\* The code is proved: the new password is sent with the session it gave.
CodeProved(c) ==
    /\ op[c] = "reset" /\ leg[c] = 1 /\ wire[c] = "applied"
    /\ leg' = [leg EXCEPT ![c] = 2]
    /\ wire' = [wire EXCEPT ![c] = "sent"]
    /\ UNCHANGED <<jwksVars, op, code, spent, setters, answer>>

Succeed(c) ==
    /\ wire[c] = "applied"
    /\ op[c] \in {"confirm", "quiet"} \/ (op[c] = "reset" /\ leg[c] = 2)
    /\ Finish(c, "done")
    /\ UNCHANGED <<jwksVars, op, leg, code, spent, setters>>

\* A 2xx answer without a user or a session in it is 503: a sign-up that waits
\* for its e-mail to be confirmed among them.
NoSession(c) ==
    /\ wire[c] = "applied" /\ op[c] # "quiet" /\ leg[c] = 1
    /\ Finish(c, "failed")
    /\ UNCHANGED <<jwksVars, op, leg, code, spent, setters>>

\* What a 4xx answer becomes: suppressed, the error of a one-time code, or
\* _client_error.
ClientError(c) ==
    CASE op[c] = "quiet" -> "done"
      [] op[c] \in {"reset", "confirm"} /\ leg[c] = 1 -> "bad_code"
      [] OTHER -> "refused"

Refused(c) ==
    /\ wire[c] = "denied"
    /\ Finish(c, ClientError(c))
    /\ UNCHANGED <<jwksVars, op, leg, code, spent, setters>>

InFlight(c) == wire[c] \in {"sent", "applied", "denied"}

\* No answer in time, or a connection lost, or a 5xx answer: 504 or 503.
Lost(c) ==
    /\ InFlight(c)
    /\ Finish(c, "failed")
    /\ UNCHANGED <<jwksVars, op, leg, code, spent, setters>>

CutShort(c) ==
    /\ c \in Hasty /\ InFlight(c)
    /\ Finish(c, "cancelled")
    /\ UNCHANGED <<jwksVars, op, leg, code, spent, setters>>

-----------------------------------------------------------------------------
Verify(c) == (Proceed(c) \/ Cancel(c)) /\ UNCHANGED providerVars
CallNext(c) ==
    \/ Post(c) \/ Apply(c) \/ Deny(c) \/ SessionIssued(c) \/ CodeProved(c)
    \/ Succeed(c) \/ NoSession(c) \/ Refused(c) \/ Lost(c) \/ CutShort(c)

Next ==
    \/ \E c \in Callers : Authenticate(c) \/ Verify(c) \/ CallNext(c)
    \/ (Publish \/ Tick) /\ UNCHANGED providerVars

Spec == ProviderInit /\ [][Next]_vars

\* A coroutine that can run is run, the endpoint and the provider answer or the
\* HTTP client times out.  Nothing makes tokens arrive, keys rotate, or
\* deadlines strike.
Progress(c) ==
    \/ Proceed(c) /\ UNCHANGED providerVars
    \/ Apply(c) \/ Deny(c) \/ SessionIssued(c) \/ CodeProved(c) \/ Succeed(c)
    \/ NoSession(c) \/ Refused(c) \/ Lost(c)
FairSpec == Spec /\ \A c \in Callers : WF_vars(Progress(c))

-----------------------------------------------------------------------------
ProviderTypeOK ==
    /\ TypeOK
    /\ op \in [Callers -> Calls \cup {"none", "bearer"}]
    /\ leg \in [Callers -> {1, 2}]
    /\ wire \in [Callers -> {"unsent", "sent", "applied", "denied", "over"}]
    /\ code \in BOOLEAN /\ spent \subseteq Callers /\ setters \subseteq Callers
    /\ answer \in [Callers -> Answers]

\* What a reset reports is what became of the account, also when the same code
\* is sent twice: done means that this call set the password, a refused code
\* that it spent and set nothing, and one code sets one password
\* (confirm_password_reset: of its two calls the second may fail or be lost when
\* the first has spent the code).
ResetAnswersTrue ==
    /\ \A c \in Callers : op[c] = "reset" =>
        /\ answer[c] = "done" => c \in setters
        /\ answer[c] = "bad_code" => c \notin spent
    /\ \A c, d \in setters : c = d

\* Every verification ends, whoever fails or is cancelled with the lock, and
\* every call to the provider is answered.
EveryCallReturns ==
    \A c \in Callers :
        /\ (pc[c] # "idle") ~> (pc[c] = "done")
        /\ InFlight(c) ~> (wire[c] = "over" \/ pc[c] = "done")
=============================================================================
