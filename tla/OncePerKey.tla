---------------------------- MODULE OncePerKey ----------------------------
(***************************************************************************)
(* What an idempotency key promises its clients, with no row, lease, clock *)
(* or transaction: a mutation is performed by one of the requests that     *)
(* carry the key, that request's result is the one every other request is  *)
(* given, and the key may be forgotten, after which it is a new key.       *)
(***************************************************************************)
CONSTANTS Requests, None

VARIABLES
    result,    \* the request whose result the key stands for, or None
    executed,  \* the requests that performed the mutation
    answer     \* answer[r]: whose result r was told, or None

vars == <<result, executed, answer>>

Init ==
    /\ result = None
    /\ executed = {}
    /\ answer = [r \in Requests |-> None]

\* r performs the mutation; the answer may be lost on its way.
Perform(r) ==
    /\ result = None /\ r \notin executed
    /\ result' = r
    /\ executed' = executed \cup {r}
    /\ \E told \in {r, None} : answer' = [answer EXCEPT ![r] = told]

\* r, which performed nothing, is told the result that stands.
Repeat(r) ==
    /\ result # None /\ r \notin executed
    /\ answer' = [answer EXCEPT ![r] = result]
    /\ UNCHANGED <<result, executed>>

\* The client of r is gone before it hears the answer.
Withdraw(r) ==
    /\ answer' = [answer EXCEPT ![r] = None]
    /\ UNCHANGED <<result, executed>>

Forget ==
    /\ result' = None
    /\ UNCHANGED <<executed, answer>>

Next == Forget \/ \E r \in Requests : Perform(r) \/ Repeat(r) \/ Withdraw(r)

Spec == Init /\ [][Next]_vars
=============================================================================
