-------------------------- MODULE RequestPipeline --------------------------
(***************************************************************************)
(* One HTTP request through the middleware of create_app, pfm/app/main.py, *)
(* outermost first: ServerErrorMiddleware, CorrelationIdMiddleware,        *)
(* UserContextMiddleware, RequestLoggingMiddleware,                        *)
(* SecurityHeadersMiddleware, BodySizeLimitMiddleware,                     *)
(* RequestTimeoutMiddleware, ExceptionMiddleware and the route.            *)
(*                                                                         *)
(* A response is a start and a body.  A start passes every layer's wrapped *)
(* send at once and then waits for the server to write it: in between the  *)
(* layers believe that the response has begun and the client has seen      *)
(* nothing.  The deadline strikes at any await inside                      *)
(* RequestTimeoutMiddleware.                                               *)
(***************************************************************************)
EXTENDS Integers, Sequences

CONSTANTS
    Requests,
    Kinds      \* Kinds[c]: the kinds of request c may be; "quiet" is one that is
               \* not logged (health checks, OPTIONS)

VARIABLES
    kind,       \* kind[c], "none" until it arrives
    place,      \* place[c]: where c is
    status,     \* status[c]: the status in the last start that was sent
    guarded,    \* guarded[c]: c is inside wait_for: the deadline may strike
    begun,      \* begun[c]: response_started of RequestTimeoutMiddleware
    passed,     \* passed[c]: a start has passed the outer layers, written or not
    delivered,  \* delivered[c]: the starts the server wrote
    logged      \* logged[c]: the statuses of its request.completed events

pipelineVars == <<kind, place, status, guarded, begun, passed, delivered, logged>>

Places == {"new", "inside", "starting", "body", "tail", "raising", "over"}
\* "ok" is a success, "problem" what an exception handler made of an exception;
\* "too_large" is 413, "deadline" 503 and "error" 500.
Statuses == {"ok", "problem", "too_large", "deadline", "error"}

-----------------------------------------------------------------------------
PipelineInit ==
    /\ kind = [c \in Requests |-> "none"]
    /\ place = [c \in Requests |-> "new"]
    /\ status = [c \in Requests |-> "error"]
    /\ guarded = [c \in Requests |-> FALSE]
    /\ begun = [c \in Requests |-> FALSE]
    /\ passed = [c \in Requests |-> FALSE]
    /\ delivered = [c \in Requests |-> <<>>]
    /\ logged = [c \in Requests |-> <<>>]

\* A start goes outwards: every layer notes it before the server's send can wait.
SendStart(c, s) ==
    /\ place' = [place EXCEPT ![c] = "starting"]
    /\ status' = [status EXCEPT ![c] = s]
    /\ passed' = [passed EXCEPT ![c] = TRUE]

\* Bug: an exception is logged although the response has been logged.
LogsAnyway(c) == kind[c] # "quiet"
\* RequestLoggingMiddleware has an event to emit for c: completed is not set.
Logs(c) == kind[c] # "quiet" /\ logged[c] = <<>>

\* One event at most, with the status at hand.
Log(c, s) == logged' = IF Logs(c) THEN [logged EXCEPT ![c] = Append(@, s)] ELSE logged

-----------------------------------------------------------------------------
Arrive(c) ==
    /\ place[c] = "new"
    /\ \E k \in Kinds[c] : kind' = [kind EXCEPT ![c] = k]
    /\ place' = [place EXCEPT ![c] = "inside"]
    /\ guarded' = [guarded EXCEPT ![c] = TRUE]
    /\ UNCHANGED <<status, begun, passed, delivered, logged>>

\* The Content-Length is beyond the limit: 413 outside the deadline.
ArriveTooLarge(c) ==
    /\ place[c] = "new"
    /\ \E k \in Kinds[c] : kind' = [kind EXCEPT ![c] = k]
    /\ SendStart(c, "too_large")
    /\ UNCHANGED <<guarded, begun, delivered, logged>>

\* The route, or an exception handler (a body that grows beyond the limit ends
\* here too), has a response.
Respond(c, s) ==
    /\ place[c] = "inside"
    /\ SendStart(c, s)
    /\ begun' = [begun EXCEPT ![c] = TRUE]
    /\ UNCHANGED <<kind, guarded, delivered, logged>>

\* An exception nobody handles leaves the route.
RaiseUnhandled(c) ==
    /\ place[c] = "inside"
    /\ place' = [place EXCEPT ![c] = "raising"]
    /\ UNCHANGED <<kind, status, guarded, begun, passed, delivered, logged>>

Deliver(c) ==
    /\ place[c] = "starting"
    /\ place' = [place EXCEPT ![c] = "body"]
    /\ delivered' = [delivered EXCEPT ![c] = Append(@, status[c])]
    /\ UNCHANGED <<kind, status, guarded, begun, passed, logged>>

\* The last of the body: RequestLoggingMiddleware emits before it sends.
SendBody(c) ==
    /\ place[c] = "body"
    /\ Log(c, status[c])
    /\ place' = [place EXCEPT ![c] = "tail"]
    /\ UNCHANGED <<kind, status, guarded, begun, passed, delivered>>

\* The layers return, or let the exception pass, and their locals are gone.
Leave(c) ==
    /\ place' = [place EXCEPT ![c] = "over"]
    /\ status' = [status EXCEPT ![c] = "error"]
    /\ guarded' = [guarded EXCEPT ![c] = FALSE]
    /\ begun' = [begun EXCEPT ![c] = FALSE]

\* Background work and clean-up are over.
Return(c) ==
    /\ place[c] = "tail"
    /\ Leave(c)
    /\ UNCHANGED <<kind, passed, delivered, logged>>

\* An exception after the start: no handler may answer it any more.
Break(c) ==
    /\ place[c] \in {"starting", "body", "tail"} /\ begun[c]
    /\ place' = [place EXCEPT ![c] = "raising"]
    /\ UNCHANGED <<kind, status, guarded, begun, passed, delivered, logged>>

\* Bug: a started response is followed by a 503.
MayAnswerAlways(c) == guarded[c]
\* RequestTimeoutMiddleware may still answer.
MayAnswer(c) == guarded[c] /\ ~begun[c]

\* The deadline, or a TimeoutError of the route itself, which is not told from it:
\* 503 if no response has begun, and the error otherwise.
Deadline(c) ==
    /\ guarded[c] /\ place[c] \in {"inside", "starting", "body", "tail"}
    /\ guarded' = [guarded EXCEPT ![c] = FALSE]
    /\ \/ MayAnswer(c) /\ SendStart(c, "deadline")
       \/ /\ ~MayAnswer(c)
          /\ place' = [place EXCEPT ![c] = "raising"]
          /\ UNCHANGED <<status, passed>>
    /\ UNCHANGED <<kind, begun, delivered, logged>>

\* An exception reaches RequestLoggingMiddleware, which logs and lets it pass;
\* if no start has passed ServerErrorMiddleware that answers 500, and if none was
\* written the server does.
Propagate(c) ==
    /\ place[c] = "raising"
    /\ Log(c, IF passed[c] THEN status[c] ELSE "error")
    /\ delivered' = IF delivered[c] = <<>> THEN [delivered EXCEPT ![c] = <<"error">>]
                    ELSE delivered
    /\ Leave(c)
    /\ UNCHANGED <<kind, passed>>

-----------------------------------------------------------------------------
PipelineTypeOK ==
    /\ kind \in [Requests -> (UNION {Kinds[c] : c \in Requests}) \cup {"none"}]
    /\ place \in [Requests -> Places]
    /\ status \in [Requests -> Statuses]
    /\ guarded \in [Requests -> BOOLEAN]
    /\ begun \in [Requests -> BOOLEAN]
    /\ passed \in [Requests -> BOOLEAN]
    /\ delivered \in [Requests -> Seq(Statuses)]
    /\ logged \in [Requests -> Seq(Statuses)]

\* Whichever of the route, an exception, the body limit and the deadline comes
\* first, and whenever the deadline strikes, the client is sent one response
\* (RequestTimeoutMiddleware's response_started).
OneResponse ==
    \A c \in Requests :
        /\ Len(delivered[c]) <= 1
        /\ place[c] = "over" => Len(delivered[c]) = 1

\* "Emit exactly one canonical request-completion event per HTTP request": also
\* for one that fails after its response, and with the status the client was
\* sent.  The exception is what LoggedAsSent is violated by: the layers had let a
\* start pass that was never written, and the server put its 500 in its place.
LoggedOnce ==
    \A c \in Requests : place[c] = "over" /\ kind[c] # "quiet" =>
        /\ Len(logged[c]) = 1
        /\ logged[c] = delivered[c] \/ (passed[c] /\ delivered[c] = <<"error">>)

\* "request.completed: still emitted for the final response status"
\* (docs/observability.md): the event carries the status the client was sent.
LoggedAsSent ==
    \A c \in Requests : place[c] = "over" /\ kind[c] # "quiet" =>
        logged[c] = delivered[c]
=============================================================================
