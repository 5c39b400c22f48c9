----------------------------- MODULE Lifecycle -----------------------------
(***************************************************************************)
(* The life of a process.  An API process, pfm/app/main.py, starts and     *)
(* stops once or, in one interpreter, several times with a new application *)
(* each; what its modules keep (the Plaid client, the engine's pool, the   *)
(* telemetry providers and the active TelemetryRuntime of                  *)
(* core/telemetry/bootstrap.py) outlives the application, the Redis        *)
(* service and the analytics do not.  A Celery worker child and the beat,  *)
(* workers/celery_app.py, keep telemetry only.                             *)
(*                                                                         *)
(* Telemetry is started and shut down without an await.  A provider is     *)
(* flushed here when the flush was tried: what the collector takes is not  *)
(* modelled.                                                               *)
(***************************************************************************)
EXTENDS Integers, Sequences

CONSTANT MaxLives     \* bound on the applications one API process starts

ASSUME LivesAssumption == MaxLives \in Nat \ {0}

VARIABLES
    role,        \* TelemetryProcessRole of the process
    life,        \* the application it is in; 0 before the first
    stage,       \* where that application is
    step,        \* the next of CleanUp
    fault,       \* what the application met: see Faults
    open,        \* what is open, each with the application that owns it
    providers,   \* the process's providers
    registered,  \* _PROCESS_SHUTDOWN_REGISTERED
    active,      \* _ACTIVE_RUNTIME is a runtime that is not shut down
    held,        \* app.state.telemetry_runtime (celery_app._telemetry_runtime)
    unflushed    \* something was recorded since the last flush

processVars == <<role, life, stage, step, fault, open>>
telemetryVars == <<providers, registered, active, held, unflushed>>
vars == <<processVars, telemetryVars>>

Roles == {"api", "worker", "beat"}
Stages == {"down", "booting", "serving", "cleaning", "closing", "gone"}
\* The start failed; a step of the clean-up raised; the clean-up was cut short.
Faults == {"none", "startup", "raised", "cut"}

\* _cleanup_resources in its order.  No code opens the Anthropic client, and its
\* close_client does nothing.
CleanUp == <<"plaid", "pool", "redis">>
Steps == 1 .. Len(CleanUp)
ProcessWide == {"plaid", "pool"}

\* Resource r of application l: 0 owns what the process keeps.
Thing(r, l) == <<r, IF r \in ProcessWide THEN 0 ELSE l>>
Things == {"plaid", "pool", "redis", "analytics"} \X (0 .. MaxLives)
Closes(i, l) == Thing(CleanUp[i], l)

-----------------------------------------------------------------------------
Init ==
    /\ role \in Roles
    /\ life = 0 /\ stage = "down" /\ step = 1 /\ fault = "none" /\ open = {}
    /\ providers = "unset"
    /\ registered = FALSE /\ active = FALSE /\ held = FALSE /\ unflushed = FALSE

-----------------------------------------------------------------------------
(* Telemetry.                                                              *)

\* Bug: the exit handler is registered when the bootstrap is complete.
RegisteredIf(complete) == registered \/ complete
\* _register_process_shutdown comes with the providers, before anything can fail.
Registered(complete) == TRUE

\* The providers, or an exporter, cannot be built.
NoProviders ==
    /\ ~active /\ providers = "unset"
    /\ UNCHANGED telemetryVars

\* The runtime becomes active after the libraries are instrumented, one of which
\* may raise.
Runtime(complete) ==
    /\ active => complete
    /\ providers' = "live"
    /\ registered' = IF providers = "unset" THEN Registered(complete) ELSE registered
    /\ active' = complete
    /\ UNCHANGED unflushed

\* A bootstrap that fails, in the instrumentation of the application at the
\* latest: an active runtime is then left behind that nobody holds.
BootstrapFails ==
    \/ NoProviders
    \/ \E complete \in {FALSE} \cup (IF role = "api" THEN {TRUE} ELSE {}) : Runtime(complete)
       /\ held' = FALSE

\* An active runtime is used again.
Bootstrap == Runtime(TRUE) /\ held' = TRUE

\* TelemetryRuntime.shutdown, best effort, by who holds it.
Shutdown ==
    /\ active' = (active /\ ~held)
    /\ unflushed' = (unflushed /\ ~held)
    /\ UNCHANGED <<providers, registered, held>>

\* A span or a metric, of whatever is instrumented.
Record ==
    /\ stage \in {"booting", "serving", "cleaning"}
    /\ providers = "live"
    /\ unflushed' = TRUE
    /\ UNCHANGED <<processVars, providers, registered, active, held>>

-----------------------------------------------------------------------------
(* An API process.                                                         *)

NewLife ==
    /\ stage = "down" /\ life < MaxLives
    /\ life' = life + 1
    /\ step' = 1
    /\ UNCHANGED role

Opens(r, l) == open' = open \cup {Thing(r, l)}

StartFails ==
    /\ role = "api" /\ NewLife
    /\ Opens("analytics", life + 1)
    /\ BootstrapFails
    /\ fault' = "startup" /\ stage' = "down"

Start ==
    /\ role = "api" /\ NewLife
    /\ Opens("analytics", life + 1)
    /\ Bootstrap
    /\ fault' = "none" /\ stage' = "booting"

\* Redis starts or not; without it the application serves all the same.
StartRedis ==
    /\ role = "api" /\ stage = "booting"
    /\ Opens("redis", life) \/ UNCHANGED open
    /\ stage' = "serving"
    /\ UNCHANGED <<role, life, step, fault, telemetryVars>>

\* A request opens the Plaid client, a connection of the pool, or Redis again.
Use(r) ==
    /\ role = "api" /\ stage = "serving"
    /\ Opens(r, life)
    /\ UNCHANGED <<role, life, stage, step, fault, telemetryVars>>

\* The requests have ended: the server runs the second half of lifespan.
Stop ==
    /\ role = "api" /\ stage = "serving"
    /\ stage' = "cleaning"
    /\ UNCHANGED <<role, life, step, fault, open, telemetryVars>>

\* Bug: Redis is stopped if it was there at the start, not if it came later.
ClosesWhatWasStarted(i) ==
    \/ open' = open \ {Closes(i, life)}
    \/ CleanUp[i] = "redis" /\ UNCHANGED open
\* Each step closes what there is to close by then.
Closed(i) == open' = open \ {Closes(i, life)}

Close ==
    /\ stage = "cleaning"
    /\ Closed(step)
    /\ step' = step + 1
    /\ stage' = IF step + 1 \in Steps THEN "cleaning" ELSE "closing"
    /\ UNCHANGED <<role, life, fault, telemetryVars>>

\* A close that did not come to its end may have closed, or not.
HalfClosed(i) == UNCHANGED open \/ open' = open \ {Closes(i, life)}

\* An exception of a close leaves lifespan: nothing after it is done.
CloseRaises ==
    /\ stage = "cleaning"
    /\ HalfClosed(step)
    /\ fault' = "raised" /\ stage' = "down"
    /\ UNCHANGED <<role, life, step, telemetryVars>>

\* Bug: the timeout is not caught.
CutRaises ==
    /\ stage = "cleaning"
    /\ HalfClosed(step)
    /\ fault' = "cut" /\ stage' = "down"
    /\ UNCHANGED <<role, life, step, telemetryVars>>
\* shutdown_timeout, or a TimeoutError of the close itself: the rest of the
\* clean-up is given up.
Cut ==
    /\ stage = "cleaning"
    /\ HalfClosed(step)
    /\ fault' = "cut" /\ stage' = "closing"
    /\ UNCHANGED <<role, life, step, telemetryVars>>

\* Analytics, then telemetry.
Finish ==
    /\ stage = "closing"
    /\ open' = open \ {Thing("analytics", life)}
    /\ Shutdown
    /\ stage' = "down"
    /\ UNCHANGED <<role, life, step, fault>>

-----------------------------------------------------------------------------
(* A Celery process: signal handlers whose exceptions Celery swallows.     *)

CeleryInit ==
    /\ role # "api" /\ stage = "down" /\ life = 0
    /\ life' = 1 /\ stage' = "serving"
    /\ \/ Bootstrap /\ UNCHANGED fault
       \/ BootstrapFails /\ fault' = "startup"
    /\ UNCHANGED <<role, step, open>>

\* worker_process_shutdown; the beat has no such signal.
CeleryStops ==
    /\ role = "worker" /\ stage = "serving"
    /\ Shutdown
    /\ stage' = "down"
    /\ UNCHANGED <<role, life, step, fault, open>>

-----------------------------------------------------------------------------
\* The exit handlers, last registered first: the providers are flushed and shut
\* down, then the runtime Celery holds.  A worker child leaves without them.
AtExit ==
    /\ providers' = IF registered THEN "shut" ELSE providers
    /\ unflushed' = (unflushed /\ ~registered)
    /\ active' = (active /\ ~(role = "beat" /\ held))
    /\ UNCHANGED <<registered, held>>

Exit ==
    /\ life > 0
    /\ stage = "down" \/ (role = "beat" /\ stage = "serving")
    /\ IF role = "worker" THEN UNCHANGED telemetryVars ELSE AtExit
    /\ stage' = "gone"
    /\ UNCHANGED <<role, life, step, fault, open>>

Next ==
    \/ Start \/ StartFails \/ StartRedis \/ Stop \/ Close \/ CloseRaises \/ Cut \/ Finish
    \/ CeleryInit \/ CeleryStops \/ Record \/ Exit
    \/ \E r \in {"plaid", "pool", "redis"} : Use(r)

Spec == Init /\ [][Next]_vars

-----------------------------------------------------------------------------
LifeTypeOK ==
    /\ role \in Roles /\ life \in 0 .. MaxLives /\ stage \in Stages
    /\ step \in 1 .. Len(CleanUp) + 1
    /\ fault \in Faults
    /\ open \subseteq Things
    /\ providers \in {"unset", "live", "shut"}
    /\ registered \in BOOLEAN /\ active \in BOOLEAN /\ held \in BOOLEAN
    /\ unflushed \in BOOLEAN

\* A stopped application has left something open only if its own start or
\* clean-up went wrong, and then only from where it did: also what Redis or Plaid
\* opened late and what an earlier application left to the process is closed.  A
\* clean-up that was merely slow still closes the analytics and the telemetry
\* (lifespan's except TimeoutError).
LeftOpenOnlyByFault ==
    role = "api" /\ life > 0 /\ stage \in {"down", "gone"} =>
        /\ fault = "none" => \A i \in Steps : Closes(i, life) \notin open
        /\ fault \in {"raised", "cut"} =>
              \A i \in Steps : i < step => Closes(i, life) \notin open
        /\ fault \in {"none", "cut"} => ~active /\ Thing("analytics", life) \notin open

\* What was recorded was flushed, or a flush was tried, before the process left,
\* whether its applications started, stopped or failed: by the runtime or by the
\* exit handler.  The exception is a worker child whose bootstrap failed, which
\* has no runtime to shut down and runs no exit handler.
FlushedAtExit ==
    stage = "gone" /\ ~(role = "worker" /\ fault = "startup") => ~unflushed
=============================================================================
