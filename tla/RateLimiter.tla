---------------------------- MODULE RateLimiter ----------------------------
(***************************************************************************)
(* Rate limiting, pfm/app/core/rate_limit.py, over the Redis service: the  *)
(* warm-up at the start of the application, the cache of one limiter per   *)
(* policy with its per-policy lock, and the decision on each request.  A   *)
(* tier is strict (a request that cannot be counted is refused with 503)   *)
(* or open (it is let through).                                            *)
(*                                                                         *)
(* The cache belongs to one generation of the backend and is made again    *)
(* for another.  It is only looked up while a client is published, and     *)
(* that is generation 1 for ever (PublishedOnce of RedisService), so it is *)
(* one function here.  A strict request that finds Redis down is a caller  *)
(* of ensure_started() under its own name.                                 *)
(***************************************************************************)
EXTENDS RedisService

CONSTANTS
    Requests,      \* the requests that meet a rate limit
    Strict,        \* those of a strict tier: each is a caller of ensure_started
    Policy         \* Policy[r]: the limit and window of r's tier

Policies == {Policy[r] : r \in Requests}

ASSUME LimiterAssumption ==
    /\ None \notin Requests
    /\ Strict \subseteq Requests
    /\ Strict \subseteq {c \in Callers : Op[c] = "ensure"}

VARIABLES
    warm,          \* initialize_rate_limiting has run
    limiter,       \* limiter[p]: the client p's bucket was built on, None if uncached
    initLock,      \* initLock[p]: the request that is building p's bucket
    step,          \* step[r]: where r is suspended in the limiter
    target,        \* target[r]: the client r's bucket is being built on
    counted,       \* counted[r]: r was counted by its bucket
    decision       \* decision[r]: what r's dependency did

limiterVars == <<warm, limiter, initLock, step, target, counted, decision>>
vars == <<serviceVars, limiterVars>>

-----------------------------------------------------------------------------
InitLimiter ==
    /\ Init
    /\ warm = FALSE
    /\ limiter = [p \in Policies |-> None]
    /\ initLock = [p \in Policies |-> None]
    /\ step = [r \in Requests |-> "idle"]
    /\ target = [r \in Requests |-> None]
    /\ counted = [r \in Requests |-> FALSE]
    /\ decision = [r \in Requests |-> "none"]

Move(r, from, to) == step[r] = from /\ step' = [step EXCEPT ![r] = to]

Decide(r, from, what) ==
    /\ Move(r, from, "done")
    /\ decision' = [decision EXCEPT ![r] = what]
    /\ target' = [target EXCEPT ![r] = None]

\* Bug: a strict tier is waved through when its limiter cannot be had.
FailOpen(r) == "admitted"
\* Bug: the failure escapes as an error nobody turns into a 503.
Escapes(r) == IF r \in Strict THEN "error" ELSE "admitted"
\* What r gets where it cannot be counted.
Uncountable(r) == IF r \in Strict THEN "unavailable" ELSE "admitted"

\* The application's start-up call of start() returns before any request; then
\* each policy's bucket is built, and a bucket that fails is left to be built
\* by the first request.
Booted == \A c \in Callers : Op[c] = "start" => pc[c] = "done"

WarmUp ==
    /\ Booted /\ ~warm
    /\ warm' = TRUE
    /\ \E built \in SUBSET (IF client = None THEN {} ELSE Policies) :
           limiter' = [p \in Policies |-> IF p \in built THEN client ELSE None]
    /\ UNCHANGED <<serviceVars, initLock, step, target, counted, decision>>

-----------------------------------------------------------------------------
(* The dependency of one request.                                          *)

\* A strict request that finds no client asks the service to reconnect.
AskService(r) ==
    /\ warm /\ r \in Strict /\ client = None
    /\ Move(r, "idle", "ensuring")
    /\ Call(r)
    /\ UNCHANGED <<warm, limiter, initLock, target, counted, decision>>

\* Where r may look for its limiter: at once, or when the service has said it
\* is started.
AtLookup(r) ==
    \/ warm /\ step[r] = "idle" /\ ~(r \in Strict /\ client = None)
    \/ step[r] = "ensuring" /\ pc[r] = "done" /\ answer[r].kind = "ok"

NotRestarted(r) ==
    /\ step[r] = "ensuring" /\ pc[r] = "done"
    /\ answer[r].kind \in {"stopped", "unavailable", "failed"}
    /\ Decide(r, "ensuring", "unavailable")
    /\ UNCHANGED <<serviceVars, warm, limiter, initLock, counted>>

\* Nobody has unpublished the client: is_available.
LookupNoBackend(r) ==
    /\ AtLookup(r) /\ client = None
    /\ Decide(r, step[r], Uncountable(r))
    /\ UNCHANGED <<serviceVars, warm, limiter, initLock, counted>>

LookupCached(r) ==
    /\ AtLookup(r) /\ client # None
    /\ limiter[Policy[r]] # None
    /\ Move(r, step[r], "hit")
    /\ UNCHANGED <<serviceVars, warm, limiter, initLock, target, counted, decision>>

LookupMissing(r) ==
    /\ AtLookup(r) /\ client # None
    /\ limiter[Policy[r]] = None
    /\ Move(r, step[r], "queued")
    /\ UNCHANGED <<serviceVars, warm, limiter, initLock, target, counted, decision>>

\* With the policy's lock: the second look.
HasLock(r) == step[r] = "queued" /\ initLock[Policy[r]] = None

\* Bug: the cache is not looked at again with the lock.
StillMissingUnchecked(r) == TRUE
StillMissing(r) == limiter[Policy[r]] = None

SecondLookCached(r) ==
    /\ HasLock(r) /\ ~StillMissing(r)
    /\ Move(r, "queued", "hit")
    /\ UNCHANGED <<serviceVars, warm, limiter, initLock, target, counted, decision>>

\* raw_client raises where the client has gone meanwhile.
SecondLookNoBackend(r) ==
    /\ HasLock(r) /\ StillMissing(r) /\ client = None
    /\ Decide(r, "queued", Uncountable(r))
    /\ UNCHANGED <<serviceVars, warm, limiter, initLock, counted>>

BuildBucket(r) ==
    /\ HasLock(r) /\ StillMissing(r) /\ client # None
    /\ Move(r, "queued", "building")
    /\ initLock' = [initLock EXCEPT ![Policy[r]] = r]
    /\ target' = [target EXCEPT ![r] = client]
    /\ UNCHANGED <<serviceVars, warm, limiter, counted, decision>>

\* Bug: the policy's lock is kept.
LeaveLocked(r) == r = r /\ UNCHANGED initLock
\* r leaves the body of its policy's lock.
Leave(r) == initLock' = [initLock EXCEPT ![Policy[r]] = None]

BucketBuilt(r) ==
    /\ Move(r, "building", "hit")
    /\ limiter' = [limiter EXCEPT ![Policy[r]] = target[r]]
    /\ target' = [target EXCEPT ![r] = None]
    /\ Leave(r)
    /\ UNCHANGED <<serviceVars, warm, counted, decision>>

BucketFails(r) ==
    /\ Decide(r, "building", Uncountable(r))
    /\ Leave(r)
    /\ UNCHANGED <<serviceVars, warm, limiter, counted>>

\* The bucket counts r, and lets it through or finds the window full.
Counted(r) ==
    /\ \E what \in {"admitted", "limited"} : Decide(r, "hit", what)
    /\ counted' = [counted EXCEPT ![r] = TRUE]
    /\ UNCHANGED <<serviceVars, warm, limiter, initLock>>

CountFails(r) ==
    /\ Decide(r, "hit", Uncountable(r))
    /\ UNCHANGED <<serviceVars, warm, limiter, initLock, counted>>

\* The request's deadline, which any request may meet.  The lock of the policy
\* is released.
CancelRequest(r) ==
    /\ \E from \in {"queued", "building", "hit"} : Decide(r, from, "cancelled")
    /\ initLock' = [initLock EXCEPT ![Policy[r]] = IF @ = r THEN None ELSE @]
    /\ UNCHANGED <<serviceVars, warm, limiter, counted>>

\* The deadline met r inside ensure_started().
CancelledInService(r) ==
    /\ step[r] = "ensuring" /\ pc[r] = "done"
    /\ answer[r].kind = "cancelled"
    /\ Decide(r, "ensuring", "cancelled")
    /\ UNCHANGED <<serviceVars, warm, limiter, initLock, counted>>

-----------------------------------------------------------------------------
\* The service's own steps; a strict request calls it through AskService only.
ServiceMoves ==
    /\ \/ \E c \in Callers \ Strict :
              /\ Op[c] = "start" \/ warm
              /\ Call(c)
       \/ \E c \in Callers : WithLock(c) \/ Cancel(c)
       \/ Tick
    /\ UNCHANGED limiterVars

Proceed(r) ==
    \/ NotRestarted(r) \/ LookupNoBackend(r) \/ LookupCached(r) \/ LookupMissing(r)
    \/ SecondLookCached(r) \/ SecondLookNoBackend(r) \/ BuildBucket(r)
    \/ BucketBuilt(r) \/ BucketFails(r) \/ Counted(r) \/ CountFails(r)
    \/ CancelledInService(r)

AllDone ==
    /\ \A r \in Requests : step[r] \in {"idle", "done"}
    /\ \A c \in Callers : pc[c] \in {"idle", "done"}
    /\ UNCHANGED vars

NextLimiter ==
    \/ ServiceMoves \/ WarmUp \/ AllDone
    \/ \E r \in Requests : AskService(r) \/ Proceed(r) \/ CancelRequest(r)

SpecLimiter == InitLimiter /\ [][NextLimiter]_vars

\* Every coroutine that can run does; every command ends or times out.
FairSpecLimiter ==
    /\ SpecLimiter
    /\ \A c \in Callers : WF_vars(WithLock(c) /\ UNCHANGED limiterVars)
    /\ \A r \in Requests : WF_vars(Proceed(r))

-----------------------------------------------------------------------------
\* The variables of the limiter have their types.
LimiterTypeOK ==
    /\ warm \in BOOLEAN
    /\ limiter \in [Policies -> Callers \cup {None}]
    /\ initLock \in [Policies -> Requests \cup {None}]
    /\ step \in [Requests -> {"idle", "ensuring", "queued", "building", "hit", "done"}]
    /\ target \in [Requests -> Callers \cup {None}]
    /\ counted \in [Requests -> BOOLEAN]
    /\ decision \in [Requests -> {"none", "admitted", "limited", "unavailable", "cancelled"}]

\* A strict tier fails closed and an open tier open, whichever of the points
\* of failure is hit: a strict request that was let through was counted, and
\* no request of an open tier is refused for want of Redis.
TiersFailTheirWay ==
    \A r \in Requests :
        /\ r \in Strict /\ decision[r] = "admitted" => counted[r]
        /\ r \notin Strict => decision[r] # "unavailable"

\* All requests of a policy are counted in one bucket: a limiter that was
\* cached is never built again, and it was built on the published client.
OneBucketPerPolicy ==
    [][\A p \in Policies :
          /\ limiter[p] # None => limiter'[p] = limiter[p]
          /\ \A r \in Requests :
                limiter[p] # None /\ Policy[r] = p => step'[r] # "building" \/ step[r] = "building"
       ]_vars

\* A bucket is only ever built on, or cached for, a client that was published.
BuiltOnPublished ==
    /\ \A p \in Policies : limiter[p] # None => limiter[p] = client \/ stopped
    /\ \A r \in Requests : target[r] # None => target[r] = client \/ stopped

\* Every request is decided: no failure keeps a lock that others wait for.
EveryRequestDecided ==
    \A r \in Requests : step[r] \in {"ensuring", "queued"} ~> step[r] = "done"
-----------------------------------------------------------------------------
(* The inductive invariant behind the safety properties.                   *)

\* Only a strict request asks the service; who builds a bucket has the lock of
\* the policy, and the policy has no limiter yet; before the warm-up no
\* request has come and nothing is cached.
BuildInv ==
    /\ \A r \in Requests :
        /\ step[r] = "ensuring" => r \in Strict
        /\ step[r] = "building" =>
               initLock[Policy[r]] = r /\ limiter[Policy[r]] = None
        /\ decision[r] # "none" => step[r] = "done"
    /\ ~warm => \A r \in Requests : step[r] = "idle"
    /\ ~warm => \A p \in Policies : limiter[p] = None

LimiterInv ==
    /\ LimiterTypeOK
    /\ BuildInv
    /\ TiersFailTheirWay
    /\ BuiltOnPublished

=============================================================================
