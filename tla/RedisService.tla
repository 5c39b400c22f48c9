--------------------------- MODULE RedisService ---------------------------
(***************************************************************************)
(* The process-wide Redis client of pfm/app/db/redis.py: start, lazy       *)
(* reconnection with a cool-down, recovery-aware access, and stop, called  *)
(* by any number of coroutines of one event loop.  Between two awaits a    *)
(* coroutine runs alone, so every action is the code from one await that   *)
(* can suspend to the next.                                                *)
(*                                                                         *)
(* A caller makes one call (a repeated call is another caller), so it      *)
(* builds at most one client, which is named by its builder.  asyncio.Lock *)
(* is first come first served; here any waiter may be the next, which      *)
(* allows more orders.                                                     *)
(***************************************************************************)
EXTENDS Naturals

CONSTANTS
    Callers,
    Op,            \* Op[c]: "start", "ensure" (ensure_started), "require", "stop"
    Hasty,         \* the callers that may be cancelled (a deadline around the call)
    Brittle,       \* the clients, by builder, whose close may raise
    Cooldown,      \* _start_retry_cooldown_seconds
    MaxTime,       \* bound on the clock
    None           \* Python None

ASSUME ServiceAssumption ==
    /\ None \notin Callers /\ None \notin Nat
    /\ Op \in [Callers -> {"start", "ensure", "require", "stop"}]
    /\ Hasty \subseteq Callers /\ Brittle \subseteq Callers
    /\ Cooldown \in Nat \ {0}
    /\ MaxTime \in Nat

VARIABLES
    now,           \* the event loop's clock
    client,        \* _client, the published client
    stopped,       \* _stopped
    generation,    \* _backend_generation
    lastFailure,   \* _last_start_failure_at
    lock,          \* the caller that holds _start_lock
    pc,            \* pc[c]: where caller c is suspended
    held,          \* held[c]: the client that c was given or is closing
    conn,          \* conn[k]: the connection of the client built by k
    answer         \* answer[c]: what c's call returned or raised; a failed ping, when

serviceVars == <<now, client, stopped, generation, lastFailure, lock, pc, held,
                 conn, answer>>

-----------------------------------------------------------------------------
Lazy(c)   == Op[c] \in {"ensure", "require"}
Stopper(c) == Op[c] = "stop"

\* Bug: the failure is remembered but the cool-down is compared the wrong way.
CoolingNever == FALSE
Cooling == lastFailure # None /\ now < lastFailure + Cooldown

Init ==
    /\ now = 0
    /\ client = None
    /\ stopped = FALSE
    /\ generation = 0
    /\ lastFailure = None
    /\ lock = None
    /\ pc = [c \in Callers |-> "idle"]
    /\ held = [c \in Callers |-> None]
    /\ conn = [c \in Callers |-> "unbuilt"]
    /\ answer = [c \in Callers |-> [kind |-> "none", at |-> 0]]

Goto(c, from, to) == pc[c] = from /\ pc' = [pc EXCEPT ![c] = to]

Return(c, from, kind) ==
    /\ Goto(c, from, "done")
    /\ answer' = [answer EXCEPT ![c] = [kind |-> kind, at |-> 0]]

\* c is answered with the client that is published.
Serve(c, from) ==
    /\ ~Stopper(c) /\ client # None
    /\ Return(c, from, "ok")
    /\ held' = [held EXCEPT ![c] = client]
    /\ UNCHANGED <<now, client, stopped, generation, lastFailure, lock, conn>>

\* c is turned away: the service is stopped or cooling down.
Refuse(c, from, kind) ==
    /\ Return(c, from, kind)
    /\ UNCHANGED <<now, client, stopped, generation, lastFailure, lock, held, conn>>

-----------------------------------------------------------------------------
(* Before the lock: the first look.                                        *)

CallServed(c) == Serve(c, "idle")

\* start() does not look at _stopped before it has the lock.
CallRefused(c) ==
    /\ Lazy(c) /\ client = None /\ stopped
    /\ Refuse(c, "idle", "stopped")

CallQueues(c) ==
    /\ \/ Stopper(c)
       \/ client = None /\ ~(Lazy(c) /\ stopped)
    /\ Goto(c, "idle", "wait")
    /\ UNCHANGED <<now, client, stopped, generation, lastFailure, lock, held, conn, answer>>

Call(c) == CallServed(c) \/ CallRefused(c) \/ CallQueues(c)

-----------------------------------------------------------------------------
(* With the lock: the second look.                                         *)

\* Bug: the body of the lock is entered while another caller is in it.
GrantedAlways(c) == pc[c] = "wait"
Granted(c) == pc[c] = "wait" /\ lock = None

FindsClient(c) == Granted(c) /\ Serve(c, "wait")

FindsStopped(c) ==
    /\ Granted(c) /\ ~Stopper(c)
    /\ client = None /\ stopped
    /\ Refuse(c, "wait", "stopped")

FindsCooling(c) ==
    /\ Granted(c) /\ Lazy(c)
    /\ client = None /\ ~stopped /\ Cooling
    /\ Refuse(c, "wait", "unavailable")

\* Bug: the second look leaves out _stopped.
MayConnectAnyway(c) == client = None /\ ~(Lazy(c) /\ Cooling)
MayConnect(c) == client = None /\ ~stopped /\ ~(Lazy(c) /\ Cooling)

Connect(c) ==
    /\ Granted(c) /\ ~Stopper(c)
    /\ MayConnect(c)
    /\ Goto(c, "wait", "ping")
    /\ lock' = c
    /\ conn' = [conn EXCEPT ![c] = "open"]
    /\ UNCHANGED <<now, client, stopped, generation, lastFailure, held, answer>>

\* Bug: an early return out of the lock's body leaves it locked.
UnlockForgotten == UNCHANGED lock
Unlock == lock' = None

Publish(c) ==
    /\ Return(c, "ping", "ok")
    /\ client' = c
    /\ generation' = generation + 1
    /\ lastFailure' = None
    /\ held' = [held EXCEPT ![c] = c]
    /\ Unlock
    /\ UNCHANGED <<now, stopped, conn>>

\* Bug: the failed attempt leaves no time stamp.
StampForgotten == UNCHANGED lastFailure
\* Bug: the cool-down is taken off the stamp as well as added when it is read.
StampBefore == lastFailure' = now - Cooldown
StampFailure == lastFailure' = now

PingFails(c) ==
    /\ Goto(c, "ping", "discard")
    /\ StampFailure
    /\ answer' = [answer EXCEPT ![c] = [kind |-> "failed", at |-> now]]
    /\ UNCHANGED <<now, client, stopped, generation, lock, held, conn>>

\* _close_client: aclose() ends with the connection closed, or raises.
Closes(k) == conn' = [i \in Callers |-> IF i = k THEN "closed" ELSE conn[i]]
CloseFails(k) == k \in Brittle /\ UNCHANGED conn

\* A close that raises replaces the ping's error by its own: failed all the same.
Discard(c) ==
    /\ Goto(c, "discard", "done")
    /\ Closes(c) \/ CloseFails(c)
    /\ Unlock
    /\ UNCHANGED <<now, client, stopped, generation, lastFailure, held, answer>>

-----------------------------------------------------------------------------
(* stop(): unpublish with the lock, close without it.                      *)

\* Bug: the client is taken from _client after that has been cleared.
TakenLate(c) == held' = held
Taken(c) == held' = [held EXCEPT ![c] = client]

Stop(c) ==
    /\ Granted(c) /\ Stopper(c)
    /\ Goto(c, "wait", "close")
    /\ Taken(c)
    /\ stopped' = TRUE
    /\ generation' = IF client = None THEN generation ELSE generation + 1
    /\ client' = None
    /\ lastFailure' = None
    /\ UNCHANGED <<now, lock, conn, answer>>

StopCloses(c) ==
    /\ \/ Return(c, "close", "ok") /\ Closes(held[c])
       \/ Return(c, "close", "raised") /\ CloseFails(held[c])
    /\ UNCHANGED <<now, client, stopped, generation, lastFailure, lock, held>>

-----------------------------------------------------------------------------
\* CancelledError at the await: a lock that is held is released, and nothing
\* else is tidied up.  A close that is cut short leaves the connection open.
Cancel(c) ==
    /\ c \in Hasty
    /\ \E from \in {"wait", "ping", "discard", "close"} : Return(c, from, "cancelled")
    /\ lock' = IF lock = c THEN None ELSE lock
    /\ UNCHANGED <<now, client, stopped, generation, lastFailure, held, conn>>

Tick ==
    /\ now < MaxTime
    /\ now' = now + 1
    /\ UNCHANGED <<client, stopped, generation, lastFailure, lock, pc, held, conn, answer>>

WithLock(c) ==
    \/ FindsClient(c) \/ FindsStopped(c) \/ FindsCooling(c) \/ Connect(c)
    \/ Publish(c) \/ PingFails(c) \/ Discard(c)
    \/ Stop(c) \/ StopCloses(c)

Finished == (\A c \in Callers : pc[c] \in {"idle", "done"}) /\ UNCHANGED serviceVars

Next ==
    \/ \E c \in Callers : Call(c) \/ WithLock(c) \/ Cancel(c)
    \/ Tick \/ Finished

Spec == Init /\ [][Next]_serviceVars

\* Coroutines that can run do: a ping ends with an answer or a socket timeout.
\* The lock is handed to a waiter whenever it is free.
FairSpec == Spec /\ \A c \in Callers : WF_serviceVars(WithLock(c))

-----------------------------------------------------------------------------
\* The variables have their types.
TypeOK ==
    /\ now \in Nat
    /\ client \in Callers \cup {None}
    /\ stopped \in BOOLEAN
    /\ generation \in Nat
    /\ lastFailure \in Nat \cup {None}
    /\ lock \in Callers \cup {None}
    /\ pc \in [Callers -> {"idle", "wait", "ping", "discard", "close", "done"}]
    /\ held \in [Callers -> Callers \cup {None}]
    /\ conn \in [Callers -> {"unbuilt", "open", "closed"}]
    /\ answer \in [Callers -> [kind : {"none", "ok", "stopped", "unavailable",
                                       "failed", "cancelled", "raised"}, at : Nat]]

\* Once stop() has begun to close, no client is published and none is on its
\* way to be: a start or a reconnection that was under way came first.
StoppedForGood ==
    stopped => client = None /\ \A c \in Callers : pc[c] \notin {"ping", "discard"}

\* A close of client k has raised: after a failed ping, or in a stop.
CloseRaised(k) ==
    /\ k \in Brittle
    /\ \/ pc[k] = "done" /\ answer[k].kind = "failed"
       \/ \E c \in Callers : answer[c].kind = "raised" /\ held[c] = k

\* An open connection is the published client's, or has a caller that is about
\* to publish or close it, or was left behind by a cancelled caller or by a
\* close that raised.
NoConnectionLost ==
    \A k \in Callers : conn[k] = "open" =>
        \/ k = client
        \/ pc[k] \in {"ping", "discard"}
        \/ \E c \in Callers : pc[c] = "close" /\ held[c] = k
        \/ \E c \in Hasty : answer[c].kind = "cancelled" /\ k \in {c, held[c]}
        \/ CloseRaised(k)

\* A dead server is not hammered: two failed lazy attempts are a cool-down
\* apart, however many callers were queued behind the first.
FailuresSpaced ==
    \A c, d \in Callers :
        /\ c # d /\ Lazy(c) /\ Lazy(d)
        /\ answer[c].kind = "failed" /\ answer[d].kind = "failed"
        => \/ answer[c].at + Cooldown <= answer[d].at
           \/ answer[d].at + Cooldown <= answer[c].at

\* One client is ever published, as generation 1: a cache that was made while
\* a client was published is never made again for another one.
PublishedOnce ==
    /\ client # None => generation = 1
    /\ client = None /\ ~stopped => generation = 0

\* Every call returns: no path out of the lock's body keeps the lock.
EveryCallReturns == \A c \in Callers : pc[c] = "wait" ~> pc[c] = "done"

\* stop() leaves no connection behind it, in whichever order it meets the
\* starts and reconnections under way, but for those of cancelled callers and
\* of closes that raised.
StopReleasesAll ==
    (\E c \in Callers : Stopper(c) /\ pc[c] = "wait" /\ c \notin Hasty)
        ~> [](\A k \in Callers : conn[k] = "open" =>
                  \/ k \in Hasty /\ answer[k].kind = "cancelled"
                  \/ CloseRaised(k))

-----------------------------------------------------------------------------
(* The inductive invariant behind the safety properties.                   *)

\* The lock is held exactly while a connection attempt is under way, and an
\* attempt is made only where nothing is published and nothing is stopped.
LockInv ==
    /\ \A c \in Callers : pc[c] \in {"ping", "discard"} <=> lock = c
    /\ lock # None => client = None /\ ~stopped
    /\ stopped => client = None

\* A call that has not returned was not cancelled, and no close of it raised;
\* what is discarded is the client of a failed ping.
CancelInv ==
    \A c \in Callers :
        /\ pc[c] # "done" => answer[c].kind \notin {"cancelled", "raised"}
        /\ pc[c] = "discard" => answer[c].kind = "failed"

\* Failures are in the past; while a further attempt is possible the last of
\* them is remembered; a lazy attempt under way began a cool-down after it.
FailureInv ==
    /\ lastFailure # None => lastFailure <= now
    /\ \A c \in Callers : answer[c].kind = "failed" =>
        /\ answer[c].at <= now
        /\ client = None /\ ~stopped => lastFailure # None /\ answer[c].at <= lastFailure
        /\ \A d \in Callers : Lazy(d) /\ pc[d] = "ping" => answer[c].at + Cooldown <= now

ServiceInv ==
    /\ TypeOK
    /\ LockInv
    /\ CancelInv
    /\ FailureInv
    /\ PublishedOnce
    /\ NoConnectionLost
    /\ FailuresSpaced

=============================================================================
