----------------------------- MODULE JwksCache -----------------------------
(***************************************************************************)
(* Verification of access tokens, pfm/app/auth/verifier.py, over the cache *)
(* of the provider's signing keys, pfm/app/auth/jwks.py: the keys are      *)
(* fetched under one asyncio lock, kept for a time, and fetched again at   *)
(* once for a token that names a key the cache does not have.              *)
(*                                                                         *)
(* The endpoint publishes editions of its key set one after another        *)
(* (rotation adds a key and later withdraws one); the cache holds one      *)
(* edition, named by its number.  A caller verifies one token.  A fetch is *)
(* two steps, the endpoint's answer and its receipt, as the endpoint may   *)
(* publish in between.                                                     *)
(***************************************************************************)
EXTENDS Integers

CONSTANTS
    Callers,       \* the verifications
    Hasty,         \* those a request deadline may cancel
    Kids,          \* key ids
    LastEdition,   \* the last edition of the run
    Published,     \* Published[e]: the key ids of edition e
    Ttl,           \* jwks_cache_ttl_seconds
    Transit,       \* the longest an answer of the endpoint travels
    MaxTime,       \* bound on the clock
    None

ASSUME JwksAssumption ==
    /\ None \notin Callers /\ None \notin Nat /\ None \notin Kids
    /\ Hasty \subseteq Callers
    /\ LastEdition \in Nat
    /\ Published \in [0 .. LastEdition -> SUBSET Kids]
    /\ Ttl \in Nat \ {0} /\ Transit \in Nat /\ MaxTime \in Nat

VARIABLES
    edition,       \* what the endpoint publishes now
    clock,         \* time.monotonic()
    cached,        \* _keys_by_kid: an edition, None while it is empty
    expiresAt,     \* _expires_at
    lock,          \* the caller that holds _lock
    pc,            \* pc[c]: where c is suspended
    kid,           \* kid[c]: the key id in the header of c's token
    forced,        \* forced[c]: c is refreshing with force=True
    served,        \* served[c]: the edition the endpoint answered c with
    servedAt,      \* servedAt[c]: when
    verdict,       \* verdict[c]: what verify_token returned or raised
    birth,         \* auxiliary: the edition published when c began
    gone           \* auxiliary: gone[k]: when k was last withdrawn

cacheVars == <<cached, expiresAt, lock>>
callVars == <<pc, kid, forced, served, servedAt, verdict, birth>>
endpointVars == <<edition, clock, gone>>
jwksVars == <<endpointVars, cacheVars, callVars>>

Editions == 0 .. LastEdition
Places == {"idle", "ask", "wait", "fetch", "reply", "done"}
Verdicts == {"none", "accepted", "rejected", "unknown", "unavailable", "cancelled"}

-----------------------------------------------------------------------------
Init ==
    /\ edition = 0 /\ clock = 0
    /\ cached = None /\ expiresAt = 0 /\ lock = None
    /\ pc = [c \in Callers |-> "idle"]
    /\ kid = [c \in Callers |-> None]
    /\ forced = [c \in Callers |-> FALSE]
    /\ served = [c \in Callers |-> 0]
    /\ servedAt = [c \in Callers |-> 0]
    /\ verdict = [c \in Callers |-> "none"]
    /\ birth = [c \in Callers |-> 0]
    /\ gone = [k \in Kids |-> 0]

\* Bug: an expired set is still used.
FreshForEver == cached # None
\* The keys may be used: there are some, and they have not expired.
Fresh == cached # None /\ clock < expiresAt

Has(e, c) == kid[c] \in Published[e]

\* verify_token returns or raises, and its locals are gone.
Conclude(c, what) ==
    /\ pc' = [pc EXCEPT ![c] = "done"]
    /\ verdict' = [verdict EXCEPT ![c] = what]
    /\ kid' = [kid EXCEPT ![c] = None]
    /\ forced' = [forced EXCEPT ![c] = FALSE]
    /\ served' = [served EXCEPT ![c] = 0]
    /\ servedAt' = [servedAt EXCEPT ![c] = 0]
    /\ birth' = [birth EXCEPT ![c] = 0]

\* The key is found; the signature, the dates and the claims decide.
Decode(c) == \E what \in {"accepted", "rejected"} : Conclude(c, what)

\* Bug: the set is not fetched again for a key it lacks.
GiveUpOn(c) == Conclude(c, "unknown")
\* get_signing_key does not find the key in the set _get_keys returned.
FetchAgain(c) ==
    /\ forced' = [forced EXCEPT ![c] = TRUE]
    /\ pc' = [pc EXCEPT ![c] = "wait"]
    /\ UNCHANGED <<verdict, kid, served, servedAt, birth>>

-----------------------------------------------------------------------------
\* A token arrives: its header is malformed, names no key or an algorithm that
\* is not accepted, or else k is its key id.
Present(c, k) ==
    /\ pc[c] = "idle"
    /\ kid' = [kid EXCEPT ![c] = k]
    /\ birth' = [birth EXCEPT ![c] = edition]
    /\ pc' = [pc EXCEPT ![c] = "ask"]
    /\ UNCHANGED <<endpointVars, cacheVars, forced, served, servedAt, verdict>>

BadHeader(c) ==
    /\ pc[c] = "ask"
    /\ Conclude(c, "rejected")
    /\ UNCHANGED <<endpointVars, cacheVars>>

AskHit(c) ==
    /\ pc[c] = "ask" /\ Fresh /\ Has(cached, c)
    /\ Decode(c)
    /\ UNCHANGED <<endpointVars, cacheVars>>

AskMiss(c) ==
    /\ pc[c] = "ask" /\ Fresh /\ ~Has(cached, c)
    /\ FetchAgain(c)
    /\ UNCHANGED <<endpointVars, cacheVars>>

AskStale(c) ==
    /\ pc[c] = "ask" /\ ~Fresh
    /\ pc' = [pc EXCEPT ![c] = "wait"]
    /\ UNCHANGED <<endpointVars, cacheVars, kid, forced, served, servedAt, verdict, birth>>

\* Bug: fetches are not serialised.
LockIgnored(c) == pc[c] = "wait"
\* _refresh_keys has the lock.
Granted(c) == pc[c] = "wait" /\ lock = None

\* Somebody else has fetched the keys meanwhile.
EnterHit(c) ==
    /\ Granted(c) /\ ~forced[c] /\ Fresh /\ Has(cached, c)
    /\ Decode(c)
    /\ UNCHANGED <<endpointVars, cacheVars>>

EnterMiss(c) ==
    /\ Granted(c) /\ ~forced[c] /\ Fresh /\ ~Has(cached, c)
    /\ FetchAgain(c)
    /\ UNCHANGED <<endpointVars, cacheVars>>

EnterFetch(c) ==
    /\ Granted(c) /\ (forced[c] \/ ~Fresh)
    /\ lock' = c
    /\ pc' = [pc EXCEPT ![c] = "fetch"]
    /\ UNCHANGED <<endpointVars, cached, expiresAt, kid, forced, served, servedAt,
                   verdict, birth>>

Serve(c) ==
    /\ pc[c] = "fetch"
    /\ pc' = [pc EXCEPT ![c] = "reply"]
    /\ served' = [served EXCEPT ![c] = edition]
    /\ servedAt' = [servedAt EXCEPT ![c] = clock]
    /\ UNCHANGED <<endpointVars, cacheVars, kid, forced, verdict, birth>>

\* The answer is parsed, and replaces the cache.  An unforced refresh that does
\* not bring the key either is followed by a forced one.
Receive(c) ==
    /\ pc[c] = "reply" /\ Published[served[c]] # {}
    /\ cached' = served[c]
    /\ expiresAt' = clock + Ttl
    /\ lock' = None
    /\ \/ Has(served[c], c) /\ Decode(c)
       \/ ~Has(served[c], c) /\ ~forced[c] /\ FetchAgain(c)
       \/ ~Has(served[c], c) /\ forced[c] /\ Conclude(c, "unknown")
    /\ UNCHANGED endpointVars

\* Bug: the lock is kept by a caller that fails.
KeepLock(c) == c = c /\ UNCHANGED lock
\* "async with" gives the lock back whatever is raised.
Release(c) == lock' = IF lock = c THEN None ELSE lock

\* A timeout, an error status, or an answer without keys: the old set stays.
FetchFails(c) ==
    /\ pc[c] \in {"fetch", "reply"}
    /\ Conclude(c, "unavailable")
    /\ Release(c)
    /\ UNCHANGED <<endpointVars, cached, expiresAt>>

\* The deadline of the request: CancelledError at the await.
Cancel(c) ==
    /\ c \in Hasty /\ pc[c] \in {"wait", "fetch", "reply"}
    /\ Conclude(c, "cancelled")
    /\ Release(c)
    /\ UNCHANGED <<endpointVars, cached, expiresAt>>

-----------------------------------------------------------------------------
(* The endpoint and the clock.                                             *)

Publish ==
    /\ edition < LastEdition
    /\ edition' = edition + 1
    /\ gone' = [k \in Kids |-> IF k \in Published[edition] \ Published[edition + 1]
                               THEN clock ELSE gone[k]]
    /\ UNCHANGED <<clock, cacheVars, callVars>>

\* An answer does not travel longer than the refresh timeout lets it.
Tick ==
    /\ clock < MaxTime
    /\ \A c \in Callers : pc[c] = "reply" => clock < servedAt[c] + Transit
    /\ clock' = clock + 1
    /\ UNCHANGED <<edition, gone, cacheVars, callVars>>

Proceed(c) ==
    \/ BadHeader(c) \/ AskHit(c) \/ AskMiss(c) \/ AskStale(c)
    \/ EnterHit(c) \/ EnterMiss(c) \/ EnterFetch(c)
    \/ Serve(c) \/ Receive(c) \/ FetchFails(c)

JwksNext ==
    \/ \E c \in Callers : (\E k \in Kids : Present(c, k)) \/ Proceed(c) \/ Cancel(c)
    \/ Publish \/ Tick

JwksSpec == Init /\ [][JwksNext]_jwksVars

-----------------------------------------------------------------------------
TypeOK ==
    /\ edition \in Editions /\ clock \in Nat
    /\ cached \in Editions \cup {None}
    /\ expiresAt \in Nat
    /\ lock \in Callers \cup {None}
    /\ pc \in [Callers -> Places]
    /\ kid \in [Callers -> Kids \cup {None}]
    /\ forced \in [Callers -> BOOLEAN]
    /\ served \in [Callers -> Editions]
    /\ servedAt \in [Callers -> Nat]
    /\ verdict \in [Callers -> Verdicts]
    /\ birth \in [Callers -> Editions]
    /\ gone \in [Kids -> Nat]

\* A fetch that overlaps a rotation, or another fetch, never puts an older key
\* set in the place of a newer one (jwks.py _refresh_keys assigns under the lock
\* it took before it asked).
KeysNeverGoBack == [][cached # None => cached' # None /\ cached' >= cached]_jwksVars

\* A token is refused for an unknown key only if the endpoint did not publish
\* its key at some moment since the token was presented: no cached set, however
\* old, refuses a token signed with a key that has just been rotated in
\* (get_signing_key's forced refresh).
UnknownMeansUnpublished ==
    [][\A c \in Callers : verdict[c] # "unknown" /\ verdict'[c] = "unknown" =>
           \E e \in birth[c] .. edition : kid[c] \notin Published[e]]_jwksVars

\* A withdrawn key verifies no token once the time to live has passed since
\* its withdrawal, allowing for the answer that was on its way then: no failed
\* refresh, cancelled refresh or wait for the lock extends its life.
AcceptsOnlyRecentKeys ==
    [][\A c \in Callers : verdict[c] # "accepted" /\ verdict'[c] = "accepted" =>
           \/ kid[c] \in Published[edition]
           \/ clock < gone[kid[c]] + Transit + Ttl]_jwksVars
=============================================================================
