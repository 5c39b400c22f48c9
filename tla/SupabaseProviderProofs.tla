----------------------- MODULE SupabaseProviderProofs -----------------------
(***************************************************************************)
(* Proofs about JwksCache and SupabaseProvider, for every number of        *)
(* callers, every sequence of key sets and every time to live.             *)
(*                                                                         *)
(* Every step of the provider is a step of the cache or leaves it alone,   *)
(* so the cache's invariant is proved of JwksSpec, and Spec => JwksSpec    *)
(* carries it over.                                                        *)
(***************************************************************************)
EXTENDS SupabaseProvider, TLAPS

USE JwksAssumption

Busy == {"fetch", "reply"}

\* Who asks the endpoint is who holds the lock.
HolderAsks == \A c \in Callers : pc[c] \in Busy <=> lock = c

\* No caller knows more than the endpoint has published, and the answer in the
\* hands of a caller is at least as new as the cache and as its token.
AnswersAreNew ==
    /\ cached # None => cached <= edition
    /\ \A c \in Callers :
        /\ birth[c] <= edition
        /\ served[c] <= edition
        /\ pc[c] = "reply" =>
            /\ birth[c] <= served[c]
            /\ cached # None => cached <= served[c]

\* The clock and the times read from it.
TimesAgree ==
    /\ expiresAt <= clock + Ttl
    /\ \A c \in Callers : pc[c] = "reply" =>
        servedAt[c] <= clock /\ clock <= servedAt[c] + Transit

\* A key that is known and no longer published was withdrawn recently.
KnownWereRecent ==
    /\ cached # None =>
        \A k \in Published[cached] :
            k \in Published[edition] \/ expiresAt <= gone[k] + Transit + Ttl
    /\ \A c \in Callers : pc[c] = "reply" =>
        \A k \in Published[served[c]] :
            k \in Published[edition] \/ servedAt[c] <= gone[k]

JwksInv == TypeOK /\ HolderAsks /\ AnswersAreNew /\ TimesAgree /\ KnownWereRecent

LEMMA JwksInitInv == Init => JwksInv
  BY DEF Init, JwksInv, TypeOK, HolderAsks, AnswersAreNew, TimesAgree, KnownWereRecent,
         Busy, Places, Verdicts, Editions

-----------------------------------------------------------------------------
\* What a step keeps of its caller's types, whether the verification ends with
\* it or goes on to a forced refresh.
LEMMA OutcomeTypes ==
  ASSUME TypeOK, NEW c \in Callers,
         (\E what \in Verdicts : Conclude(c, what)) \/ FetchAgain(c)
  PROVE  /\ pc' \in [Callers -> Places] /\ verdict' \in [Callers -> Verdicts]
         /\ kid' \in [Callers -> Kids \cup {None}] /\ forced' \in [Callers -> BOOLEAN]
         /\ served' \in [Callers -> Editions] /\ servedAt' \in [Callers -> Nat]
         /\ birth' \in [Callers -> Editions]
<1>1. ASSUME NEW what \in Verdicts, Conclude(c, what)
      PROVE  /\ pc' \in [Callers -> Places] /\ verdict' \in [Callers -> Verdicts]
             /\ kid' \in [Callers -> Kids \cup {None}] /\ forced' \in [Callers -> BOOLEAN]
             /\ served' \in [Callers -> Editions] /\ servedAt' \in [Callers -> Nat]
             /\ birth' \in [Callers -> Editions]
  BY <1>1 DEF TypeOK, Conclude, Places, Editions
<1>2. CASE FetchAgain(c)
  BY <1>2 DEF TypeOK, FetchAgain, Places
<1>3. QED  BY <1>1, <1>2

LEMMA OutcomeFrame ==
  ASSUME JwksInv, NEW c \in Callers,
         (\E what \in Verdicts : Conclude(c, what)) \/ FetchAgain(c)
  PROVE  /\ pc'[c] \notin Busy /\ served'[c] <= edition /\ birth'[c] <= edition
         /\ \A d \in Callers \ {c} :
             /\ pc'[d] = pc[d] /\ served'[d] = served[d]
             /\ servedAt'[d] = servedAt[d] /\ birth'[d] = birth[d]
<1>1. ASSUME NEW what \in Verdicts, Conclude(c, what)
      PROVE  /\ pc'[c] \notin Busy /\ served'[c] <= edition /\ birth'[c] <= edition
             /\ \A d \in Callers \ {c} :
                 /\ pc'[d] = pc[d] /\ served'[d] = served[d]
                 /\ servedAt'[d] = servedAt[d] /\ birth'[d] = birth[d]
  BY <1>1 DEF JwksInv, TypeOK, Conclude, Busy, Editions
<1>2. CASE FetchAgain(c)
  BY <1>2 DEF JwksInv, TypeOK, AnswersAreNew, FetchAgain, Busy
<1>3. QED  BY <1>1, <1>2

\* The steps that end so.
Outcome(c) ==
    \/ BadHeader(c) \/ AskHit(c) \/ AskMiss(c) \/ EnterHit(c) \/ EnterMiss(c)
    \/ Receive(c) \/ FetchFails(c) \/ Cancel(c)

LEMMA OutcomeIs ==
  ASSUME NEW c \in Callers, Outcome(c)
  PROVE  (\E what \in Verdicts : Conclude(c, what)) \/ FetchAgain(c)
<1>1. Decode(c) => \E what \in Verdicts : Conclude(c, what)
  BY DEF Decode, Verdicts
<1>2. \A what \in {"unknown", "rejected", "unavailable", "cancelled"} : what \in Verdicts
  BY DEF Verdicts
<1>3. QED
  BY <1>1, <1>2 DEF Outcome, BadHeader, AskHit, AskMiss, EnterHit, EnterMiss, Receive,
                    FetchFails, Cancel

LEMMA TypeStep ==
  ASSUME TypeOK, [JwksNext]_jwksVars  PROVE TypeOK'
<1>1. ASSUME NEW c \in Callers, NEW k \in Kids, Present(c, k)  PROVE TypeOK'
  BY <1>1 DEF TypeOK, Present, Places, Editions, endpointVars, cacheVars
<1>2. ASSUME NEW c \in Callers, Outcome(c)  PROVE TypeOK'
  <2>1. /\ edition' \in Editions /\ clock' \in Nat /\ gone' \in [Kids -> Nat]
        /\ cached' \in Editions \cup {None} /\ expiresAt' \in Nat
        /\ lock' \in Callers \cup {None}
    BY <1>2 DEF TypeOK, Outcome, BadHeader, AskHit, AskMiss, EnterHit, EnterMiss, Receive,
                FetchFails, Cancel, Release, Editions, endpointVars, cacheVars
  <2>2. QED  BY <1>2, <2>1, OutcomeIs, OutcomeTypes DEF TypeOK
<1>3. ASSUME NEW c \in Callers, AskStale(c)  PROVE TypeOK'
  BY <1>3 DEF TypeOK, AskStale, Places, Verdicts, Editions, endpointVars, cacheVars
<1>4. ASSUME NEW c \in Callers, EnterFetch(c)  PROVE TypeOK'
  BY <1>4 DEF TypeOK, EnterFetch, Granted, Places, Verdicts, Editions, endpointVars
<1>5. ASSUME NEW c \in Callers, Serve(c)  PROVE TypeOK'
  BY <1>5 DEF TypeOK, Serve, Places, Verdicts, Editions, endpointVars, cacheVars
<1>6. CASE Publish
  BY <1>6 DEF TypeOK, Publish, Editions, cacheVars, callVars
<1>7. CASE Tick
  BY <1>7 DEF TypeOK, Tick, cacheVars, callVars
<1>8. CASE UNCHANGED jwksVars
  BY <1>8 DEF TypeOK, jwksVars, endpointVars, cacheVars, callVars
<1>9. QED
  BY <1>1, <1>2, <1>3, <1>4, <1>5, <1>6, <1>7, <1>8 DEF JwksNext, Proceed, Outcome

-----------------------------------------------------------------------------
\* The invariant survives a step of a caller that neither asks the endpoint
\* nor changes the cache.
LEMMA QuietStep ==
  ASSUME JwksInv, TypeOK', NEW c \in Callers,
         UNCHANGED <<endpointVars, cacheVars>>,
         pc[c] \notin Busy, pc'[c] \notin Busy,
         served'[c] <= edition, birth'[c] <= edition,
         \A d \in Callers \ {c} :
             /\ pc'[d] = pc[d] /\ served'[d] = served[d]
             /\ servedAt'[d] = servedAt[d] /\ birth'[d] = birth[d]
  PROVE  JwksInv'
<1>1. HolderAsks'
  BY DEF JwksInv, HolderAsks, cacheVars, Busy
<1>2. AnswersAreNew'
  BY DEF JwksInv, AnswersAreNew, cacheVars, endpointVars, Busy
<1>3. TimesAgree'
  BY DEF JwksInv, TimesAgree, cacheVars, endpointVars, Busy
<1>4. KnownWereRecent'
  BY DEF JwksInv, KnownWereRecent, cacheVars, endpointVars, Busy
<1>5. QED
  BY <1>1, <1>2, <1>3, <1>4 DEF JwksInv

LEMMA JwksNextInv ==
  ASSUME JwksInv, [JwksNext]_jwksVars  PROVE JwksInv'
<1> TypeOK /\ TypeOK'
  BY TypeStep DEF JwksInv
<1>1. ASSUME NEW c \in Callers, NEW k \in Kids, Present(c, k)  PROVE JwksInv'
  <2>1. /\ pc[c] \notin Busy /\ pc'[c] \notin Busy
        /\ UNCHANGED <<endpointVars, cacheVars, served, servedAt>>
        /\ \A d \in Callers \ {c} : pc'[d] = pc[d] /\ birth'[d] = birth[d]
    BY <1>1 DEF Present, TypeOK, Busy
  <2>2. served[c] <= edition /\ birth'[c] <= edition
    BY <1>1 DEF Present, JwksInv, AnswersAreNew, TypeOK, Editions
  <2>3. QED  BY <2>1, <2>2, QuietStep
<1>2. ASSUME NEW c \in Callers,
             BadHeader(c) \/ AskHit(c) \/ AskMiss(c) \/ EnterHit(c) \/ EnterMiss(c)
      PROVE  JwksInv'
  <2>1. pc[c] \notin Busy /\ UNCHANGED <<endpointVars, cacheVars>>
    BY <1>2 DEF BadHeader, AskHit, AskMiss, EnterHit, EnterMiss, Granted, Busy
  <2>2. QED  BY <1>2, <2>1, OutcomeIs, OutcomeFrame, QuietStep DEF Outcome
<1>3. ASSUME NEW c \in Callers, AskStale(c)  PROVE JwksInv'
  <2>1. /\ pc[c] \notin Busy /\ pc'[c] \notin Busy
        /\ UNCHANGED <<endpointVars, cacheVars, served, servedAt>>
        /\ \A d \in Callers \ {c} : pc'[d] = pc[d] /\ birth'[d] = birth[d]
    BY <1>3 DEF AskStale, TypeOK, Busy
  <2>2. served[c] <= edition /\ birth'[c] <= edition
    BY <1>3 DEF AskStale, JwksInv, AnswersAreNew, TypeOK, Editions
  <2>3. QED  BY <2>1, <2>2, QuietStep
<1>4. ASSUME NEW c \in Callers, EnterFetch(c)  PROVE JwksInv'
  <2>1. HolderAsks'
    BY <1>4 DEF JwksInv, EnterFetch, Granted, HolderAsks, TypeOK, Busy
  <2>2. AnswersAreNew' /\ TimesAgree' /\ KnownWereRecent'
    BY <1>4 DEF JwksInv, EnterFetch, AnswersAreNew, TimesAgree, KnownWereRecent, TypeOK,
                endpointVars
  <2>3. QED  BY <2>1, <2>2 DEF JwksInv
<1>5. ASSUME NEW c \in Callers, Serve(c)  PROVE JwksInv'
  <2>1. HolderAsks'
    BY <1>5 DEF JwksInv, Serve, HolderAsks, TypeOK, Busy, cacheVars
  <2>2. AnswersAreNew'
    BY <1>5 DEF JwksInv, Serve, AnswersAreNew, TypeOK, Editions, cacheVars, endpointVars
  <2>3. TimesAgree'
    BY <1>5 DEF JwksInv, Serve, TimesAgree, TypeOK, cacheVars, endpointVars
  <2>4. KnownWereRecent'
    BY <1>5 DEF JwksInv, Serve, KnownWereRecent, TypeOK, cacheVars, endpointVars
  <2>5. QED  BY <2>1, <2>2, <2>3, <2>4 DEF JwksInv
<1>6. ASSUME NEW c \in Callers, Receive(c)  PROVE JwksInv'
  <2>1. /\ pc[c] = "reply"
        /\ cached' = served[c] /\ expiresAt' = clock + Ttl /\ lock' = None
        /\ UNCHANGED endpointVars
    BY <1>6 DEF Receive
  <2>2. /\ pc'[c] \notin Busy /\ served'[c] <= edition /\ birth'[c] <= edition
        /\ \A d \in Callers \ {c} :
            /\ pc'[d] = pc[d] /\ served'[d] = served[d]
            /\ servedAt'[d] = servedAt[d] /\ birth'[d] = birth[d]
    BY <1>6, OutcomeIs, OutcomeFrame DEF Outcome
  <2>3. \A d \in Callers : pc'[d] \notin Busy
    BY <2>1, <2>2 DEF JwksInv, HolderAsks, Busy
  <2>4. HolderAsks'
    BY <2>1, <2>3 DEF HolderAsks
  <2>5. AnswersAreNew'
    BY <2>1, <2>2, <2>3 DEF JwksInv, AnswersAreNew, Busy, endpointVars
  <2>6. TimesAgree'
    BY <2>1, <2>3 DEF JwksInv, TimesAgree, Busy, TypeOK, endpointVars
  <2>7. KnownWereRecent'
    <3>1. clock + Ttl <= servedAt[c] + Transit + Ttl
      BY <2>1 DEF JwksInv, TimesAgree, TypeOK
    <3>2. ASSUME NEW k \in Published[served[c]]
          PROVE  k \in Published[edition] \/ clock + Ttl <= gone[k] + Transit + Ttl
      <4>1. k \in Kids /\ servedAt[c] \in Nat /\ gone[k] \in Nat
        BY DEF TypeOK, Editions
      <4>2. k \in Published[edition] \/ servedAt[c] <= gone[k]
        BY <2>1 DEF JwksInv, KnownWereRecent
      <4>3. QED  BY <3>1, <4>1, <4>2 DEF TypeOK
    <3>3. QED  BY <2>1, <2>3, <3>2 DEF KnownWereRecent, Busy, endpointVars
  <2>8. QED  BY <2>4, <2>5, <2>6, <2>7 DEF JwksInv
<1>7. ASSUME NEW c \in Callers, FetchFails(c) \/ Cancel(c)  PROVE JwksInv'
  <2>1. /\ UNCHANGED <<endpointVars, cached, expiresAt>>
        /\ lock' = IF lock = c THEN None ELSE lock
    BY <1>7 DEF FetchFails, Cancel, Release
  <2>2. /\ pc'[c] \notin Busy /\ served'[c] <= edition /\ birth'[c] <= edition
        /\ \A d \in Callers \ {c} :
            /\ pc'[d] = pc[d] /\ served'[d] = served[d]
            /\ servedAt'[d] = servedAt[d] /\ birth'[d] = birth[d]
    BY <1>7, OutcomeIs, OutcomeFrame DEF Outcome
  <2>3. HolderAsks'
    BY <2>1, <2>2 DEF JwksInv, HolderAsks
  <2>4. AnswersAreNew'
    BY <2>1, <2>2 DEF JwksInv, AnswersAreNew, Busy, endpointVars
  <2>5. TimesAgree'
    BY <2>1, <2>2 DEF JwksInv, TimesAgree, Busy, endpointVars
  <2>6. KnownWereRecent'
    BY <2>1, <2>2 DEF JwksInv, KnownWereRecent, Busy, endpointVars
  <2>7. QED  BY <2>3, <2>4, <2>5, <2>6 DEF JwksInv
<1>8. CASE Publish
  <2>1. /\ edition' = edition + 1 /\ edition' \in Editions
        /\ UNCHANGED <<clock, cacheVars, callVars>>
    BY <1>8 DEF Publish, TypeOK, Editions
  <2>2. \A k \in Kids : \/ k \in Published[edition']
                        \/ k \in Published[edition] /\ gone'[k] = clock
                        \/ k \notin Published[edition] /\ gone'[k] = gone[k]
    BY <1>8 DEF Publish, TypeOK
  <2>3. HolderAsks' /\ AnswersAreNew' /\ TimesAgree'
    BY <2>1 DEF JwksInv, HolderAsks, AnswersAreNew, TimesAgree, TypeOK, Editions,
                cacheVars, callVars
  <2>4. ASSUME cached # None, NEW k \in Published[cached]
        PROVE  k \in Published[edition'] \/ expiresAt <= gone'[k] + Transit + Ttl
    <3>1. k \in Kids /\ gone[k] \in Nat /\ expiresAt \in Nat /\ clock \in Nat
      BY <2>4 DEF TypeOK, Editions
    <3>2. k \in Published[edition] \/ expiresAt <= gone[k] + Transit + Ttl
      BY <2>4 DEF JwksInv, KnownWereRecent
    <3>3. expiresAt <= clock + Transit + Ttl
      BY <3>1 DEF JwksInv, TimesAgree
    <3>4. QED  BY <2>2, <3>1, <3>2, <3>3
  <2>5. ASSUME NEW c \in Callers, pc[c] = "reply", NEW k \in Published[served[c]]
        PROVE  k \in Published[edition'] \/ servedAt[c] <= gone'[k]
    <3>1. k \in Kids
      BY DEF TypeOK, Editions
    <3>2. k \in Published[edition] \/ servedAt[c] <= gone[k]
      BY <2>5 DEF JwksInv, KnownWereRecent
    <3>3. servedAt[c] <= clock
      BY <2>5 DEF JwksInv, TimesAgree
    <3>4. QED  BY <2>2, <3>1, <3>2, <3>3
  <2>6. KnownWereRecent'
    BY <2>1, <2>4, <2>5 DEF KnownWereRecent, cacheVars, callVars
  <2>7. QED  BY <2>3, <2>6 DEF JwksInv
<1>9. CASE Tick
  <2>1. HolderAsks' /\ AnswersAreNew' /\ KnownWereRecent'
    BY <1>9 DEF Tick, JwksInv, HolderAsks, AnswersAreNew, KnownWereRecent,
                 cacheVars, callVars
  <2>2. TimesAgree'
    BY <1>9 DEF Tick, JwksInv, TimesAgree, TypeOK, cacheVars, callVars
  <2>3. QED  BY <2>1, <2>2 DEF JwksInv
<1>10. CASE UNCHANGED jwksVars
  BY <1>10 DEF JwksInv, TypeOK, HolderAsks, AnswersAreNew, TimesAgree, KnownWereRecent,
               jwksVars, endpointVars, cacheVars, callVars
<1>11. QED
  BY <1>1, <1>2, <1>3, <1>4, <1>5, <1>6, <1>7, <1>8, <1>9, <1>10 DEF JwksNext, Proceed

LEMMA JwksAlways == JwksSpec => []JwksInv
<1>1. JwksInv /\ [JwksNext]_jwksVars => JwksInv'
  BY JwksNextInv
<1>2. QED
  BY JwksInitInv, <1>1, PTL DEF JwksSpec

-----------------------------------------------------------------------------
\* A key set in the cache is never followed by an older one: the lock is held
\* from before the question until the answer is in its place.
THEOREM CacheNeverGoesBack == JwksSpec => KeysNeverGoBack
<1>1. ASSUME JwksInv, [JwksNext]_jwksVars, cached # None
      PROVE  cached' # None /\ cached' >= cached
  <2> TypeOK /\ cached \in Nat
    BY <1>1 DEF JwksInv, TypeOK, Editions
  <2>1. ASSUME NEW c \in Callers, Receive(c)  PROVE cached' # None /\ cached' >= cached
    BY <1>1, <2>1 DEF Receive, JwksInv, AnswersAreNew, TypeOK, Editions
  <2>2. CASE UNCHANGED cached
    BY <2>2
  <2>3. QED
    BY <1>1, <2>1, <2>2 DEF JwksNext, Proceed, Present, BadHeader, AskHit, AskMiss,
        AskStale, EnterHit, EnterMiss, EnterFetch, Serve, FetchFails, Cancel, Publish,
        Tick, jwksVars, cacheVars
<1>2. JwksInv /\ [JwksNext]_jwksVars
        => (cached # None => cached' # None /\ cached' >= cached)
  BY <1>1
<1>3. QED
  BY JwksAlways, <1>2, PTL DEF JwksSpec, KeysNeverGoBack

\* Whatever the cache holds, a key that is published all the while is found.
THEOREM UnknownIsTrue == JwksSpec => UnknownMeansUnpublished
<1> DEFINE Turns(c) == verdict[c] # "unknown" /\ verdict'[c] = "unknown"
           Missing(c) == \E e \in birth[c] .. edition : kid[c] \notin Published[e]
<1>1. ASSUME JwksInv, [JwksNext]_jwksVars, NEW c \in Callers, Turns(c)
      PROVE  Missing(c)
  <2>1. Receive(c) /\ ~Has(served[c], c)
    BY <1>1 DEF JwksInv, TypeOK, JwksNext, Proceed, Present, BadHeader, AskHit, AskMiss,
        AskStale, EnterHit, EnterMiss, EnterFetch, Serve, Receive, FetchFails, Cancel,
        Publish, Tick, Decode, Conclude, FetchAgain, jwksVars, cacheVars, callVars
  <2>2. served[c] \in birth[c] .. edition
    BY <1>1, <2>1 DEF Receive, JwksInv, AnswersAreNew, TypeOK, Editions
  <2>3. QED  BY <2>1, <2>2 DEF Has
<1> HIDE DEF Turns, Missing
<1>2. JwksInv /\ [JwksNext]_jwksVars => \A c \in Callers : Turns(c) => Missing(c)
  BY <1>1
<1>3. JwksSpec => [][\A c \in Callers : Turns(c) => Missing(c)]_jwksVars
  BY JwksAlways, <1>2, PTL DEF JwksSpec
<1>4. QED
  BY <1>3 DEF UnknownMeansUnpublished, Turns, Missing

\* No key outlives its withdrawal by more than its time to live and the time an
\* answer travels.
THEOREM WithdrawnKeysExpire == JwksSpec => AcceptsOnlyRecentKeys
<1> DEFINE Turns(c) == verdict[c] # "accepted" /\ verdict'[c] = "accepted"
           Recent(c) == \/ kid[c] \in Published[edition]
                        \/ clock < gone[kid[c]] + Transit + Ttl
<1>1. ASSUME JwksInv, [JwksNext]_jwksVars, NEW c \in Callers, Turns(c)
      PROVE  Recent(c)
  <2> TypeOK
    BY <1>1 DEF JwksInv
  <2>1. \/ Fresh /\ Has(cached, c)
        \/ pc[c] = "reply" /\ Has(served[c], c)
    BY <1>1 DEF TypeOK, JwksNext, Proceed, Present, BadHeader, AskHit, AskMiss,
        AskStale, EnterHit, EnterMiss, EnterFetch, Serve, Receive, FetchFails, Cancel,
        Publish, Tick, Decode, Conclude, FetchAgain, jwksVars, cacheVars, callVars
  <2>2. CASE Fresh /\ Has(cached, c)
    <3>1. kid[c] \in Kids /\ gone[kid[c]] \in Nat /\ clock \in Nat /\ expiresAt \in Nat
      BY <2>2 DEF Fresh, Has, TypeOK, Editions
    <3>2. QED  BY <2>2, <3>1, <1>1 DEF Fresh, Has, JwksInv, KnownWereRecent
  <2>3. CASE pc[c] = "reply" /\ Has(served[c], c)
    <3>1. /\ kid[c] \in Kids /\ gone[kid[c]] \in Nat
          /\ clock \in Nat /\ servedAt[c] \in Nat
      BY <2>3 DEF Has, TypeOK, Editions
    <3>2. clock <= servedAt[c] + Transit
      BY <1>1, <2>3 DEF JwksInv, TimesAgree
    <3>3. kid[c] \in Published[edition] \/ servedAt[c] <= gone[kid[c]]
      BY <1>1, <2>3 DEF Has, JwksInv, KnownWereRecent
    <3>4. QED  BY <3>1, <3>2, <3>3
  <2>4. QED  BY <2>1, <2>2, <2>3
<1> HIDE DEF Turns, Recent
<1>2. JwksInv /\ [JwksNext]_jwksVars => \A c \in Callers : Turns(c) => Recent(c)
  BY <1>1
<1>3. JwksSpec => [][\A c \in Callers : Turns(c) => Recent(c)]_jwksVars
  BY JwksAlways, <1>2, PTL DEF JwksSpec
<1>4. QED
  BY <1>3 DEF AcceptsOnlyRecentKeys, Turns, Recent

-----------------------------------------------------------------------------
(* The provider.                                                           *)

\* Every step of the provider is a step of the cache or leaves it alone: what
\* holds of the cache holds of the provider.
THEOREM ProviderUsesCache == Spec => JwksSpec
<1>1. ProviderInit => Init
  BY DEF ProviderInit
<1>2. [Next]_vars => [JwksNext]_jwksVars
  <2>1. ASSUME NEW c \in Callers, Authenticate(c) \/ SessionIssued(c)
        PROVE  \E k \in Kids : Present(c, k)
    BY <2>1 DEF Authenticate, SessionIssued
  <2>2. ASSUME NEW c \in Callers, Verify(c)  PROVE Proceed(c) \/ Cancel(c)
    BY <2>2 DEF Verify
  <2>3. ASSUME NEW c \in Callers, CallNext(c), ~SessionIssued(c)
        PROVE  UNCHANGED jwksVars
    BY <2>3 DEF CallNext, Post, Apply, Deny, CodeProved, Succeed, NoSession, Refused,
                Lost, CutShort
  <2>4. UNCHANGED vars => UNCHANGED jwksVars
    BY DEF vars
  <2>5. QED  BY <2>1, <2>2, <2>3, <2>4 DEF Next, JwksNext
<1>3. QED
  BY <1>1, <1>2, PTL DEF Spec, JwksSpec

ProviderTypes ==
    /\ op \in [Callers -> Calls \cup {"none", "bearer"}]
    /\ leg \in [Callers -> {1, 2}]
    /\ wire \in [Callers -> {"unsent", "sent", "applied", "denied", "over"}]
    /\ code \in BOOLEAN /\ spent \subseteq Callers /\ setters \subseteq Callers
    /\ answer \in [Callers -> Answers]

\* The code is proved at most once; who has proved it is on its way to, or past,
\* the second call; and an answer is final.
ResetInv ==
    /\ code => spent = {}
    /\ \A c, d \in spent : c = d
    /\ setters \subseteq spent
    /\ \A c \in Callers :
        /\ answer[c] # "none" => wire[c] = "over"
        /\ op[c] = "none" => wire[c] = "unsent"
        /\ leg[c] = 2 => c \in spent
        /\ op[c] = "reset" =>
            /\ c \in spent /\ leg[c] = 1 => wire[c] \notin {"sent", "denied"}
            /\ wire[c] = "applied" => c \in spent
            /\ leg[c] = 2 /\ wire[c] = "applied" => c \in setters
            /\ answer[c] = "done" => c \in setters
            /\ answer[c] = "bad_code" => c \notin spent
        /\ c \in spent => op[c] = "reset"

ProviderInv == ProviderTypes /\ ResetInv

LEMMA ProviderInitInv == ProviderInit => ProviderInv
  BY DEF ProviderInit, ProviderInv, ProviderTypes, ResetInv, Answers

LEMMA ProviderNextInv ==
  ASSUME ProviderInv, [Next]_vars  PROVE ProviderInv'
<1> USE DEF ProviderInv, ProviderTypes
<1>1. CASE UNCHANGED providerVars
  BY <1>1 DEF ResetInv, providerVars
<1>2. ASSUME NEW c \in Callers, Authenticate(c)  PROVE ProviderInv'
  <2>1. ProviderTypes'
    BY <1>2 DEF Authenticate, Calls, Answers
  <2>2. ResetInv'
    BY <1>2 DEF Authenticate, ResetInv, Calls
  <2>3. QED  BY <2>1, <2>2
<1>3. ASSUME NEW c \in Callers, Post(c)  PROVE ProviderInv'
  <2>1. ProviderTypes'
    BY <1>3 DEF Post, Calls, Answers
  <2>2. ResetInv'
    BY <1>3 DEF Post, ResetInv, Calls
  <2>3. QED  BY <2>1, <2>2
<1>4. ASSUME NEW c \in Callers, Apply(c)  PROVE ProviderInv'
  <2>1. ProviderTypes'
    BY <1>4 DEF Apply, Calls, Answers
  <2>2. ResetInv'
    BY <1>4 DEF Apply, ResetInv, Calls
  <2>3. QED  BY <2>1, <2>2
<1>5. ASSUME NEW c \in Callers, Deny(c)  PROVE ProviderInv'
  <2>1. ProviderTypes'
    BY <1>5 DEF Deny, Calls, Answers
  <2>2. ResetInv'
    BY <1>5 DEF Deny, ResetInv, Calls
  <2>3. QED  BY <2>1, <2>2
<1>6. ASSUME NEW c \in Callers, SessionIssued(c)  PROVE ProviderInv'
  <2>1. ProviderTypes'
    BY <1>6 DEF SessionIssued, Calls, Answers
  <2>2. /\ c \notin spent /\ answer[c] = "none"
        /\ op' = [op EXCEPT ![c] = "bearer"] /\ wire' = [wire EXCEPT ![c] = "unsent"]
        /\ UNCHANGED <<leg, code, spent, setters, answer>>
    BY <1>6 DEF SessionIssued, ResetInv
  <2>3. ResetInv'
    <3>1. op'[c] = "bearer" /\ wire'[c] = "unsent"
      BY <2>2
    <3>2. \A d \in Callers \ {c} : op'[d] = op[d] /\ wire'[d] = wire[d]
      BY <2>2
    <3>3. UNCHANGED <<leg, code, spent, setters, answer>>
      BY <2>2
    <3>4. ASSUME NEW d \in Callers
          PROVE  /\ answer'[d] # "none" => wire'[d] = "over"
                 /\ op'[d] = "none" => wire'[d] = "unsent"
                 /\ leg'[d] = 2 => d \in spent'
                 /\ op'[d] = "reset" =>
                     /\ d \in spent' /\ leg'[d] = 1 => wire'[d] \notin {"sent", "denied"}
                     /\ wire'[d] = "applied" => d \in spent'
                     /\ leg'[d] = 2 /\ wire'[d] = "applied" => d \in setters'
                     /\ answer'[d] = "done" => d \in setters'
                     /\ answer'[d] = "bad_code" => d \notin spent'
                 /\ d \in spent' => op'[d] = "reset"
      <4>1. CASE d = c
        BY <2>2, <3>1, <3>3, <4>1 DEF ResetInv
      <4>2. CASE d # c
        BY <3>2, <3>3, <4>2 DEF ResetInv
      <4>3. QED  BY <4>1, <4>2
    <3>5. QED  BY <3>3, <3>4 DEF ResetInv
  <2>4. QED  BY <2>1, <2>3
<1>7. ASSUME NEW c \in Callers, CodeProved(c)  PROVE ProviderInv'
  <2>1. ProviderTypes'
    BY <1>7 DEF CodeProved, Calls, Answers
  <2>2. ResetInv'
    BY <1>7 DEF CodeProved, ResetInv, Calls
  <2>3. QED  BY <2>1, <2>2
<1>8. ASSUME NEW c \in Callers, Succeed(c)  PROVE ProviderInv'
  <2>1. ProviderTypes'
    BY <1>8 DEF Succeed, Finish, Calls, Answers
  <2>2. ResetInv'
    BY <1>8 DEF Succeed, Finish, ResetInv, Calls
  <2>3. QED  BY <2>1, <2>2
<1>9. ASSUME NEW c \in Callers, NoSession(c)  PROVE ProviderInv'
  <2>1. ProviderTypes'
    BY <1>9 DEF NoSession, Finish, Calls, Answers
  <2>2. ResetInv'
    BY <1>9 DEF NoSession, Finish, ResetInv, Calls
  <2>3. QED  BY <2>1, <2>2
<1>10. ASSUME NEW c \in Callers, Refused(c)  PROVE ProviderInv'
  <2>1. ProviderTypes'
    BY <1>10 DEF Refused, Finish, ClientError, Calls, Answers
  <2>2. ResetInv'
    BY <1>10 DEF Refused, Finish, ClientError, ResetInv, Calls
  <2>3. QED  BY <2>1, <2>2
<1>11. ASSUME NEW c \in Callers, Lost(c)  PROVE ProviderInv'
  <2>1. ProviderTypes'
    BY <1>11 DEF Lost, Finish, InFlight, Calls, Answers
  <2>2. ResetInv'
    BY <1>11 DEF Lost, Finish, InFlight, ResetInv, Calls
  <2>3. QED  BY <2>1, <2>2
<1>12. ASSUME NEW c \in Callers, CutShort(c)  PROVE ProviderInv'
  <2>1. ProviderTypes'
    BY <1>12 DEF CutShort, Finish, InFlight, Calls, Answers
  <2>2. ResetInv'
    BY <1>12 DEF CutShort, Finish, InFlight, ResetInv, Calls
  <2>3. QED  BY <2>1, <2>2
<1>13. CASE UNCHANGED vars
  BY <1>1, <1>13 DEF vars
<1>14. ASSUME NEW c \in Callers, CallNext(c)  PROVE ProviderInv'
  BY <1>3, <1>4, <1>5, <1>6, <1>7, <1>8, <1>9, <1>10, <1>11, <1>12, <1>14 DEF CallNext
<1>15. QED
  BY <1>1, <1>2, <1>13, <1>14 DEF Next, Verify

LEMMA ProviderAlways == Spec => []ProviderInv
<1>1. ProviderInv /\ [Next]_vars => ProviderInv'
  BY ProviderNextInv
<1>2. QED
  BY ProviderInitInv, <1>1, PTL DEF Spec

\* Every variable of the cache and of the provider keeps its type.
THEOREM ProviderTypeCorrect == Spec => []ProviderTypeOK
<1>1. JwksInv /\ ProviderInv => ProviderTypeOK
  BY DEF JwksInv, ProviderInv, ProviderTypes, ProviderTypeOK
<1>2. QED
  BY <1>1, ProviderUsesCache, JwksAlways, ProviderAlways, PTL

\* A reset reports what became of the password, and one code sets one password.
THEOREM ResetIsTrue == Spec => []ResetAnswersTrue
<1>1. ProviderInv => ResetAnswersTrue
  BY DEF ProviderInv, ResetInv, ResetAnswersTrue
<1>2. QED
  BY <1>1, ProviderAlways, PTL

\* The provider's verifications never put an older key set in the cache.
THEOREM ProviderKeysNeverGoBack == Spec => KeysNeverGoBack
  BY ProviderUsesCache, CacheNeverGoesBack

\* The provider refuses no session for a key that is published all the while.
THEOREM ProviderUnknownIsTrue == Spec => UnknownMeansUnpublished
  BY ProviderUsesCache, UnknownIsTrue

\* The provider accepts no session with a key withdrawn longer ago than the time
\* to live and an answer's travel.
THEOREM ProviderKeysExpire == Spec => AcceptsOnlyRecentKeys
  BY ProviderUsesCache, WithdrawnKeysExpire

-----------------------------------------------------------------------------
(* How far a verification is from its end, and whom it waits for.          *)

\* A verification that has not yet been forced may have the three steps of a
\* fetch to do twice.
StepsLeft(c) ==
    (CASE pc[c] = "idle" -> 8
       [] pc[c] = "ask" -> 7
       [] pc[c] = "wait" -> 3
       [] pc[c] = "fetch" -> 2
       [] pc[c] = "reply" -> 1
       [] pc[c] = "done" -> 0)
    + (IF pc[c] \in {"wait", "fetch", "reply"} /\ ~forced[c] THEN 3 ELSE 0)

\* A key that is not found has the set fetched again once and not for ever:
\* every step of a verification takes it nearer to its end, and nobody else's
\* takes it away from there (get_signing_key's second, forced look-up).
EveryStepCounts ==
    [][\A c \in Callers : /\ StepsLeft(c)' <= StepsLeft(c)
                          /\ pc'[c] # pc[c] \/ forced'[c] # forced[c] =>
                                StepsLeft(c)' < StepsLeft(c)]_jwksVars

\* Who waits for the lock waits for a fetch that is under way, and not for a
\* caller that has failed, was cancelled or has ended (_refresh_keys).
WaitsForAFetch ==
    \A c \in Callers : pc[c] = "wait" /\ lock # None =>
        lock # c /\ pc[lock] \in {"fetch", "reply"}

Counts(c) == /\ StepsLeft(c)' <= StepsLeft(c)
             /\ pc'[c] # pc[c] \/ forced'[c] # forced[c] => StepsLeft(c)' < StepsLeft(c)

\* A verification that ends, and one that goes on to the forced look-up.
LEMMA EndCounts ==
  ASSUME TypeOK, NEW c \in Callers, NEW d \in Callers, NEW what \in Verdicts,
         pc[d] \in {"ask", "wait", "fetch", "reply"}, Conclude(d, what)
  PROVE  Counts(c)
<1>1. pc'[d] = "done" /\ (c # d => pc'[c] = pc[c] /\ forced'[c] = forced[c])
  BY DEF TypeOK, Conclude
<1>2. QED  BY <1>1 DEF Counts, StepsLeft, TypeOK, Places

LEMMA ForcedCounts ==
  ASSUME TypeOK, NEW c \in Callers, NEW d \in Callers,
         pc[d] = "ask" \/ (pc[d] \in {"wait", "fetch", "reply"} /\ ~forced[d]),
         FetchAgain(d)
  PROVE  Counts(c)
<1>1. /\ pc'[d] = "wait" /\ forced'[d]
      /\ c # d => pc'[c] = pc[c] /\ forced'[c] = forced[c]
  BY DEF TypeOK, FetchAgain
<1>2. QED  BY <1>1 DEF Counts, StepsLeft, TypeOK, Places

LEMMA CallCounts ==
  ASSUME TypeOK, [JwksNext]_jwksVars, NEW c \in Callers  PROVE Counts(c)
<1>1. ASSUME NEW d \in Callers, NEW k \in Kids, Present(d, k)  PROVE Counts(c)
  <2>1. /\ pc[d] = "idle" /\ pc'[d] = "ask" /\ forced' = forced
        /\ c # d => pc'[c] = pc[c]
    BY <1>1 DEF TypeOK, Present
  <2>2. QED  BY <2>1 DEF Counts, StepsLeft, TypeOK, Places
<1>2. ASSUME NEW d \in Callers, Outcome(d)  PROVE Counts(c)
  <2>1. CASE \E what \in Verdicts : Conclude(d, what)
    <3>1. pc[d] \in {"ask", "wait", "fetch", "reply"}
      BY <1>2 DEF Outcome, BadHeader, AskHit, AskMiss, EnterHit, EnterMiss, Granted,
                  Receive, FetchFails, Cancel
    <3>2. QED  BY <2>1, <3>1, EndCounts
  <2>2. CASE FetchAgain(d)
    <3>1. pc'[d] = "wait"
      BY <2>2 DEF TypeOK, FetchAgain
    <3>2. ASSUME NEW what \in Verdicts  PROVE ~Conclude(d, what)
      BY <3>1 DEF TypeOK, Conclude
    <3>3. /\ ~Decode(d)
          /\ \A what \in {"unknown", "rejected", "unavailable", "cancelled"} :
                ~Conclude(d, what)
      BY <3>2 DEF Decode, Verdicts
    <3>4. pc[d] = "ask" \/ (pc[d] \in {"wait", "fetch", "reply"} /\ ~forced[d])
      BY <1>2, <3>3 DEF Outcome, BadHeader, AskHit, AskMiss, EnterHit, EnterMiss, Granted,
                        Receive, FetchFails, Cancel
    <3>5. QED  BY <2>2, <3>4, ForcedCounts
  <2>3. QED  BY <1>2, <2>1, <2>2, OutcomeIs
<1>3. ASSUME NEW d \in Callers, AskStale(d) \/ EnterFetch(d) \/ Serve(d)  PROVE Counts(c)
  <2>1. /\ forced' = forced
        /\ c # d => pc'[c] = pc[c]
        /\ \/ pc[d] = "ask" /\ pc'[d] = "wait"
           \/ pc[d] = "wait" /\ pc'[d] = "fetch"
           \/ pc[d] = "fetch" /\ pc'[d] = "reply"
    BY <1>3 DEF TypeOK, AskStale, EnterFetch, Granted, Serve
  <2>2. QED  BY <2>1 DEF Counts, StepsLeft, TypeOK, Places
<1>4. CASE UNCHANGED callVars
  BY <1>4 DEF callVars, Counts, StepsLeft, TypeOK, Places
<1>5. QED
  BY <1>1, <1>2, <1>3, <1>4
     DEF JwksNext, Proceed, Outcome, Publish, Tick, jwksVars

\* Every verification has at most eight steps, and none goes round for ever.
THEOREM VerificationsGetOn == JwksSpec => EveryStepCounts
<1> DEFINE C == \A c \in Callers : Counts(c)
<1>1. JwksInv /\ [JwksNext]_jwksVars => C
  BY CallCounts DEF JwksInv
<1> HIDE DEF C
<1>2. JwksSpec => [][C]_jwksVars
  BY JwksAlways, <1>1, PTL DEF JwksSpec
<1>3. QED
  BY <1>2 DEF EveryStepCounts, C, Counts

\* Nobody waits for a lock that nobody will give back.
THEOREM WaitersAreServed == JwksSpec => []WaitsForAFetch
<1>1. JwksInv => WaitsForAFetch
  BY DEF JwksInv, TypeOK, HolderAsks, WaitsForAFetch, Busy
<1>2. QED
  BY JwksAlways, <1>1, PTL

\* The same of the verifications that the provider makes.
THEOREM ProviderVerificationsGetOn == Spec => EveryStepCounts
  BY ProviderUsesCache, VerificationsGetOn

THEOREM ProviderWaitersAreServed == Spec => []WaitsForAFetch
<1>1. JwksSpec => []WaitsForAFetch
  BY WaitersAreServed
<1>2. QED
  BY <1>1, ProviderUsesCache, PTL
=============================================================================
