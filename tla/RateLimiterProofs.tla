------------------------- MODULE RateLimiterProofs -------------------------
(***************************************************************************)
(* The limiter leaves the Redis service as it is specified, so what is     *)
(* proved of the service holds beneath it; and its own safety properties,  *)
(* for every set of requests, tiers and policies.                          *)
(***************************************************************************)
EXTENDS RateLimiter, RedisServiceProofs

\* Every step of the composition is a step of the service, or none.
LEMMA ServiceSteps == [NextLimiter]_vars => [Next]_serviceVars
<1> USE DEF NextLimiter, vars
<1>1. ServiceMoves => [Next]_serviceVars
  BY DEF ServiceMoves, Next
<1>2. ASSUME NEW r \in Requests, AskService(r) PROVE [Next]_serviceVars
  BY <1>2, LimiterAssumption DEF LimiterAssumption, AskService, Next
<1>3. ASSUME NEW r \in Requests, Proceed(r) \/ CancelRequest(r)
      PROVE  UNCHANGED serviceVars
  BY <1>3
     DEF Proceed, NotRestarted, LookupNoBackend, LookupCached, LookupMissing,
         SecondLookCached, SecondLookNoBackend, BuildBucket, BucketBuilt, BucketFails,
         Counted, CountFails, CancelledInService, CancelRequest
<1>4. WarmUp \/ AllDone => UNCHANGED serviceVars
  BY DEF WarmUp, AllDone
<1> QED
  BY <1>1, <1>2, <1>3, <1>4

\* The composition implements the service: limiting disturbs nothing of it.
THEOREM ServiceKept == SpecLimiter => Spec
<1>1. InitLimiter => Init
  BY DEF InitLimiter
<1> QED
  BY <1>1, ServiceSteps, PTL DEF SpecLimiter, Spec

-----------------------------------------------------------------------------
LEMMA LimiterInit == InitLimiter => LimiterInv
<1> SUFFICES ASSUME InitLimiter PROVE LimiterInv
  OBVIOUS
<1> USE LimiterAssumption DEF LimiterAssumption, InitLimiter
<1>1. LimiterTypeOK
  BY DEF LimiterTypeOK
<1>2. BuildInv
  BY DEF BuildInv
<1>3. TiersFailTheirWay /\ BuiltOnPublished
  BY DEF TiersFailTheirWay, BuiltOnPublished
<1> QED
  BY <1>1, <1>2, <1>3 DEF LimiterInv

\* The service publishes a client only where nothing was published before, and
\* unpublishes it only for good.
LEMMA ClientChanges ==
    ASSUME ServiceInv, [Next]_serviceVars
    PROVE  /\ client' = client \/ client = None \/ stopped'
           /\ stopped => stopped'
           /\ stopped => client = None
<1> USE DEF ServiceInv, LockInv
<1>1. ASSUME NEW c \in Callers, Call(c) PROVE UNCHANGED <<client, stopped>>
  BY <1>1 DEF Call, CallServed, CallRefused, CallQueues, Serve, Refuse
<1>2. ASSUME NEW c \in Callers, WithLock(c)
      PROVE  (client' = client \/ client = None \/ stopped') /\ (stopped => stopped')
  <2>1. CASE FindsClient(c) \/ FindsStopped(c) \/ FindsCooling(c) \/ Connect(c)
    BY <2>1 DEF FindsClient, FindsStopped, FindsCooling, Connect, Serve, Refuse
  <2>2. CASE Publish(c)
    BY <2>2, ServiceAssumption DEF ServiceAssumption, Publish, Return, Goto
  <2>3. CASE PingFails(c) \/ Discard(c) \/ Stop(c) \/ StopCloses(c)
    BY <2>3 DEF PingFails, Discard, Stop, StopCloses
  <2> QED
    BY <1>2, <2>1, <2>2, <2>3 DEF WithLock
<1>3. ASSUME NEW c \in Callers, Cancel(c) PROVE UNCHANGED <<client, stopped>>
  BY <1>3 DEF Cancel
<1>4. Tick \/ Finished \/ UNCHANGED serviceVars => UNCHANGED <<client, stopped>>
  BY DEF Tick, Finished, serviceVars
<1> QED
  BY <1>1, <1>2, <1>3, <1>4 DEF Next

\* A step that leaves the limiter alone.
LEMMA ServiceMovesStep ==
    ASSUME ServiceInv, LimiterInv, [Next]_serviceVars, UNCHANGED limiterVars
    PROVE  LimiterInv'
<1> USE DEF LimiterInv, limiterVars
<1>1. LimiterTypeOK' /\ BuildInv' /\ TiersFailTheirWay'
  BY DEF LimiterTypeOK, BuildInv, TiersFailTheirWay, Policies
<1>2. BuiltOnPublished'
  BY ClientChanges DEF BuiltOnPublished, Policies
<1> QED
  BY <1>1, <1>2

\* The warm-up finds an empty cache and no request.
LEMMA WarmUpStep ==
    ASSUME ServiceInv, LimiterInv, WarmUp
    PROVE  LimiterInv'
<1> USE DEF LimiterInv, WarmUp, ServiceInv, TypeOK
<1>1. client \in Callers \cup {None}
  OBVIOUS
<1>2. LimiterTypeOK'
  BY <1>1 DEF LimiterTypeOK
<1>3. BuildInv' /\ TiersFailTheirWay'
  BY DEF BuildInv, TiersFailTheirWay, LimiterTypeOK
<1>4. BuiltOnPublished'
  BY DEF BuiltOnPublished, LimiterTypeOK, serviceVars
<1> QED
  BY <1>2, <1>3, <1>4

\* A request asks the service to reconnect.
LEMMA AskServiceStep ==
    ASSUME ServiceInv, LimiterInv, NEW r \in Requests, AskService(r)
    PROVE  LimiterInv'
<1> USE DEF LimiterInv, AskService, Move
<1>1. [Next]_serviceVars
  BY LimiterAssumption DEF LimiterAssumption, Next
<1>2. LimiterTypeOK' /\ BuildInv' /\ TiersFailTheirWay'
  BY DEF LimiterTypeOK, BuildInv, TiersFailTheirWay
<1>3. BuiltOnPublished'
  BY <1>1, ClientChanges DEF BuiltOnPublished, Policies
<1> QED
  BY <1>2, <1>3

\* A request is decided without being counted, and with no lock in its hands.
LEMMA DecideStep ==
    ASSUME LimiterInv, NEW r \in Requests,
           \/ NotRestarted(r) \/ LookupNoBackend(r) \/ SecondLookNoBackend(r)
           \/ CountFails(r) \/ CancelledInService(r)
    PROVE  LimiterInv'
<1> USE LimiterAssumption
    DEF LimiterInv, NotRestarted, LookupNoBackend, SecondLookNoBackend, CountFails,
        CancelledInService, Decide, Move, AtLookup, HasLock, Uncountable
<1>1. LimiterTypeOK'
  BY DEF LimiterTypeOK
<1>2. BuildInv'
  BY DEF LimiterTypeOK, BuildInv
<1>3. TiersFailTheirWay'
  BY DEF LimiterTypeOK, BuildInv, TiersFailTheirWay
<1>4. BuiltOnPublished'
  BY DEF LimiterTypeOK, BuiltOnPublished, serviceVars
<1> QED
  BY <1>1, <1>2, <1>3, <1>4

\* A request moves on without a decision and without the lock.
LEMMA MoveStep ==
    ASSUME LimiterInv, NEW r \in Requests,
           LookupCached(r) \/ LookupMissing(r) \/ SecondLookCached(r)
    PROVE  LimiterInv'
<1> USE DEF LimiterInv, LookupCached, LookupMissing, SecondLookCached, Move, AtLookup,
        HasLock
<1>1. LimiterTypeOK' /\ TiersFailTheirWay'
  BY DEF LimiterTypeOK, TiersFailTheirWay
<1>2. BuildInv'
  BY DEF LimiterTypeOK, BuildInv
<1>3. BuiltOnPublished'
  BY DEF BuiltOnPublished, serviceVars
<1> QED
  BY <1>1, <1>2, <1>3

\* The steps with the policy's lock.
LEMMA BuildStep ==
    ASSUME ServiceInv, LimiterInv, NEW r \in Requests,
           BuildBucket(r) \/ BucketBuilt(r) \/ BucketFails(r)
    PROVE  LimiterInv'
<1> USE LimiterAssumption
    DEF LimiterInv, BuildBucket, BucketBuilt, BucketFails, Move, Decide, HasLock,
        StillMissing, Leave, Uncountable
<1>1. client \in Callers \cup {None} /\ Policy[r] \in Policies
  BY DEF ServiceInv, TypeOK, Policies
<1>2. LimiterTypeOK'
  BY <1>1 DEF LimiterTypeOK
<1>3. BuildInv'
  BY <1>1 DEF LimiterAssumption, LimiterTypeOK, BuildInv, Policies
<1>4. TiersFailTheirWay'
  BY DEF LimiterTypeOK, BuildInv, TiersFailTheirWay
<1>5. BuiltOnPublished'
  BY <1>1 DEF LimiterTypeOK, BuiltOnPublished, serviceVars
<1> QED
  BY <1>2, <1>3, <1>4, <1>5

LEMMA CountedStep ==
    ASSUME LimiterInv, NEW r \in Requests, Counted(r)
    PROVE  LimiterInv'
<1> USE LimiterAssumption DEF LimiterInv, Counted, Decide, Move
<1>1. LimiterTypeOK'
  BY DEF LimiterTypeOK
<1>2. BuildInv'
  BY DEF LimiterTypeOK, BuildInv
<1>3. TiersFailTheirWay'
  BY DEF LimiterTypeOK, TiersFailTheirWay
<1>4. BuiltOnPublished'
  BY DEF LimiterTypeOK, BuiltOnPublished, serviceVars
<1> QED
  BY <1>1, <1>2, <1>3, <1>4

\* A cancelled request gives back only a lock of its own.
LEMMA CancelRequestStep ==
    ASSUME LimiterInv, NEW r \in Requests, CancelRequest(r)
    PROVE  LimiterInv'
<1> USE LimiterAssumption DEF LimiterInv, CancelRequest, Decide, Move
<1>1. LimiterTypeOK'
  BY DEF LimiterTypeOK
<1>2. BuildInv'
  BY DEF LimiterTypeOK, BuildInv, Policies
<1>3. TiersFailTheirWay'
  BY DEF LimiterTypeOK, TiersFailTheirWay
<1>4. BuiltOnPublished'
  BY DEF LimiterTypeOK, BuiltOnPublished, serviceVars
<1> QED
  BY <1>1, <1>2, <1>3, <1>4

LEMMA LimiterStep == ServiceInv /\ LimiterInv /\ [NextLimiter]_vars => LimiterInv'
<1> SUFFICES ASSUME ServiceInv, LimiterInv, [NextLimiter]_vars PROVE LimiterInv'
  OBVIOUS
<1>1. CASE ServiceMoves
  <2>1. [Next]_serviceVars /\ UNCHANGED limiterVars
    BY <1>1 DEF ServiceMoves, Next
  <2> QED
    BY <2>1, ServiceMovesStep
<1>2. CASE WarmUp
  BY <1>2, WarmUpStep
<1>3. ASSUME NEW r \in Requests, AskService(r) PROVE LimiterInv'
  BY <1>3, AskServiceStep
<1>4. ASSUME NEW r \in Requests, Proceed(r) PROVE LimiterInv'
  BY <1>4, DecideStep, MoveStep, BuildStep, CountedStep DEF Proceed
<1>5. ASSUME NEW r \in Requests, CancelRequest(r) PROVE LimiterInv'
  BY <1>5, CancelRequestStep
<1>6. CASE AllDone \/ UNCHANGED vars
  <2>1. UNCHANGED serviceVars /\ UNCHANGED limiterVars
    BY <1>6 DEF AllDone, vars
  <2> QED
    BY <2>1, ServiceMovesStep
<1> QED
  BY <1>1, <1>2, <1>3, <1>4, <1>5, <1>6 DEF NextLimiter

\* The inductive invariant of the limiter holds in every reachable state.
THEOREM LimiterInvariant == SpecLimiter => []LimiterInv
BY LimiterInit, LimiterStep, ServiceKept, ServiceInvariant, PTL DEF SpecLimiter

\* A strict tier fails closed and an open tier open, whatever fails.
THEOREM TiersKept == SpecLimiter => []TiersFailTheirWay
<1>1. LimiterInv => TiersFailTheirWay
  BY DEF LimiterInv
<1> QED
  BY <1>1, LimiterInvariant, PTL

\* Buckets are built on, and cached for, the one client that is published.
THEOREM BucketsCurrent == SpecLimiter => []BuiltOnPublished
<1>1. LimiterInv => BuiltOnPublished
  BY DEF LimiterInv
<1> QED
  BY <1>1, LimiterInvariant, PTL

\* What the theorem says of one step.
BucketKept ==
    \A p \in Policies :
        /\ limiter[p] # None => limiter'[p] = limiter[p]
        /\ \A r \in Requests :
              limiter[p] # None /\ Policy[r] = p
                  => step'[r] # "building" \/ step[r] = "building"

LEMMA BucketStep ==
    ASSUME LimiterInv, [NextLimiter]_vars PROVE BucketKept
<1> USE DEF LimiterInv, LimiterTypeOK, BucketKept
<1>1. CASE ServiceMoves \/ AllDone \/ UNCHANGED vars
  BY <1>1 DEF ServiceMoves, AllDone, vars, limiterVars
<1>2. CASE WarmUp
  BY <1>2 DEF WarmUp, BuildInv
<1>3. ASSUME NEW r \in Requests, AskService(r) \/ CancelRequest(r)
      PROVE  BucketKept
  BY <1>3 DEF AskService, CancelRequest, Decide, Move
<1>4. ASSUME NEW r \in Requests,
             \/ NotRestarted(r) \/ LookupNoBackend(r) \/ LookupCached(r)
             \/ LookupMissing(r) \/ SecondLookCached(r) \/ SecondLookNoBackend(r)
             \/ BucketFails(r) \/ Counted(r) \/ CountFails(r) \/ CancelledInService(r)
      PROVE  BucketKept
  BY <1>4 DEF NotRestarted, LookupNoBackend, LookupCached, LookupMissing,
              SecondLookCached, SecondLookNoBackend, BucketFails, Counted, CountFails,
              CancelledInService, Decide, Move
<1>5. ASSUME NEW r \in Requests, BuildBucket(r) \/ BucketBuilt(r)
      PROVE  BucketKept
  BY <1>5 DEF BuildBucket, BucketBuilt, StillMissing, Move, BuildInv
<1> QED
  BY <1>1, <1>2, <1>3, <1>4, <1>5 DEF NextLimiter, Proceed

\* A cached limiter is never replaced, and none is built beside it.
THEOREM OneBucket == SpecLimiter => OneBucketPerPolicy
<1>1. LimiterInv /\ [NextLimiter]_vars => [BucketKept]_vars
  BY BucketStep
<1> QED
  BY <1>1, LimiterInvariant, PTL DEF SpecLimiter, OneBucketPerPolicy, BucketKept

-----------------------------------------------------------------------------
(* Whom a request waits for.                                               *)

\* The lock of a policy is held by a request of that policy that is building
\* its bucket, and a request that asks the service has called it.
HandsInv ==
    /\ \A p \in Policies : initLock[p] # None =>
        Policy[initLock[p]] = p /\ step[initLock[p]] = "building"
    /\ \A r \in Requests : step[r] = "ensuring" => pc[r] # "idle"

\* A request queued for its policy's limiter waits for another one's bucket to
\* be built, and not for a request that failed to build it, was cancelled in
\* doing so or has been decided (_get_or_create_limiter).
QueuedBehindABuilder ==
    \A r \in Requests : step[r] = "queued" /\ initLock[Policy[r]] # None =>
        \E s \in Requests \ {r} : Policy[s] = Policy[r] /\ step[s] = "building"

\* A request that asked the service to reconnect waits for an attempt that is
\* under way, or has an answer that its dependency knows what to do with.
AskedIsInHand ==
    \A r \in Requests : step[r] = "ensuring" =>
        \/ pc[r] \in {"wait", "ping", "discard"}
        \/ /\ pc[r] = "done"
           /\ answer[r].kind \in {"ok", "stopped", "unavailable", "failed", "cancelled"}

\* A cached limiter counts over a connection that is open, until a stop.
BucketsConnected ==
    \A p \in Policies : limiter[p] # None =>
        stopped \/ (limiter[p] = client /\ conn[limiter[p]] = "open")

LEMMA HandsInit == InitLimiter => HandsInv
  BY DEF InitLimiter, HandsInv

\* No step of the service takes a caller back to where it has not called.
LEMMA CalledStays ==
    ASSUME ServiceInv, [Next]_serviceVars, NEW r \in Callers, pc[r] # "idle"
    PROVE  pc'[r] # "idle"
<1>1. ASSUME NEW c \in Callers, Call(c) \/ WithLock(c) \/ Cancel(c)
      PROVE  pc'[r] # "idle"
  BY <1>1 DEF Call, CallServed, CallRefused, CallQueues, WithLock, FindsClient,
      FindsStopped, FindsCooling, Connect, Publish, PingFails, Discard, Stop,
      StopCloses, Cancel, Serve, Refuse, Return, Goto, ServiceInv, TypeOK
<1> QED
  BY <1>1 DEF Next, Tick, Finished, serviceVars

LEMMA HandsStep ==
    ASSUME ServiceInv, LimiterInv, HandsInv, [NextLimiter]_vars  PROVE HandsInv'
<1> USE LimiterAssumption DEF LimiterAssumption, LimiterInv, LimiterTypeOK, HandsInv
<1>1. ASSUME NEW r \in Requests, step[r] = "ensuring"  PROVE pc'[r] # "idle"
  BY <1>1, ServiceSteps, CalledStays DEF BuildInv
<1>2. CASE ServiceMoves \/ WarmUp \/ AllDone \/ UNCHANGED vars
  BY <1>1, <1>2 DEF ServiceMoves, WarmUp, AllDone, vars, limiterVars
<1>3. ASSUME NEW r \in Requests, AskService(r)  PROVE HandsInv'
  <2>1. r \in Callers /\ pc'[r] # "idle"
    BY <1>3 DEF AskService, Call, CallServed, CallRefused, CallQueues, Serve, Refuse,
                Return, Goto, ServiceInv, TypeOK
  <2>2. /\ step[r] = "idle" /\ initLock' = initLock
        /\ \A s \in Requests \ {r} : step'[s] = step[s]
    BY <1>3 DEF AskService, Move
  <2> QED
    BY <1>1, <2>1, <2>2
<1>4. ASSUME NEW r \in Requests,
             \/ NotRestarted(r) \/ LookupNoBackend(r) \/ LookupCached(r)
             \/ LookupMissing(r) \/ SecondLookCached(r) \/ SecondLookNoBackend(r)
             \/ Counted(r) \/ CountFails(r) \/ CancelledInService(r)
      PROVE  HandsInv'
  <2>1. /\ step[r] # "building" /\ step'[r] # "ensuring"
        /\ UNCHANGED <<serviceVars, initLock>>
        /\ \A s \in Requests \ {r} : step'[s] = step[s]
    BY <1>4 DEF NotRestarted, LookupNoBackend, LookupCached, LookupMissing,
                SecondLookCached, SecondLookNoBackend, Counted, CountFails,
                CancelledInService, Decide, Move, AtLookup
  <2> QED
    BY <2>1 DEF serviceVars
<1>5. ASSUME NEW r \in Requests, BuildBucket(r)  PROVE HandsInv'
  BY <1>5 DEF BuildBucket, HasLock, Move, Policies, serviceVars
<1>6. ASSUME NEW r \in Requests, BucketBuilt(r) \/ BucketFails(r)  PROVE HandsInv'
  <2>1. /\ initLock' = [initLock EXCEPT ![Policy[r]] = None]
        /\ step'[r] # "ensuring" /\ UNCHANGED serviceVars
        /\ \A s \in Requests \ {r} : step'[s] = step[s]
        /\ initLock[Policy[r]] = r
    BY <1>6 DEF BucketBuilt, BucketFails, Leave, Decide, Move, BuildInv
  <2> QED
    BY <2>1 DEF serviceVars, Policies
<1>7. ASSUME NEW r \in Requests, CancelRequest(r)  PROVE HandsInv'
  <2>1. /\ initLock' = [initLock EXCEPT ![Policy[r]] = IF @ = r THEN None ELSE @]
        /\ step'[r] # "ensuring" /\ UNCHANGED serviceVars
        /\ \A s \in Requests \ {r} : step'[s] = step[s]
    BY <1>7 DEF CancelRequest, Decide, Move
  <2>2. \A p \in Policies : initLock'[p] # None =>
            initLock'[p] = initLock[p] /\ initLock[p] # r
    BY <2>1 DEF Policies
  <2> QED
    BY <2>1, <2>2 DEF serviceVars
<1> QED
  BY <1>2, <1>3, <1>4, <1>5, <1>6, <1>7 DEF NextLimiter, Proceed

LEMMA HandsInvariant == SpecLimiter => []HandsInv
  BY HandsInit, HandsStep, LimiterInvariant, ServiceKept, ServiceInvariant, PTL
     DEF SpecLimiter

\* Nobody queues for a limiter that nobody is building.
THEOREM QueuesMove == SpecLimiter => []QueuedBehindABuilder
<1>1. LimiterInv /\ HandsInv => QueuedBehindABuilder
  <2> SUFFICES ASSUME LimiterInv, HandsInv, NEW r \in Requests, step[r] = "queued",
                      initLock[Policy[r]] # None
               PROVE  \E s \in Requests \ {r} :
                          Policy[s] = Policy[r] /\ step[s] = "building"
    BY DEF QueuedBehindABuilder
  <2>1. Policy[r] \in Policies
    BY DEF Policies
  <2> QED
    BY <2>1 DEF HandsInv, LimiterInv, LimiterTypeOK
<1> QED
  BY <1>1, LimiterInvariant, HandsInvariant, PTL

\* What the service owes a request of the limiter it is about to give.
THEOREM AskedAreAnswered == SpecLimiter => []AskedIsInHand
<1>1. ServiceInv /\ ServedInv /\ LimiterInv /\ HandsInv => AskedIsInHand
  <2> SUFFICES ASSUME ServiceInv, ServedInv, LimiterInv, HandsInv,
                      NEW r \in Requests, step[r] = "ensuring"
               PROVE  \/ pc[r] \in {"wait", "ping", "discard"}
                      \/ /\ pc[r] = "done"
                         /\ answer[r].kind \in {"ok", "stopped", "unavailable", "failed",
                                                "cancelled"}
    BY DEF AskedIsInHand
  <2>1. r \in Callers /\ Op[r] = "ensure" /\ pc[r] # "idle"
    BY LimiterAssumption DEF LimiterAssumption, LimiterInv, BuildInv, HandsInv
  <2>2. pc[r] # "close"
    BY <2>1 DEF ServedInv, Stopper
  <2>3. answer[r].kind # "raised" /\ (pc[r] = "done" => answer[r].kind # "none")
    BY <2>1 DEF ServedInv, Stopper
  <2> QED
    BY <2>1, <2>2, <2>3 DEF ServiceInv, TypeOK
<1> QED
  BY <1>1, LimiterInvariant, HandsInvariant, ServiceKept, ServiceInvariant,
     ServedWhatIsPublished, PTL

\* Every count goes over the published connection.
THEOREM CountsAreConnected == SpecLimiter => []BucketsConnected
<1>1. ServedInv /\ LimiterInv => BucketsConnected
  BY DEF ServedInv, LimiterInv, BuiltOnPublished, BucketsConnected
<1> QED
  BY <1>1, LimiterInvariant, ServiceKept, ServedWhatIsPublished, PTL

=============================================================================
