------------------------ MODULE RedisServiceProofs ------------------------
(***************************************************************************)
(* The safety properties of RedisService for every set of callers, every   *)
(* mix of operations, every set of cancelled callers and every cool-down.  *)
(* One inductive invariant carries them all: the lock serialises the       *)
(* attempts, and what an attempt has checked stays true while it lasts.    *)
(***************************************************************************)
EXTENDS RedisService, TLAPS

LEMMA ServiceInit == Init => ServiceInv
<1> SUFFICES ASSUME Init PROVE ServiceInv
  OBVIOUS
<1> USE ServiceAssumption DEF ServiceAssumption, Init
<1>1. TypeOK
  BY DEF TypeOK
<1>2. LockInv
  BY DEF LockInv
<1>3. CancelInv /\ FailureInv
  BY DEF CancelInv, FailureInv
<1>4. PublishedOnce /\ NoConnectionLost /\ FailuresSpaced
  BY DEF PublishedOnce, NoConnectionLost, CloseRaised, FailuresSpaced
<1> QED
  BY <1>1, <1>2, <1>3, <1>4 DEF ServiceInv

\* A call that ends without touching the service.
LEMMA ServeStep ==
    ASSUME ServiceInv, NEW c \in Callers, NEW from \in {"idle", "wait"}, Serve(c, from)
    PROVE  ServiceInv'
<1> USE ServiceAssumption DEF ServiceInv, Serve, Return, Goto
<1>1. TypeOK'
  BY DEF TypeOK
<1>2. LockInv'
  BY DEF TypeOK, LockInv
<1>3. CancelInv' /\ FailureInv'
  BY DEF TypeOK, CancelInv, FailureInv
<1>4. PublishedOnce'
  BY DEF PublishedOnce
<1>5. NoConnectionLost'
  <2>1. ASSUME NEW d \in Callers, answer[d].kind \in {"cancelled", "raised"}
        PROVE  answer'[d] = answer[d] /\ held'[d] = held[d]
    BY <2>1 DEF TypeOK, CancelInv
  <2>2. ASSUME NEW k \in Callers, CloseRaised(k)  PROVE CloseRaised(k)'
    BY <2>1, <2>2 DEF TypeOK, CloseRaised
  <2> QED
    BY <2>1, <2>2 DEF TypeOK, NoConnectionLost
<1>6. FailuresSpaced'
  BY DEF TypeOK, FailuresSpaced
<1> QED
  BY <1>1, <1>2, <1>3, <1>4, <1>5, <1>6

LEMMA RefuseStep ==
    ASSUME ServiceInv, NEW c \in Callers, NEW from \in {"idle", "wait"},
           NEW kind \in {"stopped", "unavailable"}, Refuse(c, from, kind)
    PROVE  ServiceInv'
<1> USE ServiceAssumption DEF ServiceInv, Refuse, Return, Goto
<1>1. TypeOK'
  BY DEF TypeOK
<1>2. LockInv'
  BY DEF TypeOK, LockInv
<1>3. CancelInv' /\ FailureInv'
  BY DEF TypeOK, CancelInv, FailureInv
<1>4. PublishedOnce'
  BY DEF PublishedOnce
<1>5. NoConnectionLost'
  BY DEF TypeOK, NoConnectionLost, CloseRaised, CancelInv
<1>6. FailuresSpaced'
  BY DEF TypeOK, FailuresSpaced
<1> QED
  BY <1>1, <1>2, <1>3, <1>4, <1>5, <1>6

\* The steps of a connection attempt.
LEMMA ConnectStep ==
    ASSUME ServiceInv, NEW c \in Callers, Connect(c)
    PROVE  ServiceInv'
<1> USE ServiceAssumption DEF ServiceInv, Connect, Granted, MayConnect, Goto
<1>1. TypeOK'
  BY DEF TypeOK
<1>2. LockInv'
  BY DEF TypeOK, LockInv
<1>3. CancelInv'
  BY DEF TypeOK, CancelInv
<1>4. FailureInv'
  BY DEF TypeOK, FailureInv, Cooling, LockInv
<1>5. PublishedOnce' /\ FailuresSpaced'
  BY DEF PublishedOnce, FailuresSpaced
<1>6. NoConnectionLost'
  BY DEF TypeOK, NoConnectionLost, CloseRaised
<1> QED
  BY <1>1, <1>2, <1>3, <1>4, <1>5, <1>6

LEMMA PublishStep ==
    ASSUME ServiceInv, NEW c \in Callers, Publish(c)
    PROVE  ServiceInv'
<1> USE ServiceAssumption DEF ServiceInv, Publish, Return, Goto, Unlock
<1>1. TypeOK'
  BY DEF TypeOK
<1>2. lock = c /\ client = None /\ ~stopped
  BY DEF LockInv
<1>3. LockInv'
  BY <1>2 DEF TypeOK, LockInv
<1>4. CancelInv'
  BY DEF TypeOK, CancelInv
<1>5. FailureInv'
  BY <1>2 DEF TypeOK, FailureInv
<1>6. PublishedOnce'
  BY <1>2 DEF TypeOK, PublishedOnce
<1>7. NoConnectionLost'
  BY <1>2 DEF TypeOK, NoConnectionLost, CloseRaised, CancelInv
<1>8. FailuresSpaced'
  BY DEF TypeOK, FailuresSpaced
<1> QED
  BY <1>1, <1>3, <1>4, <1>5, <1>6, <1>7, <1>8

LEMMA PingFailsStep ==
    ASSUME ServiceInv, NEW c \in Callers, PingFails(c)
    PROVE  ServiceInv'
<1> USE ServiceAssumption DEF ServiceInv, PingFails, StampFailure, Goto
<1>1. TypeOK'
  BY DEF TypeOK
<1>2. LockInv'
  BY DEF TypeOK, LockInv
<1>3. CancelInv'
  BY DEF TypeOK, CancelInv
<1>4. FailureInv'
  BY DEF TypeOK, FailureInv, LockInv
<1>5. PublishedOnce'
  BY DEF PublishedOnce
<1>6. NoConnectionLost'
  BY DEF TypeOK, NoConnectionLost, CloseRaised, CancelInv
<1>7. FailuresSpaced'
  BY DEF TypeOK, FailuresSpaced, FailureInv
<1> QED
  BY <1>1, <1>2, <1>3, <1>4, <1>5, <1>6, <1>7

LEMMA DiscardStep ==
    ASSUME ServiceInv, NEW c \in Callers, Discard(c)
    PROVE  ServiceInv'
<1> USE ServiceAssumption DEF ServiceInv, Discard, Closes, CloseFails, Goto, Unlock
<1>1. TypeOK'
  BY DEF TypeOK
<1>2. LockInv'
  BY DEF TypeOK, LockInv
<1>3. CancelInv'
  BY DEF TypeOK, CancelInv
<1>4. FailureInv'
  BY DEF TypeOK, FailureInv
<1>5. PublishedOnce' /\ FailuresSpaced'
  BY DEF PublishedOnce, FailuresSpaced
<1>6. NoConnectionLost'
  <2>1. answer[c].kind = "failed" /\ pc'[c] = "done"
    BY DEF TypeOK, CancelInv
  <2>2. ASSUME NEW k \in Callers, CloseRaised(k)  PROVE CloseRaised(k)'
    BY <2>2 DEF TypeOK, CloseRaised
  <2>3. ASSUME NEW k \in Callers, conn'[k] = "open"  PROVE NoConnectionLost!(k)'
    <3>1. CASE k = c
      BY <2>1, <2>3, <3>1 DEF TypeOK, CloseRaised
    <3>2. CASE k # c
      BY <2>2, <2>3, <3>2 DEF TypeOK, NoConnectionLost
    <3> QED
      BY <3>1, <3>2
  <2> QED
    BY <2>3 DEF NoConnectionLost
<1> QED
  BY <1>1, <1>2, <1>3, <1>4, <1>5, <1>6

\* The steps of stop().
LEMMA StopStep ==
    ASSUME ServiceInv, NEW c \in Callers, Stop(c)
    PROVE  ServiceInv'
<1> USE ServiceAssumption DEF ServiceInv, Stop, Granted, Taken, Goto
<1>1. TypeOK'
  BY DEF TypeOK
<1>2. LockInv'
  BY DEF TypeOK, LockInv
<1>3. CancelInv'
  BY DEF TypeOK, CancelInv
<1>4. FailureInv'
  BY DEF TypeOK, FailureInv
<1>5. PublishedOnce' /\ FailuresSpaced'
  BY DEF PublishedOnce, FailuresSpaced
<1>6. NoConnectionLost'
  BY DEF TypeOK, NoConnectionLost, CloseRaised, CancelInv
<1> QED
  BY <1>1, <1>2, <1>3, <1>4, <1>5, <1>6

LEMMA StopClosesStep ==
    ASSUME ServiceInv, NEW c \in Callers, StopCloses(c)
    PROVE  ServiceInv'
<1> USE ServiceAssumption DEF ServiceInv
<1>1. PICK kind \in {"ok", "raised"} :
         /\ Return(c, "close", kind)
         /\ conn' \in [Callers -> {"unbuilt", "open", "closed"}]
         /\ \A k \in Callers : conn'[k] = "open" =>
               /\ conn[k] = "open"
               /\ k = held[c] => kind = "raised" /\ k \in Brittle
  BY DEF StopCloses, Closes, CloseFails, TypeOK
<1>2. UNCHANGED <<now, client, stopped, generation, lastFailure, lock, held>>
  BY DEF StopCloses
<1>3. /\ pc[c] = "close"
      /\ pc' = [pc EXCEPT ![c] = "done"]
      /\ answer' = [answer EXCEPT ![c] = [kind |-> kind, at |-> 0]]
  BY <1>1 DEF Return, Goto
<1>4. TypeOK'
  BY <1>1, <1>2, <1>3 DEF TypeOK
<1>5. LockInv' /\ PublishedOnce'
  BY <1>2, <1>3 DEF TypeOK, LockInv, PublishedOnce
<1>6. CancelInv' /\ FailureInv' /\ FailuresSpaced'
  BY <1>2, <1>3 DEF TypeOK, CancelInv, FailureInv, FailuresSpaced
<1>7. NoConnectionLost'
  <2>1. ASSUME NEW d \in Callers, answer[d].kind \in {"cancelled", "raised"}
        PROVE  answer'[d] = answer[d] /\ held'[d] = held[d]
    BY <1>2, <1>3, <2>1 DEF TypeOK, CancelInv
  <2>2. ASSUME NEW k \in Callers, CloseRaised(k)  PROVE CloseRaised(k)'
    BY <1>2, <1>3, <2>1, <2>2 DEF TypeOK, CloseRaised
  <2>3. ASSUME NEW k \in Callers, conn'[k] = "open"  PROVE NoConnectionLost!(k)'
    <3>1. CASE k = held[c]
      BY <1>1, <1>2, <1>3, <2>3, <3>1 DEF TypeOK, CloseRaised
    <3>2. CASE k # held[c]
      BY <1>1, <1>2, <1>3, <2>1, <2>2, <2>3, <3>2 DEF TypeOK, NoConnectionLost
    <3> QED
      BY <3>1, <3>2
  <2> QED
    BY <2>3 DEF NoConnectionLost
<1> QED
  BY <1>4, <1>5, <1>6, <1>7

LEMMA CancelStep ==
    ASSUME ServiceInv, NEW c \in Callers, Cancel(c)
    PROVE  ServiceInv'
<1> USE ServiceAssumption DEF ServiceInv
<1> PICK from \in {"wait", "ping", "discard", "close"} : Return(c, from, "cancelled")
  BY DEF Cancel
<1> USE DEF Cancel, Return, Goto
<1>1. TypeOK'
  BY DEF TypeOK
<1>2. LockInv'
  BY DEF TypeOK, LockInv
<1>3. CancelInv'
  BY DEF TypeOK, CancelInv
<1>4. FailureInv'
  BY DEF TypeOK, FailureInv
<1>5. PublishedOnce'
  BY DEF PublishedOnce
<1>6. NoConnectionLost'
  <2> SUFFICES ASSUME NEW k \in Callers, conn'[k] = "open"
               PROVE  NoConnectionLost!(k)'
    BY DEF NoConnectionLost, CloseRaised
  <2> QED
    BY DEF TypeOK, NoConnectionLost, CloseRaised, CancelInv
<1>7. FailuresSpaced'
  BY DEF TypeOK, FailuresSpaced
<1> QED
  BY <1>1, <1>2, <1>3, <1>4, <1>5, <1>6, <1>7

LEMMA QueueStep ==
    ASSUME ServiceInv, NEW c \in Callers, CallQueues(c)
    PROVE  ServiceInv'
<1> USE ServiceAssumption DEF ServiceInv, CallQueues, Goto
<1>1. TypeOK' /\ LockInv'
  BY DEF TypeOK, LockInv
<1>2. CancelInv' /\ FailureInv'
  BY DEF TypeOK, CancelInv, FailureInv
<1>3. PublishedOnce' /\ FailuresSpaced'
  BY DEF PublishedOnce, FailuresSpaced
<1>4. NoConnectionLost'
  BY DEF TypeOK, NoConnectionLost, CloseRaised
<1> QED
  BY <1>1, <1>2, <1>3, <1>4

LEMMA TickStep == ServiceInv /\ Tick => ServiceInv'
<1> SUFFICES ASSUME ServiceInv, Tick PROVE ServiceInv'
  OBVIOUS
<1> USE ServiceAssumption DEF ServiceInv, Tick
<1>1. TypeOK' /\ LockInv' /\ CancelInv'
  BY DEF TypeOK, LockInv, CancelInv
<1>2. FailureInv'
  BY DEF TypeOK, FailureInv
<1>3. PublishedOnce' /\ FailuresSpaced' /\ NoConnectionLost'
  BY DEF PublishedOnce, FailuresSpaced, NoConnectionLost, CloseRaised
<1> QED
  BY <1>1, <1>2, <1>3

LEMMA StutterStep == ServiceInv /\ UNCHANGED serviceVars => ServiceInv'
BY DEF serviceVars, ServiceInv, TypeOK, LockInv, CancelInv, FailureInv, PublishedOnce,
       NoConnectionLost, CloseRaised, FailuresSpaced

LEMMA ServiceStep == ServiceInv /\ [Next]_serviceVars => ServiceInv'
<1> SUFFICES ASSUME ServiceInv, [Next]_serviceVars PROVE ServiceInv'
  OBVIOUS
<1>1. ASSUME NEW c \in Callers, Call(c) PROVE ServiceInv'
  BY <1>1, ServeStep, RefuseStep, QueueStep DEF Call, CallServed, CallRefused
<1>2. ASSUME NEW c \in Callers, WithLock(c) PROVE ServiceInv'
  <2>1. CASE FindsClient(c)
    BY <2>1, ServeStep DEF FindsClient
  <2>2. CASE FindsStopped(c) \/ FindsCooling(c)
    BY <2>2, RefuseStep DEF FindsStopped, FindsCooling
  <2>3. CASE Connect(c) \/ Publish(c) \/ PingFails(c) \/ Discard(c)
    BY <2>3, ConnectStep, PublishStep, PingFailsStep, DiscardStep
  <2>4. CASE Stop(c) \/ StopCloses(c)
    BY <2>4, StopStep, StopClosesStep
  <2> QED
    BY <1>2, <2>1, <2>2, <2>3, <2>4 DEF WithLock
<1>3. ASSUME NEW c \in Callers, Cancel(c) PROVE ServiceInv'
  BY <1>3, CancelStep
<1>4. CASE Tick
  BY <1>4, TickStep
<1>5. CASE Finished \/ UNCHANGED serviceVars
  BY <1>5, StutterStep DEF Finished
<1> QED
  BY <1>1, <1>2, <1>3, <1>4, <1>5 DEF Next

\* The inductive invariant holds in every reachable state of the service.
THEOREM ServiceInvariant == Spec => []ServiceInv
BY ServiceInit, ServiceStep, PTL DEF Spec

\* Every variable keeps its type.
THEOREM TypeCorrect == Spec => []TypeOK
<1>1. ServiceInv => TypeOK
  BY DEF ServiceInv
<1> QED
  BY <1>1, ServiceInvariant, PTL

\* After a stop nothing is published and no attempt is under way.
THEOREM StopIsFinal == Spec => []StoppedForGood
<1>1. ServiceInv => StoppedForGood
  BY ServiceAssumption DEF ServiceInv, LockInv, StoppedForGood
<1> QED
  BY <1>1, ServiceInvariant, PTL

\* An open connection has an owner, or was left behind by a cancelled caller or
\* by a close that raised.
THEOREM ConnectionsOwned == Spec => []NoConnectionLost
<1>1. ServiceInv => NoConnectionLost
  BY DEF ServiceInv
<1> QED
  BY <1>1, ServiceInvariant, PTL

\* Two failed lazy attempts are a cool-down apart.
THEOREM AttemptsSpaced == Spec => []FailuresSpaced
<1>1. ServiceInv => FailuresSpaced
  BY DEF ServiceInv
<1> QED
  BY <1>1, ServiceInvariant, PTL

\* One client is ever published, as generation 1.
THEOREM OnePublication == Spec => []PublishedOnce
<1>1. ServiceInv => PublishedOnce
  BY DEF ServiceInv
<1> QED
  BY <1>1, ServiceInvariant, PTL

-----------------------------------------------------------------------------
(* What a call that has returned leaves behind.                            *)

\* The published client is connected; an attempt is made on an open connection;
\* every call returns an answer; and whoever was answered with a client has the
\* published one until a stop (start, ensure_started and require_client return
\* no client that was closed or replaced meanwhile); only a stop raises the
\* error of its close.
ServedInv ==
    /\ client # None => conn[client] = "open"
    /\ \A c \in Callers :
        /\ pc[c] \in {"ping", "discard"} => conn[c] = "open"
        /\ pc[c] = "discard" => answer[c].kind = "failed"
        /\ pc[c] = "close" => stopped /\ Stopper(c)
        /\ pc[c] = "done" => answer[c].kind # "none"
        /\ answer[c].kind = "raised" => Stopper(c)
        /\ ~Stopper(c) /\ answer[c].kind = "ok" =>
               held[c] # None /\ (held[c] = client \/ stopped)

LEMMA ServedInit == Init => ServedInv
  BY DEF Init, ServedInv

\* Of a call that ends, and changes neither the client nor a connection.
LEMMA ReturnServed ==
    ASSUME ServiceInv, ServedInv, NEW c \in Callers,
           NEW from \in {"idle", "wait", "ping", "discard", "close"},
           NEW kind \in {"ok", "stopped", "unavailable", "cancelled"},
           Return(c, from, kind), UNCHANGED <<client, stopped, conn>>,
           \A d \in Callers \ {c} : held'[d] = held[d],
           kind = "ok" => Stopper(c) \/ (held'[c] # None /\ held'[c] = client)
    PROVE  ServedInv'
<1>1. /\ pc'[c] = "done" /\ answer'[c].kind = kind
      /\ \A d \in Callers \ {c} : pc'[d] = pc[d] /\ answer'[d] = answer[d]
  BY DEF Return, Goto, ServiceInv, TypeOK
<1>2. ASSUME NEW d \in Callers
      PROVE  /\ pc'[d] \in {"ping", "discard"} => conn'[d] = "open"
             /\ pc'[d] = "discard" => answer'[d].kind = "failed"
             /\ pc'[d] = "close" => stopped' /\ Stopper(d)
             /\ pc'[d] = "done" => answer'[d].kind # "none"
             /\ answer'[d].kind = "raised" => Stopper(d)
             /\ ~Stopper(d) /\ answer'[d].kind = "ok" =>
                    held'[d] # None /\ (held'[d] = client' \/ stopped')
  <2>1. CASE d = c
    BY <1>1, <2>1
  <2>2. CASE d # c
    BY <1>1, <2>2 DEF ServedInv
  <2> QED
    BY <2>1, <2>2
<1> QED
  BY <1>2 DEF ServedInv, Stopper

LEMMA ServedStep == ServiceInv /\ ServedInv /\ [Next]_serviceVars => ServedInv'
<1> SUFFICES ASSUME ServiceInv, ServedInv, [Next]_serviceVars PROVE ServedInv'
  OBVIOUS
<1> USE ServiceAssumption DEF ServiceAssumption
<1>1. ASSUME NEW c \in Callers, NEW from \in {"idle", "wait"}, Serve(c, from)
      PROVE  ServedInv'
  <2>1. held'[c] = client /\ client # None
    BY <1>1 DEF Serve, ServiceInv, TypeOK
  <2>2. Return(c, from, "ok") /\ UNCHANGED <<client, stopped, conn>>
    BY <1>1 DEF Serve
  <2>3. \A d \in Callers \ {c} : held'[d] = held[d]
    BY <1>1 DEF Serve, ServiceInv, TypeOK
  <2> QED
    BY <2>1, <2>2, <2>3, ReturnServed
<1>2. ASSUME NEW c \in Callers, NEW from \in {"idle", "wait"},
             NEW kind \in {"stopped", "unavailable"}, Refuse(c, from, kind)
      PROVE  ServedInv'
  <2>1. Return(c, from, kind) /\ UNCHANGED <<client, stopped, conn, held>>
    BY <1>2 DEF Refuse
  <2> QED
    BY <2>1, ReturnServed
<1>3. ASSUME NEW c \in Callers, CallQueues(c) PROVE ServedInv'
  BY <1>3 DEF CallQueues, Goto, ServedInv, ServiceInv, TypeOK, Stopper
<1>4. ASSUME NEW c \in Callers, Connect(c) PROVE ServedInv'
  BY <1>4 DEF Connect, Granted, MayConnect, Goto, ServedInv, ServiceInv, TypeOK, Stopper
<1>5. ASSUME NEW c \in Callers, Publish(c) PROVE ServedInv'
  <2>1. /\ client = None /\ ~stopped /\ pc[c] = "ping"
        /\ client' = c /\ conn' = conn /\ stopped' = stopped /\ held'[c] = c
        /\ pc'[c] = "done" /\ answer'[c].kind = "ok"
        /\ \A d \in Callers \ {c} :
              pc'[d] = pc[d] /\ answer'[d] = answer[d] /\ held'[d] = held[d]
    BY <1>5 DEF Publish, Return, Goto, ServiceInv, LockInv, TypeOK
  <2> QED
    BY <2>1 DEF ServedInv, Stopper
<1>6. ASSUME NEW c \in Callers, PingFails(c) PROVE ServedInv'
  BY <1>6 DEF PingFails, Goto, ServedInv, ServiceInv, TypeOK, Stopper
<1>7. ASSUME NEW c \in Callers, Discard(c) PROVE ServedInv'
  <2>1. client = None
    BY <1>7 DEF Discard, Goto, ServiceInv, LockInv
  <2>2. \A k \in Callers \ {c} : conn'[k] = conn[k]
    BY <1>7 DEF Discard, Closes, CloseFails
  <2> QED
    BY <1>7, <2>1, <2>2 DEF Discard, Goto, ServedInv, ServiceInv, TypeOK, Stopper
<1>8. ASSUME NEW c \in Callers, Stop(c) PROVE ServedInv'
  <2>1. Stopper(c) /\ client' = None /\ stopped' /\ conn' = conn /\ answer' = answer
    BY <1>8 DEF Stop
  <2>2. /\ pc'[c] = "close"
        /\ \A d \in Callers \ {c} : pc'[d] = pc[d] /\ held'[d] = held[d]
    BY <1>8 DEF Stop, Goto, Taken, ServiceInv, TypeOK
  <2> QED
    BY <2>1, <2>2 DEF ServedInv, Stopper
<1>9. ASSUME NEW c \in Callers, StopCloses(c) PROVE ServedInv'
  <2>1. pc[c] = "close" /\ pc'[c] = "done" /\ answer'[c].kind \in {"ok", "raised"}
        /\ held' = held
    BY <1>9 DEF StopCloses, Return, Goto, ServiceInv, TypeOK
  <2>2. \A d \in Callers \ {c} : pc'[d] = pc[d] /\ answer'[d] = answer[d]
    BY <1>9 DEF StopCloses, Return, Goto, ServiceInv, TypeOK
  <2>3. stopped /\ client = None /\ UNCHANGED <<client, stopped>>
    BY <1>9, <2>1 DEF StopCloses, ServedInv, ServiceInv, LockInv
  <2>4. \A d \in Callers : pc'[d] \notin {"ping", "discard"}
    BY <2>1, <2>2, <2>3 DEF ServiceInv, LockInv
  <2> QED
    BY <2>1, <2>2, <2>3, <2>4 DEF ServedInv, Stopper
<1>10. ASSUME NEW c \in Callers, Cancel(c) PROVE ServedInv'
  <2>1. PICK from \in {"wait", "ping", "discard", "close"} : Return(c, from, "cancelled")
    BY <1>10 DEF Cancel
  <2>2. UNCHANGED <<client, stopped, conn, held>>
    BY <1>10 DEF Cancel
  <2> QED
    BY <2>1, <2>2, ReturnServed
<1>11. CASE Tick \/ Finished \/ UNCHANGED serviceVars
  BY <1>11 DEF Tick, Finished, serviceVars, ServedInv, Stopper
<1> QED
  BY <1>1, <1>2, <1>3, <1>4, <1>5, <1>6, <1>7, <1>8, <1>9, <1>10, <1>11
     DEF Next, Call, CallServed, CallRefused, WithLock, FindsClient, FindsStopped,
         FindsCooling

\* A client that is published, or was given to a caller, is a connected one
\* until a stop.
THEOREM ServedWhatIsPublished == Spec => []ServedInv
  BY ServedInit, ServedStep, ServiceInvariant, PTL DEF Spec

\* After a stop, no connection is open but those that cancelled callers, or
\* closes that raised, have left.
LeftOpen(k) ==
    \/ \E c \in Hasty : answer[c].kind = "cancelled" /\ k \in {c, held[c]}
    \/ CloseRaised(k)
Released == stopped /\ \A k \in Callers : conn[k] = "open" => LeftOpen(k)

\* Once a stop has unpublished the client, only the close of it is left to do:
\* no start or reconnection that was under way keeps a connection, and when
\* nobody is closing one all are released (stop() in whatever order it met them).
StopReleases ==
    stopped => Released \/ \E c \in Callers : pc[c] = "close" /\ held[c] # None

\* Nothing is opened again: neither by callers that were queued for the lock,
\* nor by a later start.
StaysReleased == [][Released => Released']_serviceVars

\* Who waits for the lock waits for a connection attempt that is under way, and
\* not for a caller that failed, was cancelled or has returned.
WaitsForAnAttempt ==
    \A c \in Callers : pc[c] = "wait" /\ lock # None =>
        lock # c /\ pc[lock] \in {"ping", "discard"}

THEOREM StopReleasesConnections == Spec => []StopReleases
<1>1. ServiceInv => StopReleases
  <2> SUFFICES ASSUME ServiceInv, stopped,
                      \A c \in Callers : ~(pc[c] = "close" /\ held[c] # None)
               PROVE  Released
    BY DEF StopReleases
  <2>1. ASSUME NEW k \in Callers, conn[k] = "open"
        PROVE  LeftOpen(k)
    <3>1. k # client /\ pc[k] \notin {"ping", "discard"} /\ k # None
      BY ServiceAssumption DEF ServiceAssumption, ServiceInv, LockInv
    <3>2. \A c \in Callers : ~(pc[c] = "close" /\ held[c] = k)
      BY <3>1
    <3> QED
      BY <2>1, <3>1, <3>2 DEF ServiceInv, NoConnectionLost, LeftOpen
  <2> QED
    BY <2>1 DEF Released
<1> QED
  BY <1>1, ServiceInvariant, PTL

\* A stop is final, opens nothing, and lets nothing be opened.
LEMMA AfterStop ==
    ASSUME ServiceInv, stopped, [Next]_serviceVars
    PROVE  stopped' /\ \A k \in Callers : conn'[k] = "open" => conn[k] = "open"
<1>1. ASSUME NEW c \in Callers, WithLock(c)
      PROVE  stopped' /\ \A k \in Callers : conn'[k] = "open" => conn[k] = "open"
  <2>1. CASE FindsClient(c) \/ FindsStopped(c) \/ FindsCooling(c) \/ Publish(c)
             \/ PingFails(c)
    BY <2>1 DEF FindsClient, FindsStopped, FindsCooling, Serve, Refuse, Publish, PingFails
  <2>2. CASE Connect(c)
    BY <2>2 DEF Connect, MayConnect
  <2>3. CASE Discard(c) \/ Stop(c) \/ StopCloses(c)
    BY <2>3 DEF Discard, Stop, StopCloses, Closes, CloseFails
  <2> QED
    BY <1>1, <2>1, <2>2, <2>3 DEF WithLock
<1> QED
  BY <1>1 DEF Next, Call, CallServed, CallRefused, CallQueues, Serve, Refuse, Cancel, Tick,
              Finished, serviceVars

\* A call that has returned keeps its answer and what it was given.
LEMMA ReturnIsFinal ==
    ASSUME ServiceInv, [Next]_serviceVars, NEW d \in Callers, pc[d] = "done"
    PROVE  pc'[d] = "done" /\ answer'[d] = answer[d] /\ held'[d] = held[d]
<1>1. ASSUME NEW c \in Callers, Call(c) \/ WithLock(c) \/ Cancel(c), c # d
      PROVE  pc'[d] = "done" /\ answer'[d] = answer[d] /\ held'[d] = held[d]
  BY <1>1 DEF Call, CallServed, CallRefused, CallQueues, WithLock, FindsClient,
      FindsStopped, FindsCooling, Connect, Publish, PingFails, Discard, Stop, Taken,
      StopCloses, Cancel, Serve, Refuse, Return, Goto, ServiceInv, TypeOK
<1>2. ASSUME Call(d) \/ WithLock(d) \/ Cancel(d)
      PROVE  pc[d] # "done"
  BY <1>2 DEF Call, CallServed, CallRefused, CallQueues, WithLock, FindsClient,
      FindsStopped, FindsCooling, Connect, Publish, PingFails, Discard, Stop, Granted,
      StopCloses, Cancel, Serve, Refuse, Return, Goto
<1> QED
  BY <1>1, <1>2 DEF Next, Tick, Finished, serviceVars

THEOREM ReleasedForGood == Spec => StaysReleased
<1>1. ASSUME ServiceInv, [Next]_serviceVars, Released
      PROVE  Released'
  <2>1. stopped' /\ \A k \in Callers : conn'[k] = "open" => conn[k] = "open"
    BY <1>1, AfterStop DEF Released
  <2>2. ASSUME NEW c \in Callers, answer[c].kind \in {"cancelled", "raised"}
        PROVE  answer'[c] = answer[c] /\ held'[c] = held[c]
    BY <1>1, <2>2, ReturnIsFinal DEF ServiceInv, CancelInv
  <2>3. ASSUME NEW k \in Callers, LeftOpen(k)
        PROVE  LeftOpen(k)'
    <3>1. CASE k \in Brittle /\ pc[k] = "done" /\ answer[k].kind = "failed"
      BY <1>1, <3>1, ReturnIsFinal DEF LeftOpen, CloseRaised
    <3>2. CASE \E c \in Hasty : answer[c].kind = "cancelled" /\ k \in {c, held[c]}
      BY <2>2, <3>2, ServiceAssumption DEF ServiceAssumption, LeftOpen
    <3>3. CASE k \in Brittle /\ \E c \in Callers : answer[c].kind = "raised" /\ held[c] = k
      BY <2>2, <3>3 DEF LeftOpen, CloseRaised
    <3> QED
      BY <2>3, <3>1, <3>2, <3>3 DEF LeftOpen, CloseRaised
  <2> QED
    BY <1>1, <2>1, <2>3 DEF Released
<1>2. ServiceInv /\ [Next]_serviceVars => (Released => Released')
  BY <1>1
<1> QED
  BY <1>2, ServiceInvariant, PTL DEF Spec, StaysReleased

THEOREM WaitersMeetAnAttempt == Spec => []WaitsForAnAttempt
<1>1. ServiceInv => WaitsForAnAttempt
  BY ServiceAssumption
     DEF ServiceAssumption, ServiceInv, TypeOK, LockInv, WaitsForAnAttempt
<1> QED
  BY <1>1, ServiceInvariant, PTL

=============================================================================
