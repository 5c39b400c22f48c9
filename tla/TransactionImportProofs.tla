---------------------- MODULE TransactionImportProofs ----------------------
(***************************************************************************)
(* Proofs about TransactionImport and the modules it is composed of, for   *)
(* every number of requests and workers and every bound on retries.        *)
(***************************************************************************)
EXTENDS TransactionImport, TLAPS

USE ClientAssumption, ImportAssumption

Sending == {"starting", "body", "tail"}

\* How far a request has come, told from what the layers, the server and the log
\* have of it.
Placed(c) ==
    /\ place[c] = "new" => ~guarded[c]
    /\ place[c] \in {"new", "inside"} => ~begun[c] /\ ~passed[c]
    /\ place[c] \in {"new", "inside", "starting"} => delivered[c] = <<>>
    /\ place[c] \in {"new", "inside", "starting", "body"} => logged[c] = <<>>
    /\ place[c] = "inside" => guarded[c]
    /\ place[c] \in Sending => passed[c] /\ (begun[c] <=> guarded[c])
    /\ place[c] \in {"body", "tail"} => delivered[c] = <<status[c]>>
    /\ place[c] = "raising" =>
        /\ delivered[c] = <<>> \/ (passed[c] /\ delivered[c] = <<status[c]>>)
        /\ logged[c] = <<>> \/ (passed[c] /\ delivered[c] = logged[c])
    /\ place[c] = "tail" =>
        logged[c] = IF kind[c] = "quiet" THEN <<>> ELSE <<status[c]>>
    /\ place[c] = "over" =>
        /\ \E s \in Statuses : delivered[c] = <<s>>
        /\ kind[c] # "quiet" =>
            /\ \E s \in Statuses : logged[c] = <<s>>
            /\ logged[c] = delivered[c] \/ (passed[c] /\ delivered[c] = <<"error">>)

PlaceInv == \A c \in Requests : Placed(c)

PipelineInv == PipelineTypeOK /\ PlaceInv

\* The steps of the middleware.
PipelineStep(c) ==
    \/ (\E s \in {"ok", "problem"} : Respond(c, s))
    \/ Arrive(c) \/ ArriveTooLarge(c) \/ RaiseUnhandled(c) \/ Deliver(c) \/ SendBody(c)
    \/ Return(c) \/ Break(c) \/ Deadline(c) \/ Propagate(c)

LEMMA PipelineInitInv == PipelineInit => PipelineInv
  BY DEF PipelineInit, PipelineInv, PipelineTypeOK, PlaceInv, Placed, Places, Statuses,
         Sending

\* A step of one request leaves the others where they are.
LEMMA OthersStay ==
  ASSUME PipelineTypeOK, NEW c \in Requests, PipelineStep(c)
  PROVE  \A d \in Requests \ {c} :
           /\ kind'[d] = kind[d] /\ place'[d] = place[d] /\ status'[d] = status[d]
           /\ guarded'[d] = guarded[d] /\ begun'[d] = begun[d] /\ passed'[d] = passed[d]
           /\ delivered'[d] = delivered[d] /\ logged'[d] = logged[d]
<1>1. ASSUME Arrive(c), NEW d \in Requests \ {c}
      PROVE  /\ kind'[d] = kind[d] /\ place'[d] = place[d] /\ status'[d] = status[d]
             /\ guarded'[d] = guarded[d] /\ begun'[d] = begun[d] /\ passed'[d] = passed[d]
             /\ delivered'[d] = delivered[d] /\ logged'[d] = logged[d]
  BY <1>1 DEF PipelineTypeOK, Arrive
<1>2. ASSUME ArriveTooLarge(c), NEW d \in Requests \ {c}
      PROVE  /\ kind'[d] = kind[d] /\ place'[d] = place[d] /\ status'[d] = status[d]
             /\ guarded'[d] = guarded[d] /\ begun'[d] = begun[d] /\ passed'[d] = passed[d]
             /\ delivered'[d] = delivered[d] /\ logged'[d] = logged[d]
  BY <1>2 DEF PipelineTypeOK, ArriveTooLarge, SendStart
<1>3. ASSUME NEW s \in {"ok", "problem"}, Respond(c, s), NEW d \in Requests \ {c}
      PROVE  /\ kind'[d] = kind[d] /\ place'[d] = place[d] /\ status'[d] = status[d]
             /\ guarded'[d] = guarded[d] /\ begun'[d] = begun[d] /\ passed'[d] = passed[d]
             /\ delivered'[d] = delivered[d] /\ logged'[d] = logged[d]
  BY <1>3 DEF PipelineTypeOK, Respond, SendStart
<1>4. ASSUME RaiseUnhandled(c), NEW d \in Requests \ {c}
      PROVE  /\ kind'[d] = kind[d] /\ place'[d] = place[d] /\ status'[d] = status[d]
             /\ guarded'[d] = guarded[d] /\ begun'[d] = begun[d] /\ passed'[d] = passed[d]
             /\ delivered'[d] = delivered[d] /\ logged'[d] = logged[d]
  BY <1>4 DEF PipelineTypeOK, RaiseUnhandled
<1>5. ASSUME Deliver(c), NEW d \in Requests \ {c}
      PROVE  /\ kind'[d] = kind[d] /\ place'[d] = place[d] /\ status'[d] = status[d]
             /\ guarded'[d] = guarded[d] /\ begun'[d] = begun[d] /\ passed'[d] = passed[d]
             /\ delivered'[d] = delivered[d] /\ logged'[d] = logged[d]
  BY <1>5 DEF PipelineTypeOK, Deliver
<1>6. ASSUME SendBody(c), NEW d \in Requests \ {c}
      PROVE  /\ kind'[d] = kind[d] /\ place'[d] = place[d] /\ status'[d] = status[d]
             /\ guarded'[d] = guarded[d] /\ begun'[d] = begun[d] /\ passed'[d] = passed[d]
             /\ delivered'[d] = delivered[d] /\ logged'[d] = logged[d]
  BY <1>6 DEF PipelineTypeOK, SendBody, Log
<1>7. ASSUME Return(c), NEW d \in Requests \ {c}
      PROVE  /\ kind'[d] = kind[d] /\ place'[d] = place[d] /\ status'[d] = status[d]
             /\ guarded'[d] = guarded[d] /\ begun'[d] = begun[d] /\ passed'[d] = passed[d]
             /\ delivered'[d] = delivered[d] /\ logged'[d] = logged[d]
  BY <1>7 DEF PipelineTypeOK, Return, Leave
<1>8. ASSUME Break(c), NEW d \in Requests \ {c}
      PROVE  /\ kind'[d] = kind[d] /\ place'[d] = place[d] /\ status'[d] = status[d]
             /\ guarded'[d] = guarded[d] /\ begun'[d] = begun[d] /\ passed'[d] = passed[d]
             /\ delivered'[d] = delivered[d] /\ logged'[d] = logged[d]
  BY <1>8 DEF PipelineTypeOK, Break
<1>9. ASSUME Deadline(c), NEW d \in Requests \ {c}
      PROVE  /\ kind'[d] = kind[d] /\ place'[d] = place[d] /\ status'[d] = status[d]
             /\ guarded'[d] = guarded[d] /\ begun'[d] = begun[d] /\ passed'[d] = passed[d]
             /\ delivered'[d] = delivered[d] /\ logged'[d] = logged[d]
  BY <1>9 DEF PipelineTypeOK, Deadline, SendStart
<1>10. ASSUME Propagate(c), NEW d \in Requests \ {c}
      PROVE  /\ kind'[d] = kind[d] /\ place'[d] = place[d] /\ status'[d] = status[d]
             /\ guarded'[d] = guarded[d] /\ begun'[d] = begun[d] /\ passed'[d] = passed[d]
             /\ delivered'[d] = delivered[d] /\ logged'[d] = logged[d]
  BY <1>10 DEF PipelineTypeOK, Propagate, Log, Leave
<1>11. QED
  BY <1>1, <1>2, <1>3, <1>4, <1>5, <1>6, <1>7, <1>8, <1>9, <1>10 DEF PipelineStep

LEMMA PipelineTypeStep ==
  ASSUME PipelineTypeOK, NEW c \in Requests, PipelineStep(c)  PROVE PipelineTypeOK'
<1> USE DEF PipelineTypeOK
<1>1. ASSUME Arrive(c)  PROVE PipelineTypeOK'
  BY <1>1 DEF Arrive, Places, Statuses
<1>2. ASSUME ArriveTooLarge(c)  PROVE PipelineTypeOK'
  BY <1>2 DEF ArriveTooLarge, SendStart, Places, Statuses
<1>3. ASSUME NEW s \in {"ok", "problem"}, Respond(c, s)  PROVE PipelineTypeOK'
  BY <1>3 DEF Respond, SendStart, Places, Statuses
<1>4. ASSUME RaiseUnhandled(c)  PROVE PipelineTypeOK'
  BY <1>4 DEF RaiseUnhandled, Places, Statuses
<1>5. ASSUME Deliver(c)  PROVE PipelineTypeOK'
  BY <1>5 DEF Deliver, Places, Statuses
<1>6. ASSUME SendBody(c)  PROVE PipelineTypeOK'
  <2>1. Append(logged[c], status[c]) \in Seq(Statuses)
    OBVIOUS
  <2>2. logged' \in [Requests -> Seq(Statuses)]
    BY <1>6, <2>1 DEF SendBody, Log
  <2>3. QED  BY <1>6, <2>2 DEF SendBody, Places
<1>7. ASSUME Return(c)  PROVE PipelineTypeOK'
  BY <1>7 DEF Return, Leave, Places, Statuses
<1>8. ASSUME Break(c)  PROVE PipelineTypeOK'
  BY <1>8 DEF Break, Places, Statuses
<1>9. ASSUME Deadline(c)  PROVE PipelineTypeOK'
  BY <1>9 DEF Deadline, SendStart, Places, Statuses
<1>10. ASSUME Propagate(c)  PROVE PipelineTypeOK'
  BY <1>10 DEF Propagate, Log, Leave, Places, Statuses
<1>11. QED
  BY <1>1, <1>2, <1>3, <1>4, <1>5, <1>6, <1>7, <1>8, <1>9, <1>10 DEF PipelineStep

LEMMA PipelineNextInv ==
  ASSUME PipelineInv, NEW c \in Requests, PipelineStep(c)  PROVE PipelineInv'
<1> PipelineTypeOK /\ Placed(c) /\ PipelineTypeOK'
  BY PipelineTypeStep DEF PipelineInv, PlaceInv
<1> USE DEF PipelineTypeOK
<1>1. ASSUME Arrive(c)  PROVE Placed(c)'
  BY <1>1 DEF Placed, Arrive, Statuses, Sending
<1>2. ASSUME ArriveTooLarge(c)  PROVE Placed(c)'
  BY <1>2 DEF Placed, ArriveTooLarge, SendStart, Statuses, Sending
<1>3. ASSUME NEW s \in {"ok", "problem"}, Respond(c, s)  PROVE Placed(c)'
  BY <1>3 DEF Placed, Respond, SendStart, Statuses, Sending
<1>4. ASSUME RaiseUnhandled(c)  PROVE Placed(c)'
  BY <1>4 DEF Placed, RaiseUnhandled, Statuses, Sending
<1>5. ASSUME Deliver(c)  PROVE Placed(c)'
  BY <1>5 DEF Placed, Deliver, Statuses, Sending
<1>6. ASSUME SendBody(c)  PROVE Placed(c)'
  BY <1>6 DEF Placed, SendBody, Log, Logs, Statuses, Sending
<1>7. ASSUME Return(c)  PROVE Placed(c)'
  BY <1>7 DEF Placed, Return, Leave, Statuses, Sending
<1>8. ASSUME Break(c)  PROVE Placed(c)'
  BY <1>8 DEF Placed, Break, Statuses, Sending
<1>9. ASSUME Deadline(c)  PROVE Placed(c)'
  BY <1>9 DEF Placed, Deadline, SendStart, MayAnswer, Statuses, Sending
<1>10. ASSUME Propagate(c)  PROVE Placed(c)'
  <2> DEFINE what == IF passed[c] THEN status[c] ELSE "error"
  <2>1. /\ place[c] = "raising" /\ place'[c] = "over" /\ kind'[c] = kind[c]
        /\ what \in Statuses
        /\ delivered'[c] = IF delivered[c] = <<>> THEN <<"error">> ELSE delivered[c]
        /\ logged'[c] = IF Logs(c) THEN Append(logged[c], what) ELSE logged[c]
    BY <1>10 DEF Propagate, Leave, Log, Statuses
  <2>2. Append(<<>>, what) = <<what>>
    BY <2>1
  <2>3. CASE delivered[c] = <<>>
    <3>1. delivered'[c] = <<"error">> /\ "error" \in Statuses
      BY <2>1, <2>3 DEF Statuses
    <3>2. kind[c] # "quiet" => logged'[c] = <<what>>
      BY <2>1, <2>2, <2>3 DEF Placed, Logs
    <3>3. passed'[c] = passed[c] /\ (passed[c] \/ what = "error")
      BY <1>10 DEF Propagate
    <3>4. QED  BY <2>1, <3>1, <3>2, <3>3 DEF Placed, Sending
  <2>4. CASE delivered[c] # <<>>
    <3>1. passed[c] /\ delivered'[c] = <<status[c]>> /\ what = status[c]
      BY <2>1, <2>4 DEF Placed
    <3>2. kind[c] # "quiet" => logged'[c] = <<status[c]>>
      BY <2>1, <2>2, <2>4, <3>1 DEF Placed, Logs
    <3>3. QED  BY <2>1, <3>1, <3>2 DEF Placed, Sending
  <2>5. QED  BY <2>3, <2>4
<1>11. Placed(c)'
  BY <1>1, <1>2, <1>3, <1>4, <1>5, <1>6, <1>7, <1>8, <1>9, <1>10 DEF PipelineStep
<1>12. ASSUME NEW d \in Requests \ {c}  PROVE Placed(d)'
  <2>1. Placed(d)
    BY DEF PipelineInv, PlaceInv
  <2>2. /\ kind'[d] = kind[d] /\ place'[d] = place[d] /\ status'[d] = status[d]
        /\ guarded'[d] = guarded[d] /\ begun'[d] = begun[d] /\ passed'[d] = passed[d]
        /\ delivered'[d] = delivered[d] /\ logged'[d] = logged[d]
    BY OthersStay
  <2>3. QED  BY ONLY <2>1, <2>2 DEF Placed
<1>13. QED
  BY <1>11, <1>12 DEF PipelineInv, PlaceInv

-----------------------------------------------------------------------------
(* The composition.                                                        *)

\* The steps that move a request through the middleware.
Moves(c) ==
    \/ Serve(c) \/ Turn(c) \/ PlaidFails(c) \/ Accept(c) \/ DispatchFails(c) \/ Expire(c)
    \/ Pass(c)

LEMMA MovesArePipeline ==
  ASSUME NEW c \in Requests, Moves(c)  PROVE PipelineStep(c)
  BY DEF Moves, Serve, Turn, PlaidFails, Accept, DispatchFails, Expire, Pass, PipelineStep

LEMMA NextIs ==
  ASSUME [Next]_vars
  PROVE  \/ \E c \in Requests : Moves(c)
         \/ \E c \in Requests : AskPlaid(c) \/ Wait(c)
         \/ \E w \in Workers : WorkerStep(w)
         \/ UNCHANGED vars
  BY DEF Next, RequestStep, Moves

LEMMA PipelineKept ==
  ASSUME PipelineInv, [Next]_vars  PROVE PipelineInv'
<1>1. ASSUME NEW c \in Requests, Moves(c)  PROVE PipelineInv'
  BY <1>1, MovesArePipeline, PipelineNextInv
<1>2. CASE UNCHANGED pipelineVars
  BY <1>2 DEF PipelineInv, PipelineTypeOK, PlaceInv, Placed, pipelineVars
<1>3. QED
  BY <1>1, <1>2, NextIs DEF AskPlaid, Wait, WorkerStep, vars

\* The types of the call and of the tasks.
TaskTypes ==
    /\ queued \subseteq Requests /\ settled \subseteq Requests
    /\ ready \in [Requests -> [Tries -> Nat]]
    /\ job \in [Workers -> Jobs]
    /\ losses \in 0 .. MaxLosses

\* The attempts of a call are counted, and a repetition is still allowed while it
\* waits to make it.
ClientInv ==
    /\ ClientTypeOK
    /\ \A c \in Calls : /\ leg[c] # "idle" => attempt[c] >= 1
                        /\ leg[c] = "backoff" => attempt[c] <= MaxRetries

LEMMA ClientStep ==
  ASSUME ClientInv, [Next]_vars  PROVE ClientInv'
<1>1. ASSUME NEW c \in Requests, AskPlaid(c)  PROVE ClientInv'
  BY <1>1 DEF ClientInv, ClientTypeOK, AskPlaid, Send, Legs
<1>2. ASSUME NEW c \in Requests, Wait(c)  PROVE ClientInv'
  BY <1>2 DEF ClientInv, ClientTypeOK, Wait, Handle, Retry, Resend, Legs
<1>3. ASSUME NEW c \in Requests, EndCall(c)  PROVE ClientInv'
  BY <1>3 DEF ClientInv, ClientTypeOK, EndCall, Legs
<1>4. ASSUME NEW c \in Requests, Moves(c)  PROVE EndCall(c) \/ UNCHANGED clientVars
  BY <1>4 DEF Moves, Serve, Turn, PlaidFails, Accept, DispatchFails, Expire, Pass,
              ReceiveOk, ReceiveRefusal, GiveUp, CutCall
<1>5. CASE UNCHANGED clientVars
  BY <1>5 DEF ClientInv, ClientTypeOK, clientVars
<1>6. QED
  BY <1>1, <1>2, <1>3, <1>4, <1>5, NextIs DEF WorkerStep, vars

LEMMA PublishTypes ==
  ASSUME TaskTypes, NEW c \in Requests, NEW n \in Tries, Publish(c, n)
  PROVE  ready' \in [Requests -> [Tries -> Nat]]
  BY DEF TaskTypes, Publish

LEMMA TaskTypeStep ==
  ASSUME TaskTypes, [Next]_vars  PROVE TaskTypes'
<1>1. 0 \in Tries
  BY DEF Tries
<1>2. ASSUME NEW c \in Requests, Moves(c)  PROVE TaskTypes'
  <2>1. \/ UNCHANGED <<queued, ready>>
        \/ queued' = queued \cup {c} /\ Publish(c, 0)
    BY <1>2 DEF Moves, Serve, Turn, PlaidFails, Accept, DispatchFails, Expire, Pass, taskVars
  <2>2. UNCHANGED <<job, losses, settled>>
    BY <1>2 DEF Moves, Serve, Turn, PlaidFails, Accept, DispatchFails, Expire, Pass, taskVars
  <2>3. ready' \in [Requests -> [Tries -> Nat]] /\ queued' \subseteq Requests
    BY <1>1, <2>1, PublishTypes DEF TaskTypes
  <2>4. QED  BY <2>2, <2>3 DEF TaskTypes
<1>3. ASSUME NEW w \in Workers, WorkerStep(w)  PROVE TaskTypes'
  <2> USE DEF TaskTypes
  <2>0. job[w] # Idle => job[w].task \in Requests /\ job[w].try \in Tries
                         /\ job[w].stage \in {"running", "ran"}
                         /\ job[w] \in [stage : {"running", "ran"}, task : Requests, try : Tries]
    BY DEF Jobs
  <2>1. CASE Take(w)
    <3>1. PICK c \in Requests, n \in Tries :
            /\ ready[c][n] > 0
            /\ ready' = [ready EXCEPT ![c][n] = @ - 1]
            /\ job' = [job EXCEPT ![w] = Holding(c, n, "running")]
      BY <2>1 DEF Take
    <3>2. Holding(c, n, "running") \in Jobs
      BY DEF Holding, Jobs
    <3>3. QED  BY <2>1, <3>1, <3>2 DEF Take
  <2>2. ASSUME Runs(w), Ran(w)  PROVE job' \in [Workers -> Jobs] /\ job[w] # Idle
    <3>1. job[w] # Idle
      BY <2>2 DEF Runs, Idle
    <3>2. [job[w] EXCEPT !.stage = "ran"] \in [stage : {"running", "ran"}, task : Requests, try : Tries]
      BY <2>0, <3>1
    <3>3. QED  BY <2>2, <3>1, <3>2 DEF Ran, Jobs
  <2>3. CASE Finish(w)
    BY <2>0, <2>2, <2>3 DEF Finish, Settle
  <2>4. CASE RunAgain(w)
    <3>1. job[w].try + 1 \in Tries /\ job[w].task \in Requests
      BY <2>0, <2>2, <2>4 DEF RunAgain, Tries
    <3>2. QED  BY <2>2, <2>4, <3>1, PublishTypes DEF RunAgain
  <2>5. CASE Acknowledge(w)
    BY <2>5 DEF Acknowledge, Jobs
  <2>6. CASE LoseWorker(w)
    BY <2>0, <2>6, PublishTypes DEF LoseWorker, Jobs
  <2>7. QED  BY <1>3, <2>1, <2>3, <2>4, <2>5, <2>6 DEF WorkerStep
<1>4. CASE UNCHANGED taskVars
  BY <1>4 DEF TaskTypes, taskVars
<1>5. QED
  BY <1>2, <1>3, <1>4, NextIs DEF AskPlaid, Wait, vars

\* Every variable of the request, the call and the tasks keeps its type.
THEOREM TypeCorrect == Spec => []TypeOK
<1> DEFINE Types == PipelineInv /\ ClientInv /\ TaskTypes
<1>1. Init => Types
  <2>1. Init => ClientInv /\ TaskTypes
    BY DEF Init, ClientInit, ClientInv, ClientTypeOK, TaskTypes, Legs, Jobs
  <2>2. QED  BY <2>1, PipelineInitInv DEF Init
<1>2. Types /\ [Next]_vars => Types'
  BY PipelineKept, ClientStep, TaskTypeStep
<1>3. Types => TypeOK
  BY DEF TypeOK, TaskTypes, PipelineInv, ClientInv
<1> HIDE DEF Types
<1>4. QED  BY <1>1, <1>2, <1>3, PTL DEF Spec

LEMMA PipelineAlways == Spec => []PipelineInv
<1>1. PipelineInv /\ [Next]_vars => PipelineInv'
  BY PipelineKept
<1>2. Init => PipelineInv
  BY PipelineInitInv DEF Init
<1>3. QED  BY <1>1, <1>2, PTL DEF Spec

\* Each request is sent one response, whenever its deadline strikes.
THEOREM SendsOneResponse == Spec => []OneResponse
<1>1. ASSUME PipelineInv, NEW c \in Requests
      PROVE  Len(delivered[c]) <= 1 /\ (place[c] = "over" => Len(delivered[c]) = 1)
  <2>1. Placed(c) /\ place[c] \in Places
    BY <1>1 DEF PipelineInv, PlaceInv, PipelineTypeOK
  <2>2. \/ delivered[c] = <<>> /\ place[c] # "over"
        \/ \E s \in Statuses : delivered[c] = <<s>>
        \/ delivered[c] = <<status[c]>>
    BY <2>1 DEF Placed, Places
  <2>3. CASE delivered[c] = <<>> /\ place[c] # "over"
    BY <2>3
  <2>4. ASSUME NEW s, delivered[c] = <<s>>  PROVE Len(delivered[c]) = 1
    BY <2>4
  <2>5. delivered[c] = <<status[c]>> => Len(delivered[c]) = 1
    BY <2>4
  <2>6. (\E s \in Statuses : delivered[c] = <<s>>) => Len(delivered[c]) = 1
    BY <2>4, Zenon
  <2>7. CASE Len(delivered[c]) = 1
    BY <2>7
  <2>8. QED  BY <2>2, <2>3, <2>5, <2>6, <2>7
<1>2. PipelineInv => OneResponse
  BY <1>1 DEF OneResponse
<1>3. QED  BY <1>2, PipelineAlways, PTL

\* Each request that is logged is logged once, with the status it was sent unless
\* the server's 500 took the place of a start that was never written.
THEOREM LogsOnce == Spec => []LoggedOnce
<1>1. ASSUME PipelineInv, NEW c \in Requests, place[c] = "over", kind[c] # "quiet"
      PROVE  /\ Len(logged[c]) = 1
             /\ logged[c] = delivered[c] \/ (passed[c] /\ delivered[c] = <<"error">>)
  <2>1. Placed(c)
    BY <1>1 DEF PipelineInv, PlaceInv
  <2>2. QED  BY <1>1, <2>1 DEF Placed
<1>2. PipelineInv => LoggedOnce
  BY <1>1 DEF LoggedOnce
<1>3. QED  BY <1>2, PipelineAlways, PTL

-----------------------------------------------------------------------------
(* What became of the task.                                                *)

\* What a request has said, or is about to say, of its task.
Told(c) ==
    /\ place[c] \in {"new", "inside"} => c \notin queued
    /\ leg[c] # "idle" => place[c] = "inside" /\ kind[c] = "import"
    /\ kind[c] = "import" =>
        /\ passed[c] /\ status[c] = "ok" => c \in queued
        /\ passed[c] /\ status[c] \in {"problem", "too_large", "deadline"} => c \notin queued
        /\ delivered[c] = <<"ok">> => c \in queued
        /\ \A s \in {"problem", "too_large", "deadline"} :
              delivered[c] = <<s>> => c \notin queued

ToldInv == \A c \in Requests : Told(c)

TaskInv == PipelineInv /\ ClientInv /\ TaskTypes /\ ToldInv

\* A step of one request leaves the others' calls where they are.
LEMMA CallsStay ==
  ASSUME ClientTypeOK, NEW c \in Requests, Moves(c) \/ AskPlaid(c) \/ Wait(c),
         NEW d \in Requests \ {c}
  PROVE  leg'[d] = leg[d] /\ attempt'[d] = attempt[d]
<1>1. EndCall(c) => leg'[d] = leg[d] /\ attempt'[d] = attempt[d]
  BY DEF EndCall, ClientTypeOK
<1>2. Moves(c) => EndCall(c) \/ UNCHANGED clientVars
  BY DEF Moves, Serve, Turn, PlaidFails, Accept, DispatchFails, Expire, Pass,
         ReceiveOk, ReceiveRefusal, GiveUp, CutCall
<1>3. AskPlaid(c) \/ Wait(c) => leg'[d] = leg[d] /\ attempt'[d] = attempt[d]
  BY DEF AskPlaid, Wait, Send, Handle, Retry, Resend, ClientTypeOK
<1>4. QED  BY <1>1, <1>2, <1>3 DEF clientVars

LEMMA ToldOthers ==
  ASSUME TaskInv, NEW c \in Requests, Moves(c) \/ AskPlaid(c) \/ Wait(c),
         NEW d \in Requests \ {c}
  PROVE  Told(d)'
<1>1. Told(d)
  BY DEF TaskInv, ToldInv
<1>2. /\ kind'[d] = kind[d] /\ place'[d] = place[d] /\ status'[d] = status[d]
      /\ passed'[d] = passed[d] /\ delivered'[d] = delivered[d]
  <2>1. CASE Moves(c)
    BY <2>1, MovesArePipeline, OthersStay DEF TaskInv, PipelineInv
  <2>2. CASE UNCHANGED pipelineVars
    BY <2>2 DEF pipelineVars
  <2>3. QED  BY <2>1, <2>2 DEF AskPlaid, Wait
<1>3. leg'[d] = leg[d]
  BY CallsStay DEF TaskInv, ClientInv
<1>4. d \in queued' <=> d \in queued
  BY DEF Moves, AskPlaid, Wait, Serve, Turn, PlaidFails, Accept, DispatchFails, Expire, Pass,
         taskVars
<1>5. QED
  BY ONLY <1>1, <1>2, <1>3, <1>4 DEF Told

LEMMA ToldStep ==
  ASSUME TaskInv, NEW c \in Requests, Moves(c) \/ AskPlaid(c) \/ Wait(c)
  PROVE  Told(c)'
<1> USE DEF PipelineTypeOK, ClientTypeOK
<1>0. Told(c) /\ Placed(c) /\ PipelineTypeOK /\ ClientTypeOK
  BY DEF TaskInv, ToldInv, PipelineInv, PlaceInv, ClientInv
<1>1. CASE Serve(c)
  BY <1>0, <1>1 DEF Serve, Respond, SendStart, RaiseUnhandled, Told, clientVars, taskVars
<1>2. CASE Turn(c)
  BY <1>0, <1>2 DEF Turn, Respond, SendStart, RaiseUnhandled, Told, Placed, clientVars,
                    taskVars
<1>3. CASE AskPlaid(c)
  BY <1>0, <1>3 DEF AskPlaid, Send, Told, pipelineVars, taskVars
<1>4. CASE Wait(c)
  BY <1>0, <1>4 DEF Wait, Handle, Retry, Resend, Told, pipelineVars, taskVars
<1>5. CASE PlaidFails(c)
  BY <1>0, <1>5 DEF PlaidFails, ReceiveRefusal, GiveUp, ReceiveOk, EndCall, Respond,
                    SendStart, Told, Placed, taskVars
<1>6. CASE Accept(c)
  BY <1>0, <1>6 DEF Accept, ReceiveOk, EndCall, Respond, SendStart, Told, Placed
<1>7. CASE DispatchFails(c)
  BY <1>0, <1>7 DEF DispatchFails, ReceiveOk, EndCall, RaiseUnhandled, Told, Placed
<1>8. CASE Expire(c)
  <2>1. Deadline(c) /\ queued' = queued
    BY <1>8 DEF Expire, taskVars
  <2>2. leg'[c] = "idle"
    BY <1>0, <1>8 DEF Expire, CutCall, EndCall, clientVars, Legs
  <2>3. CASE MayAnswer(c)
    <3>1. place[c] = "inside"
      BY <1>0, <2>1, <2>3 DEF Deadline, MayAnswer, Placed, Sending
    <3>2. QED  BY <1>0, <2>1, <2>2, <2>3, <3>1 DEF Deadline, SendStart, Told, Placed
  <2>4. CASE ~MayAnswer(c)
    BY <1>0, <2>1, <2>2, <2>4 DEF Deadline, Told
  <2>5. QED  BY <2>3, <2>4
<1>9. CASE Pass(c)
  <2>1. queued' = queued /\ leg' = leg
    BY <1>9 DEF Pass, taskVars, clientVars
  <2>2. CASE Arrive(c) \/ ArriveTooLarge(c)
    <3>1. /\ place[c] = "new" /\ c \notin queued /\ leg[c] = "idle"
          /\ delivered[c] = <<>> /\ ~passed[c]
      BY <1>0, <2>2 DEF Arrive, ArriveTooLarge, Told, Placed
    <3>2. delivered'[c] = <<>> /\ leg'[c] = "idle" /\ c \notin queued'
      BY <2>1, <2>2, <3>1 DEF Arrive, ArriveTooLarge
    <3>3. \/ place'[c] = "inside" /\ ~passed'[c]
          \/ place'[c] = "starting" /\ status'[c] = "too_large"
      BY <1>0, <2>2, <3>1 DEF Arrive, ArriveTooLarge, SendStart
    <3>4. QED  BY ONLY <3>2, <3>3 DEF Told
  <2>3. CASE Deliver(c)
    BY <1>0, <2>1, <2>3 DEF Deliver, Told, Placed, Sending
  <2>4. CASE SendBody(c) \/ Break(c)
    BY <1>0, <2>1, <2>4 DEF SendBody, Break, Told
  <2>5. CASE Return(c)
    BY <1>0, <2>1, <2>5 DEF Return, Leave, Told
  <2>6. CASE Propagate(c)
    BY <1>0, <2>1, <2>6 DEF Propagate, Leave, Told
  <2>7. QED  BY <1>9, <2>2, <2>3, <2>4, <2>5, <2>6 DEF Pass
<1>10. QED
  BY <1>1, <1>2, <1>3, <1>4, <1>5, <1>6, <1>7, <1>8, <1>9 DEF Moves

LEMMA TaskNextInv ==
  ASSUME TaskInv, [Next]_vars  PROVE TaskInv'
<1>1. PipelineInv' /\ ClientInv' /\ TaskTypes'
  BY PipelineKept, ClientStep, TaskTypeStep DEF TaskInv
<1>2. ASSUME NEW c \in Requests, Moves(c) \/ AskPlaid(c) \/ Wait(c)  PROVE ToldInv'
  BY <1>2, ToldStep, ToldOthers DEF ToldInv
<1>3. ASSUME UNCHANGED <<pipelineVars, clientVars, queued>>  PROVE ToldInv'
  BY <1>3 DEF TaskInv, ToldInv, Told, pipelineVars, clientVars
<1>4. ToldInv'
  BY <1>2, <1>3, NextIs DEF WorkerStep, Take, Finish, RunAgain, Acknowledge, LoseWorker,
                            vars, taskVars
<1>5. QED  BY <1>1, <1>4 DEF TaskInv

LEMMA TaskAlways == Spec => []TaskInv
<1>1. Init => TaskInv
  <2>1. Init => ClientInv /\ TaskTypes /\ ToldInv
    BY DEF Init, PipelineInit, ClientInit, ClientInv, ClientTypeOK, TaskTypes, Legs, Jobs,
           ToldInv, Told
  <2>2. QED  BY <2>1, PipelineInitInv DEF Init, TaskInv
<1>2. TaskInv /\ [Next]_vars => TaskInv'
  BY TaskNextInv
<1>3. QED  BY <1>1, <1>2, PTL DEF Spec

\* Except for a 500, an import's answer tells whether its task was queued.
THEOREM AnswersTell == Spec => []AnswerTellsWhetherQueued
<1>1. ASSUME TaskInv, NEW c \in Requests, kind[c] = "import", delivered[c] # <<>>
      PROVE  /\ delivered[c] = <<"ok">> => c \in queued
             /\ delivered[c] # <<"ok">> /\ delivered[c] # <<"error">> => c \notin queued
  <2>1. Told(c) /\ Placed(c) /\ place[c] \in Places /\ status[c] \in Statuses
    BY <1>1 DEF TaskInv, ToldInv, PipelineInv, PipelineTypeOK, PlaceInv
  <2>2. \E s \in Statuses : delivered[c] = <<s>>
    BY <1>1, <2>1 DEF Placed, Places
  <2>3. QED  BY <1>1, <2>1, <2>2 DEF Told, Statuses
<1>2. TaskInv => AnswerTellsWhetherQueued
  BY <1>1 DEF AnswerTellsWhetherQueued
<1>3. QED  BY <1>2, TaskAlways, PTL

\* The message of a task that is not settled is somewhere.
Kept(c) ==
    \/ c \in settled
    \/ \E n \in Tries : ready[c][n] > 0
    \/ \E w \in Workers : Runs(w) /\ job[w].task = c

LEMMA PublishKeeps ==
  ASSUME TaskTypes, NEW c \in Requests, NEW n \in Tries, Publish(c, n)
  PROVE  /\ ready'[c][n] > 0
         /\ \A d \in Requests, k \in Tries : ready[d][k] > 0 => ready'[d][k] > 0
  BY DEF TaskTypes, Publish

LEMMA KeptStep ==
  ASSUME TaskInv, AcceptedNotLost, [Next]_vars  PROVE AcceptedNotLost'
<1> USE DEF TaskTypes
<1>0. TaskTypes /\ 0 \in Tries /\ \A c \in queued : Kept(c)
  BY DEF TaskInv, AcceptedNotLost, Kept, Tries
<1>1. ASSUME NEW c \in Requests, Moves(c)  PROVE \A d \in queued' : Kept(d)'
  <2>1. UNCHANGED <<job, settled>>
    BY <1>1 DEF Moves, Serve, Turn, PlaidFails, Accept, DispatchFails, Expire, Pass, taskVars
  <2>2. CASE UNCHANGED <<queued, ready>>
    BY <1>0, <2>1, <2>2 DEF Kept, Runs
  <2>3. CASE queued' = queued \cup {c} /\ Publish(c, 0)
    BY <1>0, <2>1, <2>3, PublishKeeps DEF Kept, Runs
  <2>4. QED
    BY <1>1, <2>2, <2>3 DEF Moves, Serve, Turn, PlaidFails, Accept, DispatchFails, Expire,
                            Pass, taskVars
<1>2. ASSUME NEW w \in Workers, WorkerStep(w), NEW d \in queued  PROVE Kept(d)'
  <2>0. d \in Requests /\ Kept(d)
    BY <1>0
  <2>1. job[w] # Idle => job[w].task \in Requests /\ job[w].try \in Tries
    BY <1>0 DEF Jobs
  <2>2. Runs(w) => job[w] # Idle
    BY DEF Runs, Idle
  <2>3. CASE Take(w)
    <3>1. PICK c \in Requests, n \in Tries :
            /\ job[w] = Idle
            /\ ready[c][n] > 0
            /\ ready' = [ready EXCEPT ![c][n] = @ - 1]
            /\ job' = [job EXCEPT ![w] = Holding(c, n, "running")]
            /\ settled' = settled
      BY <2>3 DEF Take
    <3>2. job'[w].stage = "running" /\ job'[w].task = c
      BY <1>0, <3>1 DEF Holding
    <3>3. CASE d = c
      BY <3>2, <3>3 DEF Kept, Runs
    <3>4. CASE d # c
      <4>1. ready'[d] = ready[d]
        BY <1>0, <2>0, <3>1, <3>4
      <4>2. \A v \in Workers : Runs(v) => job'[v] = job[v]
        BY <1>0, <2>2, <3>1
      <4>3. QED  BY <2>0, <3>1, <4>1, <4>2 DEF Kept, Runs
    <3>5. QED  BY <3>3, <3>4
  <2>4. CASE Finish(w)
    <3>1. /\ ready' = ready /\ settled' = settled \cup {job[w].task}
          /\ \A v \in Workers \ {w} : job'[v] = job[v]
      BY <1>0, <2>4 DEF Finish, Ran, Settle
    <3>2. QED  BY <2>0, <3>1 DEF Kept, Runs
  <2>5. CASE RunAgain(w)
    <3>1. /\ settled' = settled /\ job[w].try + 1 \in Tries /\ job[w].task \in Requests
          /\ Publish(job[w].task, job[w].try + 1)
          /\ \A v \in Workers \ {w} : job'[v] = job[v]
      BY <1>0, <2>1, <2>2, <2>5 DEF RunAgain, Ran, Tries
    <3>2. CASE d = job[w].task
      BY <1>0, <3>1, <3>2, PublishKeeps DEF Kept
    <3>3. CASE d # job[w].task
      BY <1>0, <2>0, <3>1, <3>3, PublishKeeps DEF Kept, Runs
    <3>4. QED  BY <3>2, <3>3
  <2>6. CASE Acknowledge(w)
    <3>1. /\ ready' = ready /\ settled' = settled /\ ~Runs(w)
          /\ \A v \in Workers \ {w} : job'[v] = job[v]
      BY <1>0, <2>6 DEF Acknowledge, Runs
    <3>2. QED  BY <2>0, <3>1 DEF Kept, Runs
  <2>7. CASE LoseWorker(w)
    <3>1. /\ settled' = settled /\ job[w].try \in Tries /\ job[w].task \in Requests
          /\ Publish(job[w].task, job[w].try)
          /\ \A v \in Workers \ {w} : job'[v] = job[v]
      BY <1>0, <2>1, <2>7 DEF LoseWorker
    <3>2. CASE d = job[w].task
      BY <1>0, <3>1, <3>2, PublishKeeps DEF Kept
    <3>3. CASE d # job[w].task
      BY <1>0, <2>0, <3>1, <3>3, PublishKeeps DEF Kept, Runs
    <3>4. QED  BY <3>2, <3>3
  <2>8. QED  BY <1>2, <2>3, <2>4, <2>5, <2>6, <2>7 DEF WorkerStep
<1>3. CASE UNCHANGED taskVars
  BY <1>0, <1>3 DEF taskVars, Kept, Runs, AcceptedNotLost
<1>4. (\E w \in Workers : WorkerStep(w)) => queued' = queued
  BY DEF WorkerStep, Take, Finish, RunAgain, Acknowledge, LoseWorker
<1>5. QED
  BY <1>1, <1>2, <1>3, <1>4, NextIs DEF AskPlaid, Wait, vars, AcceptedNotLost, Kept

\* No queued task is lost, whichever worker dies at whatever step.
THEOREM NothingAcceptedIsLost == Spec => []AcceptedNotLost
<1>1. Init => AcceptedNotLost
  BY DEF Init, AcceptedNotLost
<1>2. TaskInv /\ AcceptedNotLost /\ [Next]_vars => AcceptedNotLost'
  BY KeptStep
<1>3. QED  BY <1>1, <1>2, TaskAlways, PTL DEF Spec

-----------------------------------------------------------------------------
(* The parts of the composition, each as it is by itself.                  *)

PipelineSpec == PipelineInit /\ [][\E c \in Requests : PipelineStep(c)]_pipelineVars

ClientMove(c) ==
    \/ Send(c) \/ Handle(c) \/ ReceiveOk(c) \/ ReceiveRefusal(c) \/ Retry(c) \/ GiveUp(c)
    \/ Resend(c) \/ CutCall(c)
ClientSpec == ClientInit /\ [][\E c \in Calls : ClientMove(c)]_clientVars

\* Nothing an import does with Plaid or the broker takes a request through the
\* middleware in a way that the middleware does not know by itself ...
THEOREM ImportUsesPipeline == Spec => PipelineSpec
<1>1. Init => PipelineInit
  BY DEF Init
<1>2. [Next]_vars => [\E c \in Requests : PipelineStep(c)]_pipelineVars
  BY NextIs, MovesArePipeline DEF AskPlaid, Wait, WorkerStep, vars
<1> QED
  BY <1>1, <1>2, PTL DEF Spec, PipelineSpec

\* ... and whatever becomes of the request, its call to Plaid is one of the HTTP
\* client's.
THEOREM ImportUsesClient == Spec => ClientSpec
<1>1. Init => ClientInit
  BY DEF Init
<1>2. ASSUME NEW c \in Requests, Moves(c) \/ AskPlaid(c) \/ Wait(c)
      PROVE  ClientMove(c) \/ UNCHANGED clientVars
  BY <1>2 DEF Moves, Serve, Turn, PlaidFails, Accept, DispatchFails, Expire, Pass,
              AskPlaid, Wait, ClientMove
<1>3. [Next]_vars => [\E c \in Calls : ClientMove(c)]_clientVars
  BY <1>2, NextIs DEF WorkerStep, vars
<1> QED
  BY <1>1, <1>3, PTL DEF Spec, ClientSpec

-----------------------------------------------------------------------------
(* How far a request is from its end.                                      *)

\* The steps of a call, and those c's has behind it.
CallSteps == 3 * MaxRetries + 2
CallStepsGone(c) ==
    CASE leg[c] = "idle" -> 0
      [] leg[c] = "sent" -> 3 * attempt[c] - 2
      [] leg[c] = "handled" -> 3 * attempt[c] - 1
      [] leg[c] = "backoff" -> 3 * attempt[c]

StepsLeft(c) ==
    CASE place[c] = "new" -> CallSteps + 6
      [] place[c] = "inside" -> CallSteps + 5 - CallStepsGone(c)
      [] place[c] = "starting" -> 4
      [] place[c] = "body" -> 3
      [] place[c] = "tail" -> 2
      [] place[c] = "raising" -> 1
      [] place[c] = "over" -> 0

\* Every step of a request takes it nearer to its end, also a repetition of its
\* call to Plaid and an exception after its response, and nobody else's step
\* takes it away from there.
EveryStepCounts ==
    [][\A c \in Requests : /\ StepsLeft(c)' <= StepsLeft(c)
                           /\ RequestStep(c) => StepsLeft(c)' < StepsLeft(c)]_vars
StepsBounded == \A c \in Requests : StepsLeft(c) \in 0 .. 3 * MaxRetries + 8

LEMMA CallIsBehind ==
  ASSUME TaskInv, NEW c \in Requests
  PROVE  /\ CallStepsGone(c) \in 0 .. CallSteps
         /\ place[c] # "inside" => leg[c] = "idle"
<1>0. leg[c] # "idle" => place[c] = "inside"
  BY DEF TaskInv, ToldInv, Told
<1>1. /\ leg[c] \in Legs /\ attempt[c] \in 0 .. MaxRetries + 1
      /\ leg[c] # "idle" => attempt[c] >= 1
      /\ leg[c] = "backoff" => attempt[c] <= MaxRetries
  BY DEF TaskInv, ClientInv, ClientTypeOK
<1>2. attempt[c] \in Nat /\ attempt[c] <= MaxRetries + 1
  BY <1>1
<1>3. CASE leg[c] = "idle"
  BY <1>0, <1>3 DEF CallStepsGone, CallSteps
<1>4. CASE leg[c] \in {"sent", "handled"}
  <2>1. CallStepsGone(c) \in {3 * attempt[c] - 2, 3 * attempt[c] - 1}
    BY <1>4 DEF CallStepsGone
  <2>2. QED  BY <1>0, <1>1, <1>2, <1>4, <2>1 DEF CallSteps
<1>5. CASE leg[c] = "backoff"
  <2>1. CallStepsGone(c) = 3 * attempt[c]
    BY <1>5 DEF CallStepsGone
  <2>2. QED  BY <1>0, <1>1, <1>2, <1>5, <2>1 DEF CallSteps
<1>6. QED  BY <1>1, <1>3, <1>4, <1>5 DEF Legs

LEMMA StepsLeftType ==
  ASSUME TaskInv, NEW c \in Requests
  PROVE  StepsLeft(c) \in 0 .. 3 * MaxRetries + 8
<1>1. place[c] \in Places
  BY DEF TaskInv, PipelineInv, PipelineTypeOK
<1>2. QED  BY <1>1, CallIsBehind DEF StepsLeft, CallSteps, Places

LEMMA OwnStepCounts ==
  ASSUME TaskInv, NEW c \in Requests, RequestStep(c)
  PROVE  StepsLeft(c)' < StepsLeft(c) /\ StepsLeft(c)' <= StepsLeft(c)
<1>1. /\ leg[c] \in Legs /\ attempt[c] \in 0 .. MaxRetries + 1
      /\ place[c] \in Places /\ Placed(c) /\ Told(c)
      /\ leg \in [Calls -> Legs] /\ attempt \in [Calls -> 0 .. MaxRetries + 1]
      /\ place \in [Requests -> Places]
  BY DEF TaskInv, ClientInv, ClientTypeOK, PipelineInv, PipelineTypeOK, PlaceInv, ToldInv
<1>2. CASE AskPlaid(c)
  <2>1. place[c] = "inside" /\ place'[c] = "inside"
    BY <1>2 DEF AskPlaid, pipelineVars
  <2>2. leg[c] = "idle" /\ leg'[c] = "sent" /\ attempt'[c] = 1
    BY <1>1, <1>2 DEF AskPlaid, Send
  <2>3. QED  BY <2>1, <2>2 DEF StepsLeft, CallSteps, CallStepsGone
<1>3. CASE Wait(c)
  <2>1. place[c] = "inside" /\ place'[c] = "inside"
    BY <1>1, <1>3 DEF Wait, Handle, Retry, Resend, Told, pipelineVars
  <2>2. CASE Handle(c) \/ Retry(c)
    <3>1. /\ attempt'[c] = attempt[c]
          /\ \/ leg[c] = "sent" /\ leg'[c] \in {"handled", "backoff"}
             \/ leg[c] = "handled" /\ leg'[c] = "backoff"
      BY <1>1, <2>2 DEF Handle, Retry
    <3>2. QED  BY <1>1, <2>1, <3>1 DEF StepsLeft, CallSteps, CallStepsGone
  <2>3. CASE Resend(c)
    <3>1. attempt'[c] = attempt[c] + 1 /\ leg[c] = "backoff" /\ leg'[c] = "sent"
      BY <1>1, <2>3 DEF Resend
    <3>2. QED  BY <1>1, <2>1, <3>1 DEF StepsLeft, CallSteps, CallStepsGone
  <2>4. QED  BY <1>3, <2>2, <2>3 DEF Wait
<1>4. CASE Moves(c)
  <2>1. PipelineStep(c)
    BY <1>4, MovesArePipeline
  <2>2. \/ place[c] = "new" /\ place'[c] = "inside" /\ leg'[c] = "idle"
        \/ place[c] = "new" /\ place'[c] = "starting"
        \/ place[c] = "inside" /\ place'[c] \in {"starting", "raising"}
        \/ place[c] = "starting" /\ place'[c] \in {"body", "raising"}
        \/ place[c] = "body" /\ place'[c] \in {"tail", "raising"}
        \/ place[c] = "tail" /\ place'[c] \in {"raising", "over"}
        \/ place[c] = "raising" /\ place'[c] = "over"
    <3>1. CASE Arrive(c)
      <4>1. place[c] = "new" /\ place'[c] = "inside"
        BY <1>1, <3>1 DEF Arrive
      <4>2. leg[c] = "idle"
        BY <1>1, <4>1 DEF Told
      <4>3. leg'[c] = "idle"
        BY <1>1, <1>4, <4>2 DEF Moves, Serve, Turn, PlaidFails, Accept, DispatchFails,
             Expire, Pass, ReceiveOk, ReceiveRefusal, GiveUp, CutCall, EndCall, clientVars
      <4>4. QED  BY <4>1, <4>3
    <3>2. CASE ArriveTooLarge(c)
      BY <1>1, <3>2 DEF ArriveTooLarge, SendStart
    <3>3. ASSUME NEW s \in {"ok", "problem"}, Respond(c, s)
          PROVE  place[c] = "inside" /\ place'[c] = "starting"
      BY <1>1, <3>3 DEF Respond, SendStart
    <3>4. CASE RaiseUnhandled(c) \/ Deliver(c) \/ SendBody(c) \/ Break(c)
      BY <1>1, <3>4 DEF RaiseUnhandled, Deliver, SendBody, Break
    <3>5. CASE Return(c) \/ Propagate(c)
      BY <1>1, <3>5 DEF Return, Propagate, Leave
    <3>6. CASE Deadline(c)
      <4>1. MayAnswer(c) => place[c] = "inside"
        BY <1>1, <3>6 DEF Deadline, MayAnswer, Placed, Sending
      <4>2. QED  BY <1>1, <3>6, <4>1 DEF Deadline, SendStart
    <3>7. QED  BY <2>1, <3>1, <3>2, <3>3, <3>4, <3>5, <3>6 DEF PipelineStep
  <2>3. CallStepsGone(c) \in 0 .. CallSteps /\ CallSteps \in Nat
    BY CallIsBehind DEF CallSteps
  <2>4. CASE place'[c] = "inside"
    <3>1. StepsLeft(c) = CallSteps + 6 /\ StepsLeft(c)' = CallSteps + 5
      BY <2>2, <2>3, <2>4 DEF StepsLeft, CallStepsGone, CallSteps
    <3>2. QED  BY <2>3, <3>1
  <2>5. CASE place'[c] # "inside"
    <3>1. StepsLeft(c)' \in 0 .. 4 /\ StepsLeft(c) \in Int
      BY <2>2, <2>3, <2>5 DEF StepsLeft
    <3>2. place[c] \in {"new", "inside"} => StepsLeft(c) >= 5
      BY <2>3 DEF StepsLeft
    <3>3. QED  BY <2>2, <2>5, <3>1, <3>2 DEF StepsLeft
  <2>6. QED  BY <2>4, <2>5
<1>5. QED
  BY <1>2, <1>3, <1>4 DEF RequestStep, Moves

LEMMA OthersStepsLeft ==
  ASSUME TaskInv, [Next]_vars, NEW c \in Requests, ~RequestStep(c)
  PROVE  StepsLeft(c)' = StepsLeft(c)
<1>1. ASSUME NEW d \in Requests \ {c}, RequestStep(d)
      PROVE  /\ place'[c] = place[c]
             /\ leg'[c] = leg[c] /\ attempt'[c] = attempt[c]
  <2>1. Moves(d) \/ AskPlaid(d) \/ Wait(d)
    BY <1>1 DEF RequestStep, Moves
  <2>2. leg'[c] = leg[c] /\ attempt'[c] = attempt[c]
    BY <2>1, CallsStay DEF TaskInv, ClientInv
  <2>3. place'[c] = place[c]
    BY <2>1, MovesArePipeline, OthersStay
       DEF TaskInv, PipelineInv, AskPlaid, Wait, pipelineVars
  <2>4. QED  BY <2>2, <2>3
<1>2. CASE UNCHANGED <<pipelineVars, clientVars>>
  BY <1>2 DEF pipelineVars, clientVars, StepsLeft, CallStepsGone
<1>3. CASE \E d \in Requests \ {c} : RequestStep(d)
  BY <1>1, <1>3 DEF StepsLeft, CallStepsGone
<1>4. QED
  BY <1>2, <1>3 DEF Next, WorkerStep, vars

\* The repetitions of a failing call, the deadline and exceptions in whatever
\* order: every step takes a request nearer to its end ...
THEOREM RequestsGetOn == Spec => EveryStepCounts
<1>1. ASSUME TaskInv, [Next]_vars, NEW c \in Requests
      PROVE  /\ StepsLeft(c)' <= StepsLeft(c)
             /\ RequestStep(c) => StepsLeft(c)' < StepsLeft(c)
  <2>1. StepsLeft(c) \in Int
    BY <1>1, StepsLeftType
  <2>2. QED  BY <1>1, <2>1, OwnStepCounts, OthersStepsLeft
<1>2. TaskInv /\ [Next]_vars =>
        [\A c \in Requests : /\ StepsLeft(c)' <= StepsLeft(c)
                             /\ RequestStep(c) => StepsLeft(c)' < StepsLeft(c)]_vars
  BY <1>1
<1>3. QED  BY <1>2, TaskAlways, PTL DEF Spec, EveryStepCounts

\* ... which is at most eight steps away, and three for each repetition.
THEOREM RequestsAreShort == Spec => []StepsBounded
<1>1. TaskInv => StepsBounded
  BY StepsLeftType DEF StepsBounded
<1>2. QED  BY <1>1, TaskAlways, PTL
=============================================================================
