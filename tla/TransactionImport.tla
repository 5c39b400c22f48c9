------------------------- MODULE TransactionImport -------------------------
(***************************************************************************)
(* The import of transactions, pfm/app/api/transactions.py and             *)
(* services/transactions.py: a request (RequestPipeline) that asks Plaid   *)
(* (HttpClient) and hands a task to the broker, and the worker's side of   *)
(* the task, workers/base.py under the settings of workers/celery_app.py:  *)
(* a message is acknowledged after its task has run, a lost worker gives   *)
(* it back, and a task that fails is published again with one try more.    *)
(*                                                                         *)
(* dispatch_task does not await: from Plaid's answer to the start of the   *)
(* response nothing can cut the request short.                             *)
(***************************************************************************)
EXTENDS RequestPipeline, HttpClient

CONSTANTS
    Workers,
    MaxTaskRetries,  \* BaseTask.max_retries
    MaxLosses        \* bound on the workers lost

ASSUME ImportAssumption ==
    /\ MaxTaskRetries \in Nat /\ MaxLosses \in Nat
    /\ Calls = Requests
    /\ Kinds \in [Requests -> SUBSET {"quiet", "plain", "import"}]

VARIABLES
    queued,     \* the requests whose task the broker has accepted
    ready,      \* ready[c][n]: messages in the queue for c's task with n retries
    job,        \* job[w]: the message worker w holds
    losses,     \* how many workers were lost
    settled     \* the tasks that completed, failed for good, or could not be
                \* published again

taskVars == <<queued, ready, job, losses, settled>>
vars == <<pipelineVars, clientVars, taskVars>>

Tries == 0 .. MaxTaskRetries
Idle == [stage |-> "idle"]
Holding(c, n, s) == [stage |-> s, task |-> c, try |-> n]
Jobs == {Idle} \cup [stage : {"running", "ran"}, task : Requests, try : Tries]

-----------------------------------------------------------------------------
Init ==
    /\ PipelineInit /\ ClientInit
    /\ queued = {} /\ settled = {}
    /\ ready = [c \in Requests |-> [n \in Tries |-> 0]]
    /\ job = [w \in Workers |-> Idle]
    /\ losses = 0

Publish(c, n) == ready' = [ready EXCEPT ![c][n] = @ + 1]

-----------------------------------------------------------------------------
(* The request.                                                            *)

\* A request that is no import is answered, or raises.
Serve(c) ==
    /\ kind[c] # "import"
    /\ (\E s \in {"ok", "problem"} : Respond(c, s)) \/ RaiseUnhandled(c)
    /\ UNCHANGED <<clientVars, taskVars>>

\* The import is refused before Plaid is asked: no key, no user, no scope, over
\* the rate limit, a body that is not valid.
Turn(c) ==
    /\ kind[c] = "import" /\ leg[c] = "idle"
    /\ Respond(c, "problem") \/ RaiseUnhandled(c)
    /\ UNCHANGED <<clientVars, taskVars>>

AskPlaid(c) ==
    /\ kind[c] = "import" /\ place[c] = "inside"
    /\ Send(c)
    /\ UNCHANGED <<pipelineVars, taskVars>>

Wait(c) ==
    /\ Handle(c) \/ Retry(c) \/ Resend(c)
    /\ UNCHANGED <<pipelineVars, taskVars>>

\* Plaid's answer is an error, or not what was expected.
PlaidFails(c) ==
    /\ ReceiveRefusal(c) \/ GiveUp(c) \/ ReceiveOk(c)
    /\ Respond(c, "problem")
    /\ UNCHANGED taskVars

\* Bug: the request waits between the dispatch and its answer.
AcceptAndWait(c) ==
    /\ ReceiveOk(c)
    /\ queued' = queued \cup {c} /\ Publish(c, 0)
    /\ UNCHANGED <<pipelineVars, job, losses, settled>>
\* Plaid's answer is good, the task is queued, and the answer is 202.
Accept(c) ==
    /\ ReceiveOk(c)
    /\ queued' = queued \cup {c} /\ Publish(c, 0)
    /\ Respond(c, "ok")
    /\ UNCHANGED <<job, losses, settled>>

\* The broker does not answer: the task may or may not be queued.
DispatchFails(c) ==
    /\ ReceiveOk(c)
    /\ \/ queued' = queued \cup {c} /\ Publish(c, 0)
       \/ UNCHANGED <<queued, ready>>
    /\ RaiseUnhandled(c)
    /\ UNCHANGED <<job, losses, settled>>

\* The deadline cancels whatever the request waits for.
Expire(c) ==
    /\ Deadline(c)
    /\ IF leg[c] \in {"sent", "handled", "backoff"} THEN CutCall(c)
       ELSE UNCHANGED clientVars
    /\ UNCHANGED taskVars

Pass(c) ==
    /\ \/ Arrive(c) \/ ArriveTooLarge(c) \/ Deliver(c) \/ SendBody(c) \/ Return(c)
       \/ Break(c) \/ Propagate(c)
    /\ UNCHANGED <<clientVars, taskVars>>

-----------------------------------------------------------------------------
(* The workers.                                                            *)

Take(w) ==
    /\ job[w] = Idle
    /\ \E c \in Requests, n \in Tries :
        /\ ready[c][n] > 0
        /\ ready' = [ready EXCEPT ![c][n] = @ - 1]
        /\ job' = [job EXCEPT ![w] = Holding(c, n, "running")]
    /\ UNCHANGED <<queued, losses, settled>>

Runs(w) == job[w].stage = "running"
Ran(w) == job' = [job EXCEPT ![w].stage = "ran"]
Settle(w) == settled' = settled \cup {job[w].task}

\* The task returns, or fails with its retries exhausted, or fails and cannot be
\* published again: the message is then rejected.
Finish(w) ==
    /\ Runs(w)
    /\ Ran(w) /\ Settle(w)
    /\ UNCHANGED <<queued, ready, losses>>

\* Bug: the number of retries is not passed on.
RunAgainUncounted(w) ==
    /\ Runs(w) /\ job[w].try < MaxTaskRetries
    /\ Ran(w) /\ Publish(job[w].task, job[w].try)
    /\ UNCHANGED <<queued, losses, settled>>
\* The task fails: it is published again before this message is acknowledged.
RunAgain(w) ==
    /\ Runs(w) /\ job[w].try < MaxTaskRetries
    /\ Ran(w) /\ Publish(job[w].task, job[w].try + 1)
    /\ UNCHANGED <<queued, losses, settled>>

Acknowledge(w) ==
    /\ job[w].stage = "ran"
    /\ job' = [job EXCEPT ![w] = Idle]
    /\ UNCHANGED <<queued, ready, losses, settled>>

\* Bug: messages are acknowledged when they are taken (task_acks_late unset).
LoseWorkerAcked(w) ==
    /\ job[w] # Idle /\ losses < MaxLosses
    /\ job' = [job EXCEPT ![w] = Idle]
    /\ losses' = losses + 1
    /\ UNCHANGED <<queued, ready, settled>>
\* The worker dies: what it has not acknowledged is delivered again
\* (task_reject_on_worker_lost).
LoseWorker(w) ==
    /\ job[w] # Idle /\ losses < MaxLosses
    /\ Publish(job[w].task, job[w].try)
    /\ job' = [job EXCEPT ![w] = Idle]
    /\ losses' = losses + 1
    /\ UNCHANGED <<queued, settled>>

-----------------------------------------------------------------------------
RequestStep(c) ==
    \/ Serve(c) \/ Turn(c) \/ AskPlaid(c) \/ Wait(c) \/ PlaidFails(c) \/ Accept(c)
    \/ DispatchFails(c) \/ Expire(c) \/ Pass(c)

WorkerStep(w) ==
    /\ Take(w) \/ Finish(w) \/ RunAgain(w) \/ Acknowledge(w) \/ LoseWorker(w)
    /\ UNCHANGED <<pipelineVars, clientVars>>

Next == (\E c \in Requests : RequestStep(c)) \/ (\E w \in Workers : WorkerStep(w))

Spec == Init /\ [][Next]_vars

\* A coroutine that can run is run, the server writes, Plaid answers or times
\* out, and an idle worker takes a message and works on it.  Neither the deadline
\* nor a loss is counted on.
RequestProgress(c) ==
    \/ Serve(c) \/ Turn(c) \/ AskPlaid(c) \/ Wait(c) \/ PlaidFails(c) \/ Accept(c)
    \/ DispatchFails(c)
    \/ (Deliver(c) \/ SendBody(c) \/ Return(c) \/ Propagate(c))
         /\ UNCHANGED <<clientVars, taskVars>>
WorkerProgress(w) ==
    /\ Take(w) \/ Finish(w) \/ RunAgain(w) \/ Acknowledge(w)
    /\ UNCHANGED <<pipelineVars, clientVars>>
FairSpec ==
    /\ Spec
    /\ \A c \in Requests : WF_vars(RequestProgress(c))
    /\ \A w \in Workers : WF_vars(WorkerProgress(w))

-----------------------------------------------------------------------------
TypeOK ==
    /\ PipelineTypeOK /\ ClientTypeOK
    /\ queued \subseteq Requests /\ settled \subseteq Requests
    /\ ready \in [Requests -> [Tries -> Nat]]
    /\ job \in [Workers -> Jobs]
    /\ losses \in 0 .. MaxLosses

\* An import's answer tells whether its task was queued: with 202 it was, with a
\* problem, 413 or the 503 of the deadline it was not and the client may send it
\* again.  Only a 500, or a connection cut off, leaves it open
\* (TransactionImportService.import_transactions: no await after dispatch_task).
AnswerTellsWhetherQueued ==
    \A c \in Requests : kind[c] = "import" /\ delivered[c] # <<>> =>
        /\ delivered[c] = <<"ok">> => c \in queued
        /\ delivered[c] # <<"ok">> /\ delivered[c] # <<"error">> => c \notin queued

\* A queued task is never lost: it is settled, or a message for it is in the
\* queue or in the hands of a worker who has not settled it, also when the
\* worker dies between publishing a retry and acknowledging.
AcceptedNotLost ==
    \A c \in queued :
        \/ c \in settled
        \/ \E n \in Tries : ready[c][n] > 0
        \/ \E w \in Workers : Runs(w) /\ job[w].task = c

\* Every queued task is settled in the end, however its tries fail.
AcceptedIsSettled == \A c \in Requests : (c \in queued) ~> (c \in settled)

\* Every request is answered, even if the deadline never strikes: the repetitions
\* of a failing call to Plaid come to an end.
EveryRequestEnds == \A c \in Requests : (place[c] # "new") ~> (place[c] = "over")
=============================================================================
