---------------------------- MODULE Idempotency ----------------------------
(***************************************************************************)
(* The idempotency executor of pfm/app/core/idempotency.py, for ONE        *)
(* (scope, idempotency_key) pair: the database row of that key, the        *)
(* requests that carry it, their lease-renewal tasks, and the periodic     *)
(* cleanup job.  Keys share nothing but the table, so one key is the unit. *)
(*                                                                         *)
(* The store is PostgreSQL at READ COMMITTED without SELECT ... FOR UPDATE *)
(* and without a version column.  Every transaction of the code is one     *)
(* SELECT followed, after at least one await, by at most one INSERT,       *)
(* UPDATE or DELETE, and a commit.  The SELECT is one action here and the  *)
(* write with its commit another: the row lock a write takes makes other   *)
(* writers wait for the commit, and readers see the old row until then.    *)
(* UPDATE and DELETE name the row by its id only; the ORM raises when an   *)
(* UPDATE finds no row and only warns when a DELETE finds none.            *)
(***************************************************************************)
EXTENDS Naturals

CONSTANTS
    Requests,      \* HTTP attempts with this key (a client's retry is a new one)
    Payload,       \* Payload[r]: the fingerprint of r's method, path, query, body
    Faulty,        \* the requests that may be cancelled, crash, or lose the database
    Punctual,      \* TRUE: a live request acts and renews before its lease runs out
    Lease,         \* processing_lease_seconds
    Retention,     \* retention_seconds
    MaxTime,       \* bound on the clock
    None           \* SQL NULL / Python None

ASSUME ConstantsAssumption ==
    /\ None \notin Requests
    /\ Faulty \subseteq Requests
    /\ Punctual \in BOOLEAN
    /\ Lease \in Nat \ {0}
    /\ Retention \in Nat \ {0}
    /\ MaxTime \in Nat

VARIABLES
    now,           \* the clock every process reads with _utcnow()
    row,           \* the key's row of idempotency_requests, NoRow when absent
    pc,            \* pc[r]: the next step of request r
    stamp,         \* stamp[r]: lease_expires_at, computed once per _claim_request
    seen,          \* seen[r]: `now` of r's last claim SELECT, of which the retention
                   \* of the row it claims is counted
    snap,          \* snap[r]: the columns later steps use of r's last SELECT
    claim,         \* claim[r]: id of the row r inserted or stole, for ever
    renewal,       \* renewal[r]: state of r's lease-renewal task
    renewStamp,    \* renewStamp[r]: the lease_expires_at that task is writing
    effect,        \* effect[r]: what r's operation committed
    reply,         \* reply[r]: the answer of r
    sweep          \* id the cleanup job selected and has not yet deleted

vars == <<now, row, pc, stamp, seen, snap, claim, renewal, renewStamp, effect,
          reply, sweep>>
clientVars == <<stamp, seen, snap, claim, renewal, renewStamp, effect, reply>>

-----------------------------------------------------------------------------
(* The row.  An inserting request mints a fresh uuid for the id, and a     *)
(* request inserts at most one row, so the id is named by its inserter; a  *)
(* request holds at most one claim, so lease_owner is named by the holder. *)

Payloads == {Payload[r] : r \in Requests}

Rows == [id : Requests \cup {None}, fp : Payloads \cup {None},
         status : {"absent", "PROCESSING", "COMPLETED"},
         owner : Requests \cup {None}, lease : Nat, expires : Nat,
         result : Requests \cup {None}, replays : Nat]

\* A lease_expires_at of NULL never lies in the future; neither does 0.
NoLease == 0

NoRow == [id |-> None, fp |-> None, status |-> "absent", owner |-> None,
          lease |-> NoLease, expires |-> 0, result |-> None, replays |-> 0]

View(rec) == [id |-> rec.id, result |-> rec.result, replays |-> rec.replays]
NoView == View(NoRow)

Answer(kind, of) == [kind |-> kind, of |-> of]
NoAnswer == Answer("none", None)

ClaimPhase   == {"select", "insert", "steal", "expire"}
ReplayPhase  == {"replay", "replayExpire", "replayCommit"}
ExecutePhase == {"load", "operate", "release", "releaseDelete", "unwind"}
Running      == ClaimPhase \cup ReplayPhase \cup ExecutePhase

-----------------------------------------------------------------------------
(* The tests the code makes on the row, and the writes it makes by id.     *)

Absent     == row.id = None

\* Bug: retention ends one tick early.
ExpiredEarly(rec) == rec.id # None /\ rec.expires <= now + 1
Expired(rec) == rec.id # None /\ rec.expires <= now
Fresh(rec)   == rec.id # None /\ rec.expires > now

\* Bug: a lease that somebody holds is taken to have lapsed.
LeaseHeldNever(rec) == FALSE
LeaseHeld(rec) == rec.lease > now

\* Bug: the payload under a reused key is not compared.
MatchesAlways(r) == TRUE
Matches(r) == row.fp = Payload[r]

\* UPDATE ... WHERE id = i finds its row.
Hits(i) == row.id = i

\* Bug: the expired row is looked up and never deleted.
DeleteRowForgotten(i) == row' = row /\ i = i
\* DELETE ... WHERE id = i; a missing row is only warned about.
DeleteRow(i) == row' = IF Hits(i) THEN NoRow ELSE row

\* execute_claimed_operation's test on the row it loads (status is not read).
Owned(r) == row.id = claim[r] /\ row.owner = r
\* _release_claim's and _renew_lease's test.
OwnedProcessing(r) == Owned(r) /\ row.status = "PROCESSING"

\* The columns a claim's INSERT writes.
InsertedRow(r) ==
    [id |-> r, fp |-> Payload[r], status |-> "PROCESSING", owner |-> r,
     lease |-> stamp[r], expires |-> seen[r] + Retention,
     result |-> None, replays |-> 0]

\* Bug: the UPDATE sends the result columns whether they changed or not.
StolenRowResultCleared(r) ==
    [row EXCEPT !.owner = r, !.lease = stamp[r], !.expires = seen[r] + Retention,
                !.result = None]

\* Bug: the UPDATE sends every column.
StolenRowAllColumns(r) ==
    [row EXCEPT !.status = "PROCESSING", !.owner = r, !.lease = stamp[r],
                !.expires = seen[r] + Retention, !.result = None]

\* The columns a steal's UPDATE writes.  The ORM sends the columns that differ
\* from the row as loaded.  It was loaded in PROCESSING with no result, so
\* status and the result columns are not sent: what another request has
\* written to them meanwhile stays.
StolenRow(r) ==
    [row EXCEPT !.owner = r, !.lease = stamp[r], !.expires = seen[r] + Retention]

\* The columns a persisted completion writes.
CompletedRow(r) ==
    [row EXCEPT !.status = "COMPLETED", !.owner = None, !.lease = NoLease,
                !.result = r]

-----------------------------------------------------------------------------
Init ==
    /\ now = 0
    /\ row = NoRow
    /\ pc = [r \in Requests |-> "idle"]
    /\ stamp = [r \in Requests |-> 0]
    /\ seen = [r \in Requests |-> 0]
    /\ snap = [r \in Requests |-> NoView]
    /\ claim = [r \in Requests |-> None]
    /\ renewal = [r \in Requests |-> "off"]
    /\ renewStamp = [r \in Requests |-> 0]
    /\ effect = [r \in Requests |-> "none"]
    /\ reply = [r \in Requests |-> NoAnswer]
    /\ sweep = None

\* Building blocks of the request steps.
Goto(r, from, to) == pc[r] = from /\ pc' = [pc EXCEPT ![r] = to]

\* A call of _claim_request begins: a new lease stamp, kept over its retries.
BeginClaim(r, from) ==
    /\ Goto(r, from, "select")
    /\ stamp' = [stamp EXCEPT ![r] = now + Lease]
    /\ snap' = [snap EXCEPT ![r] = NoView]

\* r answers and holds nothing any more.
Finish(r, from, answer) ==
    /\ Goto(r, from, "done")
    /\ reply' = [reply EXCEPT ![r] = answer]
    /\ stamp' = [stamp EXCEPT ![r] = 0]
    /\ seen' = [seen EXCEPT ![r] = 0]
    /\ snap' = [snap EXCEPT ![r] = NoView]

\* r owns the claim of row i: its renewal task starts with the execution.
Claimed(r, from, i) ==
    /\ Goto(r, from, "load")
    /\ claim' = [claim EXCEPT ![r] = i]
    /\ renewal' = [renewal EXCEPT ![r] = "sleep"]
    /\ stamp' = [stamp EXCEPT ![r] = 0]
    /\ snap' = [snap EXCEPT ![r] = NoView]
    /\ UNCHANGED seen

-----------------------------------------------------------------------------
(* _claim_request                                                          *)

Arrive(r) ==
    /\ BeginClaim(r, "idle")
    /\ UNCHANGED <<now, row, seen, claim, renewal, renewStamp, effect, reply, sweep>>

\* The SELECT, and what the row read makes the claim do next.
Select(r, to) ==
    /\ Goto(r, "select", to)
    /\ seen' = [seen EXCEPT ![r] = now]
    /\ snap' = [snap EXCEPT ![r] = View(row)]
    /\ UNCHANGED <<now, row, stamp, claim, renewal, renewStamp, effect, reply, sweep>>

SelectAbsent(r)  == Absent /\ Select(r, "insert")
SelectExpired(r) == Expired(row) /\ Select(r, "expire")

SelectMismatch(r) ==
    /\ Fresh(row) /\ ~Matches(r)
    /\ Finish(r, "select", Answer("mismatch", None))
    /\ UNCHANGED <<now, row, claim, renewal, renewStamp, effect, sweep>>

SelectCompleted(r) ==
    /\ Fresh(row) /\ Matches(r)
    /\ row.status = "COMPLETED"
    /\ Select(r, "replay")

SelectInProgress(r) ==
    /\ Fresh(row) /\ Matches(r)
    /\ row.status # "COMPLETED" /\ LeaseHeld(row)
    /\ Finish(r, "select", Answer("in_progress", None))
    /\ UNCHANGED <<now, row, claim, renewal, renewStamp, effect, sweep>>

SelectLapsed(r) ==
    /\ Fresh(row) /\ Matches(r)
    /\ row.status # "COMPLETED" /\ ~LeaseHeld(row)
    /\ Select(r, "steal")

Insert(r) ==
    /\ Absent
    /\ row' = InsertedRow(r)
    /\ Claimed(r, "insert", r)
    /\ UNCHANGED <<now, renewStamp, effect, reply, sweep>>

\* IntegrityError on (scope, idempotency_key): look again, with the same stamp.
InsertConflict(r) ==
    /\ ~Absent
    /\ Goto(r, "insert", "select")
    /\ UNCHANGED <<now, row, clientVars, sweep>>

Steal(r) ==
    /\ pc[r] = "steal" /\ Hits(snap[r].id)
    /\ row' = StolenRow(r)
    /\ Claimed(r, "steal", snap[r].id)
    /\ UNCHANGED <<now, renewStamp, effect, reply, sweep>>

\* StaleDataError is no IntegrityError: the request fails.
StealStale(r) ==
    /\ pc[r] = "steal" /\ ~Hits(snap[r].id)
    /\ Finish(r, "steal", Answer("failed", None))
    /\ UNCHANGED <<now, row, claim, renewal, renewStamp, effect, sweep>>

DeleteExpired(r) ==
    /\ Goto(r, "expire", "select")
    /\ DeleteRow(snap[r].id)
    /\ snap' = [snap EXCEPT ![r] = NoView]
    /\ UNCHANGED <<now, stamp, seen, claim, renewal, renewStamp, effect, reply, sweep>>

-----------------------------------------------------------------------------
(* _execute_claimed_operation and _release_claim                           *)

\* What a step of the execution leaves alone.
ExecuteFrame == UNCHANGED <<now, stamp, seen, snap, claim, renewal, renewStamp, sweep>>

Load(r) ==
    /\ Owned(r)
    /\ Goto(r, "load", "operate")
    /\ UNCHANGED <<row, effect, reply>>
    /\ ExecuteFrame

LoadLost(r) ==
    /\ ~Owned(r)
    /\ Goto(r, "load", "release")
    /\ reply' = [reply EXCEPT ![r] = Answer("in_progress", None)]
    /\ UNCHANGED <<row, effect>>
    /\ ExecuteFrame

\* Bug: the UPDATE is not tied to the row that was claimed.
PersistAnywhere(r) ==
    /\ row' = CompletedRow(r)
    /\ effect' = [effect EXCEPT ![r] = "persisted"]

\* The commit of a result that is kept (should_persist): the operation's own
\* writes and the row's UPDATE, in one transaction.
Persist(r) ==
    /\ Hits(claim[r])
    /\ row' = CompletedRow(r)
    /\ effect' = [effect EXCEPT ![r] = "persisted"]

\* The commit of a result that is not kept: the row is deleted by id.
Discard(r) ==
    /\ DeleteRow(claim[r])
    /\ effect' = [effect EXCEPT ![r] = "unpersisted"]

Complete(r) ==
    /\ Goto(r, "operate", "unwind")
    /\ Persist(r)
    /\ reply' = [reply EXCEPT ![r] = Answer("created", r)]
    /\ ExecuteFrame

CompleteUncached(r) ==
    /\ Goto(r, "operate", "unwind")
    /\ Discard(r)
    /\ reply' = [reply EXCEPT ![r] = Answer("uncached", None)]
    /\ ExecuteFrame

\* Bug: the operation's writes are committed although it raised.
OperationFailsHalfway(r) ==
    /\ Goto(r, "operate", "release")
    /\ reply' = [reply EXCEPT ![r] = Answer("failed", None)]
    /\ effect' = [effect EXCEPT ![r] = "unpersisted"]
    /\ UNCHANGED row
    /\ ExecuteFrame

\* The operation raises, or the row is gone and the UPDATE raises
\* StaleDataError: everything is rolled back and the claim is released.
OperationFails(r) ==
    /\ Goto(r, "operate", "release")
    /\ reply' = [reply EXCEPT ![r] = Answer("failed", None)]
    /\ UNCHANGED <<row, effect>>
    /\ ExecuteFrame

\* The commit is applied but its acknowledgement is lost with the connection.
CommitUnacknowledged(r) ==
    /\ r \in Faulty
    /\ Goto(r, "operate", "release")
    /\ Persist(r) \/ Discard(r)
    /\ reply' = [reply EXCEPT ![r] = Answer("failed", None)]
    /\ ExecuteFrame

ReleaseLoad(r) ==
    /\ Goto(r, "release", IF OwnedProcessing(r) THEN "releaseDelete" ELSE "unwind")
    /\ UNCHANGED <<row, effect, reply>>
    /\ ExecuteFrame

ReleaseDelete(r) ==
    /\ Goto(r, "releaseDelete", "unwind")
    /\ DeleteRow(claim[r])
    /\ UNCHANGED <<effect, reply>>
    /\ ExecuteFrame

\* _release_claim swallows a database error and leaves the row.
ReleaseFails(r) ==
    /\ r \in Faulty
    /\ \E from \in {"release", "releaseDelete"} : Goto(r, from, "unwind")
    /\ UNCHANGED <<row, effect, reply>>
    /\ ExecuteFrame

\* Bug: the renewal task outlives its request.
StopRenewalForgotten(r) == r = r /\ UNCHANGED <<renewal, renewStamp>>

\* The finally block: the renewal task is stopped and awaited.
StopRenewal(r) ==
    /\ renewal' = [renewal EXCEPT ![r] = "off"]
    /\ renewStamp' = [renewStamp EXCEPT ![r] = 0]

Unwind(r) ==
    /\ Goto(r, "unwind", "done")
    /\ StopRenewal(r)
    /\ seen' = [seen EXCEPT ![r] = 0]
    /\ UNCHANGED <<now, row, stamp, snap, claim, effect, reply, sweep>>

-----------------------------------------------------------------------------
(* _replay_record                                                          *)

\* None is returned to execute(), which starts a new _claim_request.
ReplayGone(r) ==
    /\ ~(Hits(snap[r].id) /\ row.status = "COMPLETED")
    /\ BeginClaim(r, "replay")
    /\ UNCHANGED <<now, row, seen, claim, renewal, renewStamp, effect, reply, sweep>>

ReplayExpired(r) ==
    /\ Hits(snap[r].id) /\ row.status = "COMPLETED" /\ Expired(row)
    /\ Goto(r, "replay", "replayExpire")
    /\ UNCHANGED <<now, row, clientVars, sweep>>

ReplayDeleteExpired(r) ==
    /\ BeginClaim(r, "replayExpire")
    /\ DeleteRow(snap[r].id)
    /\ UNCHANGED <<now, seen, claim, renewal, renewStamp, effect, reply, sweep>>

\* The response is rebuilt from the row as read here, the fingerprint being
\* the one the claim compared: it never changes under one id.
ReplayLoad(r) ==
    /\ Hits(snap[r].id) /\ row.status = "COMPLETED" /\ Fresh(row)
    /\ Goto(r, "replay", "replayCommit")
    /\ snap' = [snap EXCEPT ![r] = View(row)]
    /\ UNCHANGED <<now, row, stamp, seen, claim, renewal, renewStamp, effect, reply, sweep>>

ReplayCommit(r) ==
    /\ Hits(snap[r].id)
    /\ row' = [row EXCEPT !.replays = snap[r].replays + 1]
    /\ Finish(r, "replayCommit", Answer("replayed", snap[r].result))
    /\ UNCHANGED <<now, claim, renewal, renewStamp, effect, sweep>>

\* The serializer raises, or the row is gone and the UPDATE raises.
ReplayFails(r) ==
    /\ Finish(r, "replayCommit", Answer("failed", None))
    /\ UNCHANGED <<now, row, claim, renewal, renewStamp, effect, sweep>>

-----------------------------------------------------------------------------
(* _renew_lease, cleanup_expired_idempotency_requests, faults and time     *)

\* The timer may fire at any time: its interval is a third of the lease.
RenewLoad(r) ==
    /\ renewal[r] = "sleep"
    /\ IF OwnedProcessing(r)
       THEN /\ renewal' = [renewal EXCEPT ![r] = "write"]
            /\ renewStamp' = [renewStamp EXCEPT ![r] = now + Lease]
       ELSE StopRenewal(r)
    /\ UNCHANGED <<now, row, pc, stamp, seen, snap, claim, effect, reply, sweep>>

\* Only lease_expires_at changed, so only it is sent; a missing row raises,
\* and the task swallows that and sleeps again.
RenewWrite(r) ==
    /\ renewal[r] = "write"
    /\ row' = IF Hits(claim[r]) THEN [row EXCEPT !.lease = renewStamp[r]] ELSE row
    /\ renewal' = [renewal EXCEPT ![r] = "sleep"]
    /\ renewStamp' = [renewStamp EXCEPT ![r] = 0]
    /\ UNCHANGED <<now, pc, stamp, seen, snap, claim, effect, reply, sweep>>

CleanupSelect ==
    /\ sweep = None /\ Expired(row)
    /\ sweep' = row.id
    /\ UNCHANGED <<now, row, pc, clientVars>>

CleanupDelete ==
    /\ sweep # None
    /\ DeleteRow(sweep)
    /\ sweep' = None
    /\ UNCHANGED <<now, pc, clientVars>>

\* The request timeout cancels r's task at an await, or its process dies.
\* CancelledError is no Exception: the claim is not released.
Abandon(r) ==
    /\ r \in Faulty
    /\ \E from \in Running : Finish(r, from, Answer("abandoned", None))
    /\ StopRenewal(r)
    /\ UNCHANGED <<now, row, claim, effect, sweep>>

\* When r's lease runs out: the lease r is about to write, or the row's.
Deadline(r) ==
    IF pc[r] \in ClaimPhase THEN stamp[r] ELSE row.lease
Live(r) ==
    \/ pc[r] \in ClaimPhase
    \/ pc[r] \in ExecutePhase /\ OwnedProcessing(r)

Tick ==
    /\ now < MaxTime
    /\ Punctual => \A r \in Requests : Live(r) => now + 1 < Deadline(r)
    /\ now' = now + 1
    /\ UNCHANGED <<row, pc, clientVars, sweep>>

\* Every request is answered and the clock has reached its bound.
Finished ==
    /\ now = MaxTime /\ \A r \in Requests : pc[r] \in {"idle", "done"}
    /\ UNCHANGED vars

-----------------------------------------------------------------------------
Claim(r) ==
    \/ SelectAbsent(r) \/ SelectExpired(r) \/ SelectMismatch(r)
    \/ SelectCompleted(r) \/ SelectInProgress(r) \/ SelectLapsed(r)
    \/ Insert(r) \/ InsertConflict(r) \/ Steal(r) \/ StealStale(r)
    \/ DeleteExpired(r)

Execute(r) ==
    \/ Load(r) \/ LoadLost(r) \/ Complete(r) \/ CompleteUncached(r)
    \/ OperationFails(r) \/ ReleaseLoad(r) \/ ReleaseDelete(r) \/ Unwind(r)

ReplayRecord(r) ==
    \/ ReplayGone(r) \/ ReplayExpired(r) \/ ReplayDeleteExpired(r)
    \/ ReplayLoad(r) \/ ReplayCommit(r) \/ ReplayFails(r)

Progress(r) == Claim(r) \/ Execute(r) \/ ReplayRecord(r)
Fault(r) == Abandon(r) \/ CommitUnacknowledged(r) \/ ReleaseFails(r)
Renew(r) == RenewLoad(r) \/ RenewWrite(r)
Cleanup == CleanupSelect \/ CleanupDelete

Next ==
    \/ \E r \in Requests : Arrive(r) \/ Progress(r) \/ Fault(r) \/ Renew(r)
    \/ Cleanup \/ Tick \/ Finished

Spec == Init /\ [][Next]_vars

\* The event loop runs every ready coroutine, and time passes.  Nothing makes
\* requests arrive, a renewal fire or the cleanup job run.
FairSpec == Spec /\ WF_vars(Tick) /\ \A r \in Requests : WF_vars(Progress(r))

-----------------------------------------------------------------------------
(* What always holds.                                                      *)

\* The variables have their types.
TypeOK ==
    /\ now \in Nat
    /\ row \in Rows
    /\ pc \in [Requests -> Running \cup {"idle", "done"}]
    /\ stamp \in [Requests -> Nat]
    /\ seen \in [Requests -> Nat]
    /\ snap \in [Requests -> [id : Requests \cup {None},
                              result : Requests \cup {None}, replays : Nat]]
    /\ claim \in [Requests -> Requests \cup {None}]
    /\ renewal \in [Requests -> {"off", "sleep", "write"}]
    /\ renewStamp \in [Requests -> Nat]
    /\ effect \in [Requests -> {"none", "persisted", "unpersisted"}]
    /\ reply \in [Requests -> [kind : {"none", "created", "uncached", "replayed",
                                       "in_progress", "mismatch", "failed", "abandoned"},
                               of : Requests \cup {None}]]
    /\ sweep \in Requests \cup {None}

\* A replayed answer is the result of an operation that committed, for the
\* same payload, and the replaying request changed nothing: whatever steals,
\* deletions and second executions happened meanwhile.
ReplayIsGenuine ==
    \A r \in Requests : reply[r].kind = "replayed" =>
        /\ reply[r].of # None
        /\ effect[reply[r].of] = "persisted"
        /\ Payload[reply[r].of] = Payload[r]
        /\ effect[r] = "none"

\* A completed row can be replayed: the RuntimeError of _replay_record about
\* missing replay metadata never fires, and its result was committed.
CompletedRowIsReplayable ==
    row.status = "COMPLETED" =>
        /\ row.result # None
        /\ effect[row.result] = "persisted"
        /\ Payload[row.result] = row.fp

\* Only a request that was cut short can have left writes behind an answer
\* that says nothing was done.
RefusalLeavesNothing ==
    \A r \in Requests :
        \/ reply[r].kind \in {"in_progress", "mismatch"}
        \/ reply[r].kind = "failed" /\ r \notin Faulty
        => effect[r] = "none"

\* A completed row never goes back to PROCESSING and never loses its result,
\* although a steal decided on an older version of it is written over it.
NeverReopened ==
    [][row.status = "COMPLETED" /\ row'.id = row.id =>
           row'.status = "COMPLETED" /\ row'.result # None]_vars

-----------------------------------------------------------------------------
(* What holds while no claim is ever taken from a live request.            *)

\* Two kept results never land in one row: a mutation is executed once.
ExecutedOnce ==
    \A r, s \in Requests :
        effect[r] = "persisted" /\ effect[s] = "persisted" /\ claim[r] = claim[s]
            => r = s

\* A kept result is there to replay until its retention ends.
CompletedKept ==
    [][row.status = "COMPLETED" /\ row'.id # row.id => row.expires <= now]_vars

\* The retention of the row that r claimed has ended.
Outlived(r) == seen[r] + Retention <= now

\* While a request performs the operation nobody takes its claim over, however
\* long it renews the lease: another performs the operation beside it only with
\* a claim of its own, once the record of one of the two has outlived its
\* retention and could be deleted under its owner.
LiveClaimKept ==
    \A r, s \in Requests : r # s /\ pc[r] = "operate" /\ pc[s] = "operate" =>
        claim[r] # claim[s] /\ (Outlived(r) \/ Outlived(s))

\* Nobody prolongs the lease of a request that has ended.
DeadLeaseNotRenewed ==
    [][row.owner # None /\ pc[row.owner] = "done" /\ row'.id = row.id
       /\ row'.owner = row.owner => row'.lease <= row.lease]_vars

-----------------------------------------------------------------------------
(* The abstract view: the row's result is what the key stands for.         *)

KeyView == INSTANCE OncePerKey WITH
    result <- row.result,
    executed <- {r \in Requests : effect[r] = "persisted"},
    answer <- [r \in Requests |-> reply[r].of]

\* Leases, races, deletions and retries are invisible to a client: it sees a
\* mutation performed once and its result repeated.
ImplementsOncePerKey == KeyView!Spec

-----------------------------------------------------------------------------
(* Liveness.                                                               *)

\* Every request is answered: no chain of conflicts, deletions and vanished
\* rows keeps a request in the loops of execute() and _claim_request().
EveryRequestAnswered ==
    \A r \in Requests : pc[r] = "select" ~> pc[r] = "done"

\* A row left in PROCESSING by a request that has ended can be claimed again
\* once its lease has run out.
AbandonedKeyRecovers ==
    row.status = "PROCESSING" /\ pc[row.owner] = "done" /\ row.lease <= MaxTime
        ~> row.status # "PROCESSING" \/ pc[row.owner] # "done" \/ row.lease <= now

=============================================================================
