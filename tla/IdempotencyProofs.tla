------------------------- MODULE IdempotencyProofs -------------------------
(***************************************************************************)
(* What the idempotency executor guarantees for every set of requests,     *)
(* payloads, faults, lease, retention and clock bound.                     *)
(***************************************************************************)
EXTENDS IdempotencyInv, FiniteSetTheorems, TLAPS

-----------------------------------------------------------------------------
(* Types.                                                                  *)

LEMMA NoRowType == NoRow \in Rows
  BY DEF NoRow, Rows, NoLease

LEMMA ViewType ==
    ASSUME NEW rec \in Rows
    PROVE  View(rec) \in [id : Requests \cup {None},
                          result : Requests \cup {None}, replays : Nat]
  BY DEF View, Rows

\* The row keeps its type under a DELETE by id.
LEMMA DeleteRowType ==
    ASSUME TypeOK, NEW i, DeleteRow(i)
    PROVE  row' \in Rows
  BY NoRowType DEF TypeOK, DeleteRow

\* A write of the lease alone, of a steal, and of a completion.
LEMMA LeaseWriteType ==
    ASSUME NEW rec \in Rows, NEW t \in Nat
    PROVE  [rec EXCEPT !.lease = t] \in Rows
  BY DEF Rows

LEMMA StolenRowType ==
    ASSUME TypeOK, NEW r \in Requests
    PROVE  StolenRow(r) \in Rows
<1>1. stamp[r] \in Nat /\ seen[r] + Retention \in Nat /\ row \in Rows
  BY ConstantsAssumption DEF TypeOK
<1>2. [row EXCEPT !.owner = r] \in Rows
  BY <1>1 DEF Rows
<1>3. [[row EXCEPT !.owner = r] EXCEPT !.lease = stamp[r]] \in Rows
  BY <1>1, <1>2, LeaseWriteType
<1>4. \A rec \in Rows, t \in Nat : [rec EXCEPT !.expires = t] \in Rows
  BY DEF Rows
<1>5. [[[row EXCEPT !.owner = r] EXCEPT !.lease = stamp[r]]
            EXCEPT !.expires = seen[r] + Retention] \in Rows
  BY <1>1, <1>3, <1>4
<1> QED
  BY <1>5 DEF StolenRow

LEMMA CompletedRowType ==
    ASSUME TypeOK, NEW r \in Requests
    PROVE  CompletedRow(r) \in Rows
<1>1. row \in Rows
  BY DEF TypeOK
<1>2. \A rec \in Rows : [rec EXCEPT !.status = "COMPLETED", !.owner = None] \in Rows
  BY DEF Rows
<1>3. \A rec \in Rows : [rec EXCEPT !.lease = NoLease, !.result = r] \in Rows
  BY DEF Rows, NoLease
<1>4. [[row EXCEPT !.status = "COMPLETED", !.owner = None]
            EXCEPT !.lease = NoLease, !.result = r] \in Rows
  BY <1>1, <1>2, <1>3
<1> QED
  BY <1>4 DEF CompletedRow

\* A claim step keeps the types.
LEMMA ClaimType ==
    ASSUME TypeOK, NEW r \in Requests, Claim(r)
    PROVE  TypeOK'
<1> USE ConstantsAssumption DEF TypeOK, Running, ClaimPhase, ReplayPhase, ExecutePhase
<1>1. ASSUME NEW to \in ClaimPhase \cup {"replay"}, Select(r, to)
      PROVE  TypeOK'
  BY <1>1, ViewType DEF Select, Goto
<1>2. CASE SelectAbsent(r)
  BY <1>1, <1>2 DEF SelectAbsent
<1>3. CASE SelectExpired(r)
  BY <1>1, <1>3 DEF SelectExpired
<1>4. CASE SelectCompleted(r)
  BY <1>1, <1>4 DEF SelectCompleted
<1>5. CASE SelectLapsed(r)
  BY <1>1, <1>5 DEF SelectLapsed
<1>6. ASSUME NEW kind \in {"mismatch", "in_progress", "failed"},
             NEW from, Finish(r, from, Answer(kind, None)),
             UNCHANGED <<now, row, claim, renewal, renewStamp, effect, sweep>>
      PROVE  TypeOK'
  BY <1>6, NoRowType, ViewType DEF Finish, Goto, Answer, NoView
<1>7. CASE SelectMismatch(r)
  BY <1>6, <1>7 DEF SelectMismatch
<1>8. CASE SelectInProgress(r)
  BY <1>6, <1>8 DEF SelectInProgress
<1>9. CASE StealStale(r)
  BY <1>6, <1>9 DEF StealStale
<1>10. CASE Insert(r)
  <2>1. row' \in Rows
    BY <1>10 DEF Insert, InsertedRow, Rows, Payloads
  <2> QED
    BY <1>10, <2>1, NoRowType, ViewType DEF Insert, Claimed, Goto, NoView
<1>11. CASE InsertConflict(r)
  BY <1>11 DEF InsertConflict, Goto, clientVars
<1>12. CASE Steal(r)
  <2>1. row' = StolenRow(r)
    BY <1>12 DEF Steal
  <2>2. row' \in Rows
    BY <2>1, StolenRowType
  <2> QED
    BY <1>12, <2>2, NoRowType, ViewType DEF Steal, Claimed, Goto, NoView
<1>13. CASE DeleteExpired(r)
  BY <1>13, DeleteRowType, NoRowType, ViewType DEF DeleteExpired, Goto, NoView
<1> QED
  BY <1>2, <1>3, <1>4, <1>5, <1>7, <1>8, <1>9, <1>10, <1>11, <1>12, <1>13 DEF Claim

\* An execution step keeps the types.
LEMMA ExecuteType ==
    ASSUME TypeOK, NEW r \in Requests,
           Execute(r) \/ CommitUnacknowledged(r) \/ ReleaseFails(r)
    PROVE  TypeOK'
<1> USE ConstantsAssumption DEF TypeOK, Running, ClaimPhase, ReplayPhase, ExecutePhase
<1> DEFINE Moves == \E from, to \in ExecutePhase : Goto(r, from, to)
           Says == \/ UNCHANGED reply
                   \/ \E kind \in {"in_progress", "created", "uncached", "failed"},
                         of \in {r, None} :
                            reply' = [reply EXCEPT ![r] = Answer(kind, of)]
           Writes == /\ row' \in Rows
                     /\ effect' \in [Requests -> {"none", "persisted", "unpersisted"}]
<1>1. ASSUME Moves, Says, Writes, ExecuteFrame
      PROVE  TypeOK'
  <2>1. pc' \in [Requests -> Running \cup {"idle", "done"}]
    BY <1>1 DEF Goto
  <2>2. ASSUME NEW kind \in {"in_progress", "created", "uncached", "failed"},
               NEW of \in {r, None},
               reply' = [reply EXCEPT ![r] = Answer(kind, of)]
        PROVE  TypeOK'
    BY <1>1, <2>1, <2>2 DEF Answer, ExecuteFrame
  <2>3. CASE UNCHANGED reply
    BY <1>1, <2>1, <2>3 DEF ExecuteFrame
  <2> QED
    BY <1>1, <2>2, <2>3
<1>2. Persist(r) => Writes
  BY CompletedRowType DEF Persist
<1>3. Discard(r) => Writes
  BY DeleteRowType DEF Discard
<1>4. CASE Load(r)
  BY <1>1, <1>4 DEF Load
<1>5. CASE LoadLost(r)
  BY <1>1, <1>5 DEF LoadLost
<1>6. CASE Complete(r)
  BY <1>1, <1>2, <1>6 DEF Complete
<1>7. CASE CompleteUncached(r)
  BY <1>1, <1>3, <1>7 DEF CompleteUncached
<1>8. CASE OperationFails(r)
  BY <1>1, <1>8 DEF OperationFails
<1>9. CASE CommitUnacknowledged(r)
  BY <1>1, <1>2, <1>3, <1>9 DEF CommitUnacknowledged
<1>10. CASE ReleaseLoad(r)
  BY <1>1, <1>10 DEF ReleaseLoad
<1>11. CASE ReleaseDelete(r)
  BY <1>1, <1>11, DeleteRowType DEF ReleaseDelete
<1>12. CASE ReleaseFails(r)
  BY <1>1, <1>12 DEF ReleaseFails
<1>13. CASE Unwind(r)
  BY <1>13 DEF Unwind, Goto, StopRenewal
<1> QED
  BY <1>4, <1>5, <1>6, <1>7, <1>8, <1>9, <1>10, <1>11, <1>12, <1>13 DEF Execute

\* A replay step, an arrival and an abandonment keep the types.
LEMMA ReplayType ==
    ASSUME TypeOK, NEW r \in Requests,
           ReplayRecord(r) \/ Arrive(r) \/ Abandon(r)
    PROVE  TypeOK'
<1> USE ConstantsAssumption DEF TypeOK, Running, ClaimPhase, ReplayPhase, ExecutePhase
<1>1. NoView \in [id : Requests \cup {None}, result : Requests \cup {None}, replays : Nat]
  BY NoRowType, ViewType DEF NoView
<1>2. CASE Arrive(r)
  BY <1>1, <1>2 DEF Arrive, BeginClaim, Goto
<1>3. CASE ReplayGone(r)
  BY <1>1, <1>3 DEF ReplayGone, BeginClaim, Goto
<1>4. CASE ReplayExpired(r)
  BY <1>4 DEF ReplayExpired, Goto, clientVars
<1>5. CASE ReplayDeleteExpired(r)
  BY <1>1, <1>5, DeleteRowType DEF ReplayDeleteExpired, BeginClaim, Goto
<1>6. CASE ReplayLoad(r)
  BY <1>6, ViewType DEF ReplayLoad, Goto
<1>7. CASE ReplayCommit(r)
  <2>1. row' \in Rows
    BY <1>7 DEF ReplayCommit, Rows
  <2> QED
    BY <1>1, <1>7, <2>1 DEF ReplayCommit, Finish, Goto, Answer
<1>8. CASE ReplayFails(r)
  BY <1>1, <1>8 DEF ReplayFails, Finish, Goto, Answer
<1>9. CASE Abandon(r)
  BY <1>1, <1>9 DEF Abandon, Finish, Goto, Answer, StopRenewal
<1> QED
  BY <1>2, <1>3, <1>4, <1>5, <1>6, <1>7, <1>8, <1>9 DEF ReplayRecord

LEMMA TypeStep ==
    ASSUME TypeOK, [Next]_vars
    PROVE  TypeOK'
<1> USE ConstantsAssumption
<1>1. ASSUME NEW r \in Requests, Progress(r) \/ Arrive(r) \/ Fault(r)
      PROVE  TypeOK'
  BY <1>1, ClaimType, ExecuteType, ReplayType DEF Progress, Fault
<1>2. ASSUME NEW r \in Requests, RenewLoad(r)
      PROVE  TypeOK'
  <2>1. CASE OwnedProcessing(r)
    BY <1>2, <2>1 DEF RenewLoad, TypeOK
  <2>2. CASE ~OwnedProcessing(r)
    BY <1>2, <2>2 DEF RenewLoad, StopRenewal, TypeOK
  <2> QED
    BY <2>1, <2>2
<1>3. ASSUME NEW r \in Requests, RenewWrite(r)
      PROVE  TypeOK'
  <2>1. row' \in Rows
    BY <1>3, LeaseWriteType DEF RenewWrite, TypeOK
  <2> QED
    BY <1>3, <2>1 DEF RenewWrite, TypeOK
<1>4. CASE CleanupSelect
  BY <1>4 DEF CleanupSelect, clientVars, TypeOK, Rows
<1>5. CASE CleanupDelete
  BY <1>5, DeleteRowType DEF CleanupDelete, clientVars, TypeOK
<1>6. CASE Tick
  BY <1>6 DEF Tick, clientVars, TypeOK
<1>7. CASE UNCHANGED vars
  BY <1>7 DEF vars, TypeOK
<1> QED
  BY <1>1, <1>2, <1>3, <1>4, <1>5, <1>6, <1>7 DEF Next, Renew, Cleanup, Finished

LEMMA TypeInit == Init => TypeOK
  BY NoRowType, ViewType DEF Init, TypeOK, NoView, NoAnswer, Answer

\* The variables of the executor always have their types.
THEOREM TypeCorrect == Spec => []TypeOK
  BY TypeInit, TypeStep, PTL DEF Spec

-----------------------------------------------------------------------------
(* Replay.                                                                 *)

\* The ways a step changes the columns that say whose row it is and what it
\* holds: not at all, by deleting it, by an insert, by a completion.
SameRecord == /\ row'.id = row.id /\ row'.fp = row.fp
              /\ row'.status = row.status /\ row'.result = row.result

LEMMA RowChanges ==
    ASSUME TypeOK, [Next]_vars
    PROVE  \/ SameRecord
           \/ row' = NoRow
           \/ \E r \in Requests : Insert(r)
           \/ \E r \in Requests : pc[r] = "operate" /\ Persist(r) /\ claim' = claim
<1> SUFFICES ASSUME row' # row, row' # NoRow
             PROVE  \/ SameRecord
                    \/ \E r \in Requests : Insert(r)
                    \/ \E r \in Requests : pc[r] = "operate" /\ Persist(r) /\ claim' = claim
  BY DEF SameRecord
<1>1. ASSUME NEW i, DeleteRow(i)
      PROVE  FALSE
  BY <1>1 DEF DeleteRow
<1>2. ASSUME NEW r \in Requests, Claim(r)
      PROVE  SameRecord \/ Insert(r)
  <2>1. CASE Steal(r)
    BY <2>1 DEF Steal, StolenRow, SameRecord, TypeOK, Rows
  <2>2. CASE DeleteExpired(r)
    BY <2>2, <1>1 DEF DeleteExpired
  <2>3. row' = row \/ Insert(r) \/ Steal(r) \/ DeleteExpired(r)
    BY <1>2 DEF Claim, SelectAbsent, SelectExpired, SelectMismatch, SelectCompleted,
                SelectInProgress, SelectLapsed, Select, InsertConflict, StealStale
  <2> QED
    BY <2>1, <2>2, <2>3
<1>3. ASSUME NEW r \in Requests, Execute(r) \/ Fault(r)
      PROVE  pc[r] = "operate" /\ Persist(r) /\ claim' = claim
  BY <1>1, <1>3 DEF Execute, Fault, Load, LoadLost, Complete, CompleteUncached, Discard,
       OperationFails, ReleaseLoad, ReleaseDelete, Unwind, Abandon,
       CommitUnacknowledged, ReleaseFails, Goto, ExecuteFrame
<1>4. ASSUME NEW r \in Requests, ReplayRecord(r)
      PROVE  SameRecord
  <2>1. CASE ReplayCommit(r)
    BY <2>1 DEF ReplayCommit, SameRecord, TypeOK, Rows
  <2>2. row' = row \/ ReplayCommit(r) \/ DeleteRow(snap[r].id)
    BY <1>4 DEF ReplayRecord, ReplayGone, ReplayExpired, ReplayDeleteExpired,
                ReplayLoad, ReplayFails
  <2> QED
    BY <1>1, <2>1, <2>2
<1>5. ASSUME NEW r \in Requests, Arrive(r) \/ Renew(r)
      PROVE  SameRecord
  BY <1>5 DEF Arrive, Renew, RenewLoad, RenewWrite, SameRecord, TypeOK, Rows
<1>6. ~(Cleanup \/ Tick \/ Finished \/ UNCHANGED vars)
  BY <1>1 DEF Cleanup, CleanupSelect, CleanupDelete, Tick, Finished, vars
<1> QED
  BY <1>2, <1>3, <1>4, <1>5, <1>6 DEF Next, Progress

\* A step of r changes no other request.
StepOf(r) == Arrive(r) \/ Progress(r) \/ Fault(r) \/ Renew(r)

Untouched(s) == /\ pc'[s] = pc[s] /\ claim'[s] = claim[s] /\ snap'[s] = snap[s]
                /\ effect'[s] = effect[s] /\ reply'[s] = reply[s]
                /\ renewal'[s] = renewal[s]

LEMMA OthersUntouched ==
    ASSUME TypeOK, NEW r \in Requests, NEW s \in Requests, s # r, StepOf(r)
    PROVE  Untouched(s)
<1> USE DEF Untouched, TypeOK, Goto
<1>1. CASE Arrive(r)
  BY <1>1 DEF Arrive, BeginClaim
<1>2. CASE Claim(r)
  BY <1>2 DEF Claim, SelectAbsent, SelectExpired, SelectMismatch, SelectCompleted,
       SelectInProgress, SelectLapsed, Select, Finish, Insert, InsertConflict, Claimed,
       Steal, StealStale, DeleteExpired, clientVars
<1>3. CASE Execute(r)
  BY <1>3 DEF Execute, Load, LoadLost, Complete, CompleteUncached, OperationFails,
       ReleaseLoad, ReleaseDelete, Unwind, Persist, Discard, StopRenewal, ExecuteFrame
<1>4. CASE Fault(r)
  BY <1>4 DEF Fault, Abandon, CommitUnacknowledged, ReleaseFails, Finish, Persist,
       Discard, StopRenewal, ExecuteFrame
<1>5. CASE ReplayRecord(r)
  BY <1>5 DEF ReplayRecord, ReplayGone, ReplayExpired, ReplayDeleteExpired, ReplayLoad,
       ReplayCommit, ReplayFails, BeginClaim, Finish, clientVars
<1>6. CASE Renew(r)
  BY <1>6 DEF Renew, RenewLoad, RenewWrite, StopRenewal
<1> QED
  BY <1>1, <1>2, <1>3, <1>4, <1>5, <1>6 DEF StepOf, Progress

LEMMA EnvironmentUntouched ==
    ASSUME NEW s \in Requests, Cleanup \/ Tick \/ UNCHANGED vars
    PROVE  Untouched(s)
  BY DEF Untouched, Cleanup, CleanupSelect, CleanupDelete, Tick, vars, clientVars

\* A step that changes what an operation committed is the commit of one that
\* had committed nothing.
LEMMA EffectChanges ==
    ASSUME TypeOK, [Next]_vars
    PROVE  \/ effect' = effect
           \/ \E r \in Requests :
                  /\ pc[r] = "operate"
                  /\ Persist(r) \/ effect' = [effect EXCEPT ![r] = "unpersisted"]
<1>1. ASSUME NEW r \in Requests, Execute(r) \/ Fault(r)
      PROVE  \/ effect' = effect
             \/ /\ pc[r] = "operate"
                /\ Persist(r) \/ effect' = [effect EXCEPT ![r] = "unpersisted"]
  BY <1>1 DEF Execute, Fault, Load, LoadLost, Complete, CompleteUncached, OperationFails,
       ReleaseLoad, ReleaseDelete, Unwind, Discard, Abandon,
       CommitUnacknowledged, ReleaseFails, Goto
<1>2. ASSUME NEW r \in Requests, Arrive(r) \/ Claim(r) \/ ReplayRecord(r) \/ Renew(r)
      PROVE  effect' = effect
  BY <1>2 DEF Arrive, Claim, SelectAbsent, SelectExpired, SelectMismatch, SelectCompleted,
       SelectInProgress, SelectLapsed, Select, Insert, InsertConflict, Steal, StealStale,
       DeleteExpired, clientVars, ReplayRecord, ReplayGone, ReplayExpired,
       ReplayDeleteExpired, ReplayLoad, ReplayCommit, ReplayFails, Renew, RenewLoad,
       RenewWrite
<1>3. Cleanup \/ Tick \/ Finished \/ UNCHANGED vars => effect' = effect
  BY DEF Cleanup, CleanupSelect, CleanupDelete, Tick, Finished, vars, clientVars
<1> QED
  BY <1>1, <1>2, <1>3 DEF Next, Progress

\* What was kept stays kept.
LEMMA EffectStays ==
    ASSUME TypeOK, OutcomeInv, [Next]_vars, NEW o \in Requests, effect[o] = "persisted"
    PROVE  effect'[o] = "persisted"
<1>1. ASSUME NEW r \in Requests, pc[r] = "operate"
      PROVE  r # o
  BY <1>1 DEF OutcomeInv, Outcome
<1> QED
  BY <1>1, EffectChanges DEF Persist, TypeOK

\* A request that has decided keeps its claim ...
LEMMA ClaimHeld ==
    ASSUME TypeOK, [Next]_vars, NEW o \in Requests, pc[o] \notin Undecided
    PROVE  claim'[o] = claim[o]
<1>1. ASSUME NEW r \in Requests, StepOf(r)
      PROVE  claim' = claim \/ pc[r] \in Undecided
  BY <1>1 DEF StepOf, Progress, Arrive, BeginClaim, Claim, SelectAbsent, SelectExpired,
       SelectMismatch, SelectCompleted, SelectInProgress, SelectLapsed, Select, Insert,
       InsertConflict, Claimed, Goto, Steal, StealStale, DeleteExpired, clientVars,
       Execute, Load, LoadLost, Complete, CompleteUncached, OperationFails, ReleaseLoad,
       ReleaseDelete, Unwind, ExecuteFrame, ReplayRecord, ReplayGone, ReplayExpired,
       ReplayDeleteExpired, ReplayLoad, ReplayCommit, ReplayFails, Fault, Abandon,
       CommitUnacknowledged, ReleaseFails, Renew, RenewLoad, RenewWrite, Undecided,
       ClaimPhase
<1>2. ASSUME NEW r \in Requests, StepOf(r)
      PROVE  claim'[o] = claim[o]
  BY <1>1, <1>2, OthersUntouched DEF Untouched
<1>3. \/ \E r \in Requests : StepOf(r)
      \/ Cleanup \/ Tick \/ UNCHANGED vars
  BY DEF Next, StepOf, Finished
<1> QED
  BY <1>2, <1>3, EnvironmentUntouched DEF Untouched

\* ... and so does what was kept under it.
LEMMA ClaimStays ==
    ASSUME TypeOK, OutcomeInv, [Next]_vars, NEW o \in Requests, effect[o] = "persisted"
    PROVE  claim'[o] = claim[o]
  BY ClaimHeld DEF OutcomeInv, Outcome

LEMMA RowStep ==
    ASSUME SafetyInv, [Next]_vars
    PROVE  RowInv'
<1> USE ConstantsAssumption DEF SafetyInv
<1>1. CASE SameRecord
  BY <1>1, EffectStays, ClaimStays DEF SameRecord, RowInv, Genuine
<1>2. CASE row' = NoRow
  BY <1>2 DEF NoRow, RowInv
<1>3. ASSUME NEW r \in Requests, Insert(r)
      PROVE  RowInv'
  BY <1>3 DEF Insert, InsertedRow, RowInv
<1>4. ASSUME NEW r \in Requests, pc[r] = "operate", Persist(r), claim' = claim
      PROVE  RowInv'
  <2>1. /\ claim[r] # None /\ row.id = claim[r] /\ Payload[claim[r]] = Payload[r]
        /\ row.fp = Payload[r]
    BY <1>4 DEF TargetInv, Target, ExecutePhase, Persist, Hits, RowInv
  <2>2. /\ row'.id = row.id /\ row'.fp = row.fp
        /\ row'.status = "COMPLETED" /\ row'.result = r
    BY <1>4 DEF Persist, CompletedRow, TypeOK, Rows
  <2>3. effect'[r] = "persisted" /\ claim' = claim
    BY <1>4 DEF Persist, TypeOK
  <2> QED
    BY <2>1, <2>2, <2>3 DEF RowInv, Genuine
<1> QED
  BY <1>1, <1>2, <1>3, <1>4, RowChanges

\* The request that takes a step keeps its target ...
LEMMA TargetOwnStep ==
    ASSUME SafetyInv, [Next]_vars, NEW r \in Requests, StepOf(r)
    PROVE  Target(r)'
<1> USE ConstantsAssumption
    DEF SafetyInv, TypeOK, TargetInv, Target, Goto, ClaimPhase, ReplayPhase, ExecutePhase
<1>1. CASE Arrive(r)
  BY <1>1 DEF Arrive, BeginClaim
<1>2. CASE Claim(r)
  <2>1. ASSUME NEW to, Select(r, to), to \in {"insert", "expire"}
        PROVE  Target(r)'
    BY <2>1 DEF Select
  <2>2. ASSUME NEW to, Select(r, to), to \in {"steal", "replay"}, Fresh(row), Matches(r)
        PROVE  Target(r)'
    BY <2>2 DEF Select, Fresh, Matches, RowInv, View
  <2>3. ASSUME NEW kind, NEW from, Finish(r, from, Answer(kind, None)),
               UNCHANGED <<claim, renewal, effect>>
        PROVE  Target(r)'
    BY <2>3 DEF Finish
  <2>4. CASE SelectAbsent(r) \/ SelectExpired(r) \/ SelectCompleted(r) \/ SelectLapsed(r)
    BY <2>1, <2>2, <2>4 DEF SelectAbsent, SelectExpired, SelectCompleted, SelectLapsed
  <2>5. CASE SelectMismatch(r) \/ SelectInProgress(r) \/ StealStale(r)
    BY <2>3, <2>5 DEF SelectMismatch, SelectInProgress, StealStale
  <2>6. CASE Insert(r) \/ Steal(r)
    BY <2>6 DEF Insert, Steal, Claimed
  <2>7. CASE InsertConflict(r) \/ DeleteExpired(r)
    BY <2>7 DEF InsertConflict, DeleteExpired, clientVars
  <2> QED
    BY <1>2, <2>4, <2>5, <2>6, <2>7 DEF Claim
<1>3. CASE Execute(r)
  BY <1>3 DEF Execute, Load, LoadLost, Complete, CompleteUncached, OperationFails,
       ReleaseLoad, ReleaseDelete, Unwind, Persist, Discard, StopRenewal, ExecuteFrame
<1>4. CASE Fault(r)
  BY <1>4 DEF Fault, Abandon, CommitUnacknowledged, ReleaseFails, Finish, Persist,
       Discard, StopRenewal, ExecuteFrame
<1>5. CASE ReplayLoad(r)
  <2>1. /\ row.id = snap[r].id /\ row.id # None /\ row.fp = Payload[r]
        /\ Genuine(row.result, Payload[r]) /\ claim[row.result] = row.id
    BY <1>5 DEF ReplayLoad, Hits, RowInv
  <2>2. effect' = effect /\ claim' = claim
    BY <1>5 DEF ReplayLoad
  <2> QED
    BY <1>5, <2>1, <2>2 DEF ReplayLoad, View, Genuine
<1>6. CASE ReplayRecord(r) /\ ~ReplayLoad(r)
  BY <1>6 DEF ReplayRecord, ReplayGone, ReplayExpired, ReplayDeleteExpired,
       ReplayCommit, ReplayFails, BeginClaim, Finish, clientVars
<1>7. CASE Renew(r)
  BY <1>7 DEF Renew, RenewLoad, RenewWrite, StopRenewal, Genuine
<1> QED
  BY <1>1, <1>2, <1>3, <1>4, <1>5, <1>6, <1>7 DEF StepOf, Progress

\* ... and its outcome stays in order.
LEMMA OutcomeOwnStep ==
    ASSUME SafetyInv, [Next]_vars, NEW r \in Requests, StepOf(r)
    PROVE  Outcome(r)'
<1> USE ConstantsAssumption
    DEF SafetyInv, TypeOK, OutcomeInv, Outcome, Goto, Undecided, ClaimPhase,
        ReplayPhase, ExecutePhase, NoAnswer, Answer
<1>1. ASSUME UNCHANGED <<effect, reply>>,
             pc'[r] \in Undecided \cup {"load", "operate"}
                 => pc[r] \in Undecided \cup {"load", "operate"},
             pc'[r] \in {"release", "releaseDelete"}
                 => pc[r] \in {"release", "releaseDelete"}
      PROVE  Outcome(r)'
  BY <1>1 DEF Genuine
<1>2. CASE Arrive(r) \/ Renew(r)
  BY <1>1, <1>2 DEF Arrive, BeginClaim, Renew, RenewLoad, RenewWrite
<1>3. CASE Claim(r)
  <2>1. ASSUME NEW kind \in {"mismatch", "in_progress", "failed"}, NEW from \in ClaimPhase,
               Finish(r, from, Answer(kind, None)), UNCHANGED effect
        PROVE  Outcome(r)'
    BY <2>1 DEF Finish
  <2>2. CASE SelectMismatch(r) \/ SelectInProgress(r) \/ StealStale(r)
    BY <2>1, <2>2 DEF SelectMismatch, SelectInProgress, StealStale
  <2>3. CASE ~(SelectMismatch(r) \/ SelectInProgress(r) \/ StealStale(r))
    BY <1>1, <1>3, <2>3 DEF Claim, SelectAbsent, SelectExpired, SelectCompleted,
         SelectLapsed, Select, Insert, InsertConflict, Claimed, Steal, DeleteExpired,
         clientVars
  <2> QED
    BY <2>2, <2>3
<1>4. CASE Load(r) \/ ReleaseLoad(r) \/ ReleaseDelete(r) \/ Unwind(r) \/ ReleaseFails(r)
  BY <1>1, <1>4 DEF Load, ReleaseLoad, ReleaseDelete, Unwind, ReleaseFails
<1>5. CASE LoadLost(r) \/ OperationFails(r)
  BY <1>5 DEF LoadLost, OperationFails
<1>6. CASE Complete(r) \/ CompleteUncached(r) \/ CommitUnacknowledged(r)
  BY <1>6 DEF Complete, CompleteUncached, CommitUnacknowledged, Persist, Discard
<1>7. CASE Abandon(r)
  BY <1>7 DEF Abandon, Finish
<1>8. CASE ReplayCommit(r)
  <2>1. Genuine(snap[r].result, Payload[r])
    BY <1>8 DEF TargetInv, Target, ReplayCommit, Finish
  <2> QED
    BY <1>8, <2>1 DEF ReplayCommit, Finish, Genuine
<1>9. CASE ReplayFails(r)
  BY <1>9 DEF ReplayFails, Finish
<1>10. CASE ReplayRecord(r) /\ ~ReplayCommit(r) /\ ~ReplayFails(r)
  BY <1>1, <1>10 DEF ReplayRecord, ReplayGone, ReplayExpired, ReplayDeleteExpired,
       ReplayLoad, BeginClaim, clientVars
<1> QED
  BY <1>2, <1>3, <1>4, <1>5, <1>6, <1>7, <1>8, <1>9, <1>10
     DEF StepOf, Progress, Execute, Fault

LEMMA SafetyStep ==
    ASSUME SafetyInv, [Next]_vars
    PROVE  SafetyInv'
<1>1. ASSUME NEW s \in Requests, Untouched(s)
      PROVE  Target(s)' /\ Outcome(s)'
  BY <1>1, EffectStays, ClaimStays DEF SafetyInv, TargetInv, Target, OutcomeInv, Outcome,
       Untouched, Genuine
<1>2. ASSUME NEW r \in Requests, StepOf(r)
      PROVE  TargetInv' /\ OutcomeInv'
  BY <1>1, <1>2, OthersUntouched, TargetOwnStep, OutcomeOwnStep
     DEF SafetyInv, TargetInv, OutcomeInv
<1>3. ASSUME Cleanup \/ Tick \/ UNCHANGED vars
      PROVE  TargetInv' /\ OutcomeInv'
  <2>1. \A s \in Requests : Untouched(s)
    BY <1>3, EnvironmentUntouched
  <2> QED
    BY <1>1, <2>1 DEF TargetInv, OutcomeInv
<1>4. \/ \E r \in Requests : StepOf(r)
      \/ Cleanup \/ Tick \/ UNCHANGED vars
  BY DEF Next, StepOf, Finished
<1>5. TargetInv' /\ OutcomeInv'
  BY <1>2, <1>3, <1>4
<1> QED
  BY <1>5, TypeStep, RowStep DEF SafetyInv

LEMMA SafetyInit == Init => SafetyInv
  BY TypeInit, ConstantsAssumption
     DEF Init, SafetyInv, RowInv, TargetInv, Target, OutcomeInv, Outcome, NoRow,
         NoAnswer, Answer, ClaimPhase, ReplayPhase, ExecutePhase, Undecided

THEOREM SafetyInvariant == Spec => []SafetyInv
  BY SafetyInit, SafetyStep, PTL DEF Spec

\* A replayed answer is always the committed result of the same payload.
THEOREM ReplayGenuine == Spec => []ReplayIsGenuine
<1>1. SafetyInv => ReplayIsGenuine
  BY ConstantsAssumption DEF SafetyInv, OutcomeInv, Outcome, ReplayIsGenuine, Genuine
<1> QED
  BY <1>1, SafetyInvariant, PTL

\* A completed row can always be replayed.
THEOREM CompletedReplayable == Spec => []CompletedRowIsReplayable
<1>1. SafetyInv => CompletedRowIsReplayable
  BY DEF SafetyInv, RowInv, CompletedRowIsReplayable, Genuine
<1> QED
  BY <1>1, SafetyInvariant, PTL

\* A request that was refused, or failed uncut, has committed nothing.
THEOREM RefusalClean == Spec => []RefusalLeavesNothing
<1>1. SafetyInv => RefusalLeavesNothing
  BY DEF SafetyInv, OutcomeInv, Outcome, RefusalLeavesNothing
<1> QED
  BY <1>1, SafetyInvariant, PTL

LEMMA CompletedStep ==
    ASSUME SafetyInv, [Next]_vars, row.status = "COMPLETED", row'.id = row.id
    PROVE  row'.status = "COMPLETED"
<1>1. row.id # None
  BY DEF SafetyInv, RowInv
<1>2. row' # NoRow
  BY <1>1 DEF NoRow
<1>3. ASSUME NEW r \in Requests, Insert(r)
      PROVE  FALSE
  BY <1>1, <1>3 DEF Insert, Absent
<1>4. ASSUME NEW r \in Requests, Persist(r)
      PROVE  row'.status = "COMPLETED"
  BY <1>4 DEF Persist, CompletedRow, SafetyInv, TypeOK, Rows
<1> QED
  BY <1>2, <1>3, <1>4, RowChanges DEF SameRecord, SafetyInv

\* A completed row is never reopened and never loses its result.
THEOREM CompletedStays == Spec => NeverReopened
<1>1. ASSUME SafetyInv, SafetyInv', [Next]_vars
      PROVE  [row.status = "COMPLETED" /\ row'.id = row.id =>
                  row'.status = "COMPLETED" /\ row'.result # None]_vars
  BY <1>1, CompletedStep DEF SafetyInv, RowInv
<1> QED
  BY <1>1, SafetyInvariant, PTL DEF Spec, NeverReopened

-----------------------------------------------------------------------------
(* What a step leaves alone.                                               *)

\* What the invariants read of a request.
Kept(s) == /\ Untouched(s)
           /\ stamp'[s] = stamp[s] /\ renewStamp'[s] = renewStamp[s] /\ seen'[s] = seen[s]

LEMMA OthersKept ==
    ASSUME TypeOK, NEW r \in Requests, NEW s \in Requests, s # r, StepOf(r)
    PROVE  Kept(s)
<1> DEFINE Stamps ==
        stamp'[s] = stamp[s] /\ renewStamp'[s] = renewStamp[s] /\ seen'[s] = seen[s]
<1> USE DEF TypeOK, Goto
<1>1. Arrive(r) => Stamps
  BY DEF Arrive, BeginClaim
<1>2. Claim(r) => Stamps
  BY DEF Claim, SelectAbsent, SelectExpired, SelectMismatch, SelectCompleted,
       SelectInProgress, SelectLapsed, Select, Finish, Insert, InsertConflict, Claimed,
       Steal, StealStale, DeleteExpired, clientVars
<1>3. Execute(r) => Stamps
  BY DEF Execute, Load, LoadLost, Complete, CompleteUncached, OperationFails,
       ReleaseLoad, ReleaseDelete, Unwind, StopRenewal, ExecuteFrame
<1>4. Fault(r) => Stamps
  BY DEF Fault, Abandon, CommitUnacknowledged, ReleaseFails, Finish, StopRenewal,
       ExecuteFrame
<1>5. ReplayRecord(r) => Stamps
  BY DEF ReplayRecord, ReplayGone, ReplayExpired, ReplayDeleteExpired, ReplayLoad,
       ReplayCommit, ReplayFails, BeginClaim, Finish, clientVars
<1>6. Renew(r) => Stamps
  BY DEF Renew, RenewLoad, RenewWrite, StopRenewal
<1>7. Stamps
  BY <1>1, <1>2, <1>3, <1>4, <1>5, <1>6 DEF StepOf, Progress
<1> QED
  BY <1>7, OthersUntouched DEF Kept

\* The columns the invariants read.
Intact == /\ row'.id = row.id /\ row'.status = row.status /\ row'.owner = row.owner
          /\ row'.lease = row.lease /\ row'.expires = row.expires
          /\ row'.result = row.result

\* The ways a step of r changes the row.
RowMove(r) == \/ Intact
              \/ row' = NoRow
              \/ Insert(r) \/ Steal(r) \/ RenewWrite(r)
              \/ pc[r] = "operate" /\ Persist(r)

LEMMA RowMoves ==
    ASSUME TypeOK, NEW r \in Requests, StepOf(r)
    PROVE  RowMove(r)
<1> USE DEF RowMove
<1>1. row' = row => Intact
  BY DEF Intact
<1>2. ASSUME NEW i, DeleteRow(i)
      PROVE  RowMove(r)
  BY <1>1, <1>2 DEF DeleteRow
<1>3. CASE Claim(r)
  BY <1>1, <1>2, <1>3 DEF Claim, SelectAbsent, SelectExpired, SelectMismatch,
       SelectCompleted, SelectInProgress, SelectLapsed, Select, InsertConflict,
       StealStale, DeleteExpired
<1>4. CASE Execute(r) \/ Fault(r)
  BY <1>1, <1>2, <1>4 DEF Execute, Fault, Load, LoadLost, Complete, CompleteUncached,
       Discard, OperationFails, ReleaseLoad, ReleaseDelete, Unwind, Abandon,
       CommitUnacknowledged, ReleaseFails, Goto
<1>5. CASE ReplayRecord(r)
  <2>1. ReplayCommit(r) => Intact
    BY DEF ReplayCommit, Intact, TypeOK, Rows
  <2> QED
    BY <1>1, <1>2, <1>5, <2>1 DEF ReplayRecord, ReplayGone, ReplayExpired,
         ReplayDeleteExpired, ReplayLoad, ReplayFails
<1>6. CASE Arrive(r) \/ Renew(r)
  BY <1>1, <1>6 DEF Arrive, Renew, RenewLoad
<1> QED
  BY <1>3, <1>4, <1>5, <1>6 DEF StepOf, Progress

\* Who is not r, and the cleanup job, change the row only by deleting it.
LEMMA EnvironmentKeeps ==
    ASSUME Cleanup \/ Tick \/ UNCHANGED vars
    PROVE  /\ Intact \/ row' = NoRow
           /\ \A s \in Requests : Kept(s)
  BY DEF Cleanup, CleanupSelect, CleanupDelete, DeleteRow, Tick, clientVars, vars, Kept,
         Untouched, Intact

\* A request that has ended stays so.
LEMMA DoneStays ==
    ASSUME TypeOK, [Next]_vars, NEW s \in Requests, pc[s] = "done"
    PROVE  pc'[s] = "done"
<1>1. ASSUME StepOf(s)
      PROVE  pc' = pc
  BY <1>1 DEF StepOf, Progress, Goto, Arrive, BeginClaim, Claim, SelectAbsent,
       SelectExpired, SelectMismatch, SelectCompleted, SelectInProgress, SelectLapsed,
       Select, Finish, Insert, InsertConflict, Claimed, Steal, StealStale, DeleteExpired,
       Execute, Load, LoadLost, Complete, CompleteUncached, OperationFails, ReleaseLoad,
       ReleaseDelete, Unwind, ReplayRecord, ReplayGone, ReplayExpired,
       ReplayDeleteExpired, ReplayLoad, ReplayCommit, ReplayFails, Fault, Abandon,
       Running, ClaimPhase, ReplayPhase, ExecutePhase, CommitUnacknowledged,
       ReleaseFails, Renew, RenewLoad, RenewWrite
<1>2. \/ \E r \in Requests : StepOf(r)
      \/ Cleanup \/ Tick \/ UNCHANGED vars
  BY DEF Next, StepOf, Finished
<1> QED
  BY <1>1, <1>2, OthersUntouched, EnvironmentUntouched DEF Untouched

-----------------------------------------------------------------------------
(* Ids are minted once, and no lease reaches too far: whoever fails.       *)

LEMMA MintedStays ==
    ASSUME SafetyInv, IdsInv, [Next]_vars, NEW i \in Requests, claim[i] = i
    PROVE  claim'[i] = i
<1>1. pc[i] \notin Undecided
  BY ConstantsAssumption DEF IdsInv, Ids
<1> QED
  BY <1>1, ClaimHeld DEF SafetyInv

\* Before its claim a request's own id is nowhere.
LEMMA UnmintedId ==
    ASSUME SafetyInv, IdsInv, NEW r \in Requests, pc[r] \in Undecided
    PROVE  /\ row.id # r /\ sweep # r
           /\ \A s \in Requests : claim[s] # r /\ snap[s].id # r
  BY ConstantsAssumption DEF IdsInv, Ids, Minted

LEMMA IdsOwnStep ==
    ASSUME SafetyInv, IdsInv, [Next]_vars, NEW r \in Requests, StepOf(r)
    PROVE  Ids(r)' /\ sweep' = sweep
<1> USE ConstantsAssumption
    DEF SafetyInv, TypeOK, Rows, IdsInv, Ids, Goto, Undecided, ClaimPhase, ReplayPhase,
        ExecutePhase, NoView, View, NoRow
<1>1. \A i \in Requests : claim[i] = i => claim'[i] = i
  BY MintedStays
<1>2. ASSUME /\ sweep' = sweep /\ claim'[r] = claim[r]
             /\ snap'[r].id \in {snap[r].id, row.id, None}
             /\ pc'[r] \in Undecided => pc[r] \in Undecided
             /\ renewal'[r] # "off" => renewal[r] # "off" /\ pc'[r] \in ExecutePhase
      PROVE  Ids(r)' /\ sweep' = sweep
  BY <1>1, <1>2 DEF Minted
<1>3. CASE Arrive(r)
  BY <1>2, <1>3 DEF Arrive, BeginClaim
<1>4. CASE Insert(r)
  BY <1>4 DEF Insert, Claimed, Minted
<1>5. CASE Steal(r)
  BY <1>1, <1>5 DEF Steal, Claimed, Minted
<1>6. CASE Claim(r) /\ ~Insert(r) /\ ~Steal(r)
  <2>1. pc[r] \in ClaimPhase /\ UNCHANGED <<claim, renewal, sweep>>
    BY <1>6 DEF Claim, SelectAbsent, SelectExpired, SelectMismatch, SelectCompleted,
         SelectInProgress, SelectLapsed, Select, Finish, InsertConflict, StealStale,
         DeleteExpired, clientVars
  <2>2. snap'[r].id \in {snap[r].id, row.id, None}
    <3>1. snap'[r] \in {snap[r], View(row), NoView}
      BY <1>6 DEF Claim, SelectAbsent, SelectExpired, SelectMismatch, SelectCompleted,
           SelectInProgress, SelectLapsed, Select, Finish, InsertConflict, StealStale,
           DeleteExpired, clientVars
    <3> QED
      BY <3>1
  <2>3. renewal[r] = "off"
    BY <2>1
  <2> QED
    BY <1>2, <2>1, <2>2, <2>3
<1>7. CASE Execute(r)
  BY <1>2, <1>7 DEF Execute, Load, LoadLost, Complete, CompleteUncached, OperationFails,
       ReleaseLoad, ReleaseDelete, Unwind, StopRenewal, ExecuteFrame
<1>8. CASE Fault(r)
  BY <1>2, <1>8 DEF Fault, Abandon, CommitUnacknowledged, ReleaseFails, Finish,
       StopRenewal, ExecuteFrame
<1>9. CASE ReplayRecord(r)
  BY <1>2, <1>9 DEF ReplayRecord, ReplayGone, ReplayExpired, ReplayDeleteExpired,
       ReplayLoad, ReplayCommit, ReplayFails, BeginClaim, Finish, clientVars
<1>10. CASE Renew(r)
  BY <1>2, <1>10 DEF Renew, RenewLoad, RenewWrite, StopRenewal
<1> QED
  BY <1>3, <1>4, <1>5, <1>6, <1>7, <1>8, <1>9, <1>10 DEF StepOf, Progress

LEMMA IdsStep ==
    ASSUME SafetyInv, IdsInv, [Next]_vars
    PROVE  IdsInv'
<1> USE ConstantsAssumption
<1>1. \A i \in Requests : claim[i] = i => claim'[i] = i
  BY MintedStays
<1>2. ASSUME NEW s \in Requests, Kept(s)
      PROVE  Ids(s)'
  BY <1>1, <1>2 DEF IdsInv, Ids, Minted, Kept, Untouched, SafetyInv, TypeOK
<1>3. \/ \E r \in Requests : StepOf(r)
      \/ Cleanup \/ Tick \/ UNCHANGED vars
  BY DEF Next, StepOf, Finished
<1>4. \A s \in Requests : Ids(s)'
  BY <1>2, <1>3, OthersKept, IdsOwnStep, EnvironmentKeeps DEF SafetyInv
<1>5. Minted(row.id)'
  <2>1. ASSUME NEW r \in Requests, StepOf(r)
        PROVE  Minted(row.id)'
    <3>1. CASE Insert(r)
      BY <3>1 DEF Insert, InsertedRow, Claimed, Minted, SafetyInv, TypeOK
    <3>2. CASE row'.id = row.id \/ row' = NoRow
      BY <1>1, <3>2 DEF IdsInv, Minted, NoRow, SafetyInv, TypeOK, Rows
    <3>3. Steal(r) \/ RenewWrite(r) \/ Persist(r) => row'.id = row.id
      <4>1. row \in Rows
        BY DEF SafetyInv, TypeOK
      <4>2. Steal(r) => row'.id = row.id
        BY <4>1 DEF Steal, StolenRow, Rows
      <4>3. RenewWrite(r) => row'.id = row.id
        BY <4>1 DEF RenewWrite, Rows
      <4>4. Persist(r) => row'.id = row.id
        BY <4>1 DEF Persist, CompletedRow, Rows
      <4> QED
        BY <4>2, <4>3, <4>4
    <3> QED
      BY <2>1, <3>1, <3>2, <3>3, RowMoves DEF RowMove, Intact, SafetyInv
  <2>2. CASE row'.id = row.id \/ row' = NoRow
    BY <1>1, <2>2 DEF IdsInv, Minted, NoRow, SafetyInv, TypeOK, Rows
  <2> QED
    BY <1>3, <2>1, <2>2, EnvironmentKeeps DEF Intact
<1>6. Minted(sweep)'
  <2>1. sweep' \in {sweep, row.id, None}
    BY <1>3, IdsOwnStep
       DEF Cleanup, CleanupSelect, CleanupDelete, Tick, clientVars, vars
  <2> QED
    BY <1>1, <2>1 DEF IdsInv, Minted, SafetyInv, TypeOK, Rows
<1> QED
  BY <1>4, <1>5, <1>6 DEF IdsInv

\* The lease a request is about to write is a whole one when it is computed.
LEMMA StampsWritten ==
    ASSUME TypeOK, NEW r \in Requests, StepOf(r)
    PROVE  /\ now' = now
           /\ stamp'[r] \in {stamp[r], 0, now + Lease}
           /\ renewStamp'[r] \in {renewStamp[r], 0, now + Lease}
           /\ seen'[r] \in {seen[r], 0, now}
<1> USE DEF TypeOK
<1>1. CASE Arrive(r) \/ ReplayRecord(r)
  BY <1>1 DEF Arrive, ReplayRecord, ReplayGone, ReplayExpired, ReplayDeleteExpired,
       ReplayLoad, ReplayCommit, ReplayFails, BeginClaim, Finish, clientVars
<1>2. CASE Claim(r)
  BY <1>2 DEF Claim, SelectAbsent, SelectExpired, SelectMismatch, SelectCompleted,
       SelectInProgress, SelectLapsed, Select, Finish, Insert, InsertConflict, Claimed,
       Steal, StealStale, DeleteExpired, clientVars
<1>3. CASE Execute(r) \/ Fault(r)
  BY <1>3 DEF Execute, Load, LoadLost, Complete, CompleteUncached, OperationFails,
       ReleaseLoad, ReleaseDelete, Unwind, Fault, Abandon, CommitUnacknowledged,
       ReleaseFails, Finish, StopRenewal, ExecuteFrame
<1>4. CASE Renew(r)
  BY <1>4 DEF Renew, RenewLoad, RenewWrite, StopRenewal
<1> QED
  BY <1>1, <1>2, <1>3, <1>4 DEF StepOf, Progress

LEMMA LeasesStep ==
    ASSUME TypeOK, LeasesInv, [Next]_vars
    PROVE  LeasesInv'
<1> USE ConstantsAssumption DEF TypeOK, LeasesInv
<1>1. ASSUME NEW r \in Requests, StepOf(r)
      PROVE  /\ row'.lease \in {row.lease, stamp[r], renewStamp[r], 0}
             /\ row'.expires \in {row.expires, seen[r] + Retention, 0}
  <2>1. Insert(r) => row'.lease = stamp[r] /\ row'.expires = seen[r] + Retention
    BY DEF Insert, InsertedRow
  <2>2. Steal(r) => row'.lease = stamp[r] /\ row'.expires = seen[r] + Retention
    BY DEF Steal, StolenRow, Rows
  <2>3. RenewWrite(r) => row'.lease \in {row.lease, renewStamp[r]} /\ row'.expires = row.expires
    BY DEF RenewWrite, Rows
  <2>4. Persist(r) => row'.lease = 0 /\ row'.expires = row.expires
    BY DEF Persist, CompletedRow, NoLease, Rows
  <2> QED
    BY <1>1, <2>1, <2>2, <2>3, <2>4, RowMoves DEF RowMove, Intact, NoRow, NoLease
<1>2. ASSUME NEW r \in Requests, StepOf(r)
      PROVE  LeasesInv'
  <2>1. \A s \in Requests :
            stamp'[s] <= now + Lease /\ renewStamp'[s] <= now + Lease /\ seen'[s] <= now
    BY <1>2, OthersKept, StampsWritten DEF Kept
  <2>2. row'.lease <= now + Lease /\ row'.expires <= now + Retention
    BY <1>1, <1>2 DEF Rows
  <2> QED
    BY <1>2, <2>1, <2>2, StampsWritten
<1>3. CASE Cleanup \/ Tick \/ UNCHANGED vars
  <2>1. now' \in {now, now + 1} /\ UNCHANGED <<stamp, renewStamp, seen>>
    BY <1>3 DEF Cleanup, CleanupSelect, CleanupDelete, Tick, clientVars, vars
  <2>2. row'.lease \in {row.lease, 0} /\ row'.expires \in {row.expires, 0}
    BY <1>3, EnvironmentKeeps DEF Intact, NoRow, NoLease
  <2>3. row'.lease <= now' + Lease /\ row'.expires <= now' + Retention
    BY <2>1, <2>2 DEF Rows
  <2>4. \A s \in Requests :
            stamp'[s] <= now' + Lease /\ renewStamp'[s] <= now' + Lease /\ seen'[s] <= now'
    BY <2>1
  <2> QED
    BY <2>3, <2>4
<1> QED
  BY <1>2, <1>3 DEF Next, StepOf, Finished

\* Every id that is used was minted by the insert of the request it is named
\* for, whoever stole or deleted what since, no lease anybody holds or is about
\* to write reaches further than one lease from now, and no record's retention
\* further than one retention.
THEOREM IdsAndLeases == Spec => [](IdsInv /\ LeasesInv)
<1>1. Init => IdsInv /\ LeasesInv
  BY ConstantsAssumption DEF Init, IdsInv, Ids, Minted, LeasesInv, NoRow, NoView, View,
     NoLease
<1>2. SafetyInv /\ IdsInv /\ LeasesInv /\ [Next]_vars => IdsInv' /\ LeasesInv'
  BY IdsStep, LeasesStep DEF SafetyInv
<1> QED
  BY <1>1, <1>2, SafetyInvariant, PTL DEF Spec

-----------------------------------------------------------------------------
(* No request goes round for ever.                                         *)

LEMMA UnbornFinite ==
    ASSUME IsFiniteSet(Requests)
    PROVE  /\ IsFiniteSet(Unborn)
           /\ Cardinality(Unborn) \in Nat
           /\ ChangesLeft \in Nat
<1>1. IsFiniteSet(Unborn)
  BY FS_Subset DEF Unborn
<1>2. Cardinality(Unborn) \in Nat
  BY <1>1, FS_CardinalityType
<1> QED
  BY <1>1, <1>2 DEF ChangesLeft

\* The row is inserted or deleted at the price of a change that was left.
LEMMA ChangesRunOut ==
    ASSUME SafetyInv, IdsInv, IsFiniteSet(Requests), [Next]_vars
    PROVE  /\ ChangesLeft' \in Nat
           /\ ChangesLeft' <= ChangesLeft
           /\ row'.id # row.id => ChangesLeft' < ChangesLeft
<1>1. Cardinality(Unborn) \in Nat /\ IsFiniteSet(Unborn)
  BY UnbornFinite
<1>2. Unborn' \subseteq Unborn
  BY MintedStays DEF Unborn
<1>3. /\ Cardinality(Unborn') \in Nat
      /\ Cardinality(Unborn') <= Cardinality(Unborn)
  BY <1>1, <1>2, FS_Subset, FS_CardinalityType
<1>4. CASE row'.id = row.id \/ row' = NoRow
  BY <1>1, <1>3, <1>4 DEF ChangesLeft, Absent, NoRow
<1>5. ASSUME NEW r \in Requests, Insert(r)
      PROVE  /\ row.id = None /\ row'.id # None
             /\ Cardinality(Unborn') = Cardinality(Unborn) - 1
  <2>1. claim[r] = None /\ claim' = [claim EXCEPT ![r] = r]
    BY <1>5 DEF Insert, Claimed, Goto, IdsInv, Ids, Undecided, ClaimPhase
  <2>2. r \in Unborn /\ Unborn' = Unborn \ {r}
    BY <2>1, ConstantsAssumption DEF Unborn, SafetyInv, TypeOK
  <2>3. Cardinality(Unborn') = Cardinality(Unborn) - 1
    BY <1>1, <2>2, FS_RemoveElement
  <2> QED
    BY <1>5, <2>3, ConstantsAssumption DEF Insert, Absent, InsertedRow
<1>6. (\E r \in Requests : Insert(r)) => ChangesLeft' < ChangesLeft
  BY <1>1, <1>3, <1>5 DEF ChangesLeft, Absent
<1>7. \A r \in Requests : Persist(r) => row'.id = row.id
  BY DEF Persist, CompletedRow, SafetyInv, TypeOK, Rows
<1>8. ChangesLeft \in Nat /\ ChangesLeft' \in Nat
  BY <1>1, <1>3 DEF ChangesLeft
<1> QED
  BY <1>4, <1>6, <1>7, <1>8, RowChanges DEF SameRecord, SafetyInv

LEMMA FoundStep ==
    ASSUME SafetyInv, IdsInv, FoundInv, [Next]_vars
    PROVE  FoundInv'
<1> USE DEF Hits
<1> DEFINE Found(s) ==
      /\ pc[s] = "expire" => snap[s].id # None
      /\ pc[s] \in {"replay", "replayExpire"} /\ row.id = snap[s].id =>
             row.status = "COMPLETED"
<1>1. ASSUME NEW s \in Requests, Untouched(s)
      PROVE  Found(s)'
  <2> SUFFICES ASSUME pc[s] \in {"replay", "replayExpire"}, row'.id = snap[s].id
               PROVE  row'.status = "COMPLETED"
    BY <1>1 DEF Untouched, FoundInv
  <2>1. snap[s].id # None
    BY DEF SafetyInv, TargetInv, Target, ReplayPhase
  <2>2. CASE row'.id = row.id
    BY <2>2, CompletedStep DEF FoundInv
  <2>3. \A r \in Requests : Persist(r) => row'.id = row.id
    BY DEF Persist, CompletedRow, SafetyInv, TypeOK, Rows
  <2>4. ASSUME NEW r \in Requests, Insert(r)
        PROVE  FALSE
    <3>1. row'.id = r /\ pc[r] \in Undecided
      BY <2>4 DEF Insert, InsertedRow, Claimed, Goto, Undecided, ClaimPhase
    <3> QED
      BY <3>1, UnmintedId
  <2> QED
    BY <2>1, <2>2, <2>3, <2>4, RowChanges DEF SameRecord, NoRow, SafetyInv
<1>2. ASSUME NEW r \in Requests, StepOf(r)
      PROVE  Found(r)'
  <2> USE DEF SafetyInv, TypeOK, Goto
  <2>1. CASE pc'[r] \notin {"expire", "replay", "replayExpire"}
    BY <2>1
  <2>2. CASE SelectExpired(r)
    BY <2>2 DEF SelectExpired, Select, Expired, View
  <2>3. CASE SelectCompleted(r)
    BY <2>3 DEF SelectCompleted, Select
  <2>4. CASE ReplayExpired(r)
    BY <2>4 DEF ReplayExpired, clientVars
  <2>5. CASE Renew(r)
    <3>1. Untouched(r) \/ (pc'[r] = pc[r] /\ snap'[r] = snap[r])
      BY <2>5 DEF Renew, RenewLoad, RenewWrite
    <3>2. row'.id = row.id /\ row'.status = row.status
      BY <2>5 DEF Renew, RenewLoad, RenewWrite, Rows
    <3> QED
      BY <3>1, <3>2 DEF FoundInv, Untouched
  <2>6. \/ pc'[r] \notin {"expire", "replay", "replayExpire"}
        \/ SelectExpired(r) \/ SelectCompleted(r) \/ ReplayExpired(r) \/ Renew(r)
    <3>1. Claim(r) => \/ pc'[r] \notin {"expire", "replay", "replayExpire"}
                      \/ SelectExpired(r) \/ SelectCompleted(r)
      BY DEF Claim, SelectAbsent, SelectMismatch, SelectInProgress, SelectLapsed, Select,
           Finish, Insert, InsertConflict, Claimed, Steal, StealStale, DeleteExpired
    <3>2. Execute(r) \/ Fault(r) => pc'[r] \notin {"expire", "replay", "replayExpire"}
      BY DEF Execute, Load, LoadLost, Complete, CompleteUncached, OperationFails,
           ReleaseLoad, ReleaseDelete, Unwind, Fault, Abandon, CommitUnacknowledged,
           ReleaseFails, Finish
    <3>3. ReplayRecord(r) \/ Arrive(r) =>
              pc'[r] \notin {"expire", "replay", "replayExpire"} \/ ReplayExpired(r)
      BY DEF ReplayRecord, ReplayGone, ReplayDeleteExpired, ReplayLoad, ReplayCommit,
           ReplayFails, Arrive, BeginClaim, Finish
    <3> QED
      BY <1>2, <3>1, <3>2, <3>3 DEF StepOf, Progress
  <2> QED
    BY <2>1, <2>2, <2>3, <2>4, <2>5, <2>6
<1>3. \A s \in Requests : Found(s)'
  BY <1>1, <1>2, OthersUntouched, EnvironmentUntouched DEF Next, StepOf, Finished, SafetyInv
<1> QED
  BY <1>3 DEF FoundInv

\* A step of a request takes it nearer to its end, or round again for what it
\* was about to act on has changed, or is its renewal's.
Nearer(r) == WayLeft(r)' < WayLeft(r) /\ ~Outdated(r)'
Again(r) ==
    /\ pc[r] \in {"insert", "expire", "replay", "replayExpire"} /\ pc'[r] = "select"
    /\ Outdated(r) \/ row'.id # row.id
Aside(r) == pc'[r] = pc[r] /\ snap'[r] = snap[r] /\ row'.id = row.id

LEMMA StepMoves ==
    ASSUME SafetyInv, FoundInv, NEW r \in Requests, StepOf(r)
    PROVE  Nearer(r) \/ Again(r) \/ Aside(r)
<1> USE DEF SafetyInv, TypeOK, Goto, Nearer, WayLeft, Outdated, Hits
<1>1. CASE SelectAbsent(r) \/ SelectExpired(r) \/ SelectCompleted(r) \/ SelectLapsed(r)
  <2>1. pc[r] = "select" /\ snap'[r] = View(row) /\ row' = row
    BY <1>1 DEF SelectAbsent, SelectExpired, SelectCompleted, SelectLapsed, Select
  <2>2. snap'[r].id = row'.id
    BY <2>1 DEF View
  <2>3. \/ pc'[r] = "insert" /\ row'.id = None
        \/ pc'[r] \in {"expire", "replay", "steal"}
    BY <1>1 DEF SelectAbsent, SelectExpired, SelectCompleted, SelectLapsed, Select, Absent
  <2> QED
    BY <2>1, <2>2, <2>3 DEF Absent
<1>2. CASE SelectMismatch(r) \/ SelectInProgress(r) \/ StealStale(r)
  BY <1>2 DEF SelectMismatch, SelectInProgress, StealStale, Finish
<1>3. CASE Insert(r) \/ Steal(r)
  BY <1>3 DEF Insert, Steal, Claimed
<1>4. CASE InsertConflict(r)
  BY <1>4 DEF InsertConflict, Again
<1>5. CASE DeleteExpired(r)
  <2>1. /\ pc[r] = "expire" /\ pc'[r] = "select"
        /\ row' = IF row.id = snap[r].id THEN NoRow ELSE row
    BY <1>5 DEF DeleteExpired, DeleteRow
  <2> QED
    BY <2>1 DEF FoundInv, Again, NoRow
<1>6. CASE Execute(r) \/ CommitUnacknowledged(r) \/ ReleaseFails(r)
  BY <1>6 DEF Execute, Load, LoadLost, Complete, CompleteUncached, OperationFails,
       ReleaseLoad, ReleaseDelete, Unwind, CommitUnacknowledged, ReleaseFails
<1>7. CASE Abandon(r)
  BY <1>7 DEF Abandon, Finish, Running, ClaimPhase, ReplayPhase, ExecutePhase
<1>8. CASE ReplayGone(r)
  BY <1>8 DEF ReplayGone, BeginClaim, FoundInv, Again
<1>9. CASE ReplayDeleteExpired(r)
  <2>1. /\ pc[r] = "replayExpire" /\ pc'[r] = "select"
        /\ row' = IF row.id = snap[r].id THEN NoRow ELSE row
    BY <1>9 DEF ReplayDeleteExpired, BeginClaim, DeleteRow
  <2>2. snap[r].id # None
    BY <2>1 DEF TargetInv, Target, ReplayPhase
  <2> QED
    BY <2>1, <2>2 DEF Again, NoRow
<1>10. CASE ReplayExpired(r) \/ ReplayLoad(r)
  BY <1>10 DEF ReplayExpired, ReplayLoad, clientVars
<1>11. CASE ReplayCommit(r) \/ ReplayFails(r)
  BY <1>11 DEF ReplayCommit, ReplayFails, Finish
<1>12. CASE Arrive(r)
  BY <1>12 DEF Arrive, BeginClaim
<1>13. CASE Renew(r)
  BY <1>13 DEF Renew, RenewLoad, RenewWrite, Aside, Rows
<1> QED
  BY <1>1, <1>2, <1>3, <1>4, <1>5, <1>6, <1>7, <1>8, <1>9, <1>10, <1>11, <1>12, <1>13
     DEF StepOf, Progress, Claim, ReplayRecord, Fault

LEMMA StepCounts ==
    ASSUME SafetyInv, SafetyInv', IdsInv, FoundInv, IsFiniteSet(Requests), [Next]_vars,
           NEW r \in Requests
    PROVE  /\ StepsLeft(r)' <= StepsLeft(r)
           /\ pc'[r] # pc[r] => StepsLeft(r)' < StepsLeft(r)
<1>1. WayLeft(r) \in 0 .. 10 /\ WayLeft(r)' \in 0 .. 10
  <2>1. TypeOK /\ TypeOK'
    BY DEF SafetyInv
  <2> QED
    BY <2>1 DEF TypeOK, WayLeft, Running, ClaimPhase, ReplayPhase, ExecutePhase
<1>2. /\ ChangesLeft \in Nat /\ ChangesLeft' \in Nat
      /\ ChangesLeft' <= ChangesLeft
      /\ row'.id # row.id => ChangesLeft' < ChangesLeft
  BY UnbornFinite, ChangesRunOut
<1>3. CASE Nearer(r)
  BY <1>1, <1>2, <1>3 DEF Nearer, StepsLeft
<1>4. CASE Again(r)
  <2>1. ~Outdated(r)' /\ WayLeft(r)' = 9 /\ WayLeft(r) >= 7
    BY <1>4 DEF Again, Outdated, WayLeft
  <2>2. Outdated(r) \/ ChangesLeft' < ChangesLeft
    BY <1>2, <1>4 DEF Again
  <2> QED
    BY <1>1, <1>2, <2>1, <2>2 DEF StepsLeft
<1>5. CASE pc'[r] = pc[r] /\ snap'[r] = snap[r]
  <2>1. WayLeft(r)' = WayLeft(r)
    BY <1>5 DEF WayLeft
  <2>2. row'.id = row.id => (Outdated(r)' <=> Outdated(r))
    BY <1>5 DEF Outdated, Absent, Hits
  <2> QED
    BY <1>1, <1>2, <1>5, <2>1, <2>2 DEF StepsLeft
<1>6. ASSUME NEW s \in Requests, StepOf(s)
      PROVE  Nearer(r) \/ Again(r) \/ (pc'[r] = pc[r] /\ snap'[r] = snap[r])
  BY <1>6, StepMoves, OthersUntouched DEF Aside, Untouched, SafetyInv
<1> QED
  BY <1>3, <1>4, <1>5, <1>6, EnvironmentUntouched DEF Untouched, Next, StepOf, Finished

LEMMA FoundInvariant == Spec => []FoundInv
<1>1. Init => FoundInv
  BY DEF Init, FoundInv
<1>2. SafetyInv /\ IdsInv /\ FoundInv /\ [Next]_vars => FoundInv'
  BY FoundStep
<1> QED
  BY <1>1, <1>2, SafetyInvariant, IdsAndLeases, PTL DEF Spec

\* However requests, retries, the cleanup job and faults interleave, a request
\* is never thrown back: each of its steps takes it nearer to its end and
\* nobody else's takes it away from there ...
THEOREM NoEndlessRound ==
    ASSUME IsFiniteSet(Requests)
    PROVE  Spec => EveryStepCounts
<1>1. SafetyInv /\ SafetyInv' /\ IdsInv /\ FoundInv /\ [Next]_vars =>
        [\A r \in Requests : /\ StepsLeft(r)' <= StepsLeft(r)
                             /\ pc'[r] # pc[r] => StepsLeft(r)' < StepsLeft(r)]_vars
  BY StepCounts
<1> QED
  BY <1>1, SafetyInvariant, IdsAndLeases, FoundInvariant, PTL DEF Spec, EveryStepCounts

\* ... from which it is never further than six steps for each request there is,
\* and the ten of a request that is alone.
THEOREM StepsBounded ==
    ASSUME IsFiniteSet(Requests)
    PROVE  Spec => [](\A r \in Requests :
                          StepsLeft(r) \in 0 .. 6 * Cardinality(Requests) + 10)
<1>1. ASSUME SafetyInv, IdsInv, FoundInv, NEW r \in Requests
      PROVE  StepsLeft(r) \in 0 .. 6 * Cardinality(Requests) + 10
  <2>1. Cardinality(Unborn) \in Nat /\ Cardinality(Requests) \in Nat
    BY UnbornFinite, FS_CardinalityType
  <2>2. Cardinality(Unborn) <= Cardinality(Requests)
    BY FS_Subset DEF Unborn
  <2>3. ASSUME NEW i \in Requests, claim[i] = i
        PROVE  Cardinality(Unborn) <= Cardinality(Requests) - 1
    <3>1. Unborn # Requests
      BY <2>3 DEF Unborn
    <3> QED
      BY <2>1, <2>2, <3>1, FS_Subset DEF Unborn
  <2>4. WayLeft(r) \in 0 .. 10
    BY <1>1 DEF SafetyInv, TypeOK, WayLeft, Running, ClaimPhase, ReplayPhase, ExecutePhase
  <2>5. ~Absent => Cardinality(Unborn) <= Cardinality(Requests) - 1
    BY <1>1, <2>3 DEF Absent, SafetyInv, TypeOK, Rows, IdsInv, Minted
  <2>6. CASE Outdated(r)
    <3>1. WayLeft(r) <= 8
      BY <2>6 DEF Outdated, WayLeft
    <3>2. CASE pc[r] = "insert"
      BY <2>1, <2>4, <2>5, <2>6, <3>1, <3>2 DEF Outdated, StepsLeft, ChangesLeft
    <3>3. CASE pc[r] # "insert"
      <4>1. snap[r].id \in Requests
        BY <1>1, <2>6, <3>3
           DEF Outdated, FoundInv, SafetyInv, TypeOK, TargetInv, Target, ReplayPhase
      <4>2. Cardinality(Unborn) <= Cardinality(Requests) - 1
        BY <1>1, <2>3, <4>1, ConstantsAssumption DEF IdsInv, Ids, Minted
      <4> QED
        BY <2>1, <2>4, <2>6, <3>1, <4>2 DEF StepsLeft, ChangesLeft
    <3> QED
      BY <3>2, <3>3
  <2>7. CASE ~Outdated(r)
    BY <2>1, <2>2, <2>4, <2>5, <2>7 DEF StepsLeft, ChangesLeft
  <2> QED
    BY <2>6, <2>7
<1>2. SafetyInv /\ IdsInv /\ FoundInv =>
        \A r \in Requests : StepsLeft(r) \in 0 .. 6 * Cardinality(Requests) + 10
  BY <1>1
<1> QED
  BY <1>2, SafetyInvariant, IdsAndLeases, FoundInvariant, PTL

============================================================================
