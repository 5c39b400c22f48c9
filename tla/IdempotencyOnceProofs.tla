----------------------- MODULE IdempotencyOnceProofs -----------------------
(***************************************************************************)
(* Exactly-once execution, for every set of requests, payloads, faults,    *)
(* lease, retention and clock bound, while holders are punctual and no two *)
(* takeovers of the claim overlap; the lifetime of a kept result while     *)
(* nobody takes the claim over at all; and who performs the operation at   *)
(* the same time.                                                          *)
(***************************************************************************)
EXTENDS IdempotencyProofs

\* One request and one retry of it.
TwoAttempts == \A a, b, c \in Requests : a = b \/ b = c \/ a = c

\* Holders are punctual, and either nothing is cut short or there is one retry.
Orderly == Punctual /\ (Faulty = {} \/ TwoAttempts)

-----------------------------------------------------------------------------
(* While no two takeovers overlap and every holder is punctual.            *)

Apart == Punctual /\ SafetyInv /\ ApartInv

\* A request about to commit under the claim it loaded is the row's owner.
LEMMA CompleterOwns ==
    ASSUME Apart, NEW r \in Requests, pc[r] \in {"load", "operate"}, row.id = claim[r]
    PROVE  row.status = "PROCESSING" /\ row.owner = r /\ row.result = None
  BY DEF Apart, SafetyInv, RowInv, TargetInv, Target, ExecutePhase, ApartInv, RequestInv,
     Excluded

\* The owner a thief replaces has ended.
LEMMA ThiefFindsDone ==
    ASSUME Apart, NEW r \in Requests, Steal(r)
    PROVE  /\ row.status = "PROCESSING" /\ row.owner \in Requests /\ row.owner # r
           /\ pc[row.owner] = "done" /\ row.result = None
           /\ pc[r] = "steal" /\ stamp[r] > now
           /\ row'.id = row.id /\ row'.status = row.status /\ row'.result = row.result
           /\ row'.owner = r /\ row'.lease = stamp[r] /\ claim'[r] = row.id
  BY ConstantsAssumption
     DEF Apart, SafetyInv, TypeOK, Rows, RowInv, Steal, StolenRow, Hits, Claimed, Goto,
         ApartInv, RequestInv, StealInv, OwnerInv, StampInv, ClaimPhase

\* The renewal task of a request that writes the row has no other owner beside it.
LEMMA RenewerOwns ==
    ASSUME Apart, NEW r \in Requests, RenewWrite(r), Hits(claim[r])
    PROVE  /\ row.id # None /\ pc[r] \in ExecutePhase
           /\ \/ row.status = "PROCESSING" /\ row.owner = r
              \/ row.status = "COMPLETED" /\ row.owner = None
           /\ row' = [row EXCEPT !.lease = renewStamp[r]]
           /\ UNCHANGED <<pc, claim, effect, snap, stamp>>
  BY DEF Apart, SafetyInv, RowInv, TargetInv, Target, RenewWrite, Hits, ExecutePhase,
         ApartInv, IdsInv, Ids, RequestInv, Excluded, OwnerInv

\* Whoever takes no step keeps its part of the invariant.
LEMMA BystanderStep ==
    ASSUME Apart, TakeoversApart, [Next]_vars,
           NEW r \in Requests, NEW s \in Requests, s # r, StepOf(r)
    PROVE  RequestInv(s)'
<1> USE ConstantsAssumption
    DEF SafetyInv, TypeOK, Rows, RowInv, Kept, Untouched, RequestInv, Excluded, StampInv,
        RenewInv, StealInv, StandingInv
<1>0. SafetyInv /\ RequestInv(s) /\ OwnerInv
  BY DEF Apart, ApartInv
<1>1. Kept(s) /\ now' = now
  BY <1>0, OthersKept, StampsWritten
<1>2. /\ pc[s] \in {"steal", "replayCommit"} => snap[s].id # None
      /\ effect[s] # "none" => claim[s] # None
  BY <1>0 DEF TargetInv, Target, ReplayPhase
<1>3. CASE Intact
  <2>1. row.status = "PROCESSING" => row.owner \in Requests
    BY <1>0 DEF OwnerInv
  <2>2. row.status = "PROCESSING" /\ pc[row.owner] = "done" => pc'[row.owner] = "done"
    BY <1>0, <2>1, DoneStays
  <2> QED
    BY <1>0, <1>1, <1>3, <2>2 DEF Intact
<1>4. CASE row' = NoRow
  BY <1>0, <1>1, <1>2, <1>4 DEF NoRow
<1>5. CASE Insert(r)
  <2>1. pc[r] \in Undecided
    BY <1>5 DEF Insert, Claimed, Goto, Undecided, ClaimPhase
  <2>2. claim[s] # r /\ snap[s].id # r
    BY <1>0, <2>1, UnmintedId DEF Apart, ApartInv
  <2> QED
    BY <1>0, <1>1, <1>5, <2>2 DEF Insert, InsertedRow
<1>6. CASE Steal(r)
  <2>1. pc[s] # "steal"
    BY <1>6, ThiefFindsDone DEF TakeoversApart
  <2> QED
    BY <1>0, <1>1, <1>6, <2>1, ThiefFindsDone
<1>7. CASE pc[r] = "operate" /\ Persist(r)
  <2>1. row.id = claim[r]
    BY <1>7 DEF Persist, Hits
  <2>2. row.status = "PROCESSING" /\ row.owner = r
    BY <1>7, <2>1, CompleterOwns
  <2>3. /\ row'.id = row.id /\ row'.status = "COMPLETED" /\ row'.owner = None
        /\ row'.result = r
    BY <1>7 DEF Persist, CompletedRow
  <2> QED
    BY <1>0, <1>1, <1>7, <2>2, <2>3
<1>8. CASE RenewWrite(r) /\ Hits(claim[r])
  BY <1>0, <1>1, <1>8, RenewerOwns
<1>9. CASE RenewWrite(r) /\ ~Hits(claim[r])
  BY <1>3, <1>9 DEF RenewWrite, Intact
<1> QED
  BY <1>0, <1>3, <1>4, <1>5, <1>6, <1>7, <1>8, <1>9, RowMoves DEF RowMove

\* A row in PROCESSING keeps an owner who has claimed it and runs under its lease.
LEMMA OwnerStep ==
    ASSUME Apart, [Next]_vars, NEW r \in Requests, StepOf(r)
    PROVE  OwnerInv'
<1> USE ConstantsAssumption DEF SafetyInv, TypeOK, Rows, OwnerInv
<1>0. SafetyInv /\ OwnerInv
  BY DEF Apart, ApartInv
<1>1. now' = now
  BY <1>0, StampsWritten
<1>2. ASSUME NEW o \in Requests, pc[o] \in ExecutePhase
      PROVE  pc'[o] \in ExecutePhase \cup {"done"}
  <2>1. CASE o # r
    BY <1>0, <1>2, <2>1, OthersUntouched DEF Untouched
  <2>2. CASE o = r
    <3>1. /\ pc[r] \in ExecutePhase
          /\ Renew(r) \/ Execute(r) \/ Fault(r)
      BY <1>2, <2>2 DEF StepOf, Progress, Arrive, Claim, ReplayRecord, Goto, BeginClaim,
         Finish, Claimed, Select, SelectAbsent, SelectExpired, SelectMismatch,
         SelectCompleted, SelectInProgress, SelectLapsed, Insert, InsertConflict, Steal,
         StealStale, DeleteExpired, ReplayGone, ReplayExpired, ReplayDeleteExpired,
         ReplayLoad, ReplayCommit, ReplayFails, ExecutePhase
    <3>2. CASE Renew(r)
      BY <1>2, <2>2, <3>2 DEF Renew, RenewLoad, RenewWrite
    <3>3. CASE Execute(r)
      BY <1>0, <2>2, <3>3 DEF Execute, Load, LoadLost, Complete, CompleteUncached,
         OperationFails, ReleaseLoad, ReleaseDelete, Unwind, Goto, ExecutePhase
    <3>4. CASE Fault(r)
      BY <1>0, <2>2, <3>4 DEF Fault, Abandon, Finish, CommitUnacknowledged, ReleaseFails,
         Goto, ExecutePhase
    <3> QED
      BY <3>1, <3>2, <3>3, <3>4
  <2> QED
    BY <2>1, <2>2
<1>3. ASSUME row'.id = row.id, row'.status = row.status, row'.owner = row.owner,
             row.status = "PROCESSING" /\ row.lease > now => row'.lease > now
      PROVE  OwnerInv'
  <2> SUFFICES ASSUME row.status = "PROCESSING"
               PROVE  /\ claim'[row.owner] = row.id
                      /\ \/ pc'[row.owner] = "done"
                         \/ pc'[row.owner] \in ExecutePhase /\ row'.lease > now
    BY <1>0, <1>1, <1>3
  <2>1. row.owner \in Requests /\ pc[row.owner] \notin Undecided
    BY <1>0 DEF Undecided, ClaimPhase, ReplayPhase, ExecutePhase
  <2>2. claim'[row.owner] = row.id
    BY <1>0, <2>1, ClaimHeld
  <2> QED
    BY <1>0, <1>2, <1>3, <2>1, <2>2, DoneStays
<1>4. CASE Intact
  BY <1>3, <1>4 DEF Intact
<1>5. CASE row' = NoRow
  BY <1>5 DEF NoRow
<1>6. CASE Insert(r)
  <2>1. stamp[r] > now
    BY <1>6 DEF Insert, Claimed, Goto, ClaimPhase, Apart, ApartInv, RequestInv, StampInv
  <2> QED
    BY <1>0, <1>1, <1>6, <2>1 DEF Insert, InsertedRow, Claimed, Goto, ExecutePhase
<1>7. CASE Steal(r)
  <2>1. pc'[r] = "load"
    BY <1>0, <1>7 DEF Steal, Claimed, Goto
  <2> QED
    BY <1>1, <1>7, <2>1, ThiefFindsDone DEF ExecutePhase
<1>8. CASE pc[r] = "operate" /\ Persist(r)
  BY <1>0, <1>8 DEF Persist, CompletedRow
<1>9. CASE RenewWrite(r) /\ Hits(claim[r])
  <2>1. row' = [row EXCEPT !.lease = renewStamp[r]]
    BY <1>9, RenewerOwns
  <2>2. row.status = "PROCESSING" => row.lease <= renewStamp[r]
    BY <1>9, RenewerOwns DEF RenewWrite, Apart, ApartInv, RequestInv, RenewInv
  <2>3. row.status = "PROCESSING" /\ row.lease > now => row'.lease > now
    BY <1>0, <2>1, <2>2
  <2> QED
    BY <1>0, <1>3, <2>1, <2>3
<1>10. CASE RenewWrite(r) /\ ~Hits(claim[r])
  BY <1>3, <1>10 DEF RenewWrite
<1> QED
  BY <1>0, <1>4, <1>5, <1>6, <1>7, <1>8, <1>9, <1>10, RowMoves DEF RowMove

\* The request that takes a step keeps its part too: while it looks for a claim ...
LEMMA SeekingOwnStep ==
    ASSUME Apart, [Next]_vars, NEW r \in Requests,
           Arrive(r) \/ Claim(r) \/ ReplayRecord(r)
    PROVE  RequestInv(r)'
<1> USE ConstantsAssumption
    DEF SafetyInv, TypeOK, Rows, RequestInv, Excluded, StampInv, RenewInv, StealInv,
        StandingInv, Goto, Undecided, ClaimPhase, ReplayPhase, ExecutePhase
<1>0. /\ SafetyInv /\ RequestInv(r) /\ OwnerInv /\ IdsInv
      /\ now' = now
  BY StampsWritten DEF Apart, ApartInv, StepOf, Progress
<1>1. /\ pc[r] \in Undecided
      /\ claim[r] = None /\ renewal[r] = "off" /\ effect[r] = "none"
  <2>1. pc[r] \in Undecided
    BY DEF Arrive, BeginClaim, Claim, SelectAbsent, SelectExpired, SelectMismatch,
       SelectCompleted, SelectInProgress, SelectLapsed, Select, Finish, Insert,
       InsertConflict, Claimed, Steal, StealStale, DeleteExpired, ReplayRecord,
       ReplayGone, ReplayExpired, ReplayDeleteExpired, ReplayLoad, ReplayCommit, ReplayFails
  <2> QED
    BY <1>0, <2>1 DEF IdsInv, Ids, OutcomeInv, Outcome
<1>2. ASSUME UNCHANGED <<claim, renewal, effect>>,
             pc'[r] \in ClaimPhase => stamp'[r] > now,
             pc'[r] \notin {"steal", "replayCommit"}
      PROVE  RequestInv(r)'
  BY <1>0, <1>1, <1>2
<1>3. CASE Arrive(r)
  BY <1>0, <1>2, <1>3 DEF Arrive, BeginClaim
<1>4. CASE SelectAbsent(r) \/ SelectExpired(r) \/ SelectCompleted(r)
  BY <1>0, <1>2, <1>4 DEF SelectAbsent, SelectExpired, SelectCompleted, Select
<1>5. CASE SelectLapsed(r)
  <2>1. row.status = "PROCESSING" /\ pc[row.owner] = "done"
    BY <1>0, <1>5 DEF SelectLapsed, Fresh, LeaseHeld, RowInv, OwnerInv
  <2>2. row' = row /\ stamp'[r] = stamp[r] /\ pc[r] = "select" /\ pc'[r] = "steal"
        /\ pc' = [pc EXCEPT ![r] = "steal"] /\ UNCHANGED <<claim, renewal, effect>>
    BY <1>0, <1>5 DEF SelectLapsed, Select
  <2>3. row.owner # r /\ row.owner \in Requests
    BY <1>0, <2>1, <2>2 DEF OwnerInv
  <2> QED
    BY <1>0, <1>1, <2>1, <2>2, <2>3
<1>6. CASE SelectMismatch(r) \/ SelectInProgress(r) \/ StealStale(r)
  BY <1>0, <1>2, <1>6 DEF SelectMismatch, SelectInProgress, StealStale, Finish
<1>7. CASE InsertConflict(r) \/ DeleteExpired(r)
  BY <1>0, <1>2, <1>7 DEF InsertConflict, DeleteExpired, clientVars
<1>8. CASE Insert(r)
  BY <1>0, <1>1, <1>8 DEF Insert, InsertedRow, Claimed
<1>9. CASE Steal(r)
  <2>1. pc'[r] = "load" /\ UNCHANGED <<effect, renewStamp>> /\ renewal'[r] = "sleep"
    BY <1>0, <1>9 DEF Steal, Claimed
  <2> QED
    BY <1>0, <1>1, <1>9, <2>1, ThiefFindsDone
<1>10. CASE ReplayGone(r) \/ ReplayDeleteExpired(r)
  BY <1>0, <1>2, <1>10 DEF ReplayGone, ReplayDeleteExpired, BeginClaim
<1>11. CASE ReplayExpired(r)
  BY <1>0, <1>2, <1>11 DEF ReplayExpired, clientVars
<1>12. CASE ReplayLoad(r)
  BY <1>0, <1>1, <1>12 DEF ReplayLoad, View
<1>13. CASE ReplayCommit(r) \/ ReplayFails(r)
  BY <1>0, <1>2, <1>13 DEF ReplayCommit, ReplayFails, Finish
<1> QED
  BY <1>3, <1>4, <1>5, <1>6, <1>7, <1>8, <1>9, <1>10, <1>11, <1>12, <1>13
     DEF Claim, ReplayRecord

\* ... and while it executes, is cut short or renews.
LEMMA ExecutingOwnStep ==
    ASSUME Apart, [Next]_vars, NEW r \in Requests, Execute(r) \/ Fault(r) \/ Renew(r)
    PROVE  RequestInv(r)'
<1> USE ConstantsAssumption
    DEF SafetyInv, TypeOK, Rows, RequestInv, Excluded, StampInv, RenewInv, StealInv,
        StandingInv, Goto, Undecided, ClaimPhase, ReplayPhase, ExecutePhase
<1>0. /\ SafetyInv /\ RequestInv(r) /\ OwnerInv /\ IdsInv /\ LeasesInv
      /\ now' = now
  BY StampsWritten DEF Apart, ApartInv, StepOf, Progress
<1>1. CASE Load(r) \/ LoadLost(r) \/ OperationFails(r)
  BY <1>0, <1>1 DEF Load, LoadLost, OperationFails, ExecuteFrame, Owned
<1>2. CASE ReleaseLoad(r) \/ ReleaseFails(r)
  BY <1>0, <1>2 DEF ReleaseLoad, ReleaseFails, ExecuteFrame, Owned, OwnedProcessing
<1>3. CASE ReleaseDelete(r)
  BY <1>0, <1>3 DEF ReleaseDelete, ExecuteFrame, DeleteRow, Hits, NoRow, TargetInv, Target
<1>4. CASE Unwind(r)
  BY <1>0, <1>4 DEF Unwind, StopRenewal
<1>5. ASSUME pc[r] = "operate", pc'[r] \in {"unwind", "release"}, Discard(r), ExecuteFrame
      PROVE  RequestInv(r)'
  BY <1>0, <1>5 DEF Discard, ExecuteFrame, DeleteRow, Hits, NoRow
<1>6. ASSUME pc[r] = "operate", pc'[r] \in {"unwind", "release"}, Persist(r), ExecuteFrame
      PROVE  RequestInv(r)'
  <2>1. /\ row'.id = row.id /\ row'.status = "COMPLETED" /\ row'.owner = None
        /\ row'.result = r
    BY <1>0, <1>6 DEF Persist, CompletedRow
  <2> QED
    BY <1>0, <1>6, <2>1 DEF ExecuteFrame
<1>7. CASE Complete(r) \/ CompleteUncached(r) \/ CommitUnacknowledged(r)
  BY <1>0, <1>5, <1>6, <1>7 DEF Complete, CompleteUncached, CommitUnacknowledged
<1>8. CASE Abandon(r)
  BY <1>0, <1>8 DEF Abandon, Finish, StopRenewal
<1>9. CASE RenewLoad(r)
  BY <1>0, <1>9 DEF RenewLoad, StopRenewal, LeasesInv
<1>10. CASE RenewWrite(r) /\ Hits(claim[r])
  <2>1. renewal'[r] = "sleep"
    BY <1>0, <1>10 DEF RenewWrite
  <2> QED
    BY <1>0, <1>10, <2>1, RenewerOwns
<1>11. CASE RenewWrite(r) /\ ~Hits(claim[r])
  BY <1>0, <1>11 DEF RenewWrite
<1> QED
  BY <1>1, <1>2, <1>3, <1>4, <1>7, <1>8, <1>9, <1>10, <1>11 DEF Execute, Fault, Renew

LEMMA ExecutedOnceStep ==
    ASSUME Apart, [Next]_vars
    PROVE  ExecutedOnce'
<1>0. /\ SafetyInv /\ TypeOK /\ OutcomeInv /\ ExecutedOnce
      /\ \A s \in Requests : StandingInv(s)
  BY DEF Apart, SafetyInv, ApartInv, RequestInv
<1>1. CASE effect' = effect
  BY <1>0, <1>1, ClaimStays DEF ExecutedOnce
<1>2. ASSUME NEW r \in Requests, pc[r] = "operate", Persist(r)
      PROVE  ExecutedOnce'
  <2>1. row.id = claim[r] /\ row.result = None
    BY <1>2, CompleterOwns DEF Persist, Hits
  <2>2. claim'[r] = claim[r]
    BY <1>0, <1>2, ClaimHeld DEF Undecided, ClaimPhase, ReplayPhase
  <2>3. ASSUME NEW s \in Requests, s # r, effect'[s] = "persisted"
        PROVE  claim'[s] # claim'[r] /\ effect[s] = "persisted" /\ claim'[s] = claim[s]
    <3>1. effect[s] = "persisted"
      BY <1>0, <1>2, <2>3 DEF Persist, TypeOK
    <3>2. claim'[s] = claim[s]
      BY <1>0, <3>1, ClaimStays
    <3> QED
      BY <1>0, <2>1, <2>2, <3>1, <3>2, ConstantsAssumption DEF StandingInv
  <2> QED
    BY <1>0, <2>3 DEF ExecutedOnce
<1>3. ASSUME NEW r \in Requests, effect' = [effect EXCEPT ![r] = "unpersisted"]
      PROVE  ExecutedOnce'
  BY <1>0, <1>3, ClaimStays DEF ExecutedOnce, TypeOK
<1> QED
  BY <1>0, <1>1, <1>2, <1>3, EffectChanges

\* Time: nobody lets it pass the lease of a live request.
LEMMA TickApartStep ==
    ASSUME Apart, Tick
    PROVE  OwnerInv' /\ \A s \in Requests : RequestInv(s)'
<1> USE ConstantsAssumption DEF SafetyInv, TypeOK, Rows
<1>0. /\ SafetyInv /\ OwnerInv /\ \A s \in Requests : RequestInv(s)
      /\ now' = now + 1
      /\ UNCHANGED <<row, pc, stamp, snap, claim, effect, renewal, renewStamp>>
      /\ \A s \in Requests : Live(s) => now + 1 < Deadline(s)
  BY DEF Apart, ApartInv, Tick, clientVars
<1>1. OwnerInv'
  <2>1. ASSUME row.status = "PROCESSING", pc[row.owner] \in ExecutePhase
        PROVE  row.lease > now + 1
    <3>1. row.owner \in Requests
      BY <1>0, <2>1 DEF OwnerInv
    <3>2. Live(row.owner) /\ Deadline(row.owner) = row.lease
      BY <1>0, <2>1, <3>1
         DEF OwnerInv, Live, Deadline, OwnedProcessing, Owned, ExecutePhase, ClaimPhase
    <3> QED
      BY <1>0, <3>1, <3>2
  <2> QED
    BY <1>0, <2>1 DEF OwnerInv
<1>2. ASSUME NEW s \in Requests
      PROVE  RequestInv(s)'
  <2>1. pc[s] \in ClaimPhase => stamp[s] > now + 1
    BY <1>0 DEF Live, Deadline
  <2> QED
    BY <1>0, <2>1 DEF RequestInv, Excluded, StampInv, RenewInv, StealInv, StandingInv
<1> QED
  BY <1>1, <1>2

LEMMA CleanupApartStep ==
    ASSUME Apart, Cleanup \/ UNCHANGED vars
    PROVE  OwnerInv' /\ \A s \in Requests : RequestInv(s)'
<1> USE ConstantsAssumption DEF SafetyInv, TypeOK, Rows
<1>0. /\ SafetyInv /\ OwnerInv /\ \A s \in Requests : RequestInv(s)
      /\ UNCHANGED <<now, pc, stamp, snap, claim, effect, renewal, renewStamp>>
      /\ row' = row \/ row' = NoRow
  BY DEF Apart, ApartInv, Cleanup, CleanupSelect, CleanupDelete, DeleteRow, clientVars,
         vars
<1>1. OwnerInv'
  BY <1>0 DEF OwnerInv, NoRow
<1>2. ASSUME NEW s \in Requests
      PROVE  RequestInv(s)'
  <2>1. /\ pc[s] \in {"steal", "replayCommit"} => snap[s].id # None
        /\ effect[s] # "none" => claim[s] # None
    BY <1>0 DEF TargetInv, Target, ReplayPhase
  <2> QED
    BY <1>0, <2>1
       DEF NoRow, RequestInv, Excluded, StampInv, RenewInv, StealInv, StandingInv
<1> QED
  BY <1>1, <1>2

LEMMA ApartStep ==
    ASSUME Apart, TakeoversApart, [Next]_vars
    PROVE  ApartInv'
<1>1. ASSUME NEW r \in Requests, StepOf(r)
      PROVE  OwnerInv' /\ \A s \in Requests : RequestInv(s)'
  BY <1>1, OwnerStep, BystanderStep, SeekingOwnStep, ExecutingOwnStep
     DEF StepOf, Progress
<1>2. OwnerInv' /\ \A s \in Requests : RequestInv(s)'
  BY <1>1, TickApartStep, CleanupApartStep DEF Next, StepOf, Finished
<1>3. IdsInv' /\ LeasesInv' /\ ExecutedOnce'
  BY IdsStep, LeasesStep, ExecutedOnceStep DEF Apart, SafetyInv, ApartInv
<1> QED
  BY <1>2, <1>3 DEF ApartInv

LEMMA ApartInit == Init => ApartInv
<1> SUFFICES ASSUME Init PROVE ApartInv
  OBVIOUS
<1>1. IdsInv /\ LeasesInv
  BY ConstantsAssumption DEF Init, IdsInv, Ids, Minted, LeasesInv, NoRow, NoView, View,
     NoLease
<1> QED
  BY <1>1, ConstantsAssumption
     DEF Init, ApartInv, OwnerInv, RequestInv, Excluded, StampInv, RenewInv, StealInv,
         StandingInv, ExecutedOnce, NoRow, ClaimPhase

\* Whoever is cut short, crashes or loses the database: while holders are
\* punctual and no two requests are at once between reading a lapsed lease and
\* taking it over, a row in PROCESSING has one owner, who is the only request
\* that can still execute under it.
THEOREM ApartInvariant ==
    ASSUME Punctual
    PROVE  Spec /\ []TakeoversApart => []ApartInv
<1>1. SafetyInv /\ ApartInv /\ TakeoversApart /\ [Next]_vars => ApartInv'
  BY ApartStep DEF Apart
<1> QED
  BY <1>1, ApartInit, SafetyInvariant, PTL DEF Spec

-----------------------------------------------------------------------------
(* When takeovers are apart.                                               *)

\* The id a thief is after was minted by a request that is past its claim, so
\* two thieves and the owner are three requests.
LEMMA TwoAttemptsApart ==
    ASSUME TwoAttempts, SafetyInv, IdsInv
    PROVE  TakeoversApart
<1> SUFFICES ASSUME NEW r \in Requests, NEW s \in Requests,
                    pc[r] = "steal", pc[s] = "steal"
             PROVE  r = s
  BY DEF TakeoversApart
<1>1. snap[r].id \in Requests /\ claim[snap[r].id] = snap[r].id
  BY DEF SafetyInv, TypeOK, TargetInv, Target, IdsInv, Ids, Minted
<1>2. claim[r] = None /\ claim[s] = None
  BY DEF IdsInv, Ids, Undecided, ClaimPhase
<1>3. snap[r].id # r /\ snap[r].id # s
  BY <1>1, <1>2, ConstantsAssumption
<1> QED
  BY <1>1, <1>3 DEF TwoAttempts

LEMMA CalmStep ==
    ASSUME Faulty = {}, Apart, CalmInv, [Next]_vars
    PROVE  CalmInv'
<1> USE ConstantsAssumption
    DEF SafetyInv, TypeOK, Rows, RowInv, CalmInv, NoTakeover, Goto, Undecided,
        ClaimPhase, ReplayPhase, ExecutePhase
<1>0. /\ SafetyInv /\ OwnerInv /\ IdsInv
      /\ \A s \in Requests : row.owner = s => row.id = claim[s] /\ row.id # None
                                              /\ row.status = "PROCESSING"
  BY DEF Apart, ApartInv, OwnerInv
<1>1. ASSUME NEW r \in Requests, StepOf(r)
      PROVE  /\ row'.owner \in {row.owner, None, r}
             /\ row'.owner = r /\ row.owner # r => pc'[r] = "load"
  <2>1. Insert(r) => row'.owner = r /\ pc'[r] = "load"
    BY <1>0 DEF Insert, InsertedRow, Claimed
  <2>2. ~Steal(r)
    BY DEF Steal
  <2>3. RenewWrite(r) => row'.owner = row.owner
    BY <1>0 DEF RenewWrite
  <2>4. Persist(r) => row'.owner = None
    BY <1>0 DEF Persist, CompletedRow
  <2> QED
    BY <1>0, <1>1, <2>1, <2>2, <2>3, <2>4, RowMoves DEF RowMove, Intact, NoRow
<1>2. ASSUME NEW r \in Requests, StepOf(r), pc[r] \in Undecided
      PROVE  pc'[r] # "steal" /\ (pc'[r] \in {"unwind", "done"} => row.owner # r)
  <2>1. row.owner # r
    BY <1>0, <1>2 DEF IdsInv, Ids
  <2>2. ~SelectLapsed(r)
    BY <1>0 DEF SelectLapsed, Fresh, LeaseHeld, OwnerInv
  <2>3. pc'[r] # "steal"
    BY <1>0, <1>2, <2>2 DEF StepOf, Progress, Arrive, BeginClaim, Claim, SelectAbsent,
       SelectExpired, SelectMismatch, SelectCompleted, SelectInProgress, Select, Finish,
       Insert, InsertConflict, Claimed, Steal, StealStale, DeleteExpired, Execute, Load,
       LoadLost, Complete, CompleteUncached, OperationFails, ReleaseLoad, ReleaseDelete,
       Unwind, ReplayRecord, ReplayGone, ReplayExpired, ReplayDeleteExpired, ReplayLoad,
       ReplayCommit, ReplayFails, Fault, Abandon, CommitUnacknowledged, ReleaseFails,
       Renew, RenewLoad, RenewWrite
  <2> QED
    BY <2>1, <2>3
<1>3. ASSUME NEW r \in Requests, StepOf(r), pc[r] \notin Undecided
      PROVE  pc'[r] # "steal" /\ (pc'[r] \in {"unwind", "done"} => row'.owner # r)
  <2>1. Execute(r) \/ Renew(r)
    BY <1>3 DEF StepOf, Progress, Arrive, BeginClaim, Claim, SelectAbsent,
       SelectExpired, SelectMismatch, SelectCompleted, SelectInProgress, SelectLapsed,
       Select, Finish, Insert, InsertConflict, Claimed, Steal, StealStale, DeleteExpired,
       ReplayRecord, ReplayGone, ReplayExpired, ReplayDeleteExpired, ReplayLoad,
       ReplayCommit, ReplayFails, Fault, Abandon, CommitUnacknowledged, ReleaseFails
  <2>2. CASE Load(r) \/ LoadLost(r) \/ OperationFails(r)
    BY <1>0, <2>2 DEF Load, LoadLost, OperationFails
  <2>3. CASE Complete(r)
    BY <1>0, <2>3 DEF Complete, Persist, CompletedRow
  <2>4. CASE CompleteUncached(r) \/ ReleaseDelete(r)
    BY <1>0, <2>4 DEF CompleteUncached, ReleaseDelete, Discard, DeleteRow, Hits, NoRow
  <2>5. CASE ReleaseLoad(r)
    BY <1>0, <2>5 DEF ReleaseLoad, OwnedProcessing, Owned
  <2>6. CASE Unwind(r)
    BY <1>0, <2>6 DEF Unwind
  <2>7. CASE Renew(r)
    BY <1>0, <1>1, <1>3, <2>7 DEF Renew, RenewLoad, RenewWrite, StepOf
  <2> QED
    BY <2>1, <2>2, <2>3, <2>4, <2>5, <2>6, <2>7 DEF Execute
<1>4. ASSUME NEW r \in Requests, StepOf(r)
      PROVE  CalmInv'
  <2>1. \A s \in Requests : s # r => pc'[s] = pc[s]
    BY <1>0, <1>4, OthersUntouched DEF Untouched
  <2> QED
    BY <1>0, <1>1, <1>2, <1>3, <1>4, <2>1
<1>5. CASE Cleanup \/ Tick \/ UNCHANGED vars
  BY <1>0, <1>5, EnvironmentKeeps DEF Intact, NoRow, Kept, Untouched
<1> QED
  BY <1>4, <1>5 DEF Next, StepOf, Finished

\* While nothing is cut short and holders are punctual, no request ever comes to
\* the point of taking a claim over: none finds a lease that has run out.
THEOREM NobodyTakesOver ==
    ASSUME Punctual, Faulty = {}
    PROVE  Spec => []NoTakeover
<1>1. Init => CalmInv
  BY ConstantsAssumption DEF Init, CalmInv, NoTakeover, NoRow
<1>2. CalmInv => TakeoversApart
  BY DEF CalmInv, NoTakeover, TakeoversApart
<1>3. SafetyInv /\ ApartInv /\ CalmInv /\ [Next]_vars => ApartInv' /\ CalmInv'
  BY <1>2, ApartStep, CalmStep DEF Apart
<1>4. CalmInv => NoTakeover
  BY DEF CalmInv
<1> QED
  BY <1>1, <1>3, <1>4, ApartInit, SafetyInvariant, PTL DEF Spec

\* No two takeovers overlap while nothing is cut short, nor, whatever is, when
\* a request is tried again only once.
THEOREM OrderlyApart ==
    ASSUME Orderly
    PROVE  Spec => []TakeoversApart
<1>1. CASE Faulty = {}
  <2>1. NoTakeover => TakeoversApart
    BY DEF NoTakeover, TakeoversApart
  <2>2. Spec => []NoTakeover
    BY <1>1, NobodyTakesOver DEF Orderly
  <2> QED
    BY <2>1, <2>2, PTL
<1>2. CASE TwoAttempts
  <2>1. SafetyInv /\ IdsInv => TakeoversApart
    BY <1>2, TwoAttemptsApart
  <2> QED
    BY <2>1, SafetyInvariant, IdsAndLeases, PTL
<1> QED
  BY <1>1, <1>2 DEF Orderly

\* No two kept results ever land in one row, whoever is cut short, while
\* takeovers are apart ...
THEOREM ExecutesOnceApart ==
    ASSUME Punctual
    PROVE  Spec /\ []TakeoversApart => []ExecutedOnce
<1>1. ApartInv => ExecutedOnce
  BY DEF ApartInv
<1> QED
  BY <1>1, ApartInvariant, PTL

\* ... hence while nothing is cut short, and with one retry of a request that
\* may be cut short anywhere: a mutation is kept once.
THEOREM ExecutesOnce ==
    ASSUME Orderly
    PROVE  Spec => []ExecutedOnce
  BY OrderlyApart, ExecutesOnceApart, PTL DEF Orderly

\* The lease of a request that has ended is never prolonged, while takeovers
\* are apart ...
THEOREM DeadLeaseApart ==
    ASSUME Punctual
    PROVE  Spec /\ []TakeoversApart => DeadLeaseNotRenewed
<1>1. ASSUME Apart, [Next]_vars, row.owner # None, pc[row.owner] = "done",
             row'.id = row.id, row'.owner = row.owner
      PROVE  row'.lease <= row.lease
  <2> USE <1>1 DEF SafetyInv, TypeOK, Rows
  <2>0. SafetyInv /\ row.lease \in Nat /\ row.status = "PROCESSING" /\ row.id # None
    BY DEF Apart, ApartInv, OwnerInv, RowInv
  <2>1. ASSUME NEW r \in Requests, StepOf(r)
        PROVE  row'.lease = row.lease
    <3>1. ~Insert(r)
      BY <2>0 DEF Insert, Absent
    <3>2. ~Steal(r)
      BY ThiefFindsDone
    <3>3. ~(RenewWrite(r) /\ Hits(claim[r]))
      BY <2>0, RenewerOwns DEF ExecutePhase
    <3>4. row' # NoRow
      BY <2>0 DEF NoRow
    <3>5. ~Persist(r)
      BY <2>0 DEF Persist, CompletedRow
    <3> QED
      BY <2>0, <2>1, <3>1, <3>2, <3>3, <3>4, <3>5, RowMoves DEF RowMove, Intact, RenewWrite
  <2>2. row' # NoRow
    BY <2>0 DEF NoRow
  <2>3. row'.lease = row.lease
    BY <2>0, <2>1, <2>2, EnvironmentKeeps DEF Intact, Next, StepOf, Finished
  <2> QED
    BY <2>0, <2>3
<1>2. SafetyInv /\ ApartInv /\ [Next]_vars
      => [row.owner # None /\ pc[row.owner] = "done" /\ row'.id = row.id
          /\ row'.owner = row.owner => row'.lease <= row.lease]_vars
  BY <1>1 DEF Apart
<1> QED
  BY <1>2, SafetyInvariant, ApartInvariant, PTL DEF Spec, DeadLeaseNotRenewed

\* ... hence with one retry: what a crash leaves behind can be claimed again.
THEOREM DeadLease ==
    ASSUME Orderly
    PROVE  Spec => DeadLeaseNotRenewed
  BY OrderlyApart, DeadLeaseApart, PTL DEF Orderly

-----------------------------------------------------------------------------
(* The executor implements OncePerKey.                                     *)

executedView == {r \in Requests : effect[r] = "persisted"}
answerView == [r \in Requests |-> reply[r].of]

\* Nothing a client can see has changed.
Silent == row'.result = row.result /\ executedView' = executedView
          /\ answerView' = answerView

\* The commit of a result that is kept, heard of or not.
LEMMA PerformStep ==
    ASSUME Apart, NEW r \in Requests, pc[r] = "operate", Persist(r),
           NEW kind, NEW told \in {r, None},
           reply' = [reply EXCEPT ![r] = Answer(kind, told)]
    PROVE  KeyView!Perform(r)
<1> USE DEF SafetyInv, TypeOK
<1>0. SafetyInv
  BY DEF Apart
<1>1. effect[r] = "none" /\ row.result = None
  BY <1>0, CompleterOwns DEF Persist, Hits, OutcomeInv, Outcome
<1>2. row'.result = r
  BY <1>0 DEF Persist, CompletedRow, Rows
<1>3. executedView' = executedView \cup {r}
  BY <1>0 DEF Persist, executedView
<1>4. answerView' = [answerView EXCEPT ![r] = told]
  BY <1>0 DEF answerView, Answer
<1> QED
  BY <1>1, <1>2, <1>3, <1>4 DEF KeyView!Perform, executedView, answerView

\* The step of a replay: what was read is what still stands.
LEMMA RepeatStep ==
    ASSUME Apart, NEW r \in Requests, ReplayCommit(r)
    PROVE  KeyView!Repeat(r)
<1> USE DEF SafetyInv, TypeOK
<1>0. SafetyInv /\ StandingInv(r)
  BY DEF Apart, ApartInv, RequestInv
<1>1. /\ pc[r] = "replayCommit" /\ row.id = snap[r].id
      /\ snap[r].result \in Requests /\ effect[r] = "none"
  BY <1>0 DEF ReplayCommit, Hits, Finish, Goto, TargetInv, Target, Genuine,
       OutcomeInv, Outcome, Undecided, ReplayPhase
<1>2. row.result = snap[r].result /\ row.result # None
  BY <1>0, <1>1, ConstantsAssumption DEF StandingInv
<1>3. row'.result = row.result
  BY <1>0 DEF ReplayCommit, Rows
<1>4. executedView' = executedView
  BY DEF ReplayCommit, executedView
<1>5. answerView' = [answerView EXCEPT ![r] = row.result]
  BY <1>0, <1>2 DEF ReplayCommit, Finish, answerView, Answer
<1> QED
  BY <1>1, <1>2, <1>3, <1>4, <1>5 DEF KeyView!Repeat, executedView, answerView

\* A request that is cut short takes back what it was about to hear.
LEMMA WithdrawStep ==
    ASSUME Apart, NEW r \in Requests, Abandon(r)
    PROVE  KeyView!Withdraw(r)
<1>1. row' = row /\ executedView' = executedView
  BY DEF Abandon, executedView
<1>2. reply' = [reply EXCEPT ![r] = Answer("abandoned", None)]
  BY DEF Abandon, Finish
<1>3. answerView' = [answerView EXCEPT ![r] = None]
  BY <1>2 DEF Apart, SafetyInv, TypeOK, answerView, Answer
<1> QED
  BY <1>1, <1>3 DEF KeyView!Withdraw, executedView, answerView

\* What a step of r can commit, and what it then says.
LEMMA Commits ==
    ASSUME NEW r \in Requests, StepOf(r)
    PROVE  \/ effect' = effect
           \/ pc[r] = "operate" /\ Discard(r)
           \/ /\ pc[r] = "operate" /\ Persist(r)
              /\ \E kind \in {"created", "failed"}, told \in {r, None} :
                     reply' = [reply EXCEPT ![r] = Answer(kind, told)]
<1>1. CASE Execute(r) \/ Fault(r)
  BY <1>1 DEF Execute, Fault, Load, LoadLost, Complete, CompleteUncached, OperationFails,
     ReleaseLoad, ReleaseDelete, Unwind, Abandon, CommitUnacknowledged, ReleaseFails,
     Goto
<1>2. CASE Arrive(r) \/ Claim(r) \/ ReplayRecord(r) \/ Renew(r)
  BY <1>2 DEF Arrive, Claim, SelectAbsent, SelectExpired, SelectMismatch, SelectCompleted,
     SelectInProgress, SelectLapsed, Select, Insert, InsertConflict, Steal, StealStale,
     DeleteExpired, clientVars, ReplayRecord, ReplayGone, ReplayExpired,
     ReplayDeleteExpired, ReplayLoad, ReplayCommit, ReplayFails, Renew, RenewLoad,
     RenewWrite
<1> QED
  BY <1>1, <1>2 DEF StepOf, Progress

\* A result that is not kept, a failure and every step without an answer show
\* a client nothing, or forget the key.
LEMMA SilentStep ==
    ASSUME Apart, NEW r \in Requests, StepOf(r),
           ~Abandon(r), ~ReplayCommit(r),
           effect' = effect \/ (pc[r] = "operate" /\ Discard(r))
    PROVE  Silent \/ KeyView!Forget
<1> USE ConstantsAssumption DEF SafetyInv, TypeOK
<1>0. SafetyInv
  BY DEF Apart
<1>1. executedView' = executedView
  <2>1. CASE effect' = effect
    BY <2>1 DEF executedView
  <2>2. CASE effect' # effect
    BY <1>0, <2>2 DEF Discard, OutcomeInv, Outcome, executedView
  <2> QED
    BY <2>1, <2>2
<1>2. ~(pc[r] = "operate" /\ Persist(r))
  BY <1>0 DEF Persist, Discard, OutcomeInv, Outcome
<1>3. answerView' = answerView
  <2>1. CASE reply' = reply
    BY <2>1 DEF answerView
  <2>2. ASSUME NEW kind, reply' = [reply EXCEPT ![r] = Answer(kind, None)],
               pc[r] \in Undecided \cup {"load", "operate"}
        PROVE  answerView' = answerView
    BY <1>0, <2>2 DEF OutcomeInv, Outcome, NoAnswer, Answer, answerView
  <2>3. CASE Claim(r)
    BY <2>1, <2>2, <2>3 DEF Claim, SelectAbsent, SelectExpired, SelectMismatch,
       SelectCompleted, SelectInProgress, SelectLapsed, Select, Finish, Goto, Insert,
       InsertConflict, Steal, StealStale, DeleteExpired, clientVars, Undecided, ClaimPhase
  <2>4. CASE Execute(r) \/ CommitUnacknowledged(r) \/ ReleaseFails(r)
    BY <1>2, <2>1, <2>2, <2>4 DEF Execute, Load, LoadLost, Complete, CompleteUncached,
       OperationFails, ReleaseLoad, ReleaseDelete, Unwind, CommitUnacknowledged,
       ReleaseFails, Goto
  <2>5. CASE ReplayRecord(r)
    BY <2>1, <2>2, <2>5 DEF ReplayRecord, ReplayGone, ReplayExpired, ReplayDeleteExpired,
       ReplayLoad, ReplayFails, Finish, Goto, clientVars, Undecided, ReplayPhase
  <2>6. CASE Arrive(r) \/ Renew(r)
    BY <2>1, <2>6 DEF Arrive, Renew, RenewLoad, RenewWrite
  <2> QED
    BY <2>3, <2>4, <2>5, <2>6 DEF StepOf, Progress, Fault
<1>4. row'.result = row.result \/ row'.result = None
  <2>1. Insert(r) => row'.result = None
    BY DEF Insert, InsertedRow
  <2>2. Steal(r) => row'.result = row.result
    BY ThiefFindsDone
  <2>3. RenewWrite(r) => row'.result = row.result
    BY <1>0 DEF RenewWrite, Rows
  <2> QED
    BY <1>0, <1>2, <2>1, <2>2, <2>3, RowMoves DEF RowMove, Intact, NoRow
<1> QED
  BY <1>1, <1>3, <1>4 DEF Silent, KeyView!Forget, executedView, answerView

\* A step of a request is a step of OncePerKey, or shows nothing.
LEMMA RequestRefines ==
    ASSUME Apart, [Next]_vars, NEW r \in Requests, StepOf(r)
    PROVE  Silent \/ KeyView!Next
<1>1. CASE Abandon(r) \/ ReplayCommit(r)
  BY <1>1, WithdrawStep, RepeatStep DEF KeyView!Next
<1>2. CASE pc[r] = "operate" /\ Persist(r) /\ effect' # effect
  <2>1. effect'[r] = "persisted"
    BY <1>2 DEF Persist, Apart, SafetyInv, TypeOK
  <2>2. ~Discard(r)
    BY <2>1 DEF Discard, Apart, SafetyInv, TypeOK
  <2> QED
    BY <1>2, <2>2, Commits, PerformStep DEF KeyView!Next
<1>3. CASE ~Abandon(r) /\ ~ReplayCommit(r) /\ ~(pc[r] = "operate" /\ Persist(r))
  BY <1>3, Commits, SilentStep DEF KeyView!Next
<1>4. pc[r] = "operate" /\ Persist(r) => effect' # effect
  BY DEF Persist, Apart, SafetyInv, TypeOK, OutcomeInv, Outcome
<1> QED
  BY <1>1, <1>2, <1>3, <1>4

LEMMA EnvironmentSilent ==
    ASSUME Cleanup \/ Tick \/ UNCHANGED vars
    PROVE  Silent \/ KeyView!Forget
<1>1. executedView' = executedView /\ answerView' = answerView
  BY DEF Cleanup, CleanupSelect, CleanupDelete, Tick, vars, clientVars, executedView,
         answerView
<1>2. row'.result = row.result \/ row'.result = None
  BY EnvironmentKeeps DEF Intact, NoRow
<1> QED
  BY <1>1, <1>2 DEF Silent, KeyView!Forget, executedView, answerView

\* Faults, races, leases and deletions are invisible to the clients of a key
\* while takeovers are apart: the executor implements OncePerKey ...
THEOREM RefinementApart ==
    ASSUME Punctual
    PROVE  Spec /\ []TakeoversApart => ImplementsOncePerKey
<1>1. Init => KeyView!Init
  BY DEF Init, KeyView!Init, NoRow, NoAnswer, Answer
<1>2. SafetyInv /\ ApartInv /\ [Next]_vars => [KeyView!Next]_(KeyView!vars)
  <2> SUFFICES ASSUME SafetyInv, ApartInv, [Next]_vars
               PROVE  [KeyView!Next]_(KeyView!vars)
    OBVIOUS
  <2>1. ASSUME NEW r \in Requests, StepOf(r)
        PROVE  Silent \/ KeyView!Next
    BY <2>1, RequestRefines DEF Apart
  <2>2. CASE Cleanup \/ Tick \/ UNCHANGED vars
    BY <2>2, EnvironmentSilent DEF KeyView!Next, KeyView!vars, Silent, executedView,
       answerView
  <2>3. \/ \E r \in Requests : StepOf(r)
        \/ Cleanup \/ Tick \/ UNCHANGED vars
    BY DEF Next, StepOf, Finished
  <2> QED
    BY <2>1, <2>2, <2>3 DEF KeyView!vars, Silent, executedView, answerView
<1> QED
  BY <1>1, <1>2, SafetyInvariant, ApartInvariant, PTL
     DEF Spec, ImplementsOncePerKey, KeyView!Spec

\* ... hence while nothing is cut short, and with one retry of a request that
\* may be cut short anywhere.
THEOREM Refinement ==
    ASSUME Orderly
    PROVE  Spec => ImplementsOncePerKey
  BY OrderlyApart, RefinementApart, PTL DEF Orderly

-----------------------------------------------------------------------------
(* How long a kept result stays, while nobody takes a claim over.          *)

\* Who deletes the row: a request that found it expired, or whose claim it is.
LEMMA Deletions ==
    ASSUME TypeOK, NEW r \in Requests, StepOf(r), row.id # None, row' = NoRow
    PROVE  \/ pc[r] \in {"expire", "replayExpire"} /\ row.id = snap[r].id
           \/ pc[r] \in {"operate", "releaseDelete"} /\ row.id = claim[r]
<1>0. row' # row /\ row'.id = None /\ row'.status = "absent"
  BY DEF NoRow
<1>1. CASE Claim(r)
  <2>1. ~Insert(r) /\ ~Steal(r)
    BY <1>0 DEF Insert, Absent, Steal, StolenRow, TypeOK, Rows
  <2> QED
    BY <1>0, <1>1, <2>1 DEF Claim, SelectAbsent, SelectExpired, SelectMismatch,
       SelectCompleted, SelectInProgress, SelectLapsed, Select, InsertConflict, StealStale,
       DeleteExpired, DeleteRow, Hits, Goto
<1>2. CASE Execute(r) \/ Fault(r)
  <2>1. ~Persist(r)
    BY <1>0 DEF Persist, CompletedRow, TypeOK, Rows
  <2> QED
    BY <1>0, <1>2, <2>1 DEF Execute, Fault, Load, LoadLost, Complete, CompleteUncached,
       Discard, OperationFails, ReleaseLoad, ReleaseDelete, Unwind, Abandon,
       CommitUnacknowledged, ReleaseFails, DeleteRow, Hits, Goto
<1>3. CASE ReplayRecord(r)
  <2>1. ~ReplayCommit(r)
    BY <1>0 DEF ReplayCommit, TypeOK, Rows
  <2> QED
    BY <1>0, <1>3, <2>1 DEF ReplayRecord, ReplayGone, ReplayExpired, ReplayDeleteExpired,
       ReplayLoad, ReplayFails, BeginClaim, DeleteRow, Hits, Goto
<1>4. CASE Arrive(r) \/ Renew(r)
  BY <1>0, <1>4 DEF Arrive, Renew, RenewLoad, RenewWrite, TypeOK, Rows
<1> QED
  BY <1>1, <1>2, <1>3, <1>4 DEF StepOf, Progress

\* Nobody takes a claim over in this step.
NoTheft == ~\E q \in Requests : Steal(q)

\* Who claims a row inserts it or takes it over.
LEMMA ClaimMoves ==
    ASSUME NEW r \in Requests, StepOf(r)
    PROVE  claim' = claim \/ Insert(r) \/ Steal(r)
  BY DEF StepOf, Progress, Arrive, Claim, SelectAbsent, SelectExpired, SelectMismatch,
     SelectCompleted, SelectInProgress, SelectLapsed, Select, InsertConflict, StealStale,
     DeleteExpired, Execute, Load, LoadLost, Complete, CompleteUncached, OperationFails,
     ReleaseLoad, ReleaseDelete, Unwind, ExecuteFrame, ReplayRecord, ReplayGone,
     ReplayExpired, ReplayDeleteExpired, ReplayLoad, ReplayCommit, ReplayFails, Fault,
     Abandon, CommitUnacknowledged, ReleaseFails, Renew, RenewLoad, RenewWrite, clientVars

\* A row that is there was inserted just now, or is as old as it was.
LEMMA RowAges ==
    ASSUME TypeOK, NoTheft, [Next]_vars, row'.id # None
    PROVE  \/ /\ row'.id = row.id /\ row'.expires = row.expires
              /\ row.status = "COMPLETED" => row'.status = "COMPLETED"
           \/ \E r \in Requests : Insert(r)
<1>1. ASSUME NEW r \in Requests, StepOf(r), ~Insert(r)
      PROVE  /\ row'.id = row.id /\ row'.expires = row.expires
             /\ row.status = "COMPLETED" => row'.status = "COMPLETED"
  <2>1. ~Steal(r)
    BY DEF NoTheft
  <2>2. Persist(r) => row'.id = row.id /\ row'.expires = row.expires
                      /\ row'.status = "COMPLETED"
    BY DEF Persist, CompletedRow, TypeOK, Rows
  <2>3. RenewWrite(r) => row'.id = row.id /\ row'.expires = row.expires
                         /\ row'.status = row.status
    BY DEF RenewWrite, TypeOK, Rows
  <2> QED
    BY <1>1, <2>1, <2>2, <2>3, RowMoves DEF RowMove, Intact, NoRow
<1> QED
  BY <1>1, EnvironmentKeeps DEF Intact, NoRow, Next, StepOf, Finished

LEMMA AgedOwnStep ==
    ASSUME SafetyInv, IdsInv, AgedInv, NoTheft, [Next]_vars,
           NEW r \in Requests, StepOf(r)
    PROVE  Aged(r)'
<1> USE ConstantsAssumption DEF Aged
<1>0. /\ TypeOK /\ Aged(r) /\ Ids(r) /\ Target(r) /\ Outcome(r) /\ RowInv
      /\ now' = now
  BY StampsWritten DEF SafetyInv, TargetInv, OutcomeInv, IdsInv, AgedInv
<1>1. claim'[r] \in {None, r}
  BY <1>0, ClaimMoves DEF Insert, Claimed, NoTheft, TypeOK
<1>2. ASSUME pc'[r] \in {"expire", "replayExpire"}, row'.id = snap'[r].id, row'.id # None
      PROVE  row'.expires <= now'
  <2>1. CASE SelectExpired(r) \/ ReplayExpired(r)
    BY <1>0, <2>1 DEF SelectExpired, ReplayExpired, Select, Expired
  <2>2. CASE Renew(r)
    BY <1>0, <1>2, <2>2 DEF Renew, RenewLoad, RenewWrite, TypeOK, Rows
  <2>3. SelectExpired(r) \/ ReplayExpired(r) \/ Renew(r)
    BY <1>0, <1>2 DEF StepOf, Progress, Arrive, BeginClaim, Claim, SelectAbsent,
       SelectMismatch, SelectCompleted, SelectInProgress, SelectLapsed, Select, Finish,
       Insert, InsertConflict, Claimed, Steal, StealStale, DeleteExpired, Execute, Load,
       LoadLost, Complete, CompleteUncached, OperationFails, ReleaseLoad, ReleaseDelete,
       Unwind, ReplayRecord, ReplayGone, ReplayDeleteExpired, ReplayLoad, ReplayCommit,
       ReplayFails, Fault, Abandon, CommitUnacknowledged, ReleaseFails, Goto, TypeOK
  <2> QED
    BY <2>1, <2>2, <2>3
<1>3. ASSUME effect'[r] # "none", row'.id = claim'[r]
      PROVE  row'.status = "COMPLETED"
  <2>1. CASE pc[r] = "operate" /\ Persist(r)
    BY <1>0, <2>1 DEF Persist, CompletedRow, TypeOK, Rows
  <2>2. CASE pc[r] = "operate" /\ Discard(r)
    <3>1. claim'[r] = claim[r] /\ claim[r] # None
      BY <1>0, <2>2, ClaimHeld
         DEF Undecided, ClaimPhase, ReplayPhase, Target, ExecutePhase
    <3> QED
      BY <1>3, <2>2, <3>1 DEF Discard, DeleteRow, Hits, NoRow
  <2>3. CASE effect' = effect
    <3>1. pc[r] \notin Undecided /\ claim[r] # None
      BY <1>0, <1>3, <2>3 DEF Outcome, Target
    <3>2. claim'[r] = claim[r]
      BY <1>0, <3>1, ClaimHeld
    <3>3. \A q \in Requests : Insert(q) => claim[r] # q /\ row'.id = q
      BY <1>0, UnmintedId DEF Insert, InsertedRow, Claimed, Goto, Undecided, ClaimPhase
    <3> QED
      BY <1>0, <1>3, <2>3, <3>1, <3>2, <3>3, RowAges
  <2> QED
    BY <2>1, <2>2, <2>3, Commits
<1>4. ASSUME pc'[r] = "releaseDelete"
      PROVE  effect'[r] = "none"
  <2>1. CASE ReleaseLoad(r)
    BY <1>0, <1>4, <2>1 DEF ReleaseLoad, OwnedProcessing, Owned, Goto, TypeOK
  <2>2. CASE Renew(r)
    BY <1>0, <1>4, <2>2 DEF Renew, RenewLoad, RenewWrite
  <2>3. ReleaseLoad(r) \/ Renew(r)
    BY <1>0, <1>4 DEF StepOf, Progress, Arrive, BeginClaim, Claim, SelectAbsent,
       SelectExpired, SelectMismatch, SelectCompleted, SelectInProgress, SelectLapsed,
       Select, Finish, Insert, InsertConflict, Claimed, Steal, StealStale, DeleteExpired,
       Execute, Load, LoadLost, Complete, CompleteUncached, OperationFails,
       ReleaseDelete, Unwind, ReplayRecord, ReplayGone, ReplayExpired,
       ReplayDeleteExpired, ReplayLoad, ReplayCommit, ReplayFails, Fault, Abandon,
       CommitUnacknowledged, ReleaseFails, Goto, TypeOK
  <2> QED
    BY <2>1, <2>2, <2>3
<1>5. ASSUME pc'[r] \in {"load", "operate"}, ~(seen'[r] + Retention <= now')
      PROVE  row'.id = r /\ row'.expires = seen'[r] + Retention
  <2>1. CASE Insert(r)
    BY <1>0, <2>1 DEF Insert, InsertedRow, Claimed
  <2>2. CASE Load(r)
    BY <1>0, <1>5, <2>2 DEF Load, Outlived, ExecuteFrame, Goto
  <2>3. CASE Renew(r)
    BY <1>0, <1>5, <2>3 DEF Renew, RenewLoad, RenewWrite, Outlived, TypeOK, Rows
  <2>4. Insert(r) \/ Load(r) \/ Renew(r)
    BY <1>0, <1>5 DEF NoTheft, StepOf, Progress, Arrive, BeginClaim, Claim, SelectAbsent,
       SelectExpired, SelectMismatch, SelectCompleted, SelectInProgress, SelectLapsed,
       Select, Finish, InsertConflict, StealStale, DeleteExpired, Execute, LoadLost,
       Complete, CompleteUncached, OperationFails, ReleaseLoad, ReleaseDelete, Unwind,
       ReplayRecord, ReplayGone, ReplayExpired, ReplayDeleteExpired, ReplayLoad,
       ReplayCommit, ReplayFails, Fault, Abandon, CommitUnacknowledged, ReleaseFails,
       Goto, TypeOK
  <2> QED
    BY <2>1, <2>2, <2>3, <2>4
<1> QED
  BY <1>1, <1>2, <1>3, <1>4, <1>5 DEF Outlived

\* Until its retention ends nobody but its owner deletes a row.
LEMMA YoungRowStays ==
    ASSUME SafetyInv, AgedInv, NoTheft, [Next]_vars, NEW s \in Requests,
           row.id = s, claim[s] = s, now < row.expires, ~StepOf(s)
    PROVE  row'.id = s /\ row'.expires = row.expires
<1> USE ConstantsAssumption
<1>0. TypeOK /\ row.id # None /\ row.expires \in Nat /\ now \in Nat
  BY DEF SafetyInv, TypeOK, Rows
<1>1. ~\E r \in Requests : Insert(r)
  BY <1>0 DEF Insert, Absent
<1>2. row'.id # None
  <2>1. ASSUME NEW r \in Requests, StepOf(r), row' = NoRow
        PROVE  FALSE
    <3>1. Aged(r) /\ r # s
      BY <2>1 DEF AgedInv
    <3>2. ~(pc[r] \in {"expire", "replayExpire"} /\ row.id = snap[r].id)
      BY <1>0, <3>1 DEF Aged
    <3>3. row.id # claim[r]
      BY <1>0, <3>1 DEF Aged
    <3> QED
      BY <1>0, <2>1, <3>2, <3>3, Deletions
  <2>2. ASSUME Cleanup \/ Tick \/ UNCHANGED vars
        PROVE  row' = row
    <3>1. sweep # row.id
      BY <1>0 DEF AgedInv
    <3> QED
      BY <2>2, <3>1 DEF Cleanup, CleanupSelect, CleanupDelete, DeleteRow, Hits, Tick, vars
  <2>3. ASSUME NEW r \in Requests, StepOf(r), row' # NoRow
        PROVE  row'.id # None
    <3>1. ~Steal(r) /\ ~Insert(r)
      BY <1>1 DEF NoTheft
    <3>2. Persist(r) => row'.id = row.id
      BY <1>0 DEF Persist, CompletedRow, TypeOK, Rows
    <3>3. RenewWrite(r) => row'.id = row.id
      BY <1>0 DEF RenewWrite, TypeOK, Rows
    <3> QED
      BY <1>0, <2>3, <3>1, <3>2, <3>3, RowMoves DEF RowMove, Intact
  <2> QED
    BY <1>0, <2>1, <2>2, <2>3 DEF Next, StepOf, Finished
<1> QED
  BY <1>0, <1>1, <1>2, RowAges

LEMMA AgedStep ==
    ASSUME SafetyInv, IdsInv, AgedInv, NoTheft, [Next]_vars
    PROVE  AgedInv'
<1> USE ConstantsAssumption
<1>0. TypeOK
  BY DEF SafetyInv
<1>1. now' >= now
  <2>1. \A r \in Requests : StepOf(r) => now' = now
    BY <1>0, StampsWritten
  <2> QED
    BY <1>0, <2>1 DEF Next, StepOf, Finished, Cleanup, CleanupSelect, CleanupDelete, Tick,
       vars, TypeOK
<1>2. \A q \in Requests : Insert(q) =>
          row'.id = q /\ sweep # q /\ \A s \in Requests : claim[s] # q /\ snap[s].id # q
  BY UnmintedId DEF Insert, InsertedRow, Claimed, Goto, Undecided, ClaimPhase
<1>3. ASSUME NEW s \in Requests, Kept(s),
             row.id = s /\ claim[s] = s /\ now < row.expires
                 => row'.id = s /\ row'.expires = row.expires
      PROVE  Aged(s)'
  <2>1. Aged(s) /\ (row'.id # None =>
                       \/ /\ row'.id = row.id /\ row'.expires = row.expires
                          /\ row.status = "COMPLETED" => row'.status = "COMPLETED"
                       \/ row'.id # claim[s] /\ row'.id # snap[s].id)
    BY <1>0, <1>2, RowAges DEF AgedInv
  <2>2. effect[s] # "none" => claim[s] # None
    BY DEF SafetyInv, TargetInv, Target
  <2>3. row.expires \in Nat /\ now \in Nat
    BY <1>0 DEF TypeOK, Rows
  <2>4. now' \in Nat
    BY TypeStep, <1>0 DEF TypeOK
  <2>5. claim'[s] \in {None, s} /\ (pc'[s] = "releaseDelete" => effect'[s] = "none")
    BY <1>3, <2>1 DEF Aged, Kept, Untouched
  <2>6. ASSUME pc'[s] \in {"expire", "replayExpire"}, row'.id = snap'[s].id, row'.id # None
        PROVE  row'.expires <= now'
    BY <1>1, <1>3, <2>1, <2>3, <2>4, <2>6 DEF Aged, Kept, Untouched
  <2>7. effect'[s] # "none" /\ row'.id = claim'[s] => row'.status = "COMPLETED"
    BY <1>3, <2>1, <2>2 DEF Aged, Kept, Untouched
  <2>8. ASSUME pc'[s] \in {"load", "operate"}, ~Outlived(s)'
        PROVE  row'.id = s /\ row'.expires = seen'[s] + Retention
    <3>1. seen'[s] = seen[s] /\ seen[s] \in Nat /\ pc[s] \in {"load", "operate"}
      BY <1>0, <1>3, <2>8 DEF Kept, Untouched, TypeOK
    <3>2. ~Outlived(s)
      BY <1>1, <2>3, <2>4, <2>8, <3>1 DEF Outlived
    <3>3. row.id = s /\ row.expires = seen[s] + Retention /\ now < row.expires
      BY <2>1, <2>3, <3>1, <3>2 DEF Aged, Outlived
    <3>4. claim[s] = s
      BY <2>1, <3>1 DEF Aged, SafetyInv, TargetInv, Target, ExecutePhase
    <3> QED
      BY <1>3, <3>1, <3>3, <3>4
  <2> QED
    BY <2>5, <2>6, <2>7, <2>8 DEF Aged
<1>4. \/ \E r \in Requests : StepOf(r)
      \/ Cleanup \/ Tick \/ UNCHANGED vars
  BY DEF Next, StepOf, Finished
<1>5. \A s \in Requests : Aged(s)'
  BY <1>0, <1>3, <1>4, OthersKept, AgedOwnStep, EnvironmentKeeps, YoungRowStays
<1>6. ASSUME row'.id # None, sweep' = row'.id
      PROVE  row'.expires <= now'
  <2>1. CASE CleanupSelect
    BY <2>1 DEF CleanupSelect, Expired
  <2>2. CASE ~CleanupSelect
    <3>1. sweep' \in {sweep, None}
      BY <1>4, <2>2, IdsOwnStep DEF Cleanup, CleanupDelete, Tick, clientVars, vars
    <3>2. row'.id = row.id /\ row'.expires = row.expires
      BY <1>0, <1>2, <1>6, <3>1, RowAges
    <3>3. row.expires <= now
      BY <1>6, <3>1, <3>2 DEF AgedInv
    <3>4. row.expires \in Nat /\ now \in Nat /\ now' \in Nat
      BY <1>0, TypeStep DEF TypeOK, Rows
    <3> QED
      BY <1>1, <3>2, <3>3, <3>4
  <2> QED
    BY <2>1, <2>2
<1> QED
  BY <1>5, <1>6 DEF AgedInv

\* A kept result is deleted only when its retention has ended, whoever is cut
\* short and however late anybody is, as long as nobody takes a claim over ...
THEOREM ResultKeptApart == Spec /\ []NoTakeover => CompletedKept
<1>1. Init => AgedInv
  BY ConstantsAssumption DEF Init, AgedInv, Aged, NoRow
<1>0. NoTakeover => NoTheft
  BY DEF NoTakeover, NoTheft, Steal
<1>2. SafetyInv /\ IdsInv /\ AgedInv /\ NoTakeover /\ [Next]_vars => AgedInv'
  BY <1>0, AgedStep
<1>3. ASSUME SafetyInv, AgedInv, NoTakeover, [Next]_vars, row.status = "COMPLETED",
             row'.id # row.id
      PROVE  row.expires <= now
  <2>0. TypeOK /\ row.id # None
    BY <1>3 DEF SafetyInv, RowInv
  <2>1. row'.id = None
    BY <1>0, <1>3, <2>0, RowAges DEF Insert, Absent
  <2>2. row' # row
    BY <1>3
  <2>3. ASSUME NEW r \in Requests, StepOf(r)
        PROVE  row.expires <= now
    <3>1. row' = NoRow
      <4>1. ~Steal(r) /\ ~Insert(r)
        BY <1>3, <2>0 DEF NoTakeover, Steal, Insert, Absent
      <4>2. ~Persist(r) /\ ~RenewWrite(r)
        <5>1. row \in Rows /\ row'.id # row.id
          BY <1>3, <2>0 DEF TypeOK
        <5>2. Persist(r) => row'.id = row.id
          BY <5>1 DEF Persist, CompletedRow, Rows
        <5>3. RenewWrite(r) => row'.id = row.id
          BY <5>1 DEF RenewWrite, Rows
        <5> QED
          BY <5>1, <5>2, <5>3
      <4> QED
        BY <1>3, <2>0, <2>3, <4>1, <4>2, RowMoves DEF RowMove, Intact
    <3>2. ~(pc[r] \in {"operate", "releaseDelete"} /\ row.id = claim[r])
      <4>1. /\ row.result \in Requests /\ effect[row.result] = "persisted"
            /\ claim[row.result] = row.id
        BY <1>3 DEF SafetyInv, RowInv, Genuine
      <4>2. claim[row.result] = row.result /\ claim[r] \in {None, r}
        BY <1>3, <2>0, <4>1 DEF AgedInv, Aged
      <4>3. pc[r] \in {"operate", "releaseDelete"} => effect[r] = "none"
        BY <1>3 DEF SafetyInv, OutcomeInv, Outcome, AgedInv, Aged
      <4> QED
        BY <2>0, <4>1, <4>2, <4>3
    <3> QED
      BY <1>3, <2>0, <2>3, <3>1, <3>2, Deletions DEF AgedInv, Aged
  <2>4. CASE Cleanup \/ Tick \/ UNCHANGED vars
    BY <1>3, <2>0, <2>2, <2>4 DEF Cleanup, CleanupSelect, CleanupDelete, DeleteRow, Hits,
       Tick, vars, AgedInv
  <2> QED
    BY <1>3, <2>3, <2>4 DEF Next, StepOf, Finished
<1>4. SafetyInv /\ AgedInv /\ NoTakeover /\ [Next]_vars
      => [row.status = "COMPLETED" /\ row'.id # row.id => row.expires <= now]_vars
  BY <1>3
<1> QED
  BY <1>1, <1>2, <1>4, SafetyInvariant, IdsAndLeases, PTL DEF Spec, CompletedKept

\* ... hence while nothing is cut short and holders are punctual.
THEOREM ResultKept ==
    ASSUME Punctual, Faulty = {}
    PROVE  Spec => CompletedKept
  BY NobodyTakesOver, ResultKeptApart, PTL

-----------------------------------------------------------------------------
(* Who performs the operation at the same time, while takeovers are apart. *)

\* Of those who have claimed one row all but one have ended: a claim is taken
\* over from the dead only.
LEMMA ExclusiveStep ==
    ASSUME Apart, ExclusiveInv, [Next]_vars
    PROVE  ExclusiveInv'
<1> USE ConstantsAssumption
<1>0. SafetyInv /\ TypeOK /\ IdsInv
  BY DEF Apart, SafetyInv, ApartInv
<1>1. CASE claim' = claim
  BY <1>0, <1>1, DoneStays DEF ExclusiveInv
<1>2. ASSUME NEW q \in Requests, claim' = [claim EXCEPT ![q] = q], pc[q] \in Undecided
      PROVE  ExclusiveInv'
  <2>1. \A s \in Requests : claim[s] # q
    BY <1>0, <1>2, UnmintedId
  <2> QED
    BY <1>0, <1>2, <2>1, DoneStays DEF ExclusiveInv, TypeOK
<1>3. ASSUME NEW q \in Requests, Steal(q)
      PROVE  ExclusiveInv'
  <2>1. claim' = [claim EXCEPT ![q] = row.id] /\ row.id # None
    BY <1>0, <1>3 DEF Steal, Hits, Claimed, TargetInv, Target, SafetyInv
  <2>2. ASSUME NEW s \in Requests, claim[s] = row.id
        PROVE  pc[s] = "done"
    BY <1>3, <2>1, <2>2, ThiefFindsDone DEF Apart, ApartInv, RequestInv, Excluded
  <2> QED
    BY <1>0, <2>1, <2>2, DoneStays DEF ExclusiveInv, TypeOK
<1>4. \/ claim' = claim
      \/ \E q \in Requests : \/ claim' = [claim EXCEPT ![q] = q] /\ pc[q] \in Undecided
                            \/ Steal(q)
  <2>1. ASSUME NEW r \in Requests, StepOf(r)
        PROVE  claim' = claim \/ Insert(r) \/ Steal(r)
    BY <2>1, ClaimMoves
  <2>2. \A r \in Requests : Insert(r) =>
            claim' = [claim EXCEPT ![r] = r] /\ pc[r] \in Undecided
    BY DEF Insert, Claimed, Goto, Undecided, ClaimPhase
  <2> QED
    BY <2>1, <2>2 DEF Next, StepOf, Finished, Cleanup, CleanupSelect, CleanupDelete, Tick,
       vars, clientVars
<1> QED
  BY <1>1, <1>2, <1>3, <1>4

\* Where no claim has been taken over none was a step before.
LEMMA UnstolenBefore ==
    ASSUME SafetyInv, IdsInv, [Next]_vars, Unstolen'
    PROVE  Unstolen /\ NoTheft
<1> USE ConstantsAssumption DEF Unstolen
<1>0. TypeOK
  BY DEF SafetyInv
<1>1. NoTheft
  <2> SUFFICES ASSUME NEW q \in Requests, Steal(q) PROVE FALSE
    BY DEF NoTheft
  <2>1. claim'[q] = snap[q].id /\ pc[q] = "steal"
    BY <1>0 DEF Steal, Claimed, TypeOK
  <2>2. snap[q].id # q /\ snap[q].id # None
    BY <2>1, UnmintedId DEF SafetyInv, TargetInv, Target, Undecided, ClaimPhase
  <2> QED
    BY <2>1, <2>2
<1>2. Unstolen
  BY <1>0, ClaimHeld DEF IdsInv, Ids
<1> QED
  BY <1>1, <1>2

\* As long as no claim has been taken over, every row is as old as it says.
LEMMA UnstolenAges == Spec => [](Unstolen => AgedInv)
<1>1. Init => AgedInv
  BY ConstantsAssumption DEF Init, AgedInv, Aged, NoRow
<1>2. SafetyInv /\ IdsInv /\ (Unstolen => AgedInv) /\ [Next]_vars => (Unstolen => AgedInv)'
  BY UnstolenBefore, AgedStep
<1> QED
  BY <1>1, <1>2, SafetyInvariant, IdsAndLeases, PTL DEF Spec

\* Nobody takes over what nobody is about to take over.
LEMMA UnstolenStays ==
    ASSUME TypeOK, NoTakeover, Unstolen, [Next]_vars
    PROVE  Unstolen'
<1>1. ASSUME NEW r \in Requests, StepOf(r)
      PROVE  claim' = claim \/ claim' = [claim EXCEPT ![r] = r]
  BY <1>1, ClaimMoves DEF NoTakeover, Steal, Insert, Claimed
<1>2. Cleanup \/ Tick \/ UNCHANGED vars => claim' = claim
  BY DEF Cleanup, CleanupSelect, CleanupDelete, Tick, vars, clientVars
<1> QED
  BY <1>1, <1>2 DEF Unstolen, TypeOK, Next, StepOf, Finished

\* Two different claims of one request and one retry of it are their own: the
\* retry that took a claim over shares it.
LEMMA TwoClaimsUnstolen ==
    ASSUME TwoAttempts, SafetyInv, IdsInv, NEW r \in Requests, NEW s \in Requests,
           r # s, claim[r] # claim[s], claim[r] # None, claim[s] # None
    PROVE  Unstolen
<1>1. /\ claim[r] \in Requests /\ claim[claim[r]] = claim[r]
      /\ claim[s] \in Requests /\ claim[claim[s]] = claim[s]
  BY DEF SafetyInv, TypeOK, IdsInv, Ids, Minted
<1>2. \A q \in Requests : q = r \/ q = s
  BY DEF TwoAttempts
<1> QED
  BY <1>1, <1>2 DEF Unstolen

\* Two requests perform the operation at once only under different claims, and
\* only when the record of one of them has outlived its retention: with one
\* retry of a request that may be cut short anywhere, and with any number of
\* requests none of which is.
THEOREM LiveClaim ==
    ASSUME Orderly
    PROVE  Spec => []LiveClaimKept
<1> DEFINE Unshared == Faulty = {} => Unstolen
<1>1. ASSUME SafetyInv, IdsInv, ExclusiveInv, Unstolen => AgedInv, Unshared
      PROVE  LiveClaimKept
  <2> SUFFICES ASSUME NEW r \in Requests, NEW s \in Requests, r # s,
                      pc[r] = "operate", pc[s] = "operate"
               PROVE  claim[r] # claim[s] /\ (Outlived(r) \/ Outlived(s))
    BY DEF LiveClaimKept
  <2>1. claim[r] # None /\ claim[s] # None
    BY <1>1 DEF SafetyInv, TargetInv, Target, ExecutePhase
  <2>2. claim[r] # claim[s]
    BY <1>1, <2>1 DEF ExclusiveInv
  <2>3. Unstolen
    BY <1>1, <2>1, <2>2, TwoClaimsUnstolen DEF Orderly
  <2>4. Aged(r) /\ Aged(s)
    BY <1>1, <2>3 DEF AgedInv
  <2> QED
    BY <2>2, <2>4 DEF Aged
<1>2. Init => ExclusiveInv /\ Unstolen
  BY DEF Init, ExclusiveInv, Unstolen
<1>3. SafetyInv /\ ApartInv /\ ExclusiveInv /\ [Next]_vars => ExclusiveInv'
  BY ExclusiveStep DEF Apart, Orderly
<1>4. Spec => []Unshared
  <2>1. CASE Faulty = {}
    <3>1. TypeOK /\ NoTakeover /\ Unstolen /\ [Next]_vars => Unstolen'
      BY UnstolenStays
    <3>2. Spec => []NoTakeover
      BY <2>1, NobodyTakesOver DEF Orderly
    <3>3. Unstolen => Unshared
      OBVIOUS
    <3> QED
      BY <1>2, <3>1, <3>2, <3>3, TypeCorrect, PTL DEF Spec
  <2>2. CASE Faulty # {}
    <3>1. Unshared
      BY <2>2
    <3> QED
      BY <3>1, PTL
  <2> QED
    BY <2>1, <2>2
<1>5. Spec => []ApartInv
  BY OrderlyApart, ApartInvariant, PTL DEF Orderly
<1> QED
  BY <1>1, <1>2, <1>3, <1>4, <1>5, SafetyInvariant, IdsAndLeases, UnstolenAges, PTL
     DEF Spec

=============================================================================
