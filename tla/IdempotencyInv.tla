--------------------------- MODULE IdempotencyInv ---------------------------
(***************************************************************************)
(* The inductive invariants behind the theorems of IdempotencyProofs and   *)
(* IdempotencyOnceProofs, kept apart from the proofs so that TLC can check *)
(* them too.                                                               *)
(***************************************************************************)
EXTENDS Idempotency, FiniteSets

\* Where a request has answered nothing and performed nothing.
Undecided == {"idle"} \cup ClaimPhase \cup ReplayPhase

\* A result can be told to a request that carries payload p.
Genuine(o, p) == /\ o \in Requests
                 /\ effect[o] = "persisted"
                 /\ Payload[o] = p

\* The row: its id is its inserter, whose payload it carries for ever; it has
\* a result only when completed, and that result is genuine and was committed
\* by a request that had claimed this very row.
RowInv ==
    /\ row.id = None => row.status = "absent" /\ row.result = None
    /\ row.id # None => /\ row.status \in {"PROCESSING", "COMPLETED"}
                        /\ row.fp = Payload[row.id]
    /\ row.status = "COMPLETED" <=> row.result # None
    /\ row.result # None => Genuine(row.result, row.fp) /\ claim[row.result] = row.id

\* A claim, and a row about to be stolen or replayed, carries r's payload.
Target(r) ==
    /\ claim[r] # None => Payload[claim[r]] = Payload[r]
    /\ \/ pc[r] \in ExecutePhase
       \/ renewal[r] # "off"
       \/ effect[r] # "none"
       => claim[r] # None
    /\ pc[r] \in {"steal"} \cup ReplayPhase =>
           snap[r].id # None /\ Payload[snap[r].id] = Payload[r]
    /\ pc[r] = "replayCommit" =>
           Genuine(snap[r].result, Payload[r]) /\ claim[snap[r].result] = snap[r].id
TargetInv == \A r \in Requests : Target(r)

\* What a request has performed and said at each step.
Outcome(r) ==
    /\ pc[r] \in Undecided \cup {"load", "operate"} =>
           effect[r] = "none" /\ reply[r] = NoAnswer
    /\ pc[r] \in {"release", "releaseDelete"} /\ r \notin Faulty => effect[r] = "none"
    /\ reply[r].kind \in {"in_progress", "mismatch", "replayed"} => effect[r] = "none"
    /\ reply[r].kind = "failed" /\ r \notin Faulty => effect[r] = "none"
    /\ reply[r].kind = "replayed" => Genuine(reply[r].of, Payload[r])
OutcomeInv == \A r \in Requests : Outcome(r)

SafetyInv == TypeOK /\ RowInv /\ TargetInv /\ OutcomeInv

-----------------------------------------------------------------------------
(* What is claimed, whoever fails.                                         *)

\* An id that is used anywhere was minted by the INSERT of its own request.
Minted(i) == i # None => claim[i] = i

Ids(r) ==
    /\ Minted(claim[r]) /\ Minted(snap[r].id)
    /\ pc[r] \in Undecided => claim[r] = None
    /\ renewal[r] # "off" => pc[r] \in ExecutePhase
IdsInv == Minted(row.id) /\ Minted(sweep) /\ \A r \in Requests : Ids(r)

\* No lease reaches further than a whole lease from now, and no record's expiry
\* further than a whole retention, although both are written later than read.
LeasesInv ==
    /\ row.lease <= now + Lease /\ row.expires <= now + Retention
    /\ \A r \in Requests :
          stamp[r] <= now + Lease /\ renewStamp[r] <= now + Lease /\ seen[r] <= now

-----------------------------------------------------------------------------
(* While no two takeovers overlap and every holder is punctual.            *)

\* No two requests have both read a lapsed lease and not yet taken it over.
TakeoversApart == \A r, s \in Requests : pc[r] = "steal" /\ pc[s] = "steal" => r = s

\* A row in PROCESSING has an owner who has claimed it, and who executes under
\* a lease that runs or is gone; a completed row has none.
OwnerInv ==
    /\ row.status = "PROCESSING" =>
        /\ row.owner # None /\ claim[row.owner] = row.id
        /\ pc[row.owner] = "done" \/ (pc[row.owner] \in ExecutePhase /\ row.lease > now)
    /\ row.status # "PROCESSING" => row.owner = None

\* Who has claimed the row and is not its owner has ended, or has seen it
\* completed.
Excluded(r) ==
    claim[r] = row.id /\ row.id # None =>
        \/ row.status = "PROCESSING" /\ (row.owner = r \/ pc[r] = "done")
        \/ row.status = "COMPLETED" /\ pc[r] \in {"release", "unwind", "done"}

\* A claim is made before its own lease has run out, and a renewal never
\* shortens the lease it finds.
StampInv(r) == pc[r] \in ClaimPhase => stamp[r] > now
RenewInv(r) == renewal[r] = "write" /\ row.owner = r => row.lease <= renewStamp[r]

\* The owner whose lapsed lease was read is gone for good.
StealInv(r) ==
    pc[r] = "steal" /\ row.id = snap[r].id =>
        row.status = "PROCESSING" /\ pc[row.owner] = "done"

\* A result that is about to be replayed still stands, and a kept one is where
\* its claim is.
StandingInv(r) ==
    /\ pc[r] = "replayCommit" /\ row.id = snap[r].id =>
           row.status = "COMPLETED" /\ row.result = snap[r].result
    /\ effect[r] = "persisted" /\ claim[r] = row.id => row.result = r

RequestInv(r) ==
    Excluded(r) /\ StampInv(r) /\ RenewInv(r) /\ StealInv(r) /\ StandingInv(r)

\* Of those who have claimed one row all but one have ended.
ExclusiveInv ==
    \A r, s \in Requests : r # s /\ claim[r] = claim[s] /\ claim[r] # None =>
        pc[r] = "done" \/ pc[s] = "done"

ApartInv ==
    /\ IdsInv /\ LeasesInv /\ OwnerInv
    /\ \A r \in Requests : RequestInv(r)
    /\ ExecutedOnce

-----------------------------------------------------------------------------
(* While nothing is cut short, nobody takes anything over.                 *)

\* Nobody is about to take a claim over ...
NoTakeover == \A r \in Requests : pc[r] # "steal"

\* ... or nobody has taken one over yet.
Unstolen == \A r \in Requests : claim[r] \in {None, r}

CalmInv ==
    /\ NoTakeover
    /\ \A r \in Requests : pc[r] \in {"unwind", "done"} => row.owner # r

\* As long as nobody takes a claim over, only its inserter has claimed a row, a row
\* that somebody is about to delete for its age has expired, whoever has
\* performed the operation left its row completed or deleted, and whoever is to
\* perform it has its row until the retention ends.
Aged(r) ==
    /\ claim[r] \in {None, r}
    /\ pc[r] \in {"expire", "replayExpire"} /\ row.id = snap[r].id /\ row.id # None =>
           row.expires <= now
    /\ effect[r] # "none" /\ row.id = claim[r] => row.status = "COMPLETED"
    /\ pc[r] = "releaseDelete" => effect[r] = "none"
    /\ pc[r] \in {"load", "operate"} =>
           Outlived(r) \/ (row.id = r /\ row.expires = seen[r] + Retention)
AgedInv ==
    /\ row.id # None /\ sweep = row.id => row.expires <= now
    /\ \A r \in Requests : Aged(r)

-----------------------------------------------------------------------------
(* How far a request is from its end.  _claim_request and execute() loop   *)
(* until they find what they can use: each further round is somebody       *)
(* else's change of the row, and those run out.                            *)

\* The requests whose row was never inserted.
Unborn == {s \in Requests : claim[s] # s}

\* How often the row can still be inserted or deleted: every request inserts
\* one row at most, and each row is deleted once.
ChangesLeft == 2 * Cardinality(Unborn) + (IF Absent THEN 0 ELSE 1)

\* r acts on a row, or on the absence of one, that it will not find.
Outdated(r) ==
    \/ pc[r] = "insert" /\ ~Absent
    \/ pc[r] \in {"expire", "replay", "replayExpire"} /\ ~Hits(snap[r].id)

\* The steps from here to the end on the longest way without another round.
WayLeft(r) ==
    CASE pc[r] = "idle" -> 10
      [] pc[r] = "select" -> 9
      [] pc[r] = "replay" -> 8
      [] pc[r] \in {"insert", "expire", "steal", "replayExpire"} -> 7
      [] pc[r] = "replayCommit" -> 6
      [] pc[r] = "load" -> 5
      [] pc[r] = "operate" -> 4
      [] pc[r] = "release" -> 3
      [] pc[r] = "releaseDelete" -> 2
      [] pc[r] = "unwind" -> 1
      [] pc[r] = "done" -> 0

\* Another round costs three steps, a change of the row or the discovery of one.
StepsLeft(r) == WayLeft(r) + 3 * ChangesLeft + (IF Outdated(r) THEN 3 ELSE 0)

\* Who is about to delete or to replay a row has found one, and a row that was
\* found completed is so as long as it is there.
FoundInv ==
    \A r \in Requests :
        /\ pc[r] = "expire" => snap[r].id # None
        /\ pc[r] \in {"replay", "replayExpire"} /\ Hits(snap[r].id) =>
               row.status = "COMPLETED"

\* No request goes round for ever: nobody's step takes it further from its end,
\* and each of its own takes it nearer (the "while True" of _claim_request and
\* of execute()).
EveryStepCounts ==
    [][\A r \in Requests : /\ StepsLeft(r)' <= StepsLeft(r)
                           /\ pc'[r] # pc[r] => StepsLeft(r)' < StepsLeft(r)]_vars

=============================================================================
