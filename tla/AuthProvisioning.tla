-------------------------- MODULE AuthProvisioning --------------------------
(***************************************************************************)
(* The local users behind the identity provider's accounts:                *)
(* pfm/app/auth/service.py over auth/repository.py, and the tables users   *)
(* and auth_identities with their unique keys.                             *)
(*                                                                         *)
(* A call is one of AuthService's methods.  Those that bring a profile     *)
(* from the provider run _upsert_local_user, one transaction of several    *)
(* statements at READ COMMITTED; authenticate_request only reads.  A       *)
(* statement sees what is committed; a write locks its row and its unique  *)
(* keys until the transaction ends, and a write that needs a lock another  *)
(* transaction holds waits (its action is disabled) and then either        *)
(* succeeds or violates the constraint.  A statement that takes one lock   *)
(* after another is as many actions.  A flush writes the users row before  *)
(* the identity, and only the rows that differ from what was loaded.       *)
(* Transactions can wait for one another in a circle; PostgreSQL fails one *)
(* of them then.                                                           *)
(*                                                                         *)
(* Of the columns only those are kept that the statements tell apart: the  *)
(* unique address, is_active, and the owner of an identity.  The ORM       *)
(* writes the columns that differ from the row it loaded, and no other.    *)
(***************************************************************************)
EXTENDS Naturals

CONSTANTS
    Calls,
    Op,            \* Op[c]: "session" (sign-up, sign-in, refresh), "confirm", "request"
    Subjects,      \* the provider's accounts
    Subject,       \* Subject[c]: the account that call c is made for
    Emails,
    Address,       \* Address[s]: the address of s at first, None if it has none
    MaxMoves,      \* bound on changes of address at the provider
    None           \* SQL NULL / Python None

ASSUME ProvisioningAssumption ==
    /\ Op \in [Calls -> {"session", "confirm", "request"}]
    /\ Subject \in [Calls -> Subjects]
    /\ Address \in [Subjects -> Emails \cup {None}]
    /\ \A s, t \in Subjects : Address[s] = Address[t] /\ Address[s] # None => s = t
    /\ MaxMoves \in Nat
    /\ None \notin Calls /\ None \notin Emails /\ None \notin Subjects

VARIABLES
    account,       \* account[s]: the address the provider has for s
    moves,         \* how often an address has changed at the provider
    users,         \* users[u]: the row inserted by call u
    identities,    \* identities[s]: the user_id of s's row of auth_identities
    pc,            \* pc[c]: the next statement or call of c
    profile,       \* profile[c]: the address in the profile c was given
    found,         \* found[c]: the user c works on
    loaded,        \* loaded[c]: the user's row as c read it
    holds,         \* holds[c]: the locks of c's transaction
    outcome        \* outcome[c]: how c ended, and the user it answered with; of the
                   \* errors only a violated constraint is told from the others

rows == <<users, identities>>
vars == <<account, moves, rows, pc, profile, found, loaded, holds, outcome>>

-----------------------------------------------------------------------------
Row(e, a) == [email |-> e, active |-> a]
NoUser == Row(None, FALSE)

Outcome(kind, u) == [kind |-> kind, user |-> u]

\* A row of users; an entry of the unique index on email; an identity, its row
\* and its entry of the unique index.
UserRow(u) == <<"user", u>>
EmailKey(e) == <<"email", e>>
SubjectKey(s) == <<"subject", s>>
\* The lock of a foreign key on the users row that c's identity names.  Calls
\* share it; an UPDATE that changes the address of u, a key column, takes the
\* row FOR UPDATE and excludes them all.
Reference(c, u) == <<"reference", c, u>>
References(u) == {Reference(d, u) : d \in Calls}

Keys == ({"user"} \X Calls) \cup ({"email"} \X Emails) \cup ({"subject"} \X Subjects)
        \cup ({"reference"} \X Calls \X Calls)

Free(c, keys) == \A d \in Calls \ {c} : keys \cap holds[d] = {}
Lock(c, keys) == holds' = [holds EXCEPT ![c] = @ \cup keys]

\* Bug: the transaction of a call that failed is left open.
ReleaseForgotten(c) == UNCHANGED holds /\ c = c
Release(c) == holds' = [holds EXCEPT ![c] = {}]

Init ==
    /\ account = Address
    /\ moves = 0
    /\ users = [u \in Calls |-> NoUser]
    /\ identities = [s \in Subjects |-> None]
    /\ pc = [c \in Calls |-> "idle"]
    /\ profile = [c \in Calls |-> None]
    /\ found = [c \in Calls |-> None]
    /\ loaded = [c \in Calls |-> NoUser]
    /\ holds = [c \in Calls |-> {}]
    /\ outcome = [c \in Calls |-> Outcome("none", None)]

Goto(c, from, to) == pc[c] = from /\ pc' = [pc EXCEPT ![c] = to]
GotoOneOf(c, from, next) == pc[c] = from /\ \E to \in next : pc' = [pc EXCEPT ![c] = to]

\* A call's own variables go with it.
End(c, from, what) ==
    /\ Goto(c, from, "done")
    /\ outcome' = [outcome EXCEPT ![c] = what]
    /\ profile' = [profile EXCEPT ![c] = None]
    /\ found' = [found EXCEPT ![c] = None]
    /\ loaded' = [loaded EXCEPT ![c] = NoUser]

\* An exception leaves session.begin(): everything the call wrote is undone.
Fail(c, from, kind) ==
    /\ End(c, from, Outcome(kind, None))
    /\ Release(c)
    /\ UNCHANGED <<account, moves, rows>>

-----------------------------------------------------------------------------
(* Before the transaction: what the provider says.                         *)

\* The provider answers with a profile; sign-up and sign-in and refresh verify
\* the access token that came with it, confirm_email_verification does not.
ProviderAnswers(c) ==
    /\ Op[c] # "request"
    /\ Goto(c, "idle", IF Op[c] = "session" THEN "verify" ELSE "lookup")
    /\ profile' = [profile EXCEPT ![c] = account[Subject[c]]]
    /\ UNCHANGED <<account, moves, rows, found, loaded, holds, outcome>>

\* It refuses, fails or sends no session (a sign-up whose address is still to
\* be confirmed is of this kind), or the key set cannot be fetched.
ProviderFails(c) ==
    \/ Fail(c, "idle", "failed")
    \/ Fail(c, "verify", "failed")

TokenVerified(c) ==
    /\ \/ Goto(c, "verify", "lookup")
       \/ Op[c] = "request" /\ Goto(c, "idle", "lookup")
    /\ UNCHANGED <<account, moves, rows, profile, found, loaded, holds, outcome>>

-----------------------------------------------------------------------------
(* The statements of _upsert_local_user and authenticate_request.          *)

\* SELECT the identity.  Without one a request is not provisioned, nor is a
\* profile without an address.
Provisions(c) == Op[c] # "request" /\ profile[c] # None

Lookup(c) ==
    /\ identities[Subject[c]] # None
    /\ Goto(c, "lookup", "load")
    /\ found' = [found EXCEPT ![c] = identities[Subject[c]]]
    /\ UNCHANGED <<account, moves, rows, profile, loaded, holds, outcome>>

LookupMissing(c) ==
    /\ identities[Subject[c]] = None /\ Provisions(c)
    /\ Goto(c, "lookup", "byEmail")
    /\ UNCHANGED <<account, moves, rows, profile, found, loaded, holds, outcome>>

LookupRefused(c) ==
    /\ identities[Subject[c]] = None /\ ~Provisions(c)
    /\ Fail(c, "lookup", "failed")

\* Does sync_user_profile change the address of the row as c read it?
ReaddressesRow(c, rec) == profile[c] # None /\ profile[c] # rec.email
Readdresses(c) == ReaddressesRow(c, loaded[c])

\* SELECT the identity's user; the identity's foreign key names a row.  The
\* profile may differ from the user, from the identity, or from neither.
Load(c) ==
    /\ Op[c] # "request"
    /\ GotoOneOf(c, "load", IF ReaddressesRow(c, users[found[c]]) THEN {"update"}
                             ELSE {"update", "identity", "commit"})
    /\ loaded' = [loaded EXCEPT ![c] = users[found[c]]]
    /\ UNCHANGED <<account, moves, rows, profile, found, holds, outcome>>

\* authenticate_request ends here: the principal is the identity's user.
Authenticate(c) ==
    /\ pc[c] = "load" /\ Op[c] = "request" /\ users[found[c]].active
    /\ End(c, "load", Outcome("ok", found[c]))
    /\ UNCHANGED <<account, moves, rows, holds>>

AuthenticateInactive(c) ==
    /\ pc[c] = "load" /\ Op[c] = "request" /\ ~users[found[c]].active
    /\ Fail(c, "load", "failed")

\* Another row has the address that c writes.
AddressTaken(c) ==
    \E u \in Calls \ {found[c]} : users[u] # NoUser /\ users[u].email = profile[c]

\* Does c's UPDATE change the address of the row as it is now?
Rekeys(c) == Readdresses(c) /\ profile[c] # users[found[c]].email

\* What an UPDATE of c's user locks first: its row, and with it the address
\* that the row has, which whoever wants to write it waits for.
RowKeys(c) ==
    {UserRow(found[c])} \cup {EmailKey(e) : e \in {users[found[c]].email} \ {None}}

\* What c's next statement, or the rest of a statement begun, has to lock.
NextKeys(c) ==
    CASE pc[c] = "update" -> RowKeys(c) \cup (IF Rekeys(c) THEN References(found[c]) ELSE {})
      [] pc[c] = "rekey" -> {EmailKey(profile[c])}
      [] pc[c] \in {"identity", "link"} -> {SubjectKey(Subject[c])}
      [] pc[c] \in {"sync", "touch"} -> RowKeys(c)
      [] pc[c] = "insert" -> {UserRow(c), EmailKey(profile[c])}
      [] pc[c] = "refer" -> {Reference(c, found[c])}
      [] OTHER -> {}

Takes(c) == Free(c, NextKeys(c)) /\ Lock(c, NextKeys(c))
Unread == UNCHANGED <<account, moves, rows, profile, found, loaded, outcome>>

\* UPDATE users, of the flush before the identities are listed: the row, then
\* the entry of a new address.
Update(c) ==
    /\ GotoOneOf(c, "update", IF Rekeys(c) THEN {"rekey"} ELSE {"identity", "commit"})
    /\ Takes(c)
    /\ Unread

Rekey(c) ==
    /\ GotoOneOf(c, "rekey", {"identity", "commit"})
    /\ ~AddressTaken(c)
    /\ Takes(c)
    /\ Unread

RekeyConflict(c) ==
    /\ pc[c] = "rekey" /\ Free(c, NextKeys(c))
    /\ AddressTaken(c)
    /\ Fail(c, "rekey", "conflict")

\* UPDATE auth_identities, of the same flush.
UpdateIdentity(c) ==
    /\ Goto(c, "identity", "commit")
    /\ Takes(c)
    /\ Unread

\* SELECT the user by the address of a profile that has no identity yet.
HasAddress(u, e) == users[u] # NoUser /\ users[u].email = e

ByEmailKnown(c) ==
    /\ GotoOneOf(c, "byEmail", {"sync", "link"})
    /\ \E u \in Calls :
          /\ HasAddress(u, profile[c])
          /\ found' = [found EXCEPT ![c] = u]
          /\ loaded' = [loaded EXCEPT ![c] = users[u]]
    /\ UNCHANGED <<account, moves, rows, profile, holds, outcome>>

ByEmailUnknown(c) ==
    /\ \A u \in Calls : ~HasAddress(u, profile[c])
    /\ Goto(c, "byEmail", "insert")
    /\ found' = [found EXCEPT ![c] = c]
    /\ UNCHANGED <<account, moves, rows, profile, loaded, holds, outcome>>

\* Bug: create_user commits instead of flushing.
InsertedCommitted(c) == users' = [users EXCEPT ![c] = Row(profile[c], TRUE)]
InsertedFlushed(c) == UNCHANGED users /\ c = c

\* INSERT the user, flushed before the identity is inserted.
InsertUser(c) ==
    /\ Goto(c, "insert", "link")
    /\ ~AddressTaken(c)
    /\ Takes(c)
    /\ InsertedFlushed(c)
    /\ UNCHANGED <<account, moves, identities, profile, found, loaded, outcome>>

InsertConflict(c) ==
    /\ Free(c, NextKeys(c))
    /\ AddressTaken(c)
    /\ Fail(c, "insert", "conflict")

\* UPDATE the user found by its address, which sync_user_profile has changed:
\* create_identity's flush writes it before the identity.
Sync(c) ==
    /\ Goto(c, "sync", "link")
    /\ Takes(c)
    /\ Unread

\* Bug: (provider, issuer, subject_id) is not unique; the last mapping counts.
IdentityTakenNever(s) == s # s
IdentityTaken(s) == identities[s] # None

\* INSERT the identity: its entry in the index, then the row it refers to.
Link(c) ==
    /\ Goto(c, "link", "refer")
    /\ ~IdentityTaken(Subject[c])
    /\ Takes(c)
    /\ Unread

LinkConflict(c) ==
    /\ Free(c, NextKeys(c))
    /\ IdentityTaken(Subject[c])
    /\ Fail(c, "link", "conflict")

\* A session touches last_login_at, which a user found by its address may
\* have already as it is.
Refer(c) ==
    /\ GotoOneOf(c, "refer", (IF Op[c] = "session" THEN {"touch"} ELSE {"commit"})
                              \cup (IF found[c] # c THEN {"commit"} ELSE {}))
    /\ Takes(c)
    /\ Unread

\* UPDATE last_login_at, flushed before the identities are listed.
Touch(c) ==
    /\ Goto(c, "touch", "commit")
    /\ Takes(c)
    /\ Unread

-----------------------------------------------------------------------------
(* The end of the transaction.                                             *)

\* Bug: every column of the user that was loaded is written back.
UpdatedAllColumns(c) == Row(profile[c], loaded[c].active)
\* The row as c's UPDATE leaves it.
Updated(c) == Row(profile[c], users[found[c]].active)

\* Does c's transaction hold a new user, a new address, an identity's row, new
\* or with the owner that it has?
Inserts(c) == found[c] = c
Writes(c) == found[c] # c /\ Readdresses(c)
Links(c) == SubjectKey(Subject[c]) \in holds[c]

CommitRows(c) ==
    /\ users' = IF Inserts(c) THEN [users EXCEPT ![c] = Row(profile[c], TRUE)]
                ELSE IF Writes(c) THEN [users EXCEPT ![found[c]] = Updated(c)]
                ELSE users
    /\ identities' = IF Links(c)
                     THEN [identities EXCEPT ![Subject[c]] = found[c]]
                     ELSE identities

\* Bug: the caller is given the provider's subject for the user's id.
AnswerSubject(c) == Outcome("ok", Subject[c])
Answer(c) == Outcome("ok", found[c])

Commit(c) ==
    /\ End(c, "commit", Answer(c))
    /\ CommitRows(c)
    /\ Release(c)
    /\ UNCHANGED <<account, moves>>

\* The request's deadline cancels the call, or its process dies: the
\* transaction is rolled back.
Cut(c) == \E from \in {"verify", "lookup", "load", "update", "rekey", "identity",
                       "byEmail", "insert", "sync", "link", "refer", "touch",
                       "commit"} : Fail(c, from, "failed")

\* Does d keep c waiting?
Waits(c, d) == c # d /\ NextKeys(c) \cap holds[d] # {}

\* c waits for itself in the end: it is among all those that the call it waits
\* for waits for, and the calls these wait for.
InCircle(c) ==
    /\ \E d \in Calls : Waits(c, d)
    /\ \A S \in SUBSET Calls :
          (\A d \in S \cup {c}, e \in Calls : Waits(d, e) => e \in S) => c \in S

\* PostgreSQL looks for a circle when a transaction has waited for a while, and
\* fails the transaction that finds one.
BreakCircle(c) == InCircle(c) /\ Fail(c, pc[c], "failed")

\* The same, after the commit was applied.
CutAfterCommit(c) ==
    /\ End(c, "commit", Outcome("failed", None))
    /\ CommitRows(c)
    /\ Release(c)
    /\ UNCHANGED <<account, moves>>

-----------------------------------------------------------------------------
(* Others.                                                                 *)

\* The owner of an account changes its address; the provider keeps addresses
\* distinct.
MoveAddress(s) ==
    /\ moves < MaxMoves
    /\ moves' = moves + 1
    /\ \E e \in Emails :
          /\ \A t \in Subjects : account[t] # e
          /\ account' = [account EXCEPT ![s] = e]
    /\ UNCHANGED <<rows, pc, profile, found, loaded, holds, outcome>>

\* An operator deactivates a user; no code does.
Deactivate(u) ==
    /\ users[u].active
    /\ \A c \in Calls : UserRow(u) \notin holds[c]
    /\ users' = [users EXCEPT ![u].active = FALSE]
    /\ UNCHANGED <<account, moves, identities, pc, profile, found, loaded, holds, outcome>>

Finished == (\A c \in Calls : pc[c] \in {"idle", "done"}) /\ UNCHANGED vars

Upsert(c) ==
    \/ LookupMissing(c) \/ Load(c) \/ Update(c) \/ Rekey(c) \/ RekeyConflict(c)
    \/ UpdateIdentity(c) \/ ByEmailKnown(c) \/ ByEmailUnknown(c)
    \/ InsertUser(c) \/ InsertConflict(c) \/ Sync(c) \/ Link(c) \/ LinkConflict(c)
    \/ Refer(c) \/ Touch(c) \/ Commit(c)

Proceed(c) ==
    \/ TokenVerified(c) \/ Lookup(c) \/ LookupRefused(c)
    \/ Authenticate(c) \/ AuthenticateInactive(c) \/ Upsert(c)

Next ==
    \/ \E c \in Calls : ProviderAnswers(c) \/ ProviderFails(c) \/ Proceed(c)
                        \/ Cut(c) \/ CutAfterCommit(c) \/ BreakCircle(c)
    \/ \E s \in Subjects : MoveAddress(s)
    \/ \E u \in Calls : Deactivate(u)
    \/ Finished

Spec == Init /\ [][Next]_vars

\* As long as some call has a statement it can execute, one is executed: the
\* database and the event loop do not stop while there is work, and a circle of
\* waiting transactions is found out.
FairSpec ==
    Spec /\ WF_vars(\E c \in Calls : pc[c] # "idle" /\ (Proceed(c) \/ BreakCircle(c)))

-----------------------------------------------------------------------------
\* The variables have their types.
TypeOK ==
    /\ account \in [Subjects -> Emails \cup {None}]
    /\ moves \in 0..MaxMoves
    /\ users \in [Calls -> [email : Emails \cup {None}, active : BOOLEAN]]
    /\ identities \in [Subjects -> Calls \cup {None}]
    /\ pc \in [Calls -> {"idle", "verify", "lookup", "load", "update", "rekey",
                         "identity", "byEmail", "insert", "sync", "link", "refer",
                         "touch", "commit", "done"}]
    /\ profile \in [Calls -> Emails \cup {None}]
    /\ found \in [Calls -> Calls \cup {None}]
    /\ loaded \in [Calls -> [email : Emails \cup {None}, active : BOOLEAN]]
    /\ holds \in [Calls -> SUBSET Keys]
    /\ outcome \in [Calls -> [kind : {"none", "ok", "conflict", "failed"},
                              user : Calls \cup {None}]]

\* Every session and every authenticated request of an account, of whichever
\* process and whenever, is answered with the one user the account is linked
\* to now: the link is made once, although the first sign-ins race.
AnswersNameTheOwner ==
    \A c \in Calls : outcome[c].kind = "ok" => identities[Subject[c]] = outcome[c].user

\* Nobody is half provisioned: a user that can be seen has an identity, and an
\* identity a user, at whatever statement a call was cut short.
ProvisionedWhole ==
    /\ \A u \in Calls : users[u] # NoUser => \E s \in Subjects : identities[s] = u
    /\ \A s \in Subjects : identities[s] # None => users[identities[s]] # NoUser

\* get_user_by_email is asked for one row and finds no two.
AddressesDistinct ==
    \A u, v \in Calls : HasAddress(u, users[v].email) /\ users[v] # NoUser => u = v

\* The call that loses the race of two first sign-ins fails with the
\* constraint only after the account has been linked, so that its retry
\* succeeds; unless addresses have changed hands at the provider.
LoserMayRetry ==
    moves = 0 => \A c \in Calls :
        outcome[c].kind = "conflict" => identities[Subject[c]] # None

\* How far c's transaction is with its writes.
Stage(c) ==
    CASE pc[c] \in {"update", "insert", "sync"} -> 1
      [] pc[c] = "rekey" -> 2
      [] pc[c] \in {"identity", "link"} -> 3
      [] pc[c] = "refer" -> 4
      [] pc[c] = "touch" -> 5
      [] pc[c] = "commit" -> 6
      [] OTHER -> 0

\* Transactions of _upsert_local_user deadlock only where an address has passed
\* from one account to another: two calls exchange addresses, or two link an
\* account to the user of another, one of which writes the user first.
CirclesNeedMoves == moves = 0 => \A c \in Calls : ~InCircle(c)

\* A sign-in that loaded a user before its deactivation does not undo it.
DeactivationSticks ==
    [][\A u \in Calls : users[u] # NoUser /\ ~users[u].active => ~users'[u].active]_vars

\* Every call ends, although transactions wait for one another: none waits for
\* a lock that was left behind, and no one waits for ever outside a circle.
EveryCallEnds == <>[](\A c \in Calls : pc[c] \in {"idle", "done"})
-----------------------------------------------------------------------------
(* The inductive invariant behind the safety properties.                   *)

\* The statements that write to an identity found, and to one that is inserted.
Rewriting == {"load", "update", "rekey", "identity"}
Linking == {"byEmail", "insert", "sync", "link", "refer", "touch"}

\* No lock is held twice, and a call that has written nothing, or has ended,
\* holds none.
LockInv ==
    /\ \A c, d \in Calls : c # d => holds[c] \cap holds[d] = {}
    /\ \A c \in Calls :
          pc[c] \notin {"rekey", "identity", "link", "refer", "touch", "commit"} => holds[c] = {}

\* The user a call works on is the committed owner of its identity, or the
\* identity is being inserted by the call and nobody else has committed it; a
\* user that the call did not insert itself is committed.
OwnerInv(c) ==
    /\ pc[c] \in Rewriting => identities[Subject[c]] = found[c]
    /\ pc[c] \in {"refer", "touch"} => Links(c) /\ identities[Subject[c]] = None
    /\ pc[c] = "commit" => \/ identities[Subject[c]] = found[c]
                           \/ Links(c) /\ identities[Subject[c]] = None
    /\ pc[c] \in {"idle", "verify", "lookup", "byEmail"} => found[c] = None
    /\ pc[c] \in (Rewriting \cup Linking \cup {"commit"}) \ {"byEmail"} => found[c] # None
    /\ pc[c] = "insert" => found[c] = c
    /\ found[c] = c => pc[c] \in {"insert", "link", "refer", "touch", "commit"}
    /\ found[c] \notin {None, c} => users[found[c]] # NoUser
    /\ pc[c] # "done" => users[c] = NoUser
    /\ outcome[c].kind = "ok" => outcome[c].user # None
    /\ outcome[c].kind # "none" => pc[c] = "done"

\* An address about to be written is locked, and no other user has it.
AddressInv(c) ==
    /\ pc[c] \in Linking \/ found[c] = c => profile[c] # None
    /\ pc[c] = "commit" /\ identities[Subject[c]] = None => profile[c] # None
    /\ pc[c] \in Linking /\ found[c] \notin {None, c} => ~Readdresses(c)
    /\ pc[c] = "rekey" => Readdresses(c)
    /\ \/ pc[c] \in {"identity", "commit"} /\ Readdresses(c)
       \/ pc[c] \in {"link", "refer", "touch", "commit"} /\ found[c] = c
       => EmailKey(profile[c]) \in holds[c]
    /\ EmailKey(profile[c]) \in holds[c] => ~AddressTaken(c)

RowsInv ==
    /\ ProvisionedWhole
    /\ AddressesDistinct
    /\ \A u \in Calls : users[u] # NoUser => users[u].email # None

\* Until an address changes at the provider, none changes here: whatever was
\* or will be written is the address the account had at first.
CalmCall(c) ==
    /\ profile[c] \in {None, Address[Subject[c]]}
    /\ /\ pc[c] \in {"update", "rekey", "identity", "sync", "link", "refer", "touch", "commit"}
       /\ found[c] # c /\ profile[c] # None
       => users[found[c]].email = profile[c] /\ ~Readdresses(c)

CalmInv ==
    moves = 0 =>
        /\ account = Address
        /\ \A s \in Subjects : identities[s] # None => users[identities[s]].email = Address[s]
        /\ \A c \in Calls : CalmCall(c)

\* Of the rows of users a call locks its own user's; where it may hold an
\* identity's key, and when the lock that shuts out others' references.
OrderInv(c) ==
    /\ \A u \in Calls : UserRow(u) \in holds[c] => u = found[c]
    /\ \A s \in Subjects : SubjectKey(s) \in holds[c] => pc[c] \in {"refer", "touch", "commit"}
    /\ \A u \in Calls, d \in Calls \ {c} : Reference(d, u) \in holds[c] => moves # 0

ProvisioningInv ==
    /\ TypeOK
    /\ LockInv
    /\ \A c \in Calls : OwnerInv(c) /\ AddressInv(c)
    /\ RowsInv
    /\ CalmInv
    /\ AnswersNameTheOwner
    /\ LoserMayRetry
=============================================================================
