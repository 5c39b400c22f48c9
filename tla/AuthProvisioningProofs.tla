----------------------- MODULE AuthProvisioningProofs -----------------------
(***************************************************************************)
(* The theorems about AuthProvisioning: its type invariant, the answers,   *)
(* whole provisioning, the retry of a loser, lasting deactivation, and     *)
(* that transactions wait in a circle only once an address has moved, for  *)
(* every set of calls, accounts and addresses.                             *)
(***************************************************************************)
EXTENDS AuthProvisioning, TLAPS

\* Nothing of d's own has changed.
Same(d) ==
    /\ pc'[d] = pc[d]
    /\ profile'[d] = profile[d]
    /\ found'[d] = found[d]
    /\ loaded'[d] = loaded[d]
    /\ holds'[d] = holds[d]
    /\ outcome'[d] = outcome[d]

OthersSame(c) == \A d \in Calls \ {c} : Same(d)

\* A write that takes its locks and goes on; one that reads; one that fails.
Writing(c) ==
    \/ Update(c) \/ Rekey(c) \/ UpdateIdentity(c) \/ InsertUser(c)
    \/ Sync(c) \/ Link(c) \/ Refer(c) \/ Touch(c)
Reading(c) ==
    \/ ProviderAnswers(c) \/ TokenVerified(c) \/ Lookup(c) \/ LookupMissing(c)
    \/ Load(c) \/ ByEmailKnown(c) \/ ByEmailUnknown(c)
Conflicting(c) == RekeyConflict(c) \/ InsertConflict(c) \/ LinkConflict(c)
Failing(c) ==
    \/ ProviderFails(c) \/ LookupRefused(c) \/ AuthenticateInactive(c)
    \/ Conflicting(c) \/ Cut(c) \/ BreakCircle(c)

\* A step of c's that leaves the committed rows alone.
Private(c) == Writing(c) \/ Reading(c) \/ Authenticate(c) \/ Failing(c)

\* c's transaction is committed, whether or not c hears of it.
Committed(c) == Commit(c) \/ CutAfterCommit(c)

LEMMA InitInv == Init => ProvisioningInv
  <1> SUFFICES ASSUME Init PROVE ProvisioningInv
    OBVIOUS
  <1>1. TypeOK
    BY ProvisioningAssumption DEF Init, TypeOK, NoUser, Row, Outcome, Keys
  <1>2. LockInv
    BY DEF Init, LockInv
  <1>3. \A c \in Calls : OwnerInv(c) /\ AddressInv(c)
    BY ProvisioningAssumption
       DEF Init, OwnerInv, AddressInv, Rewriting, Linking, Outcome, EmailKey
  <1>4. RowsInv
    BY ProvisioningAssumption
       DEF Init, RowsInv, ProvisionedWhole, AddressesDistinct, HasAddress, NoUser
  <1>5. CalmInv
    BY ProvisioningAssumption DEF Init, CalmInv, CalmCall
  <1>6. AnswersNameTheOwner /\ LoserMayRetry
    BY DEF Init, AnswersNameTheOwner, LoserMayRetry, Outcome
  <1> QED
    BY <1>1, <1>2, <1>3, <1>4, <1>5, <1>6 DEF ProvisioningInv

\* What a write does: it adds its locks, which nobody else has.
LEMMA WriteFrame ==
    ASSUME TypeOK, NEW c \in Calls, Writing(c)
    PROVE  /\ Free(c, NextKeys(c)) /\ holds' = [holds EXCEPT ![c] = holds[c] \cup NextKeys(c)]
           /\ UNCHANGED rows /\ UNCHANGED <<account, moves, profile, found, loaded, outcome>>
           /\ pc[c] \in {"update", "rekey", "identity", "insert", "sync", "link", "refer", "touch"}
           /\ \E to \in {"rekey", "identity", "link", "refer", "touch", "commit"} :
                 pc' = [pc EXCEPT ![c] = to]
  BY DEF Writing, Update, Rekey, UpdateIdentity, InsertUser, InsertedFlushed, Sync, Link,
     Refer, Touch, Takes, Lock, Unread, Goto, GotoOneOf, rows

LEMMA FailFrame ==
    ASSUME TypeOK, NEW c \in Calls, Failing(c)
    PROVE  \E from : \E kind \in {"conflict", "failed"} :
              /\ Fail(c, from, kind)
              /\ kind = "conflict" => Conflicting(c)
  <1>1. CASE Conflicting(c)
    BY <1>1 DEF Conflicting, RekeyConflict, InsertConflict, LinkConflict
  <1>2. CASE ~Conflicting(c)
    <2>1. \E from : Fail(c, from, "failed")
      BY <1>2 DEF Failing, ProviderFails, LookupRefused, AuthenticateInactive, Cut, BreakCircle
    <2> QED
      BY <1>2, <2>1
  <1> QED
    BY <1>1, <1>2

\* A step of c's is nobody else's.
LEMMA PrivateFrame ==
    ASSUME TypeOK, NEW c \in Calls, Private(c)
    PROVE  OthersSame(c) /\ UNCHANGED rows /\ UNCHANGED <<account, moves>>
  <1>1. CASE Writing(c)
    BY <1>1, WriteFrame DEF TypeOK, OthersSame, Same
  <1>2. CASE Reading(c) \/ Authenticate(c)
    BY <1>2 DEF TypeOK, OthersSame, Same, rows, Reading, ProviderAnswers, TokenVerified,
       Lookup, LookupMissing, Load, Authenticate, ByEmailKnown, ByEmailUnknown,
       Goto, GotoOneOf, End
  <1>3. CASE Failing(c)
    <2>1. PICK from, kind : kind \in {"conflict", "failed"} /\ Fail(c, from, kind)
      BY <1>3, FailFrame
    <2> QED
      BY <2>1 DEF TypeOK, OthersSame, Same, rows, Goto, End, Fail, Release
  <1> QED
    BY <1>1, <1>2, <1>3 DEF Private

LEMMA CommitFrame ==
    ASSUME TypeOK, NEW c \in Calls, Committed(c)
    PROVE  /\ OthersSame(c) /\ CommitRows(c) /\ UNCHANGED <<account, moves>>
           /\ pc[c] = "commit" /\ pc'[c] = "done" /\ holds'[c] = {}
           /\ profile'[c] = None /\ found'[c] = None
           /\ outcome'[c] \in {Outcome("ok", found[c]), Outcome("failed", None)}
  BY DEF TypeOK, Committed, OthersSame, Same, Commit, CutAfterCommit, End, Goto,
     Release, Answer

-----------------------------------------------------------------------------
(* Types and locks.                                                        *)

LEMMA OutcomeType ==
    ASSUME NEW kind \in {"none", "ok", "conflict", "failed"},
           NEW u \in Calls \cup {None}
    PROVE  Outcome(kind, u) \in [kind : {"none", "ok", "conflict", "failed"}, user : Calls \cup {None}]
  BY DEF Outcome

\* The locks that a statement takes have their types.
LEMMA KeyTypes ==
    ASSUME ProvisioningInv, NEW c \in Calls
    PROVE  NextKeys(c) \subseteq Keys
  <1> USE ProvisioningAssumption
  <1>0. TypeOK /\ OwnerInv(c) /\ AddressInv(c)
    BY DEF ProvisioningInv
  <1>1. pc[c] \in {"update", "sync", "refer", "touch"} => found[c] \in Calls
    BY <1>0 DEF TypeOK, OwnerInv, Rewriting, Linking
  <1>2. pc[c] \in {"rekey", "insert"} => profile[c] \in Emails
    BY <1>0 DEF TypeOK, AddressInv, Readdresses, ReaddressesRow, Linking
  <1>3. ASSUME found[c] \in Calls
        PROVE  RowKeys(c) \cup References(found[c]) \subseteq Keys
    <2>1. users[found[c]].email \in Emails \cup {None}
      BY <1>0, <1>3 DEF TypeOK
    <2> QED
      BY <1>3, <2>1 DEF RowKeys, References, Reference, UserRow, EmailKey, Keys
  <1>4. ASSUME pc[c] \in {"update", "sync", "touch"} PROVE NextKeys(c) \subseteq Keys
    BY <1>1, <1>3, <1>4 DEF NextKeys
  <1>5. ASSUME pc[c] \in {"rekey", "insert"} PROVE NextKeys(c) \subseteq Keys
    BY <1>2, <1>5 DEF NextKeys, UserRow, EmailKey, Keys
  <1>6. ASSUME pc[c] \in {"identity", "link", "refer"} PROVE NextKeys(c) \subseteq Keys
    BY <1>1, <1>6 DEF NextKeys, SubjectKey, Reference, Keys
  <1>7. ASSUME pc[c] \notin {"update", "sync", "touch", "rekey", "insert", "identity", "link", "refer"}
        PROVE  NextKeys(c) \subseteq Keys
    BY <1>7 DEF NextKeys
  <1> QED
    BY <1>4, <1>5, <1>6, <1>7

LEMMA FailType ==
    ASSUME TypeOK, NEW c \in Calls, NEW from,
           NEW kind \in {"conflict", "failed"},
           Fail(c, from, kind)
    PROVE  TypeOK'
  <1>1. Outcome(kind, None) \in [kind : {"none", "ok", "conflict", "failed"}, user : Calls \cup {None}]
    BY OutcomeType
  <1> QED
    BY <1>1 DEF TypeOK, Fail, End, Goto, Release, rows, NoUser, Row

LEMMA PrivateType ==
    ASSUME ProvisioningInv, NEW c \in Calls, Private(c)
    PROVE  TypeOK'
  <1> USE ProvisioningAssumption
  <1>0. TypeOK /\ OwnerInv(c)
    BY DEF ProvisioningInv
  <1>1. CASE ProviderAnswers(c) \/ TokenVerified(c) \/ Lookup(c) \/ LookupMissing(c)
    <2>2. CASE ProviderAnswers(c)
      BY <1>0, <2>2 DEF TypeOK, ProviderAnswers, Goto, rows
    <2>3. CASE TokenVerified(c)
      BY <1>0, <2>3 DEF TypeOK, TokenVerified, Goto, rows
    <2>4. CASE Lookup(c)
      BY <1>0, <2>4 DEF TypeOK, Lookup, Goto, rows
    <2>5. CASE LookupMissing(c)
      BY <1>0, <2>5 DEF TypeOK, LookupMissing, Goto, rows
    <2> QED
      BY <1>1, <2>2, <2>3, <2>4, <2>5
  <1>2. CASE Load(c) \/ ByEmailKnown(c) \/ ByEmailUnknown(c)
    <2>1. pc[c] = "load" => found[c] \in Calls
      BY <1>0 DEF TypeOK, OwnerInv, Rewriting
    <2>3. CASE Load(c)
      BY <1>0, <2>1, <2>3 DEF TypeOK, Load, GotoOneOf, rows
    <2>4. CASE ByEmailKnown(c)
      BY <1>0, <2>4 DEF TypeOK, ByEmailKnown, GotoOneOf, rows
    <2>5. CASE ByEmailUnknown(c)
      BY <1>0, <2>5 DEF TypeOK, ByEmailUnknown, Goto, rows
    <2> QED
      BY <1>2, <2>3, <2>4, <2>5
  <1>3. CASE Authenticate(c)
    <2>1. Outcome("ok", found[c]) \in [kind : {"none", "ok", "conflict", "failed"}, user : Calls \cup {None}]
      BY <1>0, OutcomeType DEF TypeOK
    <2> QED
      BY <1>0, <1>3, <2>1 DEF TypeOK, Authenticate, End, Goto, rows, NoUser, Row
  <1>4. CASE Writing(c)
    <2>1. holds' = [holds EXCEPT ![c] = holds[c] \cup NextKeys(c)] /\ NextKeys(c) \subseteq Keys
      BY <1>0, <1>4, WriteFrame, KeyTypes
    <2>2. holds' \in [Calls -> SUBSET Keys]
      BY <1>0, <2>1 DEF TypeOK
    <2>3. PICK to \in {"rekey", "identity", "link", "refer", "touch", "commit"} :
             pc' = [pc EXCEPT ![c] = to]
      BY <1>0, <1>4, WriteFrame
    <2>4. UNCHANGED <<users, identities, account, moves, profile, found, loaded, outcome>>
      BY <1>0, <1>4, WriteFrame DEF rows
    <2> QED
      BY <1>0, <2>2, <2>3, <2>4 DEF TypeOK
  <1>5. CASE Failing(c)
    BY <1>0, <1>5, FailFrame, FailType
  <1> QED
    BY <1>1, <1>2, <1>3, <1>4, <1>5 DEF Private, Reading

\* Where a call is when its statement locks what nobody else has locked.
LEMMA LockStep ==
    ASSUME TypeOK, LockInv, NEW c \in Calls, OthersSame(c), holds' \in [Calls -> SUBSET Keys],
           \/ holds'[c] = {} \/ holds'[c] = holds[c]
           \/ \E keys : Free(c, keys) /\ holds'[c] = holds[c] \cup keys,
           pc'[c] \notin {"rekey", "identity", "link", "refer", "touch", "commit"} => holds'[c] = {}
    PROVE  LockInv'
  <1>1. ASSUME NEW d \in Calls \ {c} PROVE holds'[c] \cap holds[d] = {}
    BY DEF LockInv, Free
  <1>2. ASSUME NEW d \in Calls, NEW e \in Calls, d # e PROVE holds'[d] \cap holds'[e] = {}
    BY <1>1, <1>2 DEF LockInv, OthersSame, Same
  <1> QED
    BY <1>2 DEF LockInv, OthersSame, Same

LEMMA PrivateLocks ==
    ASSUME ProvisioningInv, NEW c \in Calls, Private(c), TypeOK'
    PROVE  LockInv'
  <1>0. TypeOK /\ LockInv
    BY DEF ProvisioningInv
  <1>1. OthersSame(c) /\ holds' \in [Calls -> SUBSET Keys]
    BY <1>0, PrivateFrame DEF TypeOK
  <1>2. CASE Writing(c)
    <2>1. /\ Free(c, NextKeys(c)) /\ holds'[c] = holds[c] \cup NextKeys(c)
          /\ pc'[c] \in {"rekey", "identity", "link", "refer", "touch", "commit"}
      BY <1>0, <1>2, WriteFrame DEF TypeOK
    <2> QED
      BY <1>0, <1>1, <2>1, LockStep
  <1>3. CASE Reading(c) \/ Authenticate(c)
    <2>1. holds'[c] = holds[c] /\ holds[c] = {}
      BY <1>0, <1>3 DEF LockInv, Reading, ProviderAnswers, TokenVerified, Lookup, LookupMissing,
         Load, ByEmailKnown, ByEmailUnknown, Authenticate, End, Goto, GotoOneOf
    <2> QED
      BY <1>0, <1>1, <2>1, LockStep
  <1>4. CASE Failing(c)
    <2>1. PICK from, kind : Fail(c, from, kind)
      BY <1>0, <1>4, FailFrame
    <2>2. holds'[c] = {}
      BY <1>0, <2>1 DEF TypeOK, Fail, Release
    <2> QED
      BY <1>0, <1>1, <2>2, LockStep
  <1> QED
    BY <1>2, <1>3, <1>4 DEF Private

-----------------------------------------------------------------------------
(* A step of c's before its commit.                                        *)

\* What the invariant says of one call.
CallInv(c) == OwnerInv(c) /\ AddressInv(c) /\ (moves = 0 => CalmCall(c))

LEMMA PrivateBystander ==
    ASSUME ProvisioningInv, NEW c \in Calls, Private(c), NEW d \in Calls \ {c}
    PROVE  CallInv(d)'
  <1>1. Same(d) /\ UNCHANGED rows /\ UNCHANGED <<account, moves>>
    BY PrivateFrame DEF ProvisioningInv, OthersSame
  <1>2. OwnerInv(d)'
    BY <1>1 DEF ProvisioningInv, OwnerInv, Links, Same, rows
  <1>3. AddressInv(d)'
    BY <1>1 DEF ProvisioningInv, AddressInv, Readdresses, ReaddressesRow, AddressTaken, Same, rows
  <1>4. moves' = 0 => CalmCall(d)'
    BY <1>1 DEF ProvisioningInv, CalmInv, CalmCall, Readdresses, ReaddressesRow, Same, rows
  <1> QED
    BY <1>2, <1>3, <1>4 DEF CallInv

\* A call that fails, or has not begun, says nothing of any row.
LEMMA FailCall ==
    ASSUME ProvisioningInv, NEW c \in Calls, NEW from, NEW kind,
           kind \in {"conflict", "failed"},
           Fail(c, from, kind)
    PROVE  CallInv(c)'
  <1>1. /\ pc'[c] = "done" /\ holds'[c] = {} /\ outcome'[c].kind = kind
        /\ profile'[c] = None /\ found'[c] = None
        /\ UNCHANGED rows /\ UNCHANGED <<account, moves>>
    BY DEF ProvisioningInv, TypeOK, Fail, End, Goto, Release, Outcome
  <1>2. OwnerInv(c)'
    BY <1>1, ProvisioningAssumption DEF ProvisioningInv, OwnerInv, Rewriting, Linking, rows
  <1>3. AddressInv(c)'
    BY <1>1, ProvisioningAssumption DEF ProvisioningInv, AddressInv, Linking, rows
  <1>4. moves' = 0 => CalmCall(c)'
    BY <1>1 DEF ProvisioningInv, CalmInv, CalmCall, rows
  <1> QED
    BY <1>2, <1>3, <1>4 DEF CallInv

LEMMA ReadCall ==
    ASSUME ProvisioningInv, NEW c \in Calls, Reading(c) \/ Authenticate(c)
    PROVE  CallInv(c)'
  <1> USE ProvisioningAssumption
  <1>0. TypeOK /\ holds[c] = {} /\ OwnerInv(c) /\ AddressInv(c) /\ RowsInv
    BY DEF ProvisioningInv, LockInv, Reading, ProviderAnswers, TokenVerified, Lookup,
       LookupMissing, Load, Authenticate, ByEmailKnown, ByEmailUnknown, Goto, GotoOneOf, End
  <1>1. CASE ProviderAnswers(c) \/ TokenVerified(c) \/ LookupMissing(c)
    <2>1. /\ pc'[c] \in {"verify", "lookup", "byEmail"} /\ holds'[c] = {} /\ found' = found
          /\ UNCHANGED rows /\ outcome' = outcome /\ pc[c] \in {"idle", "verify", "lookup"}
          /\ pc'[c] = "byEmail" => profile'[c] # None
      BY <1>0, <1>1 DEF TypeOK, ProviderAnswers, TokenVerified, LookupMissing, Provisions, Goto
    <2>2. OwnerInv(c)'
      BY <1>0, <2>1 DEF OwnerInv, Rewriting, Linking, rows
    <2>3. found[c] = None
      BY <1>0, <2>1 DEF OwnerInv
    <2>4. AddressInv(c)'
      BY <2>1, <2>3 DEF AddressInv, Linking
    <2>5. moves' = 0 => CalmCall(c)'
      <3>1. moves' = 0 => profile'[c] \in {None, Address[Subject[c]]}
        BY <1>0, <1>1 DEF ProvisioningInv, TypeOK, CalmInv, CalmCall, ProviderAnswers, TokenVerified, LookupMissing
      <3> QED
        BY <2>1, <3>1 DEF CalmCall
    <2> QED
      BY <2>2, <2>4, <2>5 DEF CallInv
  <1>2. CASE Lookup(c)
    <2>1. /\ pc[c] = "lookup" /\ pc'[c] = "load" /\ holds'[c] = {} /\ UNCHANGED rows
          /\ found'[c] = identities[Subject[c]] /\ found'[c] # None
          /\ profile' = profile /\ outcome' = outcome /\ moves' = moves
      BY <1>0, <1>2 DEF TypeOK, Lookup, Goto
    <2>2. found'[c] \in Calls /\ users[found'[c]] # NoUser
      BY <1>0, <2>1 DEF TypeOK, RowsInv, ProvisionedWhole
    <2>3. OwnerInv(c)'
      BY <1>0, <2>1, <2>2 DEF OwnerInv, Rewriting, Linking, rows
    <2>6. found'[c] # c
      BY <1>0, <2>1, <2>2 DEF OwnerInv
    <2>4. AddressInv(c)'
      BY <2>1, <2>6 DEF AddressInv, Linking
    <2>5. moves' = 0 => CalmCall(c)'
      BY <2>1 DEF ProvisioningInv, CalmInv, CalmCall
    <2> QED
      BY <2>3, <2>4, <2>5 DEF CallInv
  <1>3. CASE Load(c)
    <2>1. /\ pc[c] = "load" /\ pc'[c] \in {"update", "identity", "commit"} /\ holds'[c] = {} /\ UNCHANGED rows
          /\ loaded'[c] = users[found[c]] /\ found' = found
          /\ profile' = profile /\ outcome' = outcome /\ moves' = moves
      BY <1>0, <1>3 DEF TypeOK, Load, GotoOneOf
    <2>2. OwnerInv(c)'
      BY <1>0, <2>1 DEF OwnerInv, Rewriting, Linking, rows
    <2>5. found'[c] # c /\ identities'[Subject[c]] # None
      BY <1>0, <2>1 DEF OwnerInv, Rewriting, Linking, rows
    <2>6. pc'[c] # "update" => ~Readdresses(c)'
      BY <1>0, <1>3, <2>1 DEF TypeOK, Load, GotoOneOf, Readdresses, ReaddressesRow
    <2>3. AddressInv(c)'
      BY <2>1, <2>5, <2>6 DEF AddressInv, Linking
    <2>4. moves' = 0 => CalmCall(c)'
      BY <1>0, <2>1 DEF ProvisioningInv, CalmInv, CalmCall, OwnerInv, Rewriting, Readdresses, ReaddressesRow, rows
    <2> QED
      BY <2>2, <2>3, <2>4 DEF CallInv
  <1>4. CASE Authenticate(c)
    <2>1. /\ pc[c] = "load" /\ pc'[c] = "done" /\ holds'[c] = {} /\ UNCHANGED rows
          /\ outcome'[c] = Outcome("ok", found[c]) /\ found'[c] = None
          /\ profile'[c] = None /\ moves' = moves
      BY <1>0, <1>4 DEF TypeOK, Authenticate, End, Goto
    <2>2. OwnerInv(c)'
      BY <1>0, <2>1 DEF OwnerInv, Rewriting, Linking, rows, Outcome
    <2>3. AddressInv(c)'
      BY <2>1 DEF AddressInv, Linking
    <2>4. moves' = 0 => CalmCall(c)'
      BY <2>1 DEF ProvisioningInv, CalmInv, CalmCall
    <2> QED
      BY <2>2, <2>3, <2>4 DEF CallInv
  <1>5. CASE ByEmailKnown(c)
    <2>1. /\ pc[c] = "byEmail" /\ pc'[c] \in {"sync", "link"} /\ holds'[c] = {} /\ UNCHANGED rows
          /\ HasAddress(found'[c], profile[c]) /\ loaded'[c] = users[found'[c]]
          /\ found'[c] \in Calls
          /\ profile' = profile /\ outcome' = outcome /\ moves' = moves
      BY <1>0, <1>5 DEF TypeOK, ByEmailKnown, GotoOneOf
    <2>2. users[c] = NoUser /\ found'[c] # c /\ profile[c] # None
      BY <1>0, <2>1 DEF OwnerInv, AddressInv, HasAddress, Linking
    <2>3. OwnerInv(c)'
      BY <1>0, <2>1, <2>2 DEF OwnerInv, Rewriting, Linking, rows, HasAddress
    <2>4. AddressInv(c)'
      BY <2>1, <2>2 DEF AddressInv, Linking, Readdresses, ReaddressesRow, HasAddress
    <2>5. moves' = 0 => CalmCall(c)'
      BY <2>1 DEF ProvisioningInv, CalmInv, CalmCall, Readdresses, ReaddressesRow, HasAddress, rows
    <2> QED
      BY <2>3, <2>4, <2>5 DEF CallInv
  <1>6. CASE ByEmailUnknown(c)
    <2>1. /\ pc[c] = "byEmail" /\ pc'[c] = "insert" /\ holds'[c] = {} /\ UNCHANGED rows
          /\ found'[c] = c
          /\ profile' = profile /\ outcome' = outcome /\ moves' = moves
      BY <1>0, <1>6 DEF TypeOK, ByEmailUnknown, Goto
    <2>2. OwnerInv(c)'
      BY <1>0, <2>1 DEF OwnerInv, Rewriting, Linking, rows
    <2>3. AddressInv(c)'
      BY <1>0, <2>1 DEF AddressInv, Linking
    <2>4. moves' = 0 => CalmCall(c)'
      BY <2>1 DEF ProvisioningInv, CalmInv, CalmCall
    <2> QED
      BY <2>2, <2>3, <2>4 DEF CallInv
  <1> QED
    BY <1>1, <1>2, <1>3, <1>4, <1>5, <1>6 DEF Reading

\* The kinds of keys are told apart by their first component.
LEMMA KeysDiffer ==
    ASSUME NEW u, NEW e, NEW s, NEW d, NEW v
    PROVE  /\ UserRow(u) # EmailKey(e) /\ UserRow(u) # SubjectKey(s) /\ EmailKey(e) # SubjectKey(s)
           /\ Reference(d, v) \notin {UserRow(u), EmailKey(e), SubjectKey(s)}
  BY DEF UserRow, EmailKey, SubjectKey, Reference

LEMMA RowKeysHold ==
    ASSUME NEW c, NEW e
    PROVE  /\ EmailKey(e) \in RowKeys(c) <=> e = users[found[c]].email /\ e # None
           /\ \A s : SubjectKey(s) \notin RowKeys(c)
           /\ \A d, u : Reference(d, u) \notin RowKeys(c)
  BY DEF RowKeys, UserRow, EmailKey, SubjectKey, Reference

\* The address of the user that c works on is nobody else's.
LEMMA OwnAddress ==
    ASSUME ProvisioningInv, NEW c \in Calls, found[c] \in Calls,
           profile[c] = users[found[c]].email, profile[c] # None
    PROVE  ~AddressTaken(c)
  <1>1. users[found[c]] # NoUser
    BY DEF NoUser, Row
  <1> QED
    BY <1>1 DEF ProvisioningInv, RowsInv, AddressesDistinct, HasAddress, AddressTaken

LEMMA WriteCall ==
    ASSUME ProvisioningInv, NEW c \in Calls, Writing(c)
    PROVE  CallInv(c)'
  <1> USE ProvisioningAssumption
  <1>0. TypeOK /\ LockInv /\ OwnerInv(c) /\ AddressInv(c) /\ RowsInv
    BY DEF ProvisioningInv
  <1>a. /\ UNCHANGED rows /\ UNCHANGED <<account, moves, profile, found, loaded, outcome>>
        /\ pc[c] \in {"update", "rekey", "identity", "insert", "sync", "link", "refer", "touch"}
        /\ pc'[c] \in {"rekey", "identity", "link", "refer", "touch", "commit"}
        /\ holds'[c] = holds[c] \cup NextKeys(c)
    BY <1>0, WriteFrame DEF TypeOK
  <1>b. moves' = 0 => CalmCall(c)'
    <2>1. pc[c] = "insert" => found[c] = c
      BY <1>0 DEF OwnerInv
    <2> QED
      BY <1>a, <2>1 DEF ProvisioningInv, CalmInv, CalmCall, Readdresses, ReaddressesRow, rows
  <1>c. found[c] \in Calls
    BY <1>0, <1>a DEF TypeOK, OwnerInv, Rewriting, Linking
  <1>d. /\ Readdresses(c)' <=> Readdresses(c)
        /\ AddressTaken(c)' <=> AddressTaken(c)
    BY <1>a DEF Readdresses, ReaddressesRow, AddressTaken, rows
  <1>e. ASSUME \/ pc'[c] \in Rewriting /\ pc[c] \in Rewriting
               \/ pc'[c] \in {"refer", "touch"} /\ Links(c)' /\ identities[Subject[c]] = None
               \/ pc'[c] = "commit" /\ pc[c] \in Rewriting
               \/ pc'[c] = "commit" /\ Links(c)' /\ identities[Subject[c]] = None
               \/ pc'[c] = "link"
        PROVE  OwnerInv(c)'
    BY <1>0, <1>a, <1>c, <1>e DEF OwnerInv, Rewriting, Linking, rows
  <1>1. CASE Update(c)
    <2>1. /\ pc[c] = "update" /\ holds'[c] = NextKeys(c)
          /\ \/ pc'[c] = "rekey" /\ Rekeys(c)
             \/ pc'[c] \in {"identity", "commit"} /\ ~Rekeys(c)
      BY <1>0, <1>1, <1>a DEF TypeOK, LockInv, Update, GotoOneOf
    <2>9. EmailKey(profile[c]) \notin References(found[c])
      BY KeysDiffer DEF References
    <2>2. EmailKey(profile[c]) \in holds'[c] <=>
              profile[c] = users[found[c]].email /\ profile[c] # None
      BY <2>1, <2>9, RowKeysHold DEF NextKeys
    <2>3. OwnerInv(c)'
      BY <1>e, <2>1 DEF Rewriting
    <2>4. found[c] # c /\ identities'[Subject[c]] # None
      BY <1>0, <1>a, <2>1 DEF OwnerInv, Rewriting, Linking, rows
    <2>5. EmailKey(profile[c]) \in holds'[c] => ~AddressTaken(c)
      BY <1>c, <2>2, OwnAddress
    <2>6. Rekeys(c) <=> Readdresses(c) /\ profile[c] # users[found[c]].email
      BY DEF Rekeys
    <2>7. Readdresses(c) => profile[c] # None
      BY DEF Readdresses, ReaddressesRow
    <2>8. AddressInv(c)'
      BY <1>a, <1>d, <2>1, <2>2, <2>4, <2>5, <2>6, <2>7 DEF AddressInv, Linking
    <2> QED
      BY <1>b, <2>3, <2>8 DEF CallInv
  <1>2. CASE Rekey(c)
    <2>1. /\ pc[c] = "rekey" /\ pc'[c] \in {"identity", "commit"} /\ ~AddressTaken(c)
          /\ EmailKey(profile[c]) \in holds'[c]
      BY <1>0, <1>2, <1>a DEF TypeOK, Rekey, GotoOneOf, NextKeys
    <2>2. OwnerInv(c)'
      BY <1>e, <2>1 DEF Rewriting
    <2>3. found[c] # c /\ identities'[Subject[c]] # None
      BY <1>0, <1>a, <2>1 DEF OwnerInv, Rewriting, Linking, rows
    <2>4. AddressInv(c)'
      BY <1>a, <1>d, <2>1, <2>3 DEF AddressInv, Linking
    <2> QED
      BY <1>b, <2>2, <2>4 DEF CallInv
  <1>3. CASE UpdateIdentity(c)
    <2>1. /\ pc[c] = "identity" /\ pc'[c] = "commit"
          /\ holds'[c] = holds[c] \cup {SubjectKey(Subject[c])}
      BY <1>0, <1>3, <1>a DEF TypeOK, UpdateIdentity, Goto, NextKeys
    <2>2. OwnerInv(c)'
      BY <1>e, <2>1 DEF Rewriting
    <2>3. EmailKey(profile[c]) \in holds'[c] <=> EmailKey(profile[c]) \in holds[c]
      BY <2>1, KeysDiffer
    <2>4. found[c] # c /\ identities'[Subject[c]] # None
      BY <1>0, <1>a, <2>1 DEF OwnerInv, Rewriting, Linking, rows
    <2>5. AddressInv(c)'
      BY <1>0, <1>a, <1>d, <2>1, <2>3, <2>4 DEF AddressInv, Linking
    <2> QED
      BY <1>b, <2>2, <2>5 DEF CallInv
  <1>4. CASE InsertUser(c)
    <2>1. /\ pc[c] = "insert" /\ pc'[c] = "link" /\ ~AddressTaken(c)
          /\ EmailKey(profile[c]) \in holds'[c]
      BY <1>0, <1>4, <1>a DEF TypeOK, InsertUser, Goto, NextKeys
    <2>2. OwnerInv(c)'
      BY <1>e, <2>1
    <2>3. found[c] = c /\ profile[c] # None
      BY <1>0, <2>1 DEF OwnerInv, AddressInv, Linking
    <2>4. AddressInv(c)'
      BY <1>a, <1>d, <2>1, <2>3 DEF AddressInv, Linking
    <2> QED
      BY <1>b, <2>2, <2>4 DEF CallInv
  <1>5. CASE Sync(c)
    <2>1. /\ pc[c] = "sync" /\ pc'[c] = "link" /\ holds'[c] = RowKeys(c)
      BY <1>0, <1>5, <1>a DEF TypeOK, LockInv, Sync, Goto, NextKeys
    <2>2. found[c] # c
      BY <1>0, <2>1 DEF OwnerInv
    <2>3. OwnerInv(c)'
      BY <1>e, <2>1, <2>2
    <2>4. EmailKey(profile[c]) \in holds'[c] => ~AddressTaken(c)
      BY <1>c, <2>1, RowKeysHold, OwnAddress
    <2>5. AddressInv(c)'
      BY <1>0, <1>a, <1>d, <2>1, <2>2, <2>4 DEF AddressInv, Linking
    <2> QED
      BY <1>b, <2>3, <2>5 DEF CallInv
  <1>6. CASE Link(c)
    <2>1. /\ pc[c] = "link" /\ pc'[c] = "refer" /\ identities[Subject[c]] = None
          /\ holds'[c] = holds[c] \cup {SubjectKey(Subject[c])}
      BY <1>0, <1>6, <1>a DEF TypeOK, Link, Goto, NextKeys, IdentityTaken
    <2>2. OwnerInv(c)'
      BY <1>e, <2>1 DEF Links
    <2>3. EmailKey(profile[c]) \in holds'[c] <=> EmailKey(profile[c]) \in holds[c]
      BY <2>1, KeysDiffer
    <2>4. AddressInv(c)'
      BY <1>0, <1>a, <1>d, <2>1, <2>3 DEF AddressInv, Linking
    <2> QED
      BY <1>b, <2>2, <2>4 DEF CallInv
  <1>7. CASE Refer(c)
    <2>1. /\ pc[c] = "refer" /\ pc'[c] \in {"touch", "commit"}
          /\ holds'[c] = holds[c] \cup {Reference(c, found[c])}
      BY <1>0, <1>7, <1>a DEF TypeOK, Refer, GotoOneOf, NextKeys
    <2>2. OwnerInv(c)'
      BY <1>0, <1>e, <2>1 DEF OwnerInv, Links
    <2>3. EmailKey(profile[c]) \in holds'[c] <=> EmailKey(profile[c]) \in holds[c]
      BY <2>1, KeysDiffer
    <2>4. AddressInv(c)'
      BY <1>0, <1>a, <1>c, <1>d, <2>1, <2>3 DEF AddressInv, Linking
    <2> QED
      BY <1>b, <2>2, <2>4 DEF CallInv
  <1>8. CASE Touch(c)
    <2>1. /\ pc[c] = "touch" /\ pc'[c] = "commit" /\ holds'[c] = holds[c] \cup RowKeys(c)
      BY <1>0, <1>8, <1>a DEF TypeOK, Touch, Goto, NextKeys
    <2>2. OwnerInv(c)'
      BY <1>0, <1>e, <2>1 DEF OwnerInv, Links
    <2>3. EmailKey(profile[c]) \in holds'[c] => ~AddressTaken(c)
      BY <1>0, <1>c, <2>1, RowKeysHold, OwnAddress DEF AddressInv
    <2>4. EmailKey(profile[c]) \in holds[c] => EmailKey(profile[c]) \in holds'[c]
      BY <2>1
    <2>5. AddressInv(c)'
      BY <1>0, <1>a, <1>c, <1>d, <2>1, <2>3, <2>4 DEF AddressInv, Linking
    <2> QED
      BY <1>b, <2>2, <2>5 DEF CallInv
  <1> QED
    BY <1>1, <1>2, <1>3, <1>4, <1>5, <1>6, <1>7, <1>8 DEF Writing

LEMMA PrivateCall ==
    ASSUME ProvisioningInv, NEW c \in Calls, Private(c)
    PROVE  CallInv(c)'
  <1>1. CASE Failing(c)
    BY <1>1, FailFrame, FailCall DEF ProvisioningInv
  <1> QED
    BY <1>1, ReadCall, WriteCall DEF Private

\* Only a conflict ends in "conflict", and only the owner is answered with.
LEMMA PrivateAnswers ==
    ASSUME ProvisioningInv, NEW c \in Calls, Private(c)
    PROVE  /\ outcome'[c].kind = "ok" =>
                 outcome' = outcome \/ outcome'[c].user = identities[Subject[c]]
           /\ outcome'[c].kind = "conflict" => outcome' = outcome \/ Conflicting(c)
  <1>0. TypeOK /\ OwnerInv(c)
    BY DEF ProvisioningInv
  <1>1. CASE Writing(c) \/ Reading(c)
    BY <1>0, <1>1, WriteFrame DEF Reading, ProviderAnswers, TokenVerified, Lookup,
       LookupMissing, Load, ByEmailKnown, ByEmailUnknown
  <1>2. CASE Authenticate(c)
    BY <1>0, <1>2 DEF TypeOK, Authenticate, End, Goto, Outcome, OwnerInv, Rewriting
  <1>3. CASE Failing(c)
    BY <1>0, <1>3, FailFrame DEF TypeOK, Fail, End, Outcome
  <1> QED
    BY <1>1, <1>2, <1>3 DEF Private

\* A loser lost to a call that has linked its account.
LEMMA Loser ==
    ASSUME ProvisioningInv, NEW c \in Calls, moves = 0, Conflicting(c)
    PROVE  identities[Subject[c]] # None
  <1> USE ProvisioningAssumption
  <1>0. TypeOK /\ CalmCall(c) /\ OwnerInv(c) /\ AddressInv(c)
    BY DEF ProvisioningInv, CalmInv
  <1>1. CASE RekeyConflict(c)
    BY <1>0, <1>1 DEF RekeyConflict, OwnerInv, Rewriting
  <1>2. CASE InsertConflict(c)
    <2>1. pc[c] = "insert" /\ profile[c] = Address[Subject[c]] /\ profile[c] # None
      BY <1>0, <1>2 DEF InsertConflict, Fail, End, Goto, CalmCall, AddressInv, Linking
    <2>2. PICK u \in Calls : users[u] # NoUser /\ users[u].email = profile[c]
      BY <1>2 DEF InsertConflict, AddressTaken
    <2>3. PICK s \in Subjects : identities[s] = u
      BY <2>2 DEF ProvisioningInv, RowsInv, ProvisionedWhole
    <2>4. Address[s] = Address[Subject[c]]
      BY <2>1, <2>2, <2>3 DEF ProvisioningInv, CalmInv
    <2>5. s = Subject[c]
      BY <2>1, <2>4
    <2> QED
      BY <2>3, <2>5
  <1>3. CASE LinkConflict(c)
    BY <1>3 DEF LinkConflict, IdentityTaken
  <1> QED
    BY <1>1, <1>2, <1>3 DEF Conflicting

LEMMA PrivateStep ==
    ASSUME ProvisioningInv, NEW c \in Calls, Private(c)
    PROVE  ProvisioningInv'
  <1>0. OthersSame(c) /\ UNCHANGED rows /\ UNCHANGED <<account, moves>>
    BY PrivateFrame DEF ProvisioningInv
  <1>1. TypeOK' /\ LockInv'
    BY PrivateType, PrivateLocks
  <1>2. \A d \in Calls : CallInv(d)'
    BY PrivateCall, PrivateBystander
  <1>3. RowsInv'
    BY <1>0 DEF ProvisioningInv, RowsInv, ProvisionedWhole, AddressesDistinct, HasAddress, rows
  <1>4. CalmInv'
    BY <1>0, <1>2 DEF ProvisioningInv, CalmInv, CallInv, rows
  <1>5. AnswersNameTheOwner'
    BY <1>0, PrivateAnswers DEF ProvisioningInv, AnswersNameTheOwner, OthersSame, Same, rows
  <1>6. LoserMayRetry'
    BY <1>0, PrivateAnswers, Loser DEF ProvisioningInv, LoserMayRetry, OthersSame, Same, rows
  <1> QED
    BY <1>1, <1>2, <1>3, <1>4, <1>5, <1>6 DEF ProvisioningInv, CallInv

-----------------------------------------------------------------------------
(* The commit of c's transaction.                                          *)

\* The rows after the commit: c's user is there, with the address that c has
\* locked or the one it had, and it owns c's account.
LEMMA CommitEffect ==
    ASSUME ProvisioningInv, NEW c \in Calls, Committed(c)
    PROVE  /\ found[c] \in Calls /\ users[c] = NoUser
           /\ users' \in [Calls -> [email : Emails \cup {None}, active : BOOLEAN]]
           /\ \A u \in Calls \ {found[c]} : users'[u] = users[u]
           /\ users'[found[c]] # NoUser /\ users'[found[c]].email # None
           /\ \/ users'[found[c]] = users[found[c]] /\ found[c] # c
              \/ /\ users'[found[c]].email = profile[c]
                 /\ EmailKey(profile[c]) \in holds[c] /\ ~AddressTaken(c)
                 /\ found[c] = c \/ Readdresses(c)
           /\ identities' \in [Subjects -> Calls \cup {None}]
           /\ \A s \in Subjects \ {Subject[c]} : identities'[s] = identities[s]
           /\ identities'[Subject[c]] = found[c]
           /\ \/ identities[Subject[c]] = None /\ Links(c)
              \/ identities' = identities /\ found[c] # c
  <1> USE ProvisioningAssumption
  <1>0. TypeOK /\ OwnerInv(c) /\ AddressInv(c) /\ RowsInv /\ Subject[c] \in Subjects
    BY DEF ProvisioningInv
  <1>1. CommitRows(c) /\ pc[c] = "commit"
    BY <1>0, CommitFrame
  <1>2. found[c] \in Calls /\ users[c] = NoUser
    BY <1>0, <1>1 DEF OwnerInv, TypeOK
  <1>3. ASSUME identities[Subject[c]] = found[c] PROVE found[c] # c
    <2>1. users[found[c]] # NoUser
      BY <1>0, <1>2, <1>3, ProvisioningAssumption DEF RowsInv, ProvisionedWhole
    <2> QED
      BY <1>2, <2>1
  <1>4. identities[Subject[c]] = found[c] \/ (Links(c) /\ identities[Subject[c]] = None)
    BY <1>0, <1>1 DEF OwnerInv
  <1>5. /\ identities' \in [Subjects -> Calls \cup {None}]
        /\ \A s \in Subjects \ {Subject[c]} : identities'[s] = identities[s]
        /\ identities'[Subject[c]] = found[c]
        /\ \/ identities[Subject[c]] = None /\ Links(c)
           \/ identities' = identities /\ found[c] # c
    BY <1>0, <1>1, <1>2, <1>3, <1>4 DEF CommitRows, TypeOK
  <1>6. CASE Inserts(c)
    <2>1. users' = [users EXCEPT ![c] = Row(profile[c], TRUE)] /\ found[c] = c
      BY <1>1, <1>6 DEF CommitRows, Inserts
    <2>2. EmailKey(profile[c]) \in holds[c] /\ ~AddressTaken(c) /\ profile[c] \in Emails
      BY <1>0, <1>1, <2>1 DEF AddressInv, TypeOK
    <2> QED
      BY <1>0, <1>2, <1>5, <2>1, <2>2 DEF TypeOK, Row, NoUser
  <1>7. CASE ~Inserts(c) /\ Writes(c)
    <2>1. users' = [users EXCEPT ![found[c]] = Updated(c)] /\ found[c] # c /\ Readdresses(c)
      BY <1>1, <1>7 DEF CommitRows, Writes
    <2>2. EmailKey(profile[c]) \in holds[c] /\ ~AddressTaken(c) /\ profile[c] \in Emails
      BY <1>0, <1>1, <2>1 DEF AddressInv, Readdresses, ReaddressesRow, TypeOK
    <2> QED
      BY <1>0, <1>2, <1>5, <2>1, <2>2 DEF TypeOK, Row, NoUser, Updated
  <1>8. CASE ~Inserts(c) /\ ~Writes(c)
    <2>1. users' = users /\ found[c] # c
      BY <1>1, <1>8 DEF CommitRows, Inserts
    <2>2. users[found[c]] # NoUser
      BY <1>0, <1>2, <2>1, ProvisioningAssumption DEF OwnerInv
    <2>3. users[found[c]].email # None
      BY <1>0, <1>2, <2>2 DEF RowsInv
    <2> QED
      BY <1>0, <1>2, <1>5, <2>1, <2>2, <2>3 DEF TypeOK
  <1> QED
    BY <1>6, <1>7, <1>8

\* While no address moves, a commit adds rows and changes none.
LEMMA CommitCalm ==
    ASSUME ProvisioningInv, NEW c \in Calls, Committed(c), moves = 0
    PROVE  /\ found[c] # c => users' = users
           /\ profile[c] # None => users'[found[c]].email = profile[c]
  <1>1. TypeOK /\ pc[c] = "commit" /\ CommitRows(c) /\ CalmCall(c)
    BY CommitFrame DEF ProvisioningInv, CalmInv
  <1>2. found[c] # c => users' = users
    BY <1>1 DEF CommitRows, Inserts, Writes, CalmCall, Readdresses, ReaddressesRow
  <1> QED
    BY <1>1, <1>2, CommitEffect DEF CalmCall

LEMMA CommitRowsInv ==
    ASSUME ProvisioningInv, NEW c \in Calls, Committed(c)
    PROVE  RowsInv'
  <1> USE ProvisioningAssumption, CommitEffect
  <1>0. TypeOK /\ RowsInv /\ Subject[c] \in Subjects
    BY DEF ProvisioningInv
  <1>1. ASSUME NEW u \in Calls, users'[u] # NoUser
        PROVE  \E s \in Subjects : identities'[s] = u
    <2>1. CASE u = found[c]
      BY <1>0, <2>1
    <2>2. CASE u # found[c]
      <3>1. PICK s \in Subjects : identities[s] = u
        BY <1>0, <1>1, <2>2 DEF RowsInv, ProvisionedWhole
      <3>2. identities'[s] = u
        BY <1>0, <3>1
      <3> QED
        BY <3>2
    <2> QED
      BY <2>1, <2>2
  <1>2. ASSUME NEW s \in Subjects, identities'[s] # None
        PROVE  users'[identities'[s]] # NoUser
    <2>1. CASE s = Subject[c]
      BY <2>1
    <2>2. CASE s # Subject[c]
      <3>1. identities'[s] = identities[s] /\ identities[s] \in Calls
        BY <1>0, <1>2, <2>2 DEF TypeOK
      <3> QED
        BY <1>0, <1>2, <3>1 DEF RowsInv, ProvisionedWhole
    <2> QED
      BY <2>1, <2>2
  <1>3. ProvisionedWhole'
    BY <1>1, <1>2 DEF ProvisionedWhole, NoUser, Row
  <1>4. ASSUME NEW u \in Calls, NEW v \in Calls, users'[u] # NoUser, users'[v] # NoUser,
               users'[u].email = users'[v].email, u # v
        PROVE  FALSE
    <2>1. CASE users'[found[c]] = users[found[c]] /\ found[c] # c
      <3>1. users'[u] = users[u] /\ users'[v] = users[v]
        BY <2>1
      <3> QED
        BY <1>0, <1>4, <3>1 DEF RowsInv, AddressesDistinct, HasAddress
    <2>2. CASE users'[found[c]].email = profile[c] /\ ~AddressTaken(c)
      <3>1. CASE u = found[c] \/ v = found[c]
        BY <1>4, <2>2, <3>1 DEF AddressTaken
      <3>2. CASE u # found[c] /\ v # found[c]
        BY <1>0, <1>4, <3>2 DEF RowsInv, AddressesDistinct, HasAddress
      <3> QED
        BY <3>1, <3>2
    <2> QED
      BY <2>1, <2>2
  <1>5. AddressesDistinct'
    BY <1>4 DEF AddressesDistinct, HasAddress, NoUser, Row
  <1>6. ASSUME NEW u \in Calls, users'[u] # NoUser PROVE users'[u].email # None
    BY <1>0, <1>6 DEF RowsInv
  <1> QED
    BY <1>3, <1>5, <1>6 DEF RowsInv, NoUser, Row

LEMMA CommitBystander ==
    ASSUME ProvisioningInv, NEW c \in Calls, Committed(c), NEW d \in Calls \ {c}
    PROVE  CallInv(d)'
  <1> USE ProvisioningAssumption, CommitEffect
  <1>0. TypeOK /\ LockInv /\ OwnerInv(c) /\ OwnerInv(d) /\ AddressInv(d) /\ RowsInv
    BY DEF ProvisioningInv
  <1>1. Same(d) /\ moves' = moves
    BY <1>0, CommitFrame DEF OthersSame
  <1>2. holds[c] \cap holds[d] = {}
    BY <1>0 DEF LockInv
  <1>3. \A u \in Calls : users[u] # NoUser => users'[u] # NoUser
    OBVIOUS
  <1>4. ASSUME identities[Subject[d]] # None
        PROVE  identities'[Subject[d]] = identities[Subject[d]]
    BY <1>4
  <1>5. ASSUME Links(d) PROVE identities'[Subject[d]] = identities[Subject[d]]
    <2>1. Links(c) => Subject[c] # Subject[d]
      BY <1>2, <1>5 DEF Links
    <2> QED
      BY <2>1
  <1>6. ASSUME users[d] = NoUser PROVE users'[d] = NoUser
    <2>1. found[c] # d
      BY <1>0, <1>6 DEF OwnerInv
    <2> QED
      BY <1>6, <2>1
  <1>7. OwnerInv(d)'
    <2>1. Links(d)' <=> Links(d)
      BY <1>1 DEF Links, Same
    <2>2. pc[d] \in (Rewriting \cup {"commit"}) /\ identities[Subject[d]] = found[d]
              => identities[Subject[d]] # None
      BY <1>0 DEF OwnerInv, Rewriting, Linking
    <2> QED
      BY <1>0, <1>1, <1>3, <1>4, <1>5, <1>6, <2>1, <2>2
         DEF OwnerInv, Rewriting, Linking, Same, NoUser, Row, TypeOK
  <1>8. ASSUME EmailKey(profile[d]) \in holds[d], ~AddressTaken(d),
               NEW u \in Calls \ {found[d]}, users'[u] # NoUser, users'[u].email = profile[d]
        PROVE  FALSE
    <2>1. CASE users'[u] = users[u]
      BY <1>8, <2>1 DEF AddressTaken
    <2>2. CASE users'[u] # users[u]
      <3>1. profile[d] = profile[c] /\ EmailKey(profile[c]) \in holds[c]
        BY <1>8, <2>2
      <3> QED
        BY <1>2, <1>8, <3>1
    <2> QED
      BY <2>1, <2>2
  <1>9. AddressInv(d)'
    BY <1>0, <1>1, <1>8
       DEF AddressInv, Readdresses, ReaddressesRow, AddressTaken, Same, NoUser, Row
  <1>10. ASSUME moves' = 0 PROVE CalmCall(d)'
    <2>1. CalmCall(d) /\ moves = 0
      BY <1>1, <1>10 DEF ProvisioningInv, CalmInv
    <2>2. ASSUME pc[d] \in {"update", "rekey", "identity", "sync", "link", "refer", "touch", "commit"},
                 found[d] # d
          PROVE  users'[found[d]] = users[found[d]]
      <3>1. found[d] # None
        BY <1>0, <2>2 DEF OwnerInv, Rewriting, Linking
      <3>2. users[found[d]] # NoUser /\ found[d] # c
        BY <1>0, <2>2, <3>1 DEF OwnerInv
      <3> QED
        BY <1>0, <2>1, <3>1, <3>2, CommitCalm DEF TypeOK
    <2> QED
      BY <1>1, <2>1, <2>2 DEF CalmCall, Readdresses, ReaddressesRow, Same
  <1> QED
    BY <1>7, <1>9, <1>10 DEF CallInv

LEMMA CommitCall ==
    ASSUME ProvisioningInv, NEW c \in Calls, Committed(c)
    PROVE  CallInv(c)'
  <1>1. /\ pc'[c] = "done" /\ holds'[c] = {} /\ profile'[c] = None /\ found'[c] = None
        /\ moves' = moves /\ outcome'[c] \in {Outcome("ok", found[c]), Outcome("failed", None)}
    BY CommitFrame DEF ProvisioningInv
  <1>2. found[c] \in Calls /\ users'[found[c]] # NoUser
    BY CommitEffect
  <1>6. EmailKey(None) \notin holds'[c]
    BY <1>1
  <1>3. OwnerInv(c)'
    BY <1>1, <1>2, ProvisioningAssumption DEF OwnerInv, Rewriting, Linking, Outcome, NoUser, Row
  <1>4. AddressInv(c)'
    BY <1>1, <1>6, ProvisioningAssumption DEF AddressInv, Linking
  <1>5. moves' = 0 => CalmCall(c)'
    BY <1>1 DEF ProvisioningInv, CalmInv, CalmCall
  <1> QED
    BY <1>3, <1>4, <1>5 DEF CallInv

LEMMA CommitStep ==
    ASSUME ProvisioningInv, NEW c \in Calls, Committed(c)
    PROVE  ProvisioningInv'
  <1> USE ProvisioningAssumption
  <1>0. TypeOK /\ LockInv /\ OwnerInv(c) /\ AddressInv(c) /\ RowsInv
    BY DEF ProvisioningInv
  <1>1. /\ OthersSame(c) /\ UNCHANGED <<account, moves>>
        /\ pc[c] = "commit" /\ pc'[c] = "done" /\ holds'[c] = {}
        /\ outcome'[c] \in {Outcome("ok", found[c]), Outcome("failed", None)}
    BY <1>0, CommitFrame
  <1>2. TypeOK'
    <2>1. Outcome("ok", found[c]) \in [kind : {"none", "ok", "conflict", "failed"}, user : Calls \cup {None}]
      BY <1>0, OutcomeType DEF TypeOK
    <2>2. Outcome("failed", None) \in [kind : {"none", "ok", "conflict", "failed"}, user : Calls \cup {None}]
      BY OutcomeType
    <2>3. /\ users' \in [Calls -> [email : Emails \cup {None}, active : BOOLEAN]]
          /\ identities' \in [Subjects -> Calls \cup {None}]
      BY CommitEffect
    <2>4. /\ pc' = [pc EXCEPT ![c] = "done"] /\ holds' = [holds EXCEPT ![c] = {}]
          /\ \/ outcome' = [outcome EXCEPT ![c] = Outcome("ok", found[c])]
             \/ outcome' = [outcome EXCEPT ![c] = Outcome("failed", None)]
          /\ profile' = [profile EXCEPT ![c] = None]
          /\ found' = [found EXCEPT ![c] = None]
          /\ loaded' = [loaded EXCEPT ![c] = NoUser]
          /\ UNCHANGED <<account, moves>>
      BY DEF Committed, Commit, CutAfterCommit, End, Goto, Release, Answer
    <2>5. outcome' \in [Calls -> [kind : {"none", "ok", "conflict", "failed"}, user : Calls \cup {None}]]
      BY <1>0, <2>1, <2>2, <2>4 DEF TypeOK
    <2> QED
      BY <1>0, <2>3, <2>4, <2>5 DEF TypeOK, NoUser, Row
  <1>3. LockInv'
    BY <1>0, <1>1, <1>2, LockStep DEF TypeOK
  <1>4. \A d \in Calls : CallInv(d)'
    BY CommitCall, CommitBystander
  <1>5. RowsInv'
    BY CommitRowsInv
  <1>6. \A s \in Subjects : identities[s] # None => identities'[s] = identities[s]
    BY CommitEffect
  <1>7. CalmInv'
    <2> SUFFICES ASSUME moves' = 0, NEW s \in Subjects, identities'[s] # None
                 PROVE  users'[identities'[s]].email = Address[s]
      BY <1>1, <1>4 DEF ProvisioningInv, CalmInv, CallInv
    <2>1. moves = 0 /\ CalmCall(c)
      BY <1>1 DEF ProvisioningInv, CalmInv
    <2>2. CASE identities[s] = None
      <3>1. s = Subject[c] /\ Links(c) /\ identities'[s] = found[c]
        BY <2>2, CommitEffect
      <3>2. profile[c] # None
        BY <1>0, <1>1, <2>2, <3>1 DEF AddressInv
      <3> QED
        BY <2>1, <3>1, <3>2, CommitCalm DEF CalmCall
    <2>3. CASE identities[s] # None
      <3>1. identities'[s] = identities[s] /\ identities[s] \in Calls
        BY <1>0, <1>6, <2>3 DEF TypeOK
      <3>2. users[identities[s]] # NoUser /\ users[c] = NoUser
        BY <1>0, <2>3, CommitEffect DEF RowsInv, ProvisionedWhole
      <3>3. users'[identities[s]] = users[identities[s]]
        BY <2>1, <3>1, <3>2, CommitCalm, CommitEffect
      <3> QED
        BY <2>1, <2>3, <3>1, <3>3 DEF ProvisioningInv, CalmInv
    <2> QED
      BY <2>2, <2>3
  <1>8. AnswersNameTheOwner'
    <2> SUFFICES ASSUME NEW d \in Calls, outcome'[d].kind = "ok"
                 PROVE  identities'[Subject[d]] = outcome'[d].user
      BY DEF AnswersNameTheOwner
    <2>1. CASE d = c
      BY <1>1, <2>1, CommitEffect DEF Outcome
    <2>2. CASE d # c
      <3>1. outcome'[d] = outcome[d] /\ OwnerInv(d)
        BY <1>1, <2>2 DEF OthersSame, Same, ProvisioningInv
      <3>2. identities[Subject[d]] = outcome[d].user /\ outcome[d].user # None
        BY <3>1 DEF ProvisioningInv, AnswersNameTheOwner, OwnerInv
      <3> QED
        BY <1>6, <3>1, <3>2
    <2> QED
      BY <2>1, <2>2
  <1>9. LoserMayRetry'
    BY <1>1, <1>6 DEF ProvisioningInv, LoserMayRetry, OthersSame, Same, Outcome
  <1> QED
    BY <1>2, <1>3, <1>4, <1>5, <1>7, <1>8, <1>9 DEF ProvisioningInv, CallInv

-----------------------------------------------------------------------------
(* The steps of others.                                                    *)

LEMMA MoveStep ==
    ASSUME ProvisioningInv, NEW s \in Subjects, MoveAddress(s)
    PROVE  ProvisioningInv'
  <1> USE ProvisioningAssumption
  <1>1. /\ moves' \in 0..MaxMoves /\ moves' # 0
        /\ account' \in [Subjects -> Emails \cup {None}]
        /\ UNCHANGED <<users, identities, pc, profile, found, loaded, holds, outcome>>
    BY DEF ProvisioningInv, TypeOK, MoveAddress, rows
  <1>2. TypeOK' /\ LockInv'
    BY <1>1 DEF ProvisioningInv, TypeOK, LockInv
  <1>3. \A c \in Calls : OwnerInv(c)' /\ AddressInv(c)'
    BY <1>1 DEF ProvisioningInv, OwnerInv, Links, AddressInv, Readdresses, ReaddressesRow, AddressTaken
  <1>4. RowsInv' /\ AnswersNameTheOwner'
    BY <1>1 DEF ProvisioningInv, RowsInv, ProvisionedWhole, AddressesDistinct, HasAddress,
       AnswersNameTheOwner
  <1>5. CalmInv' /\ LoserMayRetry'
    BY <1>1 DEF CalmInv, LoserMayRetry
  <1> QED
    BY <1>2, <1>3, <1>4, <1>5 DEF ProvisioningInv

\* Whether a row is there, and its address, are not changed by a deactivation.
LEMMA DeactivateStep ==
    ASSUME ProvisioningInv, NEW u \in Calls, Deactivate(u)
    PROVE  ProvisioningInv'
  <1> USE ProvisioningAssumption
  <1>0. TypeOK /\ RowsInv
    BY DEF ProvisioningInv
  <1>1. UNCHANGED <<account, moves, identities, pc, profile, found, loaded, holds, outcome>>
    BY DEF Deactivate
  <1>2. users[u] # NoUser /\ users[u] \in [email : Emails \cup {None}, active : BOOLEAN]
    <2>1. users[u].active /\ ~NoUser.active
      BY DEF Deactivate, NoUser, Row
    <2> QED
      BY <1>0, <2>1 DEF TypeOK
  <1>3. /\ users' \in [Calls -> [email : Emails \cup {None}, active : BOOLEAN]]
        /\ \A v \in Calls : /\ users'[v].email = users[v].email
                            /\ users'[v] # NoUser <=> users[v] # NoUser
    <2>1. users[u].email # None /\ NoUser.email = None
      BY <1>0, <1>2 DEF RowsInv, NoUser, Row
    <2> DEFINE new == [users[u] EXCEPT !.active = FALSE]
    <2>2. new \in [email : Emails \cup {None}, active : BOOLEAN] /\ new.email = users[u].email
      BY <1>2
    <2>3. users' = [users EXCEPT ![u] = new]
      BY DEF Deactivate
    <2> HIDE DEF new
    <2>4. users'[u] = new /\ \A v \in Calls \ {u} : users'[v] = users[v]
      BY <1>0, <2>3 DEF TypeOK
    <2>5. users' \in [Calls -> [email : Emails \cup {None}, active : BOOLEAN]]
      BY <1>0, <2>2, <2>3 DEF TypeOK
    <2> QED
      BY <1>2, <2>1, <2>2, <2>4, <2>5
  <1>4. TypeOK' /\ LockInv'
    BY <1>1, <1>3 DEF ProvisioningInv, TypeOK, LockInv
  <1>5. ASSUME NEW c \in Calls PROVE OwnerInv(c)'
    <2>1. OwnerInv(c)
      BY DEF ProvisioningInv
    <2>2. found[c] \notin {None, c} => users'[found[c]] # NoUser
      BY <1>0, <1>3, <2>1 DEF OwnerInv, TypeOK
    <2>3. pc[c] # "done" => users'[c] = NoUser
      BY <1>3, <2>1 DEF OwnerInv
    <2> QED
      BY <1>1, <2>1, <2>2, <2>3 DEF OwnerInv, Links, NoUser, Row
  <1>6. ASSUME NEW c \in Calls PROVE AddressInv(c)'
    <2>1. AddressInv(c) /\ (AddressTaken(c)' => AddressTaken(c))
      BY <1>1, <1>3 DEF ProvisioningInv, AddressTaken, NoUser, Row
    <2> QED
      BY <1>1, <2>1 DEF AddressInv, Readdresses, ReaddressesRow
  <1>7. RowsInv'
    <2>1. /\ \A v \in Calls : users'[v] # NoUser => \E s \in Subjects : identities'[s] = v
          /\ \A s \in Subjects : identities'[s] # None => users'[identities'[s]] # NoUser
      BY <1>0, <1>1, <1>3 DEF RowsInv, ProvisionedWhole, TypeOK
    <2>3. ProvisionedWhole'
      BY <2>1 DEF ProvisionedWhole, NoUser, Row
    <2>2. AddressesDistinct'
      BY <1>0, <1>3 DEF RowsInv, AddressesDistinct, HasAddress, NoUser, Row
    <2> QED
      BY <1>0, <1>3, <2>2, <2>3 DEF RowsInv, NoUser, Row
  <1>8. CalmInv'
    <2> SUFFICES ASSUME moves = 0 PROVE CalmInv'
      BY <1>1 DEF CalmInv
    <2>1. account' = Address
      BY <1>1 DEF ProvisioningInv, CalmInv
    <2>2. \A s \in Subjects : identities'[s] # None => users'[identities'[s]].email = Address[s]
      BY <1>0, <1>1, <1>3 DEF ProvisioningInv, CalmInv, TypeOK
    <2>3. ASSUME NEW c \in Calls PROVE CalmCall(c)'
      <3>1. pc[c] \in {"update", "rekey", "identity", "sync", "link", "refer", "touch", "commit"}
                => found[c] \in Calls
        BY <1>0 DEF ProvisioningInv, OwnerInv, Rewriting, Linking, TypeOK
      <3> QED
        BY <1>1, <1>3, <3>1 DEF ProvisioningInv, CalmInv, CalmCall, Readdresses, ReaddressesRow
    <2> QED
      BY <2>1, <2>2, <2>3 DEF CalmInv
  <1>9. AnswersNameTheOwner' /\ LoserMayRetry'
    BY <1>1 DEF ProvisioningInv, AnswersNameTheOwner, LoserMayRetry
  <1> QED
    BY <1>4, <1>5, <1>6, <1>7, <1>8, <1>9 DEF ProvisioningInv

LEMMA IdleStep == ProvisioningInv /\ UNCHANGED vars => ProvisioningInv'
  BY DEF vars, rows, ProvisioningInv, TypeOK, LockInv, OwnerInv, Links, AddressInv,
     Readdresses, ReaddressesRow, AddressTaken, RowsInv, ProvisionedWhole, AddressesDistinct, HasAddress,
     CalmInv, CalmCall, AnswersNameTheOwner, LoserMayRetry

\* Every step is private to a call, a commit, a step of others, or none.
LEMMA NextSplit ==
    ASSUME [Next]_vars
    PROVE  \/ \E c \in Calls : Private(c) \/ Committed(c)
           \/ \E s \in Subjects : MoveAddress(s)
           \/ \E u \in Calls : Deactivate(u)
           \/ UNCHANGED vars
  <1>1. ASSUME NEW c \in Calls, ProviderAnswers(c) \/ ProviderFails(c) \/ Proceed(c)
                               \/ Cut(c) \/ CutAfterCommit(c) \/ BreakCircle(c)
        PROVE  Private(c) \/ Committed(c)
    BY <1>1 DEF Proceed, Upsert, Private, Writing, Reading, Failing, Conflicting, Committed
  <1> QED
    BY <1>1 DEF Next, Finished

LEMMA NextInv == ProvisioningInv /\ [Next]_vars => ProvisioningInv'
  BY NextSplit, PrivateStep, CommitStep, MoveStep, DeactivateStep, IdleStep

-----------------------------------------------------------------------------
\* The inductive invariant holds in every reachable state.
THEOREM ProvisioningInvariant == Spec => []ProvisioningInv
  BY InitInv, NextInv, PTL DEF Spec

\* The variables have their types, for every set of calls and accounts.
THEOREM TypeCorrect == Spec => []TypeOK
  <1>1. ProvisioningInv => TypeOK
    BY DEF ProvisioningInv
  <1> QED
    BY <1>1, ProvisioningInvariant, PTL

\* However many first sign-ins of an account race in _upsert_local_user, every
\* session and every authenticated request names the one user it is linked to.
THEOREM OwnerNamed == Spec => []AnswersNameTheOwner
  <1>1. ProvisioningInv => AnswersNameTheOwner
    BY DEF ProvisioningInv
  <1> QED
    BY <1>1, ProvisioningInvariant, PTL

\* The transaction of _upsert_local_user leaves no user without an identity and
\* no identity without a user, wherever it is cut.
THEOREM WholeProvisioning == Spec => []ProvisionedWhole
  <1>1. ProvisioningInv => ProvisionedWhole
    BY DEF ProvisioningInv, RowsInv
  <1> QED
    BY <1>1, ProvisioningInvariant, PTL

\* While the provider's addresses stay, a call that a unique constraint fails
\* can be repeated: its account has been linked by the call it lost to.
THEOREM LoserRetries == Spec => []LoserMayRetry
  <1>1. ProvisioningInv => LoserMayRetry
    BY DEF ProvisioningInv
  <1> QED
    BY <1>1, ProvisioningInvariant, PTL

\* A commit writes the address and leaves is_active to whoever changed it.
LEMMA DeactivationStep ==
    ASSUME ProvisioningInv, [Next]_vars, NEW u \in Calls, users[u] # NoUser, ~users[u].active
    PROVE  ~users'[u].active
  <1>0. TypeOK
    BY DEF ProvisioningInv
  <1>1. ASSUME NEW c \in Calls, Private(c) PROVE ~users'[u].active
    BY <1>0, <1>1, PrivateFrame DEF rows
  <1>2. ASSUME NEW c \in Calls, Committed(c) PROVE ~users'[u].active
    <2>1. CommitRows(c)
      BY <1>0, <1>2, CommitFrame
    <2>2. users[c] = NoUser
      BY <1>2, CommitEffect
    <2> QED
      BY <1>0, <2>1, <2>2 DEF CommitRows, Inserts, Updated, Row, TypeOK
  <1>3. ASSUME NEW v \in Calls, Deactivate(v) PROVE ~users'[u].active
    BY <1>0, <1>3 DEF Deactivate, TypeOK
  <1>4. ASSUME NEW s \in Subjects, MoveAddress(s) PROVE ~users'[u].active
    BY <1>4 DEF MoveAddress, rows
  <1>5. ASSUME UNCHANGED vars PROVE ~users'[u].active
    BY <1>5 DEF vars, rows
  <1> QED
    BY <1>1, <1>2, <1>3, <1>4, <1>5, NextSplit

\* No sign-in or refresh, whenever it read the user's row, undoes a
\* deactivation that was committed meanwhile.
THEOREM DeactivationLasts == Spec => DeactivationSticks
  <1>1. ProvisioningInv /\ [Next]_vars =>
            [\A u \in Calls : users[u] # NoUser /\ ~users[u].active => ~users'[u].active]_vars
    BY DeactivationStep
  <1> QED
    BY <1>1, ProvisioningInvariant, PTL DEF Spec, DeactivationSticks

-----------------------------------------------------------------------------
(* The order in which transactions wait while no address moves.            *)

\* Which statements lock an identity's key or a reference, and whose row.
LEMMA NextKinds ==
    ASSUME NEW c
    PROVE  /\ \A s : SubjectKey(s) \in NextKeys(c) => pc[c] \in {"identity", "link"} /\ s = Subject[c]
           /\ \A u : UserRow(u) \in NextKeys(c) => u = found[c] \/ (pc[c] = "insert" /\ u = c)
           /\ \A d, u : Reference(d, u) \in NextKeys(c) =>
                 (pc[c] = "refer" /\ d = c) \/ (pc[c] = "update" /\ Rekeys(c))
  BY DEF NextKeys, RowKeys, References, UserRow, EmailKey, SubjectKey, Reference

\* A step of c's adds to what it holds as its next statement allows.
LEMMA OrderOwnStep ==
    ASSUME ProvisioningInv, NEW c \in Calls, OrderInv(c), Private(c) \/ Committed(c)
    PROVE  OrderInv(c)'
  <1>0. /\ TypeOK /\ OwnerInv(c)
        /\ moves = 0 => CalmCall(c)
        /\ pc[c] \notin {"rekey", "identity", "link", "refer", "touch", "commit"} => holds[c] = {}
    BY DEF ProvisioningInv, LockInv, CalmInv
  <1>1. CASE holds'[c] = {}
    BY <1>1 DEF OrderInv
  <1>2. CASE Writing(c)
    <2>1. /\ holds'[c] = holds[c] \cup NextKeys(c) /\ found' = found /\ moves' = moves
          /\ pc[c] \in {"update", "rekey", "identity", "insert", "sync", "link", "refer", "touch"}
      BY <1>0, <1>2, WriteFrame DEF TypeOK
    <2>2. /\ pc[c] \in {"identity", "touch"} => pc'[c] = "commit"
          /\ pc[c] = "link" => pc'[c] = "refer"
          /\ pc[c] = "refer" => pc'[c] \in {"touch", "commit"}
      BY <1>0, <1>2 DEF TypeOK, Writing, Update, Rekey, UpdateIdentity, InsertUser, Sync, Link,
         Refer, Touch, Goto, GotoOneOf
    <2>3. \A u \in Calls : UserRow(u) \in holds'[c] => u = found'[c]
      BY <1>0, <2>1, NextKinds DEF OrderInv, OwnerInv
    <2>4. \A s \in Subjects : SubjectKey(s) \in holds'[c] => pc'[c] \in {"refer", "touch", "commit"}
      BY <2>1, <2>2, NextKinds DEF OrderInv
    <2>5. pc[c] = "update" /\ Rekeys(c) => moves # 0
      BY <1>0 DEF Rekeys, Readdresses, ReaddressesRow, CalmCall, OwnerInv
    <2>6. \A u \in Calls, d \in Calls \ {c} : Reference(d, u) \in holds'[c] => moves' # 0
      BY <2>1, <2>5, NextKinds DEF OrderInv
    <2> QED
      BY <2>3, <2>4, <2>6 DEF OrderInv
  <1>3. CASE Reading(c) \/ Authenticate(c)
    <2>1. holds' = holds /\ pc[c] \notin {"rekey", "identity", "link", "refer", "touch", "commit"}
      BY <1>3 DEF Reading, ProviderAnswers, TokenVerified, Lookup, LookupMissing,
         Load, ByEmailKnown, ByEmailUnknown, Authenticate, End, Goto, GotoOneOf
    <2> QED
      BY <1>0, <1>1, <2>1
  <1>4. CASE Failing(c)
    <2>1. PICK from, kind : Fail(c, from, kind)
      BY <1>0, <1>4, FailFrame
    <2> QED
      BY <1>0, <1>1, <2>1 DEF Fail, Release, TypeOK
  <1>5. CASE Committed(c)
    BY <1>0, <1>1, <1>5, CommitFrame
  <1> QED
    BY <1>2, <1>3, <1>4, <1>5 DEF Private

LEMMA OrderStep ==
    ASSUME ProvisioningInv, \A c \in Calls : OrderInv(c), [Next]_vars
    PROVE  \A c \in Calls : OrderInv(c)'
  <1>1. ASSUME NEW c \in Calls, pc'[c] = pc[c], holds'[c] = holds[c], found'[c] = found[c],
               moves' = moves \/ moves' # 0
        PROVE  OrderInv(c)'
    BY <1>1 DEF OrderInv
  <1>2. ASSUME NEW c \in Calls, Private(c) \/ Committed(c)
        PROVE  \A d \in Calls : OrderInv(d)'
    <2>1. OthersSame(c) /\ moves' = moves
      BY <1>2, PrivateFrame, CommitFrame DEF ProvisioningInv
    <2> QED
      BY <1>1, <1>2, <2>1, OrderOwnStep DEF OthersSame, Same
  <1>3. ASSUME NEW s \in Subjects, MoveAddress(s)
        PROVE  \A d \in Calls : OrderInv(d)'
    <2>1. moves' # 0 /\ UNCHANGED <<pc, holds, found>>
      BY <1>3 DEF ProvisioningInv, TypeOK, MoveAddress
    <2> QED
      BY <1>1, <2>1
  <1>4. ASSUME UNCHANGED <<pc, holds, found, moves>>
        PROVE  \A d \in Calls : OrderInv(d)'
    BY <1>1, <1>4
  <1> QED
    BY <1>2, <1>3, <1>4, NextSplit DEF Deactivate, vars

\* While no address moves, a call that waits, waits before its first write is
\* made or for the key of its identity, and for a call that is further on.
LEMMA WaitsOrdered ==
    ASSUME ProvisioningInv, \A e \in Calls : OrderInv(e), moves = 0,
           NEW c \in Calls, NEW d \in Calls, Waits(c, d)
    PROVE  Stage(c) \in {1, 3} /\ Stage(c) < Stage(d)
  <1> USE ProvisioningAssumption
  <1>0. TypeOK /\ OwnerInv(c) /\ OwnerInv(d) /\ AddressInv(c) /\ CalmCall(c) /\ OrderInv(d)
    BY DEF ProvisioningInv, CalmInv
  <1>1. c # d /\ pc[d] \in {"rekey", "identity", "link", "refer", "touch", "commit"}
    BY DEF ProvisioningInv, LockInv, Waits
  <1>2. PICK k \in NextKeys(c) : k \in holds[d]
    BY DEF Waits
  <1>3. CASE pc[c] \in {"update", "insert", "sync"}
    BY <1>1, <1>3 DEF Stage
  <1>4. CASE pc[c] = "rekey"
    BY <1>0, <1>4 DEF AddressInv, CalmCall, Readdresses, ReaddressesRow, OwnerInv
  <1>5. CASE pc[c] \in {"identity", "link"}
    <2>1. k = SubjectKey(Subject[c]) /\ Subject[c] \in Subjects
      BY <1>2, <1>5 DEF NextKeys
    <2>2. pc[d] \in {"refer", "touch", "commit"}
      BY <1>0, <1>2, <2>1 DEF OrderInv
    <2> QED
      BY <1>5, <2>2 DEF Stage
  <1>6. CASE pc[c] = "refer"
    <2>1. k = Reference(c, found[c]) /\ found[c] \in Calls
      BY <1>0, <1>2, <1>6 DEF NextKeys, TypeOK, OwnerInv, Linking
    <2> QED
      BY <1>0, <1>1, <1>2, <2>1 DEF OrderInv
  <1>7. CASE pc[c] = "touch"
    <2>1. k \in RowKeys(c) /\ found[c] \in Calls /\ profile[c] # None
      BY <1>0, <1>2, <1>7 DEF NextKeys, TypeOK, OwnerInv, AddressInv, Linking
    <2>2. ASSUME found[c] # c PROVE FALSE
      <3>1. users[found[c]] # NoUser /\ users[found[c]].email = Address[Subject[c]]
        BY <1>0, <1>7, <2>1, <2>2 DEF OwnerInv, CalmCall
      <3>2. PICK s \in Subjects : identities[s] = found[c]
        BY <2>1, <3>1 DEF ProvisioningInv, RowsInv, ProvisionedWhole
      <3>3. Address[s] = Address[Subject[c]] /\ Address[s] # None
        BY <1>0, <2>1, <3>1, <3>2 DEF ProvisioningInv, CalmInv, CalmCall
      <3>4. s = Subject[c]
        BY <3>3
      <3> QED
        BY <1>0, <1>7, <2>1, <3>2, <3>4 DEF OwnerInv
    <2>3. users[c] = NoUser /\ NoUser.email = None
      BY <1>0, <1>7 DEF OwnerInv, NoUser, Row
    <2>4. k = UserRow(c)
      BY <2>1, <2>2, <2>3 DEF RowKeys
    <2>5. found[d] = c
      BY <1>0, <1>2, <2>4 DEF OrderInv
    <2> QED
      BY <1>0, <1>1, <2>3, <2>5 DEF OwnerInv
  <1> QED
    BY <1>2, <1>3, <1>4, <1>5, <1>6, <1>7 DEF NextKeys

LEMMA OrderInvariant == Spec => [](ProvisioningInv /\ \A c \in Calls : OrderInv(c))
  <1>1. Init => \A c \in Calls : OrderInv(c)
    BY DEF Init, OrderInv
  <1>2. ProvisioningInv /\ (\A c \in Calls : OrderInv(c)) /\ [Next]_vars
            => (\A c \in Calls : OrderInv(c))'
    BY OrderStep
  <1> QED
    BY <1>1, <1>2, ProvisioningInvariant, PTL DEF Spec

\* As long as no address has changed hands at the provider, no transactions of
\* _upsert_local_user wait for one another in a circle: where PostgreSQL has to
\* fail one of them, an address has moved.
THEOREM DeadlockNeedsMoves == Spec => []CirclesNeedMoves
  <1>1. ASSUME ProvisioningInv, \A e \in Calls : OrderInv(e), moves = 0, NEW c \in Calls
        PROVE  ~InCircle(c)
    <2> DEFINE T == {e \in Calls : Stage(c) < Stage(e)}
    <2>1. \A e \in Calls : Stage(e) \in 0..6
      BY DEF Stage
    <2>2. \A d \in T \cup {c}, e \in Calls : Waits(d, e) => e \in T
      BY <1>1, <2>1, WaitsOrdered
    <2>3. T \in SUBSET Calls /\ c \notin T
      BY <2>1
    <2> HIDE DEF T
    <2> QED
      BY <2>2, <2>3 DEF InCircle
  <1>2. ProvisioningInv /\ (\A c \in Calls : OrderInv(c)) => CirclesNeedMoves
    BY <1>1 DEF CirclesNeedMoves
  <1> QED
    BY <1>2, OrderInvariant, PTL

\* Until then a transaction that has to wait waits, perhaps through another
\* that waits too, for one that need not: somebody can always go on.
THEOREM SomebodyGoesOn ==
    Spec => [](moves = 0 => \A c \in Calls : (\E d \in Calls : Waits(c, d)) =>
                  \E e \in Calls : Stage(c) < Stage(e) /\ \A d \in Calls : ~Waits(e, d))
  <1>1. ASSUME ProvisioningInv, \A e \in Calls : OrderInv(e), moves = 0,
               NEW c \in Calls, NEW d \in Calls, Waits(c, d)
        PROVE  \E e \in Calls : Stage(c) < Stage(e) /\ \A f \in Calls : ~Waits(e, f)
    <2>1. \A e, f \in Calls : Waits(e, f) => Stage(e) \in {1, 3} /\ Stage(e) < Stage(f)
      BY <1>1, WaitsOrdered
    <2>2. \A e \in Calls : Stage(e) \in 0..6
      BY DEF Stage
    <2>3. CASE \A f \in Calls : ~Waits(d, f)
      BY <1>1, <2>1, <2>3
    <2>4. CASE \E f \in Calls : Waits(d, f)
      <3>1. PICK f \in Calls : Waits(d, f)
        BY <2>4
      <3>2. Stage(f) \notin {1, 3} /\ Stage(c) < Stage(f)
        BY <1>1, <2>1, <2>2, <3>1
      <3> QED
        BY <2>1, <3>2
    <2> QED
      BY <2>3, <2>4
  <1>2. ProvisioningInv /\ (\A c \in Calls : OrderInv(c)) =>
            (moves = 0 => \A c \in Calls : (\E d \in Calls : Waits(c, d)) =>
                \E e \in Calls : Stage(c) < Stage(e) /\ \A d \in Calls : ~Waits(e, d))
    BY <1>1
  <1> QED
    BY <1>2, OrderInvariant, PTL

=============================================================================
