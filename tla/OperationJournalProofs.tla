------------------------ MODULE OperationJournalProofs ------------------------
(***************************************************************************)
(* Proofs about OperationJournal, for any sets of requests and keys, any     *)
(* assignment of keys and payloads to requests, and any lease time.          *)
(***************************************************************************)
EXTENDS OperationJournal, TLAPS

\* The row of a key was last leased by its owner, at its epoch, for its payload.
OwnerLeased ==
    \A k \in Key : row[k].status # "absent" =>
        /\ row[k].owner_token \in Request
        /\ KeyOf[row[k].owner_token] = k
        /\ lease[row[k].owner_token] = row[k].lease_epoch
        /\ row[k].fingerprint = Fingerprint[row[k].owner_token]

\* Every lease ever granted is of this payload, and older unless it is the owner's.
LeasesOrdered ==
    \A r \in Request : lease[r] # -1 =>
        /\ RowOf(r).status # "absent"
        /\ RowOf(r).fingerprint = Fingerprint[r]
        /\ r = RowOf(r).owner_token \/ lease[r] < RowOf(r).lease_epoch

\* A row holds a response exactly when it is committed, and it is its owner's.
ResponseOfOwner ==
    \A k \in Key : row[k].response = IF row[k].status = "committed"
                                     THEN row[k].owner_token ELSE None

\* An answer is the committed response to the same payload.
AnswersCommitted ==
    \A r \in Request : answer[r] # None =>
        /\ RowOf(r).status = "committed"
        /\ RowOf(r).response = answer[r]
        /\ RowOf(r).fingerprint = Fingerprint[r]

\* What a request's program counter says of its lease and of its answer.
Progress ==
    \A r \in Request :
        /\ pc[r] = "new" => lease[r] = -1 /\ answer[r] = None /\ r \notin effects
        /\ pc[r] \in {"leased", "executed"} => lease[r] # -1 /\ answer[r] = None
        /\ r \in Inline => pc[r] # "executed"
        /\ r \in beat => r \notin Inline

\* The writer is held across steps by an inline request that owns its row.
WriterOwns ==
    /\ \A r \in Inline : pc[r] = "leased" => writer = r
    /\ writer # None => writer \in Inline /\ pc[writer] = "leased" /\ Owns(writer)

JournalInv ==
    /\ TypeOK
    /\ OwnerLeased
    /\ LeasesOrdered
    /\ ResponseOfOwner
    /\ AnswersCommitted
    /\ Progress
    /\ WriterOwns
    /\ InlineEffectIffCommitted

USE NoneAssumption, KeyAssumption, FingerprintAssumption, InlineAssumption,
    LeaseTimeAssumption, MaxTimeAssumption

\* NULL and a lease from now are expiry times.
LEMMA ExpiryFacts ==
    0 \in Expiry /\ \A t \in 0..MaxTime : t + LeaseTime \in Expiry
  BY DEF Expiry

\* The invariant holds of an empty table.
LEMMA InitJournalInv == Init => JournalInv
  <1> SUFFICES ASSUME Init PROVE JournalInv
      OBVIOUS
  <1>1. TypeOK
      BY ExpiryFacts DEF Init, TypeOK, Row, NoRow
  <1>2. OwnerLeased /\ LeasesOrdered /\ ResponseOfOwner
      BY DEF Init, NoRow, OwnerLeased, LeasesOrdered, ResponseOfOwner, RowOf
  <1>3. AnswersCommitted /\ Progress /\ WriterOwns
      BY DEF Init, AnswersCommitted, Progress, WriterOwns, RowOf
  <1>4. InlineEffectIffCommitted
      BY DEF Init, NoRow, InlineEffectIffCommitted, RowOf
  <1>5. QED
      BY <1>1, <1>2, <1>3, <1>4 DEF JournalInv

\* Leasing a row preserves the invariant: the epoch moves past every earlier one.
LEMMA AcquirePreserves ==
    ASSUME JournalInv, NEW r \in Request, Acquire(r)
    PROVE  JournalInv'
  <1> DEFINE key == KeyOf[r]
             epoch == NextEpoch(row[key])
  <1>1. /\ key \in Key /\ row \in [Key -> Row] /\ lease \in [Request -> Nat \union {-1}]
        /\ epoch \in Nat
        /\ row[key].status # "absent" => epoch > row[key].lease_epoch
        /\ row[key].status # "absent" => row[key].fingerprint = Fingerprint[r]
        /\ row[key].status # "committed"
        /\ lease[r] = -1 /\ answer[r] = None
      BY DEF JournalInv, TypeOK, Row, Progress, Acquire, NextEpoch, RowOf
  <1>2. /\ row' = [row EXCEPT ![key] = Leased(r)]
        /\ lease' = [lease EXCEPT ![r] = epoch]
        /\ pc' = [pc EXCEPT ![r] = "leased"]
        /\ writer' = IF r \in Inline THEN r ELSE None
        /\ beat' = IF r \in Inline THEN beat ELSE beat \union {r}
        /\ writer = None /\ now' = now /\ answer' = answer /\ effects' = effects
        /\ pc[r] = "new"
      BY DEF Acquire, Goto, RowOf
  <1>3. /\ Leased(r).status = "in_progress" /\ Leased(r).fingerprint = Fingerprint[r]
        /\ Leased(r).owner_token = r /\ Leased(r).lease_epoch = epoch
        /\ Leased(r).response = None
      BY DEF Leased, RowOf
  <1>4. Leased(r) \in Row
      BY <1>1, ExpiryFacts DEF JournalInv, TypeOK, Row, Leased, RowOf
  <1>5. TypeOK'
      BY <1>1, <1>2, <1>4 DEF JournalInv, TypeOK
  <1>6. \A s \in Request : KeyOf[s] = key => lease[s] < epoch
    <2> SUFFICES ASSUME NEW s \in Request, KeyOf[s] = key PROVE lease[s] < epoch
        OBVIOUS
    <2>1. CASE lease[s] = -1
        BY <1>1, <2>1
    <2>2. CASE lease[s] # -1
      <3>1. row[key].status # "absent" /\ lease[s] <= row[key].lease_epoch
          BY <1>1, <2>2 DEF JournalInv, LeasesOrdered, OwnerLeased, RowOf, Row
      <3>2. QED
          BY <1>1, <3>1 DEF Row
    <2>3. QED
        BY <2>1, <2>2
  <1>7. OwnerLeased'
    <2> SUFFICES ASSUME NEW k \in Key, row'[k].status # "absent"
                 PROVE  /\ row'[k].owner_token \in Request
                        /\ KeyOf[row'[k].owner_token] = k
                        /\ lease'[row'[k].owner_token] = row'[k].lease_epoch
                        /\ row'[k].fingerprint = Fingerprint[row'[k].owner_token]
        BY DEF OwnerLeased
    <2>1. CASE k = key
        BY <1>1, <1>2, <1>3, <2>1
    <2>2. CASE k # key
        BY <1>1, <1>2, <2>2 DEF JournalInv, OwnerLeased
    <2>3. QED
        BY <2>1, <2>2
  <1>8. LeasesOrdered'
    <2> SUFFICES ASSUME NEW s \in Request, lease'[s] # -1
                 PROVE  /\ row'[KeyOf[s]].status # "absent"
                        /\ row'[KeyOf[s]].fingerprint = Fingerprint[s]
                        /\ \/ s = row'[KeyOf[s]].owner_token
                           \/ lease'[s] < row'[KeyOf[s]].lease_epoch
        BY DEF LeasesOrdered, RowOf
    <2>1. CASE s = r
        BY <1>1, <1>2, <1>3, <2>1
    <2>2. CASE s # r /\ KeyOf[s] = key
        BY <1>1, <1>2, <1>3, <1>6, <2>2 DEF JournalInv, LeasesOrdered, RowOf
    <2>3. CASE KeyOf[s] # key
        BY <1>1, <1>2, <2>3 DEF JournalInv, LeasesOrdered, RowOf
    <2>4. QED
        BY <2>1, <2>2, <2>3
  <1>9. ResponseOfOwner'
      BY <1>1, <1>2, <1>3 DEF JournalInv, ResponseOfOwner
  <1>10. AnswersCommitted'
      BY <1>1, <1>2 DEF JournalInv, AnswersCommitted, RowOf
  <1>11. Progress'
      BY <1>1, <1>2 DEF JournalInv, TypeOK, Progress
  <1>12. WriterOwns'
      BY <1>1, <1>2, <1>3 DEF JournalInv, TypeOK, WriterOwns, Owns, RowOf
  <1>13. InlineEffectIffCommitted'
      BY <1>1, <1>2, <1>3 DEF JournalInv, InlineEffectIffCommitted, RowOf
  <1>14. QED
      BY <1>5, <1>7, <1>8, <1>9, <1>10, <1>11, <1>12, <1>13 DEF JournalInv

\* A step that keeps the identity of every row (owner, epoch, payload) and leaves
\* its status alone unless it was in progress preserves what is said of leases.
LEMMA LeasesKept ==
    ASSUME JournalInv, NEW key \in Key, NEW entry,
           row[key].status = "in_progress",
           entry.status # "absent",
           entry.owner_token = row[key].owner_token,
           entry.lease_epoch = row[key].lease_epoch,
           entry.fingerprint = row[key].fingerprint,
           row' = [row EXCEPT ![key] = entry],
           lease' = lease
    PROVE  OwnerLeased' /\ LeasesOrdered'
  <1>1. row \in [Key -> Row]
      BY DEF JournalInv, TypeOK
  <1>2. OwnerLeased'
      BY <1>1 DEF JournalInv, OwnerLeased
  <1>3. LeasesOrdered'
      BY <1>1 DEF JournalInv, LeasesOrdered, RowOf
  <1>4. QED
      BY <1>2, <1>3

\* Committing, inline or detached.
LEMMA CommitPreserves ==
    ASSUME JournalInv, NEW r \in Request, CommitInline(r) \/ CommitDetached(r)
    PROVE  JournalInv'
  <1> DEFINE key == KeyOf[r]
  <1>1. /\ key \in Key /\ row \in [Key -> Row]
        /\ pc[r] \in {"leased", "executed"} /\ writer \in {None, r} /\ writer' = None
        /\ writer = r => r \in Inline /\ Owns(r)
        /\ lease' = lease /\ now' = now
        /\ MarkCommitted(r) /\ answer[r] = None
        /\ beat' \subseteq beat
      BY DEF JournalInv, TypeOK, Progress, WriterOwns, CommitInline, CommitDetached
  <1>2. /\ r \in Inline => writer = r /\ effects' = effects \union {r}
        /\ r \notin Inline => writer = None /\ effects' = effects
      BY <1>1 DEF JournalInv, Progress, WriterOwns, CommitInline, CommitDetached
  <1>3. CASE Owns(r)
    <2>1. /\ row' = [row EXCEPT ![key] = Committed(r)]
          /\ answer' = [answer EXCEPT ![r] = r]
          /\ pc' = [pc EXCEPT ![r] = "answered"]
          /\ row[key].status = "in_progress" /\ row[key].owner_token = r
        BY <1>1, <1>3 DEF MarkCommitted, Goto, Owns, RowOf
    <2>2. row[key].fingerprint = Fingerprint[r]
        BY <1>1, <2>1 DEF JournalInv, OwnerLeased
    <2>3. /\ Committed(r).status = "committed" /\ Committed(r).response = r
          /\ Committed(r).owner_token = r
          /\ Committed(r).lease_epoch = row[key].lease_epoch
          /\ Committed(r).fingerprint = Fingerprint[r]
          /\ Committed(r) \in Row
      <3> DEFINE e == row[key]
      <3>1. e \in Row
          BY <1>1
      <3>2. Committed(r) = [e EXCEPT !.status = "committed", !.response = r, !.lease_expires_at = 0]
          BY DEF Committed, RowOf
      <3> HIDE DEF e
      <3>3. /\ Committed(r).status = "committed" /\ Committed(r).response = r
            /\ Committed(r).owner_token = e.owner_token
            /\ Committed(r).lease_epoch = e.lease_epoch
            /\ Committed(r).fingerprint = e.fingerprint
            /\ Committed(r) \in Row
          BY <3>1, <3>2, ExpiryFacts DEF Row
      <3>4. QED
          BY <2>1, <2>2, <3>3 DEF e
    <2>4. TypeOK'
        BY <1>1, <1>2, <2>1, <2>3 DEF JournalInv, TypeOK
    <2>5. OwnerLeased' /\ LeasesOrdered'
        BY <1>1, <2>1, <2>2, <2>3, LeasesKept
    <2>6. ResponseOfOwner'
        BY <1>1, <2>1, <2>3 DEF JournalInv, ResponseOfOwner
    <2>7. AnswersCommitted'
        BY <1>1, <2>1, <2>3 DEF JournalInv, TypeOK, AnswersCommitted, RowOf
    <2>8. Progress'
        BY <1>1, <1>2, <2>1 DEF JournalInv, TypeOK, Progress
    <2>9. WriterOwns'
        BY <1>1, <1>2, <2>1 DEF JournalInv, TypeOK, WriterOwns
    <2>10. InlineEffectIffCommitted'
        BY <1>1, <1>2, <2>1, <2>3 DEF JournalInv, InlineEffectIffCommitted, RowOf
    <2>11. QED
        BY <2>4, <2>5, <2>6, <2>7, <2>8, <2>9, <2>10 DEF JournalInv
  <1>4. CASE ~Owns(r)
    <2>1. /\ row' = row /\ answer' = answer /\ pc' = [pc EXCEPT ![r] = "failed"]
          /\ r \notin Inline /\ writer = None /\ effects' = effects
        BY <1>1, <1>2, <1>4 DEF MarkCommitted, Goto
    <2>2. TypeOK'
        BY <1>1, <2>1 DEF JournalInv, TypeOK
    <2>3. OwnerLeased' /\ LeasesOrdered' /\ ResponseOfOwner' /\ AnswersCommitted'
        BY <1>1, <2>1 DEF JournalInv, OwnerLeased, LeasesOrdered, ResponseOfOwner,
                          AnswersCommitted, RowOf
    <2>4. Progress' /\ WriterOwns'
        BY <1>1, <2>1 DEF JournalInv, TypeOK, Progress, WriterOwns
    <2>5. InlineEffectIffCommitted'
        BY <2>1 DEF JournalInv, InlineEffectIffCommitted, RowOf
    <2>6. QED
        BY <2>2, <2>3, <2>4, <2>5 DEF JournalInv
  <1>5. QED
      BY <1>3, <1>4

\* Aborting, inline or detached.
LEMMA AbortPreserves ==
    ASSUME JournalInv, NEW r \in Request, AbortInline(r) \/ AbortDetached(r)
    PROVE  JournalInv'
  <1> DEFINE key == KeyOf[r]
  <1>1. /\ key \in Key /\ row \in [Key -> Row]
        /\ pc[r] \in {"leased", "executed"} /\ writer \in {None, r} /\ writer' = None
        /\ r \in Inline => writer = r
        /\ lease' = lease /\ now' = now /\ answer' = answer /\ effects' = effects
        /\ pc' = [pc EXCEPT ![r] = "failed"]
        /\ MarkAborted(r)
        /\ beat' \subseteq beat
      BY DEF JournalInv, TypeOK, WriterOwns, AbortInline, AbortDetached, Goto
  <1>2. Progress' /\ WriterOwns'
      BY <1>1 DEF JournalInv, TypeOK, Progress, WriterOwns
  <1>3. CASE Owns(r)
    <2>1. /\ row' = [row EXCEPT ![key] = Aborted(r)]
          /\ row[key].status = "in_progress"
        BY <1>1, <1>3 DEF MarkAborted, Owns, RowOf
    <2>2. /\ Aborted(r).status = "aborted" /\ Aborted(r).response = None
          /\ Aborted(r).owner_token = row[key].owner_token
          /\ Aborted(r).lease_epoch = row[key].lease_epoch
          /\ Aborted(r).fingerprint = row[key].fingerprint
          /\ Aborted(r) \in Row
      <3> DEFINE e == row[key]
      <3>1. e \in Row
          BY <1>1
      <3>2. Aborted(r) = [e EXCEPT !.status = "aborted", !.response = None, !.lease_expires_at = 0]
          BY DEF Aborted, RowOf
      <3> HIDE DEF e
      <3>3. /\ Aborted(r).status = "aborted" /\ Aborted(r).response = None
            /\ Aborted(r).owner_token = e.owner_token
            /\ Aborted(r).lease_epoch = e.lease_epoch
            /\ Aborted(r).fingerprint = e.fingerprint
            /\ Aborted(r) \in Row
          BY <3>1, <3>2, ExpiryFacts DEF Row
      <3>4. QED
          BY <3>3 DEF e
    <2>3. TypeOK'
        BY <1>1, <2>1, <2>2 DEF JournalInv, TypeOK
    <2>4. OwnerLeased' /\ LeasesOrdered'
        BY <1>1, <2>1, <2>2, LeasesKept
    <2>5. ResponseOfOwner'
        BY <1>1, <2>1, <2>2 DEF JournalInv, ResponseOfOwner
    <2>6. AnswersCommitted'
        BY <1>1, <2>1 DEF JournalInv, AnswersCommitted, RowOf
    <2>7. InlineEffectIffCommitted'
        BY <1>1, <2>1, <2>2 DEF JournalInv, InlineEffectIffCommitted, RowOf
    <2>8. QED
        BY <1>2, <2>3, <2>4, <2>5, <2>6, <2>7 DEF JournalInv
  <1>4. CASE ~Owns(r)
    <2>1. row' = row
        BY <1>1, <1>4 DEF MarkAborted
    <2>2. TypeOK'
        BY <1>1, <2>1 DEF JournalInv, TypeOK
    <2>3. OwnerLeased' /\ LeasesOrdered' /\ ResponseOfOwner' /\ AnswersCommitted'
        BY <1>1, <2>1 DEF JournalInv, OwnerLeased, LeasesOrdered, ResponseOfOwner,
                          AnswersCommitted, RowOf
    <2>4. InlineEffectIffCommitted'
        BY <1>1, <2>1 DEF JournalInv, InlineEffectIffCommitted, RowOf
    <2>5. QED
        BY <1>2, <2>2, <2>3, <2>4 DEF JournalInv
  <1>5. QED
      BY <1>3, <1>4

\* A heartbeat moves only the expiry time.
LEMMA RenewPreserves ==
    ASSUME JournalInv, NEW r \in Request, Renew(r)
    PROVE  JournalInv'
  <1> DEFINE key == KeyOf[r]
             e == row[key]
             renewed == [e EXCEPT !.lease_expires_at = Renewed(r)]
  <1>1. /\ key \in Key /\ row \in [Key -> Row] /\ e \in Row /\ Renewed(r) \in Expiry
        /\ e.status = "in_progress" /\ writer = None
      BY ExpiryFacts DEF JournalInv, TypeOK, Renew, Renewed, Owns, RowOf
  <1>2. /\ row' = [row EXCEPT ![key] = renewed]
        /\ UNCHANGED <<now, writer, pc, lease, beat, answer, effects>>
      BY DEF Renew
  <1>3. /\ renewed \in Row /\ renewed.status = e.status /\ renewed.response = e.response
        /\ renewed.owner_token = e.owner_token /\ renewed.lease_epoch = e.lease_epoch
        /\ renewed.fingerprint = e.fingerprint
    <2> HIDE DEF e
    <2>1. QED
        BY <1>1 DEF Row
  <1> HIDE DEF renewed
  <1>4. TypeOK'
      BY <1>1, <1>2, <1>3 DEF JournalInv, TypeOK
  <1>5. OwnerLeased' /\ LeasesOrdered'
      BY <1>1, <1>2, <1>3, LeasesKept
  <1>6. ResponseOfOwner'
      BY <1>1, <1>2, <1>3 DEF JournalInv, ResponseOfOwner
  <1>7. AnswersCommitted'
      BY <1>1, <1>2, <1>3 DEF JournalInv, AnswersCommitted, RowOf
  <1>8. Progress' /\ WriterOwns'
      BY <1>1, <1>2 DEF JournalInv, Progress, WriterOwns
  <1>9. InlineEffectIffCommitted'
      BY <1>1, <1>2, <1>3 DEF JournalInv, InlineEffectIffCommitted, RowOf
  <1>10. QED
      BY <1>4, <1>5, <1>6, <1>7, <1>8, <1>9 DEF JournalInv

\* The steps that leave the table, the leases and the clients' answers alone.
LEMMA RowsKeptPreserves ==
    ASSUME JournalInv, [Next]_vars, UNCHANGED <<row, lease, answer>>,
           \/ \E r \in Request : Refuse(r) \/ Execute(r) \/ HeartbeatEnds(r) \/ GiveUp(r)
           \/ Tick \/ Crash \/ UNCHANGED vars
    PROVE  JournalInv'
  <1>1. OwnerLeased' /\ LeasesOrdered' /\ ResponseOfOwner' /\ AnswersCommitted'
      BY DEF JournalInv, OwnerLeased, LeasesOrdered, ResponseOfOwner, AnswersCommitted, RowOf
  <1>2. TypeOK' /\ Progress' /\ WriterOwns' /\ InlineEffectIffCommitted'
    <2>1. ASSUME NEW r \in Request, Refuse(r) \/ GiveUp(r)
          PROVE  TypeOK' /\ Progress' /\ WriterOwns' /\ InlineEffectIffCommitted'
        BY <2>1 DEF JournalInv, TypeOK, Progress, WriterOwns, InlineEffectIffCommitted,
                    Owns, RowOf, Refuse, GiveUp, Goto
    <2>2. ASSUME NEW r \in Request, Execute(r)
          PROVE  TypeOK' /\ Progress' /\ WriterOwns' /\ InlineEffectIffCommitted'
        BY <2>2 DEF JournalInv, TypeOK, Progress, WriterOwns, InlineEffectIffCommitted,
                    Owns, RowOf, Execute, Goto
    <2>3. ASSUME NEW r \in Request, HeartbeatEnds(r)
          PROVE  TypeOK' /\ Progress' /\ WriterOwns' /\ InlineEffectIffCommitted'
        BY <2>3 DEF JournalInv, TypeOK, Progress, WriterOwns, InlineEffectIffCommitted,
                    Owns, RowOf, HeartbeatEnds
    <2>4. ASSUME Tick
          PROVE  TypeOK' /\ Progress' /\ WriterOwns' /\ InlineEffectIffCommitted'
        BY <2>4 DEF JournalInv, TypeOK, Progress, WriterOwns, InlineEffectIffCommitted,
                    Owns, RowOf, Tick
    <2>5. ASSUME Crash
          PROVE  TypeOK' /\ Progress' /\ WriterOwns' /\ InlineEffectIffCommitted'
        BY <2>5 DEF JournalInv, TypeOK, Progress, WriterOwns, InlineEffectIffCommitted,
                    Owns, RowOf, Crash
    <2>6. ASSUME UNCHANGED vars
          PROVE  TypeOK' /\ Progress' /\ WriterOwns' /\ InlineEffectIffCommitted'
        BY <2>6 DEF JournalInv, TypeOK, Progress, WriterOwns, InlineEffectIffCommitted,
                    Owns, RowOf, vars
    <2>7. QED
        BY <2>1, <2>2, <2>3, <2>4, <2>5, <2>6
  <1>3. QED
      BY <1>1, <1>2 DEF JournalInv

\* A replay answers with what the row holds.
LEMMA ReplayPreserves ==
    ASSUME JournalInv, NEW r \in Request, Replay(r)
    PROVE  JournalInv'
  <1>1. /\ answer' = [answer EXCEPT ![r] = RowOf(r).response]
        /\ pc' = [pc EXCEPT ![r] = "answered"]
        /\ RowOf(r).status = "committed" /\ RowOf(r).fingerprint = Fingerprint[r]
        /\ RowOf(r).response \in Request
        /\ writer = None /\ pc[r] = "new"
        /\ UNCHANGED <<row, now, writer, lease, beat, effects>>
      BY DEF JournalInv, TypeOK, OwnerLeased, ResponseOfOwner, Replay, Goto, RowOf
  <1>2. TypeOK'
      BY <1>1 DEF JournalInv, TypeOK
  <1>3. OwnerLeased' /\ LeasesOrdered' /\ ResponseOfOwner'
      BY <1>1 DEF JournalInv, OwnerLeased, LeasesOrdered, ResponseOfOwner, RowOf
  <1>4. AnswersCommitted'
      BY <1>1 DEF JournalInv, TypeOK, AnswersCommitted, RowOf
  <1>5. Progress' /\ WriterOwns' /\ InlineEffectIffCommitted'
      BY <1>1 DEF JournalInv, TypeOK, Progress, WriterOwns, InlineEffectIffCommitted, RowOf
  <1>6. QED
      BY <1>2, <1>3, <1>4, <1>5 DEF JournalInv

\* Every step preserves the invariant.
LEMMA NextJournalInv == JournalInv /\ [Next]_vars => JournalInv'
  <1> SUFFICES ASSUME JournalInv, [Next]_vars PROVE JournalInv'
      OBVIOUS
  <1>1. ASSUME NEW r \in Request, Acquire(r) PROVE JournalInv'
      BY <1>1, AcquirePreserves
  <1>2. ASSUME NEW r \in Request, Replay(r) PROVE JournalInv'
      BY <1>2, ReplayPreserves
  <1>3. ASSUME NEW r \in Request, CommitInline(r) \/ CommitDetached(r) PROVE JournalInv'
      BY <1>3, CommitPreserves
  <1>4. ASSUME NEW r \in Request, AbortInline(r) \/ AbortDetached(r) PROVE JournalInv'
      BY <1>4, AbortPreserves
  <1>5. ASSUME NEW r \in Request, Renew(r) PROVE JournalInv'
      BY <1>5, RenewPreserves
  <1>6. ASSUME NEW r \in Request, Refuse(r) \/ Execute(r) \/ HeartbeatEnds(r) \/ GiveUp(r)
        PROVE  JournalInv'
    <2>1. UNCHANGED <<row, lease, answer>>
        BY <1>6 DEF Refuse, Execute, HeartbeatEnds, GiveUp
    <2>2. QED
        BY <1>6, <2>1, RowsKeptPreserves
  <1>7. ASSUME Tick \/ Crash \/ UNCHANGED vars PROVE JournalInv'
    <2>1. UNCHANGED <<row, lease, answer>>
        BY <1>7 DEF Tick, Crash, vars
    <2>2. QED
        BY <1>7, <2>1, RowsKeptPreserves
  <1>8. QED
      BY <1>1, <1>2, <1>3, <1>4, <1>5, <1>6, <1>7 DEF Next, Step

------------------------------------------------------------------------------
\* The inductive invariant of the journal.
THEOREM JournalInvariant == Spec => []JournalInv
  <1>1. QED
      BY InitJournalInv, NextJournalInv, PTL DEF Spec

\* Type correctness of the journal.
THEOREM JournalTypeCorrect == Spec => []TypeOK
  <1>1. JournalInv => TypeOK
      BY DEF JournalInv
  <1>2. QED
      BY <1>1, JournalInvariant, PTL

\* Requests with one key are answered with one response, to their own payload: an
\* answer is always the response that the key's row is committed with.
THEOREM JournalSameAnswer == Spec => []SameAnswer
  <1>1. JournalInv => SameAnswer
      BY DEF JournalInv, AnswersCommitted, SameAnswer, RowOf
  <1>2. QED
      BY <1>1, JournalInvariant, PTL

\* Whoever commits holds the newest lease: the row's owner does, and every other
\* lease was granted at a smaller epoch.
THEOREM JournalNewestLeaseCommits == Spec => []NewestLeaseCommits
  <1>1. JournalInv => NewestLeaseCommits
    <2> SUFFICES ASSUME JournalInv, NEW k \in Key, row[k].status = "committed",
                        NEW r \in Request, KeyOf[r] = k, r # row[k].response
                 PROVE  lease[r] < lease[row[k].response]
        BY DEF NewestLeaseCommits
    <2>1. /\ row[k].response = row[k].owner_token
          /\ lease[row[k].response] = row[k].lease_epoch
        BY DEF JournalInv, ResponseOfOwner, OwnerLeased
    <2>2. row[k].lease_epoch \in Nat
        BY DEF JournalInv, TypeOK, Row
    <2>3. QED
        BY <2>1, <2>2 DEF JournalInv, LeasesOrdered, RowOf
  <1>2. QED
      BY <1>1, JournalInvariant, PTL

\* An inline request holds the writer and its lease from start to end.
THEOREM JournalInlineKeepsLease == Spec => []InlineKeepsLease
  <1>1. JournalInv => InlineKeepsLease
      BY DEF JournalInv, WriterOwns, InlineKeepsLease
  <1>2. QED
      BY <1>1, JournalInvariant, PTL

\* An inline effect exists exactly when its response is the committed one.
THEOREM JournalInlineEffect == Spec => []InlineEffectIffCommitted
  <1>1. JournalInv => InlineEffectIffCommitted
      BY DEF JournalInv
  <1>2. QED
      BY <1>1, JournalInvariant, PTL

\* The only steps that touch a row start from one that is not committed.
LEMMA CommittedKept ==
    ASSUME JournalInv, [Next]_vars, NEW k \in Key, row[k].status = "committed"
    PROVE  row'[k] = row[k]
  <1>0. row \in [Key -> Row]
      BY DEF JournalInv, TypeOK
  <1>1. ASSUME NEW r \in Request, Acquire(r) PROVE row'[k] = row[k]
      BY <1>0, <1>1 DEF Acquire, RowOf
  <1>2. ASSUME NEW r \in Request, CommitInline(r) \/ CommitDetached(r)
        PROVE  row'[k] = row[k]
      BY <1>0, <1>2 DEF CommitInline, CommitDetached, MarkCommitted, Owns, RowOf
  <1>3. ASSUME NEW r \in Request, AbortInline(r) \/ AbortDetached(r)
        PROVE  row'[k] = row[k]
      BY <1>0, <1>3 DEF AbortInline, AbortDetached, MarkAborted, Owns, RowOf
  <1>4. ASSUME NEW r \in Request, Renew(r) PROVE row'[k] = row[k]
      BY <1>0, <1>4 DEF Renew, Owns, RowOf
  <1>5. QED
      BY <1>1, <1>2, <1>3, <1>4
      DEF Next, Step, Refuse, Replay, Execute, HeartbeatEnds, GiveUp, Tick, Crash, vars

\* A committed row never changes again.
THEOREM JournalCommittedIsFinal == Spec => CommittedIsFinal
  <1>1. JournalInv /\ [Next]_vars
        => [\A k \in Key : row[k].status = "committed" => row'[k] = row[k]]_vars
      BY CommittedKept
  <1>2. QED
      BY <1>1, JournalInvariant, PTL DEF Spec, CommittedIsFinal

------------------------------------------------------------------------------
(***************************************************************************)
(* Refinement: a commit that finds its lease intact decides, a replay        *)
(* replays, and every other step leaves results and answers as they are.     *)
(***************************************************************************)
Result == [k \in Key |-> row[k].response]

\* A commit decides the result of the key, or finds its lease lost and does nothing.
LEMMA CommitDecides ==
    ASSUME JournalInv, NEW r \in Request, CommitInline(r) \/ CommitDetached(r)
    PROVE  Abstract!Decide(r) \/ UNCHANGED <<Result, answer>>
  <1>1. /\ MarkCommitted(r) /\ row \in [Key -> Row] /\ KeyOf[r] \in Key
        /\ answer[r] = None
      BY DEF JournalInv, TypeOK, Progress, CommitInline, CommitDetached
  <1>2. CASE Owns(r)
    <2>1. /\ row' = [row EXCEPT ![KeyOf[r]] = Committed(r)]
          /\ answer' = [answer EXCEPT ![r] = r]
          /\ row[KeyOf[r]].response = None
        BY <1>1, <1>2 DEF MarkCommitted, JournalInv, ResponseOfOwner, Owns, RowOf
    <2>2. Committed(r).response = r
      <3> DEFINE e == row[KeyOf[r]]
      <3>1. e \in Row
          BY <1>1
      <3>2. Committed(r) = [e EXCEPT !.status = "committed", !.response = r,
                                     !.lease_expires_at = 0]
          BY DEF Committed, RowOf
      <3> HIDE DEF e
      <3>3. QED
          BY <3>1, <3>2 DEF Row
    <2>3. Result' = [Result EXCEPT ![KeyOf[r]] = r]
        BY <1>1, <2>1, <2>2 DEF Result
    <2>4. QED
        BY <1>1, <2>1, <2>3 DEF Abstract!Decide, Result
  <1>3. CASE ~Owns(r)
      BY <1>1, <1>3 DEF MarkCommitted, Result
  <1>4. QED
      BY <1>2, <1>3

\* A replay answers with the result of the key, to the payload it was decided for.
LEMMA ReplayReplays ==
    ASSUME JournalInv, NEW r \in Request, Replay(r)
    PROVE  Abstract!Replay(r)
  <1>1. /\ KeyOf[r] \in Key /\ answer[r] = None
        /\ row[KeyOf[r]].status = "committed" /\ row[KeyOf[r]].fingerprint = Fingerprint[r]
        /\ row[KeyOf[r]].response = row[KeyOf[r]].owner_token
        /\ row[KeyOf[r]].owner_token \in Request
        /\ row[KeyOf[r]].fingerprint = Fingerprint[row[KeyOf[r]].owner_token]
      BY DEF JournalInv, Progress, ResponseOfOwner, OwnerLeased, Replay, RowOf
  <1>2. answer' = [answer EXCEPT ![r] = row[KeyOf[r]].response] /\ row' = row
      BY DEF Replay, RowOf
  <1>3. QED
      BY <1>1, <1>2 DEF Abstract!Replay

\* The steps that end no lease with a response leave every result as it is.
LEMMA OtherStepsKeepResults ==
    ASSUME JournalInv, NEW r \in Request,
           Acquire(r) \/ AbortInline(r) \/ AbortDetached(r) \/ Renew(r)
    PROVE  UNCHANGED <<Result, answer>>
  <1>1. row \in [Key -> Row] /\ KeyOf[r] \in Key
      BY DEF JournalInv, TypeOK
  <1>2. CASE Acquire(r)
    <2>1. row[KeyOf[r]].response = None
        BY <1>1, <1>2 DEF JournalInv, ResponseOfOwner, Acquire, RowOf
    <2>2. row' = [row EXCEPT ![KeyOf[r]] = Leased(r)] /\ Leased(r).response = None
        BY <1>2 DEF Acquire, Leased
    <2>3. QED
        BY <1>1, <1>2, <2>1, <2>2 DEF Result, Acquire
  <1>3. CASE AbortInline(r) \/ AbortDetached(r)
    <2>1. answer' = answer /\ MarkAborted(r)
        BY <1>3 DEF AbortInline, AbortDetached
    <2>2. CASE Owns(r)
      <3> DEFINE e == row[KeyOf[r]]
      <3>1. e \in Row /\ e.response = None
          BY <1>1, <2>2 DEF JournalInv, ResponseOfOwner, Owns, RowOf
      <3>2. row' = [row EXCEPT ![KeyOf[r]] = Aborted(r)]
          BY <2>1, <2>2 DEF MarkAborted
      <3>3. Aborted(r) = [e EXCEPT !.status = "aborted", !.response = None,
                                   !.lease_expires_at = 0]
          BY DEF Aborted, RowOf
      <3>4. Aborted(r).response = None
        <4> HIDE DEF e
        <4>1. QED
            BY <3>1, <3>3 DEF Row
      <3>5. QED
          BY <1>1, <2>1, <3>1, <3>2, <3>4 DEF Result
    <2>3. CASE ~Owns(r)
        BY <2>1, <2>3 DEF MarkAborted, Result
    <2>4. QED
        BY <2>2, <2>3
  <1>4. CASE Renew(r)
    <2> DEFINE e == row[KeyOf[r]]
               renewed == [e EXCEPT !.lease_expires_at = Renewed(r)]
    <2>1. row' = [row EXCEPT ![KeyOf[r]] = renewed] /\ answer' = answer
        BY <1>4 DEF Renew
    <2>2. e \in Row
        BY <1>1
    <2>3. renewed.response = e.response
      <3> HIDE DEF e
      <3>1. QED
          BY <2>2 DEF Row
    <2> HIDE DEF renewed
    <2>4. QED
        BY <1>1, <2>1, <2>3 DEF Result
  <1>5. QED
      BY <1>2, <1>3, <1>4

\* The journal implements one result per key.
THEOREM JournalRefinesIdempotentKey == Spec => ImplementsIdempotentKey
  <1>1. Init => Abstract!Init
      BY DEF Init, Abstract!Init, NoRow
  <1>2. JournalInv /\ [Next]_vars => [Abstract!Next]_<<Result, answer>>
    <2> SUFFICES ASSUME JournalInv, [Next]_vars
                 PROVE  Abstract!Next \/ UNCHANGED <<Result, answer>>
        OBVIOUS
    <2>1. ASSUME NEW r \in Request, CommitInline(r) \/ CommitDetached(r)
          PROVE  Abstract!Next \/ UNCHANGED <<Result, answer>>
        BY <2>1, CommitDecides DEF Abstract!Next
    <2>2. ASSUME NEW r \in Request, Replay(r)
          PROVE  Abstract!Next \/ UNCHANGED <<Result, answer>>
        BY <2>2, ReplayReplays DEF Abstract!Next
    <2>3. ASSUME NEW r \in Request, Acquire(r) \/ AbortInline(r) \/ AbortDetached(r) \/ Renew(r)
          PROVE  Abstract!Next \/ UNCHANGED <<Result, answer>>
        BY <2>3, OtherStepsKeepResults
    <2>4. ASSUME UNCHANGED <<row, answer>>
          PROVE  Abstract!Next \/ UNCHANGED <<Result, answer>>
        BY <2>4 DEF Result
    <2>5. QED
        BY <2>1, <2>2, <2>3, <2>4
        DEF Next, Step, Refuse, Execute, HeartbeatEnds, GiveUp, Tick, Crash, vars
  <1>3. QED
      BY <1>1, <1>2, JournalInvariant, PTL
      DEF Spec, ImplementsIdempotentKey, Abstract!Spec, Result
==============================================================================
