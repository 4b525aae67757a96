--------------------------- MODULE OperationJournal ---------------------------
(***************************************************************************)
(* The operation journal: how a retried mutation executes once               *)
(* (ghost-gateway/src/api/idempotency.rs over cortex-storage's               *)
(* operation_journal table).                                                *)
(*                                                                         *)
(* The table has at most one row per actor and idempotency key.  A request   *)
(* leases the row, executes, and marks it committed with its response; a     *)
(* later request with the same key is answered from the row, and takes the   *)
(* lease over when it has expired or its holder gave up.  An owner token and *)
(* an epoch fence off a holder that was taken over.                          *)
(*                                                                         *)
(* Requests are of two kinds.  An inline one (execute_idempotent_json_mutation *)
(* called under the database's only writer connection) holds the writer from *)
(* the lease to the commit, and its effect is part of the committing         *)
(* transaction.  A detached one (test_webhook, agent chat, studio messages)  *)
(* releases the writer while it executes, has an effect outside the database *)
(* and keeps its lease by a heartbeat.  A request is one HTTP attempt, so it *)
(* also stands for the owner token it generates.                             *)
(***************************************************************************)
EXTENDS Integers

CONSTANTS Request, Key, KeyOf, Fingerprint, None,
          Inline,       \* the requests that execute under the writer
          LeaseTime,    \* OPERATION_LEASE_SECONDS
          MaxTime       \* bound: the clock

ASSUME NoneAssumption == None \notin Request
ASSUME KeyAssumption == KeyOf \in [Request -> Key]
ASSUME FingerprintAssumption == DOMAIN Fingerprint = Request
ASSUME InlineAssumption == Inline \subseteq Request
ASSUME LeaseTimeAssumption == LeaseTime \in Nat \ {0}
ASSUME MaxTimeAssumption == MaxTime \in Nat

VARIABLES row,      \* the table: the row of each key
          now,      \* the clock
          writer,   \* the request that holds the writer connection across steps
          pc,
          lease,    \* the epoch a request leased its row at, -1 if it never did
          beat,     \* requests whose heartbeat is running
          answer,   \* per request, whose response it was answered with
          effects   \* requests whose effect has happened

vars == <<row, now, writer, pc, lease, beat, answer, effects>>

\* lease_expires_at, 0 standing for NULL.
Expiry == 0..(MaxTime + LeaseTime)

Row == [status : {"absent", "in_progress", "committed", "aborted"},
        fingerprint : {Fingerprint[r] : r \in Request} \union {None},
        owner_token : Request \union {None},
        lease_epoch : Nat,
        lease_expires_at : Expiry,
        response : Request \union {None}]

NoRow == [status |-> "absent", fingerprint |-> None, owner_token |-> None,
          lease_epoch |-> 0, lease_expires_at |-> 0, response |-> None]

TypeOK ==
    /\ row \in [Key -> Row]
    /\ now \in 0..MaxTime
    /\ writer \in Request \union {None}
    /\ pc \in [Request -> {"new", "leased", "executed", "answered", "refused", "failed", "dead"}]
    /\ lease \in [Request -> Nat \union {-1}]
    /\ beat \subseteq Request
    /\ answer \in [Request -> Request \union {None}]
    /\ effects \subseteq Request

Init ==
    /\ row = [k \in Key |-> NoRow]
    /\ now = 0
    /\ writer = None
    /\ pc = [r \in Request |-> "new"]
    /\ lease = [r \in Request |-> -1]
    /\ beat = {}
    /\ answer = [r \in Request |-> None]
    /\ effects = {}

RowOf(r) == row[KeyOf[r]]
Goto(r, label) == pc' = [pc EXCEPT ![r] = label]

\* The WHERE clause of mark_committed, mark_aborted and renew_lease.
Owns(r) ==
    /\ RowOf(r).status = "in_progress"
    /\ RowOf(r).owner_token = r
    /\ RowOf(r).lease_epoch = lease[r]

------------------------------------------------------------------------------
(***************************************************************************)
(* prepare_json_operation: one transaction, under the writer.                *)
(***************************************************************************)
Expired(entry) == entry.lease_expires_at <= now

\* Mismatch or InProgress.
Refuse(r) ==
    /\ pc[r] = "new" /\ writer = None
    /\ RowOf(r).status # "absent"
    /\ \/ RowOf(r).fingerprint # Fingerprint[r]
       \/ RowOf(r).status = "in_progress" /\ ~Expired(RowOf(r))
    /\ Goto(r, "refused")
    /\ UNCHANGED <<row, now, writer, lease, beat, answer, effects>>

Replay(r) ==
    /\ pc[r] = "new" /\ writer = None
    /\ RowOf(r).status = "committed"
    /\ RowOf(r).fingerprint = Fingerprint[r]
    /\ answer' = [answer EXCEPT ![r] = RowOf(r).response]
    /\ Goto(r, "answered")
    /\ UNCHANGED <<row, now, writer, lease, beat, effects>>

NextEpochKept(entry) == entry.lease_epoch

\* A new row starts at epoch 0; restart_aborted and take_over_in_progress add one.
NextEpoch(entry) == IF entry.status = "absent" THEN 0 ELSE entry.lease_epoch + 1

\* insert_in_progress, restart_aborted or take_over_in_progress.
Leased(r) ==
    [status |-> "in_progress", fingerprint |-> Fingerprint[r], owner_token |-> r,
     lease_epoch |-> NextEpoch(RowOf(r)), lease_expires_at |-> now + LeaseTime,
     response |-> None]

AcquireReleasingWriter(r) ==
    /\ pc[r] = "new" /\ writer = None
    /\ \/ RowOf(r).status = "absent"
       \/ /\ RowOf(r).fingerprint = Fingerprint[r]
          /\ \/ RowOf(r).status = "aborted"
             \/ RowOf(r).status = "in_progress" /\ Expired(RowOf(r))
    /\ row' = [row EXCEPT ![KeyOf[r]] = Leased(r)]
    /\ lease' = [lease EXCEPT ![r] = NextEpoch(RowOf(r))]
    /\ beat' = IF r \in Inline THEN beat ELSE beat \union {r}
    /\ Goto(r, "leased")
    /\ UNCHANGED <<now, writer, answer, effects>>

\* Acquired: an inline request keeps the writer, a detached one releases it and
\* starts its heartbeat.
Acquire(r) ==
    /\ pc[r] = "new" /\ writer = None
    /\ \/ RowOf(r).status = "absent"
       \/ /\ RowOf(r).fingerprint = Fingerprint[r]
          /\ \/ RowOf(r).status = "aborted"
             \/ RowOf(r).status = "in_progress" /\ Expired(RowOf(r))
    /\ row' = [row EXCEPT ![KeyOf[r]] = Leased(r)]
    /\ lease' = [lease EXCEPT ![r] = NextEpoch(RowOf(r))]
    /\ writer' = IF r \in Inline THEN r ELSE None
    /\ beat' = IF r \in Inline THEN beat ELSE beat \union {r}
    /\ Goto(r, "leased")
    /\ UNCHANGED <<now, answer, effects>>

------------------------------------------------------------------------------
(***************************************************************************)
(* The statements that end or prolong a lease.                               *)
(***************************************************************************)
Committed(r) ==
    [RowOf(r) EXCEPT !.status = "committed", !.response = r, !.lease_expires_at = 0]

MarkCommittedAlways(r) ==
    /\ row' = [row EXCEPT ![KeyOf[r]] = Committed(r)]
    /\ answer' = [answer EXCEPT ![r] = r]
    /\ Goto(r, "answered")

\* mark_committed: the response is stored and returned, or ownership was lost.
MarkCommitted(r) ==
    IF Owns(r)
    THEN /\ row' = [row EXCEPT ![KeyOf[r]] = Committed(r)]
         /\ answer' = [answer EXCEPT ![r] = r]
         /\ Goto(r, "answered")
    ELSE /\ Goto(r, "failed")
         /\ UNCHANGED <<row, answer>>

Aborted(r) == [RowOf(r) EXCEPT !.status = "aborted", !.response = None, !.lease_expires_at = 0]

\* mark_aborted; the callers ignore that it found no row to abort.
MarkAborted(r) == row' = IF Owns(r) THEN [row EXCEPT ![KeyOf[r]] = Aborted(r)] ELSE row

\* Inline: the effect and mark_committed, in one transaction.
CommitInline(r) ==
    /\ pc[r] = "leased" /\ writer = r
    /\ MarkCommitted(r)
    /\ effects' = IF Owns(r) THEN effects \union {r} ELSE effects
    /\ writer' = None
    /\ UNCHANGED <<now, lease, beat>>

AbortInlineKeepingEffect(r) ==
    /\ pc[r] = "leased" /\ writer = r
    /\ MarkAborted(r)
    /\ effects' = effects \union {r}
    /\ Goto(r, "failed")
    /\ writer' = None
    /\ UNCHANGED <<now, lease, beat, answer>>

\* Inline: the mutation fails; its transaction is rolled back and the row aborted.
AbortInline(r) ==
    /\ pc[r] = "leased" /\ writer = r
    /\ MarkAborted(r)
    /\ Goto(r, "failed")
    /\ writer' = None
    /\ UNCHANGED <<now, lease, beat, answer, effects>>

\* Detached: the effect happens (a webhook is delivered, a turn is run).
Execute(r) ==
    /\ pc[r] = "leased" /\ r \notin Inline
    /\ effects' = effects \union {r}
    /\ Goto(r, "executed")
    /\ UNCHANGED <<row, now, writer, lease, beat, answer>>

\* Detached: the request fails, before it has executed anything or after (a call
\* that timed out may have had its effect), and the row is aborted.
AbortDetached(r) ==
    /\ pc[r] \in {"leased", "executed"} /\ r \notin Inline /\ writer = None
    /\ MarkAborted(r)
    /\ beat' = beat \ {r}
    /\ Goto(r, "failed")
    /\ UNCHANGED <<now, writer, lease, answer, effects>>

\* Detached: the heartbeat has stopped without having lost the lease, and
\* commit_prepared_json_operation runs.
CommitDetached(r) ==
    /\ pc[r] = "executed" /\ r \in beat /\ writer = None
    /\ MarkCommitted(r)
    /\ beat' = beat \ {r}
    /\ UNCHANGED <<now, writer, lease, effects>>

\* lease_expires_at(now).
Renewed(r) == now + LeaseTime

\* A heartbeat renews the lease; that the lease has expired does not matter as
\* long as nobody took it over.
Renew(r) ==
    /\ r \in beat /\ writer = None
    /\ Owns(r)
    /\ row' = [row EXCEPT ![KeyOf[r]].lease_expires_at = Renewed(r)]
    /\ UNCHANGED <<now, writer, pc, lease, beat, answer, effects>>

\* A heartbeat finds the lease lost, or its statement fails, and ends.
HeartbeatEnds(r) ==
    /\ r \in beat /\ writer = None
    /\ beat' = beat \ {r}
    /\ UNCHANGED <<row, now, writer, pc, lease, answer, effects>>

\* stop() reports the lost heartbeat and the request ends without committing.
GiveUp(r) ==
    /\ pc[r] = "executed" /\ r \notin beat
    /\ Goto(r, "failed")
    /\ UNCHANGED <<row, now, writer, lease, beat, answer, effects>>

Tick ==
    /\ now < MaxTime
    /\ now' = now + 1
    /\ UNCHANGED <<row, writer, pc, lease, beat, answer, effects>>

\* The process dies: requests in flight and heartbeats are gone, the table stays.
Crash ==
    /\ pc' = [r \in Request |-> IF pc[r] \in {"leased", "executed"} THEN "dead" ELSE pc[r]]
    /\ writer' = None
    /\ beat' = {}
    /\ UNCHANGED <<row, now, lease, answer, effects>>

Step(r) ==
    \/ Refuse(r) \/ Replay(r) \/ Acquire(r)
    \/ CommitInline(r) \/ AbortInline(r)
    \/ Execute(r) \/ AbortDetached(r) \/ CommitDetached(r)
    \/ Renew(r) \/ HeartbeatEnds(r) \/ GiveUp(r)

Next == (\E r \in Request : Step(r)) \/ Tick \/ Crash

Spec == Init /\ [][Next]_vars

------------------------------------------------------------------------------
\* All the requests that carry one key and are answered get one and the same
\* response, whoever executed, crashed, expired or was taken over in between, and
\* that response is to their own payload.
SameAnswer ==
    \A r, s \in Request :
        KeyOf[r] = KeyOf[s] /\ answer[r] # None /\ answer[s] # None
            => answer[r] = answer[s] /\ Fingerprint[r] = Fingerprint[s]

\* A committed row is final: no late commit, abort, renewal or takeover of a
\* request that once held the lease changes it.
CommittedIsFinal ==
    [][\A k \in Key : row[k].status = "committed" => row'[k] = row[k]]_vars

\* Only the newest lease commits: every other request that ever leased the row of
\* a committed response did so at a smaller epoch.
NewestLeaseCommits ==
    \A k \in Key : row[k].status = "committed" =>
        \A r \in Request :
            KeyOf[r] = k /\ r # row[k].response => lease[r] < lease[row[k].response]

\* An inline request cannot lose its lease while it executes, so that the
\* ownership error inside its open transaction never arises.
InlineKeepsLease == \A r \in Inline : pc[r] = "leased" => writer = r /\ Owns(r)

\* The effect of an inline request is there if and only if its response is the
\* committed one: a failed or crashed attempt leaves nothing behind.
InlineEffectIffCommitted ==
    \A r \in Inline :
        r \in effects <=> RowOf(r).status = "committed" /\ RowOf(r).response = r

\* The journal implements one result per key.
Abstract ==
    INSTANCE IdempotentKey WITH result <- [k \in Key |-> row[k].response]

\* The journal, with its leases, takeovers, crashes and heartbeats, is an
\* implementation of IdempotentKey.
ImplementsIdempotentKey == Abstract!Spec
==============================================================================
