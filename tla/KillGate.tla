------------------------------- MODULE KillGate -------------------------------
(***************************************************************************)
(* One KillGate shared by threads (it is handed out as Arc<KillGate>).  The *)
(* inner RwLock makes close, record_ack and the body of cast_resume_vote    *)
(* atomic; begin_propagation is a load and a store with no lock, and        *)
(* cast_resume_vote decides on a load it made before it took the lock.      *)
(*                                                                         *)
(* A safety request of the gateway copies the gate before it starts and puts  *)
(* the copy back when it fails, under the write lock of the bridge: while     *)
(* nobody is inside the gate, so that the unlocked store of                  *)
(* restore_persisted_state and the locked rest of it are one step.           *)
(***************************************************************************)
EXTENDS KillGateOps

CONSTANTS Thread,
          Ops,          \* which of the operations the threads call
          ClusterSize,  \* the cluster_size every caller passes
          ResumePermitted \* KillGateConfig::authenticated_cluster_membership

ASSUME ClusterSizeAssumption == ClusterSize \in Nat
ASSUME ResumePermittedAssumption == ResumePermitted \in BOOLEAN

VARIABLES gate,    \* the gate
          pc,      \* where each thread is inside an operation
          ballot,  \* the vote each thread is carrying into the lock
          saved,   \* the copy that a safety request holds, if one is under way
          voters   \* history: who voted since the gate last opened

vars == <<gate, pc, ballot, saved, voters>>

PC == {"idle", "closed", "propagate", "vote"}

TypeOK ==
    /\ gate \in Gate
    /\ pc \in [Thread -> PC]
    /\ ballot \in [Thread -> SUBSET Node]
    /\ saved \in SUBSET Gate /\ Cardinality(saved) <= 1
    /\ voters \in SUBSET Node

Init ==
    /\ gate = NewGate
    /\ pc = [t \in Thread |-> "idle"]
    /\ ballot = [t \in Thread |-> {}]
    /\ saved = {}
    /\ voters = {}

(***************************************************************************)
(* close_and_propagate of the bridge: close, then begin_propagation.        *)
(***************************************************************************)
CloseGate(t) ==
    /\ "close" \in Ops
    /\ pc[t] = "idle"
    /\ gate' = Close(gate)
    /\ pc' = [pc EXCEPT ![t] = "closed"]
    /\ UNCHANGED <<ballot, saved, voters>>

LoadPropagation(t) ==
    /\ pc[t] = "closed"
    /\ pc' = [pc EXCEPT ![t] = IF gate.state = "GateClosed"
                               THEN "propagate" ELSE "idle"]
    /\ UNCHANGED <<gate, ballot, saved, voters>>

StoreOpen(t) ==
    /\ pc[t] = "propagate"
    /\ gate' = [gate EXCEPT !.state = "Normal"]
    /\ pc' = [pc EXCEPT ![t] = "idle"]
    /\ UNCHANGED <<ballot, saved, voters>>

StorePropagation(t) ==
    /\ pc[t] = "propagate"
    /\ gate' = [gate EXCEPT !.state = "Propagating"]
    /\ pc' = [pc EXCEPT ![t] = "idle"]
    /\ UNCHANGED <<ballot, saved, voters>>

Ack(t, peer) ==
    /\ "ack" \in Ops
    /\ pc[t] = "idle"
    /\ gate' = RecordAck(gate, peer, ClusterSize)
    /\ UNCHANGED <<pc, ballot, saved, voters>>

(***************************************************************************)
(* cast_resume_vote: refused unless resume is permitted, answered at once    *)
(* on an open gate, otherwise carried into the lock.                        *)
(***************************************************************************)
LoadVote(t, voter) ==
    /\ "vote" \in Ops
    /\ ResumePermitted
    /\ pc[t] = "idle"
    /\ IsClosed(gate)
    /\ pc' = [pc EXCEPT ![t] = "vote"]
    /\ ballot' = [ballot EXCEPT ![t] = {voter}]
    /\ UNCHANGED <<gate, saved, voters>>

CountVote(t) ==
    \E voter \in ballot[t] :
        /\ pc[t] = "vote"
        /\ gate' = CastVote(gate, voter, ClusterSize)
        /\ pc' = [pc EXCEPT ![t] = "idle"]
        /\ ballot' = [ballot EXCEPT ![t] = {}]
        /\ voters' = IF IsClosed(gate') THEN voters \union {voter} ELSE {}
        /\ UNCHANGED saved

(***************************************************************************)
(* A safety request: persisted_state under the bridge's read lock, and then  *)
(* either success or restore_persisted_state under its write lock.  Whatever *)
(* others did to the gate in between is overwritten.                         *)
(***************************************************************************)
Unlocked == \A u \in Thread : pc[u] = "idle"

Capture ==
    /\ "rollback" \in Ops
    /\ Unlocked
    /\ saved = {}
    /\ saved' = {gate}
    /\ UNCHANGED <<gate, pc, ballot, voters>>

Succeed ==
    /\ saved # {}
    /\ saved' = {}
    /\ UNCHANGED <<gate, pc, ballot, voters>>

RestoreStateOnly ==
    \E copy \in saved :
        /\ Unlocked
        /\ gate' = [gate EXCEPT !.state = copy.state]
        /\ voters' = copy.votes
        /\ saved' = {}
        /\ UNCHANGED <<pc, ballot>>

Restore ==
    \E copy \in saved :
        /\ Unlocked
        /\ gate' = copy
        /\ voters' = copy.votes
        /\ saved' = {}
        /\ UNCHANGED <<pc, ballot>>

Next ==
    \/ \E t \in Thread :
        \/ CloseGate(t)
        \/ LoadPropagation(t)
        \/ StorePropagation(t)
        \/ \E n \in Node : Ack(t, n) \/ LoadVote(t, n)
        \/ CountVote(t)
    \/ Capture \/ Succeed \/ Restore

Spec == Init /\ [][Next]_vars

-------------------------------------------------------------------------------
\* What the gate promises, in every interleaving of its threads.

\* A recorded closure is in force: while closed_at is Some (some close has not
\* been lifted by a quorum or a restored copy) is_closed() answers true, whatever
\* acks, votes and unlocked begin_propagation stores run in between.
ClosureInForce == gate.closedAt = "Some" => IsClosed(gate)

\* An open gate holds no tracker and so no vote: the votes that opened a gate are
\* spent.
OpenGateHasNoVotes == ~IsClosed(gate) => gate.required = 0 /\ gate.votes = {}

\* While a vote is running the gate is closed and short of its quorum: the
\* threshold never drifts from the one the configuration asks for, and no
\* thread leaves a satisfied tracker behind.
VoteShortOfQuorum ==
    gate.required > 0 =>
        /\ IsClosed(gate)
        /\ gate.required = EffectiveQuorum(ClusterSize)
        /\ Cardinality(gate.votes) < gate.required

\* A quorum is spent by the opening it causes: no open gate carries votes, and a
\* vote that is running is short of the configured quorum on a closed gate, whatever
\* closes, acks, votes and restored copies come between.  (A second close keeps the
\* votes cast so far: they count for it too.)
QuorumSpentByOpening == OpenGateHasNoVotes /\ VoteShortOfQuorum

\* A closed gate opens in two ways only: by a vote, when the distinct nodes that
\* voted since the gate last opened are a quorum with this voter, or by the rollback
\* of a safety request that began when the gate was open.  The second needs no vote:
\* INV-KG-01 names only the first.
OpensOnlyByQuorum ==
    [][ IsClosed(gate) /\ ~IsClosed(gate') =>
        \/ \E t \in Thread :
            /\ pc[t] = "vote"
            /\ Cardinality(voters \union ballot[t]) >= EffectiveQuorum(ClusterSize)
        \/ gate' \in saved /\ saved' = {}
      ]_vars

===============================================================================
