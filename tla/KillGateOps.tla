----------------------------- MODULE KillGateOps -----------------------------
(***************************************************************************)
(* The operations of one distributed kill gate (crate ghost-kill-gates), as *)
(* functions from the gate's value to its value.  Everything a KillGate     *)
(* does while it holds its write lock is one operator; KillGate.tla         *)
(* interleaves the threads of one gate, KillGateCluster.tla connects the    *)
(* gates of several nodes.                                                  *)
(*                                                                         *)
(* A gate is a record                                                      *)
(*   state     the AtomicU8                                                *)
(*   closedAt  closed_at, close_reason and propagation_start, None or Some:  *)
(*             the three are always assigned together                      *)
(*   acked     acked_nodes, which never holds an id twice                  *)
(*   required  quorum_tracker's threshold, 0 for quorum_tracker = None: a   *)
(*             tracker's own threshold is at least 1                       *)
(*   votes     the tracker's set of voters                                 *)
(* The hash chain is left out: each operation appends one event and nothing *)
(* in the gate or the relay ever decides on its contents.                  *)
(***************************************************************************)
EXTENDS Naturals, FiniteSets

CONSTANTS Node,          \* the ids a message can name
          QuorumSize     \* KillGateConfig::quorum_size, 0 for None

ASSUME NodeAssumption == IsFiniteSet(Node)
ASSUME QuorumSizeAssumption == QuorumSize \in Nat

GateState == {"Normal", "GateClosed", "Propagating", "Confirmed", "QuorumResume"}

Gate == [state : GateState, closedAt : {"None", "Some"}, acked : SUBSET Node,
         required : Nat, votes : SUBSET Node]

NewGate == [state |-> "Normal", closedAt |-> "None", acked |-> {},
            required |-> 0, votes |-> {}]

IsClosed(g) == g.state # "Normal"

\* KillGateConfig::effective_quorum: an explicit size is clamped to the
\* cluster, otherwise a strict majority.
EffectiveQuorum(size) ==
    IF QuorumSize > 0
    THEN IF size = 0 THEN 1 ELSE IF QuorumSize < size THEN QuorumSize ELSE size
    ELSE IF size = 0 THEN 1 ELSE (size \div 2) + 1

\* KillGate::close: unconditional, whatever state the gate was in; a resume
\* vote in progress keeps its tracker.
Close(g) ==
    [g EXCEPT !.state = "GateClosed", !.closedAt = "Some", !.acked = {}]

\* KillGate::begin_propagation when nothing runs between its load and store.
BeginPropagation(g) ==
    IF g.state = "GateClosed" THEN [g EXCEPT !.state = "Propagating"] ELSE g

RecordAckOpening(g, peer, size) ==
    LET acks == g.acked \union {peer}
    IN  [g EXCEPT !.acked = acks,
                  !.state = IF Cardinality(acks) + 1 >= size
                            THEN "Normal" ELSE g.state]

\* KillGate::record_ack: no test of the state; cluster_size.saturating_sub(1)
\* acks confirm the closure.
RecordAck(g, peer, size) ==
    LET acks == g.acked \union {peer}
    IN  [g EXCEPT !.acked = acks,
                  !.state = IF Cardinality(acks) + 1 >= size
                            THEN "Confirmed" ELSE g.state]

CastVoteKeepingTracker(g, voter, size) ==
    LET required == IF g.required = 0 THEN EffectiveQuorum(size) ELSE g.required
        votes    == g.votes \union {voter}
    IN  IF Cardinality(votes) >= required
        THEN [g EXCEPT !.state = "Normal", !.closedAt = "None", !.acked = {},
                       !.required = required, !.votes = votes]
        ELSE [g EXCEPT !.state = IF g.required = 0 THEN "QuorumResume" ELSE g.state,
                       !.required = required, !.votes = votes]

\* KillGate::cast_resume_vote from the point where the lock is held: create
\* the tracker if there is none, count the voter once; on quorum every field
\* goes back to that of a new gate.
CastVote(g, voter, size) ==
    LET required == IF g.required = 0 THEN EffectiveQuorum(size) ELSE g.required
        votes    == g.votes \union {voter}
    IN  IF Cardinality(votes) >= required
        THEN NewGate
        ELSE [g EXCEPT !.state = IF g.required = 0 THEN "QuorumResume" ELSE g.state,
                       !.required = required, !.votes = votes]
==============================================================================
