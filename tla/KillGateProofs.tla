---------------------------- MODULE KillGateProofs ----------------------------
(***************************************************************************)
(* Proofs about one gate and its threads (KillGate.tla), for every set of    *)
(* threads, every finite set of nodes, every cluster size and every          *)
(* configured quorum; and about the cluster of gates (KillGateCluster.tla),  *)
(* for every finite set of nodes, every choice of the nodes that may be      *)
(* resumed and of those that may roll back, every configured quorum, and any  *)
(* number of closes, with or without duplicates.                             *)
(***************************************************************************)
EXTENDS KillGate, KillGateCluster, FiniteSetTheorems, TLAPS

(***************************************************************************)
(* One gate.                                                               *)
(***************************************************************************)

\* What holds of the gate holds of a copy that a safety request has taken of it.
SoundCopy(g) ==
    /\ g.closedAt = "Some" => IsClosed(g)
    /\ ~IsClosed(g) => g.required = 0 /\ g.votes = {}
    /\ g.required > 0 =>
        /\ IsClosed(g)
        /\ g.required = EffectiveQuorum(ClusterSize)
        /\ Cardinality(g.votes) < g.required
    /\ g.required = 0 => g.votes = {}

\* The inductive invariant: the three safety invariants, of the gate and of a copy,
\* and what links the tracker to the history (its votes are the votes since the gate
\* last opened).
GateInv ==
    /\ TypeOK
    /\ ClosureInForce
    /\ OpenGateHasNoVotes
    /\ VoteShortOfQuorum
    /\ gate.required = 0 => gate.votes = {}
    /\ gate.votes = voters
    /\ \A g \in saved : SoundCopy(g)

\* effective_quorum never answers zero, whatever the configuration.
LEMMA QuorumPositive == EffectiveQuorum(ClusterSize) \in Nat /\ EffectiveQuorum(ClusterSize) > 0
  BY QuorumSizeAssumption, ClusterSizeAssumption DEF EffectiveQuorum

\* A set of nodes is finite, so its Cardinality is a number.
LEMMA VotersFinite == \A S \in SUBSET Node : IsFiniteSet(S) /\ Cardinality(S) \in Nat
  BY NodeAssumption, FS_Subset, FS_CardinalityType

LEMMA InitGateInv == Init => GateInv
  <1> SUFFICES ASSUME Init PROVE GateInv
    OBVIOUS
  <1>1. TypeOK
    BY FS_EmptySet DEF Init, TypeOK, NewGate, Gate, GateState, PC
  <1> QED
    BY <1>1 DEF Init, GateInv, NewGate, ClosureInForce, OpenGateHasNoVotes,
                VoteShortOfQuorum, IsClosed

\* What the locked part of cast_resume_vote does to a gate: it keeps its type,
\* and it either reopens the gate and forgets the vote, or leaves the gate
\* closed one voter richer and still short of the quorum.
LEMMA CastVoteEffect ==
  ASSUME TypeOK, VoteShortOfQuorum, gate.required = 0 => gate.votes = {},
         NEW voter \in Node
  PROVE  LET g == CastVote(gate, voter, ClusterSize)
             votes == gate.votes \union {voter}
         IN  /\ g \in Gate
             /\ \/ /\ g.state = "Normal" /\ g.closedAt = "None"
                   /\ g.required = 0 /\ g.votes = {}
                   /\ Cardinality(votes) >= EffectiveQuorum(ClusterSize)
                \/ /\ gate.required = 0 => g.state = "QuorumResume"
                   /\ gate.required # 0 => g.state = gate.state
                   /\ g.closedAt = gate.closedAt
                   /\ g.required = EffectiveQuorum(ClusterSize)
                   /\ g.votes = votes
                   /\ Cardinality(votes) < EffectiveQuorum(ClusterSize)
  <1> DEFINE required == IF gate.required = 0 THEN EffectiveQuorum(ClusterSize)
                                              ELSE gate.required
             votes == gate.votes \union {voter}
  <1>1. gate \in Gate
    BY DEF TypeOK
  <1>2. votes \in SUBSET Node /\ Cardinality(votes) \in Nat
    BY <1>1, VotersFinite DEF Gate
  <1>3. required = EffectiveQuorum(ClusterSize) /\ required \in Nat
    BY <1>1, QuorumPositive DEF Gate, VoteShortOfQuorum
  <1> HIDE DEF required, votes
  <1>a. CastVote(gate, voter, ClusterSize) =
           IF Cardinality(votes) >= required
           THEN NewGate
           ELSE [gate EXCEPT !.state = IF gate.required = 0 THEN "QuorumResume"
                                                            ELSE gate.state,
                             !.required = required, !.votes = votes]
    BY DEF CastVote, required, votes
  <1>4. CASE Cardinality(votes) >= required
    <2>1. CastVote(gate, voter, ClusterSize) = NewGate
      BY <1>a, <1>4
    <2> QED
      BY <1>3, <1>4, <2>1 DEF NewGate, Gate, GateState, votes
  <1>5. CASE ~(Cardinality(votes) >= required)
    <2>1. CastVote(gate, voter, ClusterSize) =
            [gate EXCEPT !.state = IF gate.required = 0 THEN "QuorumResume"
                                                        ELSE gate.state,
                         !.required = required, !.votes = votes]
      BY <1>a, <1>5
    <2>2. CastVote(gate, voter, ClusterSize) \in Gate
      BY <1>1, <1>2, <1>3, <2>1 DEF Gate, GateState
    <2>3. Cardinality(votes) < required
      BY <1>2, <1>3, <1>5
    <2> QED
      BY <1>1, <1>3, <2>1, <2>2, <2>3 DEF Gate, votes
  <1> QED
    BY <1>4, <1>5

LEMMA NextGateInv == GateInv /\ [Next]_vars => GateInv'
  <1> SUFFICES ASSUME GateInv, [Next]_vars PROVE GateInv'
    OBVIOUS
  <1> USE DEF GateInv, IsClosed
  <1>1. ASSUME NEW t \in Thread, CloseGate(t) PROVE GateInv'
    <2>1. TypeOK'
      BY <1>1 DEF CloseGate, TypeOK, Close, Gate, GateState, PC
    <2>2. /\ gate'.state = "GateClosed" /\ gate'.required = gate.required
          /\ gate'.votes = gate.votes /\ voters' = voters /\ saved' = saved
      BY <1>1 DEF CloseGate, Close, TypeOK, Gate
    <2> QED
      BY <2>1, <2>2 DEF ClosureInForce, OpenGateHasNoVotes, VoteShortOfQuorum
  <1>2. ASSUME NEW t \in Thread, LoadPropagation(t) PROVE GateInv'
    <2>1. TypeOK'
      BY <1>2 DEF LoadPropagation, TypeOK, PC
    <2> QED
      BY <1>2, <2>1 DEF LoadPropagation, ClosureInForce, OpenGateHasNoVotes,
                        VoteShortOfQuorum
  <1>3. ASSUME NEW t \in Thread, StorePropagation(t) PROVE GateInv'
    <2>1. TypeOK'
      BY <1>3 DEF StorePropagation, TypeOK, Gate, GateState, PC
    <2>2. /\ gate'.state = "Propagating" /\ gate'.required = gate.required
          /\ gate'.votes = gate.votes /\ voters' = voters /\ saved' = saved
      BY <1>3 DEF StorePropagation, TypeOK, Gate
    <2> QED
      BY <2>1, <2>2 DEF ClosureInForce, OpenGateHasNoVotes, VoteShortOfQuorum
  <1>4. ASSUME NEW t \in Thread, NEW n \in Node, Ack(t, n) PROVE GateInv'
    <2>1. TypeOK'
      BY <1>4 DEF Ack, RecordAck, TypeOK, Gate, GateState
    <2>2. /\ gate'.state \in {"Confirmed", gate.state}
          /\ gate'.required = gate.required /\ gate'.closedAt = gate.closedAt
          /\ gate'.votes = gate.votes /\ voters' = voters /\ saved' = saved
      BY <1>4 DEF Ack, RecordAck, TypeOK, Gate
    <2> QED
      BY <2>1, <2>2 DEF ClosureInForce, OpenGateHasNoVotes, VoteShortOfQuorum
  <1>5. ASSUME NEW t \in Thread, NEW n \in Node, LoadVote(t, n) PROVE GateInv'
    <2>1. TypeOK'
      BY <1>5 DEF LoadVote, TypeOK, PC
    <2> QED
      BY <1>5, <2>1 DEF LoadVote, ClosureInForce, OpenGateHasNoVotes,
                        VoteShortOfQuorum
  <1>6. ASSUME NEW t \in Thread, CountVote(t) PROVE GateInv'
    <2>1. PICK voter \in ballot[t] :
             /\ gate' = CastVote(gate, voter, ClusterSize)
             /\ pc' = [pc EXCEPT ![t] = "idle"]
             /\ ballot' = [ballot EXCEPT ![t] = {}] /\ saved' = saved
             /\ voters' = IF IsClosed(gate') THEN voters \union {voter} ELSE {}
      BY <1>6 DEF CountVote
    <2>2. voter \in Node
      BY <2>1 DEF TypeOK
    <2>3. gate' \in Gate
      BY <2>1, <2>2, CastVoteEffect
    <2>4. TypeOK'
      BY <2>1, <2>2, <2>3 DEF TypeOK, PC
    <2>5. \/ /\ gate'.state = "Normal" /\ gate'.closedAt = "None"
             /\ gate'.required = 0 /\ gate'.votes = {}
          \/ /\ gate.required = 0 => gate'.state = "QuorumResume"
             /\ gate.required # 0 => gate'.state = gate.state
             /\ gate'.required = EffectiveQuorum(ClusterSize)
             /\ gate'.votes = gate.votes \union {voter}
             /\ Cardinality(gate'.votes) < EffectiveQuorum(ClusterSize)
      BY <2>1, <2>2, CastVoteEffect
    <2>6. gate.required \in Nat
      BY DEF TypeOK, Gate
    <2>7. gate.required # 0 => gate.state # "Normal"
      BY <2>6 DEF VoteShortOfQuorum
    <2>8. CASE gate'.state = "Normal"
      BY <2>1, <2>4, <2>5, <2>7, <2>8
         DEF ClosureInForce, OpenGateHasNoVotes, VoteShortOfQuorum
    <2>9. CASE gate'.state # "Normal"
      BY <2>1, <2>4, <2>5, <2>7, <2>9, QuorumPositive
         DEF ClosureInForce, OpenGateHasNoVotes, VoteShortOfQuorum
    <2> QED
      BY <2>8, <2>9
  <1>7. CASE UNCHANGED vars
    BY <1>7 DEF vars, TypeOK, ClosureInForce, OpenGateHasNoVotes, VoteShortOfQuorum
  <1>8. CASE Capture
    <2>1. SoundCopy(gate)
      BY DEF SoundCopy, ClosureInForce, OpenGateHasNoVotes, VoteShortOfQuorum
    <2>2. Cardinality({gate}) = 1
      BY FS_Singleton
    <2> QED
      BY <1>8, <2>1, <2>2
      DEF Capture, TypeOK, ClosureInForce, OpenGateHasNoVotes, VoteShortOfQuorum
  <1>9. CASE Succeed
    BY <1>9, FS_EmptySet
    DEF Succeed, TypeOK, ClosureInForce, OpenGateHasNoVotes, VoteShortOfQuorum
  <1>10. CASE Restore
    <2>1. PICK copy \in saved :
             gate' = copy /\ voters' = copy.votes /\ saved' = {} /\ UNCHANGED <<pc, ballot>>
      BY <1>10 DEF Restore
    <2>2. SoundCopy(copy) /\ copy \in Gate
      BY <2>1 DEF TypeOK
    <2>3. TypeOK'
      BY <2>1, <2>2, FS_EmptySet DEF TypeOK, Gate
    <2> QED
      BY <2>1, <2>2, <2>3
      DEF SoundCopy, ClosureInForce, OpenGateHasNoVotes, VoteShortOfQuorum
  <1> QED
    BY <1>1, <1>2, <1>3, <1>4, <1>5, <1>6, <1>7, <1>8, <1>9, <1>10 DEF Next

\* The gate's inductive invariant holds in every reachable state.
THEOREM GateInvariant == Spec => []GateInv
  BY InitGateInv, NextGateInv, PTL DEF Spec

\* Type correctness of the gate and its threads.
THEOREM GateTypeCorrect == Spec => []TypeOK
  <1>1. GateInv => TypeOK
    BY DEF GateInv
  <1> QED
    BY <1>1, GateInvariant, PTL

\* A recorded closure is in force: whatever acks, votes and unlocked stores of
\* begin_propagation interleave, is_closed() holds while closed_at is Some.
THEOREM GateClosureInForce == Spec => []ClosureInForce
  <1>1. GateInv => ClosureInForce
    BY DEF GateInv
  <1> QED
    BY <1>1, GateInvariant, PTL

\* No open gate carries votes, and a vote that cast_resume_vote has begun is short
\* of the configured quorum and runs on a closed gate.
THEOREM GateQuorumIsSpent == Spec => []QuorumSpentByOpening
  <1>1. GateInv => QuorumSpentByOpening
    BY DEF GateInv, QuorumSpentByOpening
  <1> QED
    BY <1>1, GateInvariant, PTL

\* A closed gate is opened by a quorum of distinct voters (INV-KG-01) or by the
\* rollback of a safety request that began while it was open, and by nothing else.
THEOREM GateOpensOnlyByQuorum == Spec => OpensOnlyByQuorum
  <1> DEFINE Opens == IsClosed(gate) /\ ~IsClosed(gate')
             Quorum == \E t \in Thread :
                         /\ pc[t] = "vote"
                         /\ Cardinality(voters \union ballot[t])
                              >= EffectiveQuorum(ClusterSize)
             RolledBack == gate' \in saved /\ saved' = {}
  <1>1. GateInv /\ [Next]_vars => [Opens => Quorum \/ RolledBack]_vars
    <2> SUFFICES ASSUME GateInv, Next, Opens PROVE Quorum \/ RolledBack
      BY DEF vars, IsClosed
    <2> USE DEF GateInv, IsClosed
    <2>1. ASSUME NEW t \in Thread, CloseGate(t) PROVE FALSE
      BY <2>1 DEF CloseGate, Close, TypeOK, Gate
    <2>2. ASSUME NEW t \in Thread, LoadPropagation(t) PROVE FALSE
      BY <2>2 DEF LoadPropagation
    <2>3. ASSUME NEW t \in Thread, StorePropagation(t) PROVE FALSE
      BY <2>3 DEF StorePropagation, TypeOK, Gate
    <2>4. ASSUME NEW t \in Thread, NEW n \in Node, Ack(t, n) PROVE FALSE
      BY <2>4 DEF Ack, RecordAck, TypeOK, Gate
    <2>5. ASSUME NEW t \in Thread, NEW n \in Node, LoadVote(t, n) PROVE FALSE
      BY <2>5 DEF LoadVote
    <2>6. ASSUME NEW t \in Thread, CountVote(t) PROVE Quorum
      <3>1. PICK voter \in ballot[t] :
               pc[t] = "vote" /\ gate' = CastVote(gate, voter, ClusterSize)
        BY <2>6 DEF CountVote
      <3>2. voter \in Node /\ ballot[t] \in SUBSET Node /\ gate.votes \in SUBSET Node
        BY <3>1 DEF TypeOK, Gate
      <3>3. gate.required \in Nat /\ (gate.required # 0 => gate.state # "Normal")
        BY DEF TypeOK, Gate, VoteShortOfQuorum
      <3>4. Cardinality(gate.votes \union {voter}) >= EffectiveQuorum(ClusterSize)
        BY <3>1, <3>2, <3>3, CastVoteEffect
      <3>5. /\ gate.votes \union {voter} \in SUBSET (voters \union ballot[t])
            /\ voters \union ballot[t] \in SUBSET Node
        BY <3>1, <3>2
      <3>6. /\ Cardinality(gate.votes \union {voter})
                 <= Cardinality(voters \union ballot[t])
            /\ Cardinality(gate.votes \union {voter}) \in Nat
            /\ Cardinality(voters \union ballot[t]) \in Nat
        BY <3>2, <3>5, VotersFinite, FS_Subset
      <3>7. Cardinality(voters \union ballot[t]) >= EffectiveQuorum(ClusterSize)
        BY <3>4, <3>6, QuorumPositive
      <3> QED
        BY <3>1, <3>7
    <2>7. CASE Capture \/ Succeed \/ Restore
      BY <2>7 DEF Capture, Succeed, Restore
    <2> QED
      BY <2>1, <2>2, <2>3, <2>4, <2>5, <2>6, <2>7 DEF Next
  <1> QED
    BY <1>1, GateInvariant, PTL DEF Spec, OpensOnlyByQuorum

-------------------------------------------------------------------------------
(***************************************************************************)
(* The cluster.                                                            *)
(***************************************************************************)

\* Acks speak the truth: one in flight comes from another node, whose gate is
\* closed unless that node may reopen it.
AcksTruthful ==
    \A m \in net :
        /\ m.type \in {"close", "ack"} => m.from # m.to
        /\ m.type = "ack" /\ m.from \notin Reopenable => IsClosed(gates[m.from])

\* So do the acks a gate has recorded, and a Confirmed gate has all of them.
AcksComplete ==
    \A n \in Node :
        /\ gates[n].acked \subseteq Peers(n)
        /\ \A p \in gates[n].acked : p \notin Reopenable => IsClosed(gates[p])
        /\ gates[n].state = "Confirmed" => gates[n].acked = Peers(n)

\* And those in the copy of a safety request.
CopiesComplete ==
    \A n \in Node : \A g \in copies[n] :
        /\ n \in RollsBack
        /\ g.acked \subseteq Peers(n)
        /\ \A p \in g.acked : p \notin Reopenable => IsClosed(gates[p])
        /\ g.state = "Confirmed" => g.acked = Peers(n)
        /\ g.votes \subseteq voted
        /\ g.required \in {0, EffectiveQuorum(cluster_size)}

\* A vote in flight or counted was broadcast by its voter, and a running tracker
\* asks for the configured quorum.
VotesGenuine ==
    /\ \A m \in net : m.type = "vote" => m.from \in voted
    /\ \A n \in Node :
        /\ gates[n].votes \subseteq voted
        /\ gates[n].required \in {0, EffectiveQuorum(cluster_size)}

\* The inductive invariant.
ClusterInv == ClusterTypeOK /\ AcksTruthful /\ AcksComplete /\ VotesGenuine /\ CopiesComplete

------------------------------------------------------------------------------
LEMMA ClusterSizeType == cluster_size \in Nat
  BY NodeAssumption, FS_CardinalityType DEF cluster_size

\* effective_quorum answers a number.
LEMMA ClusterQuorumType == EffectiveQuorum(cluster_size) \in Nat
  BY QuorumSizeAssumption, ClusterSizeType DEF EffectiveQuorum

\* cluster_size - 1 distinct acks from other nodes are the acks of all peers.
LEMMA AllPeersAcked ==
  ASSUME NEW n \in Node, NEW acks \in SUBSET Peers(n),
         Cardinality(acks) + 1 >= cluster_size
  PROVE  acks = Peers(n)
  <1>1. IsFiniteSet(Peers(n)) /\ Cardinality(Peers(n)) = cluster_size - 1
    BY NodeAssumption, FS_RemoveElement DEF Peers, cluster_size
  <1>2. /\ Cardinality(acks) \in Nat /\ Cardinality(Peers(n)) \in Nat
        /\ Cardinality(acks) <= Cardinality(Peers(n))
        /\ Cardinality(Peers(n)) = Cardinality(acks) => Peers(n) = acks
    BY <1>1, FS_Subset, FS_CardinalityType
  <1> QED
    BY <1>1, <1>2, ClusterSizeType

\* What closing and propagating does to a gate.
LEMMA CloseEffect ==
  ASSUME NEW g \in Gate
  PROVE  /\ Close(g) \in Gate /\ BeginPropagation(Close(g)) \in Gate
         /\ Close(g).state = "GateClosed" /\ BeginPropagation(Close(g)).state = "Propagating"
         /\ Close(g).acked = {} /\ BeginPropagation(Close(g)).acked = {}
         /\ Close(g).votes = g.votes /\ BeginPropagation(Close(g)).votes = g.votes
         /\ Close(g).required = g.required /\ BeginPropagation(Close(g)).required = g.required
  <1>1. /\ Close(g) \in Gate /\ Close(g).state = "GateClosed" /\ Close(g).acked = {}
        /\ Close(g).votes = g.votes /\ Close(g).required = g.required
    BY DEF Close, Gate, GateState
  <1> HIDE DEF Close
  <1>2. BeginPropagation(Close(g)) = [Close(g) EXCEPT !.state = "Propagating"]
    BY <1>1 DEF BeginPropagation
  <1> QED
    BY <1>1, <1>2 DEF Gate, GateState

\* What an ack does to a gate.
LEMMA RecordAckEffect ==
  ASSUME NEW g \in Gate, NEW peer \in Node
  PROVE  LET h == RecordAck(g, peer, cluster_size)
         IN  /\ h \in Gate
             /\ h.acked = g.acked \union {peer}
             /\ h.votes = g.votes /\ h.required = g.required
             /\ \/ h.state = g.state
                \/ h.state = "Confirmed" /\ Cardinality(h.acked) + 1 >= cluster_size
  <1> DEFINE acks == g.acked \union {peer}
             next == IF Cardinality(acks) + 1 >= cluster_size THEN "Confirmed" ELSE g.state
  <1>1. RecordAck(g, peer, cluster_size) = [g EXCEPT !.acked = acks, !.state = next]
    BY DEF RecordAck
  <1>2. acks \in SUBSET Node /\ next \in GateState
    BY DEF Gate, GateState
  <1>3. next = g.state \/ (next = "Confirmed" /\ Cardinality(acks) + 1 >= cluster_size)
    OBVIOUS
  <1> HIDE DEF acks, next
  <1> QED
    BY <1>1, <1>2, <1>3 DEF Gate, acks

\* What a vote does to a gate: the gate of before with one voter more, still
\* closed if it was, or a new gate when the votes are a quorum.
LEMMA VoteEffect ==
  ASSUME NEW g \in Gate, NEW voter \in Node,
         g.required \in {0, EffectiveQuorum(cluster_size)}
  PROVE  LET h == CastVote(g, voter, cluster_size)
         IN  /\ h \in Gate
             /\ \/ /\ h = NewGate
                   /\ Cardinality(g.votes \union {voter}) >= EffectiveQuorum(cluster_size)
                \/ /\ h.votes = g.votes \union {voter} /\ h.acked = g.acked
                   /\ h.required = EffectiveQuorum(cluster_size)
                   /\ h.state \in {g.state, "QuorumResume"}
  <1> DEFINE required == IF g.required = 0 THEN EffectiveQuorum(cluster_size) ELSE g.required
             votes == g.votes \union {voter}
             next == IF g.required = 0 THEN "QuorumResume" ELSE g.state
  <1>1. CastVote(g, voter, cluster_size) =
           IF Cardinality(votes) >= required THEN NewGate
           ELSE [g EXCEPT !.state = next, !.required = required, !.votes = votes]
    BY DEF CastVote
  <1>2. required = EffectiveQuorum(cluster_size) /\ required \in Nat
    BY ClusterQuorumType
  <1>3. votes \in SUBSET Node /\ next \in GateState /\ next \in {g.state, "QuorumResume"}
    BY DEF Gate, GateState
  <1>4. NewGate \in Gate
    BY DEF NewGate, Gate, GateState
  <1> HIDE DEF required, votes, next
  <1>5. CASE Cardinality(votes) >= required
    BY <1>1, <1>2, <1>4, <1>5 DEF votes
  <1>6. CASE ~(Cardinality(votes) >= required)
    BY <1>1, <1>2, <1>3, <1>6 DEF Gate, votes
  <1> QED
    BY <1>5, <1>6

------------------------------------------------------------------------------
LEMMA InitClusterInv == ClusterInit => ClusterInv
  <1> SUFFICES ASSUME ClusterInit PROVE ClusterInv
    OBVIOUS
  <1>1. ClusterTypeOK
    BY MaxClosesAssumption DEF ClusterInit, ClusterTypeOK, NewGate, Gate, GateState
  <1> QED
    BY <1>1 DEF ClusterInit, ClusterInv, NewGate, AcksTruthful, AcksComplete, VotesGenuine,
                CopiesComplete

\* Copies stay sound as long as gates that cannot reopen stay closed.
LEMMA CopiesKept ==
  ASSUME ClusterTypeOK, CopiesComplete, UNCHANGED copies, voted \subseteq voted',
         \A p \in Node \ Reopenable : IsClosed(gates[p]) => IsClosed(gates'[p])
  PROVE  CopiesComplete'
  <1> SUFFICES ASSUME NEW n \in Node, NEW g \in copies[n]
               PROVE  /\ n \in RollsBack
                      /\ g.acked \subseteq Peers(n)
                      /\ \A p \in g.acked : p \notin Reopenable => IsClosed(gates'[p])
                      /\ g.state = "Confirmed" => g.acked = Peers(n)
                      /\ g.votes \subseteq voted'
                      /\ g.required \in {0, EffectiveQuorum(cluster_size)}
    BY DEF CopiesComplete, Peers
  <1>1. Peers(n) \subseteq Node
    BY DEF Peers
  <1> QED
    BY <1>1 DEF CopiesComplete

LEMMA NextClusterInv == ClusterInv /\ [ClusterNext]_clusterVars => ClusterInv'
  <1> SUFFICES ASSUME ClusterInv, [ClusterNext]_clusterVars PROVE ClusterInv'
    OBVIOUS
  <1> USE DEF ClusterInv
  <1>g. \A n \in Node : gates[n] \in Gate
    BY DEF ClusterTypeOK
  <1>1. ASSUME NEW n \in Node, CloseAndPropagate(n) PROVE ClusterInv'
    <2> DEFINE h == BeginPropagation(Close(gates[n]))
    <2>1. /\ h \in Gate /\ h.state = "Propagating" /\ h.acked = {}
          /\ h.votes = gates[n].votes /\ h.required = gates[n].required
      BY <1>g, CloseEffect
    <2>2. /\ gates' = [gates EXCEPT ![n] = h] /\ UNCHANGED <<copies, voted>>
          /\ net' = net \union {[type |-> "close", from |-> n, to |-> p] : p \in Peers(n)}
          /\ closes[n] < MaxCloses /\ closes' = [closes EXCEPT ![n] = @ + 1]
      BY <1>1 DEF CloseAndPropagate
    <2> HIDE DEF h
    <2>3. ClusterTypeOK'
      BY <2>1, <2>2, MaxClosesAssumption DEF ClusterTypeOK, Message, Peers
    <2>4. \A p \in Node : gates'[p] = IF p = n THEN h ELSE gates[p]
      BY <2>2 DEF ClusterTypeOK
    <2>5. \A p \in Node : IsClosed(gates[p]) => IsClosed(gates'[p])
      BY <2>1, <2>4 DEF IsClosed
    <2>6. AcksTruthful'
      BY <2>2, <2>5 DEF AcksTruthful, ClusterTypeOK, Message, Peers
    <2>7. AcksComplete'
      BY <2>1, <2>4, <2>5, <1>g DEF AcksComplete, Gate
    <2>8. VotesGenuine'
      BY <2>1, <2>2, <2>4 DEF VotesGenuine
    <2>c. CopiesComplete'
      BY <2>2, <2>5, CopiesKept
    <2> QED
      BY <2>3, <2>6, <2>7, <2>8, <2>c
  <1>2. ASSUME NEW n \in Node, BroadcastVote(n) PROVE ClusterInv'
    <2>1. ClusterTypeOK'
      BY <1>2 DEF BroadcastVote, ClusterTypeOK, Message
    <2>2. AcksTruthful' /\ AcksComplete' /\ VotesGenuine'
      BY <1>2 DEF BroadcastVote, AcksTruthful, AcksComplete, VotesGenuine, IsClosed
    <2>3. CopiesComplete'
      BY <1>2, CopiesKept DEF BroadcastVote
    <2> QED
      BY <2>1, <2>2, <2>3
  <1>3. ASSUME NEW m \in net, ReceiveClose(m) PROVE ClusterInv'
    <2> DEFINE h == IF IsClosed(gates[m.to]) THEN gates[m.to] ELSE Close(gates[m.to])
               ack == [type |-> "ack", from |-> m.to, to |-> m.from]
    <2>m. m \in Message /\ m.type = "close" /\ m.to \in Node /\ m.from \in Node /\ m.to # m.from
      BY <1>3 DEF ReceiveClose, ClusterTypeOK, Message, AcksTruthful
    <2>1. /\ h \in Gate /\ IsClosed(h)
          /\ h.votes = gates[m.to].votes /\ h.required = gates[m.to].required
          /\ h = gates[m.to] \/ (h.acked = {} /\ h.state = "GateClosed")
      BY <1>g, <2>m, CloseEffect DEF IsClosed
    <2>2. /\ gates' = [gates EXCEPT ![m.to] = h] /\ UNCHANGED <<copies, closes, voted>>
          /\ net' \subseteq net \union {ack}
      BY <1>3 DEF ReceiveClose, Rest
    <2> HIDE DEF h
    <2>3. ClusterTypeOK'
      BY <2>1, <2>2, <2>m DEF ClusterTypeOK, Message
    <2>4. \A p \in Node : gates'[p] = IF p = m.to THEN h ELSE gates[p]
      BY <2>2 DEF ClusterTypeOK
    <2>5. \A p \in Node : IsClosed(gates[p]) => IsClosed(gates'[p])
      BY <2>1, <2>4
    <2>6. AcksTruthful'
      BY <2>1, <2>2, <2>4, <2>5, <2>m DEF AcksTruthful, ClusterTypeOK, Message
    <2>7. AcksComplete'
      BY <2>1, <2>4, <2>5, <1>g DEF AcksComplete, Gate
    <2>8. VotesGenuine'
      BY <2>1, <2>2, <2>4 DEF VotesGenuine
    <2>c. CopiesComplete'
      BY <2>2, <2>5, CopiesKept
    <2> QED
      BY <2>3, <2>6, <2>7, <2>8, <2>c
  <1>4. ASSUME NEW m \in net, ReceiveAck(m) PROVE ClusterInv'
    <2> DEFINE h == RecordAck(gates[m.to], m.from, cluster_size)
    <2>m. m \in Message /\ m.type = "ack" /\ m.to \in Node /\ m.from \in Node /\ m.to # m.from
      BY <1>4 DEF ReceiveAck, ClusterTypeOK, Message, AcksTruthful
    <2>1. /\ h \in Gate /\ h.acked = gates[m.to].acked \union {m.from}
          /\ h.votes = gates[m.to].votes /\ h.required = gates[m.to].required
          /\ \/ h.state = gates[m.to].state
             \/ h.state = "Confirmed" /\ Cardinality(h.acked) + 1 >= cluster_size
      BY <1>g, <2>m, RecordAckEffect
    <2>2. /\ gates' = [gates EXCEPT ![m.to] = h] /\ UNCHANGED <<copies, closes, voted>>
          /\ net' \subseteq net
      BY <1>4 DEF ReceiveAck, Rest
    <2> HIDE DEF h
    <2>3. ClusterTypeOK'
      BY <2>1, <2>2, <2>m DEF ClusterTypeOK
    <2>4. \A p \in Node : gates'[p] = IF p = m.to THEN h ELSE gates[p]
      BY <2>2 DEF ClusterTypeOK
    <2>5. \A p \in Node : IsClosed(gates[p]) => IsClosed(gates'[p])
      BY <2>1, <2>4 DEF IsClosed
    <2>6. AcksTruthful'
      BY <2>2, <2>5 DEF AcksTruthful, ClusterTypeOK, Message
    <2>7. h.acked \subseteq Peers(m.to)
      BY <2>1, <2>m DEF AcksComplete, Peers
    <2>8. h.state = "Confirmed" => h.acked = Peers(m.to)
      <3>1. CASE h.state = gates[m.to].state
        BY <3>1, <2>1, <2>7, <2>m DEF AcksComplete
      <3>2. CASE Cardinality(h.acked) + 1 >= cluster_size
        BY <3>2, <2>7, <2>m, AllPeersAcked
      <3> QED
        BY <3>1, <3>2, <2>1
    <2>9. \A p \in h.acked : p \notin Reopenable => IsClosed(gates[p])
      BY <2>1, <2>m DEF AcksComplete, AcksTruthful
    <2>10. AcksComplete'
      <3> SUFFICES ASSUME NEW n \in Node
                   PROVE  /\ gates'[n].acked \subseteq Peers(n)
                          /\ \A p \in gates'[n].acked : p \notin Reopenable => IsClosed(gates'[p])
                          /\ gates'[n].state = "Confirmed" => gates'[n].acked = Peers(n)
        BY DEF AcksComplete, Peers
      <3>1. Peers(n) \subseteq Node
        BY DEF Peers
      <3>2. CASE n = m.to
        BY <3>1, <3>2, <2>4, <2>5, <2>7, <2>8, <2>9
      <3>3. CASE n # m.to
        BY <3>1, <3>3, <2>4, <2>5 DEF AcksComplete
      <3> QED
        BY <3>2, <3>3
    <2>11. VotesGenuine'
      BY <2>1, <2>2, <2>4 DEF VotesGenuine
    <2>12. CopiesComplete'
      BY <2>2, <2>5, CopiesKept
    <2> QED
      BY <2>3, <2>6, <2>10, <2>11, <2>12
  <1>5. ASSUME NEW m \in net, ReceiveVote(m) PROVE ClusterInv'
    <2> DEFINE h == IF m.to \in Resumable /\ IsClosed(gates[m.to])
                    THEN CastVote(gates[m.to], m.from, cluster_size) ELSE gates[m.to]
    <2>m. m \in Message /\ m.type = "vote" /\ m.to \in Node /\ m.from \in Node /\ m.from \in voted
      BY <1>5 DEF ReceiveVote, ClusterTypeOK, Message, VotesGenuine
    <2>r. gates[m.to] \in Gate /\ gates[m.to].required \in {0, EffectiveQuorum(cluster_size)}
      BY <1>g, <2>m DEF VotesGenuine
    <2>1. /\ h \in Gate
          /\ m.to \notin Resumable => h = gates[m.to]
          /\ \/ h = gates[m.to]
             \/ h = NewGate
             \/ /\ h.votes = gates[m.to].votes \union {m.from} /\ h.acked = gates[m.to].acked
                /\ h.required = EffectiveQuorum(cluster_size)
                /\ h.state \in {gates[m.to].state, "QuorumResume"}
      BY <2>m, <2>r, VoteEffect
    <2>2. /\ gates' = [gates EXCEPT ![m.to] = h] /\ UNCHANGED <<copies, closes, voted>>
          /\ net' \subseteq net
      BY <1>5 DEF ReceiveVote, Rest
    <2> HIDE DEF h
    <2>3. ClusterTypeOK'
      BY <2>1, <2>2, <2>m DEF ClusterTypeOK
    <2>4. \A p \in Node : gates'[p] = IF p = m.to THEN h ELSE gates[p]
      BY <2>2 DEF ClusterTypeOK
    <2>5. \A p \in Node \ Reopenable : gates'[p] = gates[p]
      BY <2>1, <2>4 DEF Reopenable
    <2>6. AcksTruthful'
      BY <2>2, <2>5 DEF AcksTruthful, ClusterTypeOK, Message
    <2>7. /\ h.acked \in {{}, gates[m.to].acked}
          /\ h.state = "Confirmed" => gates[m.to].state = "Confirmed" /\ h.acked = gates[m.to].acked
      BY <2>1 DEF NewGate
    <2>8. AcksComplete'
      <3> SUFFICES ASSUME NEW n \in Node
                   PROVE  /\ gates'[n].acked \subseteq Peers(n)
                          /\ \A p \in gates'[n].acked : p \notin Reopenable => IsClosed(gates'[p])
                          /\ gates'[n].state = "Confirmed" => gates'[n].acked = Peers(n)
        BY DEF AcksComplete, Peers
      <3>1. Peers(n) \subseteq Node
        BY DEF Peers
      <3>2. CASE n = m.to
        BY <3>1, <3>2, <2>4, <2>5, <2>7 DEF AcksComplete
      <3>3. CASE n # m.to
        BY <3>1, <3>3, <2>4, <2>5 DEF AcksComplete
      <3> QED
        BY <3>2, <3>3
    <2>9. VotesGenuine'
      <3>1. /\ h.votes \subseteq voted
            /\ h.required \in {0, EffectiveQuorum(cluster_size)}
        BY <2>1, <2>m, <2>r DEF VotesGenuine, NewGate
      <3> QED
        BY <3>1, <2>2, <2>4 DEF VotesGenuine
    <2>10. CopiesComplete'
      BY <2>2, <2>5, CopiesKept
    <2> QED
      BY <2>3, <2>6, <2>8, <2>9, <2>10
  <1>6. CASE UNCHANGED clusterVars
    <2>1. CopiesComplete'
      BY <1>6, CopiesKept DEF clusterVars
    <2> QED
      BY <1>6, <2>1
      DEF clusterVars, ClusterTypeOK, AcksTruthful, AcksComplete, VotesGenuine, IsClosed
  <1>7. ASSUME NEW n \in Node, CopyGate(n) \/ KeepOutcome(n) PROVE ClusterInv'
    <2>1. UNCHANGED <<gates, net, closes, voted>>
      BY <1>7 DEF CopyGate, KeepOutcome
    <2>2. ClusterTypeOK'
      BY <1>7, <1>g DEF CopyGate, KeepOutcome, ClusterTypeOK
    <2>3. AcksTruthful' /\ AcksComplete' /\ VotesGenuine'
      BY <2>1 DEF AcksTruthful, AcksComplete, VotesGenuine, IsClosed
    <2>4. ASSUME NEW p \in Node, NEW g \in copies'[p]
          PROVE  g \in copies[p] \/ (p = n /\ n \in RollsBack /\ g = gates[n])
      BY <1>7, <2>4 DEF CopyGate, KeepOutcome, ClusterTypeOK
    <2>5. CopiesComplete'
      BY <2>1, <2>4 DEF CopiesComplete, AcksComplete, VotesGenuine, IsClosed
    <2> QED
      BY <2>2, <2>3, <2>5
  <1>8. ASSUME NEW n \in Node, RestoreCopy(n) PROVE ClusterInv'
    <2>1. PICK h \in copies[n] :
             /\ gates' = [gates EXCEPT ![n] = h] /\ copies' = [copies EXCEPT ![n] = {}]
             /\ UNCHANGED <<net, closes, voted>>
      BY <1>8 DEF RestoreCopy
    <2>2. /\ h \in Gate /\ n \in RollsBack /\ h.acked \subseteq Peers(n)
          /\ \A p \in h.acked : p \notin Reopenable => IsClosed(gates[p])
          /\ h.state = "Confirmed" => h.acked = Peers(n)
          /\ h.votes \subseteq voted /\ h.required \in {0, EffectiveQuorum(cluster_size)}
      BY <2>1 DEF ClusterTypeOK, CopiesComplete
    <2>3. ClusterTypeOK'
      BY <2>1, <2>2 DEF ClusterTypeOK
    <2>4. /\ \A p \in Node : gates'[p] = IF p = n THEN h ELSE gates[p]
          /\ \A p \in Node : copies'[p] \subseteq copies[p]
      BY <2>1 DEF ClusterTypeOK
    <2>5. \A p \in Node \ Reopenable : gates'[p] = gates[p]
      BY <2>2, <2>4 DEF Reopenable
    <2>6. AcksTruthful'
      BY <2>1, <2>5 DEF AcksTruthful, ClusterTypeOK, Message
    <2>7. AcksComplete'
      <3> SUFFICES ASSUME NEW q \in Node
                   PROVE  /\ gates'[q].acked \subseteq Peers(q)
                          /\ \A p \in gates'[q].acked : p \notin Reopenable => IsClosed(gates'[p])
                          /\ gates'[q].state = "Confirmed" => gates'[q].acked = Peers(q)
        BY DEF AcksComplete, Peers
      <3>1. Peers(q) \subseteq Node
        BY DEF Peers
      <3>2. CASE q = n
        BY <3>1, <3>2, <2>2, <2>4, <2>5
      <3>3. CASE q # n
        BY <3>1, <3>3, <2>4, <2>5 DEF AcksComplete
      <3> QED
        BY <3>2, <3>3
    <2>8. VotesGenuine'
      BY <2>1, <2>2, <2>4 DEF VotesGenuine
    <2>9. CopiesComplete'
      <3> SUFFICES ASSUME NEW q \in Node, NEW g \in copies[q]
                   PROVE  /\ q \in RollsBack
                          /\ g.acked \subseteq Peers(q)
                          /\ \A p \in g.acked : p \notin Reopenable => IsClosed(gates'[p])
                          /\ g.state = "Confirmed" => g.acked = Peers(q)
                          /\ g.votes \subseteq voted'
                          /\ g.required \in {0, EffectiveQuorum(cluster_size)}
        BY <2>4 DEF CopiesComplete, Peers
      <3>1. Peers(q) \subseteq Node
        BY DEF Peers
      <3> QED
        BY <3>1, <2>1, <2>5 DEF CopiesComplete
    <2> QED
      BY <2>3, <2>6, <2>7, <2>8, <2>9
  <1> QED
    BY <1>1, <1>2, <1>3, <1>4, <1>5, <1>6, <1>7, <1>8 DEF ClusterNext, Receive

LEMMA ClusterInvariant == ClusterSpec => []ClusterInv
  BY InitClusterInv, NextClusterInv, PTL DEF ClusterSpec

------------------------------------------------------------------------------
\* Gates, messages, counters and the vote history keep their types (ClusterTypeOK).
THEOREM ClusterTypeCorrect == ClusterSpec => []ClusterTypeOK
  <1>1. ClusterInv => ClusterTypeOK
    BY DEF ClusterInv
  <1> QED
    BY <1>1, ClusterInvariant, PTL

\* In every cluster, under loss, reordering and duplication, a Confirmed gate
\* (record_ack has counted cluster_size - 1 acks) means that every node that
\* can neither be resumed nor roll back has its gate closed.
THEOREM ClusterConfirmed == ClusterSpec => []ConfirmedMeansAllClosed
  <1>1. ClusterInv => ConfirmedMeansAllClosed
    <2> SUFFICES ASSUME ClusterInv, NEW n \in Node, gates[n].state = "Confirmed",
                        NEW p \in Node \ Reopenable
                 PROVE  IsClosed(gates[p])
      BY DEF ConfirmedMeansAllClosed
    <2>1. CASE p = n
      BY <2>1 DEF IsClosed
    <2>2. CASE p # n
      BY <2>2 DEF ClusterInv, AcksComplete, Peers
    <2> QED
      BY <2>1, <2>2
  <1> QED
    BY <1>1, ClusterInvariant, PTL

\* What a step may do to a gate: keep it closed, open it by a vote at a node that may
\* be resumed when a quorum has voted, or restore a copy of it.
LEMMA OpeningStep ==
  ASSUME ClusterInv, [ClusterNext]_clusterVars, NEW n \in Node,
         IsClosed(gates[n]), ~IsClosed(gates'[n])
  PROVE  \/ n \in Resumable /\ Cardinality(voted) >= EffectiveQuorum(cluster_size)
         \/ n \in RollsBack /\ gates'[n] \in copies[n] /\ copies'[n] = {}
  <1> USE DEF ClusterInv
  <1>g. \A p \in Node : gates[p] \in Gate
    BY DEF ClusterTypeOK
  <1>1. ASSUME NEW p \in Node, CloseAndPropagate(p) PROVE FALSE
    BY <1>1, <1>g, CloseEffect DEF CloseAndPropagate, IsClosed, ClusterTypeOK
  <1>2. ASSUME NEW p \in Node, BroadcastVote(p) PROVE FALSE
    BY <1>2 DEF BroadcastVote
  <1>3. ASSUME NEW m \in net, ReceiveClose(m) PROVE FALSE
    BY <1>3, <1>g, CloseEffect DEF ReceiveClose, IsClosed, ClusterTypeOK, Message
  <1>4. ASSUME NEW m \in net, ReceiveAck(m) PROVE FALSE
    <2>1. m.to \in Node /\ m.from \in Node
      BY DEF ClusterTypeOK, Message
    <2>2. RecordAck(gates[m.to], m.from, cluster_size).state \in {gates[m.to].state, "Confirmed"}
      BY <2>1, <1>g, RecordAckEffect
    <2> QED
      BY <1>4, <2>1, <2>2 DEF ReceiveAck, IsClosed, ClusterTypeOK
  <1>5. ASSUME NEW m \in net, ReceiveVote(m)
        PROVE  n \in Resumable /\ Cardinality(voted) >= EffectiveQuorum(cluster_size)
    <2>1. m.to \in Node /\ m.from \in Node /\ m.from \in voted
      BY <1>5 DEF ReceiveVote, ClusterTypeOK, Message, VotesGenuine
    <2>2. /\ n = m.to /\ n \in Resumable
          /\ gates'[n] = CastVote(gates[n], m.from, cluster_size)
      BY <1>5, <2>1 DEF ReceiveVote, ClusterTypeOK
    <2>3. gates[n].required \in {0, EffectiveQuorum(cluster_size)} /\ gates[n] \in Gate
      BY <1>g DEF VotesGenuine
    <2> DEFINE votes == gates[n].votes \union {m.from}
    <2>4. Cardinality(votes) >= EffectiveQuorum(cluster_size)
      BY <2>1, <2>2, <2>3, VoteEffect DEF IsClosed
    <2>5. votes \subseteq voted /\ votes \in SUBSET Node /\ voted \in SUBSET Node
      BY <2>1, <2>3 DEF VotesGenuine, ClusterTypeOK, Gate
    <2>6. Cardinality(votes) \in Nat /\ Cardinality(voted) \in Nat
          /\ Cardinality(votes) <= Cardinality(voted)
      BY <2>5, VotersFinite, FS_Subset
    <2> QED
      BY <2>2, <2>4, <2>6, ClusterQuorumType
  <1>6. CASE UNCHANGED clusterVars
    BY <1>6 DEF clusterVars
  <1>7. ASSUME NEW p \in Node, CopyGate(p) \/ KeepOutcome(p) PROVE FALSE
    BY <1>7 DEF CopyGate, KeepOutcome
  <1>8. ASSUME NEW p \in Node, RestoreCopy(p)
        PROVE  n \in RollsBack /\ gates'[n] \in copies[n] /\ copies'[n] = {}
    <2>1. p = n
      BY <1>8 DEF RestoreCopy, ClusterTypeOK
    <2> QED
      BY <1>8, <2>1 DEF RestoreCopy, ClusterTypeOK, CopiesComplete
  <1> QED
    BY <1>1, <1>2, <1>3, <1>4, <1>5, <1>6, <1>7, <1>8 DEF ClusterNext, Receive

\* Whatever process_message is handed and in whatever order, no gate opens before
\* effective_quorum distinct nodes have broadcast a resume vote, and only where
\* membership is authenticated, but for the rollback of the node's own request.
THEOREM ClusterOpensOnlyByQuorum == ClusterSpec => OpensOnlyByClusterQuorum
  <1>1. ClusterInv /\ [ClusterNext]_clusterVars =>
            [\A n \in Node : IsClosed(gates[n]) /\ ~IsClosed(gates'[n]) =>
                \/ n \in Resumable /\ Cardinality(voted) >= EffectiveQuorum(cluster_size)
                \/ gates'[n] \in copies[n] /\ copies'[n] = {}]_clusterVars
    BY OpeningStep
  <1> QED
    BY <1>1, ClusterInvariant, PTL DEF ClusterSpec, OpensOnlyByClusterQuorum

\* The kill of a node that can neither be resumed nor roll back holds from its first
\* close on.
KillHolds == \A n \in Node \ Reopenable : closes[n] > 0 => IsClosed(gates[n])

\* Whatever messages of this or of other closures, acks and votes arrive, a node
\* without authenticated membership that has called close_and_propagate stays
\* closed for good unless one of its own requests rolls back.
THEOREM ClusterKillHolds == ClusterSpec => []KillHolds
  <1>1. ClusterInit => KillHolds
    BY DEF ClusterInit, KillHolds
  <1>2. ClusterInv /\ KillHolds /\ [ClusterNext]_clusterVars => KillHolds'
    <2> SUFFICES ASSUME ClusterInv, KillHolds, [ClusterNext]_clusterVars,
                        NEW n \in Node \ Reopenable, closes'[n] > 0
                 PROVE  IsClosed(gates'[n])
      BY DEF KillHolds
    <2>1. CASE closes[n] > 0
      BY <2>1, OpeningStep DEF KillHolds, Reopenable
    <2>2. CASE ~(closes[n] > 0)
      <3>1. PICK p \in Node : CloseAndPropagate(p)
        BY <2>2 DEF ClusterNext, Receive, BroadcastVote, ReceiveClose, ReceiveAck, ReceiveVote,
                    CopyGate, KeepOutcome, RestoreCopy, clusterVars
      <3>2. CloseAndPropagate(n)
        <4>1. p # n => closes'[n] = closes[n]
          BY <3>1 DEF CloseAndPropagate, ClusterInv, ClusterTypeOK
        <4> QED
          BY <2>2, <3>1, <4>1
      <3>3. gates[n] \in Gate /\ gates'[n] = BeginPropagation(Close(gates[n]))
        BY <3>2 DEF CloseAndPropagate, ClusterInv, ClusterTypeOK
      <3> QED
        BY <3>3, CloseEffect DEF IsClosed
    <2> QED
      BY <2>1, <2>2
  <1> QED
    BY <1>1, <1>2, ClusterInvariant, PTL DEF ClusterSpec
==============================================================================
