---------------------------- MODULE KillGateCluster ----------------------------
(***************************************************************************)
(* The gates of a cluster, each behind the relay of its node.  The relay's   *)
(* process_message takes &mut self, so a message is handled in one step.     *)
(*                                                                         *)
(* The transport is not part of the repository (close_and_propagate builds   *)
(* the notification and leaves the sending to "the transport layer"), so it  *)
(* is modelled by what the relay tolerates: messages may be lost (never      *)
(* delivered), reordered and, with Duplicates, delivered again.  Membership  *)
(* is complete: every node has every other node as a peer.                   *)
(*                                                                         *)
(* A safety request of a node's gateway copies the gate first and restores   *)
(* the copy when it fails (KillGate.tla), at the nodes where requests fail.  *)
(***************************************************************************)
EXTENDS KillGateOps

CONSTANTS Resumable,   \* the nodes with authenticated_cluster_membership configured
          RollsBack,   \* the nodes where a safety request may fail and roll back
          Duplicates,  \* may the transport deliver a message more than once
          MaxCloses,   \* bound: local closes per node
          Voters       \* bound: the nodes whose operators vote

ASSUME ResumableAssumption == Resumable \subseteq Node
ASSUME RollsBackAssumption == RollsBack \subseteq Node
ASSUME DuplicatesAssumption == Duplicates \in BOOLEAN
ASSUME MaxClosesAssumption == MaxCloses \in Nat

VARIABLES gates,   \* gates[n]: the gate of node n
          net,     \* messages in flight
          copies,  \* copies[n]: the copy of the gate that a safety request of n holds
          closes,  \* closes[n]: local closes of n so far (also bounds them)
          voted    \* who has broadcast a resume vote

clusterVars == <<gates, net, copies, closes, voted>>

Peers(n) == Node \ {n}
cluster_size == Cardinality(Node)

\* The chain event in a CloseNotification and the chain head in a CloseAck are
\* never read, so that messages of different closures look the same.
Message == [type : {"close", "ack", "vote"}, from : Node, to : Node]

ClusterTypeOK ==
    /\ gates \in [Node -> Gate]
    /\ net \in SUBSET Message
    /\ copies \in [Node -> SUBSET Gate]
    /\ closes \in [Node -> 0..MaxCloses]
    /\ voted \in SUBSET Node

ClusterInit ==
    /\ gates = [n \in Node |-> NewGate]
    /\ net = {}
    /\ copies = [n \in Node |-> {}]
    /\ closes = [n \in Node |-> 0]
    /\ voted = {}

Rest(m) == IF Duplicates THEN net ELSE net \ {m}

\* KillGateBridge::close_and_propagate and the fan-out of its notification.
CloseAndPropagate(n) ==
    /\ closes[n] < MaxCloses
    /\ gates' = [gates EXCEPT ![n] = BeginPropagation(Close(@))]
    /\ closes' = [closes EXCEPT ![n] = @ + 1]
    /\ net' = net \union {[type |-> "close", from |-> n, to |-> p] : p \in Peers(n)}
    /\ UNCHANGED <<copies, voted>>

AckWithoutClosing(m) ==
    /\ m.type = "close"
    /\ net' = Rest(m) \union {[type |-> "ack", from |-> m.to, to |-> m.from]}
    /\ UNCHANGED <<gates, copies, closes, voted>>

\* process_message, CloseNotification: close unless closed, acknowledge always.
\* The gate is left in GateClosed and nothing is passed on.
ReceiveClose(m) ==
    /\ m.type = "close"
    /\ gates' = [gates EXCEPT ![m.to] = IF IsClosed(@) THEN @ ELSE Close(@)]
    /\ net' = Rest(m) \union {[type |-> "ack", from |-> m.to, to |-> m.from]}
    /\ UNCHANGED <<copies, closes, voted>>

\* process_message, CloseAck: delivered to the origin it names.
ReceiveAck(m) ==
    /\ m.type = "ack"
    /\ gates' = [gates EXCEPT ![m.to] = RecordAck(@, m.from, cluster_size)]
    /\ net' = Rest(m)
    /\ UNCHANGED <<copies, closes, voted>>

\* A node's operator votes: ResumeVoteBroadcast to the peers, and the node's
\* own gate counts the vote through the same call.
BroadcastVote(n) ==
    /\ n \in Voters \ voted
    /\ voted' = voted \union {n}
    /\ net' = net \union {[type |-> "vote", from |-> n, to |-> p] : p \in Node}
    /\ UNCHANGED <<gates, copies, closes>>

\* process_message, ResumeVoteBroadcast: dropped unless resume is permitted,
\* no effect on an open gate.
ReceiveVote(m) ==
    /\ m.type = "vote"
    /\ gates' = [gates EXCEPT ![m.to] = IF m.to \in Resumable /\ IsClosed(@)
                                      THEN CastVote(@, m.from, cluster_size) ELSE @]
    /\ net' = Rest(m)
    /\ UNCHANGED <<copies, closes, voted>>

\* execute_persisted_safety_mutation at a node: capture_kill_gate_state, then the
\* request (a close_and_propagate among them), then success or the rollback, which
\* overwrites whatever has come in between.
CopyGate(n) ==
    /\ n \in RollsBack
    /\ copies[n] = {}
    /\ copies' = [copies EXCEPT ![n] = {gates[n]}]
    /\ UNCHANGED <<gates, net, closes, voted>>

KeepOutcome(n) ==
    /\ copies[n] # {}
    /\ copies' = [copies EXCEPT ![n] = {}]
    /\ UNCHANGED <<gates, net, closes, voted>>

RestoreCopy(n) ==
    \E copy \in copies[n] :
        /\ gates' = [gates EXCEPT ![n] = copy]
        /\ copies' = [copies EXCEPT ![n] = {}]
        /\ UNCHANGED <<net, closes, voted>>

Receive(m) == ReceiveClose(m) \/ ReceiveAck(m) \/ ReceiveVote(m)

ClusterNext ==
    \/ \E n \in Node : CloseAndPropagate(n) \/ BroadcastVote(n)
    \/ \E n \in Node : CopyGate(n) \/ KeepOutcome(n) \/ RestoreCopy(n)
    \/ \E m \in net : Receive(m)

ClusterSpec == ClusterInit /\ [][ClusterNext]_clusterVars

--------------------------------------------------------------------------------
\* The nodes whose gate may open again: by a vote, or by a rollback.
Reopenable == Resumable \union RollsBack

\* A Confirmed gate speaks for the whole cluster: every node that can neither be
\* resumed nor roll back is closed.  Acks come from closed gates and those gates stay
\* closed, however the acks of successive closures are reordered or duplicated, and
\* whatever an opened gate or a restored copy says of them.
ConfirmedMeansAllClosed ==
    \A n \in Node : gates[n].state = "Confirmed" =>
        \A p \in Node \ Reopenable : IsClosed(gates[p])

\* A gate opens only by the rollback of its own node's request, or where membership
\* is authenticated and a quorum of the cluster has voted for it: acks, late or
\* duplicate notifications and the repeated votes of one node never add up to it,
\* even while other nodes resume.
OpensOnlyByClusterQuorum ==
    [][\A n \in Node : IsClosed(gates[n]) /\ ~IsClosed(gates'[n]) =>
            \/ n \in Resumable /\ Cardinality(voted) >= EffectiveQuorum(cluster_size)
            \/ gates'[n] \in copies[n] /\ copies'[n] = {}]_clusterVars
================================================================================
