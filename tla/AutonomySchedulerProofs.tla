------------------------ MODULE AutonomySchedulerProofs ------------------------
(***************************************************************************)
(* Proofs about the autonomy scheduler, for every set of jobs, agents and   *)
(* workers, every concurrency limit, and every number of due times, crashes *)
(* and failing writes.                                                      *)
(***************************************************************************)
EXTENDS AutonomyScheduler, FiniteSetTheorems, TLAPS

Busy == {w \in Worker : worker[w] # NoItem}

\* Before and at its side effect, a worker has performed none.
Unperformed == {"held", "pause", "quarantine", "quiet", "suppress", "pending", "expired",
                "mark", "effect", "blocked"}
\* The controls and the approval have let the run pass.
Admitted == {"mark", "effect", "ok", "error", "blocked"}

\* A run is dispatched by one item only, wherever that is.
OneItemPerRun ==
    /\ \A i, m \in 1..Len(channel) : channel[i].key = channel[m].key => i = m
    /\ \A v, w \in Busy : worker[v].item.key = worker[w].item.key => v = w
    /\ \A i \in 1..Len(channel), w \in Busy : channel[i].key # worker[w].item.key
    /\ \A it \in InFlightItems : run[it.key] # NoRun

\* What is selected has not been dispatched, and what could be selected neither:
\* a job leaves its due time behind, or its state, when it is dispatched.
SelectionIsFresh ==
    /\ held \notin picks
    /\ \A p \in picks \cup ({held} \ {NoPick}) : run[p] = NoRun /\ p[2] <= job[p[1]].due
    /\ \A k \in Key : run[k] # NoRun => k[2] <= job[k[1]].due
    /\ \A j \in Job :
          /\ job[j].ready \/ job[j].state = "absent" => job[j].due \in Due(j)
          /\ job[j].state \in {"absent", "queued", "waiting", "failed"} /\ ~job[j].review
                /\ job[j].due \in Due(j) => run[<<j, job[j].due>>] = NoRun

EffectsFollow ==
    /\ \A k \in Key : effects[k] \in 0..1 /\ (effects[k] > 0 => run[k] # NoRun)
    /\ \A i \in 1..Len(channel) : effects[channel[i].key] = 0
    /\ \A w \in Busy : worker[w].step \in Unperformed => effects[worker[w].item.key] = 0

ApprovalsFollow ==
    /\ \A k \in Key : run[k].approval \in {"approved", "lapsed"} => k \in approvedRuns
    /\ \A w \in Busy : (worker[w].step \in Admitted /\ worker[w].item.key[1] \in ApprovalJob)
                          => worker[w].item.key \in approvedRuns

SchedulerInv ==
    /\ TypeOK
    /\ IsFiniteSet(InFlightItems)
    /\ OneItemPerRun
    /\ SelectionIsFresh
    /\ EffectsFollow
    /\ ApprovalsFollow
    /\ SlotsAccounted
    /\ LeasesAreDispatched
    /\ ApprovalBeforeEffect

RunRow == [state: RunState, attempt: Nat, owner: Nat,
           approval: {"not_required", "pending", "approved", "lapsed", "expired"}]
JobRow == [state: JobState, due: Nat \ {0}, ready: BOOLEAN, review: BOOLEAN]

-----------------------------------------------------------------------------
(***************************************************************************)
(* Keys and items.                                                          *)
(***************************************************************************)

LEMMA KeyFacts ==
    /\ \A k \in Key : k = <<k[1], k[2]>> /\ k[1] \in Job /\ k[2] \in Due(k[1]) /\ k[2] \in Nat
    /\ \A j \in Job : \A d \in Due(j) : <<j, d>> \in Key
    /\ NoPick \notin Key
<1>1. \A k \in Key : \E j \in Job : \E d \in Due(j) : k = <<j, d>>
  BY DEF Key
<1>2. \A j \in Job : Due(j) \subseteq Nat
  BY DEF Due
<1>3. \A j \in Job : \A d \in Due(j) : <<j, d>> \in Key
  BY DEF Key
<1>4. NoPick \notin Key
  <2>1. \A j, d : <<>> # <<j, d>>
    OBVIOUS
  <2>2. QED
    BY <1>1, <2>1 DEF NoPick
<1>5. QED
  BY <1>1, <1>2, <1>3, <1>4

LEMMA ItemFacts ==
    ASSUME TypeOK
    PROVE  /\ \A w \in Worker : w \in Busy <=> worker[w] # NoItem
           /\ \A w \in Worker : w \in Busy <=> worker[w].step # "idle"
           /\ \A w \in Busy : /\ worker[w] \in [step: Step, item: Item]
                              /\ worker[w].step \in Step /\ worker[w].item \in Item
           /\ \A i \in 1..Len(channel) : channel[i] \in Item
           /\ \A it \in InFlightItems : it \in Item /\ it.key \in Key /\ it.token \in Nat
<1>1. worker \in [Worker -> [step: Step, item: Item] \cup {NoItem}] /\ channel \in Seq(Item)
  BY DEF TypeOK
<1>2. \A w \in Busy : worker[w] \in [step: Step, item: Item]
  BY <1>1 DEF Busy
<1>3. \A w \in Busy : worker[w].step \in Step /\ worker[w].item \in Item
  BY <1>2
<1>4. \A i \in 1..Len(channel) : channel[i] \in Item
  BY <1>1
<1>5. NoItem.step = "idle" /\ "idle" \notin Step
  BY DEF NoItem, Step
<1>6. \A w \in Worker : w \in Busy <=> worker[w] # NoItem
  BY DEF Busy
<1>7. \A w \in Worker : w \in Busy <=> worker[w].step # "idle"
  BY <1>3, <1>5, <1>6
<1>8. \A it \in InFlightItems : it \in Item
  BY <1>3, <1>4 DEF InFlightItems, Busy
<1>9. \A it \in Item : it.key \in Key /\ it.token \in Nat
  BY DEF Item
<1>10. QED
  BY <1>2, <1>3, <1>4, <1>6, <1>7, <1>8, <1>9

\* A worker that goes on with its item changes no item.
LEMMA GoFacts ==
    ASSUME TypeOK, NEW w \in Busy, NEW s \in Step, Go(w, s), channel' = channel
    PROVE  /\ worker' \in [Worker -> [step: Step, item: Item] \cup {NoItem}]
           /\ Busy' = Busy /\ InFlightItems' = InFlightItems
           /\ \A v \in Worker : v # w => worker'[v] = worker[v]
           /\ \A v \in Busy : worker'[v].item = worker[v].item
           /\ worker'[w].step = s
<1>1. /\ worker \in [Worker -> [step: Step, item: Item] \cup {NoItem}] /\ w \in Worker
      /\ worker[w] \in [step: Step, item: Item]
  BY ItemFacts DEF TypeOK, Busy
<1> DEFINE n == [worker[w] EXCEPT !.step = s]
<1>2. n \in [step: Step, item: Item] /\ n.item = worker[w].item /\ n.step = s
  BY <1>1
<1>3. worker' = [worker EXCEPT ![w] = n]
  BY DEF Go
<1> HIDE DEF n
<1>4. worker' \in [Worker -> [step: Step, item: Item] \cup {NoItem}]
  BY <1>1, <1>2, <1>3
<1>5. worker'[w] = n /\ \A v \in Worker : v # w => worker'[v] = worker[v]
  BY <1>1, <1>3
<1>6. n # NoItem
  BY <1>2 DEF NoItem, Step
<1>7. Busy' = Busy
  BY <1>5, <1>6 DEF Busy
<1>8. \A v \in Busy : worker'[v].item = worker[v].item
  BY <1>2, <1>5 DEF Busy
<1>9. {worker'[v].item : v \in Busy'} = {worker[v].item : v \in Busy}
  BY <1>7, <1>8
<1>10. InFlightItems' = InFlightItems
  BY <1>9 DEF InFlightItems, Busy
<1>11. QED
  BY <1>2, <1>4, <1>5, <1>7, <1>8, <1>10

\* A worker that is done with its item.
LEMMA DoneFacts ==
    ASSUME TypeOK, OneItemPerRun, NEW w \in Busy, channel' = channel,
           worker' = [worker EXCEPT ![w] = NoItem]
    PROVE  /\ worker' \in [Worker -> [step: Step, item: Item] \cup {NoItem}]
           /\ Busy' = Busy \ {w}
           /\ \A v \in Busy' : worker'[v] = worker[v]
           /\ worker[w].item \in InFlightItems
           /\ InFlightItems' = InFlightItems \ {worker[w].item}
<1>1. worker \in [Worker -> [step: Step, item: Item] \cup {NoItem}] /\ w \in Worker
  BY DEF TypeOK, Busy
<1>2. worker' \in [Worker -> [step: Step, item: Item] \cup {NoItem}]
  BY <1>1
<1>3. worker'[w] = NoItem /\ \A v \in Worker : v # w => worker'[v] = worker[v]
  BY <1>1
<1>4. Busy' = Busy \ {w}
  BY <1>3 DEF Busy
<1>5. \A v \in Busy' : worker'[v] = worker[v]
  BY <1>3, <1>4 DEF Busy
<1>6. InFlightItems = {channel[i] : i \in 1..Len(channel)} \cup {worker[v].item : v \in Busy}
  BY DEF InFlightItems, Busy
<1>7. InFlightItems' = {channel[i] : i \in 1..Len(channel)} \cup {worker[v].item : v \in Busy \ {w}}
  <2>1. InFlightItems' = {channel'[i] : i \in 1..Len(channel')} \cup {worker'[v].item : v \in Busy'}
    BY DEF InFlightItems, Busy
  <2>2. {worker'[v].item : v \in Busy'} = {worker[v].item : v \in Busy \ {w}}
    BY <1>4, <1>5
  <2>3. QED
    BY <2>1, <2>2
<1>8. \A i \in 1..Len(channel) : channel[i] # worker[w].item
  BY DEF OneItemPerRun
<1>9. \A v \in Busy \ {w} : worker[v].item # worker[w].item
  BY DEF OneItemPerRun
<1>10. QED
  BY <1>2, <1>4, <1>5, <1>6, <1>7, <1>8, <1>9

\* An item sent to the workers.
LEMMA SendFacts ==
    ASSUME TypeOK, NEW it \in Item, channel' = Append(channel, it), worker' = worker
    PROVE  /\ channel' \in Seq(Item) /\ Len(channel') = Len(channel) + 1
           /\ \A i \in 1..Len(channel) : channel'[i] = channel[i]
           /\ channel'[Len(channel) + 1] = it
           /\ \A i \in 1..Len(channel') : i \in 1..Len(channel) \/ i = Len(channel) + 1
           /\ Busy' = Busy /\ InFlightItems' = InFlightItems \cup {it}
<1>1. channel \in Seq(Item)
  BY DEF TypeOK
<1>2. /\ channel' \in Seq(Item) /\ Len(channel') = Len(channel) + 1
      /\ \A i \in 1..Len(channel) : channel'[i] = channel[i]
      /\ channel'[Len(channel) + 1] = it
  BY <1>1
<1>3. Len(channel) \in Nat
  BY <1>1
<1>4. \A i \in 1..Len(channel') : i \in 1..Len(channel) \/ i = Len(channel) + 1
  BY <1>2, <1>3
<1>5. Len(channel) + 1 \in 1..Len(channel') /\ \A i \in 1..Len(channel) : i \in 1..Len(channel')
  BY <1>2, <1>3
<1>6. {channel'[i] : i \in 1..Len(channel')} = {channel[i] : i \in 1..Len(channel)} \cup {it}
  BY <1>2, <1>4, <1>5
<1>7. Busy' = Busy
  BY DEF Busy
<1>8. InFlightItems' = InFlightItems \cup {it}
  BY <1>6 DEF InFlightItems
<1>9. QED
  BY <1>2, <1>4, <1>7, <1>8

\* An item that a worker takes from the channel.
LEMMA ReceiveFacts ==
    ASSUME TypeOK, NEW w \in Worker, Receive(w)
    PROVE  /\ channel' \in Seq(Item) /\ Len(channel) \in Nat \ {0}
           /\ Len(channel') = Len(channel) - 1
           /\ \A i \in 1..Len(channel') : i + 1 \in 1..Len(channel) /\ channel'[i] = channel[i + 1]
           /\ worker' \in [Worker -> [step: Step, item: Item] \cup {NoItem}]
           /\ w \notin Busy /\ Busy' = Busy \cup {w}
           /\ worker'[w].item = channel[1] /\ worker'[w].step = "held"
           /\ \A v \in Busy : worker'[v] = worker[v]
           /\ InFlightItems' = InFlightItems
<1>1. /\ channel \in Seq(Item) /\ channel # <<>>
      /\ worker \in [Worker -> [step: Step, item: Item] \cup {NoItem}]
      /\ worker[w] = NoItem /\ channel' = Tail(channel)
      /\ worker' = [worker EXCEPT ![w] = [step |-> "held", item |-> Head(channel)]]
  BY DEF TypeOK, Receive
<1>2. /\ Len(channel) \in Nat \ {0} /\ Head(channel) = channel[1] /\ channel[1] \in Item
      /\ channel' \in Seq(Item) /\ Len(channel') = Len(channel) - 1
      /\ \A i \in 1..Len(channel') : channel'[i] = channel[i + 1]
  BY <1>1
<1>3. /\ \A i \in 1..Len(channel') : i + 1 \in 1..Len(channel)
      /\ 1 \in 1..Len(channel)
      /\ \A i \in 1..Len(channel) : i # 1 => i - 1 \in 1..Len(channel') /\ (i - 1) + 1 = i
  BY <1>2
<1> DEFINE n == [step |-> "held", item |-> channel[1]]
<1>4. n \in [step: Step, item: Item] /\ n # NoItem /\ n.item = channel[1] /\ n.step = "held"
  BY <1>2 DEF Step, NoItem
<1>5. worker' = [worker EXCEPT ![w] = n]
  BY <1>1, <1>2
<1> HIDE DEF n
<1>6. worker' \in [Worker -> [step: Step, item: Item] \cup {NoItem}]
  BY <1>1, <1>4, <1>5
<1>7. worker'[w] = n /\ \A v \in Worker : v # w => worker'[v] = worker[v]
  BY <1>1, <1>5
<1>8. w \notin Busy /\ Busy' = Busy \cup {w} /\ Busy \subseteq Worker
  BY <1>1, <1>4, <1>7 DEF Busy
<1>9. \A v \in Busy : worker'[v] = worker[v]
  BY <1>7, <1>8
<1>10. ASSUME NEW i \in 1..Len(channel), i # 1
       PROVE  \E m \in 1..Len(channel') : channel[i] = channel'[m]
  <2>1. i - 1 \in 1..Len(channel') /\ (i - 1) + 1 = i
    BY <1>3, <1>10
  <2>2. channel'[i - 1] = channel[(i - 1) + 1]
    BY <1>2, <2>1
  <2>3. QED
    BY <2>1, <2>2
<1>11. {channel[i] : i \in 1..Len(channel)} = {channel'[i] : i \in 1..Len(channel')} \cup {channel[1]}
  <2> DEFINE A == {channel[i] : i \in 1..Len(channel)}
             B == {channel'[i] : i \in 1..Len(channel')}
  <2>1. ASSUME NEW x \in A PROVE x \in B \cup {channel[1]}
    BY <1>10
  <2>2. ASSUME NEW x \in B PROVE x \in A
    <3>1. PICK i \in 1..Len(channel') : x = channel'[i]
      OBVIOUS
    <3>2. i + 1 \in 1..Len(channel) /\ x = channel[i + 1]
      BY <1>2, <1>3, <3>1
    <3>3. QED
      BY <3>2
  <2>3. channel[1] \in A
    BY <1>3
  <2> HIDE DEF A, B
  <2>4. A = B \cup {channel[1]}
    BY <2>1, <2>2, <2>3
  <2>5. QED
    BY <2>4 DEF A, B
<1>12. {worker'[v].item : v \in Busy'} = {worker[v].item : v \in Busy} \cup {channel[1]}
  BY <1>4, <1>7, <1>8, <1>9
<1>13. InFlightItems' = InFlightItems
  BY <1>11, <1>12 DEF InFlightItems, Busy
<1>14. QED
  BY <1>2, <1>3, <1>4, <1>6, <1>7, <1>8, <1>9, <1>13

-----------------------------------------------------------------------------
(***************************************************************************)
(* Counting.                                                                *)
(***************************************************************************)
OfAgent(S, a) == {it \in S : AgentOf[it.key[1]] = a}

LEMMA CountAdded ==
    ASSUME NEW S, IsFiniteSet(S), NEW x, x \notin S
    PROVE  /\ IsFiniteSet(S \cup {x}) /\ Cardinality(S) \in Nat
           /\ Cardinality(S \cup {x}) = Cardinality(S) + 1
           /\ \A a : /\ Cardinality(OfAgent(S, a)) \in Nat
                     /\ Cardinality(OfAgent(S \cup {x}, a)) =
                          Cardinality(OfAgent(S, a)) + (IF AgentOf[x.key[1]] = a THEN 1 ELSE 0)
<1>1. /\ IsFiniteSet(S \cup {x}) /\ Cardinality(S) \in Nat
      /\ Cardinality(S \cup {x}) = Cardinality(S) + 1
  BY FS_AddElement, FS_CardinalityType
<1>2. ASSUME NEW a
      PROVE  /\ Cardinality(OfAgent(S, a)) \in Nat
             /\ Cardinality(OfAgent(S \cup {x}, a)) =
                  Cardinality(OfAgent(S, a)) + (IF AgentOf[x.key[1]] = a THEN 1 ELSE 0)
  <2>1. OfAgent(S, a) \in SUBSET S /\ x \notin OfAgent(S, a)
    BY DEF OfAgent
  <2>2. IsFiniteSet(OfAgent(S, a))
    BY <2>1, FS_Subset
  <2>3. Cardinality(OfAgent(S, a)) \in Nat
    BY <2>2, FS_CardinalityType
  <2>4. CASE AgentOf[x.key[1]] = a
    <3>1. OfAgent(S \cup {x}, a) = OfAgent(S, a) \cup {x}
      BY <2>4 DEF OfAgent
    <3>2. Cardinality(OfAgent(S, a) \cup {x}) = Cardinality(OfAgent(S, a)) + 1
      BY <2>1, <2>2, FS_AddElement
    <3>3. QED
      BY <2>3, <2>4, <3>1, <3>2
  <2>5. CASE AgentOf[x.key[1]] # a
    <3>1. OfAgent(S \cup {x}, a) = OfAgent(S, a)
      BY <2>5 DEF OfAgent
    <3>2. QED
      BY <2>3, <2>5, <3>1
  <2>6. QED
    BY <2>4, <2>5
<1>3. QED
  BY <1>1, <1>2

LEMMA CountRemoved ==
    ASSUME NEW S, IsFiniteSet(S), NEW x \in S
    PROVE  /\ IsFiniteSet(S \ {x}) /\ Cardinality(S) \in Nat
           /\ Cardinality(S \ {x}) = Cardinality(S) - 1 /\ Cardinality(S \ {x}) \in Nat
           /\ \A a : /\ Cardinality(OfAgent(S, a)) \in Nat
                     /\ Cardinality(OfAgent(S \ {x}, a)) \in Nat
                     /\ Cardinality(OfAgent(S \ {x}, a)) =
                          Cardinality(OfAgent(S, a)) - (IF AgentOf[x.key[1]] = a THEN 1 ELSE 0)
<1> DEFINE R == S \ {x}
<1>1. IsFiniteSet(R)
  BY FS_Subset
<1>2. x \notin R /\ R \cup {x} = S
  OBVIOUS
<1> HIDE DEF R
<1>3. /\ IsFiniteSet(R \cup {x}) /\ Cardinality(R) \in Nat
      /\ Cardinality(R \cup {x}) = Cardinality(R) + 1
      /\ \A a : /\ Cardinality(OfAgent(R, a)) \in Nat
                /\ Cardinality(OfAgent(R \cup {x}, a)) =
                     Cardinality(OfAgent(R, a)) + (IF AgentOf[x.key[1]] = a THEN 1 ELSE 0)
  BY <1>1, <1>2, CountAdded
<1>4. /\ Cardinality(S) = Cardinality(R) + 1 /\ Cardinality(R) \in Nat
      /\ \A a : /\ Cardinality(OfAgent(R, a)) \in Nat
                /\ Cardinality(OfAgent(S, a)) =
                     Cardinality(OfAgent(R, a)) + (IF AgentOf[x.key[1]] = a THEN 1 ELSE 0)
  BY <1>2, <1>3
<1>5. Cardinality(S) \in Nat /\ Cardinality(R) = Cardinality(S) - 1
  BY <1>4
<1>6. \A a : /\ Cardinality(OfAgent(S, a)) \in Nat
             /\ Cardinality(OfAgent(R, a)) \in Nat
             /\ Cardinality(OfAgent(R, a)) =
                  Cardinality(OfAgent(S, a)) - (IF AgentOf[x.key[1]] = a THEN 1 ELSE 0)
  BY <1>4
<1>7. QED
  BY <1>1, <1>4, <1>5, <1>6 DEF R

\* The slots that are in use, in terms of the items.
Held(a) == IF held # NoPick /\ AgentOf[held[1]] = a THEN 1 ELSE 0

LEMMA SlotsEquivalent ==
    SlotsAccounted <=>
        /\ \A a \in Agent : reserved[a] = Cardinality(OfAgent(InFlightItems, a)) + Held(a)
        /\ total = Cardinality(InFlightItems) + (IF held # NoPick THEN 1 ELSE 0)
BY DEF SlotsAccounted, Holders, OfAgent, Held

LEMMA SlotsAfter ==
    ASSUME NEW S, InFlightItems' = S,
           \A a \in Agent : reserved'[a] = Cardinality(OfAgent(S, a)) + Held(a)',
           total' = Cardinality(S) + (IF held' # NoPick THEN 1 ELSE 0)
    PROVE  SlotsAccounted'
BY DEF SlotsAccounted, Holders, OfAgent, Held

-----------------------------------------------------------------------------
(***************************************************************************)
(* What keeps each part of the invariant.                                   *)
(***************************************************************************)

LEMMA SameFlight ==
    ASSUME UNCHANGED <<channel, worker>>
    PROVE  /\ Busy' = Busy /\ InFlightItems' = InFlightItems
           /\ \A v \in Busy : worker'[v] = worker[v]
BY DEF Busy, InFlightItems

LEMMA KeepOneItem ==
    ASSUME TypeOK, OneItemPerRun, channel' = channel, Busy' \subseteq Busy,
           InFlightItems' \subseteq InFlightItems,
           \A v \in Busy' : worker'[v].item = worker[v].item,
           \A k \in Key : run[k] # NoRun => run'[k] # NoRun
    PROVE  OneItemPerRun'
<1>1. \A it \in InFlightItems : it.key \in Key
  BY ItemFacts
<1>2. QED
  BY <1>1 DEF OneItemPerRun

LEMMA KeepEffects ==
    ASSUME EffectsFollow, channel' = channel, effects' = effects, Busy' \subseteq Busy,
           \A v \in Busy' : /\ worker'[v].item = worker[v].item
                            /\ worker'[v].step \in Unperformed => worker[v].step \in Unperformed,
           \A k \in Key : run[k] # NoRun => run'[k] # NoRun
    PROVE  EffectsFollow'
BY DEF EffectsFollow

LEMMA KeepApprovals ==
    ASSUME ApprovalsFollow, Busy' \subseteq Busy, approvedRuns \subseteq approvedRuns',
           \A v \in Busy' : /\ worker'[v].item = worker[v].item
                            /\ worker'[v].step \in Admitted =>
                                  \/ worker[v].step \in Admitted
                                  \/ worker[v].item.key[1] \notin ApprovalJob
                                  \/ worker[v].item.key \in approvedRuns',
           \A k \in Key : run'[k].approval \in {"approved", "lapsed"} =>
               run[k].approval \in {"approved", "lapsed"} \/ k \in approvedRuns'
    PROVE  ApprovalsFollow'
BY DEF ApprovalsFollow

LEMMA KeepSlots ==
    ASSUME SlotsAccounted, InFlightItems' = InFlightItems, UNCHANGED <<reserved, total, held>>
    PROVE  SlotsAccounted'
<1>1. \A a : Held(a)' = Held(a) /\ OfAgent(InFlightItems, a)' = OfAgent(InFlightItems, a)
  BY DEF Held, OfAgent
<1>2. QED
  BY <1>1 DEF SlotsAccounted, Holders

LEMMA KeepLeases ==
    ASSUME LeasesAreDispatched, orphaned \subseteq orphaned', InFlightItems \subseteq InFlightItems',
           \A j \in Job : lease'[j] # NoLease =>
               lease[j] # NoLease /\ lease'[j].token = lease[j].token
    PROVE  LeasesAreDispatched'
BY DEF LeasesAreDispatched

LEMMA KeepGated ==
    ASSUME ApprovalBeforeEffect, effects' = effects, approvedRuns \subseteq approvedRuns'
    PROVE  ApprovalBeforeEffect'
BY DEF ApprovalBeforeEffect

\* The states in which a job's present due time has not been dispatched.
Open(row) == row.state \in {"absent", "queued", "waiting", "failed"} /\ ~row.review

LEMMA KeepSelection ==
    ASSUME TypeOK, SelectionIsFresh, UNCHANGED <<held, picks>>,
           \A k \in Key : run'[k] # NoRun <=> run[k] # NoRun,
           \A j \in Job : \/ job'[j] = job[j]
                          \/ /\ job'[j].due \in Nat /\ job[j].due <= job'[j].due
                             /\ job'[j].ready \/ job'[j].state = "absent" => job'[j].due \in Due(j)
                             /\ Open(job'[j]) /\ job'[j].due \in Due(j) =>
                                    run[<<j, job'[j].due>>] = NoRun
    PROVE  SelectionIsFresh'
<1>1. \A j \in Job : job[j].due \in Nat
  BY DEF TypeOK
<1>2. \A j \in Job : job'[j].due \in Nat /\ job[j].due <= job'[j].due
  <2> TAKE j \in Job
  <2>1. CASE job'[j] = job[j]
    BY <1>1, <2>1
  <2>2. CASE job'[j].due \in Nat /\ job[j].due <= job'[j].due
    BY <2>2
  <2>3. QED
    BY <2>1, <2>2
<1>3. picks \subseteq Key /\ held \in Key \cup {NoPick}
  BY DEF TypeOK
<1>4. ASSUME NEW p \in picks \cup ({held} \ {NoPick})
      PROVE  run'[p] = NoRun /\ p[2] <= job'[p[1]].due
  <2>1. p \in Key /\ p[1] \in Job /\ p[2] \in Nat
    BY <1>3, KeyFacts
  <2>2. run[p] = NoRun /\ p[2] <= job[p[1]].due
    BY DEF SelectionIsFresh
  <2>3. QED
    BY <1>1, <1>2, <2>1, <2>2
<1>5. ASSUME NEW k \in Key, run'[k] # NoRun
      PROVE  k[2] <= job'[k[1]].due
  <2>1. k[1] \in Job /\ k[2] \in Nat
    BY KeyFacts
  <2>2. k[2] <= job[k[1]].due
    BY <1>5 DEF SelectionIsFresh
  <2>3. QED
    BY <1>1, <1>2, <2>1, <2>2
<1>6. ASSUME NEW j \in Job
      PROVE  /\ job'[j].ready \/ job'[j].state = "absent" => job'[j].due \in Due(j)
             /\ job'[j].state \in {"absent", "queued", "waiting", "failed"} /\ ~job'[j].review
                   /\ job'[j].due \in Due(j) => run'[<<j, job'[j].due>>] = NoRun
  <2>1. \A d \in Due(j) : run[<<j, d>>] = NoRun => run'[<<j, d>>] = NoRun
    BY KeyFacts
  <2>2. CASE job'[j] = job[j]
    BY <2>1, <2>2 DEF SelectionIsFresh
  <2>3. CASE /\ job'[j].ready \/ job'[j].state = "absent" => job'[j].due \in Due(j)
             /\ Open(job'[j]) /\ job'[j].due \in Due(j) => run[<<j, job'[j].due>>] = NoRun
    BY <2>1, <2>3 DEF Open
  <2>4. QED
    BY <2>2, <2>3
<1>7. held' \notin picks'
  BY DEF SelectionIsFresh
<1>8. QED
  BY <1>4, <1>5, <1>6, <1>7 DEF SelectionIsFresh, Due

-----------------------------------------------------------------------------
(***************************************************************************)
(* The actions.                                                             *)
(***************************************************************************)

\* Steps that write neither the channel nor the workers nor a run.
LEMMA DispatchUntouched ==
    ASSUME SchedulerInv, UNCHANGED <<channel, worker, run, effects, approvedRuns>>,
           orphaned \subseteq orphaned'
    PROVE  /\ IsFiniteSet(InFlightItems') /\ InFlightItems' = InFlightItems
           /\ OneItemPerRun' /\ EffectsFollow' /\ ApprovalsFollow' /\ ApprovalBeforeEffect'
<1>1. /\ Busy' = Busy /\ InFlightItems' = InFlightItems
      /\ \A v \in Busy : worker'[v] = worker[v]
  BY SameFlight
<1>2. OneItemPerRun'
  BY <1>1, KeepOneItem DEF SchedulerInv
<1>3. EffectsFollow'
  BY <1>1, KeepEffects DEF SchedulerInv
<1>4. ApprovalsFollow'
  BY <1>1, KeepApprovals DEF SchedulerInv
<1>5. ApprovalBeforeEffect'
  BY KeepGated DEF SchedulerInv
<1>6. QED
  BY <1>1, <1>2, <1>3, <1>4, <1>5 DEF SchedulerInv

LEMMA BecomeDueStep ==
    ASSUME SchedulerInv, NEW j \in Job, BecomeDue(j)
    PROVE  SchedulerInv'
<1>1. /\ UNCHANGED <<lease, run, prepared, sched, picks, held, reserved, total, channel, worker,
                     killed, faults, effects, approvedRuns, orphaned>>
      /\ job' = [job EXCEPT ![j].ready = TRUE] /\ job[j].due <= MaxDue[j]
      /\ job \in [Job -> JobRow]
  BY DEF BecomeDue, dispatcher, history, SchedulerInv, TypeOK, JobRow
<1> DEFINE n == [job[j] EXCEPT !.ready = TRUE]
<1>2. n \in JobRow /\ n.state = job[j].state /\ n.due = job[j].due /\ n.review = job[j].review
  BY <1>1 DEF JobRow
<1>3. job' = [job EXCEPT ![j] = n]
  BY <1>1
<1> HIDE DEF n
<1>4. job' \in [Job -> JobRow] /\ job'[j] = n /\ \A i \in Job : i # j => job'[i] = job[i]
  BY <1>1, <1>2, <1>3
<1>5. TypeOK'
  BY <1>1, <1>4 DEF SchedulerInv, TypeOK, JobRow
<1>6. job[j].due \in Nat \ {0} /\ MaxDue[j] \in Nat
  BY <1>1, SchedulerAssumption DEF JobRow
<1>7. n.due \in Due(j)
  BY <1>1, <1>2, <1>6 DEF Due
<1>8. Open(n) => Open(job[j])
  BY <1>2 DEF Open
<1>9. Open(job[j]) /\ job[j].due \in Due(j) => run[<<j, job[j].due>>] = NoRun
  BY DEF SchedulerInv, SelectionIsFresh, Open
<1>10. /\ job'[j].due \in Nat /\ job[j].due <= job'[j].due
       /\ job'[j].due \in Due(j)
       /\ Open(job'[j]) => run[<<j, job'[j].due>>] = NoRun
  BY <1>2, <1>4, <1>6, <1>7, <1>8, <1>9
<1>11. SelectionIsFresh'
  BY <1>1, <1>4, <1>10, KeepSelection DEF SchedulerInv
<1>12. QED
  BY <1>1, <1>5, <1>11, DispatchUntouched, KeepSlots, KeepLeases DEF SchedulerInv

LEMMA PollStep ==
    ASSUME SchedulerInv, Poll
    PROVE  SchedulerInv'
<1>1. /\ UNCHANGED <<job, lease, run, prepared, sched, held, reserved, total, channel, worker,
                     killed, faults, effects, approvedRuns, orphaned>>
      /\ picks' = {<<j, job[j].due>> : j \in {i \in Job : Selectable(i)}} /\ held = NoPick
  BY DEF Poll, tables, history
<1>2. \A j \in Job : Selectable(j) => job[j].ready /\ Open(job[j])
  BY DEF Selectable, Open
<1>3. \A j \in Job : Selectable(j) =>
          job[j].due \in Due(j) /\ run[<<j, job[j].due>>] = NoRun
  BY <1>2 DEF SchedulerInv, SelectionIsFresh, Open
<1>4. picks' \subseteq Key
  BY <1>1, <1>3, KeyFacts
<1>5. TypeOK'
  BY <1>1, <1>4 DEF SchedulerInv, TypeOK
<1>6. ASSUME NEW p \in picks' PROVE run[p] = NoRun /\ p[2] <= job[p[1]].due
  <2>1. PICK j \in Job : Selectable(j) /\ p = <<j, job[j].due>>
    BY <1>1
  <2>2. p[1] = j /\ p[2] = job[j].due /\ job[j].due \in Nat
    BY <2>1 DEF SchedulerInv, TypeOK
  <2>3. QED
    BY <1>3, <2>1, <2>2
<1>7. held' \notin picks' /\ {held'} \ {NoPick} = {}
  BY <1>1, <1>4, KeyFacts
<1>8. SelectionIsFresh'
  BY <1>1, <1>6, <1>7 DEF SchedulerInv, SelectionIsFresh, Due
<1>9. QED
  BY <1>1, <1>5, <1>8, DispatchUntouched, KeepSlots, KeepLeases DEF SchedulerInv

\* StopScheduler, KillPlatform, and a step that changes nothing.
LEMMA IdleStep ==
    ASSUME SchedulerInv, sched' \in {"running", "stopped"}, killed' \in BOOLEAN,
           UNCHANGED <<tables, picks, held, reserved, total, channel, worker, faults, history>>
    PROVE  SchedulerInv'
<1>1. UNCHANGED <<job, lease, run, prepared, picks, held, reserved, total, channel, worker,
                  faults, effects, approvedRuns, orphaned>>
  BY DEF tables, history
<1>2. TypeOK'
  BY <1>1 DEF SchedulerInv, TypeOK
<1>3. SelectionIsFresh'
  BY <1>1, KeepSelection DEF SchedulerInv
<1>4. QED
  BY <1>1, <1>2, <1>3, DispatchUntouched, KeepSlots, KeepLeases DEF SchedulerInv

LEMMA AgentOfKey ==
    ASSUME NEW k \in Key
    PROVE  AgentOf[k[1]] \in Agent
BY KeyFacts, SchedulerAssumption

LEMMA ReserveStep ==
    ASSUME SchedulerInv, NEW p \in Key, Reserve(p)
    PROVE  SchedulerInv'
<1> DEFINE a == AgentOf[p[1]]
<1>1. /\ UNCHANGED <<job, lease, run, prepared, sched, channel, worker,
                     killed, faults, effects, approvedRuns, orphaned>>
      /\ held = NoPick /\ p \in picks /\ picks' = picks \ {p}
  BY DEF Reserve, tables, history
<1>2. a \in Agent /\ p # NoPick
  BY AgentOfKey, KeyFacts
<1>3. /\ reserved \in [Agent -> 0..PerAgentConcurrency] /\ total \in 0..GlobalConcurrency
      /\ PerAgentConcurrency \in Nat /\ GlobalConcurrency \in Nat
  BY SchedulerAssumption DEF SchedulerInv, TypeOK
<1>4. CASE held' = p /\ total' = total + 1 /\ reserved' = [reserved EXCEPT ![a] = @ + 1]
           /\ FreeSlot(a)
  <2>1. total' \in 0..GlobalConcurrency /\ reserved[a] + 1 \in 0..PerAgentConcurrency
    BY <1>2, <1>3, <1>4 DEF FreeSlot
  <2>2. reserved' \in [Agent -> 0..PerAgentConcurrency]
    BY <1>3, <1>4, <2>1
  <2>3. TypeOK'
    BY <1>1, <1>4, <2>1, <2>2 DEF SchedulerInv, TypeOK
  <2>4. SelectionIsFresh'
    BY <1>1, <1>2, <1>4 DEF SchedulerInv, SelectionIsFresh, Due
  <2>5. InFlightItems' = InFlightItems
    BY <1>1, SameFlight
  <2>6. SlotsAccounted'
    <3> DEFINE S == InFlightItems
    <3>1. /\ \A b \in Agent : reserved[b] = Cardinality(OfAgent(S, b)) + Held(b)
          /\ total = Cardinality(S) + 0
      BY <1>1, SlotsEquivalent DEF SchedulerInv
    <3>2. IsFiniteSet(S)
      BY DEF SchedulerInv
    <3>3. Cardinality(S) \in Nat /\ \A b \in Agent : Cardinality(OfAgent(S, b)) \in Nat
      <4>1. \A b \in Agent : OfAgent(S, b) \in SUBSET S
        BY DEF OfAgent
      <4>2. QED
        BY <3>2, <4>1, FS_CardinalityType, FS_Subset
    <3>4. \A b \in Agent : Held(b) = 0 /\ Held(b)' = IF b = a THEN 1 ELSE 0
      BY <1>1, <1>2, <1>4 DEF Held
    <3>5. \A b \in Agent : reserved'[b] = reserved[b] + IF b = a THEN 1 ELSE 0
      BY <1>3, <1>4
    <3> HIDE DEF S
    <3>7. \A b \in Agent : reserved'[b] = Cardinality(OfAgent(S, b)) + Held(b)'
      BY <3>1, <3>3, <3>4, <3>5
    <3>8. total' = Cardinality(S) + 1
      BY <1>4, <3>1, <3>3
    <3>9. QED
      BY <1>2, <1>4, <2>5, <3>7, <3>8, SlotsAfter DEF S
  <2>7. QED
    BY <1>1, <2>3, <2>4, <2>6, DispatchUntouched, KeepLeases DEF SchedulerInv
<1>5. CASE UNCHANGED <<held, total, reserved>>
  <2>1. TypeOK'
    BY <1>1, <1>5 DEF SchedulerInv, TypeOK
  <2>2. SelectionIsFresh'
    BY <1>1, <1>5 DEF SchedulerInv, SelectionIsFresh, Due
  <2>3. QED
    BY <1>1, <1>5, <2>1, <2>2, DispatchUntouched, KeepSlots, KeepLeases DEF SchedulerInv
<1>6. QED
  BY <1>4, <1>5 DEF Reserve

\* The items in flight and the counts of slots are numbers.
LEMMA CountTypes ==
    ASSUME SchedulerInv
    PROVE  /\ Cardinality(InFlightItems) \in Nat
           /\ \A b : Cardinality(OfAgent(InFlightItems, b)) \in Nat
<1>1. \A b : OfAgent(InFlightItems, b) \in SUBSET InFlightItems
  BY DEF OfAgent
<1>2. QED
  BY <1>1, FS_CardinalityType, FS_Subset DEF SchedulerInv

\* The scheduler gives back the slot of the selection it has in hand.
LEMMA ReleaseHeld ==
    ASSUME SchedulerInv, held # NoPick, held' = NoPick, ReleaseSlot(AgentOf[held[1]]),
           InFlightItems' = InFlightItems
    PROVE  /\ reserved' \in [Agent -> 0..PerAgentConcurrency] /\ total' \in 0..GlobalConcurrency
           /\ SlotsAccounted'
<1> DEFINE a == AgentOf[held[1]]
           S == InFlightItems
<1>1. /\ reserved \in [Agent -> 0..PerAgentConcurrency] /\ total \in 0..GlobalConcurrency
      /\ PerAgentConcurrency \in Nat /\ GlobalConcurrency \in Nat /\ held \in Key
      /\ total' = total - 1 /\ reserved' = [reserved EXCEPT ![a] = @ - 1]
  BY SchedulerAssumption DEF SchedulerInv, TypeOK, ReleaseSlot
<1>2. a \in Agent
  BY <1>1, AgentOfKey
<1>3. /\ \A b \in Agent : reserved[b] = Cardinality(OfAgent(S, b)) + Held(b)
      /\ total = Cardinality(S) + 1
  BY SlotsEquivalent DEF SchedulerInv
<1>4. Cardinality(S) \in Nat /\ \A b \in Agent : Cardinality(OfAgent(S, b)) \in Nat
  BY CountTypes
<1>5. \A b \in Agent : Held(b)' = 0 /\ Held(b) = IF b = a THEN 1 ELSE 0
  BY DEF Held
<1>7. InFlightItems' = S
  OBVIOUS
<1> HIDE DEF S, a
<1>8. \A b \in Agent : reserved'[b] = reserved[b] - IF b = a THEN 1 ELSE 0
  BY <1>1, <1>2
<1>9. \A b \in Agent : reserved'[b] = Cardinality(OfAgent(S, b))
  BY <1>3, <1>4, <1>5, <1>8
<1>10. total' = Cardinality(S)
  BY <1>1, <1>3, <1>4
<1>11. total' \in 0..GlobalConcurrency
  BY <1>1, <1>4, <1>10
<1>12. \A b \in Agent : reserved'[b] \in 0..PerAgentConcurrency
  <2> TAKE b \in Agent
  <2>1. reserved'[b] \in Nat /\ reserved[b] \in 0..PerAgentConcurrency
    BY <1>1, <1>4, <1>9
  <2>2. QED
    BY <1>1, <1>8, <2>1
<1>13. reserved' \in [Agent -> 0..PerAgentConcurrency]
  BY <1>1, <1>12
<1>14. \A b \in Agent : reserved'[b] = Cardinality(OfAgent(S, b)) + Held(b)'
  BY <1>4, <1>5, <1>9
<1>15. total' = Cardinality(S) + 0
  BY <1>4, <1>10
<1>16. SlotsAccounted'
  BY <1>7, <1>14, <1>15, SlotsAfter
<1>17. QED
  BY <1>11, <1>13, <1>16

\* A worker gives back the slot of the item it is done with.
LEMMA ReleaseDone ==
    ASSUME SchedulerInv, NEW x \in InFlightItems, ReleaseSlot(AgentOf[x.key[1]]),
           InFlightItems' = InFlightItems \ {x}, held' = held
    PROVE  /\ reserved' \in [Agent -> 0..PerAgentConcurrency] /\ total' \in 0..GlobalConcurrency
           /\ IsFiniteSet(InFlightItems') /\ SlotsAccounted'
<1> DEFINE a == AgentOf[x.key[1]]
           S == InFlightItems
           R == S \ {x}
<1>1. /\ reserved \in [Agent -> 0..PerAgentConcurrency] /\ total \in 0..GlobalConcurrency
      /\ PerAgentConcurrency \in Nat /\ GlobalConcurrency \in Nat /\ x.key \in Key
      /\ total' = total - 1 /\ reserved' = [reserved EXCEPT ![a] = @ - 1]
  BY SchedulerAssumption, ItemFacts DEF SchedulerInv, TypeOK, ReleaseSlot
<1>2. a \in Agent
  BY <1>1, AgentOfKey
<1>3. /\ \A b \in Agent : reserved[b] = Cardinality(OfAgent(S, b)) + Held(b)
      /\ total = Cardinality(S) + (IF held # NoPick THEN 1 ELSE 0)
  BY SlotsEquivalent DEF SchedulerInv
<1>4. /\ IsFiniteSet(R) /\ Cardinality(S) \in Nat
      /\ Cardinality(R) = Cardinality(S) - 1 /\ Cardinality(R) \in Nat
      /\ \A b : /\ Cardinality(OfAgent(S, b)) \in Nat
                /\ Cardinality(OfAgent(R, b)) \in Nat
                /\ Cardinality(OfAgent(R, b)) =
                     Cardinality(OfAgent(S, b)) - (IF AgentOf[x.key[1]] = b THEN 1 ELSE 0)
  BY CountRemoved DEF SchedulerInv
<1>5. \A b \in Agent : Held(b)' = Held(b) /\ Held(b) \in {0, 1}
  BY DEF Held
<1>7. InFlightItems' = R
  OBVIOUS
<1>8. \A b \in Agent : Cardinality(OfAgent(R, b)) =
          Cardinality(OfAgent(S, b)) - (IF b = a THEN 1 ELSE 0)
  BY <1>4
<1> HIDE DEF S, R, a
<1>9. \A b \in Agent : reserved'[b] = reserved[b] - IF b = a THEN 1 ELSE 0
  BY <1>1, <1>2
<1>10. \A b \in Agent : reserved'[b] = Cardinality(OfAgent(R, b)) + Held(b)'
  BY <1>3, <1>4, <1>5, <1>8, <1>9
<1>11. total' = Cardinality(R) + (IF held # NoPick THEN 1 ELSE 0)
  BY <1>1, <1>3, <1>4
<1>12. total' \in 0..GlobalConcurrency
  BY <1>1, <1>4, <1>11
<1>13. \A b \in Agent : reserved'[b] \in 0..PerAgentConcurrency
  <2> TAKE b \in Agent
  <2>1. reserved'[b] \in Nat /\ reserved[b] \in 0..PerAgentConcurrency
    BY <1>1, <1>4, <1>5, <1>10
  <2>2. QED
    BY <1>1, <1>9, <2>1
<1>14. reserved' \in [Agent -> 0..PerAgentConcurrency]
  BY <1>1, <1>13
<1>15. SlotsAccounted'
  BY <1>7, <1>10, <1>11, SlotsAfter
<1>16. QED
  BY <1>4, <1>7, <1>12, <1>14, <1>15

\* With a slot in hand there is room in the channel: it has no more items than are
\* in flight, and each of these has a slot, as has the selection.
LEMMA ChannelRoom ==
    ASSUME SchedulerInv, held # NoPick
    PROVE  ChannelHasRoom
<1> DEFINE S == InFlightItems
           L == Len(channel)
           F == [i \in 1..L |-> channel[i]]
<1>1. channel \in Seq(Item) /\ L \in Nat /\ total \in 0..GlobalConcurrency
      /\ GlobalConcurrency \in Nat
  BY SchedulerAssumption DEF SchedulerInv, TypeOK
<1>2. F \in [1..L -> S]
  BY DEF InFlightItems
<1>3. \A i, m \in 1..L : F[i] = F[m] => i = m
  BY DEF SchedulerInv, OneItemPerRun
<1>4. IsFiniteSet(S) /\ Cardinality(S) \in Nat
  BY CountTypes DEF SchedulerInv
<1>5. total = Cardinality(S) + 1
  BY SlotsEquivalent DEF SchedulerInv
<1>6. Cardinality(1..L) = L
  BY <1>1, FS_Interval
<1> HIDE DEF F, L, S
<1>7. F \in Injection(1..L, S)
  BY <1>2, <1>3 DEF Injection, IsInjective
<1>8. Cardinality(1..L) <= Cardinality(S)
  BY <1>4, <1>7, FS_Injection
<1>10. L < GlobalConcurrency
  BY <1>1, <1>4, <1>5, <1>6, <1>8
<1>11. QED
  BY <1>10 DEF ChannelHasRoom, L

\* acquire_lease writes the lease and the job.
LEMMA LeasedFacts ==
    ASSUME SchedulerInv, NEW j \in Job, Leased(j)
    PROVE  /\ lease' \in [Job -> [token: Nat, expired: BOOLEAN]]
           /\ prepared' \in [Job -> Nat] /\ prepared[j] \in Nat
           /\ job' \in [Job -> JobRow]
           /\ job'[j].state = "leased" /\ job'[j].due = job[j].due /\ job'[j].ready = job[j].ready
           /\ \A i \in Job : i # j => job'[i] = job[i] /\ lease'[i] = lease[i]
           /\ lease'[j].token = prepared[j] + 1
<1>1. /\ lease \in [Job -> [token: Nat, expired: BOOLEAN]] /\ prepared \in [Job -> Nat]
      /\ job \in [Job -> JobRow]
      /\ lease' = [lease EXCEPT ![j] = [token |-> prepared[j] + 1, expired |-> FALSE]]
      /\ prepared' = [prepared EXCEPT ![j] = @ + 1]
      /\ job' = [job EXCEPT ![j].state = "leased"]
  BY DEF SchedulerInv, TypeOK, JobRow, Leased
<1> DEFINE n == [job[j] EXCEPT !.state = "leased"]
<1>2. n \in JobRow /\ n.state = "leased" /\ n.due = job[j].due /\ n.ready = job[j].ready
  BY <1>1 DEF JobRow, JobState
<1>3. job' = [job EXCEPT ![j] = n]
  BY <1>1
<1> HIDE DEF n
<1>4. /\ job' \in [Job -> JobRow] /\ job'[j] = n
      /\ \A i \in Job : i # j => job'[i] = job[i]
  BY <1>1, <1>2, <1>3
<1>5. /\ lease' \in [Job -> [token: Nat, expired: BOOLEAN]] /\ prepared' \in [Job -> Nat]
      /\ prepared[j] \in Nat /\ lease'[j].token = prepared[j] + 1
      /\ \A i \in Job : i # j => lease'[i] = lease[i]
  BY <1>1
<1>6. QED
  BY <1>2, <1>4, <1>5

\* A dispatch that makes a run of what was selected: what remains selected is fresh.
LEMMA LeasedSelection ==
    ASSUME SchedulerInv, held # NoPick, held' = NoPick, picks' = picks, Leased(held[1]),
           \A k \in Key : k # held => run'[k] = run[k]
    PROVE  SelectionIsFresh'
<1> DEFINE j == held[1]
<1>1. held \in Key /\ picks \subseteq Key /\ held \notin picks
  BY DEF SchedulerInv, TypeOK, SelectionIsFresh
<1>2. j \in Job /\ held[2] \in Nat
  BY <1>1, KeyFacts
<1>3. /\ job'[j].state = "leased" /\ job'[j].due = job[j].due /\ job'[j].ready = job[j].ready
      /\ \A i \in Job : i # j => job'[i] = job[i]
  BY <1>2, LeasedFacts
<1>4. \A i \in Job : job'[i].due = job[i].due /\ job'[i].ready = job[i].ready
                     /\ (i # j => job'[i] = job[i])
  BY <1>3
<1>5. \A p \in picks : run'[p] = NoRun /\ p[2] <= job'[p[1]].due
  <2> TAKE p \in picks
  <2>1. run[p] = NoRun /\ p[2] <= job[p[1]].due
    BY DEF SchedulerInv, SelectionIsFresh
  <2>2. p \in Key /\ p # held /\ p[1] \in Job
    BY <1>1, KeyFacts
  <2>3. QED
    BY <1>4, <2>1, <2>2
<1>6. \A k \in Key : run'[k] # NoRun => k[2] <= job'[k[1]].due
  <2> TAKE k \in Key
  <2>1. k[1] \in Job
    BY KeyFacts
  <2>2. held[2] <= job[j].due
    BY DEF SchedulerInv, SelectionIsFresh
  <2>3. CASE k = held
    BY <1>2, <1>4, <2>2, <2>3
  <2>4. CASE k # held
    BY <1>4, <2>1, <2>4 DEF SchedulerInv, SelectionIsFresh
  <2>5. QED
    BY <2>3, <2>4
<1>7. ASSUME NEW i \in Job
      PROVE  /\ job'[i].ready \/ job'[i].state = "absent" => job'[i].due \in Due(i)
             /\ job'[i].state \in {"absent", "queued", "waiting", "failed"} /\ ~job'[i].review
                   /\ job'[i].due \in Due(i) => run'[<<i, job'[i].due>>] = NoRun
  <2>1. CASE i = j
    BY <1>3, <2>1 DEF SchedulerInv, SelectionIsFresh
  <2>2. CASE i # j
    <3>1. \A d \in Due(i) : <<i, d>> \in Key /\ <<i, d>> # held
      <4> TAKE d \in Due(i)
      <4>1. <<i, d>>[1] = i /\ <<i, d>> \in Key
        BY KeyFacts
      <4>2. QED
        BY <2>2, <4>1
    <3>2. job'[i] = job[i] /\ \A d \in Due(i) : run'[<<i, d>>] = run[<<i, d>>]
      BY <1>4, <2>2, <3>1
    <3>3. QED
      BY <3>2 DEF SchedulerInv, SelectionIsFresh
  <2>3. QED
    BY <2>1, <2>2
<1>8. held' \notin picks' /\ {held'} \ {NoPick} = {}
  BY <1>1, KeyFacts
<1>9. QED
  BY <1>5, <1>6, <1>7, <1>8 DEF SelectionIsFresh, Due

LEMMA PrepareFailsStep ==
    ASSUME SchedulerInv, PrepareFails
    PROVE  SchedulerInv'
<1> DEFINE j == held[1]
<1>1. /\ UNCHANGED <<run, sched, picks, channel, worker, killed, effects, approvedRuns>>
      /\ held # NoPick /\ held' = NoPick /\ Leased(j) /\ ReleaseSlot(AgentOf[j])
      /\ faults < MaxFaults /\ faults' = faults + 1 /\ orphaned' = orphaned \cup {j}
  BY DEF PrepareFails
<1>2. held \in Key /\ j \in Job
  BY <1>1, KeyFacts DEF SchedulerInv, TypeOK
<1>3. /\ lease' \in [Job -> [token: Nat, expired: BOOLEAN]]
      /\ prepared' \in [Job -> Nat] /\ job' \in [Job -> JobRow]
      /\ \A i \in Job : i # j => lease'[i] = lease[i]
  BY <1>1, <1>2, LeasedFacts
<1>4. /\ IsFiniteSet(InFlightItems') /\ InFlightItems' = InFlightItems
      /\ OneItemPerRun' /\ EffectsFollow' /\ ApprovalsFollow' /\ ApprovalBeforeEffect'
  BY <1>1, DispatchUntouched
<1>5. /\ reserved' \in [Agent -> 0..PerAgentConcurrency] /\ total' \in 0..GlobalConcurrency
      /\ SlotsAccounted'
  BY <1>1, <1>4, ReleaseHeld
<1>6. faults' \in 0..MaxFaults
  BY <1>1, SchedulerAssumption DEF SchedulerInv, TypeOK
<1>7. TypeOK'
  BY <1>1, <1>2, <1>3, <1>5, <1>6 DEF SchedulerInv, TypeOK, JobRow
<1>8. SelectionIsFresh'
  BY <1>1, LeasedSelection
<1>9. LeasesAreDispatched'
  BY <1>1, <1>3, <1>4 DEF SchedulerInv, LeasesAreDispatched
<1>10. QED
  BY <1>4, <1>5, <1>7, <1>8, <1>9 DEF SchedulerInv

\* The run that prepare_dispatch inserts.
LEMMA NewRun ==
    ASSUME SchedulerInv, held # NoPick, NEW token \in Nat
    PROVE  /\ RunFor(held, token) \in RunRow
           /\ RunFor(held, token) # NoRun
           /\ RunFor(held, token).approval \notin {"approved", "lapsed"}
<1> DEFINE D == {d \in Due(held[1]) : run[<<held[1], d>>] # NoRun}
           r == [state |-> "leased", attempt |-> Cardinality(D),
                 approval |-> IF held[1] \in ApprovalJob THEN "pending" ELSE "not_required",
                 owner |-> token]
<1>1. held \in Key /\ run[held] = NoRun
  BY DEF SchedulerInv, TypeOK, SelectionIsFresh
<1>2. RunFor(held, token) = r
  BY <1>1 DEF RunFor
<1>3. Cardinality(D) \in Nat
  <2>1. held[1] \in Job /\ MaxDue[held[1]] \in Nat
    BY <1>1, KeyFacts, SchedulerAssumption
  <2>2. IsFiniteSet(Due(held[1]))
    BY <2>1, FS_Interval DEF Due
  <2>3. IsFiniteSet(D)
    BY <2>2, FS_Subset
  <2>4. QED
    BY <2>3, FS_CardinalityType
<1> HIDE DEF D
<1>4. r \in RunRow /\ r.approval \notin {"approved", "lapsed"} /\ r.state = "leased"
  BY <1>3 DEF RunRow, RunState
<1>5. r # NoRun
  BY <1>4 DEF NoRun
<1>6. QED
  BY <1>2, <1>4, <1>5

LEMMA PrepareStep ==
    ASSUME SchedulerInv, Prepare
    PROVE  SchedulerInv'
<1> DEFINE j == held[1]
           token == prepared[j] + 1
           it == [key |-> held, token |-> token]
<1>1. /\ UNCHANGED <<sched, picks, worker, killed, faults, effects, approvedRuns, orphaned>>
      /\ held # NoPick /\ held' = NoPick
  BY DEF Prepare, history
<1>2. held \in Key /\ j \in Job /\ prepared[j] \in Nat /\ token \in Nat
  BY <1>1, KeyFacts DEF SchedulerInv, TypeOK
<1>3. ChannelHasRoom
  BY <1>1, ChannelRoom
<1>4. CASE LeaseFree(j)
  <2>1. /\ Leased(j) /\ run' = [run EXCEPT ![held] = RunFor(held, token)]
        /\ channel' = Append(channel, it) /\ UNCHANGED <<total, reserved>>
    BY <1>3, <1>4 DEF Prepare
  <2>2. /\ lease' \in [Job -> [token: Nat, expired: BOOLEAN]]
        /\ prepared' \in [Job -> Nat] /\ job' \in [Job -> JobRow]
        /\ \A i \in Job : i # j => lease'[i] = lease[i]
        /\ lease'[j].token = token
    BY <1>2, <2>1, LeasedFacts
  <2>3. /\ RunFor(held, token) \in RunRow /\ RunFor(held, token) # NoRun
        /\ RunFor(held, token).approval \notin {"approved", "lapsed"}
    BY <1>1, <1>2, NewRun
  <2>4. run \in [Key -> RunRow \cup {NoRun}]
    BY DEF SchedulerInv, TypeOK, RunRow
  <2>5. /\ run' \in [Key -> RunRow \cup {NoRun}]
        /\ run'[held] = RunFor(held, token) /\ \A k \in Key : k # held => run'[k] = run[k]
    BY <1>2, <2>1, <2>3, <2>4
  <2>6. it \in Item /\ it.key = held /\ it.token = token
    BY <1>2 DEF Item
  <2> HIDE DEF it
  <2>7. /\ channel' \in Seq(Item) /\ Len(channel') = Len(channel) + 1
        /\ \A i \in 1..Len(channel) : channel'[i] = channel[i]
        /\ channel'[Len(channel) + 1] = it
        /\ \A i \in 1..Len(channel') : i \in 1..Len(channel) \/ i = Len(channel) + 1
        /\ Busy' = Busy /\ InFlightItems' = InFlightItems \cup {it}
    BY <1>1, <2>1, <2>6, SendFacts DEF SchedulerInv
  <2>8. Len(channel') <= GlobalConcurrency
    <3>1. Len(channel) \in Nat /\ GlobalConcurrency \in Nat
      BY SchedulerAssumption DEF SchedulerInv, TypeOK
    <3>2. QED
      BY <1>3, <2>7, <3>1 DEF ChannelHasRoom
  <2>9. TypeOK'
    BY <1>1, <1>2, <2>1, <2>2, <2>5, <2>7, <2>8 DEF SchedulerInv, TypeOK, JobRow, RunRow
  <2>10. \A x \in InFlightItems : x.key \in Key /\ run[x.key] # NoRun /\ x.key # held
    <3>1. run[held] = NoRun
      BY <1>1 DEF SchedulerInv, SelectionIsFresh
    <3>2. QED
      BY <3>1, ItemFacts DEF SchedulerInv, OneItemPerRun
  <2>11. it \notin InFlightItems
    BY <2>6, <2>10
  <2>12. /\ \A i \in 1..Len(channel) : channel[i] \in InFlightItems
         /\ \A w \in Busy : worker[w].item \in InFlightItems
    BY DEF InFlightItems, Busy
  <2>13. OneItemPerRun'
    <3>1. \A i, m \in 1..Len(channel') : channel'[i].key = channel'[m].key => i = m
      BY <2>6, <2>7, <2>10, <2>12 DEF SchedulerInv, OneItemPerRun
    <3>2. \A i \in 1..Len(channel'), w \in Busy' : channel'[i].key # worker'[w].item.key
      BY <1>1, <2>6, <2>7, <2>10, <2>12 DEF SchedulerInv, OneItemPerRun
    <3>3. \A v, w \in Busy' : worker'[v].item.key = worker'[w].item.key => v = w
      BY <1>1, <2>7 DEF SchedulerInv, OneItemPerRun
    <3>4. \A x \in InFlightItems' : run'[x.key] # NoRun
      BY <2>3, <2>5, <2>6, <2>7, <2>10
    <3>5. QED
      BY <3>1, <3>2, <3>3, <3>4 DEF OneItemPerRun
  <2>14. SelectionIsFresh'
    BY <1>1, <2>1, <2>5, LeasedSelection
  <2>15. EffectsFollow'
    <3>1. \A k \in Key : effects'[k] \in 0..1 /\ (effects'[k] > 0 => run'[k] # NoRun)
      BY <1>1, <2>3, <2>5 DEF SchedulerInv, EffectsFollow
    <3>2. effects[held] = 0
      <4>1. run[held] = NoRun /\ effects[held] \in 0..1 /\ ~(effects[held] > 0)
        BY <1>1, <1>2 DEF SchedulerInv, SelectionIsFresh, EffectsFollow
      <4>2. QED
        BY <4>1
    <3>3. \A i \in 1..Len(channel') : effects'[channel'[i].key] = 0
      BY <1>1, <2>6, <2>7, <3>2 DEF SchedulerInv, EffectsFollow
    <3>4. QED
      BY <1>1, <2>7, <3>1, <3>3 DEF SchedulerInv, EffectsFollow
  <2>16. ApprovalsFollow'
    BY <1>1, <2>3, <2>5, <2>7, KeepApprovals DEF SchedulerInv
  <2>17. IsFiniteSet(InFlightItems') /\ SlotsAccounted'
    <3> DEFINE S == InFlightItems
    <3>1. /\ \A b \in Agent : reserved[b] = Cardinality(OfAgent(S, b)) + Held(b)
          /\ total = Cardinality(S) + 1
      BY <1>1, SlotsEquivalent DEF SchedulerInv
    <3>2. /\ IsFiniteSet(S \cup {it}) /\ Cardinality(S) \in Nat
          /\ Cardinality(S \cup {it}) = Cardinality(S) + 1
          /\ \A b : /\ Cardinality(OfAgent(S, b)) \in Nat
                    /\ Cardinality(OfAgent(S \cup {it}, b)) =
                         Cardinality(OfAgent(S, b)) + (IF AgentOf[it.key[1]] = b THEN 1 ELSE 0)
      BY <2>11, CountAdded DEF SchedulerInv
    <3>3. \A b \in Agent : Held(b)' = 0 /\ Held(b) = IF AgentOf[it.key[1]] = b THEN 1 ELSE 0
      BY <1>1, <2>6 DEF Held
    <3> HIDE DEF S
    <3>4. ASSUME NEW b \in Agent
          PROVE  reserved'[b] = Cardinality(OfAgent(S \cup {it}, b)) + Held(b)'
      <4>1. reserved'[b] = Cardinality(OfAgent(S, b)) + Held(b) /\ Cardinality(OfAgent(S, b)) \in Nat
        BY <2>1, <3>1, <3>2
      <4>2. Cardinality(OfAgent(S \cup {it}, b)) = Cardinality(OfAgent(S, b)) + Held(b)
        BY <3>2, <3>3
      <4>3. Held(b)' = 0 /\ Held(b) \in Nat
        BY <3>3
      <4>4. QED
        BY <4>1, <4>2, <4>3
    <3>5. total' = Cardinality(S \cup {it}) + 0
      BY <2>1, <3>1, <3>2
    <3>6. InFlightItems' = S \cup {it}
      BY <2>7 DEF S
    <3>7. QED
      BY <1>1, <3>2, <3>4, <3>5, <3>6, SlotsAfter
  <2>18. LeasesAreDispatched'
    <3> SUFFICES ASSUME NEW i \in Job \ orphaned', lease'[i] # NoLease
                 PROVE  \E x \in InFlightItems' : x.key[1] = i /\ x.token = lease'[i].token
      BY DEF LeasesAreDispatched
    <3>1. CASE i = j
      BY <2>2, <2>6, <2>7, <3>1
    <3>2. CASE i # j
      BY <1>1, <2>2, <2>7, <3>2 DEF SchedulerInv, LeasesAreDispatched
    <3>3. QED
      BY <3>1, <3>2
  <2>19. ApprovalBeforeEffect'
    BY <1>1, KeepGated DEF SchedulerInv
  <2>20. QED
    BY <2>9, <2>13, <2>14, <2>15, <2>16, <2>17, <2>18, <2>19 DEF SchedulerInv
<1>5. CASE ~LeaseFree(j)
  <2>1. ReleaseSlot(AgentOf[j]) /\ UNCHANGED <<job, lease, run, prepared, channel>>
    BY <1>5 DEF Prepare, tables
  <2>2. /\ IsFiniteSet(InFlightItems') /\ InFlightItems' = InFlightItems
        /\ OneItemPerRun' /\ EffectsFollow' /\ ApprovalsFollow' /\ ApprovalBeforeEffect'
    BY <1>1, <2>1, DispatchUntouched
  <2>3. /\ reserved' \in [Agent -> 0..PerAgentConcurrency] /\ total' \in 0..GlobalConcurrency
        /\ SlotsAccounted'
    BY <1>1, <2>1, <2>2, ReleaseHeld
  <2>4. TypeOK'
    BY <1>1, <2>1, <2>3 DEF SchedulerInv, TypeOK
  <2>5. NoPick \notin picks
    BY KeyFacts DEF SchedulerInv, TypeOK
  <2>6. SelectionIsFresh'
    BY <1>1, <2>1, <2>5 DEF SchedulerInv, SelectionIsFresh, Due
  <2>7. QED
    BY <1>1, <2>1, <2>2, <2>3, <2>4, <2>6, KeepLeases DEF SchedulerInv
<1>6. QED
  BY <1>4, <1>5

LEMMA ReceiveStep ==
    ASSUME SchedulerInv, NEW w \in Worker, Receive(w)
    PROVE  SchedulerInv'
<1>1. UNCHANGED <<job, lease, run, prepared, sched, picks, held, reserved, total, killed, faults,
                  effects, approvedRuns, orphaned>>
  BY DEF Receive, tables, history
<1>2. /\ channel' \in Seq(Item) /\ Len(channel) \in Nat \ {0}
      /\ Len(channel') = Len(channel) - 1
      /\ \A i \in 1..Len(channel') : i + 1 \in 1..Len(channel) /\ channel'[i] = channel[i + 1]
      /\ worker' \in [Worker -> [step: Step, item: Item] \cup {NoItem}]
      /\ w \notin Busy /\ Busy' = Busy \cup {w}
      /\ worker'[w].item = channel[1] /\ worker'[w].step = "held"
      /\ \A v \in Busy : worker'[v] = worker[v]
      /\ InFlightItems' = InFlightItems
  BY ReceiveFacts DEF SchedulerInv
<1>3. Len(channel') <= GlobalConcurrency /\ 1 \in 1..Len(channel)
  <2>1. Len(channel) <= GlobalConcurrency /\ GlobalConcurrency \in Nat
    BY SchedulerAssumption DEF SchedulerInv, TypeOK
  <2>2. QED
    BY <1>2, <2>1
<1>4. TypeOK'
  BY <1>1, <1>2, <1>3 DEF SchedulerInv, TypeOK
<1>5. OneItemPerRun'
  <2>1. ASSUME NEW i \in 1..Len(channel'), NEW m \in 1..Len(channel'),
               channel'[i].key = channel'[m].key
        PROVE  i = m
    <3>1. i + 1 = m + 1
      BY <1>2, <2>1 DEF SchedulerInv, OneItemPerRun
    <3>2. QED
      BY <3>1
  <2>2. ASSUME NEW i \in 1..Len(channel')
        PROVE  channel'[i].key # channel[1].key
    <3>1. i + 1 # 1
      OBVIOUS
    <3>2. QED
      BY <1>2, <1>3, <3>1 DEF SchedulerInv, OneItemPerRun
  <2>3. \A v \in Busy : channel[1].key # worker[v].item.key
    BY <1>3 DEF SchedulerInv, OneItemPerRun
  <2>4. \A u, v \in Busy' : worker'[u].item.key = worker'[v].item.key => u = v
    BY <1>2, <2>3 DEF SchedulerInv, OneItemPerRun
  <2>5. \A i \in 1..Len(channel'), v \in Busy' : channel'[i].key # worker'[v].item.key
    BY <1>2, <2>2 DEF SchedulerInv, OneItemPerRun
  <2>6. \A it \in InFlightItems' : run'[it.key] # NoRun
    BY <1>1, <1>2 DEF SchedulerInv, OneItemPerRun
  <2>7. QED
    BY <2>1, <2>4, <2>5, <2>6 DEF OneItemPerRun
<1>6. SelectionIsFresh'
  BY <1>1, KeepSelection DEF SchedulerInv
<1>7. EffectsFollow'
  <2>1. \A i \in 1..Len(channel') : effects'[channel'[i].key] = 0
    BY <1>1, <1>2 DEF SchedulerInv, EffectsFollow
  <2>2. effects[channel[1].key] = 0
    BY <1>3 DEF SchedulerInv, EffectsFollow
  <2>3. \A v \in Busy' : worker'[v].step \in Unperformed => effects'[worker'[v].item.key] = 0
    BY <1>1, <1>2, <2>2 DEF SchedulerInv, EffectsFollow
  <2>4. QED
    BY <1>1, <2>1, <2>3 DEF SchedulerInv, EffectsFollow
<1>8. ApprovalsFollow'
  BY <1>1, <1>2 DEF SchedulerInv, ApprovalsFollow, Admitted
<1>9. QED
  BY <1>1, <1>2, <1>4, <1>5, <1>6, <1>7, <1>8, KeepSlots, KeepLeases, KeepGated DEF SchedulerInv

LEMMA CheckStep ==
    ASSUME SchedulerInv, NEW w \in Worker, NEW c \in Control, Check(w, c)
    PROVE  SchedulerInv'
<1> DEFINE k == worker[w].item.key
<1>1. /\ UNCHANGED <<job, lease, run, prepared, sched, picks, held, reserved, total, channel,
                     killed, faults, effects, approvedRuns, orphaned>>
      /\ worker[w] # NoItem /\ worker[w].step = "held"
  BY DEF Check, tables, history
<1>2. w \in Busy /\ k \in Key
  BY <1>1, ItemFacts DEF SchedulerInv, Busy, Item
<1>3. PICK s \in Step : /\ Go(w, s)
                        /\ s \in Admitted /\ k[1] \in ApprovalJob => run[k].approval = "approved"
  <2>1. CASE c \notin {"clear", "approval"}
    <3>1. Go(w, c)
      BY <2>1 DEF Check
    <3>2. c \in Step /\ c \notin Admitted
      BY <2>1, SchedulerAssumption DEF Step, Admitted
    <3>3. QED
      BY <3>1, <3>2
  <2>2. CASE c \in {"clear", "approval"} /\ ApprovalRequired(k[1], c) /\ run[k].approval # "approved"
    <3>1. Go(w, "expired") \/ Go(w, "pending")
      BY <2>2 DEF Check
    <3>2. \A s \in {"expired", "pending"} : s \in Step /\ s \notin Admitted
      BY DEF Step, Admitted
    <3>3. QED
      BY <3>1, <3>2
  <2>3. CASE c \in {"clear", "approval"} /\ ~(ApprovalRequired(k[1], c) /\ run[k].approval # "approved")
    <3>1. Go(w, "mark") /\ "mark" \in Step
      BY <2>3 DEF Check, Step
    <3>2. k[1] \in ApprovalJob => run[k].approval = "approved"
      BY <2>3 DEF ApprovalRequired
    <3>3. QED
      BY <3>1, <3>2
  <2>4. QED
    BY <2>1, <2>2, <2>3
<1>4. /\ worker' \in [Worker -> [step: Step, item: Item] \cup {NoItem}]
      /\ Busy' = Busy /\ InFlightItems' = InFlightItems
      /\ \A v \in Worker : v # w => worker'[v] = worker[v]
      /\ \A v \in Busy : worker'[v].item = worker[v].item
      /\ worker'[w].step = s
  BY <1>1, <1>2, <1>3, GoFacts DEF SchedulerInv
<1>5. TypeOK'
  BY <1>1, <1>4 DEF SchedulerInv, TypeOK
<1>6. OneItemPerRun'
  BY <1>1, <1>4, KeepOneItem DEF SchedulerInv
<1>7. SelectionIsFresh'
  BY <1>1, KeepSelection DEF SchedulerInv
<1>8. Busy \subseteq Worker /\ worker[w].step \in Unperformed
  BY <1>1 DEF Busy, Unperformed
<1>9. EffectsFollow'
  BY <1>1, <1>4, <1>8, KeepEffects DEF SchedulerInv
<1>10. s \in Admitted => k[1] \notin ApprovalJob \/ k \in approvedRuns
  BY <1>2, <1>3 DEF SchedulerInv, ApprovalsFollow
<1>11. ApprovalsFollow'
  BY <1>1, <1>4, <1>8, <1>10, KeepApprovals DEF SchedulerInv
<1>12. QED
  BY <1>1, <1>4, <1>5, <1>6, <1>7, <1>9, <1>11, KeepSlots, KeepLeases, KeepGated DEF SchedulerInv

\* What a worker that has an item knows of its run.
LEMMA ItemRun ==
    ASSUME SchedulerInv, NEW w \in Busy
    PROVE  /\ worker[w].item \in InFlightItems /\ worker[w].item \in Item
           /\ worker[w].item.key \in Key /\ worker[w].item.key[1] \in Job
           /\ run[worker[w].item.key] # NoRun /\ run[worker[w].item.key] \in RunRow
<1>1. worker[w].item \in InFlightItems
  BY DEF InFlightItems, Busy
<1>2. worker[w].item \in Item /\ worker[w].item.key \in Key
  BY <1>1, ItemFacts DEF SchedulerInv
<1>3. run[worker[w].item.key] # NoRun
  BY <1>1 DEF SchedulerInv, OneItemPerRun
<1>4. QED
  BY <1>1, <1>2, <1>3, KeyFacts DEF SchedulerInv, TypeOK, RunRow

\* A dispatch that ends without a write to its run or its job.
LEMMA AbandonStep ==
    ASSUME SchedulerInv, NEW w \in Busy, worker' = [worker EXCEPT ![w] = NoItem],
           ReleaseSlot(AgentOf[worker[w].item.key[1]]),
           orphaned' = orphaned \cup {worker[w].item.key[1]},
           faults' \in 0..MaxFaults,
           UNCHANGED <<job, lease, run, prepared, sched, picks, held, channel, killed,
                       effects, approvedRuns>>
    PROVE  SchedulerInv'
<1> DEFINE it == worker[w].item
<1>1. /\ it \in InFlightItems /\ it.key \in Key /\ it.key[1] \in Job
  BY ItemRun
<1>2. /\ worker' \in [Worker -> [step: Step, item: Item] \cup {NoItem}]
      /\ Busy' = Busy \ {w}
      /\ \A v \in Busy' : worker'[v] = worker[v]
      /\ InFlightItems' = InFlightItems \ {it}
  BY DoneFacts DEF SchedulerInv
<1>3. /\ reserved' \in [Agent -> 0..PerAgentConcurrency] /\ total' \in 0..GlobalConcurrency
      /\ IsFiniteSet(InFlightItems') /\ SlotsAccounted'
  BY <1>1, <1>2, ReleaseDone
<1>4. TypeOK'
  BY <1>1, <1>2, <1>3 DEF SchedulerInv, TypeOK
<1>5. OneItemPerRun'
  BY <1>2, KeepOneItem DEF SchedulerInv
<1>6. SelectionIsFresh'
  BY KeepSelection DEF SchedulerInv
<1>7. EffectsFollow' /\ ApprovalsFollow' /\ ApprovalBeforeEffect'
  BY <1>2, KeepEffects, KeepApprovals, KeepGated DEF SchedulerInv
<1>8. LeasesAreDispatched'
  BY <1>2 DEF SchedulerInv, LeasesAreDispatched
<1>9. QED
  BY <1>3, <1>4, <1>5, <1>6, <1>7, <1>8 DEF SchedulerInv

LEMMA MarkRunningStep ==
    ASSUME SchedulerInv, NEW w \in Worker, MarkRunning(w)
    PROVE  SchedulerInv'
<1> DEFINE it == worker[w].item
           k == it.key
           j == k[1]
<1>1. /\ UNCHANGED <<lease, prepared, sched, picks, held, channel, killed, faults,
                     effects, approvedRuns>>
      /\ worker[w].step = "mark"
  BY DEF MarkRunning
<1>2. w \in Busy
  BY <1>1, ItemFacts DEF SchedulerInv
<1>3. k \in Key /\ j \in Job /\ run[k] # NoRun /\ run[k] \in RunRow
  BY <1>2, ItemRun
<1>4. CASE ~ValidRunTransition(run[k].state, "running")
  <2>1. faults' \in 0..MaxFaults
    BY <1>1 DEF SchedulerInv, TypeOK
  <2>2. QED
    BY <1>1, <1>2, <1>4, <2>1, AbandonStep DEF MarkRunning
<1>5. CASE ValidRunTransition(run[k].state, "running")
  <2>1. /\ run' = IF Fenced(it) THEN [run EXCEPT ![k].state = "running"] ELSE run
        /\ job' = IF Fenced(it) THEN [job EXCEPT ![j].state = "running"] ELSE job
        /\ Go(w, "effect") /\ UNCHANGED <<total, reserved, orphaned>>
    BY <1>5 DEF MarkRunning
  <2>2. run \in [Key -> RunRow \cup {NoRun}] /\ job \in [Job -> JobRow]
    BY DEF SchedulerInv, TypeOK, RunRow, JobRow
  <2> DEFINE r == [run[k] EXCEPT !.state = "running"]
             n == [job[j] EXCEPT !.state = "running"]
  <2>3. r \in RunRow /\ r.approval = run[k].approval /\ r # NoRun
    <3>1. r \in RunRow /\ r.approval = run[k].approval /\ r.state = "running"
      BY <1>3 DEF RunRow, RunState
    <3>2. QED
      BY <3>1 DEF NoRun
  <2>4. n \in JobRow /\ n.state = "running" /\ n.due = job[j].due /\ n.ready = job[j].ready
    BY <1>3, <2>2 DEF JobRow, JobState
  <2>5. run' = [run EXCEPT ![k] = r] \/ run' = run
    BY <2>1
  <2>6. job' = [job EXCEPT ![j] = n] \/ job' = job
    BY <2>1
  <2> HIDE DEF r, n
  <2>7. /\ run' \in [Key -> RunRow \cup {NoRun}]
        /\ \A x \in Key : run'[x] # NoRun <=> run[x] # NoRun
        /\ \A x \in Key : run'[x].approval = run[x].approval
    BY <1>3, <2>2, <2>3, <2>5
  <2>8. /\ job' \in [Job -> JobRow]
        /\ \A i \in Job : i # j => job'[i] = job[i]
        /\ job'[j] = n \/ job'[j] = job[j]
    BY <1>3, <2>2, <2>4, <2>6
  <2>9. /\ worker' \in [Worker -> [step: Step, item: Item] \cup {NoItem}]
        /\ Busy' = Busy /\ InFlightItems' = InFlightItems
        /\ \A v \in Worker : v # w => worker'[v] = worker[v]
        /\ \A v \in Busy : worker'[v].item = worker[v].item
        /\ worker'[w].step = "effect"
    <3>1. "effect" \in Step
      BY DEF Step
    <3>2. QED
      BY <1>1, <1>2, <2>1, <3>1, GoFacts DEF SchedulerInv
  <2>10. TypeOK'
    BY <1>1, <2>1, <2>7, <2>8, <2>9 DEF SchedulerInv, TypeOK, RunRow, JobRow
  <2>11. OneItemPerRun'
    BY <1>1, <2>7, <2>9, KeepOneItem DEF SchedulerInv
  <2>12. SelectionIsFresh'
    <3>1. ~Open(n)
      BY <2>4 DEF Open
    <3>2. n.ready \/ n.state = "absent" => n.due \in Due(j)
      BY <1>3, <2>4 DEF SchedulerInv, SelectionIsFresh
    <3>3. n.due \in Nat /\ job[j].due <= n.due
      BY <1>3, <2>2, <2>4 DEF JobRow
    <3>4. QED
      BY <1>1, <2>7, <2>8, <3>1, <3>2, <3>3, KeepSelection DEF SchedulerInv
  <2>13. Busy \subseteq Worker /\ worker[w].step \in Unperformed /\ worker[w].step \in Admitted
    BY <1>1 DEF Busy, Unperformed, Admitted
  <2>14. EffectsFollow'
    BY <1>1, <2>7, <2>9, <2>13, KeepEffects DEF SchedulerInv
  <2>15. ApprovalsFollow'
    BY <1>1, <2>7, <2>9, <2>13, KeepApprovals DEF SchedulerInv
  <2>16. QED
    BY <1>1, <2>1, <2>9, <2>10, <2>11, <2>12, <2>14, <2>15, KeepSlots, KeepLeases, KeepGated
       DEF SchedulerInv
<1>6. QED
  BY <1>4, <1>5

\* A job that a heartbeat enqueues has had no run.
LEMMA EnqueuedFacts ==
    ASSUME SchedulerInv, NEW n \in Job, job[n].state = "absent", job' = Enqueued(n),
           UNCHANGED <<held, picks, run>>
    PROVE  job' \in [Job -> JobRow] /\ SelectionIsFresh'
<1>1. job \in [Job -> JobRow]
  BY DEF SchedulerInv, TypeOK, JobRow
<1> DEFINE r == [job[n] EXCEPT !.state = "queued"]
           q == [r EXCEPT !.ready = TRUE]
<1>2. r \in JobRow /\ r.due = job[n].due /\ r.review = job[n].review /\ r.state = "queued"
  BY <1>1 DEF JobRow, JobState
<1>3. job' = [job EXCEPT ![n] = q]
  BY DEF Enqueued
<1> HIDE DEF r
<1>4. q \in JobRow /\ q.due = job[n].due /\ q.review = job[n].review /\ q.state = "queued"
  BY <1>2 DEF JobRow
<1> HIDE DEF q
<1>5. job' \in [Job -> JobRow] /\ job'[n] = q /\ \A i \in Job : i # n => job'[i] = job[i]
  BY <1>1, <1>3, <1>4
<1>6. job[n].due \in Due(n) /\ (~job[n].review => run[<<n, job[n].due>>] = NoRun)
  BY DEF SchedulerInv, SelectionIsFresh
<1>7. Open(q) => run[<<n, q.due>>] = NoRun
  BY <1>4, <1>6 DEF Open
<1>8. q.due \in Nat /\ job[n].due <= q.due /\ q.due \in Due(n)
  BY <1>1, <1>4, <1>6 DEF JobRow
<1>9. SelectionIsFresh'
  BY <1>5, <1>7, <1>8, KeepSelection DEF SchedulerInv
<1>10. QED
  BY <1>5, <1>9

LEMMA EffectStep ==
    ASSUME SchedulerInv, NEW w \in Worker, Effect(w)
    PROVE  SchedulerInv'
<1> DEFINE k == worker[w].item.key
<1>1. /\ UNCHANGED <<lease, run, prepared, sched, picks, held, reserved, total, channel,
                     killed, faults, approvedRuns, orphaned>>
      /\ worker[w].step = "effect"
  BY DEF Effect
<1>2. w \in Busy /\ worker[w].step \in Unperformed /\ worker[w].step \in Admitted
  BY <1>1, ItemFacts DEF SchedulerInv, Unperformed, Admitted
<1>3. k \in Key /\ run[k] # NoRun
  BY <1>2, ItemRun
<1>4. effects[k] = 0 /\ effects \in [Key -> Nat] /\ (k[1] \in ApprovalJob => k \in approvedRuns)
  BY <1>2 DEF SchedulerInv, EffectsFollow, ApprovalsFollow, TypeOK
<1>5. job' \in [Job -> JobRow] /\ SelectionIsFresh'
  <2>1. CASE job' = job
    BY <1>1, <2>1, KeepSelection DEF SchedulerInv, TypeOK, JobRow
  <2>2. CASE \E n \in Enqueueable(AgentOf[k[1]]) : job' = Enqueued(n)
    BY <1>1, <2>2, EnqueuedFacts DEF Enqueueable
  <2>3. QED
    BY <2>1, <2>2 DEF Effect
<1>6. PICK s \in Step : /\ Go(w, s)
                        /\ \/ effects' = effects
                           \/ s \notin Unperformed /\ effects' = [effects EXCEPT ![k] = @ + 1]
  <2>1. /\ "blocked" \in Step
        /\ \A s \in {"ok", "error"} : s \in Step /\ s \notin Unperformed
    BY DEF Step, Unperformed
  <2>2. \/ Go(w, "blocked") /\ effects' = effects
        \/ (Go(w, "error") \/ Go(w, "ok")) /\ effects' = [effects EXCEPT ![k] = @ + 1]
    BY DEF Effect
  <2>3. QED
    BY <2>1, <2>2
<1>7. /\ worker' \in [Worker -> [step: Step, item: Item] \cup {NoItem}]
      /\ Busy' = Busy /\ InFlightItems' = InFlightItems
      /\ \A v \in Worker : v # w => worker'[v] = worker[v]
      /\ \A v \in Busy : worker'[v].item = worker[v].item
      /\ worker'[w].step = s
  BY <1>1, <1>2, <1>6, GoFacts DEF SchedulerInv
<1>8. effects' \in [Key -> Nat] /\ \A x \in Key : x # k => effects'[x] = effects[x]
  BY <1>3, <1>4, <1>6
<1>9. effects'[k] \in 0..1
  BY <1>3, <1>4, <1>6
<1>10. TypeOK'
  BY <1>1, <1>5, <1>7, <1>8 DEF SchedulerInv, TypeOK, JobRow
<1>11. OneItemPerRun'
  BY <1>1, <1>7, KeepOneItem DEF SchedulerInv
<1>12. EffectsFollow'
  <2>1. CASE effects' = effects
    BY <1>1, <1>2, <1>7, <2>1, KeepEffects DEF SchedulerInv, Busy
  <2>2. CASE s \notin Unperformed
    <3>1. \A x \in Key : effects'[x] \in 0..1 /\ (effects'[x] > 0 => run'[x] # NoRun)
      BY <1>1, <1>3, <1>8, <1>9 DEF SchedulerInv, EffectsFollow
    <3>2. \A i \in 1..Len(channel) : channel[i].key \in Key /\ channel[i].key # k
      BY <1>2, ItemFacts DEF SchedulerInv, OneItemPerRun, Item
    <3>3. \A v \in Busy : v # w => worker[v].item.key \in Key /\ worker[v].item.key # k
      BY <1>2, ItemRun DEF SchedulerInv, OneItemPerRun
    <3>4. \A i \in 1..Len(channel') : effects'[channel'[i].key] = 0
      BY <1>1, <1>8, <3>2 DEF SchedulerInv, EffectsFollow
    <3>5. \A v \in Busy' : worker'[v].step \in Unperformed => effects'[worker'[v].item.key] = 0
      <4> SUFFICES ASSUME NEW v \in Busy, worker'[v].step \in Unperformed
                   PROVE  effects'[worker'[v].item.key] = 0
        BY <1>7
      <4>1. v # w /\ worker'[v] = worker[v]
        BY <1>7, <2>2 DEF Busy
      <4>2. QED
        BY <1>8, <3>3, <4>1 DEF SchedulerInv, EffectsFollow
    <3>6. QED
      BY <3>1, <3>4, <3>5 DEF EffectsFollow
  <2>3. QED
    BY <1>6, <2>1, <2>2
<1>13. ApprovalsFollow'
  BY <1>1, <1>2, <1>7, KeepApprovals DEF SchedulerInv, Busy
<1>14. ApprovalBeforeEffect'
  BY <1>1, <1>4, <1>8 DEF SchedulerInv, ApprovalBeforeEffect
<1>15. QED
  BY <1>1, <1>5, <1>7, <1>10, <1>11, <1>12, <1>13, <1>14, KeepSlots, KeepLeases DEF SchedulerInv

\* A job's row after a run: its due time does not go back, and if it can be selected
\* again it is at a due time that has not been dispatched.
Settles(j, row) ==
    /\ row \in JobRow /\ job[j].due <= row.due
    /\ row.ready \/ row.state = "absent" => row.due \in Due(j)
    /\ Open(row) /\ row.due \in Due(j) => run[<<j, row.due>>] = NoRun

Approvals == {"not_required", "pending", "approved", "lapsed", "expired"}

LEMMA ConcludeStep ==
    ASSUME SchedulerInv, NEW w \in Busy, NEW state \in RunState, NEW approval \in Approvals,
           approval \in {"approved", "lapsed"} => approval = run[worker[w].item.key].approval,
           NEW newJob, Settles(worker[w].item.key[1], newJob),
           Conclude(w, state, approval, newJob)
    PROVE  SchedulerInv'
<1> DEFINE it == worker[w].item
           k == it.key
           j == k[1]
<1>1. /\ it \in InFlightItems /\ it \in Item /\ k \in Key /\ j \in Job
      /\ run[k] # NoRun /\ run[k] \in RunRow
  BY ItemRun
<1>2. /\ worker' = [worker EXCEPT ![w] = NoItem] /\ ReleaseSlot(AgentOf[j])
      /\ UNCHANGED <<prepared, sched, picks, held, channel, killed, faults, effects, approvedRuns>>
  BY DEF Conclude
<1>3. CASE ~(ValidRunTransition(run[k].state, state) /\ Fenced(it))
  <2>1. faults' \in 0..MaxFaults
    BY DEF Conclude, SchedulerInv, TypeOK
  <2>2. QED
    BY <1>2, <1>3, <2>1, AbandonStep DEF Conclude
<1>4. CASE ValidRunTransition(run[k].state, state) /\ Fenced(it)
  <2>1. /\ run' = [run EXCEPT ![k].state = state, ![k].approval = approval]
        /\ job' = [job EXCEPT ![j] = newJob]
        /\ lease' = [lease EXCEPT ![j] = IF @.token = it.token THEN NoLease ELSE @]
        /\ orphaned' = orphaned
    BY <1>4 DEF Conclude
  <2>2. /\ run \in [Key -> RunRow \cup {NoRun}] /\ job \in [Job -> JobRow]
        /\ lease \in [Job -> [token: Nat, expired: BOOLEAN]]
    BY DEF SchedulerInv, TypeOK, RunRow, JobRow
  <2> DEFINE r == [run[k] EXCEPT !.state = state]
             R == [run EXCEPT ![k] = r]
             q == [r EXCEPT !.approval = approval]
  <2>3. r \in RunRow /\ r.state = state
    BY <1>1 DEF RunRow
  <2>4. run' = [R EXCEPT ![k].approval = approval]
    BY <2>1
  <2> HIDE DEF r
  <2>5. R \in [Key -> RunRow \cup {NoRun}] /\ R[k] = r /\ \A x \in Key : x # k => R[x] = run[x]
    BY <1>1, <2>2, <2>3
  <2>6. q \in RunRow /\ q.approval = approval /\ q.state = state
    BY <2>3 DEF RunRow, Approvals
  <2>7. run' = [R EXCEPT ![k] = q]
    BY <2>4, <2>5
  <2> HIDE DEF R, q
  <2>8. /\ run' \in [Key -> RunRow \cup {NoRun}] /\ run'[k] = q
        /\ \A x \in Key : x # k => run'[x] = run[x]
    BY <1>1, <2>5, <2>6, <2>7
  <2>9. q # NoRun
    BY <2>6 DEF NoRun, RunState
  <2>10. \A x \in Key : run'[x] # NoRun <=> run[x] # NoRun
    BY <1>1, <2>8, <2>9
  <2>11. newJob \in JobRow /\ newJob.due \in Nat
    BY DEF Settles, JobRow
  <2>12. job' \in [Job -> JobRow] /\ job'[j] = newJob /\ \A i \in Job : i # j => job'[i] = job[i]
    BY <1>1, <2>1, <2>2, <2>11
  <2>13. /\ lease' \in [Job -> [token: Nat, expired: BOOLEAN]]
         /\ \A i \in Job : \/ lease'[i] = NoLease
                           \/ lease'[i] = lease[i] /\ (i = j => lease[i].token # it.token)
    <3>1. NoLease \in [token: Nat, expired: BOOLEAN]
      BY DEF NoLease
    <3> DEFINE n == IF lease[j].token = it.token THEN NoLease ELSE lease[j]
    <3>2. lease' = [lease EXCEPT ![j] = n] /\ n \in [token: Nat, expired: BOOLEAN]
      BY <1>1, <2>1, <2>2, <3>1
    <3>3. n = NoLease \/ (n = lease[j] /\ lease[j].token # it.token)
      OBVIOUS
    <3> HIDE DEF n
    <3>4. /\ lease' \in [Job -> [token: Nat, expired: BOOLEAN]] /\ lease'[j] = n
          /\ \A i \in Job : i # j => lease'[i] = lease[i]
      BY <1>1, <2>2, <3>2
    <3>5. QED
      BY <3>3, <3>4
  <2>14. /\ worker' \in [Worker -> [step: Step, item: Item] \cup {NoItem}]
         /\ Busy' = Busy \ {w}
         /\ \A v \in Busy' : worker'[v] = worker[v]
         /\ InFlightItems' = InFlightItems \ {it}
    BY <1>2, DoneFacts DEF SchedulerInv
  <2>15. /\ reserved' \in [Agent -> 0..PerAgentConcurrency] /\ total' \in 0..GlobalConcurrency
         /\ IsFiniteSet(InFlightItems') /\ SlotsAccounted'
    BY <1>1, <1>2, <2>14, ReleaseDone
  <2>16. TypeOK'
    BY <1>2, <2>1, <2>8, <2>12, <2>13, <2>14, <2>15 DEF SchedulerInv, TypeOK, RunRow, JobRow
  <2>17. OneItemPerRun'
    BY <1>2, <2>10, <2>14, KeepOneItem DEF SchedulerInv
  <2>18. SelectionIsFresh'
    BY <1>2, <2>10, <2>11, <2>12, KeepSelection DEF SchedulerInv, Settles
  <2>19. EffectsFollow' /\ ApprovalBeforeEffect'
    BY <1>2, <2>10, <2>14, KeepEffects, KeepGated DEF SchedulerInv
  <2>20. ApprovalsFollow'
    BY <1>2, <2>6, <2>8, <2>14, KeepApprovals DEF SchedulerInv
  <2>21. LeasesAreDispatched'
    <3> SUFFICES ASSUME NEW i \in Job \ orphaned', lease'[i] # NoLease
                 PROVE  \E x \in InFlightItems' : x.key[1] = i /\ x.token = lease'[i].token
      BY DEF LeasesAreDispatched
    <3>1. lease'[i] = lease[i] /\ (i = j => lease[i].token # it.token)
      BY <2>13
    <3>2. PICK x \in InFlightItems : x.key[1] = i /\ x.token = lease[i].token
      BY <2>1, <3>1 DEF SchedulerInv, LeasesAreDispatched
    <3>3. x # it
      BY <3>1, <3>2
    <3>4. QED
      BY <2>14, <3>1, <3>2, <3>3
  <2>22. QED
    BY <2>15, <2>16, <2>17, <2>18, <2>19, <2>20, <2>21 DEF SchedulerInv
<1>5. QED
  BY <1>3, <1>4

LEMMA EndedSettles ==
    ASSUME SchedulerInv, NEW j \in Job, NEW state \in JobState, NEW review \in BOOLEAN,
           state # "absent", state \in {"queued", "waiting", "failed"} => review
    PROVE  Settles(j, Ended(j, state, review))
<1>1. job[j] \in JobRow
  BY DEF SchedulerInv, TypeOK, JobRow
<1> DEFINE r == [job[j] EXCEPT !.state = state]
           q == [r EXCEPT !.review = review]
<1>2. r \in JobRow /\ r.due = job[j].due /\ r.ready = job[j].ready /\ r.state = state
  BY <1>1 DEF JobRow
<1>3. Ended(j, state, review) = q
  BY DEF Ended
<1> HIDE DEF r
<1>4. /\ q \in JobRow /\ q.due = job[j].due /\ q.ready = job[j].ready /\ q.state = state
      /\ q.review = review
  BY <1>2 DEF JobRow
<1> HIDE DEF q
<1>5. q.ready => q.due \in Due(j)
  BY <1>4 DEF SchedulerInv, SelectionIsFresh
<1>6. ~Open(q)
  BY <1>4 DEF Open
<1>7. job[j].due <= q.due
  BY <1>1, <1>4 DEF JobRow
<1>8. QED
  BY <1>3, <1>4, <1>5, <1>6, <1>7 DEF Settles

LEMMA RescheduledSettles ==
    ASSUME SchedulerInv, NEW j \in Job, NEW state \in JobState, NEW review \in BOOLEAN,
           state # "absent"
    PROVE  Settles(j, Rescheduled(j, state, review))
<1>1. job[j].due \in Nat \ {0} /\ MaxDue[j] \in Nat
  BY SchedulerAssumption DEF SchedulerInv, TypeOK
<1> DEFINE d == NextDue(j)
<1>2. d \in Nat \ {0} /\ job[j].due <= d /\ (d \in Due(j) => d > job[j].due)
  BY <1>1 DEF NextDue, Due
<1>3. d \in Due(j) => run[<<j, d>>] = NoRun
  <2> SUFFICES ASSUME d \in Due(j), run[<<j, d>>] # NoRun PROVE FALSE
    OBVIOUS
  <2>1. <<j, d>> \in Key /\ <<j, d>>[1] = j /\ <<j, d>>[2] = d
    BY KeyFacts
  <2>2. d <= job[j].due
    BY <2>1 DEF SchedulerInv, SelectionIsFresh
  <2>3. QED
    BY <1>1, <1>2, <2>2
<1> HIDE DEF d
<1> DEFINE q == [state |-> state, due |-> d, ready |-> FALSE, review |-> review]
<1>4. q \in JobRow /\ q.due = d /\ q.ready = FALSE /\ q.state = state
  BY <1>2 DEF JobRow
<1>5. Rescheduled(j, state, review) = q
  BY DEF Rescheduled, d
<1> HIDE DEF q
<1>6. QED
  BY <1>2, <1>3, <1>4, <1>5 DEF Settles

LEMMA EndUndispatchedStep ==
    ASSUME SchedulerInv, NEW w \in Worker, EndUndispatched(w)
    PROVE  SchedulerInv'
<1> DEFINE k == worker[w].item.key
           j == k[1]
           appr == run[k].approval
<1>1. worker[w].step # "idle"
  BY DEF EndUndispatched
<1>2. w \in Busy
  BY <1>1, ItemFacts DEF SchedulerInv
<1>3. j \in Job /\ run[k] \in RunRow
  BY <1>2, ItemRun
<1>4. appr \in Approvals /\ job[j].review \in BOOLEAN /\ "pending" \in Approvals
      /\ "expired" \in Approvals
  BY <1>3 DEF RunRow, Approvals, SchedulerInv, TypeOK
<1>5. /\ {"paused", "quarantined", "waiting", "succeeded"} \subseteq RunState
      /\ {"paused", "quarantined", "waiting", "queued"} \subseteq JobState
  BY DEF RunState, JobState
<1>6. /\ Settles(j, Ended(j, "paused", FALSE)) /\ Settles(j, Ended(j, "quarantined", FALSE))
  BY <1>3, <1>5, EndedSettles
<1>7. /\ Settles(j, Rescheduled(j, "waiting", job[j].review))
      /\ Settles(j, Rescheduled(j, "queued", FALSE))
  BY <1>3, <1>4, <1>5, RescheduledSettles
<1>8. CASE Conclude(w, "paused", appr, Ended(j, "paused", FALSE))
  BY <1>2, <1>4, <1>5, <1>6, <1>8, ConcludeStep
<1>9. CASE Conclude(w, "quarantined", appr, Ended(j, "quarantined", FALSE))
  BY <1>2, <1>4, <1>5, <1>6, <1>9, ConcludeStep
<1>10. CASE Conclude(w, "waiting", appr, Rescheduled(j, "waiting", job[j].review))
  BY <1>2, <1>4, <1>5, <1>7, <1>10, ConcludeStep
<1>11. CASE /\ worker[w].step \in {"pending", "expired"}
            /\ Conclude(w, "waiting", worker[w].step, Rescheduled(j, "waiting", job[j].review))
  BY <1>2, <1>4, <1>5, <1>7, <1>11, ConcludeStep
<1>12. CASE Conclude(w, "succeeded", appr, Rescheduled(j, "queued", FALSE))
  BY <1>2, <1>4, <1>5, <1>7, <1>12, ConcludeStep
<1>13. QED
  BY <1>8, <1>9, <1>10, <1>11, <1>12 DEF EndUndispatched

LEMMA EndDispatchedStep ==
    ASSUME SchedulerInv, NEW w \in Worker, EndDispatched(w)
    PROVE  SchedulerInv'
<1> DEFINE k == worker[w].item.key
           j == k[1]
           appr == run[k].approval
<1>1. worker[w].step # "idle"
  BY DEF EndDispatched
<1>2. w \in Busy
  BY <1>1, ItemFacts DEF SchedulerInv
<1>3. j \in Job /\ run[k] \in RunRow
  BY <1>2, ItemRun
<1>4. appr \in Approvals /\ job[j].review \in BOOLEAN
  BY <1>3 DEF RunRow, Approvals, SchedulerInv, TypeOK
<1>5. /\ {"failed", "waiting", "succeeded"} \subseteq RunState
      /\ {"failed", "waiting", "queued", "succeeded"} \subseteq JobState
  BY DEF RunState, JobState
<1>6. /\ Settles(j, Ended(j, "succeeded", FALSE)) /\ Settles(j, Ended(j, "failed", TRUE))
  BY <1>3, <1>5, EndedSettles
<1>7. /\ Settles(j, Rescheduled(j, "waiting", job[j].review))
      /\ Settles(j, Rescheduled(j, "queued", FALSE))
  BY <1>3, <1>4, <1>5, RescheduledSettles
<1>8. CASE Conclude(w, "succeeded", appr, Ended(j, "succeeded", FALSE))
  BY <1>2, <1>4, <1>5, <1>6, <1>8, ConcludeStep
<1>9. CASE Conclude(w, "succeeded", appr, Rescheduled(j, "queued", FALSE))
  BY <1>2, <1>4, <1>5, <1>7, <1>9, ConcludeStep
<1>10. CASE Conclude(w, "waiting", appr, Rescheduled(j, "waiting", job[j].review))
  BY <1>2, <1>4, <1>5, <1>7, <1>10, ConcludeStep
<1>11. CASE Conclude(w, "failed", appr, Ended(j, "failed", TRUE))
  BY <1>2, <1>4, <1>5, <1>6, <1>11, ConcludeStep
<1>12. QED
  BY <1>8, <1>9, <1>10, <1>11 DEF EndDispatched

LEMMA ApproveStep ==
    ASSUME SchedulerInv, NEW k \in Key, Approve(k)
    PROVE  SchedulerInv'
<1> DEFINE j == k[1]
           q == [run[k] EXCEPT !.approval = "approved"]
           n == [state |-> "queued", due |-> job[j].due + 1, ready |-> TRUE, review |-> FALSE]
<1>1. /\ UNCHANGED <<lease, prepared, sched, picks, held, reserved, total, channel, worker,
                     killed, faults, effects, orphaned>>
      /\ run[k].approval \in {"pending", "expired"} /\ job[j].due < MaxDue[j]
      /\ run' = [run EXCEPT ![k] = q] /\ job' = [job EXCEPT ![j] = n]
      /\ approvedRuns' = approvedRuns \cup {k}
  BY DEF Approve, dispatcher
<1>2. /\ run \in [Key -> RunRow \cup {NoRun}] /\ job \in [Job -> JobRow] /\ j \in Job
      /\ MaxDue[j] \in Nat /\ job[j].due \in Nat \ {0}
  BY KeyFacts, SchedulerAssumption DEF SchedulerInv, TypeOK, RunRow, JobRow
<1>3. run[k] # NoRun /\ run[k] \in RunRow
  BY <1>1, <1>2 DEF NoRun
<1>4. q \in RunRow /\ q # NoRun
  <2>1. q \in RunRow /\ q.approval = "approved"
    BY <1>3 DEF RunRow
  <2>2. QED
    BY <2>1 DEF NoRun
<1>5. n \in JobRow /\ n.due = job[j].due + 1
  BY <1>2 DEF JobRow, JobState
<1> HIDE DEF q, n
<1>6. /\ run' \in [Key -> RunRow \cup {NoRun}]
      /\ \A x \in Key : x # k => run'[x] = run[x]
      /\ \A x \in Key : run'[x] # NoRun <=> run[x] # NoRun
  BY <1>1, <1>2, <1>3, <1>4
<1>7. job' \in [Job -> JobRow] /\ job'[j] = n /\ \A i \in Job : i # j => job'[i] = job[i]
  BY <1>1, <1>2, <1>5
<1>8. n.due \in Nat /\ job[j].due <= n.due /\ n.due \in Due(j) /\ n.due > job[j].due
  BY <1>1, <1>2, <1>5 DEF Due
<1>9. run[<<j, n.due>>] = NoRun
  <2> SUFFICES ASSUME run[<<j, n.due>>] # NoRun PROVE FALSE
    OBVIOUS
  <2>1. <<j, n.due>> \in Key /\ <<j, n.due>>[1] = j /\ <<j, n.due>>[2] = n.due
    BY <1>2, <1>8, KeyFacts
  <2>2. n.due <= job[j].due
    BY <2>1 DEF SchedulerInv, SelectionIsFresh
  <2>3. QED
    BY <1>2, <1>8, <2>2
<1>10. SelectionIsFresh'
  BY <1>1, <1>6, <1>7, <1>8, <1>9, KeepSelection DEF SchedulerInv
<1>11. TypeOK'
  BY <1>1, <1>6, <1>7 DEF SchedulerInv, TypeOK, RunRow, JobRow
<1>12. /\ Busy' = Busy /\ InFlightItems' = InFlightItems
       /\ \A v \in Busy : worker'[v] = worker[v]
  BY <1>1, SameFlight
<1>13. OneItemPerRun'
  BY <1>1, <1>6, <1>12, KeepOneItem DEF SchedulerInv
<1>14. EffectsFollow' /\ ApprovalBeforeEffect'
  BY <1>1, <1>6, <1>12, KeepEffects, KeepGated DEF SchedulerInv
<1>15. ApprovalsFollow'
  BY <1>1, <1>6, <1>12, KeepApprovals DEF SchedulerInv
<1>16. QED
  BY <1>1, <1>10, <1>11, <1>12, <1>13, <1>14, <1>15, KeepSlots, KeepLeases DEF SchedulerInv

LEMMA ApprovalLapsesStep ==
    ASSUME SchedulerInv, NEW k \in Key, ApprovalLapses(k)
    PROVE  SchedulerInv'
<1> DEFINE q == [run[k] EXCEPT !.approval = "lapsed"]
<1>1. /\ UNCHANGED <<job, lease, prepared, sched, picks, held, reserved, total, channel, worker,
                     killed, faults, effects, approvedRuns, orphaned>>
      /\ run[k].approval = "approved" /\ run' = [run EXCEPT ![k] = q]
  BY DEF ApprovalLapses, dispatcher, history
<1>2. run \in [Key -> RunRow \cup {NoRun}]
  BY DEF SchedulerInv, TypeOK, RunRow
<1>3. run[k] # NoRun /\ run[k] \in RunRow
  BY <1>1, <1>2 DEF NoRun
<1>4. q \in RunRow /\ q # NoRun
  <2>1. q \in RunRow /\ q.approval = "lapsed"
    BY <1>3 DEF RunRow
  <2>2. QED
    BY <2>1 DEF NoRun
<1> HIDE DEF q
<1>5. /\ run' \in [Key -> RunRow \cup {NoRun}]
      /\ \A x \in Key : x # k => run'[x] = run[x]
      /\ \A x \in Key : run'[x] # NoRun <=> run[x] # NoRun
  BY <1>1, <1>2, <1>3, <1>4
<1>6. TypeOK'
  BY <1>1, <1>5 DEF SchedulerInv, TypeOK, RunRow
<1>7. SelectionIsFresh'
  BY <1>1, <1>5, KeepSelection DEF SchedulerInv
<1>8. /\ Busy' = Busy /\ InFlightItems' = InFlightItems
      /\ \A v \in Busy : worker'[v] = worker[v]
  BY <1>1, SameFlight
<1>9. OneItemPerRun'
  BY <1>1, <1>5, <1>8, KeepOneItem DEF SchedulerInv
<1>10. EffectsFollow' /\ ApprovalBeforeEffect'
  BY <1>1, <1>5, <1>8, KeepEffects, KeepGated DEF SchedulerInv
<1>11. ApprovalsFollow'
  BY <1>1, <1>5, <1>8, KeepApprovals DEF SchedulerInv
<1>12. QED
  BY <1>1, <1>6, <1>7, <1>8, <1>9, <1>10, <1>11, KeepSlots, KeepLeases DEF SchedulerInv

LEMMA LeaseExpiresStep ==
    ASSUME SchedulerInv, NEW j \in Job, LeaseExpires(j)
    PROVE  SchedulerInv'
<1> DEFINE n == [lease[j] EXCEPT !.expired = TRUE]
<1>1. /\ UNCHANGED <<job, run, prepared, sched, picks, held, reserved, total, channel, worker,
                     killed, faults, effects, approvedRuns, orphaned>>
      /\ ~lease[j].expired /\ lease' = [lease EXCEPT ![j] = n]
      /\ lease \in [Job -> [token: Nat, expired: BOOLEAN]]
  BY DEF LeaseExpires, dispatcher, history, SchedulerInv, TypeOK
<1>2. lease[j] # NoLease
  BY <1>1 DEF NoLease
<1>3. n \in [token: Nat, expired: BOOLEAN] /\ n.token = lease[j].token
  BY <1>1
<1> HIDE DEF n
<1>4. /\ lease' \in [Job -> [token: Nat, expired: BOOLEAN]] /\ lease'[j] = n
      /\ \A i \in Job : i # j => lease'[i] = lease[i]
  BY <1>1, <1>3
<1>5. TypeOK'
  BY <1>1, <1>4 DEF SchedulerInv, TypeOK
<1>6. SelectionIsFresh'
  BY <1>1, KeepSelection DEF SchedulerInv
<1>7. LeasesAreDispatched'
  BY <1>1, <1>2, <1>3, <1>4, DispatchUntouched, KeepLeases DEF SchedulerInv
<1>8. QED
  BY <1>1, <1>5, <1>6, <1>7, DispatchUntouched, KeepSlots DEF SchedulerInv

LEMMA CrashRestartStep ==
    ASSUME SchedulerInv, CrashRestart
    PROVE  SchedulerInv'
<1>1. /\ UNCHANGED <<job, lease, run, prepared, killed, effects, approvedRuns>>
      /\ faults < MaxFaults /\ faults' = faults + 1
      /\ orphaned' = orphaned \cup {j \in Job : InFlight(j)}
      /\ sched' = "running" /\ picks' = {} /\ held' = NoPick
      /\ reserved' = [a \in Agent |-> 0] /\ total' = 0
      /\ channel' = <<>> /\ worker' = [w \in Worker |-> NoItem]
  BY DEF CrashRestart, tables
<1>2. channel' \in Seq(Item) /\ Len(channel') = 0
  BY <1>1
<1>3. /\ 0 \in 0..GlobalConcurrency /\ 0 \in 0..PerAgentConcurrency /\ faults' \in 0..MaxFaults
      /\ 0 <= GlobalConcurrency
  BY <1>1, SchedulerAssumption DEF SchedulerInv, TypeOK
<1>4. TypeOK'
  BY <1>1, <1>2, <1>3 DEF SchedulerInv, TypeOK
<1>5. Busy' = {} /\ InFlightItems' = {} /\ 1..Len(channel') = {}
  BY <1>1, <1>2 DEF Busy, InFlightItems
<1>6. IsFiniteSet({}) /\ Cardinality({}) = 0
  BY FS_EmptySet
<1>7. OneItemPerRun'
  BY <1>5 DEF OneItemPerRun
<1>8. SelectionIsFresh'
  BY <1>1 DEF SchedulerInv, SelectionIsFresh, Due
<1>9. EffectsFollow' /\ ApprovalsFollow' /\ ApprovalBeforeEffect'
  BY <1>1, <1>5 DEF SchedulerInv, EffectsFollow, ApprovalsFollow, ApprovalBeforeEffect
<1>10. SlotsAccounted'
  <2>1. \A a \in Agent : reserved'[a] = 0 /\ OfAgent({}, a) = {} /\ Held(a)' = 0
    BY <1>1 DEF OfAgent, Held
  <2>2. \A a \in Agent : reserved'[a] = Cardinality(OfAgent({}, a)) + Held(a)'
    BY <1>6, <2>1
  <2>3. total' = Cardinality({}) + (IF held' # NoPick THEN 1 ELSE 0)
    BY <1>1, <1>6
  <2>4. QED
    BY <1>5, <2>2, <2>3, SlotsAfter
<1>11. LeasesAreDispatched'
  BY <1>1 DEF SchedulerInv, LeasesAreDispatched, InFlight
<1>12. QED
  BY <1>4, <1>5, <1>6, <1>7, <1>8, <1>9, <1>10, <1>11 DEF SchedulerInv

LEMMA SchedulerInvInit ==
    ASSUME Init
    PROVE  SchedulerInv
<1>1. /\ lease = [j \in Job |-> NoLease] /\ run = [k \in Key |-> NoRun]
      /\ prepared = [j \in Job |-> 0] /\ sched = "running" /\ picks = {} /\ held = NoPick
      /\ reserved = [a \in Agent |-> 0] /\ total = 0
      /\ channel = <<>> /\ worker = [w \in Worker |-> NoItem]
      /\ killed = FALSE /\ faults = 0
      /\ effects = [k \in Key |-> 0] /\ approvedRuns = {} /\ orphaned = {}
  BY DEF Init
<1>2. \A j \in Job : job[j] \in JobRow /\ job[j].due = 1 /\ ~job[j].ready
  <2> TAKE j \in Job
  <2> DEFINE s == IF Kind[j] = "notification" THEN "absent" ELSE "queued"
             r == [state |-> s, due |-> 1, ready |-> FALSE, review |-> FALSE]
  <2>1. job[j] = r
    BY DEF Init
  <2>2. s \in JobState
    BY DEF JobState
  <2> HIDE DEF s
  <2>3. r \in JobRow /\ r.due = 1 /\ ~r.ready
    BY <2>2 DEF JobRow
  <2>4. QED
    BY <2>1, <2>3
<1>3. job \in [Job -> JobRow]
  BY <1>2 DEF Init
<1>4. /\ 0 \in 0..GlobalConcurrency /\ 0 \in 0..PerAgentConcurrency /\ 0 \in 0..MaxFaults
      /\ 0 <= GlobalConcurrency /\ \A j \in Job : 1 \in Due(j)
  BY SchedulerAssumption DEF Due
<1>5. channel \in Seq(Item) /\ Len(channel) = 0
  BY <1>1
<1>6. lease \in [Job -> [token: Nat, expired: BOOLEAN]]
  BY <1>1 DEF NoLease
<1>7. TypeOK
  BY <1>1, <1>3, <1>4, <1>5, <1>6 DEF TypeOK, JobRow
<1>8. Busy = {} /\ InFlightItems = {} /\ 1..Len(channel) = {}
  BY <1>1, <1>5 DEF Busy, InFlightItems
<1>9. IsFiniteSet({}) /\ Cardinality({}) = 0
  BY FS_EmptySet
<1>10. OneItemPerRun
  BY <1>8 DEF OneItemPerRun
<1>11. \A j \in Job : \A d \in Due(j) : run[<<j, d>>] = NoRun
  BY <1>1, KeyFacts
<1>12. SelectionIsFresh
  BY <1>1, <1>2, <1>4, <1>11 DEF SelectionIsFresh
<1>13. EffectsFollow /\ ApprovalsFollow /\ ApprovalBeforeEffect
  BY <1>1, <1>8 DEF EffectsFollow, ApprovalsFollow, ApprovalBeforeEffect, NoRun
<1>14. SlotsAccounted
  <2>1. \A a \in Agent : reserved[a] = 0 /\ OfAgent({}, a) = {} /\ Held(a) = 0
    BY <1>1 DEF OfAgent, Held
  <2>2. \A a \in Agent : reserved[a] = Cardinality(OfAgent({}, a)) + Held(a)
    BY <1>9, <2>1
  <2>3. total = Cardinality({}) + (IF held # NoPick THEN 1 ELSE 0)
    BY <1>1, <1>9
  <2>4. QED
    BY <1>8, <2>2, <2>3, SlotsEquivalent
<1>15. LeasesAreDispatched
  BY <1>1 DEF LeasesAreDispatched
<1>16. QED
  BY <1>7, <1>8, <1>9, <1>10, <1>12, <1>13, <1>14, <1>15 DEF SchedulerInv

LEMMA DispatchFailsStep ==
    ASSUME SchedulerInv, NEW w \in Worker, DispatchFails(w)
    PROVE  SchedulerInv'
<1>1. w \in Busy
  BY DEF DispatchFails, Busy
<1>2. faults' \in 0..MaxFaults
  BY SchedulerAssumption DEF DispatchFails, SchedulerInv, TypeOK
<1>3. QED
  BY <1>1, <1>2, AbandonStep DEF DispatchFails, tables

LEMMA SchedulerInvNext ==
    ASSUME SchedulerInv, [Next]_vars
    PROVE  SchedulerInv'
<1>1. ASSUME NEW w \in Worker, WorkerStep(w) PROVE SchedulerInv'
  BY <1>1, ReceiveStep, CheckStep, MarkRunningStep, EffectStep, EndUndispatchedStep,
     EndDispatchedStep DEF WorkerStep
<1>2. CASE SchedulerStep
  <2>1. CASE StopScheduler
    BY <2>1, IdleStep DEF StopScheduler, SchedulerInv, TypeOK
  <2>2. QED
    BY <1>2, <2>1, PollStep, ReserveStep, PrepareStep DEF SchedulerStep
<1>3. CASE KillPlatform
  BY <1>3, IdleStep DEF KillPlatform, dispatcher, SchedulerInv, TypeOK
<1>4. CASE UNCHANGED vars
  BY <1>4, IdleStep DEF vars, dispatcher, SchedulerInv, TypeOK
<1>5. CASE TimePasses
  BY <1>5, BecomeDueStep, LeaseExpiresStep DEF TimePasses
<1>6. CASE \E k \in Key : Approve(k) \/ ApprovalLapses(k)
  BY <1>6, ApproveStep, ApprovalLapsesStep
<1>7. ASSUME NEW w \in Worker, DispatchFails(w) PROVE SchedulerInv'
  BY <1>7, DispatchFailsStep
<1>8. QED
  BY <1>1, <1>2, <1>3, <1>4, <1>5, <1>6, <1>7, PrepareFailsStep, CrashRestartStep DEF Next

\* The inductive invariant holds in every state the scheduler reaches.
THEOREM SchedulerInvariant == Spec => []SchedulerInv
<1>1. Init => SchedulerInv
  BY SchedulerInvInit
<1>2. SchedulerInv /\ [Next]_vars => SchedulerInv'
  BY SchedulerInvNext
<1>3. QED
  BY <1>1, <1>2, PTL DEF Spec

-----------------------------------------------------------------------------
(***************************************************************************)
(* Results.                                                                 *)
(***************************************************************************)

(* The rows, the slots and the channel stay in range: the agents' counts    *)
(* within per_agent_concurrency, queued_slots and the dispatch channel      *)
(* within global_concurrency, and no count below zero (reserve_slot,        *)
(* release_slot, try_send).                                                 *)
THEOREM SchedulerTypeCorrect == Spec => []TypeOK
<1>1. SchedulerInv => TypeOK
  BY DEF SchedulerInv
<1>2. QED
  BY <1>1, SchedulerInvariant, PTL

(* reserve_slot and release_slot are paired on every way through a          *)
(* dispatch, for any number of agents, workers, crashes and failing writes: *)
(* no slot is leaked and none is given back twice.                          *)
THEOREM SlotsAddUp == Spec => []SlotsAccounted
<1>1. SchedulerInv => SlotsAccounted
  BY DEF SchedulerInv
<1>2. QED
  BY <1>1, SchedulerInvariant, PTL

(* Unless a crash or an error ended its dispatch, a leased job has an item  *)
(* with the lease's token in the channel or at a worker: the try_send that  *)
(* follows prepare_dispatch never meets a full channel.                     *)
THEOREM LeasesHaveDispatch == Spec => []LeasesAreDispatched
<1>1. SchedulerInv => LeasesAreDispatched
  BY DEF SchedulerInv
<1>2. QED
  BY <1>1, SchedulerInvariant, PTL

(* A run's side effect (dispatch_workflow, dispatch_heartbeat,              *)
(* dispatch_notification) happens at most once, over crashes, retries,      *)
(* expired leases and approvals.                                            *)
THEOREM EffectsHappenOnce == Spec => []EffectOncePerRun
<1>1. SchedulerInv => EffectOncePerRun
  BY DEF SchedulerInv, EffectsFollow, EffectOncePerRun
<1>2. QED
  BY <1>1, SchedulerInvariant, PTL

(* A job with an approval_policy has no side effect on a run that no        *)
(* operator approved (approve_run), whenever the approval came or lapsed.   *)
THEOREM EffectsAreApproved == Spec => []ApprovalBeforeEffect
<1>1. SchedulerInv => ApprovalBeforeEffect
  BY DEF SchedulerInv
<1>2. QED
  BY <1>1, SchedulerInvariant, PTL

(* With the default per_agent_concurrency of one, a job never has two       *)
(* dispatches in flight: the agent's slot excludes the second one, also     *)
(* where the lease has expired under a long run and an approval has queued  *)
(* the job again.                                                           *)
THEOREM OneDispatchPerJob ==
    ASSUME PerAgentConcurrency = 1
    PROVE  Spec => []NoOverlap
<1>1. ASSUME SchedulerInv PROVE NoOverlap
  <2> SUFFICES ASSUME NEW x \in InFlightItems, NEW y \in InFlightItems,
                      x.key[1] = y.key[1], x # y
               PROVE  FALSE
    BY DEF NoOverlap
  <2> DEFINE a == AgentOf[x.key[1]]
             S == OfAgent(InFlightItems, a)
  <2>1. a \in Agent
    BY <1>1, ItemFacts, AgentOfKey DEF SchedulerInv
  <2>2. x \in S /\ y \in S /\ S \in SUBSET InFlightItems
    BY DEF OfAgent
  <2>3. IsFiniteSet(S)
    BY <1>1, <2>2, FS_Subset DEF SchedulerInv
  <2>4. reserved[a] = Cardinality(S) + Held(a) /\ reserved[a] \in 0..1 /\ Held(a) \in {0, 1}
    BY <1>1, <2>1, SlotsEquivalent DEF SchedulerInv, TypeOK, Held
  <2> HIDE DEF S
  <2>5. /\ Cardinality(S \ {x}) = Cardinality(S) - 1 /\ Cardinality(S) \in Nat
        /\ IsFiniteSet(S \ {x})
    BY <2>2, <2>3, CountRemoved
  <2>6. Cardinality((S \ {x}) \ {y}) = Cardinality(S \ {x}) - 1
        /\ Cardinality((S \ {x}) \ {y}) \in Nat
    BY <2>2, <2>5, CountRemoved
  <2>7. QED
    BY <2>4, <2>5, <2>6
<1>2. SchedulerInv => NoOverlap
  BY <1>1
<1>3. QED
  BY <1>2, SchedulerInvariant, PTL
==============================================================================
