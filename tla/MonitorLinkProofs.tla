--------------------------- MODULE MonitorLinkProofs ---------------------------
(***************************************************************************)
(* Proofs about the link to the monitor (MonitorLink.tla), for every set of  *)
(* tasks and of coordinators, every size of the buffer, every threshold, and *)
(* any number of events, outages and rejections.                            *)
(***************************************************************************)
EXTENDS MonitorLink, FiniteSetTheorems, WellFoundedInduction, TLAPS

NoRepeats(s) == \A i, j \in 1..Len(s) : s[i] = s[j] => i = j

\* A task has an event in hand exactly while it routes one.
HandsKnown ==
    \A t \in Task :
        /\ task[t].event \in 0..emitted
        /\ task[t].event # NoEvent <=> task[t].pc \in {"send", "push"}

\* The buffer holds emitted events, each once.
BufferKnown == NoRepeats(buffer) /\ Elements(buffer) \subseteq 1..emitted

\* A recovery holds events only while it replays them or puts them back, each
\* once, and it knows what it is about to store.
RecoveryKnown(r) ==
    /\ r.pc \notin {"replay", "requeue"} => r.replay = <<>>
    /\ r.pc \in {"load", "store"} => r.to # "none"
    /\ NoRepeats(r.replay)
    /\ Elements(r.replay) \subseteq 1..emitted

ReplaysKnown == \A c \in Coordinator : RecoveryKnown(coord[c])

\* No event is in two places: two hands, two recoveries, a hand and the buffer,
\* a hand and a recovery, the buffer and a recovery.
HandsApart == \A t, u \in Task : task[t].event = task[u].event => t = u \/ task[t].event = NoEvent
ReplaysApart ==
    \A c, d \in Coordinator :
        c # d => Elements(coord[c].replay) \cap Elements(coord[d].replay) = {}
HandsOffBuffer == \A t \in Task : task[t].event \notin Elements(buffer)
HandsOffReplays == \A t \in Task, c \in Coordinator : task[t].event \notin Elements(coord[c].replay)
BufferOffReplays == \A c \in Coordinator : Elements(buffer) \cap Elements(coord[c].replay) = {}

\* Where an event is that the monitor has not received and nobody gave up.
Held(e) ==
    \/ \E t \in Task : task[t].event = e
    \/ e \in Elements(buffer)
    \/ \E c \in Coordinator : e \in Elements(coord[c].replay)

NothingLost == \A e \in 1..emitted : Held(e) \/ e \in delivered \cup dropped

\* Every event is in one place at most, and accounted for.
EventsPlaced ==
    /\ HandsKnown /\ BufferKnown
    /\ HandsApart /\ ReplaysApart
    /\ HandsOffBuffer /\ HandsOffReplays /\ BufferOffReplays
    /\ NothingLost

\* The inductive invariant.
LinkInv == TypeOK /\ ReplaysKnown /\ EventsPlaced /\ RecoveringHasCoordinator

--------------------------------------------------------------------------------
(***************************************************************************)
(* The buffer: what push and the requeueing of a failed replay do to a       *)
(* sequence of events.                                                     *)
(***************************************************************************)

\* A set of numbers that is not empty has a smallest one.
LEMMA LeastNumber ==
  ASSUME NEW T, T \subseteq Nat, T # {}
  PROVE  \E x \in T : \A y \in T : x <= y
  <1> DEFINE R == OpToRel(<, Nat)
  <1>1. IsWellFoundedOn(R, Nat)
    BY NatLessThanWellFounded
  <1>2. \A x, y \in Nat : x < y => <<x, y>> \in R
    BY DEF OpToRel
  <1> HIDE DEF R
  <1>3. PICK x \in T : \A y \in T : ~(<<y, x>> \in R)
    BY <1>1, WFMin
  <1>4. ASSUME NEW y \in T PROVE x <= y
    <2>1. x \in Nat /\ y \in Nat
      OBVIOUS
    <2>2. ~(y < x)
      BY <1>2, <1>3, <2>1
    <2> QED
      BY <2>1, <2>2
  <1> QED
    BY <1>4

\* push stops evicting: at the first number of evicted events that leaves room,
\* or when nothing is left.
LEMMA EvictionEnds ==
  ASSUME NEW b \in Seq(Event), NEW e
  PROVE  \E n \in 0..Len(b) :
            /\ KeptWhenPushing(b, e) = WithoutOldest(b, n)
            /\ n = Len(b) \/ HasRoom(WithoutOldest(b, n), e)
            /\ \A k \in 0..(n - 1) : ~HasRoom(WithoutOldest(b, k), e)
  <1> DEFINE Stops(n) == n = Len(b) \/ HasRoom(WithoutOldest(b, n), e)
             T == {n \in 0..Len(b) : Stops(n)}
             Ends(n) == /\ Stops(n)
                        /\ \A k \in 0..(n - 1) : ~HasRoom(WithoutOldest(b, k), e)
  <1>1. Len(b) \in Nat
    OBVIOUS
  <1>2. T \subseteq Nat /\ T # {}
    <2>1. Len(b) \in T
      BY <1>1
    <2> QED
      BY <1>1, <2>1
  <1>3. PICK n \in T : \A k \in T : n <= k
    <2> HIDE DEF T
    <2> QED
      BY <1>2, LeastNumber
  <1>4. n \in 0..Len(b) /\ Stops(n)
    BY <1>3
  <1>5. ASSUME NEW k \in 0..(n - 1) PROVE ~HasRoom(WithoutOldest(b, k), e)
    <2>1. k \in 0..Len(b) /\ ~(n <= k)
      BY <1>1, <1>4
    <2>2. k \notin T
      BY <1>3, <2>1
    <2> QED
      BY <2>1, <2>2
  <1>6. \E m \in 0..Len(b) : Ends(m)
    BY <1>4, <1>5
  <1> DEFINE m == CHOOSE m \in 0..Len(b) : Ends(m)
  <1>7. m \in 0..Len(b) /\ Ends(m)
    <2> HIDE DEF Ends
    <2> QED
      BY <1>6
  <1>8. KeptWhenPushing(b, e) = WithoutOldest(b, m)
    BY DEF KeptWhenPushing
  <1> HIDE DEF m
  <1> QED
    BY <1>7, <1>8

\* Pushing keeps the newest events of the buffer, fewer than the limit.
LEMMA KeptIsSuffix ==
  ASSUME NEW b \in Seq(Event), NEW e
  PROVE  LET kept == KeptWhenPushing(b, e)
         IN  \E off \in 0..Len(b) :
                /\ kept \in Seq(Event) /\ Len(kept) = Len(b) - off
                /\ Len(kept) < BufferSize
                /\ \A i \in 1..Len(kept) : kept[i] = b[i + off]
  <1> DEFINE kept == KeptWhenPushing(b, e)
  <1>0. BufferSize \in Nat /\ BufferSize > 0 /\ Len(b) \in Nat
    BY LinkAssumption
  <1>1. PICK off \in 0..Len(b) :
            /\ kept = WithoutOldest(b, off)
            /\ off = Len(b) \/ HasRoom(WithoutOldest(b, off), e)
    BY EvictionEnds
  <1>2. kept = SubSeq(b, off + 1, Len(b))
    BY <1>1 DEF WithoutOldest
  <1>3. /\ kept \in Seq(Event) /\ Len(kept) = Len(b) - off
        /\ \A i \in 1..Len(kept) : kept[i] = b[i + off]
    BY <1>0, <1>1, <1>2
  <1>4. Len(kept) < BufferSize
    <2>1. CASE off = Len(b)
      BY <1>0, <1>3, <2>1
    <2>2. CASE HasRoom(WithoutOldest(b, off), e)
      BY <1>1, <2>2 DEF HasRoom
    <2> QED
      BY <1>1, <2>1, <2>2
  <1> HIDE DEF kept
  <1> QED
    BY <1>3, <1>4 DEF kept

\* A sequence put together from two that share nothing repeats nothing if they
\* do not, and has the elements of both.
LEMMA ConcatElements ==
  ASSUME NEW a \in Seq(Event), NEW b \in Seq(Event)
  PROVE  /\ a \o b \in Seq(Event) /\ Len(a \o b) = Len(a) + Len(b)
         /\ Elements(a \o b) = Elements(a) \cup Elements(b)
         /\ NoRepeats(a) /\ NoRepeats(b) /\ Elements(a) \cap Elements(b) = {} => NoRepeats(a \o b)
  <1> DEFINE s == a \o b
  <1>1. s \in Seq(Event) /\ Len(s) = Len(a) + Len(b) /\ Len(a) \in Nat /\ Len(b) \in Nat
    OBVIOUS
  <1>2. /\ \A i \in 1..Len(a) : i \in 1..Len(s) /\ s[i] = a[i]
        /\ \A i \in 1..Len(b) : i + Len(a) \in 1..Len(s) /\ s[i + Len(a)] = b[i]
    BY <1>1
  <1>3. \A i \in 1..Len(s) : \/ i \in 1..Len(a) /\ s[i] = a[i]
                             \/ i - Len(a) \in 1..Len(b) /\ s[i] = b[i - Len(a)]
    BY <1>1
  <1>4. Elements(s) = Elements(a) \cup Elements(b)
    <2>1. ASSUME NEW x \in Elements(s) PROVE x \in Elements(a) \cup Elements(b)
      <3>1. PICK i \in 1..Len(s) : x = s[i]
        BY <2>1 DEF Elements
      <3> QED
        BY <1>3, <3>1 DEF Elements
    <2>2. ASSUME NEW x \in Elements(a) PROVE x \in Elements(s)
      BY <1>2, <2>2 DEF Elements
    <2>3. ASSUME NEW x \in Elements(b) PROVE x \in Elements(s)
      BY <1>2, <2>3 DEF Elements
    <2> QED
      BY <2>1, <2>2, <2>3
  <1>5. ASSUME NoRepeats(a), NoRepeats(b), Elements(a) \cap Elements(b) = {}
        PROVE  NoRepeats(s)
    <2> SUFFICES ASSUME NEW i \in 1..Len(s), NEW j \in 1..Len(s), s[i] = s[j] PROVE i = j
      BY DEF NoRepeats
    <2>1. \A k \in 1..Len(a), l \in 1..Len(b) : a[k] # b[l]
      BY <1>5 DEF Elements
    <2>2. CASE i \in 1..Len(a) /\ s[i] = a[i] /\ j \in 1..Len(a) /\ s[j] = a[j]
      BY <2>2, <1>5 DEF NoRepeats
    <2>3. CASE /\ i - Len(a) \in 1..Len(b) /\ s[i] = b[i - Len(a)]
               /\ j - Len(a) \in 1..Len(b) /\ s[j] = b[j - Len(a)]
      <3>1. i - Len(a) = j - Len(a)
        BY <2>3, <1>5 DEF NoRepeats
      <3> QED
        BY <3>1, <1>1
    <2> QED
      BY <1>3, <2>1, <2>2, <2>3
  <1> QED
    BY <1>1, <1>4, <1>5

\* One event alone.
LEMMA SingleEvent ==
  ASSUME NEW e \in Event
  PROVE  /\ <<e>> \in Seq(Event) /\ Len(<<e>>) = 1
         /\ Elements(<<e>>) = {e} /\ NoRepeats(<<e>>)
  <1>1. <<e>> \in Seq(Event) /\ Len(<<e>>) = 1 /\ <<e>>[1] = e
    OBVIOUS
  <1>2. Elements(<<e>>) = {e}
    BY <1>1 DEF Elements
  <1>3. NoRepeats(<<e>>)
    BY <1>1 DEF NoRepeats
  <1> QED
    BY <1>1, <1>2, <1>3

\* push: the new buffer fits, ends with the pushed event, repeats nothing, and
\* every event it no longer has is one that push evicted.
LEMMA PushEffect ==
  ASSUME NEW b \in Seq(Event), NEW e \in Event, NoRepeats(b), e \notin Elements(b)
  PROVE  LET kept == KeptWhenPushing(b, e)
             new == Append(kept, e)
         IN  /\ new \in Seq(Event) /\ Len(new) <= BufferSize /\ NoRepeats(new)
             /\ Elements(kept) \subseteq Elements(b)
             /\ Elements(new) = Elements(kept) \cup {e}
  <1> DEFINE kept == KeptWhenPushing(b, e)
             one == <<e>>
             new == Append(kept, e)
  <1>0. BufferSize \in Nat /\ Len(b) \in Nat
    BY LinkAssumption
  <1>1. PICK off \in 0..Len(b) :
                /\ kept \in Seq(Event) /\ Len(kept) = Len(b) - off
                /\ Len(kept) < BufferSize
                /\ \A i \in 1..Len(kept) : kept[i] = b[i + off]
    BY KeptIsSuffix
  <1> HIDE DEF kept
  <1>2. \A i \in 1..Len(kept) : i + off \in 1..Len(b) /\ kept[i] = b[i + off]
    BY <1>0, <1>1
  <1>3. Elements(kept) \subseteq Elements(b)
    BY <1>2 DEF Elements
  <1>4. NoRepeats(kept)
    <2> SUFFICES ASSUME NEW i \in 1..Len(kept), NEW j \in 1..Len(kept), kept[i] = kept[j]
                 PROVE  i = j
      BY DEF NoRepeats
    <2>1. i + off = j + off
      BY <1>2 DEF NoRepeats
    <2> QED
      BY <2>1, <1>1
  <1>5. one \in Seq(Event) /\ Len(one) = 1 /\ Elements(one) = {e} /\ NoRepeats(one)
    BY SingleEvent
  <1>6. new = kept \o one
    BY <1>1
  <1> HIDE DEF one, new
  <1>7. /\ new \in Seq(Event) /\ Len(new) = Len(kept) + 1 /\ NoRepeats(new)
        /\ Elements(new) = Elements(kept) \cup {e}
    BY <1>1, <1>3, <1>4, <1>5, <1>6, ConcatElements
  <1>8. Len(new) <= BufferSize
    BY <1>0, <1>1, <1>7
  <1> QED
    BY <1>3, <1>7, <1>8 DEF new, kept

\* The head and the tail of a replay: nothing else is in it, and the head is not
\* in the tail.
LEMMA HeadAndTail ==
  ASSUME NEW es \in Seq(Event), es # <<>>
  PROVE  /\ Head(es) \in Event /\ Tail(es) \in Seq(Event) /\ Len(Tail(es)) < Len(es)
         /\ Elements(es) = {Head(es)} \cup Elements(Tail(es))
         /\ NoRepeats(es) => NoRepeats(Tail(es)) /\ Head(es) \notin Elements(Tail(es))
  <1>1. /\ Len(es) \in Nat /\ Len(es) > 0 /\ Head(es) = es[1] /\ es[1] \in Event
        /\ Tail(es) \in Seq(Event) /\ Len(Tail(es)) = Len(es) - 1
        /\ \A i \in 1..Len(Tail(es)) : Tail(es)[i] = es[i + 1]
    OBVIOUS
  <1>2. \A i \in 1..Len(Tail(es)) : i + 1 \in 1..Len(es) /\ i + 1 # 1 /\ Tail(es)[i] = es[i + 1]
    BY <1>1
  <1>3. \A i \in 1..Len(es) : \/ i = 1
                              \/ i - 1 \in 1..Len(Tail(es)) /\ es[i] = Tail(es)[i - 1]
    BY <1>1
  <1>4. Elements(es) = {Head(es)} \cup Elements(Tail(es))
    <2>1. ASSUME NEW x \in Elements(es) PROVE x \in {Head(es)} \cup Elements(Tail(es))
      <3>1. PICK i \in 1..Len(es) : x = es[i]
        BY <2>1 DEF Elements
      <3> QED
        BY <1>1, <1>3, <3>1 DEF Elements
    <2>2. Head(es) \in Elements(es)
      BY <1>1 DEF Elements
    <2>3. ASSUME NEW x \in Elements(Tail(es)) PROVE x \in Elements(es)
      BY <1>2, <2>3 DEF Elements
    <2> QED
      BY <2>1, <2>2, <2>3
  <1>5. ASSUME NoRepeats(es)
        PROVE  NoRepeats(Tail(es)) /\ Head(es) \notin Elements(Tail(es))
    <2>1. NoRepeats(Tail(es))
      <3> SUFFICES ASSUME NEW i \in 1..Len(Tail(es)), NEW j \in 1..Len(Tail(es)),
                          Tail(es)[i] = Tail(es)[j]
                   PROVE  i = j
        BY DEF NoRepeats
      <3>1. i + 1 = j + 1
        BY <1>2, <1>5 DEF NoRepeats
      <3> QED
        BY <3>1
    <2>2. Head(es) \notin Elements(Tail(es))
      <3>1. 1 \in 1..Len(es)
        BY <1>1
      <3> QED
        BY <1>1, <1>2, <1>5, <3>1 DEF NoRepeats, Elements
    <2> QED
      BY <2>1, <2>2
  <1> QED
    BY <1>1, <1>4, <1>5

\* NoEvent is no element of a sequence of events.
LEMMA EventsOf ==
  ASSUME NEW s \in Seq(Event)
  PROVE  Elements(s) \subseteq Event /\ NoEvent \notin Elements(s)
  <1>1. \A i \in 1..Len(s) : s[i] \in Event
    OBVIOUS
  <1>2. NoEvent \notin Event
    BY LinkAssumption DEF NoEvent, Event
  <1> QED
    BY <1>1, <1>2 DEF Elements

LEMMA EmptyElements == Elements(<<>>) = {} /\ NoRepeats(<<>>) /\ Len(<<>>) <= BufferSize
  BY LinkAssumption DEF Elements, NoRepeats


--------------------------------------------------------------------------------
(***************************************************************************)
(* What the steps have in common.                                          *)
(***************************************************************************)

\* The recovery record of a coordinator.
Recovery == [pc: {"idle", "check", "replay", "requeue", "load", "store"},
             to: {"none", "Degraded", "Healthy"},
             passed: 0..StabilityChecks, replay: Seq(Event)]

\* The records of a recovery that is over, or is about to request a state.
LEMMA RecoveryRecords ==
  ASSUME NEW r \in {Idle, Requesting("Degraded"), Requesting("Healthy")}
  PROVE  r \in Recovery /\ RecoveryKnown(r) /\ r.replay = <<>> /\ (r # Idle => r.pc = "load")
  <1>1. \/ r = [pc |-> "idle", to |-> "none", passed |-> 0, replay |-> <<>>] /\ r = Idle
        \/ r = [pc |-> "load", to |-> "Degraded", passed |-> 0, replay |-> <<>>]
        \/ r = [pc |-> "load", to |-> "Healthy", passed |-> 0, replay |-> <<>>]
    BY DEF Idle, Requesting
  <1>2. r \in Recovery
    <2>1. <<>> \in Seq(Event) /\ 0 \in 0..StabilityChecks
      BY LinkAssumption
    <2>2. \A p \in {"idle", "load"}, to \in {"none", "Degraded", "Healthy"} :
            [pc |-> p, to |-> to, passed |-> 0, replay |-> <<>>] \in Recovery
      BY <2>1 DEF Recovery
    <2> QED
      BY <1>1, <2>2
  <1>3. /\ r.replay = <<>>
        /\ r # Idle => r.pc = "load"
        /\ r.pc \in {"load", "store"} => r.to # "none"
    BY <1>1
  <1>4. RecoveryKnown(r)
    BY <1>3, EmptyElements DEF RecoveryKnown
  <1> QED
    BY <1>2, <1>3, <1>4

LEMMA EmittedType ==
  ASSUME TypeOK
  PROVE  emitted \in Nat /\ MaxEvents \in Nat /\ emitted <= MaxEvents
  <1>1. emitted \in 0..MaxEvents
    BY DEF TypeOK
  <1> QED
    BY <1>1, LinkAssumption

\* A step of one coordinator, by what it does to its record.
LEMMA CoordinatorMoves ==
  ASSUME TypeOK, ReplaysKnown, NEW c \in Coordinator, NEW r \in Recovery, RecoveryKnown(r),
         coord' = [coord EXCEPT ![c] = r], UNCHANGED emitted
  PROVE  /\ coord' \in [Coordinator -> Recovery]
         /\ ReplaysKnown'
         /\ coord'[c] = r
         /\ \A d \in Coordinator : d # c => coord'[d] = coord[d]
  <1>1. coord \in [Coordinator -> Recovery]
    BY DEF TypeOK, Recovery
  <1>2. /\ coord' \in [Coordinator -> Recovery] /\ coord'[c] = r
        /\ \A d \in Coordinator : d # c => coord'[d] = coord[d]
    BY <1>1
  <1>3. ReplaysKnown'
    BY <1>2 DEF ReplaysKnown, RecoveryKnown
  <1> QED
    BY <1>2, <1>3

\* Steps that leave every event where it is keep them accounted for.
LEMMA EventsStay ==
  ASSUME EventsPlaced, \A c \in Coordinator : coord'[c].replay = coord[c].replay,
         UNCHANGED <<task, buffer, emitted, delivered, dropped>>
  PROVE  EventsPlaced'
  <1>1. HandsKnown' /\ BufferKnown'
    BY DEF EventsPlaced, HandsKnown, BufferKnown
  <1>2. HandsApart' /\ ReplaysApart'
    BY DEF EventsPlaced, HandsApart, ReplaysApart
  <1>3. HandsOffBuffer' /\ HandsOffReplays' /\ BufferOffReplays'
    BY DEF EventsPlaced, HandsOffBuffer, HandsOffReplays, BufferOffReplays
  <1>4. NothingLost'
    BY DEF EventsPlaced, NothingLost, Held
  <1> QED
    BY <1>1, <1>2, <1>3, <1>4 DEF EventsPlaced

\* An answer to a send: the monitor's events grow, by the one sent at most.
LEMMA SendEffect ==
  ASSUME TypeOK, NEW e \in Event, Accepted(e) \/ Refused(e)
  PROVE  /\ delivered \subseteq delivered' /\ delivered' \subseteq Event
         /\ rejections' \in 0..MaxRejections
         /\ Accepted(e) => e \in delivered'
  <1>1. delivered \subseteq Event /\ rejections \in 0..MaxRejections /\ MaxRejections \in Nat
    BY LinkAssumption DEF TypeOK
  <1>2. rejections' \in 0..MaxRejections
    BY <1>1 DEF Accepted, Refused
  <1>3. delivered' \in {delivered, delivered \cup {e}}
    BY DEF Accepted, Refused
  <1>4. Accepted(e) => e \in delivered'
    BY DEF Accepted
  <1> QED
    BY <1>1, <1>2, <1>3, <1>4

\* Push into the buffer of the gateway.
LEMMA BufferPushed ==
  ASSUME TypeOK, BufferKnown, NEW e \in Event, e \notin Elements(buffer), Push(e)
  PROVE  /\ buffer' \in Seq(Event) /\ Len(buffer') <= BufferSize /\ NoRepeats(buffer')
         /\ Elements(buffer') \subseteq Elements(buffer) \cup {e}
         /\ e \in Elements(buffer')
         /\ dropped \subseteq dropped' /\ dropped' \subseteq Event
         /\ \A x \in Elements(buffer) : x \in Elements(buffer') \/ x \in dropped'
  <1> DEFINE kept == KeptWhenPushing(buffer, e)
  <1>1. buffer \in Seq(Event) /\ Len(buffer) <= BufferSize /\ dropped \subseteq Event
    BY DEF TypeOK
  <1>2. /\ buffer' \in Seq(Event) /\ Len(buffer') <= BufferSize /\ NoRepeats(buffer')
        /\ Elements(kept) \subseteq Elements(buffer)
        /\ Elements(buffer') = Elements(kept) \cup {e}
    <2>1. buffer' = Append(kept, e)
      BY DEF Push
    <2>2. NoRepeats(buffer)
      BY DEF BufferKnown
    <2> HIDE DEF kept
    <2> QED
      BY <1>1, <2>1, <2>2, PushEffect DEF kept
  <1>3. dropped' = dropped \cup (Elements(buffer) \ Elements(kept))
    BY DEF Push
  <1>4. Elements(buffer) \subseteq Event
    BY <1>1, EventsOf
  <1> QED
    BY <1>1, <1>2, <1>3, <1>4

--------------------------------------------------------------------------------
(***************************************************************************)
(* The health checker, the monitor, and the first steps of a shutdown.      *)
(***************************************************************************)
LEMMA CheckerKeepsInv ==
  ASSUME LinkInv, CheckSucceeds \/ CheckFails \/ CheckerStoresDegraded
  PROVE  LinkInv'
  <1>1. TypeOK'
    <2>1. failures' \in 0..FailureThreshold
      <3>1. failures \in 0..FailureThreshold /\ FailureThreshold \in Nat
        BY LinkAssumption DEF LinkInv, TypeOK
      <3>2. \/ failures' \in {0, failures}
            \/ failures < FailureThreshold /\ failures' = failures + 1
        BY DEF CheckSucceeds, CheckFails, CheckerStoresDegraded
      <3> QED
        BY <3>1, <3>2
    <2>2. /\ state' \in GatewayState
          /\ checker' \in {"wait", "store Degraded", "store Recovering", "cancelled"}
      BY DEF LinkInv, TypeOK, CheckSucceeds, CheckFails, CheckerStoresDegraded, GatewayState
    <2>3. UNCHANGED <<coord, task, buffer, shutdown, monitor, ledger>>
      BY DEF CheckSucceeds, CheckFails, CheckerStoresDegraded
    <2> QED
      BY <2>1, <2>2, <2>3 DEF LinkInv, TypeOK, monitor, ledger
  <1>2. UNCHANGED <<coord, task, buffer, shutdown, emitted, delivered, dropped>>
    BY DEF CheckSucceeds, CheckFails, CheckerStoresDegraded, ledger
  <1>3. ReplaysKnown'
    BY <1>2 DEF LinkInv, ReplaysKnown, RecoveryKnown
  <1>4. EventsPlaced'
    BY <1>2, EventsStay DEF LinkInv
  <1>5. RecoveringHasCoordinator'
    BY DEF LinkInv, RecoveringHasCoordinator, Running, CheckSucceeds, CheckFails,
           CheckerStoresDegraded
  <1> QED
    BY <1>1, <1>3, <1>4, <1>5 DEF LinkInv

LEMMA CheckerStoresRecoveringKeepsInv ==
  ASSUME LinkInv, NEW c \in Coordinator, CheckerStoresRecovering(c)
  PROVE  LinkInv'
  <1> DEFINE r == [pc |-> "check", to |-> "none", passed |-> 0, replay |-> <<>>]
  <1>1. coord \in [Coordinator -> Recovery] /\ coord[c] = Idle
    BY DEF LinkInv, TypeOK, Recovery, CheckerStoresRecovering
  <1>2. r \in Recovery
    <2>1. <<>> \in Seq(Event) /\ 0 \in 0..StabilityChecks
      BY LinkAssumption
    <2> QED
      BY <2>1 DEF Recovery
  <1>3. RecoveryKnown(r) /\ r # Idle
    BY EmptyElements DEF RecoveryKnown, Idle
  <1>4. coord' = [coord EXCEPT ![c] = r]
    <2>1. coord' = [coord EXCEPT ![c] = [coord[c] EXCEPT !.pc = "check"]]
      BY <1>1 DEF CheckerStoresRecovering
    <2>2. [coord[c] EXCEPT !.pc = "check"] = r
      BY <1>1 DEF Idle
    <2> QED
      BY <2>1, <2>2
  <1>5. UNCHANGED <<task, buffer, shutdown, emitted, delivered, dropped, failures, up, outages,
                    rejections>>
    BY DEF CheckerStoresRecovering, monitor, ledger
  <1> HIDE DEF r
  <1>6. /\ coord' \in [Coordinator -> Recovery] /\ ReplaysKnown' /\ coord'[c] = r
        /\ \A d \in Coordinator : d # c => coord'[d] = coord[d]
    BY <1>2, <1>3, <1>4, <1>5, CoordinatorMoves DEF LinkInv
  <1>7. TypeOK'
    BY <1>5, <1>6 DEF LinkInv, TypeOK, Recovery, CheckerStoresRecovering, GatewayState
  <1>8. EventsPlaced'
    <2>1. \A d \in Coordinator : coord'[d].replay = coord[d].replay
      BY <1>1, <1>6 DEF r, Idle
    <2> QED
      BY <1>5, <2>1, EventsStay DEF LinkInv
  <1>9. RecoveringHasCoordinator'
    BY <1>3, <1>6 DEF RecoveringHasCoordinator
  <1> QED
    BY <1>6, <1>7, <1>8, <1>9 DEF LinkInv

\* Before it cancels the tasks, the shutdown only changes the state.
LEMMA ShutdownBeginsKeepsInv ==
  ASSUME LinkInv, ShutdownLoads \/ ShutdownStores
  PROVE  LinkInv'
  <1>1. UNCHANGED <<coord, task, buffer, emitted, delivered, dropped>>
    BY DEF ShutdownLoads, ShutdownStores, monitor, ledger
  <1>2. TypeOK'
    BY DEF LinkInv, TypeOK, ShutdownLoads, ShutdownStores, GatewayState, monitor, ledger
  <1>3. ReplaysKnown'
    BY <1>1 DEF LinkInv, ReplaysKnown, RecoveryKnown
  <1>4. EventsPlaced'
    BY <1>1, EventsStay DEF LinkInv
  <1>5. RecoveringHasCoordinator'
    BY DEF LinkInv, RecoveringHasCoordinator, Running, ShutdownLoads, ShutdownStores
  <1> QED
    BY <1>2, <1>3, <1>4, <1>5 DEF LinkInv

LEMMA MonitorKeepsInv ==
  ASSUME LinkInv, Outage \/ MonitorRestarts \/ UNCHANGED vars
  PROVE  LinkInv'
  <1>1. UNCHANGED <<state, checker, failures, coord, task, buffer, shutdown, rejections,
                    emitted, delivered, dropped>>
    BY DEF Outage, MonitorRestarts, vars, link, monitor, ledger
  <1>2. up' \in BOOLEAN
    BY DEF LinkInv, TypeOK, Outage, MonitorRestarts, vars, monitor
  <1>3. outages' \in 0..MaxOutages
    <2>1. outages \in 0..MaxOutages /\ MaxOutages \in Nat
      BY LinkAssumption DEF LinkInv, TypeOK
    <2>2. outages' = outages \/ (outages < MaxOutages /\ outages' = outages + 1)
      BY DEF Outage, MonitorRestarts, vars, monitor
    <2> QED
      BY <2>1, <2>2
  <1>4. TypeOK'
    BY <1>1, <1>2, <1>3 DEF LinkInv, TypeOK
  <1>5. ReplaysKnown'
    BY <1>1 DEF LinkInv, ReplaysKnown, RecoveryKnown
  <1>6. EventsPlaced'
    BY <1>1, EventsStay DEF LinkInv
  <1>7. RecoveringHasCoordinator'
    BY <1>1 DEF LinkInv, RecoveringHasCoordinator, Running
  <1> QED
    BY <1>4, <1>5, <1>6, <1>7 DEF LinkInv

--------------------------------------------------------------------------------
(***************************************************************************)
(* RecoveryCoordinator::attempt_recovery.                                  *)
(***************************************************************************)

\* A step of a coordinator that moves no event, and does not leave Recovering
\* behind when it ends.
LEMMA CoordinatorStays ==
  ASSUME LinkInv, NEW c \in Coordinator, NEW r \in Recovery, RecoveryKnown(r),
         r.replay = coord[c].replay, coord' = [coord EXCEPT ![c] = r],
         state' \in GatewayState, state' = "Recovering" => r # Idle,
         UNCHANGED <<checker, failures, task, buffer, shutdown, monitor, ledger>>
  PROVE  LinkInv'
  <1>1. UNCHANGED <<emitted, delivered, dropped, up, outages, rejections>>
    BY DEF monitor, ledger
  <1>2. /\ coord' \in [Coordinator -> Recovery] /\ ReplaysKnown' /\ coord'[c] = r
        /\ \A d \in Coordinator : d # c => coord'[d] = coord[d]
    BY <1>1, CoordinatorMoves DEF LinkInv
  <1>3. TypeOK'
    BY <1>1, <1>2 DEF LinkInv, TypeOK, Recovery
  <1>4. EventsPlaced'
    <2>1. \A d \in Coordinator : coord'[d].replay = coord[d].replay
      BY <1>2
    <2> QED
      BY <1>1, <2>1, EventsStay DEF LinkInv
  <1>5. RecoveringHasCoordinator'
    BY <1>2 DEF RecoveringHasCoordinator
  <1> QED
    BY <1>2, <1>3, <1>4, <1>5 DEF LinkInv

LEMMA GiveUpKeepsInv ==
  ASSUME LinkInv, NEW c \in Coordinator, coord[c].replay = <<>>,
         \E to \in {"Degraded", "Healthy"} : coord' = [coord EXCEPT ![c] = Requesting(to)],
         UNCHANGED <<state, checker, failures, task, buffer, shutdown, monitor, ledger>>
  PROVE  LinkInv'
  <1>1. PICK r \in {Requesting("Degraded"), Requesting("Healthy")} :
              coord' = [coord EXCEPT ![c] = r]
    OBVIOUS
  <1>2. r \in Recovery /\ RecoveryKnown(r) /\ r.replay = <<>>
    BY RecoveryRecords
  <1>3. r # Idle
    BY DEF Requesting, Idle
  <1>4. state' \in GatewayState
    BY DEF LinkInv, TypeOK
  <1> QED
    BY <1>1, <1>2, <1>3, <1>4, CoordinatorStays

\* The last check of a recovery takes the whole buffer for the replay.
LEMMA DrainKeepsInv ==
  ASSUME LinkInv, NEW c \in Coordinator, coord[c].replay = <<>>, NEW r \in Recovery,
         r.pc = "replay", r.replay = buffer, coord' = [coord EXCEPT ![c] = r], buffer' = <<>>,
         UNCHANGED <<state, checker, failures, task, shutdown, monitor, ledger>>
  PROVE  LinkInv'
  <1>1. UNCHANGED <<emitted, delivered, dropped, up, outages, rejections>>
    BY DEF monitor, ledger
  <1>2. RecoveryKnown(r) /\ r # Idle
    <2>1. NoRepeats(buffer) /\ Elements(buffer) \subseteq 1..emitted
      BY DEF LinkInv, EventsPlaced, BufferKnown
    <2> QED
      BY <2>1 DEF RecoveryKnown, Idle
  <1>3. /\ coord' \in [Coordinator -> Recovery] /\ ReplaysKnown' /\ coord'[c] = r
        /\ \A d \in Coordinator : d # c => coord'[d] = coord[d]
    BY <1>1, <1>2, CoordinatorMoves DEF LinkInv
  <1>4. TypeOK'
    <2>1. buffer' \in Seq(Event) /\ Len(buffer') <= BufferSize
      BY LinkAssumption
    <2> QED
      BY <1>1, <1>3, <2>1 DEF LinkInv, TypeOK, Recovery
  <1>5. /\ Elements(buffer') = {} /\ NoRepeats(buffer')
        /\ Elements(coord[c].replay) = {}
        /\ Elements(coord'[c].replay) = Elements(buffer)
        /\ \A d \in Coordinator : d # c => Elements(coord'[d].replay) = Elements(coord[d].replay)
    BY <1>3, EmptyElements
  <1>6. EventsPlaced'
    <2>1. HandsKnown' /\ BufferKnown'
      BY <1>1, <1>5 DEF LinkInv, EventsPlaced, HandsKnown, BufferKnown
    <2>2. HandsApart' /\ HandsOffBuffer' /\ BufferOffReplays'
      BY <1>5 DEF LinkInv, EventsPlaced, HandsApart, HandsOffBuffer, BufferOffReplays
    <2>3. ReplaysApart'
      BY <1>5 DEF LinkInv, EventsPlaced, ReplaysApart, BufferOffReplays
    <2>4. HandsOffReplays'
      BY <1>5 DEF LinkInv, EventsPlaced, HandsOffReplays, HandsOffBuffer
    <2>5. NothingLost'
      BY <1>1, <1>5 DEF LinkInv, EventsPlaced, NothingLost, Held
    <2> QED
      BY <2>1, <2>2, <2>3, <2>4, <2>5 DEF EventsPlaced
  <1>7. RecoveringHasCoordinator'
    BY <1>2, <1>3 DEF RecoveringHasCoordinator
  <1> QED
    BY <1>3, <1>4, <1>6, <1>7 DEF LinkInv

LEMMA StabilityCheckKeepsInv ==
  ASSUME LinkInv, NEW c \in Coordinator, StabilityCheck(c)
  PROVE  LinkInv'
  <1> DEFINE n == coord[c].passed + 1
  <1>1. coord[c] \in Recovery /\ RecoveryKnown(coord[c])
    BY DEF LinkInv, TypeOK, Recovery, ReplaysKnown
  <1>2. /\ coord[c].replay = <<>> /\ coord[c].passed \in Nat
        /\ coord[c].to \in {"none", "Degraded", "Healthy"}
    BY <1>1 DEF StabilityCheck, RecoveryKnown, Recovery
  <1>3. UNCHANGED <<state, checker, failures, task, shutdown, monitor, ledger>>
    BY DEF StabilityCheck
  <1>4. CASE ~up /\ GiveUp(c) /\ UNCHANGED buffer
    BY <1>2, <1>3, <1>4, GiveUpKeepsInv DEF GiveUp
  <1>5. CASE /\ up /\ n < StabilityChecks
             /\ coord' = [coord EXCEPT ![c].passed = n]
             /\ UNCHANGED buffer
    <2> DEFINE r == [coord[c] EXCEPT !.passed = n]
    <2>1. n \in 0..StabilityChecks
      BY <1>2, <1>5, LinkAssumption
    <2>2. r \in Recovery /\ RecoveryKnown(r) /\ r.replay = coord[c].replay /\ r.pc = "check"
      BY <1>1, <2>1 DEF Recovery, RecoveryKnown, StabilityCheck
    <2>3. coord' = [coord EXCEPT ![c] = r]
      BY <1>5
    <2>4. r # Idle /\ state' \in GatewayState
      BY <1>3, <2>2 DEF Idle, LinkInv, TypeOK
    <2> HIDE DEF r
    <2> QED
      BY <1>3, <1>5, <2>2, <2>3, <2>4, CoordinatorStays
  <1>6. CASE /\ up /\ n = StabilityChecks
             /\ coord' = [coord EXCEPT ![c] = [pc |-> "replay", to |-> @.to, passed |-> n,
                                                replay |-> buffer]]
             /\ buffer' = <<>>
    <2> DEFINE r == [pc |-> "replay", to |-> coord[c].to, passed |-> n, replay |-> buffer]
    <2>0. n \in 0..StabilityChecks
      BY <1>2, <1>6, LinkAssumption
    <2>1. buffer \in Seq(Event)
      BY DEF LinkInv, TypeOK
    <2>2. r \in Recovery /\ r.pc = "replay" /\ r.replay = buffer
      BY <1>2, <2>0, <2>1 DEF Recovery
    <2>3. coord' = [coord EXCEPT ![c] = r]
      BY <1>6
    <2> HIDE DEF r
    <2> QED
      BY <1>2, <1>3, <1>6, <2>2, <2>3, DrainKeepsInv
  <1> QED
    BY <1>4, <1>5, <1>6 DEF StabilityCheck

LEMMA ReplayDoneKeepsInv ==
  ASSUME LinkInv, NEW c \in Coordinator, ReplayDone(c)
  PROVE  LinkInv'
  <1>1. \E to \in {"Degraded", "Healthy"} : coord' = [coord EXCEPT ![c] = Requesting(to)]
    BY DEF ReplayDone, GiveUp
  <1> QED
    BY <1>1, GiveUpKeepsInv DEF ReplayDone

LEMMA CoordinatorLoadsKeepsInv ==
  ASSUME LinkInv, NEW c \in Coordinator, CoordinatorLoads(c)
  PROVE  LinkInv'
  <1> DEFINE r == IF CanTransition(state, coord[c].to) THEN [coord[c] EXCEPT !.pc = "store"]
                  ELSE Idle
  <1>1. coord[c] \in Recovery /\ RecoveryKnown(coord[c]) /\ coord[c].pc = "load"
    BY DEF LinkInv, TypeOK, Recovery, ReplaysKnown, CoordinatorLoads
  <1>2. coord[c].replay = <<>> /\ coord[c].to \in {"Degraded", "Healthy"}
    BY <1>1 DEF Recovery, RecoveryKnown
  <1>3. r \in Recovery /\ RecoveryKnown(r) /\ r.replay = coord[c].replay
    <2>1. CASE CanTransition(state, coord[c].to)
      <3>1. r = [coord[c] EXCEPT !.pc = "store"]
        BY <2>1
      <3> QED
        BY <1>1, <1>2, <3>1 DEF Recovery, RecoveryKnown
    <2>2. CASE ~CanTransition(state, coord[c].to)
      BY <1>2, <2>2, RecoveryRecords
    <2> QED
      BY <2>1, <2>2
  <1>4. state = "Recovering" => r # Idle
    <2>1. state = "Recovering" => CanTransition(state, coord[c].to)
      BY <1>2 DEF CanTransition
    <2> QED
      BY <1>1, <2>1 DEF Idle, Recovery
  <1>5. coord' = [coord EXCEPT ![c] = r]
    BY DEF CoordinatorLoads
  <1>6. UNCHANGED <<state, checker, failures, task, buffer, shutdown, monitor, ledger>>
    BY DEF CoordinatorLoads
  <1>7. state' \in GatewayState
    BY <1>6 DEF LinkInv, TypeOK
  <1> HIDE DEF r
  <1> QED
    BY <1>3, <1>4, <1>5, <1>6, <1>7, CoordinatorStays

LEMMA CoordinatorStoresKeepsInv ==
  ASSUME LinkInv, NEW c \in Coordinator, CoordinatorStores(c)
  PROVE  LinkInv'
  <1>1. coord[c] \in Recovery /\ RecoveryKnown(coord[c]) /\ coord[c].pc = "store"
    BY DEF LinkInv, TypeOK, Recovery, ReplaysKnown, CoordinatorStores
  <1>2. coord[c].replay = <<>> /\ state' \in {"Degraded", "Healthy"}
    BY <1>1 DEF Recovery, RecoveryKnown, CoordinatorStores
  <1>3. Idle \in Recovery /\ RecoveryKnown(Idle) /\ Idle.replay = <<>>
    BY RecoveryRecords
  <1>4. /\ coord' = [coord EXCEPT ![c] = Idle]
        /\ UNCHANGED <<checker, failures, task, buffer, shutdown, monitor, ledger>>
    BY DEF CoordinatorStores
  <1>5. state' \in GatewayState /\ state' # "Recovering"
    BY <1>2 DEF GatewayState
  <1> QED
    BY <1>2, <1>3, <1>4, <1>5, CoordinatorStays

--------------------------------------------------------------------------------
(***************************************************************************)
(* Events on the move.  Out(es) says that the hands and the recoveries have  *)
(* after the step what they had before it, except for events of es.         *)
(***************************************************************************)
Out(es) ==
    /\ \A t \in Task :
          \/ task'[t] = task[t] /\ task[t].event \notin es
          \/ /\ task'[t].event = NoEvent /\ task'[t].pc \notin {"send", "push"}
             /\ task[t].event \in es \cup {NoEvent}
    /\ \A c \in Coordinator :
          Elements(coord'[c].replay) = Elements(coord[c].replay) \ es

\* The event a step takes from a hand or a recovery, or emits, is pushed.
LEMMA PushKeepsPlaced ==
  ASSUME TypeOK, EventsPlaced, emitted' \in Nat, emitted <= emitted',
         NEW e \in Event, Push(e), e \in 1..emitted', e \notin Elements(buffer), Out({e}),
         1..emitted' \subseteq 1..emitted \cup {e}, delivered \subseteq delivered'
  PROVE  /\ EventsPlaced'
         /\ buffer' \in Seq(Event) /\ Len(buffer') <= BufferSize /\ dropped' \subseteq Event
  <1>0. emitted \in Nat /\ 1..emitted \subseteq 1..emitted' /\ 0..emitted \subseteq 0..emitted'
    <2>1. emitted \in Nat
      BY EmittedType
    <2> QED
      BY <2>1
  <1>1. /\ buffer' \in Seq(Event) /\ Len(buffer') <= BufferSize /\ NoRepeats(buffer')
        /\ Elements(buffer') \subseteq Elements(buffer) \cup {e}
        /\ e \in Elements(buffer')
        /\ dropped \subseteq dropped' /\ dropped' \subseteq Event
        /\ \A x \in Elements(buffer) : x \in Elements(buffer') \/ x \in dropped'
    BY BufferPushed DEF EventsPlaced
  <1>2. NoEvent \notin Elements(buffer')
    BY <1>1, EventsOf
  <1>3. HandsKnown'
    BY <1>0 DEF EventsPlaced, HandsKnown, Out, NoEvent
  <1>4. BufferKnown'
    BY <1>0, <1>1 DEF EventsPlaced, BufferKnown
  <1>5. HandsApart'
    BY DEF EventsPlaced, HandsApart, Out
  <1>6. ReplaysApart'
    BY DEF EventsPlaced, ReplaysApart, Out
  <1>7. HandsOffBuffer'
    BY <1>1, <1>2 DEF EventsPlaced, HandsOffBuffer, Out
  <1>8. HandsOffReplays'
    <2>1. \A c \in Coordinator : NoEvent \notin Elements(coord'[c].replay)
      <3>1. \A c \in Coordinator : coord[c].replay \in Seq(Event)
        BY DEF TypeOK
      <3> QED
        BY <3>1, EventsOf DEF Out
    <2> QED
      BY <2>1 DEF EventsPlaced, HandsOffReplays, Out
  <1>9. BufferOffReplays'
    BY <1>1 DEF EventsPlaced, BufferOffReplays, Out
  <1>10. NothingLost'
    <2> SUFFICES ASSUME NEW x \in 1..emitted' PROVE Held(x)' \/ x \in delivered' \cup dropped'
      BY DEF NothingLost
    <2>1. CASE x = e
      BY <1>1, <2>1 DEF Held
    <2>2. CASE x \in 1..emitted /\ x # e
      <3>1. Held(x) \/ x \in delivered \cup dropped
        BY <2>2 DEF EventsPlaced, NothingLost
      <3>2. x # NoEvent
        BY <2>2, <1>0 DEF NoEvent
      <3> QED
        BY <1>1, <2>2, <3>1, <3>2 DEF Held, Out
    <2> QED
      BY <2>1, <2>2
  <1> QED
    BY <1>1, <1>3, <1>4, <1>5, <1>6, <1>7, <1>8, <1>9, <1>10 DEF EventsPlaced

\* The events a step takes from hands and recoveries, or emits, are received by
\* the monitor or given up.
LEMMA SettleKeepsPlaced ==
  ASSUME TypeOK, EventsPlaced, emitted' \in Nat, emitted <= emitted',
         NEW es, UNCHANGED buffer, Out(es), es \cap Elements(buffer) = {},
         1..emitted' \subseteq 1..emitted \cup es, es \subseteq delivered' \cup dropped',
         delivered \subseteq delivered', dropped \subseteq dropped'
  PROVE  EventsPlaced'
  <1>0. emitted \in Nat /\ 1..emitted \subseteq 1..emitted' /\ 0..emitted \subseteq 0..emitted'
    <2>1. emitted \in Nat
      BY EmittedType
    <2> QED
      BY <2>1
  <1>2. NoEvent \notin Elements(buffer)
    BY EventsOf DEF TypeOK
  <1>3. HandsKnown'
    BY <1>0 DEF EventsPlaced, HandsKnown, Out, NoEvent
  <1>4. BufferKnown'
    BY <1>0 DEF EventsPlaced, BufferKnown
  <1>5. HandsApart'
    BY DEF EventsPlaced, HandsApart, Out
  <1>6. ReplaysApart'
    BY DEF EventsPlaced, ReplaysApart, Out
  <1>7. HandsOffBuffer'
    BY <1>2 DEF EventsPlaced, HandsOffBuffer, Out
  <1>8. HandsOffReplays'
    <2>1. \A c \in Coordinator : NoEvent \notin Elements(coord'[c].replay)
      <3>1. \A c \in Coordinator : coord[c].replay \in Seq(Event)
        BY DEF TypeOK
      <3> QED
        BY <3>1, EventsOf DEF Out
    <2> QED
      BY <2>1 DEF EventsPlaced, HandsOffReplays, Out
  <1>9. BufferOffReplays'
    BY DEF EventsPlaced, BufferOffReplays, Out
  <1>10. NothingLost'
    <2> SUFFICES ASSUME NEW e \in 1..emitted' PROVE Held(e)' \/ e \in delivered' \cup dropped'
      BY DEF NothingLost
    <2>1. CASE e \in es
      BY <2>1
    <2>2. CASE e \in 1..emitted /\ e \notin es
      <3>1. Held(e) \/ e \in delivered \cup dropped
        BY <2>2 DEF EventsPlaced, NothingLost
      <3>2. e # NoEvent
        BY <2>2, <1>0 DEF NoEvent
      <3> QED
        BY <2>2, <3>1, <3>2 DEF Held, Out
    <2> QED
      BY <2>1, <2>2
  <1> QED
    BY <1>3, <1>4, <1>5, <1>6, <1>7, <1>8, <1>9, <1>10 DEF EventsPlaced


\* The recoveries stay as they are while tasks and the shutdown move events.
LEMMA RecoveriesStay ==
  ASSUME LinkInv, UNCHANGED coord, emitted' \in Nat, emitted <= emitted'
  PROVE  ReplaysKnown'
  <1>1. 1..emitted \subseteq 1..emitted'
    <2>1. emitted \in Nat
      BY EmittedType DEF LinkInv
    <2> QED
      BY <2>1
  <1> QED
    BY <1>1 DEF LinkInv, ReplaysKnown, RecoveryKnown

\* The first event of a list that a recovery has goes back into the buffer.
LEMMA PutBackKeepsInv ==
  ASSUME LinkInv, NEW c \in Coordinator, coord[c].replay # <<>>, Push(Head(coord[c].replay)),
         NEW r \in Recovery, r.pc = "requeue", r.replay = Tail(coord[c].replay),
         coord' = [coord EXCEPT ![c] = r],
         delivered \subseteq delivered', delivered' \subseteq Event,
         rejections' \in 0..MaxRejections,
         UNCHANGED <<state, checker, failures, task, shutdown, up, outages, emitted>>
  PROVE  LinkInv'
  <1> DEFINE es == coord[c].replay
  <1>1. coord[c] \in Recovery /\ RecoveryKnown(coord[c])
    BY DEF LinkInv, TypeOK, Recovery, ReplaysKnown
  <1>2. es \in Seq(Event) /\ NoRepeats(es)
    BY <1>1 DEF Recovery, RecoveryKnown
  <1>3. /\ Head(es) \in Event /\ Tail(es) \in Seq(Event)
        /\ Elements(es) = {Head(es)} \cup Elements(Tail(es))
        /\ NoRepeats(Tail(es)) /\ Head(es) \notin Elements(Tail(es))
    BY <1>2, HeadAndTail
  <1>4. Elements(es) \subseteq 1..emitted /\ Elements(es) \cap Elements(buffer) = {}
    BY <1>1 DEF RecoveryKnown, LinkInv, EventsPlaced, BufferOffReplays
  <1>5. \A t \in Task : task[t].event \notin Elements(es)
    BY DEF LinkInv, EventsPlaced, HandsOffReplays
  <1>6. \A d \in Coordinator : d # c => Elements(coord[d].replay) \cap Elements(es) = {}
    BY DEF LinkInv, EventsPlaced, ReplaysApart
  <1>7. emitted \in Nat /\ emitted' = emitted
    BY EmittedType DEF LinkInv
  <1>8. RecoveryKnown(r) /\ r # Idle
    BY <1>3, <1>4 DEF RecoveryKnown, Idle
  <1>9. /\ coord' \in [Coordinator -> Recovery] /\ ReplaysKnown' /\ coord'[c] = r
        /\ \A d \in Coordinator : d # c => coord'[d] = coord[d]
    BY <1>8, CoordinatorMoves DEF LinkInv
  <1>10. Out({Head(es)})
    BY <1>3, <1>5, <1>6, <1>9 DEF Out
  <1> DEFINE e == Head(es)
  <1>11. /\ e \in Event /\ e \in 1..emitted' /\ e \notin Elements(buffer) /\ Push(e) /\ Out({e})
         /\ 1..emitted' \subseteq 1..emitted \cup {e}
    BY <1>3, <1>4, <1>7, <1>10
  <1> HIDE DEF e
  <1>12. /\ EventsPlaced'
         /\ buffer' \in Seq(Event) /\ Len(buffer') <= BufferSize /\ dropped' \subseteq Event
    BY <1>7, <1>11, PushKeepsPlaced DEF LinkInv
  <1>13. TypeOK'
    BY <1>9, <1>12 DEF LinkInv, TypeOK, Recovery
  <1>14. RecoveringHasCoordinator'
    BY <1>8, <1>9 DEF RecoveringHasCoordinator
  <1> QED
    BY <1>9, <1>12, <1>13, <1>14 DEF LinkInv

\* One event of a replay: the monitor receives it, or it goes back.
LEMMA ReplayKeepsInv ==
  ASSUME LinkInv, NEW c \in Coordinator, Replay(c)
  PROVE  LinkInv'
  <1> DEFINE es == coord[c].replay
  <1>1. /\ coord[c] \in Recovery /\ RecoveryKnown(coord[c]) /\ coord[c].pc = "replay"
        /\ es # <<>>
        /\ UNCHANGED <<state, checker, failures, task, shutdown, up, outages, emitted>>
    BY DEF LinkInv, TypeOK, Recovery, ReplaysKnown, Replay
  <1>2. es \in Seq(Event) /\ NoRepeats(es)
    BY <1>1 DEF Recovery, RecoveryKnown
  <1>3. /\ Head(es) \in Event /\ Tail(es) \in Seq(Event) /\ Len(Tail(es)) < Len(es)
        /\ Elements(es) = {Head(es)} \cup Elements(Tail(es))
        /\ NoRepeats(Tail(es)) /\ Head(es) \notin Elements(Tail(es))
    BY <1>1, <1>2, HeadAndTail
  <1>4. Elements(es) \subseteq 1..emitted /\ Elements(es) \cap Elements(buffer) = {}
    BY <1>1 DEF RecoveryKnown, LinkInv, EventsPlaced, BufferOffReplays
  <1>5. \A t \in Task : task[t].event \notin Elements(es)
    BY DEF LinkInv, EventsPlaced, HandsOffReplays
  <1>6. \A d \in Coordinator : d # c => Elements(coord[d].replay) \cap Elements(es) = {}
    BY DEF LinkInv, EventsPlaced, ReplaysApart
  <1>7. /\ delivered \subseteq delivered' /\ delivered' \subseteq Event
        /\ rejections' \in 0..MaxRejections /\ (Accepted(Head(es)) => Head(es) \in delivered')
    BY <1>3, SendEffect DEF LinkInv, Replay
  <1>8. emitted \in Nat /\ emitted' = emitted
    BY <1>1, EmittedType DEF LinkInv
  <1>9. CASE /\ Accepted(Head(es))
             /\ coord' = [coord EXCEPT ![c].replay = Tail(es)]
             /\ UNCHANGED <<buffer, dropped>>
    <2> DEFINE r == [coord[c] EXCEPT !.replay = Tail(es)]
    <2>1. r \in Recovery /\ r.replay = Tail(es) /\ r.pc = "replay"
      BY <1>1, <1>3 DEF Recovery
    <2>2. RecoveryKnown(r)
      <3>1. Elements(Tail(es)) \subseteq 1..emitted
        BY <1>3, <1>4
      <3> QED
        BY <1>3, <2>1, <3>1 DEF RecoveryKnown
    <2>3. coord' = [coord EXCEPT ![c] = r]
      BY <1>9
    <2>4. r # Idle
      BY <2>1 DEF Idle
    <2> HIDE DEF r
    <2>5. /\ coord' \in [Coordinator -> Recovery] /\ ReplaysKnown' /\ coord'[c] = r
          /\ \A d \in Coordinator : d # c => coord'[d] = coord[d]
      BY <1>1, <2>1, <2>2, <2>3, CoordinatorMoves DEF LinkInv
    <2>6. TypeOK'
      BY <1>1, <1>7, <1>9, <2>5 DEF LinkInv, TypeOK, Recovery
    <2>7. EventsPlaced'
      <3>1. Out({Head(es)})
        BY <1>1, <1>3, <1>5, <1>6, <2>1, <2>5 DEF Out
      <3> QED
        BY <1>3, <1>4, <1>7, <1>8, <1>9, <3>1, SettleKeepsPlaced DEF LinkInv
    <2>8. RecoveringHasCoordinator'
      BY <2>4, <2>5 DEF RecoveringHasCoordinator
    <2> QED
      BY <2>5, <2>6, <2>7, <2>8 DEF LinkInv
  <1>10. CASE /\ Refused(Head(es))
              /\ coord' = [coord EXCEPT ![c] = [pc |-> "requeue", to |-> @.to,
                                                 passed |-> @.passed, replay |-> Remaining(es)]]
              /\ Push(Head(es))
    <2> DEFINE r == [pc |-> "requeue", to |-> coord[c].to, passed |-> coord[c].passed,
                     replay |-> Tail(es)]
    <2>1. coord' = [coord EXCEPT ![c] = r]
      BY <1>10 DEF Remaining
    <2>2. coord[c].to \in {"none", "Degraded", "Healthy"} /\ coord[c].passed \in 0..StabilityChecks
      BY <1>1 DEF Recovery
    <2>3. r \in Recovery /\ r.replay = Tail(es) /\ r.pc = "requeue"
      BY <1>3, <2>2 DEF Recovery
    <2> HIDE DEF r
    <2> QED
      BY <1>7, <1>8, <1>10, <2>1, <2>3, PutBackKeepsInv DEF Replay
  <1> QED
    BY <1>9, <1>10 DEF Replay

LEMMA RequeueKeepsInv ==
  ASSUME LinkInv, NEW c \in Coordinator, Requeue(c)
  PROVE  LinkInv'
  <1> DEFINE es == coord[c].replay
             r == [coord[c] EXCEPT !.replay = Tail(es)]
  <1>1. /\ coord[c] \in Recovery /\ coord[c].pc = "requeue" /\ es # <<>> /\ es \in Seq(Event)
        /\ Push(Head(es))
        /\ UNCHANGED <<state, checker, failures, task, shutdown, up, outages, emitted,
                       rejections, delivered>>
    BY DEF LinkInv, TypeOK, Recovery, Requeue, monitor
  <1>2. Tail(es) \in Seq(Event)
    BY <1>1, HeadAndTail
  <1>3. r \in Recovery /\ r.replay = Tail(es) /\ r.pc = "requeue"
    BY <1>1, <1>2 DEF Recovery
  <1>4. coord' = [coord EXCEPT ![c] = r]
    BY DEF Requeue
  <1>5. delivered' \subseteq Event /\ rejections' \in 0..MaxRejections
    BY <1>1 DEF LinkInv, TypeOK
  <1> HIDE DEF r
  <1> QED
    BY <1>1, <1>3, <1>4, <1>5, PutBackKeepsInv

--------------------------------------------------------------------------------
(***************************************************************************)
(* ITPEventRouter::route.                                                  *)
(***************************************************************************)

\* The next event is in nobody's hands yet.
LEMMA NextEventIsNew ==
  ASSUME LinkInv, emitted < MaxEvents
  PROVE  LET e == emitted + 1
         IN  /\ e \in 0..MaxEvents /\ e \in Event /\ 1..e = 1..emitted \cup {e}
             /\ e \notin Elements(buffer)
             /\ \A t \in Task : task[t].event # e
             /\ \A c \in Coordinator : e \notin Elements(coord[c].replay)
  <1> DEFINE e == emitted + 1
  <1>1. /\ emitted \in Nat /\ e \in 0..MaxEvents /\ e \in Event /\ 1..e = 1..emitted \cup {e}
        /\ e \notin 0..emitted /\ e \notin 1..emitted
    BY EmittedType DEF LinkInv, Event
  <1>2. e \notin Elements(buffer)
    BY <1>1 DEF LinkInv, EventsPlaced, BufferKnown
  <1>3. \A t \in Task : task[t].event # e
    BY <1>1 DEF LinkInv, EventsPlaced, HandsKnown
  <1>4. \A c \in Coordinator : Elements(coord[c].replay) \subseteq 1..emitted
    BY DEF LinkInv, ReplaysKnown, RecoveryKnown
  <1> QED
    BY <1>1, <1>2, <1>3, <1>4

LEMMA RouteKeepsInv ==
  ASSUME LinkInv, NEW t \in Task, Route(t)
  PROVE  LinkInv'
  <1> DEFINE e == emitted + 1
  <1>1. /\ emitted \in Nat /\ emitted' = e /\ emitted' \in 0..MaxEvents /\ e \in Event
        /\ e # NoEvent /\ e \notin 0..emitted /\ MaxEvents \in Nat
        /\ 1..emitted' = 1..emitted \cup {e} /\ 0..emitted \subseteq 0..emitted'
    BY EmittedType DEF LinkInv, Route, Event, NoEvent
  <1>0. /\ e \notin Elements(buffer) /\ \A u \in Task : task[u].event # e
        /\ \A c \in Coordinator : e \notin Elements(coord[c].replay)
    BY NextEventIsNew DEF Route
  <1>2. /\ UNCHANGED <<state, checker, failures, coord, buffer, shutdown, up, outages, rejections,
                       delivered>>
        /\ task[t].pc = "idle"
    BY DEF Route, monitor
  <1>3. task[t].event = NoEvent
    BY <1>2 DEF LinkInv, EventsPlaced, HandsKnown
  <1>4. ReplaysKnown'
    BY <1>1, <1>2, RecoveriesStay
  <1>5. RecoveringHasCoordinator'
    BY <1>2 DEF LinkInv, RecoveringHasCoordinator, Running
  <1>6. ASSUME NEW p \in {"send", "push"}, UNCHANGED dropped,
               task' = [task EXCEPT ![t] = [pc |-> p, event |-> e]]
        PROVE  LinkInv'
    <2>1. /\ task' \in [Task -> [pc: {"idle", "send", "push", "cancelled"},
                                 event: Event \cup {NoEvent}]]
          /\ task'[t] = [pc |-> p, event |-> e]
          /\ \A u \in Task : u # t => task'[u] = task[u]
      BY <1>1, <1>6 DEF LinkInv, TypeOK
    <2>2. TypeOK'
      BY <1>1, <1>2, <1>6, <2>1 DEF LinkInv, TypeOK
    <2>3. \A u \in Task : task[u].event \in 0..emitted
      BY DEF LinkInv, EventsPlaced, HandsKnown
    <2>6. HandsKnown'
      BY <1>1, <2>1, <2>3 DEF LinkInv, EventsPlaced, HandsKnown
    <2>7. BufferKnown'
      BY <1>1, <1>2 DEF LinkInv, EventsPlaced, BufferKnown
    <2>8. HandsApart'
      BY <1>0, <1>1, <2>1 DEF LinkInv, EventsPlaced, HandsApart
    <2>9. ReplaysApart' /\ BufferOffReplays'
      BY <1>2 DEF LinkInv, EventsPlaced, ReplaysApart, BufferOffReplays
    <2>10. HandsOffBuffer'
      BY <1>0, <1>2, <2>1 DEF LinkInv, EventsPlaced, HandsOffBuffer
    <2>11. HandsOffReplays'
      BY <1>0, <1>2, <2>1 DEF LinkInv, EventsPlaced, HandsOffReplays
    <2>12. NothingLost'
      <3> SUFFICES ASSUME NEW x \in 1..emitted' PROVE Held(x)' \/ x \in delivered' \cup dropped'
        BY DEF NothingLost
      <3>1. CASE x = e
        BY <2>1, <3>1 DEF Held
      <3>2. CASE x \in 1..emitted
        <4>1. Held(x) \/ x \in delivered \cup dropped
          BY <3>2 DEF LinkInv, EventsPlaced, NothingLost
        <4>2. x # task[t].event
          BY <1>1, <1>3, <3>2 DEF NoEvent
        <4> QED
          BY <1>2, <1>6, <2>1, <4>1, <4>2 DEF Held
      <3> QED
        BY <1>1, <3>1, <3>2
    <2> QED
      BY <1>4, <1>5, <2>2, <2>6, <2>7, <2>8, <2>9, <2>10, <2>11, <2>12 DEF LinkInv, EventsPlaced
  <1>7. CASE dropped' = dropped \cup {e} /\ UNCHANGED task
    <2>1. TypeOK'
      BY <1>1, <1>2, <1>7 DEF LinkInv, TypeOK
    <2>2. Out({e})
      BY <1>0, <1>2, <1>7 DEF Out
    <2>4. EventsPlaced'
      BY <1>0, <1>1, <1>2, <1>7, <2>2, SettleKeepsPlaced DEF LinkInv
    <2> QED
      BY <1>4, <1>5, <2>1, <2>4 DEF LinkInv
  <1> QED
    BY <1>6, <1>7 DEF Route

\* The hand of a task that lets go of its event is the only place that changes.
LEMMA ReleaseEffect ==
  ASSUME LinkInv, NEW t \in Task, task[t].pc \in {"send", "push"}, Release(t),
         UNCHANGED <<coord, emitted>>
  PROVE  /\ task' \in [Task -> [pc: {"idle", "send", "push", "cancelled"},
                                event: Event \cup {NoEvent}]]
         /\ task[t].event \in Event /\ task[t].event \in 1..emitted
         /\ task[t].event \notin Elements(buffer)
         /\ Out({task[t].event})
  <1>1. /\ task' \in [Task -> [pc: {"idle", "send", "push", "cancelled"},
                               event: Event \cup {NoEvent}]]
        /\ task'[t] = [pc |-> "idle", event |-> NoEvent]
        /\ \A u \in Task : u # t => task'[u] = task[u]
    BY DEF Release, LinkInv, TypeOK
  <1>2. task[t].event \in Event /\ task[t].event # NoEvent /\ task[t].event \in 0..emitted
    BY DEF LinkInv, TypeOK, EventsPlaced, HandsKnown
  <1>3. task[t].event \in 1..emitted
    <2>1. emitted \in Nat
      BY EmittedType DEF LinkInv
    <2> QED
      BY <1>2, <2>1 DEF NoEvent
  <1>4. task[t].event \notin Elements(buffer)
    BY DEF LinkInv, EventsPlaced, HandsOffBuffer
  <1>5. \A u \in Task : u # t => task[u].event # task[t].event
    BY <1>2 DEF LinkInv, EventsPlaced, HandsApart
  <1>6. \A c \in Coordinator : task[t].event \notin Elements(coord[c].replay)
    BY DEF LinkInv, EventsPlaced, HandsOffReplays
  <1>7. Out({task[t].event})
    BY <1>1, <1>5, <1>6 DEF Out
  <1> QED
    BY <1>1, <1>2, <1>3, <1>4, <1>7

LEMMA SendKeepsInv ==
  ASSUME LinkInv, NEW t \in Task, Send(t)
  PROVE  LinkInv'
  <1> DEFINE e == task[t].event
  <1>1. /\ task[t].pc \in {"send", "push"} /\ Release(t)
        /\ UNCHANGED <<state, checker, failures, coord, shutdown, up, outages, emitted>>
    BY DEF Send
  <1>2. /\ task' \in [Task -> [pc: {"idle", "send", "push", "cancelled"},
                               event: Event \cup {NoEvent}]]
        /\ e \in Event /\ e \in 1..emitted /\ e \notin Elements(buffer) /\ Out({e})
    BY <1>1, ReleaseEffect
  <1>3. /\ delivered \subseteq delivered' /\ delivered' \subseteq Event
        /\ rejections' \in 0..MaxRejections /\ (Accepted(e) => e \in delivered')
    BY <1>2, SendEffect DEF LinkInv, Send
  <1>4. emitted \in Nat /\ emitted' = emitted
    BY <1>1, EmittedType DEF LinkInv
  <1>5. ReplaysKnown'
    BY <1>1, <1>4, RecoveriesStay
  <1>6. RecoveringHasCoordinator'
    BY <1>1 DEF LinkInv, RecoveringHasCoordinator, Running
  <1>7. CASE Accepted(e) /\ UNCHANGED <<buffer, dropped>>
    <2>1. TypeOK'
      BY <1>1, <1>2, <1>3, <1>7 DEF LinkInv, TypeOK
    <2>2. EventsPlaced'
      BY <1>2, <1>3, <1>4, <1>7, SettleKeepsPlaced DEF LinkInv
    <2> QED
      BY <1>5, <1>6, <2>1, <2>2 DEF LinkInv
  <1>8. CASE Refused(e) /\ Push(e)
    <2>1. /\ EventsPlaced'
          /\ buffer' \in Seq(Event) /\ Len(buffer') <= BufferSize /\ dropped' \subseteq Event
      BY <1>2, <1>3, <1>4, <1>8, PushKeepsPlaced DEF LinkInv
    <2>2. TypeOK'
      BY <1>1, <1>2, <1>3, <2>1 DEF LinkInv, TypeOK
    <2> QED
      BY <1>5, <1>6, <2>1, <2>2 DEF LinkInv
  <1> QED
    BY <1>7, <1>8 DEF Send

LEMMA PushRoutedKeepsInv ==
  ASSUME LinkInv, NEW t \in Task, PushRouted(t)
  PROVE  LinkInv'
  <1> DEFINE e == task[t].event
  <1>1. /\ task[t].pc \in {"send", "push"} /\ Release(t) /\ Push(e)
        /\ UNCHANGED <<state, checker, failures, coord, shutdown, up, outages, rejections,
                       emitted, delivered>>
    BY DEF PushRouted, monitor
  <1>2. /\ task' \in [Task -> [pc: {"idle", "send", "push", "cancelled"},
                               event: Event \cup {NoEvent}]]
        /\ e \in Event /\ e \in 1..emitted /\ e \notin Elements(buffer) /\ Out({e})
    BY <1>1, ReleaseEffect
  <1>3. emitted \in Nat /\ emitted' = emitted
    BY <1>1, EmittedType DEF LinkInv
  <1>4. ReplaysKnown'
    BY <1>1, <1>3, RecoveriesStay
  <1>5. RecoveringHasCoordinator'
    BY <1>1 DEF LinkInv, RecoveringHasCoordinator, Running
  <1>6. /\ EventsPlaced'
        /\ buffer' \in Seq(Event) /\ Len(buffer') <= BufferSize /\ dropped' \subseteq Event
    BY <1>1, <1>2, <1>3, PushKeepsPlaced DEF LinkInv
  <1>7. TypeOK'
    BY <1>1, <1>2, <1>6 DEF LinkInv, TypeOK
  <1> QED
    BY <1>4, <1>5, <1>6, <1>7 DEF LinkInv

--------------------------------------------------------------------------------
(***************************************************************************)
(* GatewayRuntime::shutdown.                                               *)
(***************************************************************************)

\* The events that the cancelled tasks were sending are given up, and no other.
LEMMA ShutdownCancelsKeepsInv ==
  ASSUME LinkInv, ShutdownCancels
  PROVE  LinkInv'
  <1> DEFINE es == {task[t].event : t \in Task} \ {NoEvent}
  <1>1. /\ UNCHANGED <<state, failures, coord, buffer, up, outages, rejections, emitted, delivered>>
        /\ checker' = "cancelled" /\ shutdown' = "close" /\ dropped' = dropped \cup es
        /\ task' = [t \in Task |-> [pc |-> "cancelled", event |-> NoEvent]]
    BY DEF ShutdownCancels, monitor
  <1>2. es \subseteq Event
    <2>1. \A t \in Task : task[t].event \in Event \cup {NoEvent}
      BY DEF LinkInv, TypeOK
    <2> QED
      BY <2>1
  <1>3. es \cap Elements(buffer) = {}
    BY DEF LinkInv, EventsPlaced, HandsOffBuffer
  <1>4. Out(es)
    <2>1. \A c \in Coordinator : es \cap Elements(coord[c].replay) = {}
      BY DEF LinkInv, EventsPlaced, HandsOffReplays
    <2>2. \A t \in Task : /\ task'[t].event = NoEvent /\ task'[t].pc \notin {"send", "push"}
                          /\ task[t].event \in es \cup {NoEvent}
      BY <1>1
    <2> HIDE DEF es
    <2> QED
      BY <1>1, <2>1, <2>2 DEF Out
  <1>5. emitted \in Nat /\ emitted' = emitted
    BY <1>1, EmittedType DEF LinkInv
  <1> HIDE DEF es
  <1>6. TypeOK'
    BY <1>1, <1>2 DEF LinkInv, TypeOK
  <1>7. ReplaysKnown'
    BY <1>1, <1>5, RecoveriesStay
  <1>8. EventsPlaced'
    BY <1>1, <1>3, <1>4, <1>5, SettleKeepsPlaced DEF LinkInv
  <1>9. RecoveringHasCoordinator'
    BY <1>1 DEF LinkInv, RecoveringHasCoordinator, Running, ShutdownCancels
  <1> QED
    BY <1>6, <1>7, <1>8, <1>9 DEF LinkInv

LEMMA ShutdownClosesKeepsInv ==
  ASSUME LinkInv, ShutdownCloses
  PROVE  LinkInv'
  <1> DEFINE e == emitted + 1
  <1>1. /\ UNCHANGED <<state, checker, failures, coord, task, shutdown, up, outages>>
        /\ emitted < MaxEvents /\ emitted' = e
        /\ \/ Accepted(e) /\ UNCHANGED <<buffer, dropped>>
           \/ Refused(e) /\ Push(e)
    BY DEF ShutdownCloses
  <1>2. emitted \in Nat
    BY EmittedType DEF LinkInv
  <1>3. RecoveringHasCoordinator'
    BY <1>1 DEF LinkInv, RecoveringHasCoordinator, Running
  <1>4. /\ e \in 0..MaxEvents /\ e \in Event /\ 1..e = 1..emitted \cup {e}
        /\ e \notin Elements(buffer) /\ \A t \in Task : task[t].event # e
        /\ \A c \in Coordinator : e \notin Elements(coord[c].replay)
    BY <1>1, NextEventIsNew
  <1>5. /\ emitted' \in Nat /\ emitted <= emitted' /\ e \in 1..emitted'
        /\ 1..emitted' = 1..emitted \cup {e}
    BY <1>1, <1>2, <1>4
  <1>6. Out({e})
    BY <1>1, <1>4 DEF Out
  <1>7. /\ delivered \subseteq delivered' /\ delivered' \subseteq Event
        /\ rejections' \in 0..MaxRejections /\ (Accepted(e) => e \in delivered')
    BY <1>1, <1>4, SendEffect DEF LinkInv
  <1>8. ReplaysKnown'
    BY <1>1, <1>5, RecoveriesStay
  <1> HIDE DEF e
  <1>9. /\ EventsPlaced'
        /\ buffer' \in Seq(Event) /\ Len(buffer') <= BufferSize /\ dropped' \subseteq Event
    <2>1. CASE Accepted(e) /\ UNCHANGED <<buffer, dropped>>
      <3>1. EventsPlaced'
        BY <1>4, <1>5, <1>6, <1>7, <2>1, SettleKeepsPlaced DEF LinkInv
      <3> QED
        BY <2>1, <3>1 DEF LinkInv, TypeOK
    <2>2. CASE Refused(e) /\ Push(e)
      BY <1>4, <1>5, <1>6, <1>7, <2>2, PushKeepsPlaced DEF LinkInv
    <2> QED
      BY <1>1, <2>1, <2>2
  <1>10. TypeOK'
    BY <1>1, <1>4, <1>7, <1>9 DEF LinkInv, TypeOK
  <1> QED
    BY <1>3, <1>8, <1>9, <1>10 DEF LinkInv

\* When the process is gone, so is every event it had.
LEMMA ProcessExitsKeepsInv ==
  ASSUME LinkInv, ProcessExits
  PROVE  LinkInv'
  <1> DEFINE gone == Elements(buffer) \cup UNION {Elements(coord[c].replay) : c \in Coordinator}
  <1>1. /\ UNCHANGED <<state, checker, failures, task, up, outages, rejections, emitted,
                       delivered>>
        /\ buffer' = <<>> /\ coord' = [c \in Coordinator |-> Idle] /\ shutdown' = "done"
        /\ dropped' = dropped \cup gone
    BY DEF ProcessExits, monitor
  <1>2. gone \subseteq Event
    <2>1. Elements(buffer) \subseteq Event
      BY EventsOf DEF LinkInv, TypeOK
    <2>2. \A c \in Coordinator : Elements(coord[c].replay) \subseteq Event
      <3>1. \A c \in Coordinator : coord[c].replay \in Seq(Event)
        BY DEF LinkInv, TypeOK
      <3> QED
        BY <3>1, EventsOf
    <2> QED
      BY <2>1, <2>2
  <1>3. Idle \in Recovery /\ RecoveryKnown(Idle) /\ Idle.replay = <<>>
    BY RecoveryRecords
  <1>4. coord' \in [Coordinator -> Recovery] /\ \A c \in Coordinator : coord'[c] = Idle
    BY <1>1, <1>3
  <1>5. ReplaysKnown'
    BY <1>1, <1>3, <1>4 DEF ReplaysKnown, RecoveryKnown
  <1>6. buffer' \in Seq(Event) /\ Len(buffer') <= BufferSize /\ dropped' \subseteq Event
    <2>1. dropped \subseteq Event
      BY DEF LinkInv, TypeOK
    <2> HIDE DEF gone
    <2> QED
      BY <1>1, <1>2, <2>1, EmptyElements
  <1>7. TypeOK'
    BY <1>1, <1>4, <1>6 DEF LinkInv, TypeOK, Recovery
  <1>8. EventsPlaced'
    <2>1. Elements(buffer') = {} /\ NoRepeats(buffer')
      BY <1>1, EmptyElements
    <2>2. \A c \in Coordinator : Elements(coord'[c].replay) = {}
      BY <1>3, <1>4, EmptyElements
    <2>3. HandsKnown' /\ HandsApart'
      BY <1>1 DEF LinkInv, EventsPlaced, HandsKnown, HandsApart
    <2>4. BufferKnown' /\ HandsOffBuffer'
      BY <2>1 DEF BufferKnown, HandsOffBuffer
    <2>5. ReplaysApart' /\ HandsOffReplays' /\ BufferOffReplays'
      BY <2>1, <2>2 DEF ReplaysApart, HandsOffReplays, BufferOffReplays
    <2>6. NothingLost'
      <3> SUFFICES ASSUME NEW e \in 1..emitted PROVE Held(e)' \/ e \in delivered \cup dropped'
        BY <1>1 DEF NothingLost
      <3>1. Held(e) \/ e \in delivered \cup dropped
        BY DEF LinkInv, EventsPlaced, NothingLost
      <3>2. Held(e) => (\E t \in Task : task'[t].event = e) \/ e \in gone
        BY <1>1 DEF Held
      <3> HIDE DEF gone
      <3> QED
        BY <1>1, <3>1, <3>2 DEF Held
    <2> QED
      BY <2>3, <2>4, <2>5, <2>6 DEF EventsPlaced
  <1>9. RecoveringHasCoordinator'
    BY <1>1 DEF RecoveringHasCoordinator, Running
  <1> QED
    BY <1>5, <1>7, <1>8, <1>9 DEF LinkInv

--------------------------------------------------------------------------------
(***************************************************************************)
(* The invariant, and what it says of the link.                            *)
(***************************************************************************)
LEMMA InitLinkInv == Init => LinkInv
  <1> SUFFICES ASSUME Init PROVE LinkInv
    OBVIOUS
  <1>1. Idle \in Recovery /\ RecoveryKnown(Idle) /\ Idle.replay = <<>>
    BY RecoveryRecords
  <1>2. coord \in [Coordinator -> Recovery] /\ \A c \in Coordinator : coord[c] = Idle
    BY <1>1 DEF Init
  <1>3. /\ buffer = <<>> /\ emitted = 0 /\ state \in {"Healthy", "Degraded"}
        /\ \A t \in Task : task[t] = [pc |-> "idle", event |-> NoEvent]
    BY DEF Init
  <1>4. TypeOK
    <2>1. /\ failures \in 0..FailureThreshold /\ outages \in 0..MaxOutages
          /\ rejections \in 0..MaxRejections /\ emitted \in 0..MaxEvents
      BY LinkAssumption DEF Init
    <2>2. buffer \in Seq(Event) /\ Len(buffer) <= BufferSize
      BY <1>3, LinkAssumption
    <2>3. task \in [Task -> [pc: {"idle", "send", "push", "cancelled"},
                             event: Event \cup {NoEvent}]]
      BY DEF Init
    <2> QED
      BY <1>2, <1>3, <2>1, <2>2, <2>3 DEF Init, TypeOK, Recovery, GatewayState
  <1>5. ReplaysKnown
    BY <1>1, <1>2 DEF ReplaysKnown
  <1>6. EventsPlaced
    <2>1. Elements(buffer) = {} /\ NoRepeats(buffer)
      BY <1>3, EmptyElements
    <2>2. \A c \in Coordinator : Elements(coord[c].replay) = {}
      BY <1>1, <1>2, EmptyElements
    <2>3. HandsKnown /\ HandsApart
      BY <1>3 DEF HandsKnown, HandsApart, NoEvent
    <2>4. BufferKnown /\ HandsOffBuffer
      BY <2>1 DEF BufferKnown, HandsOffBuffer
    <2>5. ReplaysApart /\ HandsOffReplays /\ BufferOffReplays
      BY <2>1, <2>2 DEF ReplaysApart, HandsOffReplays, BufferOffReplays
    <2>6. NothingLost
      BY <1>3 DEF NothingLost
    <2> QED
      BY <2>3, <2>4, <2>5, <2>6 DEF EventsPlaced
  <1>7. RecoveringHasCoordinator
    BY <1>3 DEF RecoveringHasCoordinator
  <1> QED
    BY <1>4, <1>5, <1>6, <1>7 DEF LinkInv

LEMMA StepLinkInv == LinkInv /\ [Next]_vars => LinkInv'
  <1> SUFFICES ASSUME LinkInv, [Next]_vars PROVE LinkInv'
    OBVIOUS
  <1>1. CASE CheckerStep
    BY <1>1, CheckerKeepsInv, CheckerStoresRecoveringKeepsInv DEF CheckerStep
  <1>2. ASSUME NEW c \in Coordinator, CoordinatorStep(c) PROVE LinkInv'
    BY <1>2, StabilityCheckKeepsInv, ReplayKeepsInv, RequeueKeepsInv, ReplayDoneKeepsInv,
       CoordinatorLoadsKeepsInv, CoordinatorStoresKeepsInv DEF CoordinatorStep
  <1>3. ASSUME NEW t \in Task, Route(t) \/ TaskStep(t) PROVE LinkInv'
    BY <1>3, RouteKeepsInv, SendKeepsInv, PushRoutedKeepsInv DEF TaskStep
  <1>4. CASE ShutdownLoads \/ ShutdownStep
    BY <1>4, ShutdownBeginsKeepsInv, ShutdownCancelsKeepsInv, ShutdownClosesKeepsInv,
       ProcessExitsKeepsInv DEF ShutdownStep
  <1>5. CASE Outage \/ MonitorRestarts \/ UNCHANGED vars
    BY <1>5, MonitorKeepsInv
  <1> QED
    BY <1>1, <1>2, <1>3, <1>4, <1>5 DEF Next

THEOREM LinkInvariant == Spec => []LinkInv
  BY InitLinkInv, StepLinkInv, PTL DEF Spec

\* The state machine, the checker, the recoveries, the tasks, the buffer and the
\* shutdown keep their types, and the buffer never exceeds MAX_BUFFER_EVENTS,
\* whatever is pushed back by a failed send or a failed replay.
THEOREM LinkTypeCorrect == Spec => []TypeOK
  <1>1. LinkInv => TypeOK
    BY DEF LinkInv
  <1> QED
    BY <1>1, LinkInvariant, PTL

\* A gateway in Recovering has a coordinator that will end it, whatever old
\* coordinators, the checker and the shutdown store in between.
THEOREM RecoveringIsCoordinated == Spec => []RecoveringHasCoordinator
  <1>1. LinkInv => RecoveringHasCoordinator
    BY DEF LinkInv
  <1> QED
    BY <1>1, LinkInvariant, PTL

--------------------------------------------------------------------------------
(***************************************************************************)
(* Counting the copies of an event.                                        *)
(***************************************************************************)

\* A sequence of events without repetition is no longer than there are events.
LEMMA ReplayFits ==
  ASSUME NEW s \in Seq(Event), NoRepeats(s)
  PROVE  Len(s) <= MaxEvents
  <1> DEFINE f == [i \in 1..Len(s) |-> s[i]]
  <1>1. Len(s) \in Nat /\ MaxEvents \in Nat
    BY LinkAssumption
  <1> SUFFICES ASSUME MaxEvents < Len(s) PROVE FALSE
    BY <1>1
  <1>2. \A n \in Nat : IsFiniteSet(1..n) /\ Cardinality(1..n) = n
    <2> SUFFICES ASSUME NEW n \in Nat PROVE IsFiniteSet(1..n) /\ Cardinality(1..n) = n
      OBVIOUS
    <2>1. IsFiniteSet(1..n) /\ Cardinality(1..n) = IF 1 > n THEN 0 ELSE n - 1 + 1
      BY FS_Interval
    <2> QED
      BY <2>1
  <1>3. f \in [1..Len(s) -> 1..MaxEvents]
    <2>1. \A i \in 1..Len(s) : s[i] \in Event
      OBVIOUS
    <2> QED
      BY <2>1 DEF Event
  <1>4. \E i, j \in 1..Len(s) : i # j /\ f[i] = f[j]
    <2> HIDE DEF f
    <2> QED
      BY <1>1, <1>2, <1>3, FS_PigeonHole
  <1> QED
    BY <1>4 DEF NoRepeats

\* A set with no two different elements has one element or none.
LEMMA AtMostOne ==
  ASSUME NEW S, \A x, y \in S : x = y
  PROVE  Cardinality(S) = IF S = {} THEN 0 ELSE 1
  <1>1. CASE S = {}
    BY <1>1, FS_EmptySet
  <1>2. CASE S # {}
    <2>1. PICK x : x \in S
      BY <1>2
    <2>2. S = {x}
      BY <2>1
    <2> QED
      BY <1>2, <2>2, FS_Singleton
  <1> QED
    BY <1>1, <1>2

\* The places of the inductive invariant are the places that Copies counts.
LEMMA PlacesCounted ==
  ASSUME LinkInv, NEW e \in 1..emitted
  PROVE  Copies(e) <= 1 /\ (Copies(e) = 0 => ~Held(e))
  <1> DEFINE hands == {t \in Task : task[t].event = e}
             slots == {i \in 1..Len(buffer) : buffer[i] = e}
             lists == {x \in Coordinator \X (1..MaxEvents) :
                          /\ x[2] <= Len(coord[x[1]].replay)
                          /\ coord[x[1]].replay[x[2]] = e}
  <1>1. Copies(e) = Cardinality(hands) + Cardinality(slots) + Cardinality(lists)
    BY DEF Copies
  <1>2. e # NoEvent
    <2>1. emitted \in Nat
      BY EmittedType DEF LinkInv
    <2> QED
      BY <2>1 DEF NoEvent
  <1>3. \A t, u \in hands : t = u
    BY <1>2 DEF LinkInv, EventsPlaced, HandsApart
  <1>4. \A i, j \in slots : i = j
    BY DEF LinkInv, EventsPlaced, BufferKnown, NoRepeats
  <1>5. \A c \in Coordinator : /\ coord[c].replay \in Seq(Event) /\ NoRepeats(coord[c].replay)
                               /\ Len(coord[c].replay) \in Nat
                               /\ Len(coord[c].replay) <= MaxEvents
    <2>1. \A c \in Coordinator : coord[c].replay \in Seq(Event) /\ NoRepeats(coord[c].replay)
      BY DEF LinkInv, TypeOK, ReplaysKnown, RecoveryKnown
    <2> QED
      BY <2>1, ReplayFits
  <1>6. \A x \in lists : /\ x[1] \in Coordinator /\ x[2] \in 1..Len(coord[x[1]].replay)
                         /\ coord[x[1]].replay[x[2]] = e /\ x = <<x[1], x[2]>>
    BY <1>5
  <1>7. \A x \in lists : e \in Elements(coord[x[1]].replay)
    BY <1>6 DEF Elements
  <1>8. \A x, y \in lists : x = y
    <2> SUFFICES ASSUME NEW x \in lists, NEW y \in lists PROVE x = y
      OBVIOUS
    <2> HIDE DEF lists
    <2>1. x[1] = y[1]
      BY <1>6, <1>7 DEF LinkInv, EventsPlaced, ReplaysApart
    <2>2. x[2] = y[2]
      BY <1>5, <1>6, <2>1 DEF NoRepeats
    <2> QED
      BY <1>6, <2>1, <2>2
  <1>9. slots # {} <=> e \in Elements(buffer)
    BY DEF Elements
  <1>10. lists # {} <=> \E c \in Coordinator : e \in Elements(coord[c].replay)
    <2>1. ASSUME NEW c \in Coordinator, e \in Elements(coord[c].replay) PROVE lists # {}
      <3>1. PICK i \in 1..Len(coord[c].replay) : coord[c].replay[i] = e
        BY <2>1 DEF Elements
      <3>2. i \in 1..MaxEvents /\ i <= Len(coord[c].replay) /\ MaxEvents \in Nat
        BY <1>5, LinkAssumption
      <3>3. <<c, i>> \in lists
        BY <3>1, <3>2
      <3> QED
        BY <3>3
    <2> HIDE DEF lists
    <2> QED
      BY <1>6, <1>7, <2>1
  <1>11. hands # {} <=> \E t \in Task : task[t].event = e
    OBVIOUS
  <1> HIDE DEF hands, slots, lists
  <1>12. hands # {} => slots = {} /\ lists = {}
    BY <1>9, <1>10, <1>11 DEF LinkInv, EventsPlaced, HandsOffBuffer, HandsOffReplays
  <1>13. slots # {} => lists = {}
    BY <1>9, <1>10 DEF LinkInv, EventsPlaced, BufferOffReplays
  <1>14. /\ Cardinality(hands) = IF hands = {} THEN 0 ELSE 1
         /\ Cardinality(slots) = IF slots = {} THEN 0 ELSE 1
         /\ Cardinality(lists) = IF lists = {} THEN 0 ELSE 1
    BY <1>3, <1>4, <1>8, AtMostOne
  <1>15. Copies(e) <= 1
    BY <1>1, <1>12, <1>13, <1>14
  <1>16. Copies(e) = 0 => hands = {} /\ slots = {} /\ lists = {}
    BY <1>1, <1>12, <1>13, <1>14
  <1> QED
    BY <1>9, <1>10, <1>11, <1>15, <1>16 DEF Held

\* Routing, buffering and replay neither lose nor multiply an event: for any
\* number of tasks, of recoveries at once, of events and of rejections, and any
\* limits of the buffer, the gateway has at most one copy of each, and one it does
\* not have was received by the monitor, evicted from a buffer without room, or
\* lost by the shutdown.
THEOREM EventsAreConserved == Spec => []EventsConserved
  <1>1. LinkInv => EventsConserved
    <2> SUFFICES ASSUME LinkInv, NEW e \in 1..emitted
                 PROVE  Copies(e) <= 1 /\ (Copies(e) = 0 => e \in delivered \cup dropped)
      BY DEF EventsConserved
    <2>1. Held(e) \/ e \in delivered \cup dropped
      BY DEF LinkInv, EventsPlaced, NothingLost
    <2> QED
      BY <2>1, PlacesCounted
  <1> QED
    BY <1>1, LinkInvariant, PTL

--------------------------------------------------------------------------------
(***************************************************************************)
(* What the link gives up.                                                 *)
(***************************************************************************)

\* A step gives an event up only by evicting it to make room for another, and
\* with one event less evicted there would be none, by count or by bytes; by
\* routing it while ShuttingDown; by cancelling the task that sends it; or by
\* ending the process.
LossAtLimits ==
    LET lost == dropped' \ dropped
    IN  lost # {} =>
          \/ \E e \in Event, n \in 0..(Len(buffer) - 1) :
                /\ buffer' = Append(WithoutOldest(buffer, n + 1), e)
                /\ ~HasRoom(WithoutOldest(buffer, n), e)
                /\ lost \subseteq Elements(buffer)
          \/ state = "ShuttingDown" /\ lost = {emitted'}
          \/ /\ shutdown = "cancel" /\ shutdown' = "close"
             /\ lost \subseteq {task[t].event : t \in Task}
          \/ shutdown = "close" /\ shutdown' = "done"

\* push evicts nothing that there is room for.
LEMMA EvictsWithoutRoom ==
  ASSUME TypeOK, NEW e \in Event, Push(e)
  PROVE  LossAtLimits
  <1> DEFINE kept == KeptWhenPushing(buffer, e)
  <1>0. buffer \in Seq(Event)
    BY DEF TypeOK
  <1>1. buffer \in Seq(Event) /\ Len(buffer) \in Nat
    BY <1>0
  <1>2. buffer' = Append(kept, e) /\ dropped' = dropped \cup (Elements(buffer) \ Elements(kept))
    BY DEF Push
  <1>3. PICK n \in 0..Len(buffer) :
            /\ kept = WithoutOldest(buffer, n)
            /\ \A k \in 0..(n - 1) : ~HasRoom(WithoutOldest(buffer, k), e)
    BY <1>1, EvictionEnds
  <1> HIDE DEF kept
  <1>4. CASE n = 0
    <2>1. SubSeq(buffer, 0 + 1, Len(buffer)) = buffer
      BY <1>1
    <2>2. kept = buffer
      BY <1>3, <1>4, <2>1 DEF WithoutOldest
    <2> QED
      BY <1>2, <2>2 DEF LossAtLimits
  <1>5. CASE n # 0
    <2> DEFINE m == n - 1
    <2>1. m \in 0..(Len(buffer) - 1) /\ m + 1 = n /\ m \in 0..(n - 1)
      BY <1>1, <1>5
    <2> HIDE DEF m
    <2>2. buffer' = Append(WithoutOldest(buffer, m + 1), e)
      BY <1>2, <1>3, <2>1
    <2>3. ~HasRoom(WithoutOldest(buffer, m), e)
      BY <1>3, <2>1
    <2>4. dropped' \ dropped \subseteq Elements(buffer)
      BY <1>2
    <2> QED
      BY <2>1, <2>2, <2>3, <2>4 DEF LossAtLimits
  <1> QED
    BY <1>4, <1>5

LEMMA StepLossAtLimits == LinkInv /\ [Next]_vars => LossAtLimits
  <1> SUFFICES ASSUME LinkInv, [Next]_vars PROVE LossAtLimits
    OBVIOUS
  <1>0. CASE UNCHANGED dropped
    BY <1>0 DEF LossAtLimits
  <1>1. TypeOK
    BY DEF LinkInv
  <1>2. CASE CheckerStep
    BY <1>0, <1>2 DEF CheckerStep, CheckSucceeds, CheckFails, CheckerStoresDegraded,
                      CheckerStoresRecovering, ledger
  <1>3. ASSUME NEW c \in Coordinator, CoordinatorStep(c) PROVE LossAtLimits
    <2>1. CASE Replay(c) \/ Requeue(c)
      <3> DEFINE es == coord[c].replay
      <3>1. es \in Seq(Event)
        BY DEF LinkInv, TypeOK
      <3>2. es # <<>> /\ (UNCHANGED dropped \/ Push(Head(es)))
        BY <2>1 DEF Replay, Requeue
      <3>3. Head(es) \in Event
        BY <3>1, <3>2, HeadAndTail
      <3> QED
        BY <1>0, <1>1, <3>2, <3>3, EvictsWithoutRoom
    <2> QED
      BY <1>0, <1>3, <2>1 DEF CoordinatorStep, StabilityCheck, ReplayDone, CoordinatorLoads,
                              CoordinatorStores, ledger
  <1>4. ASSUME NEW e \in Event, Push(e) PROVE LossAtLimits
    BY <1>1, <1>4, EvictsWithoutRoom
  <1>5. ASSUME NEW t \in Task, Route(t) PROVE LossAtLimits
    <2>1. \/ UNCHANGED dropped
          \/ state = "ShuttingDown" /\ dropped' = dropped \cup {emitted'}
      BY <1>5 DEF Route
    <2> QED
      BY <1>0, <2>1 DEF LossAtLimits
  <1>6. ASSUME NEW t \in Task, TaskStep(t) PROVE LossAtLimits
    <2>1. task[t].event \in Event
      BY <1>6 DEF LinkInv, TypeOK, EventsPlaced, HandsKnown, TaskStep, Send, PushRouted
    <2>2. UNCHANGED dropped \/ Push(task[t].event)
      BY <1>6 DEF TaskStep, Send, PushRouted
    <2> QED
      BY <1>0, <1>4, <2>1, <2>2
  <1>7. CASE ShutdownLoads \/ ShutdownStores
    BY <1>0, <1>7 DEF ShutdownLoads, ShutdownStores, ledger
  <1>8. CASE ShutdownCancels
    BY <1>8 DEF ShutdownCancels, LossAtLimits
  <1>9. CASE ShutdownCloses
    <2>1. \/ UNCHANGED dropped
          \/ emitted < MaxEvents /\ Push(emitted + 1)
      BY <1>9 DEF ShutdownCloses
    <2>2. emitted < MaxEvents => emitted + 1 \in Event
      BY NextEventIsNew
    <2> QED
      BY <1>0, <1>4, <2>1, <2>2
  <1>10. CASE ProcessExits
    BY <1>10 DEF ProcessExits, LossAtLimits
  <1>11. CASE Outage \/ MonitorRestarts \/ UNCHANGED vars
    BY <1>0, <1>11 DEF Outage, MonitorRestarts, vars, ledger
  <1> QED
    BY <1>2, <1>3, <1>5, <1>6, <1>7, <1>8, <1>9, <1>10, <1>11 DEF Next, ShutdownStep

\* The dropped events of EventsConserved are none that could have been kept: push
\* evicts only what leaves no room for the new event, by count or by bytes, the
\* router drops only while ShuttingDown, and the shutdown gives up only what its
\* tasks were sending and what the process has when it ends.
THEOREM GivesUpOnlyAtLimits == Spec => [][LossAtLimits]_vars
  <1>1. LinkInv /\ [Next]_vars => [LossAtLimits]_vars
    BY StepLossAtLimits
  <1> QED
    BY <1>1, LinkInvariant, PTL DEF Spec
==============================================================================
