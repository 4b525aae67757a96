------------------------ MODULE ConvergenceMonitorProofs ------------------------
(***************************************************************************)
(* Proofs about the convergence monitor, for every set of agents, sessions  *)
(* and actors, every cooldown length, and every number of failing writes    *)
(* and of restarts that cannot read the database.                           *)
(***************************************************************************)
EXTENDS ConvergenceMonitor, FiniteSetTheorems, TLAPS

(***************************************************************************)
(* What the memory, the row and the history of one agent have to do with    *)
(* each other at time n.  The last two parts are what makes the first one   *)
(* enough over restarts: a row that is not dirty has all that evaluate      *)
(* looks at before it escalates.                                            *)
(***************************************************************************)
RowKeeps(s, r, h, n) ==
    ~h.dirty => /\ r.level = s.level
                /\ r.ack = s.ack
                /\ n < s.cooldown => r.cooldown = s.cooldown

StateRemembers(s, h, n) ==
    /\ s.hyst = 1 => h.hot >= 1
    /\ ~h.lost => /\ h.owed => s.ack
                  /\ n < h.due => h.due <= s.cooldown

Tracks(s, r, h, n) == RowKeeps(s, r, h, n) /\ StateRemembers(s, h, n)

\* The pending change is the proposal of its token.
PendingIsProposed ==
    pending # NoChange =>
        /\ pending.token \in 1..Len(proposals)
        /\ proposals[pending.token] = [initiator |-> pending.initiator,
                                       proposed |-> pending.proposed]
        /\ pending.proposed >= ThresholdFloor

MonitorInv ==
    /\ TypeOK
    /\ \A a \in Agent : Tracks(st[a], row[a], hist[a], now)
    /\ PendingIsProposed
    /\ TwoKeysToLower
    /\ LockFollowsSessions

\* What EscalatesWhenDue says of one agent.
StepDue(s, h, t, g, n) ==
    (t.level > s.level /\ ~h.lost /\ ~g.lost) =>
        /\ t.level = s.level + 1
        /\ h.hot >= 1
        /\ n >= h.due
        /\ ~h.owed

-----------------------------------------------------------------------------
(***************************************************************************)
(* The operations on one agent's state.                                     *)
(***************************************************************************)

\* The fields of an updated state.
LEMMA SetCooldown ==
    ASSUME NEW s \in AgentState, NEW c \in Nat
    PROVE  LET e == [s EXCEPT !.cooldown = c]
           IN  /\ e \in AgentState /\ e.cooldown = c /\ e.level = s.level
               /\ e.normal = s.normal /\ e.ack = s.ack /\ e.hyst = s.hyst
BY DEF AgentState

LEMMA SetNormal ==
    ASSUME NEW s \in AgentState, NEW k \in 0..MaxNormal
    PROVE  LET e == [s EXCEPT !.normal = k]
           IN  /\ e \in AgentState /\ e.cooldown = s.cooldown /\ e.level = s.level
               /\ e.ack = s.ack /\ e.hyst = s.hyst
BY DEF AgentState

LEMMA SetAck ==
    ASSUME NEW s \in AgentState
    PROVE  LET e == [s EXCEPT !.ack = FALSE]
           IN  /\ e \in AgentState /\ e.cooldown = s.cooldown /\ e.level = s.level
               /\ e.ack = FALSE /\ e.hyst = s.hyst
BY DEF AgentState

LEMMA SetLevel ==
    ASSUME NEW s \in AgentState, NEW k \in Level
    PROVE  LET e == [s EXCEPT !.level = k]
           IN  /\ e \in AgentState /\ e.cooldown = s.cooldown /\ e.level = k
               /\ e.hyst = s.hyst
BY DEF AgentState

LEMMA EvaluateFacts ==
    ASSUME NEW s \in AgentState, NEW target \in Level, NEW n \in Nat
    PROVE  LET e == Evaluate(s, target, n) IN
           /\ e \in AgentState
           /\ e.level \in {s.level, s.level + 1}
           /\ (e.level = s.level + 1) =>
                 /\ n >= s.cooldown /\ ~s.ack /\ s.hyst = 1 /\ target > s.level
                 /\ e.hyst = 0 /\ (e.level = 2 => e.ack)
           /\ (e.level = s.level) =>
                 /\ e.ack = s.ack
                 /\ n < s.cooldown => e = s
                 /\ n >= s.cooldown => e.cooldown = 0
                 /\ (n < s.cooldown \/ s.ack) => e.hyst = s.hyst
                 /\ (n >= s.cooldown /\ ~s.ack /\ target <= s.level) => e.hyst = 0
<1>1. s.level \in 0..4 /\ s.normal \in 0..3 /\ s.cooldown \in Nat /\ s.ack \in BOOLEAN
      /\ s.hyst \in 0..1 /\ target \in 0..4
  BY DEF AgentState, Level, MaxNormal
<1>2. Pause2 \in Nat /\ Pause3 \in Nat /\ Pause4 \in Nat
  BY PauseAssumption
<1>3. CASE n < s.cooldown
  BY <1>1, <1>3 DEF Evaluate
<1>4. CASE n >= s.cooldown /\ s.ack
  <2>1. Evaluate(s, target, n) = [s EXCEPT !.cooldown = 0]
    BY <1>1, <1>4 DEF Evaluate
  <2> DEFINE t == [s EXCEPT !.cooldown = 0]
  <2>2. t \in AgentState /\ t.level = s.level /\ t.ack = s.ack /\ t.cooldown = 0 /\ t.hyst = s.hyst
    BY SetCooldown
  <2> HIDE DEF t
  <2>3. Evaluate(s, target, n) = t
    BY <2>1 DEF t
  <2>4. ~(t.level = s.level + 1)
    BY <1>1, <2>2
  <2>5. ~(n < s.cooldown)
    BY <1>1, <1>4
  <2>6. QED
    BY <1>4, <2>2, <2>3, <2>4, <2>5, Zenon
<1>5. CASE n >= s.cooldown /\ ~s.ack /\ target > s.level /\ s.hyst = 1
  <2> DEFINE t == [s EXCEPT !.cooldown = 0]
  <2>1. NextLevel(s.level) = s.level + 1 /\ s.level + 1 \in 1..4
    BY <1>1, <1>5 DEF NextLevel
  <2>2. Evaluate(s, target, n) = Escalated(t, s.level + 1, n)
    BY <1>1, <1>5, <2>1 DEF Evaluate
  <2>3. t.ack = FALSE /\ t.cooldown = 0
    BY <1>1, <1>5 DEF AgentState
  <2>4. /\ Escalated(t, s.level + 1, n).level = s.level + 1
        /\ Escalated(t, s.level + 1, n).hyst = 0
        /\ (s.level + 1 = 2) => Escalated(t, s.level + 1, n).ack
    BY DEF Escalated
  <2>5. Escalated(t, s.level + 1, n) \in AgentState
    <3> DEFINE c == CASE s.level + 1 = 2 -> n + Pause2
                      [] s.level + 1 = 3 -> n + Pause3
                      [] s.level + 1 = 4 -> n + Pause4
                      [] OTHER   -> t.cooldown
               k == IF s.level + 1 = 2 THEN TRUE ELSE t.ack
    <3>1. c \in Nat
      BY <1>1, <1>2, <2>3
    <3>2. k \in BOOLEAN
      BY <2>3
    <3>3. Escalated(t, s.level + 1, n) =
            [level |-> s.level + 1, normal |-> 0, hyst |-> 0, ack |-> k, cooldown |-> c]
      BY DEF Escalated
    <3> HIDE DEF c, k
    <3>4. QED
      BY <2>1, <3>1, <3>2, <3>3 DEF AgentState, Level, MaxNormal
  <2>6. QED
    BY <1>1, <1>5, <2>1, <2>2, <2>4, <2>5
<1>6. CASE n >= s.cooldown /\ ~s.ack /\ target > s.level /\ s.hyst = 0
  <2> DEFINE t == [s EXCEPT !.cooldown = 0]
  <2>1. Evaluate(s, target, n) = [t EXCEPT !.hyst = 1]
    BY <1>1, <1>6 DEF Evaluate
  <2>2. t \in AgentState /\ t.level = s.level /\ t.ack = s.ack /\ t.cooldown = 0
    BY SetCooldown
  <2> HIDE DEF t
  <2> DEFINE u == [t EXCEPT !.hyst = 1]
  <2>3. u \in AgentState /\ u.level = s.level /\ u.ack = s.ack /\ u.cooldown = 0 /\ u.hyst = 1
    BY <2>2 DEF AgentState
  <2> HIDE DEF u
  <2>4. Evaluate(s, target, n) = u
    BY <2>1 DEF u
  <2>5. QED
    BY <1>1, <1>6, <2>3, <2>4
<1>7. CASE n >= s.cooldown /\ ~s.ack /\ target <= s.level
  <2> DEFINE t == [s EXCEPT !.cooldown = 0]
             u == [t EXCEPT !.hyst = 0]
             k == IF target < s.level THEN OneMoreNormal(s.normal) ELSE 0
  <2>1. k \in 0..MaxNormal
    BY <1>1 DEF OneMoreNormal, MaxNormal
  <2>2. Evaluate(s, target, n) = [u EXCEPT !.normal = k]
    BY <1>1, <1>7 DEF Evaluate
  <2>3. t \in AgentState /\ t.level = s.level /\ t.ack = s.ack /\ t.cooldown = 0
    BY SetCooldown
  <2> HIDE DEF t, k
  <2>4. u \in AgentState /\ u.level = s.level /\ u.ack = s.ack /\ u.cooldown = 0 /\ u.hyst = 0
    BY <2>3 DEF AgentState
  <2> HIDE DEF u
  <2>5. QED
    BY <1>1, <1>7, <2>1, <2>2, <2>4, SetNormal
<1>8. QED
  BY <1>1, <1>3, <1>4, <1>5, <1>6, <1>7

LEMMA DeescalateFacts ==
    ASSUME NEW s \in AgentState, NEW normal \in BOOLEAN
    PROVE  LET d == TryDeescalate(s, normal) IN
           /\ d \in AgentState
           /\ d.level \in {s.level, s.level - 1}
           /\ d.cooldown = s.cooldown /\ d.hyst = s.hyst
           /\ d.level = s.level => d.ack = s.ack
<1>1. s.level \in 0..4 /\ s.normal \in 0..3 /\ s.cooldown \in Nat /\ s.ack \in BOOLEAN
      /\ s.hyst \in 0..1
  BY DEF AgentState, Level, MaxNormal
<1>2. CASE s.level = 0
  BY <1>1, <1>2 DEF TryDeescalate
<1>3. CASE s.level > 0 /\ ~normal
  BY <1>1, <1>3 DEF TryDeescalate, AgentState, Level, MaxNormal
<1>4. CASE s.level > 0 /\ normal /\ s.normal + 1 >= Required(s.level)
  <2> DEFINE t == [s EXCEPT !.level = s.level - 1]
             u == [t EXCEPT !.normal = 0]
  <2>1. TryDeescalate(s, normal) = [u EXCEPT !.ack = FALSE]
    BY <1>1, <1>4 DEF TryDeescalate, Lowered
  <2>2. s.level - 1 \in Level
    BY <1>1, <1>4 DEF Level
  <2>3. t \in AgentState /\ t.level = s.level - 1 /\ t.cooldown = s.cooldown /\ t.hyst = s.hyst
    BY <2>2, SetLevel
  <2> HIDE DEF t
  <2>4. u \in AgentState /\ u.level = s.level - 1 /\ u.cooldown = s.cooldown /\ u.hyst = s.hyst
    BY <2>3 DEF AgentState, MaxNormal
  <2> HIDE DEF u
  <2> DEFINE v == [u EXCEPT !.ack = FALSE]
  <2>5. v \in AgentState /\ v.level = s.level - 1 /\ v.cooldown = s.cooldown /\ v.hyst = s.hyst
    BY <2>4 DEF AgentState
  <2> HIDE DEF v
  <2>6. TryDeescalate(s, normal) = v
    BY <2>1 DEF v
  <2>7. ~(v.level = s.level)
    BY <1>1, <2>5
  <2>8. QED
    BY <2>5, <2>6, <2>7, Zenon
<1>5. CASE s.level > 0 /\ normal /\ ~(s.normal + 1 >= Required(s.level))
  BY <1>1, <1>5 DEF TryDeescalate, Required, AgentState, Level, MaxNormal
<1>6. QED
  BY <1>1, <1>2, <1>3, <1>4, <1>5

LEMMA ExpireFacts ==
    ASSUME NEW s \in AgentState, NEW n \in Nat
    PROVE  LET e == ExpireCooldown(s, n) IN
           /\ e \in AgentState
           /\ e.level = s.level /\ e.ack = s.ack /\ e.hyst = s.hyst
           /\ n < s.cooldown => e = s
BY DEF ExpireCooldown, AgentState

-----------------------------------------------------------------------------
(***************************************************************************)
(* One agent's state, row and history together.                             *)
(***************************************************************************)

\* What the history notes of a step from state s to state t.
Noted(g, h, s, t, cycle, wrote) ==
    /\ g \in Hist
    /\ g.lost = h.lost
    /\ wrote = "ok" => ~g.dirty
    /\ wrote = "failed" => g.dirty
    /\ wrote = "no" => g.dirty = h.dirty
    /\ t.level <= s.level => g.due = h.due
    /\ t.level > s.level /\ t.level >= 2 => g.due = t.cooldown
    /\ t.level > s.level /\ ~(t.level >= 2) => g.due = h.due
    /\ t.level > s.level => (g.owed => t.level = 2)
    /\ t.level < s.level => ~g.owed
    /\ t.level = s.level => g.owed = h.owed
    /\ cycle = "no" => g.hot = h.hot
    /\ cycle = "hot" /\ ~(t.level > s.level) => g.hot >= 1

LEMMA NoteFacts ==
    ASSUME NEW h \in Hist, NEW s \in AgentState, NEW t \in AgentState,
           NEW cycle \in {"hot", "cool", "no"}, NEW wrote \in {"ok", "failed", "no"}
    PROVE  Noted(NoteState(h, s, t, cycle, wrote), h, s, t, cycle, wrote)
<1> DEFINE g == NoteState(h, s, t, cycle, wrote)
<1>1. /\ h.due \in Nat /\ h.hot \in Nat /\ h.owed \in BOOLEAN
      /\ h.dirty \in BOOLEAN /\ h.lost \in BOOLEAN
      /\ s.level \in 0..4 /\ t.level \in 0..4 /\ t.cooldown \in Nat
  BY DEF Hist, AgentState, Level
<1>2. /\ g.due \in Nat
      /\ t.level <= s.level => g.due = h.due
      /\ t.level > s.level /\ t.level >= 2 => g.due = t.cooldown
      /\ t.level > s.level /\ ~(t.level >= 2) => g.due = h.due
  BY <1>1 DEF NoteState
<1>3. /\ g.hot \in Nat
      /\ cycle = "no" => g.hot = h.hot
      /\ cycle = "hot" /\ ~(t.level > s.level) => g.hot >= 1
  BY <1>1 DEF NoteState
<1>4. /\ t.level > s.level => g.owed = (t.level = 2)
      /\ t.level < s.level => g.owed = FALSE
      /\ t.level = s.level => g.owed = h.owed
  <2> DEFINE up == t.level > s.level
             down == t.level < s.level
  <2>1. ~(up /\ down) /\ (t.level = s.level => ~up /\ ~down)
    BY <1>1
  <2>2. g.owed = CASE up -> t.level = 2 [] down -> FALSE [] OTHER -> h.owed
    BY DEF NoteState
  <2> HIDE DEF g
  <2>3. up => g.owed = (t.level = 2)
    <3> HIDE DEF up, down
    <3> QED BY <2>1, <2>2, Zenon
  <2>4. down => g.owed = FALSE
    <3> HIDE DEF up, down
    <3> QED BY <2>1, <2>2, Zenon
  <2>5. (~up /\ ~down) => g.owed = h.owed
    <3> HIDE DEF up, down
    <3> QED BY <2>2, Zenon
  <2>6. QED
    BY <2>1, <2>3, <2>4, <2>5, Zenon
<1>5. g.owed \in BOOLEAN
  <2> HIDE DEF g
  <2>1. t.level > s.level \/ t.level < s.level \/ t.level = s.level
    BY <1>1
  <2>2. h.owed \in BOOLEAN
    BY <1>1
  <2>3. QED
    BY <1>4, <2>1, <2>2, Zenon
<1>6. /\ wrote = "ok" => g.dirty = FALSE
      /\ wrote = "failed" => g.dirty = TRUE
      /\ wrote = "no" => g.dirty = h.dirty
  BY DEF NoteState
<1>7. g.dirty \in BOOLEAN
  BY <1>1, <1>6
<1>8. g.lost = h.lost
  BY DEF NoteState
<1>9. g = [due |-> g.due, hot |-> g.hot, owed |-> g.owed, dirty |-> g.dirty, lost |-> g.lost]
  BY DEF NoteState
<1> HIDE DEF g
<1>10. g \in Hist
  BY <1>1, <1>2, <1>3, <1>5, <1>7, <1>8, <1>9 DEF Hist
<1>11. QED
  <2>1. Noted(g, h, s, t, cycle, wrote)
    BY <1>1, <1>2, <1>3, <1>4, <1>6, <1>8, <1>10 DEF Noted
  <2>2. QED
    BY <2>1 DEF g

\* Step 10 to 12 of handle_event: evaluate, and the write if it escalated.
LEMMA EvaluateTracks ==
    ASSUME NEW s \in AgentState, NEW r \in AgentState, NEW h \in Hist, NEW n \in Nat,
           NEW target \in Level, NEW f, Tracks(s, r, h, n)
    PROVE  LET new == Evaluate(s, target, n)
               paused == n < s.cooldown \/ s.ack
               wrote == IF ~(new.level > s.level) THEN "no" ELSE IF "state" \in f THEN "failed" ELSE "ok"
               g == NoteState(h, s, new,
                       IF paused THEN "no" ELSE IF target > s.level THEN "hot" ELSE "cool", wrote)
           IN  /\ new \in AgentState /\ g \in Hist /\ Persisted(r, new, wrote) \in AgentState
               /\ Tracks(new, Persisted(r, new, wrote), g, n)
               /\ g.lost = h.lost
               /\ StepDue(s, h, new, g, n)
<1> DEFINE new == Evaluate(s, target, n)
           paused == n < s.cooldown \/ s.ack
           wrote == IF ~(new.level > s.level) THEN "no" ELSE IF "state" \in f THEN "failed" ELSE "ok"
           cycle == IF paused THEN "no" ELSE IF target > s.level THEN "hot" ELSE "cool"
           g == NoteState(h, s, new, cycle, wrote)
           q == Persisted(r, new, wrote)
<1>1. /\ new \in AgentState
      /\ new.level \in {s.level, s.level + 1}
      /\ (new.level = s.level + 1) =>
            /\ n >= s.cooldown /\ ~s.ack /\ s.hyst = 1 /\ target > s.level
            /\ new.hyst = 0 /\ (new.level = 2 => new.ack)
      /\ (new.level = s.level) =>
            /\ new.ack = s.ack
            /\ n < s.cooldown => new = s
            /\ n >= s.cooldown => new.cooldown = 0
            /\ (n < s.cooldown \/ s.ack) => new.hyst = s.hyst
            /\ (n >= s.cooldown /\ ~s.ack /\ target <= s.level) => new.hyst = 0
  BY EvaluateFacts
<1> HIDE DEF new
<1>2. /\ s.level \in 0..4 /\ s.cooldown \in Nat /\ s.ack \in BOOLEAN /\ s.hyst \in 0..1
      /\ new.level \in 0..4 /\ new.cooldown \in Nat /\ new.ack \in BOOLEAN /\ new.hyst \in 0..1
      /\ h.hot \in Nat /\ h.due \in Nat /\ target \in 0..4
  BY <1>1 DEF AgentState, Level, Hist
<1>3. wrote \in {"ok", "failed", "no"} /\ cycle \in {"hot", "cool", "no"}
  OBVIOUS
<1>4. /\ new.level > s.level => wrote \in {"ok", "failed"}
      /\ ~(new.level > s.level) => wrote = "no"
      /\ paused => cycle = "no"
      /\ ~paused /\ target > s.level => cycle = "hot"
  OBVIOUS
<1> HIDE DEF wrote, cycle
<1>5. /\ g \in Hist
      /\ g.lost = h.lost
      /\ wrote = "ok" => ~g.dirty
      /\ wrote = "failed" => g.dirty
      /\ wrote = "no" => g.dirty = h.dirty
      /\ new.level <= s.level => g.due = h.due
      /\ new.level > s.level /\ new.level >= 2 => g.due = new.cooldown
      /\ new.level > s.level /\ ~(new.level >= 2) => g.due = h.due
      /\ new.level > s.level => (g.owed => new.level = 2)
      /\ new.level = s.level => g.owed = h.owed
      /\ cycle = "no" => g.hot = h.hot
      /\ cycle = "hot" /\ ~(new.level > s.level) => g.hot >= 1
  <2>1. Noted(g, h, s, new, cycle, wrote)
    BY <1>1, <1>3, NoteFacts
  <2>2. QED
    BY <2>1 DEF Noted
<1>6. q \in AgentState /\ (wrote = "ok" => q = new) /\ (wrote # "ok" => q = r)
  BY <1>1 DEF Persisted
<1> HIDE DEF g, q
<1>7. CASE new.level = s.level + 1
  <2>1. new.level > s.level /\ wrote \in {"ok", "failed"} /\ n >= s.cooldown /\ ~s.ack
        /\ s.hyst = 1 /\ new.hyst = 0 /\ (new.level = 2 => new.ack)
    BY <1>1, <1>2, <1>4, <1>7
  <2>2. RowKeeps(new, q, g, n)
    BY <2>1, <1>5, <1>6 DEF RowKeeps
  <2>3. n < g.due => g.due <= new.cooldown \/ g.lost
    BY <2>1, <1>2, <1>5 DEF Tracks, StateRemembers
  <2>4. StateRemembers(new, g, n)
    BY <2>1, <2>3, <1>2, <1>5 DEF StateRemembers
  <2>5. StepDue(s, h, new, g, n)
    BY <2>1, <1>2, <1>7 DEF StepDue, Tracks, StateRemembers
  <2>6. QED
    BY <1>1, <1>5, <1>6, <2>2, <2>4, <2>5 DEF Tracks, new, g, q, wrote, cycle
<1>8. CASE new.level = s.level
  <2>1. /\ ~(new.level > s.level) /\ wrote = "no" /\ q = r /\ g.dirty = h.dirty
        /\ g.due = h.due /\ g.owed = h.owed /\ new.ack = s.ack
        /\ new.level <= s.level
    BY <1>1, <1>2, <1>4, <1>5, <1>6, <1>8
  <2>2. n < new.cooldown => new = s
    BY <1>1, <1>2, <1>8
  <2>3. RowKeeps(new, q, g, n)
    BY <2>1, <2>2, <1>2, <1>8 DEF Tracks, RowKeeps
  <2>4. n < s.cooldown => new = s
    BY <1>1, <1>8
  <2>5. new.hyst = 1 => g.hot >= 1
    <3>1. CASE paused
      BY <3>1, <1>1, <1>4, <1>5, <1>8 DEF Tracks, StateRemembers
    <3>2. CASE ~paused /\ target > s.level
      BY <3>2, <2>1, <1>4, <1>5
    <3>3. CASE ~paused /\ ~(target > s.level)
      <4>1. n >= s.cooldown /\ ~s.ack /\ target <= s.level
        BY <3>3, <1>2
      <4>2. QED
        BY <4>1, <1>1, <1>2, <1>8
    <3>4. QED
      BY <3>1, <3>2, <3>3
  <2>6. StateRemembers(new, g, n)
    BY <2>1, <2>4, <2>5, <1>2, <1>5 DEF Tracks, StateRemembers
  <2>7. StepDue(s, h, new, g, n)
    BY <2>1 DEF StepDue
  <2>8. QED
    BY <1>1, <1>5, <1>6, <2>3, <2>6, <2>7 DEF Tracks, new, g, q, wrote, cycle
<1>9. QED
  BY <1>1, <1>7, <1>8

\* Step 5 of handle_event: a session that ends may lower the level.
LEMMA DeescalateTracks ==
    ASSUME NEW s \in AgentState, NEW r \in AgentState, NEW h \in Hist, NEW n \in Nat,
           NEW normal \in BOOLEAN, NEW f, Tracks(s, r, h, n)
    PROVE  LET new == TryDeescalate(s, normal)
               wrote == IF ~(new.level < s.level) THEN "no" ELSE IF "deescalation" \in f THEN "failed" ELSE "ok"
               g == NoteState(h, s, new, "no", wrote)
           IN  /\ new \in AgentState /\ g \in Hist /\ Persisted(r, new, wrote) \in AgentState
               /\ Tracks(new, Persisted(r, new, wrote), g, n)
               /\ new.level \in {s.level, s.level - 1}
               /\ g.lost = h.lost /\ g.hot = h.hot /\ g.due = h.due
               /\ new.level = s.level => g.owed = h.owed
<1> DEFINE new == TryDeescalate(s, normal)
           wrote == IF ~(new.level < s.level) THEN "no" ELSE IF "deescalation" \in f THEN "failed" ELSE "ok"
           g == NoteState(h, s, new, "no", wrote)
           q == Persisted(r, new, wrote)
<1>1. /\ new \in AgentState
      /\ new.level \in {s.level, s.level - 1}
      /\ new.cooldown = s.cooldown /\ new.hyst = s.hyst
      /\ new.level = s.level => new.ack = s.ack
  BY DeescalateFacts
<1> HIDE DEF new
<1>2. /\ s.level \in 0..4 /\ s.cooldown \in Nat /\ s.ack \in BOOLEAN /\ s.hyst \in 0..1
      /\ new.level \in 0..4 /\ h.hot \in Nat /\ h.due \in Nat
  BY <1>1 DEF AgentState, Level, Hist
<1>3. /\ wrote \in {"ok", "failed", "no"}
      /\ new.level < s.level => wrote \in {"ok", "failed"}
      /\ ~(new.level < s.level) => wrote = "no"
  OBVIOUS
<1> HIDE DEF wrote
<1>4. /\ g \in Hist
      /\ g.lost = h.lost
      /\ wrote = "ok" => ~g.dirty
      /\ wrote = "failed" => g.dirty
      /\ wrote = "no" => g.dirty = h.dirty
      /\ new.level <= s.level => g.due = h.due
      /\ new.level < s.level => ~g.owed
      /\ new.level = s.level => g.owed = h.owed
      /\ g.hot = h.hot
  <2>1. Noted(g, h, s, new, "no", wrote)
    BY <1>1, <1>3, NoteFacts
  <2>2. QED
    BY <2>1 DEF Noted
<1>5. q \in AgentState /\ (wrote = "ok" => q = new) /\ (wrote # "ok" => q = r)
  BY <1>1 DEF Persisted
<1> HIDE DEF g, q
<1>6. new.level <= s.level /\ g.due = h.due
  BY <1>1, <1>2, <1>4
<1>7. ASSUME new.level < s.level PROVE Tracks(new, q, g, n)
  <2>1. RowKeeps(new, q, g, n)
    BY <1>3, <1>4, <1>5, <1>7 DEF RowKeeps
  <2>2. StateRemembers(new, g, n)
    BY <1>1, <1>4, <1>6, <1>7 DEF Tracks, StateRemembers
  <2>3. QED
    BY <2>1, <2>2 DEF Tracks
<1>8. ASSUME new.level = s.level PROVE Tracks(new, q, g, n)
  <2>1. wrote = "no" /\ new.ack = s.ack
    BY <1>1, <1>2, <1>3, <1>8
  <2>2. RowKeeps(new, q, g, n)
    BY <2>1, <1>1, <1>4, <1>5, <1>8 DEF Tracks, RowKeeps
  <2>3. StateRemembers(new, g, n)
    BY <2>1, <1>1, <1>4, <1>6, <1>8 DEF Tracks, StateRemembers
  <2>4. QED
    BY <2>2, <2>3 DEF Tracks
<1>9. Tracks(new, q, g, n)
  BY <1>1, <1>2, <1>7, <1>8
<1>10. QED
  BY <1>1, <1>4, <1>5, <1>6, <1>9 DEF new, g, q, wrote

-----------------------------------------------------------------------------
(***************************************************************************)
(* Every step, agent by agent.                                              *)
(***************************************************************************)

\* The agents after a step: their states still track each other, and a state
\* whose level rose was due to rise.
AgentsStep ==
    /\ st' \in [Agent -> AgentState]
    /\ row' \in [Agent -> AgentState]
    /\ hist' \in [Agent -> Hist]
    /\ \A a \in Agent : /\ Tracks(st'[a], row'[a], hist'[a], now')
                        /\ StepDue(st[a], hist[a], st'[a], hist'[a], now)

\* A step that changes one agent only.
LEMMA OneAgent ==
    ASSUME MonitorInv, NEW a \in Agent, NEW s \in AgentState, NEW r \in AgentState,
           NEW h \in Hist, now' = now,
           st' = [st EXCEPT ![a] = s], row' = [row EXCEPT ![a] = r],
           hist' = [hist EXCEPT ![a] = h],
           Tracks(s, r, h, now), StepDue(st[a], hist[a], s, h, now)
    PROVE  AgentsStep
<1>1. st \in [Agent -> AgentState] /\ row \in [Agent -> AgentState] /\ hist \in [Agent -> Hist]
  BY DEF MonitorInv, TypeOK
<1>2. st' \in [Agent -> AgentState] /\ row' \in [Agent -> AgentState] /\ hist' \in [Agent -> Hist]
  BY <1>1
<1>3. st'[a] = s /\ row'[a] = r /\ hist'[a] = h
  BY <1>1
<1>4. ASSUME NEW b \in Agent, b # a
      PROVE  /\ Tracks(st'[b], row'[b], hist'[b], now')
             /\ StepDue(st[b], hist[b], st'[b], hist'[b], now)
  <2>1. st'[b] = st[b] /\ row'[b] = row[b] /\ hist'[b] = hist[b]
    BY <1>1, <1>4
  <2>2. st[b].level \in Nat
    BY <1>1 DEF AgentState, Level
  <2>3. StepDue(st[b], hist[b], st[b], hist[b], now)
    BY <2>2 DEF StepDue
  <2>4. QED
    BY <2>1, <2>3 DEF MonitorInv
<1>5. QED
  BY <1>2, <1>3, <1>4 DEF AgentsStep

\* The levels a score can have.
LEMMA ScoreLevelsType ==
    ASSUME TypeOK, NEW a \in Agent
    PROVE  ComputedLevels \subseteq Level /\ ScoreLevels(a) \subseteq Level
<1>1. ComputedLevels \subseteq Level
  BY MonitorAssumption DEF ComputedLevels, ComputedLevel, Level
<1>2. cache[a] \in Level \cup {NoScore}
  BY DEF TypeOK
<1>3. QED
  BY <1>1, <1>2 DEF ScoreLevels

LEMMA ScoreStep ==
    ASSUME MonitorInv, NEW a \in Agent, NEW s \in AgentState, NEW r \in AgentState,
           NEW h \in Hist, NEW c, NEW f, now' = now,
           Tracks(s, r, h, now), h.lost = hist[a].lost,
           s.level = st[a].level \/ s.level = st[a].level - 1,
           s.level = st[a].level => h.hot = hist[a].hot /\ h.due = hist[a].due
                                    /\ h.owed = hist[a].owed,
           ScoreAndEvaluate(a, s, h, r, c, f)
    PROVE  /\ AgentsStep
           /\ cache' \in [Agent -> Level \cup {NoScore}]
           /\ score' \in [Agent -> Level \cup {NoScore}]
<1>1. /\ cache \in [Agent -> Level \cup {NoScore}] /\ score \in [Agent -> Level \cup {NoScore}]
      /\ now \in Nat /\ st[a] \in AgentState /\ hist[a] \in Hist
  BY MonitorAssumption DEF MonitorInv, TypeOK
<1>2. s.level \in 0..4 /\ st[a].level \in 0..4
  BY <1>1 DEF AgentState, Level
<1>3. CASE c < Calibration
  <2>1. StepDue(st[a], hist[a], s, h, now)
    BY <1>2 DEF StepDue
  <2>2. /\ st' = [st EXCEPT ![a] = s] /\ row' = [row EXCEPT ![a] = r]
        /\ hist' = [hist EXCEPT ![a] = h] /\ cache' = cache /\ score' = score
    BY <1>3 DEF ScoreAndEvaluate
  <2>3. AgentsStep
    BY <2>1, <2>2, OneAgent
  <2>4. QED
    BY <1>1, <2>2, <2>3
<1>4. CASE ~(c < Calibration)
  <2> DEFINE new(t) == Evaluate(s, t, now)
             paused == now < s.cooldown \/ s.ack
             wrote(t) == IF ~(new(t).level > s.level) THEN "no"
                         ELSE IF "state" \in f THEN "failed" ELSE "ok"
             g(t) == NoteState(h, s, new(t),
                       IF paused THEN "no" ELSE IF t > s.level THEN "hot" ELSE "cool", wrote(t))
  <2>1. PICK t \in ScoreLevels(a) :
          /\ st' = [st EXCEPT ![a] = new(t)]
          /\ cache' = [cache EXCEPT ![a] = t]
          /\ score' = [score EXCEPT ![a] = IF "score" \in f THEN @ ELSE t]
          /\ row' = [row EXCEPT ![a] = Persisted(r, new(t), wrote(t))]
          /\ hist' = [hist EXCEPT ![a] = g(t)]
    BY <1>4 DEF ScoreAndEvaluate
  <2>2. t \in Level
    BY ScoreLevelsType DEF MonitorInv
  <2>3. /\ new(t) \in AgentState /\ g(t) \in Hist /\ Persisted(r, new(t), wrote(t)) \in AgentState
        /\ Tracks(new(t), Persisted(r, new(t), wrote(t)), g(t), now)
        /\ g(t).lost = h.lost
        /\ StepDue(s, h, new(t), g(t), now)
    BY <1>1, <2>2, EvaluateTracks
  <2>4. StepDue(st[a], hist[a], new(t), g(t), now)
    <3> HIDE DEF new, g
    <3>1. SUFFICES ASSUME new(t).level > st[a].level, ~hist[a].lost, ~g(t).lost
                   PROVE  /\ new(t).level = st[a].level + 1
                          /\ hist[a].hot >= 1 /\ now >= hist[a].due /\ ~hist[a].owed
      BY DEF StepDue
    <3>2. new(t).level \in 0..4
      BY <2>3 DEF AgentState, Level
    <3>3. new(t).level > s.level
      BY <1>2, <3>1, <3>2
    <3>4. new(t).level = s.level + 1 /\ h.hot >= 1 /\ now >= h.due /\ ~h.owed
      BY <2>3, <3>1, <3>3 DEF StepDue
    <3>5. s.level = st[a].level
      BY <1>2, <3>1, <3>4
    <3>6. QED
      BY <3>4, <3>5
  <2>5. AgentsStep
    <3> HIDE DEF new, g, wrote
    <3>1. QED
      BY <2>1, <2>3, <2>4, OneAgent
  <2>6. QED
    BY <1>1, <2>1, <2>2, <2>5
<1>5. QED
  BY <1>3, <1>4

LEMMA SessionEndAgents ==
    ASSUME MonitorInv, NEW s \in Session, NEW f, SessionEnd(s, f)
    PROVE  /\ AgentsStep
           /\ cache' \in [Agent -> Level \cup {NoScore}]
           /\ score' \in [Agent -> Level \cup {NoScore}]
<1> DEFINE a == Owner[s]
           cached == IF cache[a] = NoScore THEN 0 ELSE cache[a]
           normal == cached < st[a].level
           new == TryDeescalate(st[a], normal)
           wrote == IF ~(new.level < st[a].level) THEN "no"
                    ELSE IF "deescalation" \in f THEN "failed" ELSE "ok"
           g == NoteState(hist[a], st[a], new, "no", wrote)
           r == Persisted(row[a], new, wrote)
<1>1. a \in Agent
  BY MonitorAssumption
<1>2. /\ st[a] \in AgentState /\ row[a] \in AgentState /\ hist[a] \in Hist /\ now \in Nat
      /\ Tracks(st[a], row[a], hist[a], now)
  BY <1>1, MonitorAssumption DEF MonitorInv, TypeOK
<1>3. now' = now /\ ScoreAndEvaluate(a, new, g, r, calib[a], f)
  BY DEF SessionEnd
<1>4. normal \in BOOLEAN
  OBVIOUS
<1> HIDE DEF normal
<1>5. /\ new \in AgentState /\ g \in Hist /\ r \in AgentState
      /\ Tracks(new, r, g, now)
      /\ new.level \in {st[a].level, st[a].level - 1}
      /\ g.lost = hist[a].lost /\ g.hot = hist[a].hot /\ g.due = hist[a].due
      /\ new.level = st[a].level => g.owed = hist[a].owed
  BY <1>2, <1>4, DeescalateTracks
<1> HIDE DEF a, new, g, r
<1>6. QED
  BY <1>1, <1>3, <1>5, ScoreStep

LEMMA ScoredAgents ==
    ASSUME MonitorInv, NEW a \in Agent, NEW c, NEW f, now' = now,
           ScoreAndEvaluate(a, st[a], hist[a], row[a], c, f)
    PROVE  /\ AgentsStep
           /\ cache' \in [Agent -> Level \cup {NoScore}]
           /\ score' \in [Agent -> Level \cup {NoScore}]
<1>1. /\ st[a] \in AgentState /\ row[a] \in AgentState /\ hist[a] \in Hist
      /\ Tracks(st[a], row[a], hist[a], now)
  BY DEF MonitorInv, TypeOK
<1>2. QED
  BY <1>1, ScoreStep

\* A step that touches no agent, the passing of time included.
LEMMA SameAgents ==
    ASSUME MonitorInv, UNCHANGED <<st, row, hist>>, now' \in {now, now + 1}
    PROVE  AgentsStep
<1>1. /\ st \in [Agent -> AgentState] /\ row \in [Agent -> AgentState] /\ hist \in [Agent -> Hist]
      /\ now \in Nat
  BY MonitorAssumption DEF MonitorInv, TypeOK
<1>2. ASSUME NEW a \in Agent
      PROVE  /\ Tracks(st[a], row[a], hist[a], now')
             /\ StepDue(st[a], hist[a], st[a], hist[a], now)
  <2>1. st[a].level \in Nat /\ st[a].cooldown \in Nat /\ hist[a].due \in Nat
    BY <1>1 DEF AgentState, Level, Hist
  <2>2. Tracks(st[a], row[a], hist[a], now)
    BY DEF MonitorInv
  <2>3. now' >= now /\ now' \in Nat
    BY <1>1
  <2>4. QED
    BY <1>1, <2>1, <2>2, <2>3 DEF Tracks, RowKeeps, StateRemembers, StepDue
<1>3. QED
  BY <1>1, <1>2 DEF AgentsStep

LEMMA AcknowledgeAgents ==
    ASSUME MonitorInv, NEW a \in Agent, NEW f, AcknowledgeRequest(a, f)
    PROVE  AgentsStep
<1> DEFINE new == Acknowledge(st[a])
           wrote == IF f = {} THEN "ok" ELSE "failed"
           n == NoteState(hist[a], st[a], new, "no", wrote)
           g == [n EXCEPT !.owed = FALSE]
           r == Persisted(row[a], new, wrote)
<1>1. /\ st \in [Agent -> AgentState] /\ row \in [Agent -> AgentState] /\ hist \in [Agent -> Hist]
      /\ Tracks(st[a], row[a], hist[a], now) /\ now \in Nat
      /\ st[a] \in AgentState /\ row[a] \in AgentState /\ hist[a] \in Hist
  BY MonitorAssumption DEF MonitorInv, TypeOK
<1>2. /\ now' = now
      /\ st' = [st EXCEPT ![a] = new]
      /\ row' = [row EXCEPT ![a] = r]
      /\ hist' = [hist EXCEPT ![a] = g]
  BY <1>1 DEF AcknowledgeRequest
<1>3. /\ new \in AgentState /\ new.level = st[a].level /\ new.cooldown = st[a].cooldown
      /\ new.hyst = st[a].hyst
  BY <1>1, SetAck DEF Acknowledge
<1> HIDE DEF new
<1>4. wrote \in {"ok", "failed"}
  OBVIOUS
<1>5. r \in AgentState /\ (wrote = "ok" => r = new)
  BY <1>1, <1>3 DEF Persisted
<1> HIDE DEF wrote, r
<1>6. Noted(n, hist[a], st[a], new, "no", wrote)
  BY <1>1, <1>3, <1>4, NoteFacts
<1> HIDE DEF n
<1>7. g \in Hist /\ g.lost = n.lost /\ g.dirty = n.dirty /\ g.due = n.due /\ g.hot = n.hot
      /\ g.owed = FALSE
  BY <1>6 DEF Noted, Hist
<1> HIDE DEF g
<1>8. st[a].level \in Nat
  BY <1>1 DEF AgentState, Level
<1>9. /\ n.lost = hist[a].lost /\ (wrote = "ok" => ~n.dirty) /\ (wrote = "failed" => n.dirty)
      /\ n.hot = hist[a].hot /\ n.due = hist[a].due
  BY <1>3, <1>6, <1>8 DEF Noted
<1>10. Tracks(new, r, g, now)
  <2>1. RowKeeps(new, r, g, now)
    BY <1>4, <1>5, <1>7, <1>9 DEF RowKeeps
  <2>2. StateRemembers(new, g, now)
    BY <1>1, <1>3, <1>7, <1>9 DEF StateRemembers, Tracks
  <2>3. QED
    BY <2>1, <2>2 DEF Tracks
<1>11. StepDue(st[a], hist[a], new, g, now)
  BY <1>3, <1>8 DEF StepDue
<1>12. QED
  BY <1>2, <1>3, <1>5, <1>7, <1>10, <1>11, OneAgent

LEMMA CooldownTickAgents ==
    ASSUME MonitorInv, NEW stale, NEW f, CooldownTick(stale, f)
    PROVE  AgentsStep
<1> DEFINE e(a) == ExpireCooldown(st[a], now)
           due == {a \in Agent : e(a) # st[a]}
           wrote(a) == IF a \notin due THEN "no" ELSE IF a \in f THEN "failed" ELSE "ok"
           g(a) == NoteState(hist[a], st[a], e(a), "no", wrote(a))
           r(a) == IF a \in due \ f THEN e(a) ELSE row[a]
<1>1. /\ st \in [Agent -> AgentState] /\ row \in [Agent -> AgentState] /\ hist \in [Agent -> Hist]
      /\ now \in Nat
  BY MonitorAssumption DEF MonitorInv, TypeOK
<1>2. /\ now' = now
      /\ st' = [a \in Agent |-> e(a)]
      /\ row' = [a \in Agent |-> r(a)]
      /\ hist' = [a \in Agent |-> g(a)]
  BY DEF CooldownTick
<1>3. ASSUME NEW a \in Agent
      PROVE  /\ e(a) \in AgentState /\ r(a) \in AgentState /\ g(a) \in Hist
             /\ Tracks(e(a), r(a), g(a), now)
             /\ StepDue(st[a], hist[a], e(a), g(a), now)
  <2>1. /\ e(a) \in AgentState
        /\ e(a).level = st[a].level /\ e(a).ack = st[a].ack /\ e(a).hyst = st[a].hyst
        /\ now < st[a].cooldown => e(a) = st[a]
    BY <1>1, ExpireFacts
  <2>2. e(a) # st[a] => e(a).cooldown = 0
    BY <1>1 DEF ExpireCooldown, AgentState
  <2>3. /\ a \in due <=> e(a) # st[a]
        /\ a \in due => wrote(a) \in {"ok", "failed"} /\ (wrote(a) = "ok" => r(a) = e(a))
                        /\ (wrote(a) = "failed" => r(a) = row[a])
        /\ a \notin due => wrote(a) = "no" /\ r(a) = row[a]
        /\ wrote(a) \in {"ok", "failed", "no"}
    OBVIOUS
  <2> HIDE DEF e, due, wrote, r
  <2>4. Noted(g(a), hist[a], st[a], e(a), "no", wrote(a))
    BY <1>1, <2>1, <2>3, NoteFacts
  <2> HIDE DEF g
  <2>5. st[a].level \in Nat /\ st[a].cooldown \in Nat /\ hist[a].due \in Nat
    BY <1>1 DEF AgentState, Level, Hist
  <2>6. /\ g(a) \in Hist /\ g(a).lost = hist[a].lost /\ g(a).hot = hist[a].hot
        /\ g(a).due = hist[a].due /\ g(a).owed = hist[a].owed
        /\ wrote(a) = "ok" => ~g(a).dirty
        /\ wrote(a) = "failed" => g(a).dirty
        /\ wrote(a) = "no" => g(a).dirty = hist[a].dirty
    BY <2>1, <2>4, <2>5 DEF Noted
  <2>7. r(a) \in AgentState
    BY <1>1, <2>1, <2>3
  <2>8. Tracks(st[a], row[a], hist[a], now)
    BY DEF MonitorInv
  <2>9. RowKeeps(e(a), r(a), g(a), now)
    BY <2>3, <2>6, <2>8 DEF RowKeeps, Tracks
  <2>10. StateRemembers(e(a), g(a), now)
    BY <1>1, <2>1, <2>5, <2>6, <2>8 DEF StateRemembers, Tracks
  <2>11. StepDue(st[a], hist[a], e(a), g(a), now)
    BY <2>1, <2>5 DEF StepDue
  <2>12. QED
    BY <2>1, <2>6, <2>7, <2>9, <2>10, <2>11 DEF Tracks
<1> HIDE DEF e, r, g
<1>4. QED
  BY <1>2, <1>3 DEF AgentsStep

\* What a restart makes of a row, and what it notes.
LEMMA RestoredFacts ==
    ASSUME NEW r \in AgentState, NEW m
    PROVE  LET e == Restored(r, m) IN
           /\ e \in AgentState
           /\ "state" \notin m => e.level = r.level /\ e.ack = r.ack
           /\ "cooldown" \in m /\ "state" \notin m => e.cooldown = 0
           /\ "state" \notin m /\ "cooldown" \notin m => e = r
<1>1. DefaultState \in AgentState
  BY DEF DefaultState, AgentState, Level, MaxNormal
<1>2. CASE "state" \in m
  BY <1>1, <1>2 DEF Restored
<1>3. CASE "state" \notin m /\ "cooldown" \in m
  <2>1. Restored(r, m) = [r EXCEPT !.cooldown = 0]
    BY <1>3 DEF Restored
  <2> DEFINE e == [r EXCEPT !.cooldown = 0]
  <2>2. e \in AgentState /\ e.cooldown = 0 /\ e.level = r.level /\ e.ack = r.ack
    BY SetCooldown
  <2> HIDE DEF e
  <2>3. Restored(r, m) = e
    BY <2>1 DEF e
  <2>4. QED
    BY <1>3, <2>2, <2>3, Zenon
<1>4. CASE "state" \notin m /\ "cooldown" \notin m
  BY <1>4 DEF Restored
<1>5. QED
  BY <1>2, <1>3, <1>4

LEMMA NoteRestartFacts ==
    ASSUME NEW h \in Hist, NEW r \in AgentState, NEW d \in BOOLEAN, NEW m
    PROVE  LET g == NoteRestart(h, r, d, m) IN
           /\ g \in Hist
           /\ g.hot = Restored(r, m).hyst /\ g.due = h.due /\ g.owed = h.owed
           /\ ~g.dirty => "state" \notin m
           /\ ~g.lost => ~h.lost /\ ~d /\ "state" \notin m /\ "cooldown" \notin m
<1> DEFINE k == Restored(r, m).hyst
           x == d \/ "state" \in m
           y == h.lost \/ d \/ m \cap {"state", "cooldown"} # {}
           g == [due |-> h.due, hot |-> k, owed |-> h.owed, dirty |-> x, lost |-> y]
<1>1. k \in Nat
  BY RestoredFacts DEF AgentState
<1>2. x \in BOOLEAN /\ y \in BOOLEAN
  OBVIOUS
<1>3. ~x => "state" \notin m
  OBVIOUS
<1>4. ~y => ~h.lost /\ ~d /\ "state" \notin m /\ "cooldown" \notin m
  OBVIOUS
<1>5. NoteRestart(h, r, d, m) = g
  BY DEF NoteRestart
<1> HIDE DEF k, x, y
<1>6. /\ g \in Hist /\ g.hot = k /\ g.due = h.due /\ g.owed = h.owed
      /\ g.dirty = x /\ g.lost = y
  BY <1>1, <1>2 DEF Hist
<1> HIDE DEF g
<1>7. /\ ~g.dirty => "state" \notin m
      /\ ~g.lost => ~h.lost /\ ~d /\ "state" \notin m /\ "cooldown" \notin m
  BY <1>3, <1>4, <1>6, Zenon
<1>8. QED
  BY <1>5, <1>6, <1>7 DEF k

\* A restart from the rows q, of which those in kept have just been written,
\* and of which missed is not read.
LEMMA RestartAgents ==
    ASSUME MonitorInv, NEW kept \in SUBSET Agent, NEW q \in [Agent -> AgentState],
           NEW dirty \in [Agent -> BOOLEAN], NEW missed,
           now' = now, row' = q,
           st' = [a \in Agent |-> Restored(q[a], missed[a])],
           \A a \in Agent : q[a] = IF a \in kept THEN st[a] ELSE row[a],
           \A a \in Agent : ~dirty[a] /\ hist[a].dirty => a \in kept,
           hist' = [a \in Agent |-> NoteRestart(hist[a], q[a], dirty[a], missed[a])]
    PROVE  AgentsStep
<1>1. /\ st \in [Agent -> AgentState] /\ row \in [Agent -> AgentState] /\ hist \in [Agent -> Hist]
      /\ now \in Nat
  BY MonitorAssumption DEF MonitorInv, TypeOK
<1>2. ASSUME NEW a \in Agent
      PROVE  /\ st'[a] \in AgentState /\ hist'[a] \in Hist
             /\ Tracks(st'[a], q[a], hist'[a], now)
             /\ StepDue(st[a], hist[a], st'[a], hist'[a], now)
  <2> DEFINE m == missed[a]
             e == Restored(q[a], m)
             d == dirty[a]
             g == NoteRestart(hist[a], q[a], d, m)
  <2>1. Tracks(st[a], row[a], hist[a], now)
    BY DEF MonitorInv
  <2>2. /\ st[a] \in AgentState /\ row[a] \in AgentState /\ q[a] \in AgentState
        /\ hist[a] \in Hist /\ d \in BOOLEAN
    BY <1>1
  <2>3. st'[a] = e /\ hist'[a] = g
    OBVIOUS
  <2>4. ~d /\ hist[a].dirty => a \in kept
    OBVIOUS
  <2> HIDE DEF m, d
  <2>5. /\ e \in AgentState
        /\ "state" \notin m => e.level = q[a].level /\ e.ack = q[a].ack
        /\ "cooldown" \in m /\ "state" \notin m => e.cooldown = 0
        /\ "state" \notin m /\ "cooldown" \notin m => e = q[a]
    BY <2>2, RestoredFacts
  <2>6. /\ g \in Hist
        /\ g.hot = e.hyst /\ g.due = hist[a].due /\ g.owed = hist[a].owed
        /\ ~g.dirty => "state" \notin m
        /\ ~g.lost => ~hist[a].lost /\ ~d /\ "state" \notin m /\ "cooldown" \notin m
    BY <2>2, NoteRestartFacts
  <2> HIDE DEF e, g
  <2>7. /\ st[a].level \in Nat /\ st[a].cooldown \in Nat /\ hist[a].due \in Nat
        /\ row[a].cooldown \in Nat /\ e.hyst \in 0..1 /\ e.cooldown \in Nat
    BY <2>2, <2>5 DEF AgentState, Level, Hist
  <2>8. ~g.lost =>
          /\ e.level = st[a].level /\ e.ack = st[a].ack
          /\ now < st[a].cooldown => e.cooldown = st[a].cooldown
          /\ hist[a].owed => st[a].ack
          /\ now < hist[a].due => hist[a].due <= st[a].cooldown
    BY <2>1, <2>4, <2>5, <2>6 DEF Tracks, RowKeeps, StateRemembers
  <2>9. RowKeeps(e, q[a], g, now)
    BY <1>1, <2>5, <2>6 DEF RowKeeps
  <2>10. StateRemembers(e, g, now)
    BY <1>1, <2>6, <2>7, <2>8 DEF StateRemembers
  <2>11. StepDue(st[a], hist[a], e, g, now)
    BY <2>7, <2>8 DEF StepDue
  <2>12. QED
    BY <2>3, <2>5, <2>6, <2>9, <2>10, <2>11 DEF Tracks
<1>3. st' \in [Agent -> AgentState] /\ hist' \in [Agent -> Hist]
  BY <1>2
<1>4. QED
  BY <1>2, <1>3 DEF AgentsStep

LEMMA CrashAgents ==
    ASSUME MonitorInv, NEW missed, NEW noThreshold, CrashRestart(missed, noThreshold)
    PROVE  AgentsStep
<1> DEFINE dirty == [a \in Agent |-> hist[a].dirty]
           kept == {}
           q == [a \in Agent |-> row[a]]
<1>1. row \in [Agent -> AgentState] /\ hist \in [Agent -> Hist]
  BY DEF MonitorInv, TypeOK
<1>2. dirty \in [Agent -> BOOLEAN] /\ q \in [Agent -> AgentState]
  BY <1>1 DEF Hist
<1>3. /\ now' = now /\ row' = q
      /\ st' = [a \in Agent |-> Restored(q[a], missed[a])]
  BY <1>1 DEF CrashRestart, Reconstruct, disk
<1>4. hist' = [a \in Agent |-> NoteRestart(hist[a], q[a], dirty[a], missed[a])]
  BY DEF CrashRestart
<1>5. /\ kept \in SUBSET Agent
      /\ \A a \in Agent : q[a] = IF a \in kept THEN st[a] ELSE row[a]
      /\ \A a \in Agent : ~dirty[a] /\ hist[a].dirty => a \in kept
  OBVIOUS
<1> HIDE DEF dirty, kept, q
<1>6. QED
  BY <1>2, <1>3, <1>4, <1>5, RestartAgents

LEMMA ShutdownAgents ==
    ASSUME MonitorInv, NEW f, NEW g, NEW missed, NEW noThreshold,
           ShutdownRestart(f, g, missed, noThreshold)
    PROVE  AgentsStep
<1> DEFINE flushed == {a \in Agent : cache[a] # NoScore}
           kept == flushed \ f
           dirty == [a \in Agent |-> hist[a].dirty /\ a \notin flushed \ f]
           q == [a \in Agent |-> IF a \in flushed \ f THEN st[a] ELSE row[a]]
<1>1. st \in [Agent -> AgentState] /\ row \in [Agent -> AgentState] /\ hist \in [Agent -> Hist]
  BY DEF MonitorInv, TypeOK
<1>2. dirty \in [Agent -> BOOLEAN] /\ q \in [Agent -> AgentState]
  BY <1>1
<1>3. /\ now' = now /\ row' = q
      /\ st' = [a \in Agent |-> Restored(q[a], missed[a])]
  BY DEF ShutdownRestart, Reconstruct
<1>4. hist' = [a \in Agent |-> NoteRestart(hist[a], q[a], dirty[a], missed[a])]
  BY DEF ShutdownRestart
<1>5. /\ kept \in SUBSET Agent
      /\ \A a \in Agent : q[a] = IF a \in kept THEN st[a] ELSE row[a]
      /\ \A a \in Agent : ~dirty[a] /\ hist[a].dirty => a \in kept
  OBVIOUS
<1> HIDE DEF dirty, kept, q
<1>6. QED
  BY <1>2, <1>3, <1>4, <1>5, RestartAgents

-----------------------------------------------------------------------------
(***************************************************************************)
(* The lock, the thresholds, and the remaining variables.                   *)
(***************************************************************************)

LEMMA LockStep ==
    ASSUME MonitorInv, Next
    PROVE  active' \subseteq Session /\ locked' \in BOOLEAN /\ LockFollowsSessions'
<1>1. active \subseteq Session /\ locked \in BOOLEAN /\ (locked <=> active # {})
  BY DEF MonitorInv, TypeOK, LockFollowsSessions
<1>2. ASSUME NEW s \in Session, NEW f, SessionStart(s, f)
      PROVE  active' \subseteq Session /\ locked' \in BOOLEAN /\ (locked' <=> active' # {})
  <2>1. \/ UNCHANGED <<active, locked>>
        \/ active' = {t \in active : Owner[t] # Owner[s]} \cup {s} /\ locked' = TRUE
    BY <1>2 DEF SessionStart
  <2>2. ASSUME active' = {t \in active : Owner[t] # Owner[s]} \cup {s}, locked' = TRUE
        PROVE  active' \subseteq Session /\ active' # {} /\ locked' = TRUE
    BY <1>1, <2>2
  <2>3. ASSUME UNCHANGED <<active, locked>>
        PROVE  active' \subseteq Session /\ locked' \in BOOLEAN /\ (locked' <=> active' # {})
    BY <1>1, <2>3
  <2>4. QED
    BY <2>1, <2>2, <2>3, Zenon
<1>3. ASSUME NEW gone, active' = active \ gone, locked' = LockAfter(active \ gone)
      PROVE  active' \subseteq Session /\ locked' \in BOOLEAN /\ (locked' <=> active' # {})
  BY <1>1, <1>3 DEF LockAfter
<1>4. ASSUME NEW s, NEW f, SessionEnd(s, f)
      PROVE  active' \subseteq Session /\ locked' \in BOOLEAN /\ (locked' <=> active' # {})
  BY <1>3, <1>4 DEF SessionEnd
<1>5. ASSUME NEW stale, NEW f, CooldownTick(stale, f)
      PROVE  active' \subseteq Session /\ locked' \in BOOLEAN /\ (locked' <=> active' # {})
  BY <1>3, <1>5 DEF CooldownTick
<1>6. ASSUME active' = {}, locked' = FALSE
      PROVE  active' \subseteq Session /\ locked' \in BOOLEAN /\ (locked' <=> active' # {})
  BY <1>6
<1>7. ASSUME UNCHANGED <<active, locked>>
      PROVE  active' \subseteq Session /\ locked' \in BOOLEAN /\ (locked' <=> active' # {})
  BY <1>1, <1>7
<1>8. ASSUME NEW a, NEW f, Message(a, f) \/ AcknowledgeRequest(a, f)
      PROVE  UNCHANGED <<active, locked>>
  BY <1>8 DEF Message, AcknowledgeRequest
<1>9. ASSUME NEW x, NEW y, NEW f, ProposeThreshold(x, y, f) \/ ConfirmThreshold(x, y, f)
      PROVE  UNCHANGED <<active, locked>>
  BY <1>9 DEF ProposeThreshold, ConfirmThreshold
<1>10. RecalculateAll \/ Tick => UNCHANGED <<active, locked>>
  BY DEF RecalculateAll, Tick, memory
<1>11. ASSUME NEW missed, NEW b, CrashRestart(missed, b)
       PROVE  active' = {} /\ locked' = FALSE
  BY <1>11 DEF CrashRestart, Reconstruct
<1>12. ASSUME NEW f, NEW g, NEW missed, NEW b, ShutdownRestart(f, g, missed, b)
       PROVE  active' = {} /\ locked' = FALSE
  BY <1>12 DEF ShutdownRestart, Reconstruct
<1>13. QED
  BY <1>2, <1>4, <1>5, <1>6, <1>7, <1>8, <1>9, <1>10, <1>11, <1>12
     DEF Next, LockFollowsSessions

\* The variables of the thresholds, with their types and their invariants.
KeyState ==
    /\ threshold \in Threshold /\ thresholdRow \in Threshold
    /\ pending \in Change \cup {NoChange}
    /\ proposals \in Seq([initiator: Actor, proposed: Threshold]) /\ Len(proposals) <= MaxProposals
    /\ twoKey \subseteq Threshold
    /\ PendingIsProposed
    /\ TwoKeysToLower

LEMMA SameKeys ==
    ASSUME MonitorInv, UNCHANGED <<threshold, thresholdRow, proposals, twoKey>>,
           pending' \in {pending, NoChange}
    PROVE  KeyState'
BY DEF MonitorInv, TypeOK, KeyState, PendingIsProposed, TwoKeysToLower

LEMMA RestartKeys ==
    ASSUME MonitorInv, threshold' \in {thresholdRow, DefaultThreshold}, pending' = NoChange,
           UNCHANGED <<thresholdRow, proposals, twoKey>>
    PROVE  KeyState'
BY MonitorAssumption DEF MonitorInv, TypeOK, KeyState, PendingIsProposed, TwoKeysToLower

LEMMA ProposeKeys ==
    ASSUME MonitorInv, NEW x \in Actor, NEW to \in Threshold, NEW f, ProposeThreshold(x, to, f)
    PROVE  KeyState'
<1>1. /\ threshold \in Threshold /\ thresholdRow \in Threshold /\ twoKey \subseteq Threshold
      /\ proposals \in Seq([initiator: Actor, proposed: Threshold]) /\ Len(proposals) <= MaxProposals
      /\ Threshold \subseteq Nat /\ ThresholdFloor \in Nat /\ DefaultThreshold \in Threshold
      /\ MaxProposals \in Nat /\ now \in Nat /\ DualKeyTtl \in Nat /\ MaxTime \in Nat
      /\ TwoKeysToLower /\ twoKey' = twoKey /\ to >= ThresholdFloor
      /\ PendingIsProposed /\ pending = NoChange
  BY MonitorAssumption DEF MonitorInv, TypeOK, ProposeThreshold
<1>2. CASE to < threshold
  <2> DEFINE p == [initiator |-> x, proposed |-> to]
             k == Len(proposals) + 1
  <2>1. /\ Len(proposals) < MaxProposals
        /\ pending' = [token |-> k, initiator |-> x, current |-> threshold, proposed |-> to,
                       expires |-> now + DualKeyTtl]
        /\ proposals' = Append(proposals, p)
        /\ UNCHANGED <<threshold, thresholdRow>>
    BY <1>1, <1>2 DEF ProposeThreshold
  <2>2. /\ proposals' \in Seq([initiator: Actor, proposed: Threshold])
        /\ Len(proposals') = k /\ proposals'[k] = p
    <3>1. p \in [initiator: Actor, proposed: Threshold]
      OBVIOUS
    <3> HIDE DEF p
    <3>2. QED
      BY <1>1, <2>1, <3>1
  <2>3. k \in 1..MaxProposals /\ k \in 1..Len(proposals') /\ Len(proposals') <= MaxProposals
    <3>1. Len(proposals) \in Nat
      BY <1>1
    <3>2. QED
      BY <1>1, <2>1, <2>2, <3>1
  <2> HIDE DEF k
  <2>4. pending' \in Change
    BY <1>1, <2>1, <2>3 DEF Change
  <2>5. PendingIsProposed'
    BY <1>1, <2>1, <2>2, <2>3 DEF PendingIsProposed
  <2>6. TwoKeysToLower'
    BY <1>1, <2>1 DEF TwoKeysToLower
  <2>7. QED
    BY <1>1, <2>1, <2>2, <2>3, <2>4, <2>5, <2>6 DEF KeyState
<1>3. CASE ~(to < threshold)
  <2>1. /\ to >= threshold /\ pending' = pending /\ proposals' = proposals
        /\ ApplyThreshold(to, f)
    BY <1>1, <1>3 DEF ProposeThreshold
  <2>2. threshold' = to /\ thresholdRow' \in {thresholdRow, to}
    BY <2>1 DEF ApplyThreshold
  <2>3. TwoKeysToLower'
    <3>1. PICK v \in twoKey \cup {DefaultThreshold} : v <= threshold
      BY <1>1 DEF TwoKeysToLower
    <3>2. v <= to
      BY <1>1, <2>1, <3>1
    <3>3. \A t \in {to, thresholdRow} : t >= ThresholdFloor
            /\ \E u \in twoKey \cup {DefaultThreshold} : u <= t
      BY <1>1, <3>2 DEF TwoKeysToLower
    <3>4. QED
      BY <1>1, <2>2, <3>3 DEF TwoKeysToLower
  <2>4. QED
    BY <1>1, <2>1, <2>2, <2>3 DEF KeyState, PendingIsProposed
<1>4. QED
  BY <1>2, <1>3

LEMMA ConfirmKeys ==
    ASSUME MonitorInv, NEW x \in Actor, NEW k \in 1..Len(proposals), NEW f,
           ConfirmThreshold(x, k, f)
    PROVE  KeyState'
<1>1. /\ threshold \in Threshold /\ thresholdRow \in Threshold /\ twoKey \subseteq Threshold
      /\ proposals \in Seq([initiator: Actor, proposed: Threshold]) /\ Len(proposals) <= MaxProposals
      /\ Threshold \subseteq Nat /\ ThresholdFloor \in Nat /\ DefaultThreshold \in Threshold
      /\ TwoKeysToLower /\ PendingIsProposed /\ proposals' = proposals
      /\ pending \in Change /\ pending # NoChange /\ pending' = NoChange
  BY MonitorAssumption DEF MonitorInv, TypeOK, ConfirmThreshold
<1>2. CASE UNCHANGED <<threshold, thresholdRow, twoKey>>
  BY <1>1, <1>2 DEF KeyState, PendingIsProposed, TwoKeysToLower
<1>3. CASE MayConfirm(pending, k, x)
           /\ twoKey' = (IF proposals[k].initiator # x
                         THEN twoKey \cup {proposals[k].proposed} ELSE twoKey)
           /\ \/ ApplyThreshold(pending.proposed, f)
              \/ UNCHANGED <<threshold, thresholdRow>>
  <2>1. /\ pending.token = k /\ pending.initiator # x
        /\ proposals[k] = [initiator |-> pending.initiator, proposed |-> pending.proposed]
        /\ pending.proposed >= ThresholdFloor /\ pending.proposed \in Threshold
    BY <1>1, <1>3 DEF MayConfirm, PendingIsProposed, Change
  <2>2. twoKey' = twoKey \cup {pending.proposed}
    BY <1>3, <2>1
  <2>3. /\ threshold' \in {threshold, pending.proposed}
        /\ thresholdRow' \in {thresholdRow, pending.proposed}
    BY <1>3 DEF ApplyThreshold
  <2>4. pending.proposed <= pending.proposed
    <3>1. pending.proposed \in Nat
      BY <1>1, <2>1
    <3>2. QED
      BY <3>1
  <2>5. TwoKeysToLower'
    BY <1>1, <2>1, <2>2, <2>3, <2>4 DEF TwoKeysToLower
  <2>6. QED
    BY <1>1, <2>1, <2>2, <2>3, <2>5 DEF KeyState, PendingIsProposed
<1>4. QED
  BY <1>2, <1>3 DEF ConfirmThreshold

LEMMA KeysStep ==
    ASSUME MonitorInv, Next
    PROVE  KeyState'
<1>1. ASSUME NEW s, NEW f, SessionStart(s, f) \/ SessionEnd(s, f)
      PROVE  KeyState'
  BY <1>1, SameKeys DEF SessionStart, SessionEnd
<1>2. ASSUME NEW a, NEW f, Message(a, f) \/ AcknowledgeRequest(a, f)
      PROVE  KeyState'
  BY <1>2, SameKeys DEF Message, AcknowledgeRequest
<1>3. ASSUME NEW stale, NEW f, CooldownTick(stale, f)
      PROVE  KeyState'
  BY <1>3, SameKeys DEF CooldownTick
<1>4. RecalculateAll \/ Tick => KeyState'
  BY SameKeys DEF RecalculateAll, Tick, memory, disk
<1>5. ASSUME NEW missed, NEW b, CrashRestart(missed, b)
      PROVE  KeyState'
  BY <1>5, RestartKeys DEF CrashRestart, Reconstruct, disk
<1>6. ASSUME NEW f, NEW g, NEW missed, NEW b, ShutdownRestart(f, g, missed, b)
      PROVE  KeyState'
  BY <1>6, RestartKeys DEF ShutdownRestart, Reconstruct
<1>7. QED
  BY <1>1, <1>2, <1>3, <1>4, <1>5, <1>6, ProposeKeys, ConfirmKeys DEF Next

RestState ==
    /\ cache \in [Agent -> Level \cup {NoScore}]
    /\ score \in [Agent -> Level \cup {NoScore}]
    /\ calib \in [Agent -> 0..Calibration]
    /\ starts \in [Agent -> 0..Calibration]
    /\ now \in 1..MaxTime /\ faults \in 0..MaxFaults

LEMMA FaultsStep ==
    ASSUME MonitorInv, NEW f, Fails(f), IsFiniteSet(f)
    PROVE  faults' \in 0..MaxFaults
<1>1. faults \in 0..MaxFaults /\ MaxFaults \in Nat /\ Cardinality(f) \in Nat
  BY MonitorAssumption, FS_CardinalityType DEF MonitorInv, TypeOK
<1>2. QED
  BY <1>1 DEF Fails

LEMMA WritesFinite ==
    /\ \A f \in SUBSET {"deescalation", "score", "state"} : IsFiniteSet(f)
    /\ \A f \in SUBSET {"score", "state"} : IsFiniteSet(f)
    /\ \A f \in SUBSET {"threshold"} : IsFiniteSet(f)
    /\ \A f \in SUBSET Agent : IsFiniteSet(f)
<1>1. IsFiniteSet({"score"}) /\ IsFiniteSet({"threshold"})
  BY FS_Singleton
<1>2. IsFiniteSet({"score"} \cup {"state"})
  BY <1>1, FS_AddElement
<1>3. {"score"} \cup {"state"} = {"score", "state"}
  OBVIOUS
<1>4. IsFiniteSet({"score", "state"})
  BY <1>2, <1>3
<1>5. IsFiniteSet({"score", "state"} \cup {"deescalation"})
  BY <1>4, FS_AddElement
<1>6. {"score", "state"} \cup {"deescalation"} = {"deescalation", "score", "state"}
  OBVIOUS
<1>7. IsFiniteSet({"deescalation", "score", "state"})
  BY <1>5, <1>6
<1>8. QED
  BY <1>1, <1>4, <1>7, MonitorAssumption, FS_Subset

LEMMA SessionCount ==
    ASSUME NEW m \in 0..Calibration
    PROVE  OneMoreSession(m) \in 0..Calibration
BY MonitorAssumption DEF OneMoreSession

\* A step of one of the handlers that score.
LEMMA ScoredRest ==
    ASSUME MonitorInv, now' = now, faults' \in 0..MaxFaults,
           calib' = calib \/ \E a \in Agent : calib' = [calib EXCEPT ![a] = OneMoreSession(@)],
           starts' = starts \/ \E a \in Agent : starts' = [starts EXCEPT ![a] = OneMoreSession(@)],
           cache' \in [Agent -> Level \cup {NoScore}], score' \in [Agent -> Level \cup {NoScore}]
    PROVE  RestState'
<1>1. /\ calib \in [Agent -> 0..Calibration] /\ starts \in [Agent -> 0..Calibration]
      /\ now \in 1..MaxTime
  BY DEF MonitorInv, TypeOK
<1>2. ASSUME NEW c \in [Agent -> 0..Calibration], NEW a \in Agent
      PROVE  [c EXCEPT ![a] = OneMoreSession(@)] \in [Agent -> 0..Calibration]
  <2>1. OneMoreSession(c[a]) \in 0..Calibration
    BY SessionCount
  <2>2. QED
    BY <2>1
<1>3. calib' \in [Agent -> 0..Calibration] /\ starts' \in [Agent -> 0..Calibration]
  BY <1>1, <1>2
<1>4. QED
  BY <1>1, <1>3 DEF RestState

-----------------------------------------------------------------------------
(***************************************************************************)
(* All of it, action by action.                                             *)
(***************************************************************************)

LEMMA NextKeeps ==
    ASSUME MonitorInv, Next
    PROVE  AgentsStep /\ RestState'
<1>1. /\ cache \in [Agent -> Level \cup {NoScore}] /\ score \in [Agent -> Level \cup {NoScore}]
      /\ calib \in [Agent -> 0..Calibration] /\ starts \in [Agent -> 0..Calibration]
      /\ now \in 1..MaxTime /\ faults \in 0..MaxFaults /\ MaxTime \in Nat
  BY MonitorAssumption DEF MonitorInv, TypeOK
<1>2. ASSUME NEW s \in Session, NEW f \in SUBSET {"score", "state"}, SessionStart(s, f)
      PROVE  AgentsStep /\ RestState'
  <2> DEFINE a == Owner[s]
  <2>1. a \in Agent
    BY MonitorAssumption
  <2>2. now' = now /\ faults' \in 0..MaxFaults
    BY <1>2, FaultsStep, WritesFinite DEF SessionStart
  <2>3. starts' = [starts EXCEPT ![a] = OneMoreSession(@)]
    BY <1>2 DEF SessionStart
  <2>4. CASE UNCHANGED <<st, cache, calib, row, score, hist>>
    <3>1. AgentsStep
      BY <2>2, <2>4, SameAgents
    <3>2. RestState'
      BY <1>1, <2>1, <2>2, <2>3, <2>4, ScoredRest
    <3>3. QED
      BY <3>1, <3>2
  <2>5. CASE /\ calib' = [calib EXCEPT ![a] = OneMoreSession(@)]
             /\ ScoreAndEvaluate(a, st[a], hist[a], row[a], OneMoreSession(calib[a]), f)
    <3>1. /\ AgentsStep
          /\ cache' \in [Agent -> Level \cup {NoScore}]
          /\ score' \in [Agent -> Level \cup {NoScore}]
      BY <2>1, <2>2, <2>5, ScoredAgents
    <3>2. RestState'
      BY <1>1, <2>1, <2>2, <2>3, <2>5, <3>1, ScoredRest
    <3>3. QED
      BY <3>1, <3>2
  <2>6. QED
    BY <1>2, <2>4, <2>5 DEF SessionStart
<1>3. ASSUME NEW s \in Session, NEW f \in SUBSET {"deescalation", "score", "state"},
             SessionEnd(s, f)
      PROVE  AgentsStep /\ RestState'
  <2>1. now' = now /\ calib' = calib /\ starts' = starts /\ Fails(f)
    BY <1>3 DEF SessionEnd
  <2>2. faults' \in 0..MaxFaults
    BY <2>1, FaultsStep, WritesFinite
  <2>3. QED
    BY <1>3, <2>1, <2>2, SessionEndAgents, ScoredRest
<1>4. ASSUME NEW a \in Agent, NEW f \in SUBSET {"score", "state"}, Message(a, f)
      PROVE  AgentsStep /\ RestState'
  <2>1. now' = now /\ calib' = calib /\ starts' = starts /\ Fails(f)
        /\ ScoreAndEvaluate(a, st[a], hist[a], row[a], calib[a], f)
    BY <1>4 DEF Message
  <2>2. faults' \in 0..MaxFaults
    BY <2>1, FaultsStep, WritesFinite
  <2>3. QED
    BY <2>1, <2>2, ScoredAgents, ScoredRest
<1>5. ASSUME NEW a \in Agent, NEW f \in SUBSET {"score", "state"}, AcknowledgeRequest(a, f)
      PROVE  AgentsStep /\ RestState'
  <2>1. UNCHANGED <<now, calib, starts, cache, score>> /\ Fails(f)
    BY <1>5 DEF AcknowledgeRequest
  <2>2. faults' \in 0..MaxFaults
    BY <2>1, FaultsStep, WritesFinite
  <2>3. QED
    BY <1>1, <1>5, <2>1, <2>2, AcknowledgeAgents DEF RestState
<1>6. ASSUME NEW x, NEW y, NEW f \in SUBSET {"threshold"},
             ProposeThreshold(x, y, f) \/ ConfirmThreshold(x, y, f)
      PROVE  AgentsStep /\ RestState'
  <2>1. UNCHANGED <<now, calib, starts, score, st, row, hist>> /\ Fails(f)
    BY <1>6 DEF ProposeThreshold, ConfirmThreshold
  <2>2. cache' = cache \/ cache' = [a \in Agent |-> NoScore]
    BY <1>6 DEF ProposeThreshold, ConfirmThreshold, ApplyThreshold
  <2>3. faults' \in 0..MaxFaults
    BY <2>1, FaultsStep, WritesFinite
  <2>4. QED
    BY <1>1, <2>1, <2>2, <2>3, SameAgents DEF RestState
<1>7. ASSUME NEW stale, NEW f \in SUBSET Agent, CooldownTick(stale, f)
      PROVE  AgentsStep /\ RestState'
  <2>1. UNCHANGED <<now, calib, starts, cache, score>> /\ Fails(f)
    BY <1>7 DEF CooldownTick
  <2>2. faults' \in 0..MaxFaults
    BY <2>1, FaultsStep, WritesFinite
  <2>3. QED
    BY <1>1, <1>7, <2>1, <2>2, CooldownTickAgents DEF RestState
<1>8. ASSUME RecalculateAll
      PROVE  AgentsStep /\ RestState'
  <2>1. UNCHANGED <<now, calib, starts, score, st, row, hist, faults>>
    BY <1>8 DEF RecalculateAll, disk
  <2>2. PICK new \in [Agent -> ComputedLevels] :
           cache' = [a \in Agent |-> IF cache[a] = NoScore THEN NoScore ELSE new[a]]
    BY <1>8 DEF RecalculateAll
  <2>3. \A a \in Agent : new[a] \in Level
    BY <2>2, ScoreLevelsType DEF MonitorInv
  <2>4. QED
    BY <1>1, <2>1, <2>2, <2>3, SameAgents DEF RestState
<1>9. ASSUME NEW missed, NEW b, CrashRestart(missed, b)
      PROVE  AgentsStep /\ RestState'
  <2>1. /\ UNCHANGED <<now, starts, score>>
        /\ calib' = [a \in Agent |-> IF "starts" \in missed[a] THEN 0 ELSE starts[a]]
        /\ cache' = [a \in Agent |-> IF "score" \in missed[a] THEN NoScore ELSE score[a]]
    BY <1>9 DEF CrashRestart, Reconstruct, disk
  <2>2. faults' \in 0..MaxFaults
    BY <1>1, <1>9 DEF CrashRestart, MissedFaults
  <2>3. QED
    BY <1>1, <1>9, <2>1, <2>2, MonitorAssumption, CrashAgents DEF RestState
<1>10. ASSUME NEW f \in SUBSET Agent, NEW g \in SUBSET Agent, NEW missed, NEW b,
              ShutdownRestart(f, g, missed, b)
       PROVE  AgentsStep /\ RestState'
  <2> DEFINE kept == {a \in Agent : cache[a] # NoScore} \ g
  <2>1. /\ UNCHANGED <<now, starts>>
        /\ calib' = [a \in Agent |-> IF "starts" \in missed[a] THEN 0 ELSE starts[a]]
        /\ score' = [a \in Agent |-> IF a \in kept THEN cache[a] ELSE score[a]]
        /\ cache' = [a \in Agent |-> IF "score" \in missed[a] THEN NoScore ELSE score'[a]]
    BY <1>10 DEF ShutdownRestart, Reconstruct
  <2>2. Cardinality(f) \in Nat /\ Cardinality(g) \in Nat
    BY WritesFinite, FS_CardinalityType
  <2>3. faults' \in 0..MaxFaults
    BY <1>1, <1>10, <2>2 DEF ShutdownRestart, MissedFaults
  <2> HIDE DEF kept
  <2>4. score' \in [Agent -> Level \cup {NoScore}]
    BY <1>1, <2>1
  <2>5. cache' \in [Agent -> Level \cup {NoScore}] /\ calib' \in [Agent -> 0..Calibration]
    BY <1>1, <2>1, <2>4, MonitorAssumption
  <2>6. AgentsStep
    BY <1>10, ShutdownAgents
  <2>7. QED
    BY <1>1, <2>1, <2>3, <2>4, <2>5, <2>6 DEF RestState
<1>11. ASSUME Tick
       PROVE  AgentsStep /\ RestState'
  <2>1. UNCHANGED <<calib, starts, cache, score, st, row, hist, faults>>
        /\ now < MaxTime /\ now' = now + 1
    BY <1>11 DEF Tick, memory, disk
  <2>2. QED
    BY <1>1, <2>1, SameAgents DEF RestState
<1>12. QED
  BY <1>2, <1>3, <1>4, <1>5, <1>6, <1>7, <1>8, <1>9, <1>10, <1>11 DEF Next

LEMMA MonitorInvParts ==
    ASSUME AgentsStep, RestState', KeyState',
           active' \subseteq Session, locked' \in BOOLEAN, LockFollowsSessions'
    PROVE  MonitorInv'
BY DEF AgentsStep, RestState, KeyState, MonitorInv, TypeOK

LEMMA MonitorInvInit == Init => MonitorInv
<1> SUFFICES ASSUME Init PROVE MonitorInv
  OBVIOUS
<1>1. DefaultState \in AgentState
  BY DEF DefaultState, AgentState, Level, MaxNormal
<1> DEFINE h0 == [due |-> 0, hot |-> 0, owed |-> FALSE, dirty |-> FALSE, lost |-> FALSE]
<1>2. h0 \in Hist
  BY DEF Hist
<1>3. Tracks(DefaultState, DefaultState, h0, 1)
  BY DEF Tracks, RowKeeps, StateRemembers, DefaultState
<1>4. /\ 1 \in 1..MaxTime /\ 0 \in 0..Calibration /\ 0 \in 0..MaxFaults
      /\ 0 <= MaxProposals
  BY MonitorAssumption
<1>5. TypeOK
  <2>1. /\ st \in [Agent -> AgentState] /\ row \in [Agent -> AgentState]
        /\ hist \in [Agent -> Hist]
    BY <1>1, <1>2 DEF Init
  <2>2. /\ cache \in [Agent -> Level \cup {NoScore}] /\ score \in [Agent -> Level \cup {NoScore}]
        /\ calib \in [Agent -> 0..Calibration] /\ starts \in [Agent -> 0..Calibration]
    BY <1>4 DEF Init
  <2>3. /\ active \subseteq Session /\ locked \in BOOLEAN /\ pending \in Change \cup {NoChange}
        /\ threshold \in Threshold /\ thresholdRow \in Threshold /\ twoKey \subseteq Threshold
        /\ now \in 1..MaxTime /\ faults \in 0..MaxFaults
    BY <1>4, MonitorAssumption DEF Init
  <2>4. /\ proposals \in Seq([initiator: Actor, proposed: Threshold])
        /\ Len(proposals) <= MaxProposals
    BY <1>4 DEF Init
  <2>5. QED
    BY <2>1, <2>2, <2>3, <2>4 DEF TypeOK
<1>6. \A a \in Agent : Tracks(st[a], row[a], hist[a], now)
  BY <1>3 DEF Init
<1>7. PendingIsProposed /\ LockFollowsSessions
  BY DEF Init, PendingIsProposed, LockFollowsSessions
<1>8. DefaultThreshold \in Nat /\ ThresholdFloor <= DefaultThreshold
  BY MonitorAssumption
<1>9. TwoKeysToLower
  BY <1>8, MonitorAssumption DEF Init, TwoKeysToLower
<1>10. QED
  BY <1>5, <1>6, <1>7, <1>9 DEF MonitorInv

LEMMA MonitorInvNext == MonitorInv /\ [Next]_vars => MonitorInv'
<1>1. ASSUME MonitorInv, Next PROVE MonitorInv'
  BY <1>1, NextKeeps, LockStep, KeysStep, MonitorInvParts
<1>2. ASSUME MonitorInv, UNCHANGED vars PROVE MonitorInv'
  <2>1. UNCHANGED <<st, cache, calib, active, locked, threshold, pending, row, score, starts,
                    thresholdRow, now, faults, proposals, twoKey, hist>>
    BY <1>2 DEF vars, memory, disk
  <2>2. QED
    BY <1>2, <2>1 DEF MonitorInv, TypeOK, PendingIsProposed, TwoKeysToLower, LockFollowsSessions
<1>3. QED
  BY <1>1, <1>2

LEMMA MonitorInvInvariant == Spec => []MonitorInv
BY MonitorInvInit, MonitorInvNext, PTL DEF Spec

-----------------------------------------------------------------------------
(***************************************************************************)
(* The theorems.                                                            *)
(***************************************************************************)

\* The monitor's memory and its database keep their types.
THEOREM MonitorTypeCorrect == Spec => []TypeOK
<1>1. MonitorInv => TypeOK
  BY DEF MonitorInv
<1>2. QED
  BY <1>1, MonitorInvInvariant, PTL

\* What the monitor decided is there for a restart that can read it: whatever handlers
\* run in whatever order, and whichever writes and reads fail, a row whose last write
\* succeeded and which the last start has read has the level, the outstanding
\* acknowledgement and the running cooldown that memory has, although evaluate and
\* try_deescalate persist only some of what they change.
THEOREM DecisionsAreDurable == Spec => []DecisionsDurable
<1>1. MonitorInv => DecisionsDurable
  BY DEF MonitorInv, DecisionsDurable, Tracks, RowKeeps
<1>2. QED
  BY <1>1, MonitorInvInvariant, PTL

\* No order of proposals, confirmations, expiries, failing writes and restarts lowers
\* critical_override_threshold, in memory or on disk, below what the configuration or
\* two different actors allow.
THEOREM LoweringNeedsTwoKeys == Spec => []TwoKeysToLower
<1>1. MonitorInv => TwoKeysToLower
  BY DEF MonitorInv
<1>2. QED
  BY <1>1, MonitorInvInvariant, PTL

\* config_locked holds exactly while a session is active, over session starts that
\* close other sessions, ends of sessions that never started, pruning and restarts.
THEOREM LockIsExact == Spec => []LockFollowsSessions
<1>1. MonitorInv => LockFollowsSessions
  BY DEF MonitorInv
<1>2. QED
  BY <1>1, MonitorInvInvariant, PTL

\* An agent's level rises by one, after two consecutive cycles above it, and neither
\* during a cooldown nor before an owed acknowledgement, also over restarts that
\* lost nothing.
THEOREM EscalationIsDue == Spec => EscalatesWhenDue
<1> DEFINE Step == \A a \in Agent :
        (st'[a].level > st[a].level /\ ~hist[a].lost /\ ~hist'[a].lost) =>
            /\ st'[a].level = st[a].level + 1
            /\ hist[a].hot >= 1
            /\ now >= hist[a].due
            /\ ~hist[a].owed
<1>1. ASSUME MonitorInv, Next PROVE Step
  BY <1>1, NextKeeps DEF AgentsStep, StepDue
<1>2. MonitorInv /\ [Next]_vars => [Step]_vars
  BY <1>1
<1>3. QED
  BY <1>2, MonitorInvInvariant, PTL DEF Spec, EscalatesWhenDue
=============================================================================
