-------------------------- MODULE LiveExecutionProofs --------------------------
(***************************************************************************)
(* Proofs about live executions, for every set of attempts with one key, on *)
(* either route, and every number of cancel requests, lost leases, failing  *)
(* inserts and deaths.                                                      *)
(***************************************************************************)
EXTENDS LiveExecution, FiniteSetTheorems, TLAPS

MessageLabel == {"new", "load", "prepare", "begin", "check", "turn", "store", "stuck",
                 "finalize", "commit", "over"}
StreamLabel == {"new", "load", "accept", "begin", "sse", "wait", "over"}

\* The two routes share the labels at which the request is loaded and begun only.
RoutesApart ==
    /\ route = "message" => \A r \in Attempt : pc[r] \in MessageLabel /\ task[r] = "none"
    /\ route = "stream" => \A r \in Attempt : pc[r] \in StreamLabel
    /\ route = "stream" => journal.response \in {"none", "accepted"}

\* The statuses of a record that no attempt has begun; it never returns to them.
Unbegun == {"absent", "accepted"}

RecordBegins == record.status \in Unbegun => record.attempt = 0 /\ record.response = "none"

\* An outcome of a message and what must have happened for it.
Fits(status, response) ==
    \/ status = "completed" /\ response = "completed" /\ assistant
    \/ status = "completed" /\ response = "rejected" /\ refusal # "none"
    \/ status \in {"completed", "recovery_required"} /\ response = "recovery"
    \/ status = "cancelled" /\ response = "cancelled"

\* What is about to be made final, is being committed or has been recorded fits.
OutcomesFit ==
    /\ \A r \in Attempt : pc[r] \in {"finalize", "commit"} => Fits(fin[r].status, fin[r].response)
    /\ \A r \in Attempt : pc[r] = "commit" => writer = r /\ record.status = fin[r].status
    /\ route = "message" /\ record.status = "completed" => Fits("completed", record.response)
    /\ \A r \in Attempt : pc[r] = "accept" => writer = r /\ record.status # "absent"

\* A message's attempt that may begin, or has begun and not yet looked at its token, has
\* its token registered or cancelled.
CancelsReach ==
    route = "message" =>
        /\ \A r \in Attempt : pc[r] \in {"begin", "check"} => token = r \/ r \in cancelled
        /\ cancel = "signal" \/ cancelAcked => record.status \notin Unbegun \cup {"running"}
        /\ cancelAcked => \A r \in Attempt : pc[r] = "check" => r \in cancelled

Live == {r \in Attempt : pc[r] \notin {"new", "over"}}
MayStart == {r \in Attempt : pc[r] \in {"prepare", "begin", "check"}}

\* Whoever is alive without owning the lease has lost it in a stall.
LeasesCounted ==
    /\ IsFiniteSet(Live)
    /\ Cardinality(Live \ {journal.owner_token}) <= stalls
    /\ journal.status = "absent" => journal.owner_token = None
    /\ journal.status = "aborted" => journal.owner_token \notin Live

\* A message: only those that loaded the record before it was begun can start a turn.
MessageTurns ==
    route = "message" =>
        IF record.status \in Unbegun
        THEN turns = 0 /\ \A r \in Attempt : pc[r] # "check"
        ELSE turns + Cardinality(MayStart) <= 1 + stalls

CanStart(r) == pc[r] = "begin" \/ task[r] \in {"spawned", "check"}

\* A stream: the one attempt that committed the acceptance can start the turn, once.
StreamTurns ==
    route = "stream" =>
        /\ journal.status # "committed" =>
               turns = 0 /\ \A r \in Attempt : ~CanStart(r) /\ task[r] = "none"
        /\ \A r, s \in Attempt : CanStart(r) /\ CanStart(s) => r = s
        /\ \A r \in Attempt : CanStart(r) => turns = 0
        /\ \A r \in Attempt : task[r] # "none" => pc[r] \in {"sse", "wait", "over"}
        /\ turns <= 1

LiveInv ==
    /\ TypeOK
    /\ RoutesApart
    /\ RecordBegins
    /\ OutcomesFit
    /\ AnswerIsRecorded
    /\ CancelsReach
    /\ LeasesCounted
    /\ MessageTurns
    /\ StreamTurns

Label == MessageLabel \cup StreamLabel
JournalRow == [status : {"absent", "in_progress", "committed", "aborted"},
               owner_token : Attempt \cup {None}, response : Response]
RecordRow == [status : Status, attempt : 0..1, response : Response]

-----------------------------------------------------------------------------
(***************************************************************************)
(* How a handler moves.                                                     *)
(***************************************************************************)

LEMMA GotoFacts ==
    ASSUME TypeOK, NEW r \in Attempt, NEW l \in Label, Goto(r, l)
    PROVE  /\ pc' \in [Attempt -> Label] /\ pc'[r] = l
           /\ \A s \in Attempt : s # r => pc'[s] = pc[s]
<1>1. pc \in [Attempt -> Label]
  BY DEF TypeOK, Label, MessageLabel, StreamLabel
<1>2. QED
  BY <1>1 DEF Goto

LEMMA FinishFacts ==
    ASSUME TypeOK, NEW r \in Attempt, NEW status \in Status, NEW response \in Response,
           Finish(r, status, response)
    PROVE  /\ pc' \in [Attempt -> Label] /\ pc'[r] = "finalize"
           /\ \A s \in Attempt : s # r => pc'[s] = pc[s]
           /\ fin' \in [Attempt -> Outcome]
           /\ fin'[r].status = status /\ fin'[r].response = response
           /\ \A s \in Attempt : s # r => fin'[s] = fin[s]
<1>1. fin \in [Attempt -> Outcome]
  BY DEF TypeOK
<1> DEFINE o == [status |-> status, response |-> response]
<1>2. o \in Outcome /\ o.status = status /\ o.response = response
  BY DEF Outcome
<1>3. fin' = [fin EXCEPT ![r] = o]
  BY DEF Finish
<1> HIDE DEF o
<1>4. fin' \in [Attempt -> Outcome] /\ fin'[r] = o /\ \A s \in Attempt : s # r => fin'[s] = fin[s]
  BY <1>1, <1>2, <1>3
<1>5. "finalize" \in Label /\ Goto(r, "finalize")
  BY DEF Label, MessageLabel, Finish
<1>6. QED
  BY <1>2, <1>4, <1>5, GotoFacts

LEMMA LeaveFacts ==
    ASSUME TypeOK, NEW r \in Attempt, Leave(r)
    PROVE  /\ pc' \in [Attempt -> Label] /\ pc'[r] = "over"
           /\ \A s \in Attempt : s # r => pc'[s] = pc[s]
           /\ fin' \in [Attempt -> Outcome]
           /\ \A s \in Attempt : s # r => fin'[s] = fin[s]
           /\ writer' \in Attempt \cup {None} /\ \A s \in Attempt : s # r /\ writer = s => writer' = s
           /\ token' \in Attempt \cup {None} /\ \A s \in Attempt : s # r /\ token = s => token' = s
<1>1. /\ fin \in [Attempt -> Outcome] /\ writer \in Attempt \cup {None}
      /\ token \in Attempt \cup {None}
  BY DEF TypeOK
<1>2. NoOutcome \in Outcome
  BY DEF NoOutcome, Outcome, Status, Response
<1>3. "over" \in Label /\ Goto(r, "over")
  BY DEF Label, MessageLabel, Leave
<1>4. fin' \in [Attempt -> Outcome] /\ \A s \in Attempt : s # r => fin'[s] = fin[s]
  BY <1>1, <1>2 DEF Leave
<1>5. writer' \in Attempt \cup {None} /\ \A s \in Attempt : s # r /\ writer = s => writer' = s
  BY <1>1 DEF Leave
<1>6. token' \in Attempt \cup {None} /\ \A s \in Attempt : s # r /\ token = s => token' = s
  BY <1>1 DEF Leave, DropToken
<1>7. QED
  BY <1>3, <1>4, <1>5, <1>6, GotoFacts

-----------------------------------------------------------------------------
(***************************************************************************)
(* What keeps each part of the invariant.                                   *)
(***************************************************************************)

LEMMA KeepRoutes ==
    ASSUME RoutesApart, route' = route,
           \A s \in Attempt : \/ pc'[s] = pc[s]
                              \/ route = "message" /\ pc'[s] \in MessageLabel
                              \/ route = "stream" /\ pc'[s] \in StreamLabel,
           route = "message" => \A s \in Attempt : task'[s] = task[s],
           route = "stream" => \/ journal'.response = journal.response
                               \/ journal'.response = "accepted"
    PROVE  RoutesApart'
BY DEF RoutesApart

LEMMA KeepOutcomes ==
    ASSUME OutcomesFit, UNCHANGED <<route, refusal>>, assistant => assistant',
           \A s \in Attempt : pc'[s] \in {"finalize", "commit"} =>
               \/ pc[s] \in {"finalize", "commit"} /\ fin'[s] = fin[s]
               \/ Fits(fin[s].status, fin[s].response)',
           \A s \in Attempt : pc'[s] = "commit" =>
               \/ pc[s] = "commit" /\ fin'[s] = fin[s]
                    /\ (writer = s => writer' = s /\ record'.status = record.status)
               \/ writer' = s /\ record'.status = fin'[s].status,
           route = "message" /\ record'.status = "completed" =>
               record' = record \/ Fits("completed", record.response)',
           record.status # "absent" => record'.status # "absent",
           \A s \in Attempt : pc'[s] = "accept" =>
               \/ pc[s] = "accept" /\ (writer = s => writer' = s)
               \/ writer' = s /\ record'.status # "absent"
    PROVE  OutcomesFit'
<1>1. \A status, response : Fits(status, response) => Fits(status, response)'
  BY DEF Fits
<1>2. \A s \in Attempt : pc'[s] \in {"finalize", "commit"} =>
          Fits(fin[s].status, fin[s].response)'
  BY <1>1 DEF OutcomesFit
<1>3. \A s \in Attempt : pc'[s] = "commit" => writer' = s /\ record'.status = fin'[s].status
  BY DEF OutcomesFit
<1>4. route' = "message" /\ record'.status = "completed" => Fits("completed", record.response)'
  BY <1>1 DEF OutcomesFit
<1>5. \A s \in Attempt : pc'[s] = "accept" => writer' = s /\ record'.status # "absent"
  BY DEF OutcomesFit
<1>6. QED
  BY <1>2, <1>3, <1>4, <1>5 DEF OutcomesFit, Fits

LEMMA KeepAnswer ==
    ASSUME AnswerIsRecorded, RoutesApart, UNCHANGED <<route, refusal, journal>>,
           route \in {"message", "stream"}, assistant => assistant',
           \/ record' = record
           \/ /\ record.status \notin {"completed", "cancelled"} /\ record'.status # "absent"
              /\ route = "message" /\ record.status \notin {"absent", "accepted", "running"} =>
                    record'.status \notin {"absent", "accepted", "running"}
    PROVE  AnswerIsRecorded'
BY DEF AnswerIsRecorded, RoutesApart

LEMMA KeepCancels ==
    ASSUME CancelsReach, route' = route,
           route = "message" =>
               /\ cancelled \subseteq cancelled' /\ cancelAcked' = cancelAcked
               /\ \A s \in Attempt : pc'[s] \in {"begin", "check"} =>
                      \/ token' = s
                      \/ pc[s] \in {"begin", "check"} /\ (token = s => token' = s \/ s \in cancelled')
               /\ cancel' = "signal" => cancel = "signal" \/ record'.status = "cancel_requested"
               /\ record'.status \in Unbegun \cup {"running"} => record.status \in Unbegun \cup {"running"}
               /\ \A s \in Attempt : pc'[s] = "check" =>
                      pc[s] = "check" \/ record.status \in Unbegun \cup {"running"}
    PROVE  CancelsReach'
<1> SUFFICES ASSUME route = "message" PROVE CancelsReach'
  BY DEF CancelsReach
<1>1. \A s \in Attempt : pc'[s] \in {"begin", "check"} => token' = s \/ s \in cancelled'
  BY DEF CancelsReach
<1>2. cancel' = "signal" \/ cancelAcked' => record'.status \notin Unbegun \cup {"running"}
  BY DEF CancelsReach, Unbegun
<1>3. cancelAcked' => \A s \in Attempt : pc'[s] = "check" => s \in cancelled'
  BY DEF CancelsReach
<1>4. QED
  BY <1>1, <1>2, <1>3 DEF CancelsReach, Unbegun

LEMMA KeepLeases ==
    ASSUME LeasesCounted, stalls \in Nat, stalls' = stalls, Live' \subseteq Live,
           \/ journal' = journal
           \/ /\ journal'.owner_token = journal.owner_token
              /\ \/ journal'.status = "committed"
                 \/ journal'.status = "aborted" /\ journal.owner_token \notin Live'
    PROVE  LeasesCounted'
<1> DEFINE o == journal.owner_token
<1>1. journal'.owner_token = o
  OBVIOUS
<1>2. IsFiniteSet(Live') /\ IsFiniteSet(Live \ {o}) /\ IsFiniteSet(Live' \ {o})
  BY FS_Subset DEF LeasesCounted
<1>3. Live' \ {o} \in SUBSET (Live \ {o})
  OBVIOUS
<1>4. /\ Cardinality(Live' \ {o}) <= Cardinality(Live \ {o})
      /\ Cardinality(Live' \ {o}) \in Nat /\ Cardinality(Live \ {o}) \in Nat
  BY <1>2, <1>3, FS_Subset, FS_CardinalityType
<1>5. Cardinality(Live \ {o}) <= stalls
  BY DEF LeasesCounted
<1>6. Cardinality(Live' \ {o}) <= stalls'
  BY <1>4, <1>5
<1>7. /\ journal'.status = "absent" => journal'.owner_token = None
      /\ journal'.status = "aborted" => journal'.owner_token \notin Live'
  BY DEF LeasesCounted
<1>8. QED
  BY <1>1, <1>2, <1>6, <1>7 DEF LeasesCounted, Live

LEMMA MayStartCount ==
    ASSUME LeasesCounted
    PROVE  MayStart \subseteq Live /\ IsFiniteSet(MayStart) /\ Cardinality(MayStart) \in Nat
<1>1. MayStart \subseteq Live
  BY DEF MayStart, Live
<1>2. QED
  BY <1>1, FS_Subset, FS_CardinalityType DEF LeasesCounted

LEMMA KeepMessageTurns ==
    ASSUME LeasesCounted, MessageTurns, route' = route, turns' = turns,
           turns \in Nat, stalls \in Nat, stalls' \in Nat, stalls <= stalls',
           record.status \in Unbegun <=> record'.status \in Unbegun,
           route = "message" =>
               /\ \A s \in Attempt : pc'[s] = "check" => pc[s] = "check"
               /\ record.status \notin Unbegun => MayStart' \subseteq MayStart
    PROVE  MessageTurns'
<1> SUFFICES ASSUME route = "message" PROVE MessageTurns'
  BY DEF MessageTurns
<1>1. CASE record.status \in Unbegun
  BY <1>1 DEF MessageTurns, Unbegun
<1>2. CASE record.status \notin Unbegun
  <2>1. IsFiniteSet(MayStart) /\ Cardinality(MayStart) \in Nat
    BY MayStartCount
  <2>2. MayStart' \in SUBSET MayStart
    BY <1>2
  <2>3. Cardinality(MayStart') <= Cardinality(MayStart) /\ Cardinality(MayStart') \in Nat
    BY <2>1, <2>2, FS_Subset, FS_CardinalityType
  <2>4. turns + Cardinality(MayStart) <= 1 + stalls
    BY <1>2 DEF MessageTurns
  <2>5. turns + Cardinality(MayStart') <= 1 + stalls'
    BY <2>1, <2>3, <2>4
  <2>6. QED
    BY <1>2, <2>5 DEF MessageTurns, MayStart, Unbegun
<1>3. QED
  BY <1>1, <1>2

LEMMA KeepStreamTurns ==
    ASSUME StreamTurns, route' = route, turns' = turns,
           route = "stream" =>
               /\ \A s \in Attempt : CanStart(s)' => CanStart(s)
               /\ journal'.status # "committed" =>
                      journal.status # "committed" /\ \A s \in Attempt : task'[s] = task[s]
               /\ \A s \in Attempt : task'[s] # "none" => pc'[s] \in {"sse", "wait", "over"}
    PROVE  StreamTurns'
BY DEF StreamTurns, CanStart

-----------------------------------------------------------------------------
(***************************************************************************)
(* Steps that write neither the record nor the journal.                     *)
(***************************************************************************)

\* Where such a step may take a handler.
Placed(r, l) ==
    \/ l = "over"
    \/ route = "message" /\ l \in {"store", "stuck"} /\ pc[r] \in {"turn", "store"}
    \/ route = "message" /\ l = "finalize" /\ pc[r] \in {"load", "prepare", "check", "turn", "store"}
         /\ Fits(fin[r].status, fin[r].response)'
    \/ route = "message" /\ l = "prepare" /\ pc[r] = "load" /\ record.status = "accepted"
    \/ route = "message" /\ l = "begin" /\ pc[r] = "prepare" /\ token' = r
    \/ route = "stream" /\ l = "accept" /\ pc[r] = "load" /\ writer' = r /\ record.status # "absent"

LEMMA QuietStep ==
    ASSUME LiveInv, TypeOK', NEW r \in Attempt, NEW l, Placed(r, l),
           pc'[r] = l, \A s \in Attempt : s # r => pc'[s] = pc[s],
           UNCHANGED <<route, refusal, journal, record, task, cancel, cancelAcked, stalls, turns>>,
           assistant => assistant', cancelled \subseteq cancelled',
           \A s \in Attempt : s # r => /\ fin'[s] = fin[s] /\ (writer = s => writer' = s)
                                       /\ token = s => token' = s \/ s \in cancelled'
    PROVE  LiveInv'
<1>1. RoutesApart'
  <2>1. CASE l = "over"
    BY <2>1, KeepRoutes DEF LiveInv, RoutesApart, MessageLabel, StreamLabel, TypeOK
  <2>2. CASE l # "over"
    BY <2>2, KeepRoutes DEF LiveInv, Placed, MessageLabel, StreamLabel
  <2>3. QED
    BY <2>1, <2>2
<1>2. RecordBegins'
  BY DEF LiveInv, RecordBegins, Unbegun
<1>3. OutcomesFit'
  BY KeepOutcomes DEF LiveInv, Placed
<1>4. AnswerIsRecorded'
  BY KeepAnswer DEF LiveInv, TypeOK
<1>5. CancelsReach'
  <2>1. pc'[r] \in {"begin", "check"} => token' = r
    BY DEF Placed
  <2>2. pc'[r] # "check"
    BY DEF Placed
  <2>3. \A s \in Attempt : pc'[s] \in {"begin", "check"} =>
            \/ token' = s
            \/ pc[s] \in {"begin", "check"} /\ (token = s => token' = s \/ s \in cancelled')
    BY <2>1
  <2>4. \A s \in Attempt : pc'[s] = "check" => pc[s] = "check"
    BY <2>2
  <2>5. QED
    BY <2>3, <2>4, KeepCancels DEF LiveInv
<1>6. Live' \subseteq Live
  BY DEF Live, Placed
<1>7. LeasesCounted'
  BY <1>6, KeepLeases DEF LiveInv, TypeOK
<1>8. MessageTurns'
  <2>1. \A s \in Attempt : pc'[s] = "check" => pc[s] = "check"
    BY DEF Placed
  <2>2. record.status \notin Unbegun => MayStart' \subseteq MayStart
    BY DEF Placed, MayStart, Unbegun
  <2>3. turns \in Nat /\ stalls \in Nat /\ stalls <= stalls'
    BY DEF LiveInv, TypeOK
  <2>4. QED
    BY <2>1, <2>2, <2>3, KeepMessageTurns DEF LiveInv
<1>9. StreamTurns'
  <2> SUFFICES ASSUME route = "stream" PROVE StreamTurns'
    BY KeepStreamTurns DEF LiveInv
  <2>1. l # "begin" /\ (pc[r] = "load" \/ l = "over")
    BY DEF Placed
  <2>2. \A s \in Attempt : CanStart(s)' => CanStart(s)
    BY <2>1 DEF CanStart
  <2>3. \A s \in Attempt : task'[s] # "none" => pc'[s] \in {"sse", "wait", "over"}
    BY <2>1 DEF LiveInv, StreamTurns
  <2>4. QED
    BY <2>2, <2>3, KeepStreamTurns DEF LiveInv
<1>10. QED
  BY <1>1, <1>2, <1>3, <1>4, <1>5, <1>7, <1>8, <1>9 DEF LiveInv

\* A handler that leaves and writes nothing.
LEMMA LeaveStep ==
    ASSUME LiveInv, NEW r \in Attempt, Leave(r),
           UNCHANGED <<route, refusal, journal, record, assistant, task, cancelled, cancel,
                       cancelAcked, cancels, stalls, dbErrors, turns>>,
           event' = event \/ event' = [event EXCEPT ![r] = "none"]
    PROVE  LiveInv'
<1>1. /\ pc' \in [Attempt -> Label] /\ pc'[r] = "over"
      /\ \A s \in Attempt : s # r => pc'[s] = pc[s]
      /\ fin' \in [Attempt -> Outcome]
      /\ \A s \in Attempt : s # r => fin'[s] = fin[s]
      /\ writer' \in Attempt \cup {None} /\ \A s \in Attempt : s # r /\ writer = s => writer' = s
      /\ token' \in Attempt \cup {None} /\ \A s \in Attempt : s # r /\ token = s => token' = s
  BY LeaveFacts DEF LiveInv
<1>2. event' \in [Attempt -> {"none", "completed", "recovery_required", "cancelled"}]
  BY DEF LiveInv, TypeOK
<1>3. TypeOK'
  BY <1>1, <1>2 DEF LiveInv, TypeOK, Label, MessageLabel, StreamLabel
<1>4. QED
  BY <1>1, <1>3, QuietStep DEF Placed

LEMMA AnswerStep ==
    ASSUME LiveInv, NEW r \in Attempt, Answer(r)
    PROVE  LiveInv'
<1>1. /\ UNCHANGED <<route, refusal, journal, record, assistant, writer, fin, task, event, token,
                     cancelled, cancel, cancelAcked, cancels, stalls, dbErrors, turns>>
      /\ Goto(r, "over") /\ "over" \in Label
  BY DEF Answer, request, streaming, tokens, cancelling, bounds, Label, MessageLabel
<1>2. pc' \in [Attempt -> Label] /\ pc'[r] = "over" /\ \A s \in Attempt : s # r => pc'[s] = pc[s]
  BY <1>1, GotoFacts DEF LiveInv
<1>3. TypeOK'
  BY <1>1, <1>2 DEF LiveInv, TypeOK, Label, MessageLabel, StreamLabel
<1>4. QED
  BY <1>1, <1>2, <1>3, QuietStep DEF Placed

LEMMA DieStep ==
    ASSUME LiveInv, NEW r \in Attempt, Die(r)
    PROVE  LiveInv'
<1>1. /\ UNCHANGED <<route, refusal, journal, record, assistant, task, cancelled, cancel,
                     cancelAcked, cancels, stalls, dbErrors, turns>>
      /\ Leave(r) /\ event' = [event EXCEPT ![r] = "none"]
  BY DEF Die, request, cancelling, bounds
<1>2. QED
  BY <1>1, LeaveStep

\* A message's handler that has decided on an outcome.
LEMMA FinishStep ==
    ASSUME LiveInv, NEW r \in Attempt, route = "message",
           pc[r] \in {"load", "prepare", "check", "turn"},
           NEW status \in Status, NEW response \in Response, Finish(r, status, response),
           Fits(status, response),
           UNCHANGED <<route, refusal, journal, record, assistant, writer, task, event, token,
                       cancelled, cancel, cancelAcked, cancels, stalls, dbErrors, turns>>
    PROVE  LiveInv'
<1>1. /\ pc' \in [Attempt -> Label] /\ pc'[r] = "finalize"
      /\ \A s \in Attempt : s # r => pc'[s] = pc[s]
      /\ fin' \in [Attempt -> Outcome]
      /\ fin'[r].status = status /\ fin'[r].response = response
      /\ \A s \in Attempt : s # r => fin'[s] = fin[s]
  BY FinishFacts DEF LiveInv
<1>2. TypeOK'
  BY <1>1 DEF LiveInv, TypeOK, Label, MessageLabel, StreamLabel
<1>3. Fits(fin[r].status, fin[r].response)'
  BY <1>1 DEF Fits
<1>4. Placed(r, "finalize")
  BY <1>3 DEF Placed
<1>5. QED
  BY <1>1, <1>2, <1>4, QuietStep

\* The record's response and status fit when a later attempt answers with them.
LEMMA LoadMessageStep ==
    ASSUME LiveInv, NEW r \in Attempt, LoadMessage(r)
    PROVE  LiveInv'
<1>1. /\ UNCHANGED <<route, refusal, journal, record, assistant, writer, task, event, token,
                     cancelled, cancel, cancelAcked, cancels, stalls, dbErrors, turns>>
      /\ route = "message" /\ pc[r] = "load"
  BY DEF LoadMessage, request, streaming, tokens, cancelling, bounds
<1>2. CASE record.status \in Runnable /\ Goto(r, "prepare") /\ UNCHANGED fin
  <2>1. /\ pc' \in [Attempt -> Label] /\ pc'[r] = "prepare"
        /\ \A s \in Attempt : s # r => pc'[s] = pc[s]
    BY <1>2, GotoFacts DEF LiveInv, Label, MessageLabel
  <2>2. TypeOK'
    BY <1>1, <1>2, <2>1 DEF LiveInv, TypeOK, Label, MessageLabel, StreamLabel
  <2>3. Placed(r, "prepare")
    BY <1>1, <1>2 DEF Placed, Runnable
  <2>4. QED
    BY <1>1, <1>2, <2>1, <2>2, <2>3, QuietStep
<1>3. \A status \in Status : \A response \in Response :
          Finish(r, status, response) /\ Fits(status, response) => LiveInv'
  BY <1>1, FinishStep
<1>4. /\ {"completed", "cancelled", "recovery_required"} \subseteq Status
      /\ {"completed", "cancelled", "recovery"} \subseteq Response
      /\ record.response \in Response
  BY DEF Status, Active, Response, LiveInv, TypeOK
<1>5. CASE record.status = "completed" /\ Finish(r, "completed", record.response)
  <2>1. Fits("completed", record.response)
    BY <1>1, <1>5 DEF LiveInv, OutcomesFit
  <2>2. QED
    BY <1>3, <1>4, <1>5, <2>1
<1>6. CASE record.status = "running" /\ assistant /\ Finish(r, "completed", "completed")
  <2>1. Fits("completed", "completed")
    BY <1>6 DEF Fits
  <2>2. QED
    BY <1>3, <1>4, <1>6, <2>1
<1>7. Fits("completed", "recovery") /\ Fits("cancelled", "cancelled")
      /\ Fits("recovery_required", "recovery")
  BY DEF Fits
<1>8. QED
  BY <1>1, <1>2, <1>3, <1>4, <1>5, <1>6, <1>7 DEF LoadMessage

LEMMA LoadStreamStep ==
    ASSUME LiveInv, NEW r \in Attempt, LoadStream(r)
    PROVE  LiveInv'
<1>1. /\ UNCHANGED <<route, refusal, journal, record, assistant, fin, task, event, token,
                     cancelled, cancel, cancelAcked, cancels, stalls, dbErrors, turns>>
      /\ route = "stream" /\ pc[r] = "load" /\ writer = None /\ writer' = r
      /\ record.status # "absent" /\ Goto(r, "accept") /\ "accept" \in Label
  BY DEF LoadStream, Free, request, streaming, tokens, cancelling, bounds, Label, StreamLabel
<1>2. pc' \in [Attempt -> Label] /\ pc'[r] = "accept" /\ \A s \in Attempt : s # r => pc'[s] = pc[s]
  BY <1>1, GotoFacts DEF LiveInv
<1>3. TypeOK'
  BY <1>1, <1>2 DEF LiveInv, TypeOK, Label, MessageLabel, StreamLabel
<1>4. Placed(r, "accept")
  BY <1>1 DEF Placed
<1>5. \A s \in Attempt : writer # s
  BY <1>1, AttemptAssumption
<1>6. QED
  BY <1>1, <1>2, <1>3, <1>4, <1>5, QuietStep

\* acquire_live_execution_control: an earlier token is cancelled.
LEMMA RegisterFacts ==
    ASSUME TypeOK, NEW r \in Attempt, Register(r)
    PROVE  /\ token' = r /\ cancelled \subseteq cancelled' /\ cancelled' \subseteq Attempt
           /\ \A s \in Attempt : s # r /\ token = s => s \in cancelled'
BY AttemptAssumption DEF Register, TypeOK

LEMMA PrepareStep ==
    ASSUME LiveInv, NEW r \in Attempt, Prepare(r)
    PROVE  LiveInv'
<1>1. /\ UNCHANGED <<route, refusal, journal, record, assistant, writer, task, event, cancel,
                     cancelAcked, cancels, stalls, dbErrors, turns>>
      /\ pc[r] = "prepare"
  BY DEF Prepare, request, streaming, cancelling, bounds
<1>2. route = "message"
  BY <1>1 DEF LiveInv, TypeOK, RoutesApart, StreamLabel
<1>3. CASE Register(r) /\ Goto(r, "begin") /\ UNCHANGED fin
  <2>1. /\ pc' \in [Attempt -> Label] /\ pc'[r] = "begin"
        /\ \A s \in Attempt : s # r => pc'[s] = pc[s]
    BY <1>3, GotoFacts DEF LiveInv, Label, MessageLabel
  <2>2. /\ token' = r /\ cancelled \subseteq cancelled' /\ cancelled' \subseteq Attempt
        /\ \A s \in Attempt : s # r /\ token = s => s \in cancelled'
    BY <1>3, RegisterFacts DEF LiveInv
  <2>3. TypeOK'
    BY <1>1, <1>3, <2>1, <2>2 DEF LiveInv, TypeOK, Label, MessageLabel, StreamLabel
  <2>4. Placed(r, "begin")
    BY <1>1, <1>2, <2>2 DEF Placed
  <2>5. QED
    BY <1>1, <1>3, <2>1, <2>2, <2>3, <2>4, QuietStep
<1>4. CASE Finish(r, "recovery_required", "recovery") /\ UNCHANGED tokens
  <2>1. /\ "recovery_required" \in Status /\ "recovery" \in Response
        /\ Fits("recovery_required", "recovery")
    BY DEF Status, Active, Response, Fits
  <2>2. QED
    BY <1>1, <1>2, <1>4, <2>1, FinishStep DEF tokens
<1>5. QED
  BY <1>3, <1>4 DEF Prepare

LEMMA EndTurnStep ==
    ASSUME LiveInv, NEW r \in Attempt, EndTurn(r)
    PROVE  LiveInv'
<1>1. /\ UNCHANGED <<route, refusal, journal, record, assistant, task, event, cancelled, cancel,
                     cancelAcked, cancels, stalls, dbErrors, turns>>
      /\ pc[r] = "turn"
  BY DEF EndTurn, request, streaming, cancelling, bounds
<1>2. route = "message"
  BY <1>1 DEF LiveInv, TypeOK, RoutesApart, StreamLabel
<1>3. CASE Goto(r, "store") /\ UNCHANGED <<fin, writer, token>>
  <2>1. /\ pc' \in [Attempt -> Label] /\ pc'[r] = "store"
        /\ \A s \in Attempt : s # r => pc'[s] = pc[s]
    BY <1>3, GotoFacts DEF LiveInv, Label, MessageLabel
  <2>2. TypeOK'
    BY <1>1, <1>3, <2>1 DEF LiveInv, TypeOK, Label, MessageLabel, StreamLabel
  <2>3. Placed(r, "store")
    BY <1>1, <1>2 DEF Placed
  <2>4. QED
    BY <1>1, <1>3, <2>1, <2>2, <2>3, QuietStep
<1>4. /\ "recovery_required" \in Status /\ "recovery" \in Response
      /\ "cancelled" \in Status /\ "cancelled" \in Response
      /\ Fits("recovery_required", "recovery") /\ Fits("cancelled", "cancelled")
  BY DEF Status, Active, Response, Fits
<1>5. CASE Finish(r, "cancelled", "cancelled") /\ UNCHANGED <<writer, token>>
  BY <1>1, <1>2, <1>4, <1>5, FinishStep
<1>6. CASE Finish(r, "recovery_required", "recovery") /\ UNCHANGED <<writer, token>>
  BY <1>1, <1>2, <1>4, <1>6, FinishStep
<1>7. CASE Leave(r)
  BY <1>1, <1>7, LeaveStep
<1>8. QED
  BY <1>3, <1>5, <1>6, <1>7 DEF EndTurn

LEMMA StoreMessageStep ==
    ASSUME LiveInv, NEW r \in Attempt, StoreMessage(r)
    PROVE  LiveInv'
<1>1. /\ UNCHANGED <<route, refusal, journal, record, task, event, token, cancelled, cancel,
                     cancelAcked, cancels, stalls, turns>>
      /\ pc[r] = "store" /\ writer = None
  BY DEF StoreMessage, Free, request, streaming, tokens, cancelling
<1>2. route = "message" /\ \A s \in Attempt : writer # s
  BY <1>1, AttemptAssumption DEF LiveInv, TypeOK, RoutesApart, StreamLabel
<1>3. CASE assistant' = TRUE /\ Finish(r, "completed", "completed") /\ UNCHANGED <<writer, dbErrors>>
  <2>1. "completed" \in Status /\ "completed" \in Response
    BY DEF Status, Response
  <2>2. /\ pc' \in [Attempt -> Label] /\ pc'[r] = "finalize"
        /\ \A s \in Attempt : s # r => pc'[s] = pc[s]
        /\ fin' \in [Attempt -> Outcome]
        /\ fin'[r].status = "completed" /\ fin'[r].response = "completed"
        /\ \A s \in Attempt : s # r => fin'[s] = fin[s]
    BY <1>3, <2>1, FinishFacts DEF LiveInv
  <2>3. TypeOK'
    BY <1>1, <1>3, <2>2 DEF LiveInv, TypeOK, Label, MessageLabel, StreamLabel
  <2>4. Fits(fin[r].status, fin[r].response)'
    BY <1>3, <2>2 DEF Fits
  <2>5. Placed(r, "finalize")
    BY <1>1, <1>2, <2>4 DEF Placed
  <2>6. QED
    BY <1>1, <1>3, <2>2, <2>3, <2>5, QuietStep
<1>4. CASE /\ IF assistant THEN UNCHANGED dbErrors
              ELSE dbErrors < MaxDbErrors /\ dbErrors' = dbErrors + 1
           /\ writer' = r /\ Goto(r, "stuck") /\ UNCHANGED <<assistant, fin>>
  <2>1. /\ pc' \in [Attempt -> Label] /\ pc'[r] = "stuck"
        /\ \A s \in Attempt : s # r => pc'[s] = pc[s]
    BY <1>4, GotoFacts DEF LiveInv, Label, MessageLabel
  <2>2. dbErrors' \in 0..MaxDbErrors
    BY <1>4, BoundsAssumption DEF LiveInv, TypeOK
  <2>3. TypeOK'
    BY <1>1, <1>4, <2>1, <2>2 DEF LiveInv, TypeOK, Label, MessageLabel, StreamLabel
  <2>4. Placed(r, "stuck")
    BY <1>1, <1>2 DEF Placed
  <2>5. QED
    BY <1>1, <1>2, <1>4, <2>1, <2>3, <2>4, QuietStep
<1>5. QED
  BY <1>3, <1>4 DEF StoreMessage

\* StartTurn, when it starts a turn: the attempt is one of those counted.
LEMMA StartTurnStep ==
    ASSUME LiveInv, NEW r \in Attempt, StartTurn(r)
    PROVE  LiveInv'
<1>1. /\ UNCHANGED <<route, refusal, journal, record, assistant, writer, task, event, token,
                     cancelled, cancel, cancelAcked, cancels, stalls, dbErrors>>
      /\ pc[r] = "check"
  BY DEF StartTurn, request, streaming, tokens, cancelling, bounds
<1>2. route = "message"
  BY <1>1 DEF LiveInv, TypeOK, RoutesApart, StreamLabel
<1>3. CASE refusal = "providers" /\ Finish(r, "completed", "rejected") /\ UNCHANGED turns
  <2>1. "completed" \in Status /\ "rejected" \in Response /\ Fits("completed", "rejected")
    BY <1>3 DEF Status, Response, Fits
  <2>2. QED
    BY <1>1, <1>2, <1>3, <2>1, FinishStep
<1>4. CASE Finish(r, "cancelled", "cancelled") /\ UNCHANGED turns
  <2>1. "cancelled" \in Status /\ "cancelled" \in Response /\ Fits("cancelled", "cancelled")
    BY DEF Status, Response, Fits
  <2>2. QED
    BY <1>1, <1>2, <1>4, <2>1, FinishStep
<1>5. CASE Goto(r, "turn") /\ turns' = turns + 1 /\ UNCHANGED fin
  <2>1. /\ pc' \in [Attempt -> Label] /\ pc'[r] = "turn"
        /\ \A s \in Attempt : s # r => pc'[s] = pc[s]
    BY <1>5, GotoFacts DEF LiveInv, Label, MessageLabel
  <2>2. turns \in Nat /\ stalls \in Nat
    BY DEF LiveInv, TypeOK
  <2>3. TypeOK'
    BY <1>1, <1>5, <2>1, <2>2 DEF LiveInv, TypeOK, Label, MessageLabel, StreamLabel
  <2>4. RoutesApart' /\ RecordBegins'
    BY <1>1, <1>2, <2>1, KeepRoutes DEF LiveInv, MessageLabel, RecordBegins, Unbegun
  <2>5. OutcomesFit'
    BY <1>1, <1>5, <2>1, KeepOutcomes DEF LiveInv
  <2>6. AnswerIsRecorded'
    BY <1>1, KeepAnswer DEF LiveInv, TypeOK
  <2>7. CancelsReach'
    BY <1>1, <2>1, KeepCancels DEF LiveInv
  <2>8. LeasesCounted'
    <3>1. Live' \subseteq Live
      BY <1>1, <2>1 DEF Live
    <3>2. QED
      BY <1>1, <2>2, <3>1, KeepLeases DEF LiveInv
  <2>9. MessageTurns'
    <3>1. record.status \notin Unbegun
      BY <1>1, <1>2 DEF LiveInv, MessageTurns
    <3>2. turns + Cardinality(MayStart) <= 1 + stalls
      BY <1>2, <3>1 DEF LiveInv, MessageTurns
    <3>3. MayStart' = MayStart \ {r} /\ r \in MayStart
      BY <1>1, <2>1 DEF MayStart
    <3>4. IsFiniteSet(MayStart) /\ Cardinality(MayStart) \in Nat
      BY MayStartCount DEF LiveInv
    <3>5. Cardinality(MayStart \ {r}) = Cardinality(MayStart) - 1
      BY <3>3, <3>4, FS_RemoveElement
    <3>6. turns' + Cardinality(MayStart') <= 1 + stalls'
      BY <1>1, <1>5, <2>2, <3>2, <3>3, <3>4, <3>5
    <3>7. QED
      BY <1>1, <3>1, <3>6 DEF MessageTurns, MayStart, Unbegun
  <2>10. StreamTurns'
    BY <1>1, <1>2 DEF StreamTurns
  <2>11. QED
    BY <2>3, <2>4, <2>5, <2>6, <2>7, <2>8, <2>9, <2>10 DEF LiveInv
<1>6. QED
  BY <1>3, <1>4, <1>5 DEF StartTurn

-----------------------------------------------------------------------------
(***************************************************************************)
(* The task of a stream, and requests to cancel.                            *)
(***************************************************************************)

LEMMA TaskKeeps ==
    ASSUME LiveInv, TypeOK', route = "stream", StreamTurns',
           UNCHANGED <<route, refusal, journal, record, assistant, writer, pc, fin, stalls>>
    PROVE  LiveInv'
<1>1. RoutesApart' /\ RecordBegins'
  BY KeepRoutes DEF LiveInv, RecordBegins, Unbegun
<1>2. OutcomesFit'
  BY KeepOutcomes DEF LiveInv
<1>3. AnswerIsRecorded'
  BY KeepAnswer DEF LiveInv, TypeOK
<1>4. LeasesCounted'
  <2>1. Live' \subseteq Live
    BY DEF Live
  <2>2. QED
    BY <2>1, KeepLeases DEF LiveInv, TypeOK
<1>5. CancelsReach' /\ MessageTurns'
  BY DEF CancelsReach, MessageTurns
<1>6. QED
  BY <1>1, <1>2, <1>3, <1>4, <1>5 DEF LiveInv

\* A task exists on a stream only, and after its acceptance.
LEMMA TaskOfStream ==
    ASSUME LiveInv, NEW r \in Attempt, task[r] # "none"
    PROVE  /\ route = "stream" /\ journal.status = "committed"
           /\ pc[r] \in {"sse", "wait", "over"}
           /\ task \in [Attempt -> {"none", "spawned", "check", "turn", "over"}]
           /\ event \in [Attempt -> {"none", "completed", "recovery_required", "cancelled"}]
           /\ token \in Attempt \cup {None}
BY DEF LiveInv, TypeOK, RoutesApart, StreamTurns

LEMMA TaskRegisterStep ==
    ASSUME LiveInv, NEW r \in Attempt, TaskRegister(r)
    PROVE  LiveInv'
<1>1. /\ UNCHANGED <<route, refusal, journal, record, assistant, writer, pc, fin, event, cancel,
                     cancelAcked, cancels, stalls, dbErrors, turns>>
      /\ task[r] = "spawned" /\ Register(r) /\ task' = [task EXCEPT ![r] = "check"]
  BY DEF TaskRegister, request, cancelling, bounds
<1>2. /\ route = "stream" /\ journal.status = "committed" /\ pc[r] \in {"sse", "wait", "over"}
      /\ task \in [Attempt -> {"none", "spawned", "check", "turn", "over"}]
  BY <1>1, TaskOfStream
<1>3. /\ task' \in [Attempt -> {"none", "spawned", "check", "turn", "over"}] /\ task'[r] = "check"
      /\ \A s \in Attempt : s # r => task'[s] = task[s]
  BY <1>1, <1>2
<1>4. token' = r /\ cancelled' \subseteq Attempt
  BY <1>1, RegisterFacts DEF LiveInv
<1>5. TypeOK'
  BY <1>1, <1>3, <1>4 DEF LiveInv, TypeOK
<1>6. StreamTurns'
  <2>1. \A s \in Attempt : CanStart(s)' => CanStart(s)
    BY <1>1, <1>3 DEF CanStart
  <2>2. \A s \in Attempt : task'[s] # "none" => pc'[s] \in {"sse", "wait", "over"}
    BY <1>1, <1>2, <1>3 DEF LiveInv, StreamTurns
  <2>3. QED
    BY <1>1, <1>2, <2>1, <2>2, KeepStreamTurns DEF LiveInv
<1>7. QED
  BY <1>1, <1>2, <1>5, <1>6, TaskKeeps

\* A task that is over, whether or not its event is received.
LEMMA TaskOverStep ==
    ASSUME LiveInv, NEW r \in Attempt, task[r] # "none", task' = [task EXCEPT ![r] = "over"],
           token' = DropToken(r),
           event' \in [Attempt -> {"none", "completed", "recovery_required", "cancelled"}],
           UNCHANGED <<route, refusal, journal, record, assistant, writer, pc, fin, cancelled,
                       cancel, cancelAcked, cancels, stalls, dbErrors, turns>>
    PROVE  LiveInv'
<1>2. /\ route = "stream" /\ journal.status = "committed" /\ pc[r] \in {"sse", "wait", "over"}
      /\ task \in [Attempt -> {"none", "spawned", "check", "turn", "over"}]
      /\ token \in Attempt \cup {None}
  BY TaskOfStream
<1>3. /\ task' \in [Attempt -> {"none", "spawned", "check", "turn", "over"}] /\ task'[r] = "over"
      /\ \A s \in Attempt : s # r => task'[s] = task[s]
  BY <1>2
<1>4. token' \in Attempt \cup {None}
  BY <1>2 DEF DropToken
<1>5. TypeOK'
  BY <1>3, <1>4 DEF LiveInv, TypeOK
<1>6. StreamTurns'
  <2>1. \A s \in Attempt : CanStart(s)' => CanStart(s)
    BY <1>2, <1>3 DEF CanStart
  <2>2. \A s \in Attempt : task'[s] # "none" => pc'[s] \in {"sse", "wait", "over"}
    BY <1>2, <1>3 DEF LiveInv, StreamTurns
  <2>3. QED
    BY <1>2, <2>1, <2>2, KeepStreamTurns DEF LiveInv
<1>7. QED
  BY <1>2, <1>5, <1>6, TaskKeeps

LEMMA EmitFacts ==
    ASSUME LiveInv, NEW r \in Attempt, NEW e \in {"completed", "recovery_required", "cancelled"},
           Emit(r, e)
    PROVE  /\ task' = [task EXCEPT ![r] = "over"] /\ token' = DropToken(r)
           /\ event' \in [Attempt -> {"none", "completed", "recovery_required", "cancelled"}]
BY DEF LiveInv, TypeOK, Emit

LEMMA TaskStartStep ==
    ASSUME LiveInv, NEW r \in Attempt, TaskStart(r)
    PROVE  LiveInv'
<1>1. /\ UNCHANGED <<route, refusal, journal, record, assistant, writer, pc, fin, cancelled, cancel,
                     cancelAcked, cancels, stalls, dbErrors>>
      /\ task[r] = "check"
  BY DEF TaskStart, request, cancelling, bounds
<1>2. CASE Emit(r, "recovery_required") /\ UNCHANGED turns
  BY <1>1, <1>2, EmitFacts, TaskOverStep
<1>3. CASE task' = [task EXCEPT ![r] = "turn"] /\ turns' = turns + 1 /\ UNCHANGED <<event, token>>
  <2>1. /\ route = "stream" /\ journal.status = "committed" /\ pc[r] \in {"sse", "wait", "over"}
        /\ task \in [Attempt -> {"none", "spawned", "check", "turn", "over"}]
    BY <1>1, TaskOfStream
  <2>2. /\ task' \in [Attempt -> {"none", "spawned", "check", "turn", "over"}] /\ task'[r] = "turn"
        /\ \A s \in Attempt : s # r => task'[s] = task[s]
    BY <1>3, <2>1
  <2>3. turns = 0 /\ turns' = 1
    <3>1. CanStart(r)
      BY <1>1 DEF CanStart
    <3>2. turns = 0
      BY <2>1, <3>1 DEF LiveInv, StreamTurns
    <3>3. QED
      BY <1>3, <3>2
  <2>4. TypeOK'
    BY <1>1, <1>3, <2>2, <2>3 DEF LiveInv, TypeOK
  <2>5. \A s \in Attempt : ~CanStart(s)'
    <3> TAKE s \in Attempt
    <3>1. CASE s = r
      BY <1>1, <2>1, <2>2, <3>1 DEF CanStart
    <3>2. CASE s # r
      <4>1. ~CanStart(s)
        BY <1>1, <2>1, <3>2 DEF LiveInv, StreamTurns, CanStart
      <4>2. QED
        BY <1>1, <2>2, <3>2, <4>1 DEF CanStart
    <3>3. QED
      BY <3>1, <3>2
  <2>6. \A s \in Attempt : task'[s] # "none" => pc'[s] \in {"sse", "wait", "over"}
    BY <1>1, <2>1, <2>2 DEF LiveInv, StreamTurns
  <2>7. StreamTurns'
    BY <1>1, <2>1, <2>3, <2>5, <2>6 DEF StreamTurns, CanStart
  <2>8. QED
    BY <1>1, <2>1, <2>4, <2>7, TaskKeeps
<1>4. QED
  BY <1>2, <1>3 DEF TaskStart

LEMMA TaskEndStep ==
    ASSUME LiveInv, NEW r \in Attempt, TaskEnd(r)
    PROVE  LiveInv'
<1>1. /\ UNCHANGED <<route, refusal, journal, record, assistant, writer, pc, fin, cancelled, cancel,
                     cancelAcked, cancels, stalls, dbErrors, turns>>
      /\ task[r] = "turn"
      /\ Emit(r, "completed") \/ Emit(r, "recovery_required") \/ Emit(r, "cancelled")
  BY DEF TaskEnd, request, cancelling, bounds
<1>2. QED
  BY <1>1, EmitFacts, TaskOverStep

LEMMA TaskDiesStep ==
    ASSUME LiveInv, NEW r \in Attempt, TaskDies(r)
    PROVE  LiveInv'
<1>1. /\ UNCHANGED <<route, refusal, journal, record, assistant, writer, pc, fin, event, cancelled,
                     cancel, cancelAcked, cancels, stalls, dbErrors, turns>>
      /\ task[r] # "none" /\ task' = [task EXCEPT ![r] = "over"] /\ token' = DropToken(r)
  BY DEF TaskDies, request, cancelling, bounds
<1>2. QED
  BY <1>1, TaskOverStep DEF LiveInv, TypeOK

LEMMA CancelKeeps ==
    ASSUME LiveInv, TypeOK', CancelsReach',
           UNCHANGED <<route, refusal, journal, record, assistant, writer, pc, fin, task, stalls, turns>>
    PROVE  LiveInv'
<1>1. RoutesApart' /\ RecordBegins'
  BY KeepRoutes DEF LiveInv, RecordBegins, Unbegun
<1>2. OutcomesFit'
  BY KeepOutcomes DEF LiveInv
<1>3. AnswerIsRecorded'
  BY KeepAnswer DEF LiveInv, TypeOK
<1>4. LeasesCounted'
  <2>1. Live' \subseteq Live
    BY DEF Live
  <2>2. QED
    BY <2>1, KeepLeases DEF LiveInv, TypeOK
<1>5. MessageTurns'
  BY DEF LiveInv, MessageTurns, MayStart, Unbegun
<1>6. StreamTurns'
  BY DEF LiveInv, StreamTurns, CanStart
<1>7. QED
  BY <1>1, <1>2, <1>3, <1>4, <1>5, <1>6 DEF LiveInv

LEMMA CancelBeginStep ==
    ASSUME LiveInv, CancelBegin
    PROVE  LiveInv'
<1>1. /\ UNCHANGED <<route, refusal, journal, record, assistant, writer, pc, fin, task, event, token,
                     cancelled, cancelAcked, stalls, dbErrors, turns>>
      /\ cancels < MaxCancels /\ cancels' = cancels + 1
      /\ cancel' = "write" \/ (cancel' = "signal" /\ record.status = "cancel_requested")
  BY DEF CancelBegin, request, streaming, tokens
<1>2. cancels' \in 0..MaxCancels
  BY <1>1, BoundsAssumption DEF LiveInv, TypeOK
<1>3. TypeOK'
  BY <1>1, <1>2 DEF LiveInv, TypeOK
<1>4. CancelsReach'
  BY <1>1, KeepCancels DEF LiveInv
<1>5. QED
  BY <1>1, <1>3, <1>4, CancelKeeps

LEMMA CancelSignalStep ==
    ASSUME LiveInv, CancelSignal
    PROVE  LiveInv'
<1>1. /\ UNCHANGED <<route, refusal, journal, record, assistant, writer, pc, fin, task, event, token,
                     cancels, stalls, dbErrors, turns>>
      /\ cancel = "signal" /\ cancel' = "none" /\ cancelAcked' = TRUE
      /\ cancelled' = cancelled \cup ({token} \ {None})
  BY DEF CancelSignal, request, streaming, bounds
<1>2. TypeOK'
  BY <1>1 DEF LiveInv, TypeOK
<1>3. \A s \in Attempt : token = s => s \in cancelled'
  BY <1>1, AttemptAssumption
<1>4. CancelsReach'
  <2> SUFFICES ASSUME route = "message" PROVE CancelsReach'
    BY <1>1 DEF CancelsReach
  <2>1. \A s \in Attempt : pc'[s] \in {"begin", "check"} => s \in cancelled'
    BY <1>1, <1>3 DEF LiveInv, CancelsReach
  <2>2. record'.status \notin Unbegun \cup {"running"}
    BY <1>1 DEF LiveInv, CancelsReach
  <2>3. QED
    BY <2>1, <2>2 DEF CancelsReach, Unbegun
<1>5. QED
  BY <1>1, <1>2, <1>4, CancelKeeps

-----------------------------------------------------------------------------
(***************************************************************************)
(* Steps that write the record.                                             *)
(***************************************************************************)
Wrote(row, status, response) == [row EXCEPT !.status = status, !.response = response]

LEMMA WroteFacts ==
    ASSUME NEW row \in RecordRow, NEW status \in Status, NEW response \in Response
    PROVE  /\ Wrote(row, status, response) \in RecordRow
           /\ Wrote(row, status, response).status = status
           /\ Wrote(row, status, response).response = response
<1> DEFINE x == [row EXCEPT !.status = status]
           y == [x EXCEPT !.response = response]
<1>1. x \in RecordRow /\ x.status = status
  BY DEF RecordRow
<1>2. Wrote(row, status, response) = y
  BY DEF Wrote
<1> HIDE DEF x
<1>3. y \in RecordRow /\ y.status = status /\ y.response = response
  BY <1>1 DEF RecordRow
<1>4. QED
  BY <1>2, <1>3

\* A record that is written for the first time after its acceptance leaves no more
\* attempts that may start than are alive.
LEMMA BegunTurns ==
    ASSUME LeasesCounted, MessageTurns, turns \in Nat, stalls \in Nat,
           UNCHANGED <<route, turns, stalls>>, record'.status \notin Unbegun,
           route = "message" => MayStart' \subseteq MayStart
    PROVE  MessageTurns'
<1> SUFFICES ASSUME route = "message" PROVE MessageTurns'
  BY DEF MessageTurns
<1> DEFINE o == journal.owner_token
<1>1. MayStart \subseteq Live /\ IsFiniteSet(MayStart) /\ Cardinality(MayStart) \in Nat
  BY MayStartCount
<1>2. /\ MayStart' \in SUBSET MayStart
      /\ Cardinality(MayStart') <= Cardinality(MayStart) /\ Cardinality(MayStart') \in Nat
  BY <1>1, FS_Subset, FS_CardinalityType
<1>3. turns + Cardinality(MayStart) <= 1 + stalls
  <2>1. CASE record.status \notin Unbegun
    BY <2>1 DEF MessageTurns
  <2>2. CASE record.status \in Unbegun
    <3>1. turns = 0
      BY <2>2 DEF MessageTurns
    <3>2. IsFiniteSet(Live \ {o}) /\ Cardinality(Live \ {o}) \in Nat
      BY FS_Subset, FS_CardinalityType DEF LeasesCounted
    <3>3. Cardinality(Live \ {o}) <= stalls
      BY DEF LeasesCounted
    <3>4. /\ IsFiniteSet((Live \ {o}) \cup {o}) /\ o \notin Live \ {o}
          /\ Cardinality((Live \ {o}) \cup {o}) = Cardinality(Live \ {o}) + 1
      BY <3>2, FS_AddElement
    <3>5. MayStart \in SUBSET ((Live \ {o}) \cup {o})
      BY <1>1
    <3>6. Cardinality(MayStart) <= Cardinality((Live \ {o}) \cup {o})
      BY <3>4, <3>5, FS_Subset
    <3> HIDE DEF o
    <3>7. QED
      BY <1>1, <3>1, <3>2, <3>3, <3>4, <3>6
  <2>3. QED
    BY <2>1, <2>2
<1>4. turns' + Cardinality(MayStart') <= 1 + stalls'
  BY <1>1, <1>2, <1>3
<1>5. QED
  BY <1>4 DEF MessageTurns, MayStart, Unbegun

LEMMA CancelWriteStep ==
    ASSUME LiveInv, CancelWrite
    PROVE  LiveInv'
<1>1. /\ UNCHANGED <<route, refusal, journal, assistant, writer, pc, fin, task, event, token,
                     cancelled, cancelAcked, cancels, stalls, dbErrors, turns>>
      /\ writer = None
  BY DEF CancelWrite, Free, request, streaming, tokens, bounds
<1>2. CASE cancel' = "none" /\ UNCHANGED record
  <2>1. TypeOK'
    BY <1>1, <1>2 DEF LiveInv, TypeOK
  <2>2. CancelsReach'
    BY <1>1, <1>2, KeepCancels DEF LiveInv
  <2>3. QED
    BY <1>1, <1>2, <2>1, <2>2, CancelKeeps
<1>3. CASE /\ record.status \in CancelFrom /\ cancel' = "signal"
           /\ record' = Wrote(record, "cancel_requested", "cancelled")
  <2>1. /\ record \in RecordRow /\ "cancel_requested" \in Status /\ "cancelled" \in Response
        /\ turns \in Nat /\ stalls \in Nat
    BY DEF LiveInv, TypeOK, RecordRow, Status, Active, Response
  <2>2. record' \in RecordRow /\ record'.status = "cancel_requested"
    BY <1>3, <2>1, WroteFacts
  <2>3. TypeOK'
    BY <1>1, <1>3, <2>2 DEF LiveInv, TypeOK, RecordRow
  <2>4. \A s \in Attempt : writer # s
    BY <1>1, AttemptAssumption
  <2>5. RoutesApart' /\ RecordBegins'
    BY <1>1, <2>2, KeepRoutes DEF LiveInv, RecordBegins, Unbegun
  <2>6. OutcomesFit'
    BY <1>1, <2>2, <2>4, KeepOutcomes DEF LiveInv
  <2>7. AnswerIsRecorded'
    BY <1>1, <1>3, <2>2, KeepAnswer DEF LiveInv, TypeOK, CancelFrom
  <2>8. CancelsReach'
    BY <1>1, <1>3, <2>2, KeepCancels DEF LiveInv, Unbegun
  <2>9. Live' \subseteq Live /\ MayStart' \subseteq MayStart
    BY <1>1 DEF Live, MayStart
  <2>10. LeasesCounted'
    BY <1>1, <2>1, <2>9, KeepLeases DEF LiveInv
  <2>11. MessageTurns'
    BY <1>1, <2>1, <2>2, <2>9, BegunTurns DEF LiveInv, Unbegun
  <2>12. StreamTurns'
    BY <1>1 DEF LiveInv, StreamTurns, CanStart
  <2>13. QED
    BY <2>3, <2>5, <2>6, <2>7, <2>8, <2>10, <2>11, <2>12 DEF LiveInv
<1>4. QED
  BY <1>2, <1>3 DEF CancelWrite, Wrote

LEMMA AcceptStep ==
    ASSUME LiveInv, NEW r \in Attempt, Accept(r)
    PROVE  LiveInv'
<1>1. /\ UNCHANGED <<route, refusal, journal, assistant, task, event, token, cancelled, cancel,
                     cancelAcked, cancels, stalls, dbErrors, turns>>
      /\ pc[r] = "load" /\ writer = None /\ record.status = "absent"
      /\ record' = [record EXCEPT !.status = "accepted"]
  BY DEF Accept, Free, request, streaming, tokens, cancelling, bounds
<1>2. record \in RecordRow /\ turns \in Nat /\ stalls \in Nat /\ route \in {"message", "stream"}
  BY DEF LiveInv, TypeOK, RecordRow
<1>3. /\ record' \in RecordRow /\ record'.status = "accepted"
      /\ record'.attempt = record.attempt /\ record'.response = record.response
  BY <1>1, <1>2 DEF RecordRow, Status, Active
<1>4. \A s \in Attempt : writer # s
  BY <1>1, AttemptAssumption
<1>5. \E l \in {"prepare", "finalize", "accept"} :
          /\ pc' \in [Attempt -> Label] /\ pc'[r] = l
          /\ \A s \in Attempt : s # r => pc'[s] = pc[s]
          /\ fin' \in [Attempt -> Outcome] /\ writer' \in Attempt \cup {None}
          /\ \A s \in Attempt : s # r => fin'[s] = fin[s]
          /\ l \in {"prepare", "finalize"} => route = "message"
          /\ l = "accept" => route = "stream" /\ writer' = r
          /\ l = "finalize" => Fits(fin[r].status, fin[r].response)'
  <2>0. fin \in [Attempt -> Outcome] /\ writer \in Attempt \cup {None}
    BY DEF LiveInv, TypeOK
  <2>1. CASE route = "message" /\ refusal # "none"
    <3>1. Finish(r, "completed", "rejected") /\ writer' = writer
      BY <2>1 DEF Accept
    <3>2. /\ pc' \in [Attempt -> Label] /\ pc'[r] = "finalize"
          /\ \A s \in Attempt : s # r => pc'[s] = pc[s]
          /\ fin' \in [Attempt -> Outcome]
          /\ fin'[r].status = "completed" /\ fin'[r].response = "rejected"
          /\ \A s \in Attempt : s # r => fin'[s] = fin[s]
      BY <3>1, FinishFacts DEF LiveInv, Status, Response
    <3>3. Fits(fin[r].status, fin[r].response)'
      BY <1>1, <2>1, <3>2 DEF Fits
    <3>4. QED
      BY <2>0, <2>1, <3>1, <3>2, <3>3
  <2>2. CASE route = "message" /\ refusal = "none"
    <3>1. Goto(r, "prepare") /\ fin' = fin /\ writer' = writer /\ "prepare" \in Label
      BY <2>2 DEF Accept, Label, MessageLabel
    <3>2. /\ pc' \in [Attempt -> Label] /\ pc'[r] = "prepare"
          /\ \A s \in Attempt : s # r => pc'[s] = pc[s]
      BY <3>1, GotoFacts DEF LiveInv
    <3>3. QED
      BY <2>0, <2>2, <3>1, <3>2
  <2>3. CASE route # "message"
    <3>1. Goto(r, "accept") /\ fin' = fin /\ writer' = r /\ "accept" \in Label
      BY <2>3 DEF Accept, Label, StreamLabel
    <3>2. /\ pc' \in [Attempt -> Label] /\ pc'[r] = "accept"
          /\ \A s \in Attempt : s # r => pc'[s] = pc[s]
      BY <3>1, GotoFacts DEF LiveInv
    <3>3. QED
      BY <1>2, <2>0, <2>3, <3>1, <3>2
  <2>4. QED
    BY <2>1, <2>2, <2>3
<1>6. TypeOK'
  BY <1>1, <1>3, <1>5 DEF LiveInv, TypeOK, RecordRow, Label, MessageLabel, StreamLabel
<1>7. RoutesApart'
  BY <1>1, <1>5, KeepRoutes DEF LiveInv, MessageLabel, StreamLabel
<1>8. RecordBegins'
  BY <1>1, <1>3 DEF LiveInv, RecordBegins, Unbegun
<1>9. OutcomesFit'
  BY <1>1, <1>3, <1>4, <1>5, KeepOutcomes DEF LiveInv
<1>10. AnswerIsRecorded'
  BY <1>1, <1>2, <1>3, KeepAnswer DEF LiveInv
<1>11. CancelsReach'
  BY <1>1, <1>3, <1>5, KeepCancels DEF LiveInv, Unbegun
<1>12. LeasesCounted'
  <2>1. Live' \subseteq Live
    BY <1>1, <1>5 DEF Live
  <2>2. QED
    BY <1>1, <1>2, <2>1, KeepLeases DEF LiveInv
<1>13. MessageTurns'
  BY <1>1, <1>2, <1>3, <1>5 DEF LiveInv, MessageTurns, Unbegun
<1>14. StreamTurns'
  BY <1>1, <1>5 DEF LiveInv, StreamTurns, CanStart
<1>15. QED
  BY <1>6, <1>7, <1>8, <1>9, <1>10, <1>11, <1>12, <1>13, <1>14 DEF LiveInv

LEMMA BeginStep ==
    ASSUME LiveInv, NEW r \in Attempt, Begin(r)
    PROVE  LiveInv'
<1>1. /\ UNCHANGED <<route, refusal, journal, assistant, event, cancelled, cancel, cancelAcked,
                     cancels, stalls, dbErrors, turns>>
      /\ pc[r] = "begin" /\ writer = None
  BY DEF Begin, Free, request, cancelling, bounds
<1>2. CASE record.status \notin BeginFrom
  BY <1>1, <1>2, LeaveStep DEF Begin
<1>3. CASE record.status \in BeginFrom
  <2> DEFINE l == IF route = "message" THEN "check" ELSE "sse"
  <2>1. /\ record' = Begun(record) /\ Goto(r, l) /\ UNCHANGED <<fin, writer, token>>
        /\ task' = IF route = "message" THEN task ELSE [task EXCEPT ![r] = "spawned"]
    BY <1>3 DEF Begin
  <2>2. /\ record \in RecordRow /\ turns \in Nat /\ stalls \in Nat /\ route \in {"message", "stream"}
        /\ task \in [Attempt -> {"none", "spawned", "check", "turn", "over"}]
    BY DEF LiveInv, TypeOK, RecordRow
  <2>3. record' \in RecordRow /\ record'.status = "running"
    <3>1. CASE record.status = "running"
      BY <2>1, <2>2, <3>1 DEF Begun
    <3>2. CASE record.status # "running"
      <4>1. record.attempt = 0
        BY <1>3, <3>2 DEF BeginFrom, LiveInv, RecordBegins, Unbegun
      <4>2. record' = [status |-> "running", attempt |-> 1, response |-> "none"]
        BY <2>1, <3>2, <4>1 DEF Begun
      <4>3. QED
        BY <4>2 DEF RecordRow, Status, Active, Response
    <3>3. QED
      BY <3>1, <3>2
  <2>4. pc' \in [Attempt -> Label] /\ pc'[r] = l /\ \A s \in Attempt : s # r => pc'[s] = pc[s]
    BY <2>1, GotoFacts DEF LiveInv, Label, MessageLabel, StreamLabel
  <2>5. task' \in [Attempt -> {"none", "spawned", "check", "turn", "over"}]
    BY <2>1, <2>2
  <2>6. TypeOK'
    BY <1>1, <2>1, <2>3, <2>4, <2>5
       DEF LiveInv, TypeOK, RecordRow, Label, MessageLabel, StreamLabel
  <2>7. \A s \in Attempt : writer # s
    BY <1>1, AttemptAssumption
  <2>8. RoutesApart' /\ RecordBegins'
    BY <1>1, <2>1, <2>2, <2>3, <2>4, KeepRoutes
       DEF LiveInv, MessageLabel, StreamLabel, RecordBegins, Unbegun
  <2>9. OutcomesFit'
    BY <1>1, <2>1, <2>3, <2>4, <2>7, KeepOutcomes DEF LiveInv
  <2>10. AnswerIsRecorded'
    BY <1>1, <1>3, <2>2, <2>3, KeepAnswer DEF LiveInv, BeginFrom
  <2>11. CancelsReach'
    <3>1. record.status \in Unbegun \cup {"running"}
      BY <1>3 DEF BeginFrom, Unbegun
    <3>2. \A s \in Attempt : pc'[s] \in {"begin", "check"} => pc[s] \in {"begin", "check"}
      BY <1>1, <2>4
    <3>3. QED
      BY <1>1, <2>1, <3>1, <3>2, KeepCancels DEF LiveInv
  <2>12. Live' \subseteq Live /\ MayStart' \subseteq MayStart
    BY <1>1, <2>4 DEF Live, MayStart
  <2>13. LeasesCounted'
    BY <1>1, <2>2, <2>12, KeepLeases DEF LiveInv
  <2>14. MessageTurns'
    BY <1>1, <2>2, <2>3, <2>12, BegunTurns DEF LiveInv, Unbegun
  <2>15. StreamTurns'
    <3> SUFFICES ASSUME route = "stream" PROVE StreamTurns'
      BY <1>1, <2>2 DEF StreamTurns
    <3>1. /\ task'[r] = "spawned" /\ pc'[r] = "sse"
          /\ \A s \in Attempt : s # r => task'[s] = task[s]
      BY <2>1, <2>2, <2>4
    <3>2. CanStart(r)
      BY <1>1 DEF CanStart
    <3>3. journal.status = "committed"
      BY <3>2 DEF LiveInv, StreamTurns
    <3>4. \A s \in Attempt : CanStart(s)' => CanStart(s)
      BY <2>4, <3>1, <3>2 DEF CanStart
    <3>5. \A s \in Attempt : task'[s] # "none" => pc'[s] \in {"sse", "wait", "over"}
      BY <2>4, <3>1 DEF LiveInv, StreamTurns
    <3>6. QED
      BY <1>1, <3>3, <3>4, <3>5, KeepStreamTurns DEF LiveInv
  <2>16. QED
    BY <2>6, <2>8, <2>9, <2>10, <2>11, <2>13, <2>14, <2>15 DEF LiveInv
<1>4. QED
  BY <1>2, <1>3

LEMMA FinalizeStep ==
    ASSUME LiveInv, NEW r \in Attempt, Finalize(r)
    PROVE  LiveInv'
<1>1. /\ UNCHANGED <<route, refusal, journal, assistant, task, event, cancelled, cancel, cancelAcked,
                     cancels, stalls, dbErrors, turns>>
      /\ pc[r] = "finalize" /\ writer = None
  BY DEF Finalize, Free, request, streaming, cancelling, bounds
<1>2. route = "message" /\ \A s \in Attempt : writer # s
  BY <1>1, AttemptAssumption DEF LiveInv, TypeOK, RoutesApart, StreamLabel
<1>3. CASE record.status \notin TransitionsFrom
  BY <1>1, <1>3, LeaveStep DEF Finalize
<1>4. CASE record.status \in TransitionsFrom
  <2> DEFINE status == fin[r].status
             response == IF status = "recovery_required" THEN "none" ELSE fin[r].response
  <2>1. /\ record' = Wrote(record, status, response) /\ writer' = r /\ Goto(r, "commit")
        /\ UNCHANGED <<fin, token>>
    BY <1>4 DEF Finalize, Wrote
  <2>2. /\ record \in RecordRow /\ status \in Status /\ response \in Response
        /\ turns \in Nat /\ stalls \in Nat
    BY DEF LiveInv, TypeOK, RecordRow, Outcome, Response
  <2>3. record' \in RecordRow /\ record'.status = status /\ record'.response = response
    BY <2>1, <2>2, WroteFacts
  <2>4. Fits(status, fin[r].response)
    BY <1>1 DEF LiveInv, OutcomesFit
  <2>5. status \in {"completed", "recovery_required", "cancelled"}
    BY <2>4 DEF Fits
  <2>6. pc' \in [Attempt -> Label] /\ pc'[r] = "commit" /\ \A s \in Attempt : s # r => pc'[s] = pc[s]
    BY <2>1, GotoFacts DEF LiveInv, Label, MessageLabel
  <2>7. TypeOK'
    BY <1>1, <2>1, <2>3, <2>6 DEF LiveInv, TypeOK, RecordRow, Label, MessageLabel, StreamLabel
  <2>8. RoutesApart' /\ RecordBegins'
    BY <1>1, <1>2, <2>3, <2>5, <2>6, KeepRoutes DEF LiveInv, MessageLabel, RecordBegins, Unbegun
  <2>9. OutcomesFit'
    <3>1. record'.status = "completed" => Fits("completed", record.response)'
      BY <1>1, <2>3, <2>4 DEF Fits
    <3>2. record'.status # "absent" /\ record'.status = fin'[r].status
      BY <2>1, <2>3, <2>5
    <3>3. QED
      BY <1>1, <1>2, <2>1, <2>6, <3>1, <3>2, KeepOutcomes DEF LiveInv
  <2>10. AnswerIsRecorded'
    BY <1>1, <1>2, <1>4, <2>3, <2>5, KeepAnswer DEF LiveInv, TransitionsFrom, Active
  <2>11. CancelsReach'
    BY <1>1, <2>1, <2>3, <2>5, <2>6, KeepCancels DEF LiveInv, Unbegun
  <2>12. Live' \subseteq Live /\ MayStart' \subseteq MayStart
    BY <1>1, <2>6 DEF Live, MayStart
  <2>13. LeasesCounted'
    BY <1>1, <2>2, <2>12, KeepLeases DEF LiveInv
  <2>14. MessageTurns'
    BY <1>1, <2>2, <2>3, <2>5, <2>12, BegunTurns DEF LiveInv, Unbegun
  <2>15. StreamTurns'
    BY <1>1, <1>2 DEF StreamTurns
  <2>16. QED
    BY <2>7, <2>8, <2>9, <2>10, <2>11, <2>13, <2>14, <2>15 DEF LiveInv
<1>5. QED
  BY <1>3, <1>4

\* The response body of a stream writes the record, and waits or leaves.
LEMMA StreamWrites ==
    ASSUME LiveInv, TypeOK', route = "stream", writer = None, NEW r \in Attempt,
           pc[r] \in {"sse", "wait"}, pc'[r] \in {"wait", "over"},
           \A s \in Attempt : s # r => pc'[s] = pc[s],
           UNCHANGED <<route, refusal, journal, assistant, task, stalls, turns>>,
           record' = record \/ /\ record.status \in Active
                               /\ record'.status \notin Unbegun
    PROVE  LiveInv'
<1>1. \A s \in Attempt : writer # s
  BY AttemptAssumption
<1>2. RoutesApart'
  BY KeepRoutes DEF LiveInv, StreamLabel
<1>3. RecordBegins'
  BY DEF LiveInv, RecordBegins, Unbegun
<1>4. \A s \in Attempt : pc[s] \notin {"finalize", "commit", "accept"}
  <2> TAKE s \in Attempt
  <2>1. pc[s] \in StreamLabel /\ pc[s] # "accept"
    BY <1>1 DEF LiveInv, RoutesApart, OutcomesFit
  <2>2. QED
    BY <2>1 DEF StreamLabel
<1>5. OutcomesFit'
  BY <1>4 DEF OutcomesFit
<1>6. AnswerIsRecorded'
  BY KeepAnswer DEF LiveInv, Active, Unbegun
<1>7. LeasesCounted'
  <2>1. Live' \subseteq Live
    BY DEF Live
  <2>2. QED
    BY <2>1, KeepLeases DEF LiveInv, TypeOK
<1>8. CancelsReach' /\ MessageTurns'
  BY DEF CancelsReach, MessageTurns
<1>9. StreamTurns'
  BY DEF LiveInv, StreamTurns, CanStart
<1>10. QED
  BY <1>2, <1>3, <1>5, <1>6, <1>7, <1>8, <1>9 DEF LiveInv

\* update_agent_stream_execution_state
LEMMA StreamStatusFacts ==
    ASSUME LiveInv, NEW status \in Status \ Unbegun, NEW response \in Response,
           StreamStatus(status, response)
    PROVE  /\ record' \in RecordRow
           /\ record' = record \/ (record.status \in Active /\ record'.status \notin Unbegun)
<1>1. record \in RecordRow
  BY DEF LiveInv, TypeOK, RecordRow
<1>2. record' = record \/ (record.status \in Active /\ record' = Wrote(record, status, response))
  BY DEF StreamStatus, TransitionsFrom, Wrote
<1>3. QED
  BY <1>1, <1>2, WroteFacts

LEMMA SseStartStep ==
    ASSUME LiveInv, NEW r \in Attempt, SseStart(r)
    PROVE  LiveInv'
<1>1. /\ UNCHANGED <<route, refusal, journal, assistant, task, event, cancelled, cancel, cancelAcked,
                     cancels, stalls, dbErrors, turns>>
      /\ pc[r] = "sse" /\ writer = None /\ StreamStatus("running", "none")
  BY DEF SseStart, Free, request, streaming, cancelling, bounds
<1>2. route = "stream"
  BY <1>1 DEF LiveInv, TypeOK, RoutesApart, MessageLabel
<1>3. CASE record.status \notin TransitionsFrom
  BY <1>1, <1>3, LeaveStep DEF SseStart, StreamStatus
<1>4. CASE record.status \in TransitionsFrom
  <2>1. Goto(r, "wait") /\ UNCHANGED <<fin, writer, token>>
    BY <1>4 DEF SseStart
  <2>2. pc' \in [Attempt -> Label] /\ pc'[r] = "wait" /\ \A s \in Attempt : s # r => pc'[s] = pc[s]
    BY <2>1, GotoFacts DEF LiveInv, Label, StreamLabel
  <2>3. /\ record' \in RecordRow
        /\ record' = record \/ (record.status \in Active /\ record'.status \notin Unbegun)
    BY <1>1, StreamStatusFacts DEF Status, Active, Response, Unbegun
  <2>4. TypeOK'
    BY <1>1, <2>1, <2>2, <2>3 DEF LiveInv, TypeOK, RecordRow, Label, MessageLabel, StreamLabel
  <2>5. QED
    BY <1>1, <1>2, <2>2, <2>3, <2>4, StreamWrites
<1>5. QED
  BY <1>3, <1>4

LEMMA SseEndStep ==
    ASSUME LiveInv, NEW r \in Attempt, SseEnd(r)
    PROVE  LiveInv'
<1>1. /\ UNCHANGED <<route, refusal, journal, assistant, task, cancelled, cancel, cancelAcked,
                     cancels, stalls, dbErrors, turns>>
      /\ pc[r] = "wait" /\ writer = None /\ Leave(r) /\ event' = [event EXCEPT ![r] = "none"]
  BY DEF SseEnd, Free, request, cancelling, bounds
<1>2. route = "stream"
  BY <1>1 DEF LiveInv, TypeOK, RoutesApart, MessageLabel
<1>3. /\ pc' \in [Attempt -> Label] /\ pc'[r] = "over"
      /\ \A s \in Attempt : s # r => pc'[s] = pc[s]
      /\ fin' \in [Attempt -> Outcome]
      /\ writer' \in Attempt \cup {None} /\ token' \in Attempt \cup {None}
  BY <1>1, LeaveFacts DEF LiveInv
<1>4. PICK status \in Status \ Unbegun, response \in Response : StreamStatus(status, response)
  <2>1. CASE event[r] # "none" /\ StreamStatus(event[r],
                 CASE event[r] = "completed" -> "completed"
                   [] event[r] = "cancelled" -> "cancelled"
                   [] OTHER -> "recovery")
    <3>1. event[r] \in {"completed", "recovery_required", "cancelled"}
      BY <2>1 DEF LiveInv, TypeOK
    <3>2. event[r] \in Status \ Unbegun
      BY <3>1 DEF Status, Active, Unbegun
    <3>3. \E response \in {"completed", "cancelled", "recovery"} : StreamStatus(event[r], response)
      BY <2>1, <3>1
    <3>4. QED
      BY <3>2, <3>3 DEF Response
  <2>2. CASE StreamStatus("recovery_required", "recovery")
    BY <2>2 DEF Status, Active, Response, Unbegun
  <2>3. QED
    BY <2>1, <2>2 DEF SseEnd
<1>5. /\ record' \in RecordRow
      /\ record' = record \/ (record.status \in Active /\ record'.status \notin Unbegun)
  BY <1>4, StreamStatusFacts
<1>6. event' \in [Attempt -> {"none", "completed", "recovery_required", "cancelled"}]
  BY <1>1 DEF LiveInv, TypeOK
<1>7. TypeOK'
  BY <1>1, <1>3, <1>5, <1>6 DEF LiveInv, TypeOK, RecordRow, Label, MessageLabel, StreamLabel
<1>8. QED
  BY <1>1, <1>2, <1>3, <1>5, <1>7, StreamWrites

-----------------------------------------------------------------------------
(***************************************************************************)
(* Steps that write the journal.                                            *)
(***************************************************************************)
Taken(row, r) == [row EXCEPT !.status = "in_progress", !.owner_token = r]
Committed(row, response) == [row EXCEPT !.status = "committed", !.response = response]

LEMMA TakenFacts ==
    ASSUME NEW row \in JournalRow, NEW r \in Attempt
    PROVE  /\ Taken(row, r) \in JournalRow /\ Taken(row, r).status = "in_progress"
           /\ Taken(row, r).owner_token = r /\ Taken(row, r).response = row.response
<1> DEFINE x == [row EXCEPT !.status = "in_progress"]
           y == [x EXCEPT !.owner_token = r]
<1>1. x \in JournalRow /\ x.status = "in_progress" /\ x.response = row.response
  BY DEF JournalRow
<1>2. Taken(row, r) = y
  BY DEF Taken
<1> HIDE DEF x
<1>3. /\ y \in JournalRow /\ y.status = "in_progress" /\ y.owner_token = r
      /\ y.response = row.response
  BY <1>1 DEF JournalRow
<1>4. QED
  BY <1>2, <1>3

LEMMA CommittedFacts ==
    ASSUME NEW row \in JournalRow, NEW response \in Response
    PROVE  /\ Committed(row, response) \in JournalRow
           /\ Committed(row, response).status = "committed"
           /\ Committed(row, response).owner_token = row.owner_token
           /\ Committed(row, response).response = response
<1> DEFINE x == [row EXCEPT !.status = "committed"]
           y == [x EXCEPT !.response = response]
<1>1. x \in JournalRow /\ x.status = "committed" /\ x.owner_token = row.owner_token
  BY DEF JournalRow
<1>2. Committed(row, response) = y
  BY DEF Committed
<1> HIDE DEF x
<1>3. /\ y \in JournalRow /\ y.status = "committed" /\ y.owner_token = row.owner_token
      /\ y.response = response
  BY <1>1 DEF JournalRow
<1>4. QED
  BY <1>2, <1>3

LEMMA AcquireStep ==
    ASSUME LiveInv, NEW r \in Attempt, Acquire(r)
    PROVE  LiveInv'
<1>1. /\ UNCHANGED <<route, refusal, record, assistant, writer, fin, task, event, token, cancelled,
                     cancel, cancelAcked, cancels, dbErrors, turns>>
      /\ pc[r] = "new" /\ journal.status # "committed" /\ Goto(r, "load")
      /\ journal' = Taken(journal, r)
      /\ IF journal.status = "in_progress" /\ Living(journal.owner_token)
         THEN stalls < MaxStalls /\ stalls' = stalls + 1
         ELSE stalls' = stalls
  BY DEF Acquire, Taken, request, streaming, tokens, cancelling
<1>2. journal \in JournalRow /\ turns \in Nat /\ stalls \in 0..MaxStalls /\ MaxStalls \in Nat
  BY BoundsAssumption DEF LiveInv, TypeOK, JournalRow
<1>3. /\ journal' \in JournalRow /\ journal'.status = "in_progress"
      /\ journal'.owner_token = r /\ journal'.response = journal.response
  BY <1>1, <1>2, TakenFacts
<1>4. pc' \in [Attempt -> Label] /\ pc'[r] = "load" /\ \A s \in Attempt : s # r => pc'[s] = pc[s]
  BY <1>1, GotoFacts DEF LiveInv, Label, MessageLabel
<1>5. stalls' \in 0..MaxStalls /\ stalls \in Nat /\ stalls' \in Nat /\ stalls <= stalls'
  BY <1>1, <1>2
<1>6. TypeOK'
  BY <1>1, <1>3, <1>4, <1>5 DEF LiveInv, TypeOK, JournalRow, Label, MessageLabel, StreamLabel
<1>7. RoutesApart' /\ RecordBegins'
  <2>1. route \in {"message", "stream"}
    BY DEF LiveInv, TypeOK
  <2>2. QED
    BY <1>1, <1>3, <1>4, <2>1, KeepRoutes
       DEF LiveInv, MessageLabel, StreamLabel, RecordBegins, Unbegun
<1>8. OutcomesFit'
  BY <1>1, <1>4, KeepOutcomes DEF LiveInv
<1>9. AnswerIsRecorded'
  BY <1>3 DEF AnswerIsRecorded
<1>10. CancelsReach'
  BY <1>1, <1>4, KeepCancels DEF LiveInv
<1>11. LeasesCounted'
  <2> DEFINE o == journal.owner_token
  <2>1. Live' = Live \cup {r} /\ r \notin Live
    BY <1>1, <1>4 DEF Live
  <2>2. Live' \ {r} = Live
    BY <2>1
  <2>3. IsFiniteSet(Live) /\ IsFiniteSet(Live') /\ Cardinality(Live) \in Nat
    BY <2>1, FS_AddElement, FS_CardinalityType DEF LiveInv, LeasesCounted
  <2>4. /\ IsFiniteSet(Live \ {o}) /\ Cardinality(Live \ {o}) \in Nat
        /\ Cardinality(Live \ {o}) <= stalls
    BY <2>3, FS_Subset, FS_CardinalityType DEF LiveInv, LeasesCounted
  <2>5. Cardinality(Live) <= stalls'
    <3>1. CASE o \in Live
      <4>1. journal.status = "in_progress" /\ Living(o)
        <5>1. o \in Attempt /\ pc[o] \notin {"new", "over"} /\ o # None
          BY <3>1, AttemptAssumption DEF Live
        <5>2. journal.status \notin {"absent", "aborted"}
          BY <3>1, <5>1 DEF LiveInv, LeasesCounted
        <5>3. QED
          BY <1>1, <1>2, <5>1, <5>2 DEF JournalRow, Living
      <4>2. stalls' = stalls + 1
        BY <1>1, <4>1
      <4>3. Cardinality(Live \ {o}) = Cardinality(Live) - 1
        BY <2>3, <3>1, FS_RemoveElement
      <4> HIDE DEF o
      <4>4. QED
        BY <1>5, <2>3, <2>4, <4>2, <4>3
    <3>2. CASE o \notin Live
      <4>1. Live \ {o} = Live
        BY <3>2
      <4> HIDE DEF o
      <4>2. QED
        BY <1>5, <2>3, <2>4, <4>1
    <3>3. QED
      BY <3>1, <3>2
  <2>6. Cardinality(Live' \ {r}) <= stalls'
    BY <2>2, <2>5
  <2>7. QED
    BY <1>3, <2>3, <2>6 DEF LeasesCounted, Live
<1>12. MessageTurns'
  <2>1. MayStart' \subseteq MayStart /\ \A s \in Attempt : pc'[s] = "check" => pc[s] = "check"
    BY <1>4 DEF MayStart
  <2>2. QED
    BY <1>1, <1>2, <1>5, <2>1, KeepMessageTurns DEF LiveInv
<1>13. StreamTurns'
  BY <1>1, <1>3, <1>4 DEF LiveInv, StreamTurns, CanStart
<1>14. QED
  BY <1>6, <1>7, <1>8, <1>9, <1>10, <1>11, <1>12, <1>13 DEF LiveInv

\* A handler that writes the journal's row it owns, and leaves.
LEMMA LastWrite ==
    ASSUME LiveInv, NEW r \in Attempt, Leave(r), OwnsJournal(r), pc[r] # "new",
           journal' \in JournalRow, journal'.owner_token = journal.owner_token,
           journal'.status \in {"aborted", "committed"}, AnswerIsRecorded',
           route = "stream" => journal'.response \in {"none", "accepted"},
           UNCHANGED <<route, refusal, record, assistant, task, event, cancelled, cancel,
                       cancelAcked, cancels, stalls, dbErrors, turns>>
    PROVE  LiveInv'
<1>1. /\ pc' \in [Attempt -> Label] /\ pc'[r] = "over"
      /\ \A s \in Attempt : s # r => pc'[s] = pc[s]
      /\ fin' \in [Attempt -> Outcome]
      /\ \A s \in Attempt : s # r => fin'[s] = fin[s]
      /\ writer' \in Attempt \cup {None} /\ \A s \in Attempt : s # r /\ writer = s => writer' = s
      /\ token' \in Attempt \cup {None} /\ \A s \in Attempt : s # r /\ token = s => token' = s
  BY LeaveFacts DEF LiveInv
<1>2. TypeOK'
  BY <1>1 DEF LiveInv, TypeOK, JournalRow, Label, MessageLabel, StreamLabel
<1>3. RoutesApart' /\ RecordBegins'
  BY <1>1 DEF LiveInv, RoutesApart, MessageLabel, StreamLabel, RecordBegins, Unbegun
<1>4. OutcomesFit'
  BY <1>1, KeepOutcomes DEF LiveInv
<1>5. CancelsReach'
  BY <1>1, KeepCancels DEF LiveInv
<1>6. /\ Live' \subseteq Live /\ r \notin Live' /\ MayStart' \subseteq MayStart
      /\ journal.owner_token = r /\ journal.status = "in_progress"
  BY <1>1 DEF Live, MayStart, OwnsJournal
<1>7. turns \in Nat /\ stalls \in Nat /\ stalls <= stalls'
  BY DEF LiveInv, TypeOK
<1>8. LeasesCounted'
  BY <1>6, <1>7, KeepLeases DEF LiveInv
<1>9. MessageTurns'
  <2>1. \A s \in Attempt : pc'[s] = "check" => pc[s] = "check"
    BY <1>1
  <2>2. QED
    BY <1>6, <1>7, <2>1, KeepMessageTurns DEF LiveInv
<1>10. StreamTurns'
  <2>1. \A s \in Attempt : CanStart(s)' => CanStart(s)
    BY <1>1 DEF CanStart
  <2>2. route = "stream" => \A s \in Attempt : task'[s] # "none" => pc'[s] \in {"sse", "wait", "over"}
    BY <1>1 DEF LiveInv, StreamTurns
  <2>3. QED
    BY <1>6, <2>1, <2>2, KeepStreamTurns DEF LiveInv
<1>11. QED
  BY <1>2, <1>3, <1>4, <1>5, <1>8, <1>9, <1>10 DEF LiveInv

LEMMA RejectStep ==
    ASSUME LiveInv, NEW r \in Attempt, Reject(r)
    PROVE  LiveInv'
<1>1. /\ UNCHANGED <<route, refusal, record, assistant, task, event, cancelled, cancel, cancelAcked,
                     cancels, stalls, dbErrors, turns>>
      /\ pc[r] = "load" /\ Leave(r)
  BY DEF Reject, request, streaming, cancelling, bounds
<1>2. CASE ~OwnsJournal(r)
  BY <1>1, <1>2, LeaveStep DEF Reject
<1>3. CASE OwnsJournal(r)
  <2>1. journal' = [journal EXCEPT !.status = "aborted"] /\ journal \in JournalRow
    BY <1>3 DEF Reject, LiveInv, TypeOK, JournalRow
  <2>2. /\ journal' \in JournalRow /\ journal'.status = "aborted"
        /\ journal'.owner_token = journal.owner_token /\ journal'.response = journal.response
    BY <2>1 DEF JournalRow
  <2>3. AnswerIsRecorded'
    BY <2>2 DEF AnswerIsRecorded
  <2>4. route = "stream" => journal'.response \in {"none", "accepted"}
    BY <2>2 DEF LiveInv, RoutesApart
  <2>5. QED
    BY <1>1, <1>3, <2>2, <2>3, <2>4, LastWrite
<1>4. QED
  BY <1>2, <1>3

LEMMA CommitFinalStep ==
    ASSUME LiveInv, NEW r \in Attempt, CommitFinal(r)
    PROVE  LiveInv'
<1>1. /\ UNCHANGED <<route, refusal, record, assistant, task, event, cancelled, cancel, cancelAcked,
                     cancels, stalls, dbErrors, turns>>
      /\ pc[r] = "commit" /\ Leave(r)
  BY DEF CommitFinal, request, streaming, cancelling, bounds
<1>2. CASE ~OwnsJournal(r)
  BY <1>1, <1>2, LeaveStep DEF CommitFinal
<1>3. CASE OwnsJournal(r)
  <2>1. /\ journal' = Committed(journal, fin[r].response) /\ journal \in JournalRow
        /\ fin[r].response \in Response
    BY <1>3 DEF CommitFinal, Committed, LiveInv, TypeOK, JournalRow, Outcome
  <2>2. /\ journal' \in JournalRow /\ journal'.status = "committed"
        /\ journal'.owner_token = journal.owner_token /\ journal'.response = fin[r].response
    BY <2>1, CommittedFacts
  <2>3. Fits(fin[r].status, fin[r].response) /\ record.status = fin[r].status
    BY <1>1 DEF LiveInv, OutcomesFit
  <2>4. AnswerIsRecorded'
    BY <1>1, <2>2, <2>3 DEF Fits, AnswerIsRecorded
  <2>5. route = "message"
    BY <1>1 DEF LiveInv, TypeOK, RoutesApart, StreamLabel
  <2>6. QED
    BY <1>1, <1>3, <2>2, <2>4, <2>5, LastWrite
<1>4. QED
  BY <1>2, <1>3

LEMMA CommitAcceptanceStep ==
    ASSUME LiveInv, NEW r \in Attempt, CommitAcceptance(r)
    PROVE  LiveInv'
<1>1. /\ UNCHANGED <<route, refusal, record, assistant, task, event, cancelled, cancel, cancelAcked,
                     cancels, stalls, dbErrors, turns>>
      /\ pc[r] = "accept"
  BY DEF CommitAcceptance, request, streaming, cancelling, bounds
<1>2. route = "stream" /\ writer = r /\ record.status # "absent"
  BY <1>1 DEF LiveInv, TypeOK, RoutesApart, MessageLabel, OutcomesFit
<1>3. CASE ~OwnsJournal(r)
  BY <1>1, <1>3, LeaveStep DEF CommitAcceptance
<1>4. CASE OwnsJournal(r)
  <2>1. /\ journal' = Committed(journal, "accepted") /\ journal \in JournalRow
        /\ "accepted" \in Response
    BY <1>4 DEF CommitAcceptance, Committed, LiveInv, TypeOK, JournalRow, Response
  <2>2. /\ journal' \in JournalRow /\ journal'.status = "committed"
        /\ journal'.owner_token = journal.owner_token /\ journal'.response = "accepted"
    BY <2>1, CommittedFacts
  <2>3. AnswerIsRecorded'
    BY <1>1, <1>2, <2>2 DEF AnswerIsRecorded
  <2>4. CASE Leave(r)
    BY <1>1, <1>4, <2>2, <2>3, <2>4, LastWrite
  <2>5. CASE Goto(r, "begin") /\ writer' = None /\ UNCHANGED <<fin, token>>
    <3>1. /\ pc' \in [Attempt -> Label] /\ pc'[r] = "begin"
          /\ \A s \in Attempt : s # r => pc'[s] = pc[s]
      BY <2>5, GotoFacts DEF LiveInv, Label, StreamLabel
    <3>2. TypeOK'
      BY <1>1, <2>2, <2>5, <3>1 DEF LiveInv, TypeOK, JournalRow, Label, MessageLabel, StreamLabel
    <3>3. RoutesApart' /\ RecordBegins'
      BY <1>1, <1>2, <2>2, <3>1, KeepRoutes DEF LiveInv, StreamLabel, RecordBegins, Unbegun
    <3>4. \A s \in Attempt : pc'[s] \notin {"finalize", "commit", "accept"}
      <4> TAKE s \in Attempt
      <4>1. s # r => pc[s] # "accept"
        BY <1>2 DEF LiveInv, OutcomesFit
      <4>2. pc[s] \in StreamLabel
        BY <1>2 DEF LiveInv, RoutesApart
      <4>3. QED
        BY <3>1, <4>1, <4>2 DEF StreamLabel
    <3>5. OutcomesFit'
      BY <1>1, <1>2, <3>4 DEF OutcomesFit
    <3>6. CancelsReach' /\ MessageTurns'
      BY <1>1, <1>2 DEF CancelsReach, MessageTurns
    <3>7. LeasesCounted'
      <4>1. Live' \subseteq Live
        BY <1>1, <3>1 DEF Live
      <4>2. QED
        BY <1>1, <2>2, <4>1, KeepLeases DEF LiveInv, TypeOK
    <3>8. StreamTurns'
      <4>1. /\ turns = 0 /\ \A s \in Attempt : ~CanStart(s) /\ task[s] = "none"
        BY <1>2, <1>4 DEF LiveInv, StreamTurns, OwnsJournal
      <4>2. \A s \in Attempt : CanStart(s)' => s = r
        BY <1>1, <3>1, <4>1 DEF CanStart
      <4>3. QED
        BY <1>1, <2>2, <4>1, <4>2 DEF StreamTurns, CanStart
    <3>9. QED
      BY <2>3, <3>2, <3>3, <3>5, <3>6, <3>7, <3>8 DEF LiveInv
  <2>6. QED
    BY <1>4, <2>4, <2>5 DEF CommitAcceptance
<1>5. QED
  BY <1>3, <1>4

-----------------------------------------------------------------------------
(***************************************************************************)
(* The invariant.                                                           *)
(***************************************************************************)
LEMMA LiveInvInit ==
    ASSUME Init
    PROVE  LiveInv
<1>1. /\ route \in {"message", "stream"} /\ refusal \in {"none", "inspection", "providers"}
      /\ journal = [status |-> "absent", owner_token |-> None, response |-> "none"]
      /\ record = [status |-> "absent", attempt |-> 0, response |-> "none"]
      /\ assistant = FALSE /\ writer = None
      /\ pc = [r \in Attempt |-> "new"] /\ fin = [r \in Attempt |-> NoOutcome]
      /\ task = [r \in Attempt |-> "none"] /\ event = [r \in Attempt |-> "none"]
      /\ token = None /\ cancelled = {} /\ cancel = "none"
      /\ cancels = 0 /\ stalls = 0 /\ dbErrors = 0 /\ turns = 0 /\ cancelAcked = FALSE
  BY DEF Init
<1>2. NoOutcome \in Outcome
  BY DEF NoOutcome, Outcome, Status, Response
<1>3. journal \in JournalRow /\ record \in RecordRow
  BY <1>1 DEF JournalRow, RecordRow, Status, Response
<1>4. 0 \in 0..MaxCancels /\ 0 \in 0..MaxStalls /\ 0 \in 0..MaxDbErrors
  BY BoundsAssumption
<1>5. TypeOK
  BY <1>1, <1>2, <1>3, <1>4 DEF TypeOK, JournalRow, RecordRow
<1>6. RoutesApart /\ RecordBegins /\ OutcomesFit
  BY <1>1 DEF RoutesApart, RecordBegins, OutcomesFit, MessageLabel, StreamLabel
<1>7. AnswerIsRecorded /\ CancelsReach
  BY <1>1 DEF AnswerIsRecorded, CancelsReach
<1>8. LeasesCounted
  <2>1. Live = {} /\ Live \ {journal.owner_token} = {}
    BY <1>1 DEF Live
  <2>2. IsFiniteSet({}) /\ Cardinality({}) = 0
    BY FS_EmptySet
  <2>3. QED
    BY <1>1, <2>1, <2>2 DEF LeasesCounted
<1>9. MessageTurns /\ StreamTurns
  BY <1>1 DEF MessageTurns, StreamTurns, Unbegun, CanStart
<1>10. QED
  BY <1>5, <1>6, <1>7, <1>8, <1>9 DEF LiveInv

LEMMA LiveInvNext ==
    ASSUME LiveInv, [Next]_vars
    PROVE  LiveInv'
<1>1. ASSUME NEW r \in Attempt, Handle(r) PROVE LiveInv'
  BY <1>1, RejectStep, AcceptStep, LoadMessageStep, LoadStreamStep, CommitAcceptanceStep,
     PrepareStep, BeginStep, StartTurnStep, EndTurnStep, StoreMessageStep, FinalizeStep,
     CommitFinalStep DEF Handle
<1>2. ASSUME NEW r \in Attempt, Stream(r) PROVE LiveInv'
  BY <1>2, TaskRegisterStep, TaskStartStep, TaskEndStep, SseStartStep, SseEndStep DEF Stream
<1>3. ASSUME NEW r \in Attempt, Lease(r) PROVE LiveInv'
  BY <1>3, AnswerStep, AcquireStep DEF Lease
<1>4. CASE UNCHANGED vars
  <2>1. UNCHANGED <<route, refusal, journal, record, assistant, writer, pc, fin, task, event, token,
                    cancelled, cancel, cancels, stalls, dbErrors, turns, cancelAcked>>
    BY <1>4 DEF vars
  <2>2. TypeOK' /\ CancelsReach'
    BY <2>1, KeepCancels DEF LiveInv, TypeOK
  <2>3. QED
    BY <2>1, <2>2, CancelKeeps
<1>5. QED
  BY <1>1, <1>2, <1>3, <1>4, DieStep, TaskDiesStep, CancelBeginStep, CancelWriteStep,
     CancelSignalStep DEF Next

\* The inductive invariant holds in every state that the attempts reach.
THEOREM LiveInvariant == Spec => []LiveInv
<1>1. Init => LiveInv
  BY LiveInvInit
<1>2. LiveInv /\ [Next]_vars => LiveInv'
  BY LiveInvNext
<1>3. QED
  BY <1>1, <1>2, PTL DEF Spec

-----------------------------------------------------------------------------
(***************************************************************************)
(* Results.                                                                 *)
(***************************************************************************)

\* Turns are started by send_message after its checks and by the task of a stream.
LEMMA WhoStartsTurns ==
    ASSUME Next, turns' # turns
    PROVE  \E r \in Attempt : StartTurn(r) \/ TaskStart(r)
<1>1. \A r \in Attempt : Handle(r) => turns' = turns \/ StartTurn(r)
  BY DEF Handle, Reject, Accept, LoadMessage, LoadStream, CommitAcceptance, Prepare, Begin,
         EndTurn, StoreMessage, Finalize, CommitFinal
<1>2. \A r \in Attempt : Stream(r) => turns' = turns \/ TaskStart(r)
  BY DEF Stream, TaskRegister, TaskEnd, SseStart, SseEnd
<1>3. \A r \in Attempt : Lease(r) \/ Die(r) \/ TaskDies(r) => turns' = turns
  BY DEF Lease, Answer, Acquire, Die, TaskDies
<1>4. CancelBegin \/ CancelWrite \/ CancelSignal => turns' = turns
  BY DEF CancelBegin, CancelWrite, CancelSignal
<1>5. QED
  BY <1>1, <1>2, <1>3, <1>4 DEF Next

\* Whoever writes the record finds it active.
LEMMA WhoWritesRecords ==
    ASSUME Next, record' # record
    PROVE  record.status \in Active \cup {"absent"}
<1>1. \A r \in Attempt : Handle(r) => record' = record \/ record.status \in Active \cup {"absent"}
  BY DEF Handle, Reject, Accept, LoadMessage, LoadStream, CommitAcceptance, Prepare, Begin,
         StartTurn, EndTurn, StoreMessage, Finalize, CommitFinal, BeginFrom, TransitionsFrom, Active
<1>2. \A r \in Attempt : Stream(r) => record' = record \/ record.status \in Active
  BY DEF Stream, TaskRegister, TaskStart, TaskEnd, SseStart, SseEnd, StreamStatus, TransitionsFrom
<1>3. \A r \in Attempt : Lease(r) \/ Die(r) \/ TaskDies(r) => record' = record
  BY DEF Lease, Answer, Acquire, Die, TaskDies
<1>4. CancelBegin \/ CancelWrite \/ CancelSignal => record' = record \/ record.status \in Active
  BY DEF CancelBegin, CancelWrite, CancelSignal, CancelFrom, Active
<1>5. QED
  BY <1>1, <1>2, <1>3, <1>4 DEF Next

(* The rows, the tokens and the labels of the handlers stay in range; in    *)
(* particular an execution is begun once (begin_execution_attempt raises    *)
(* the record's attempt from 0 to 1, never further).                        *)
THEOREM LiveTypeCorrect == Spec => []TypeOK
<1>1. LiveInv => TypeOK
  BY DEF LiveInv
<1>2. QED
  BY <1>1, LiveInvariant, PTL

(* However many retries of a request there are, its turn runs at most once, *)
(* and once more for each lease that a living send_message loses before it  *)
(* has begun; on agent_chat_stream it runs at most once.                    *)
THEOREM TurnsAreBounded == Spec => []OneTurn
<1>1. ASSUME LiveInv PROVE OneTurn
  <2>1. turns \in Nat /\ stalls \in Nat /\ route \in {"message", "stream"}
    BY <1>1 DEF LiveInv, TypeOK
  <2>2. CASE route = "stream"
    BY <1>1, <2>2 DEF LiveInv, StreamTurns, OneTurn
  <2>3. CASE route = "message"
    <3>1. Cardinality(MayStart) \in Nat
      BY <1>1, MayStartCount DEF LiveInv
    <3>2. turns <= 1 + stalls
      BY <1>1, <2>1, <2>3, <3>1 DEF LiveInv, MessageTurns
    <3>3. QED
      BY <2>3, <3>2 DEF OneTurn
  <2>4. QED
    BY <2>1, <2>2, <2>3
<1>2. LiveInv => OneTurn
  BY <1>1
<1>3. QED
  BY <1>2, LiveInvariant, PTL

(* What the journal replays for a key agrees with the execution's record,   *)
(* whichever attempts finalized the one and committed the other, and        *)
(* whichever died between the two writes.                                   *)
THEOREM AnswersAgree == Spec => []AnswerIsRecorded
<1>1. LiveInv => AnswerIsRecorded
  BY DEF LiveInv
<1>2. QED
  BY <1>1, LiveInvariant, PTL

(* Once cancel_live_execution has answered for a message, no attempt starts *)
(* a turn: one that may begin has registered its token, and a token that    *)
(* another attempt replaces is cancelled.                                   *)
THEOREM CancelledStaysCancelled == Spec => CancelHolds
<1>1. ASSUME LiveInv, [Next]_vars, route = "message", cancelAcked
      PROVE  turns' = turns
  <2>1. CASE UNCHANGED vars
    BY <2>1 DEF vars
  <2>2. CASE Next
    <3> SUFFICES ASSUME turns' # turns PROVE FALSE
      OBVIOUS
    <3>1. PICK r \in Attempt : StartTurn(r) \/ TaskStart(r)
      BY <2>2, WhoStartsTurns
    <3>2. CASE TaskStart(r)
      BY <1>1, <3>2, TaskOfStream DEF TaskStart
    <3>3. CASE StartTurn(r)
      <4>1. pc[r] = "check" /\ r \notin cancelled
        BY <3>3 DEF StartTurn
      <4>2. QED
        BY <1>1, <4>1 DEF LiveInv, CancelsReach
    <3>4. QED
      BY <3>1, <3>2, <3>3
  <2>3. QED
    BY <1>1, <2>1, <2>2
<1>2. LiveInv /\ [Next]_vars => [(route = "message" /\ cancelAcked) => turns' = turns]_vars
  BY <1>1
<1>3. QED
  BY <1>2, LiveInvariant, PTL DEF Spec, CancelHolds

(* A record that is completed or cancelled is never written again: every    *)
(* writer compares the status it finds before it writes (finalize,          *)
(* begin_execution_attempt, update_agent_stream_execution_state and         *)
(* cancel_live_execution), with the writer connection in hand.              *)
THEOREM TerminalRecordsStay == Spec => TerminalIsFinal
<1>1. ASSUME [Next]_vars, record.status \in {"completed", "cancelled"}
      PROVE  record' = record
  <2>1. CASE UNCHANGED vars
    BY <2>1 DEF vars
  <2>2. CASE Next
    BY <1>1, <2>2, WhoWritesRecords DEF Active
  <2>3. QED
    BY <1>1, <2>1, <2>2
<1>2. [Next]_vars => [(record.status \in {"completed", "cancelled"}) => record' = record]_vars
  BY <1>1
<1>3. QED
  BY <1>2, PTL DEF Spec, TerminalIsFinal
==============================================================================
