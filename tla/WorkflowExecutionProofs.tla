----------------------- MODULE WorkflowExecutionProofs -----------------------
(***************************************************************************)
(* WorkflowExecution for every workflow and every number of attempts and of  *)
(* failing statements: a step with effects runs at most once, no run goes     *)
(* unrecorded, the row is true, and the answer is its outcome.                *)
(***************************************************************************)
EXTENDS WorkflowExecution, TLAPS

Driving == {"drive", "step", "record"}
Recorded == {"completed", "failed"}
Unsafe == Node \ RetrySafe

\* An execution state as a driver leaves it: the active step is the next one, and
\* the nodes before it, and only those, have a status.
Shaped(s) ==
    /\ s.active_step \in {0, s.next_step_index}
    /\ \A n \in Node : s.node_states[n] # "none" <=> n < s.next_step_index

\* An execution state that says what happened, where c counts the runs.
SaysWhatRan(s, c) ==
    /\ \A n \in Node : s.node_states[n] \in Recorded =>
           c[n] > 0 /\ \A p \in Pred[n] : s.node_states[p] = "completed"
    /\ s.final_status = "completed" => \A n \in Node : s.node_states[n] = "completed"
    /\ \A n \in Unsafe : c[n] > 0 => s.active_step = n \/ s.node_states[n] \in Recorded
    /\ \A n \in Unsafe : c[n] <= 1

Rows == \A e \in Attempt : Shaped(row[e].state) /\ SaysWhatRan(row[e].state, ran[e])

\* What attempts and resumes name is there; what is not there has not begun.
Bindings ==
    /\ \A r \in Attempt :
          /\ pc[r] \in {"new", "bind"} => row[r].owner_token = None
          /\ pc[r] = "bind" /\ KeyOf[r] \in ResumeKey => target[KeyOf[r]] # None
          /\ pc[r] \in Driving \union {"respond"} =>
                exec[r] # None /\ row[exec[r]].owner_token # None
          /\ row[r].owner_token = None => row[r].state = NewState
    /\ \A k \in Key : target[k] # None => row[target[k]].owner_token # None

\* The owner of an execution has the row's state in hand, and nobody drives an
\* execution that had ended when he read it.
Copies ==
    \A r \in Attempt : pc[r] \in Driving =>
        /\ mem[r].final_status = "none"
        /\ Owned(r) => mem[r] = row[exec[r]].state

\* A driver that runs step n, or is about to record it.
InStep(r) ==
    /\ mem[r].active_step = mem[r].next_step_index
    /\ PredecessorsCompleted(mem[r])
    /\ pc[r] = "record" => ran[exec[r]][mem[r].next_step_index] > 0

\* A driver before an unsafe step: the step has not run, the row has it as the
\* active one even if the row was taken over, and no other driver is before it.
BeforeUnsafe(r) ==
    /\ ran[exec[r]][mem[r].active_step] = 0
    /\ row[exec[r]].state.active_step = mem[r].active_step
    /\ \A q \in Attempt \ {r} :
          pc[q] = "step" /\ exec[q] = exec[r] => mem[q].active_step # mem[r].active_step

Stepping ==
    \A r \in Attempt :
        /\ pc[r] \in {"step", "record"} => InStep(r)
        /\ pc[r] = "step" /\ mem[r].active_step \notin RetrySafe => BeforeUnsafe(r)

\* The rows that an earlier version left have no outcome, its attempts are over, and
\* nobody drives what this version cannot read.
Unread ==
    /\ \A e \in Legacy : pc[e] = "over" /\ row[e].state.final_status = "none"
    /\ \A r \in Attempt : pc[r] \in Driving => exec[r] \notin Legacy

\* The outcome that an execution is answered with.
Outcome(e) == IF e \in Legacy THEN "recovery_required" ELSE row[e].state.final_status

\* What is answered, or about to be, is an outcome, and that of the row.
Answers ==
    /\ \A r \in Attempt : pc[r] = "respond" =>
          /\ mem[r].final_status # "none"
          /\ Outcome(exec[r]) = mem[r].final_status
    /\ \A k \in Key : journal[k].status = "committed" =>
          /\ journal[k].execution # None /\ journal[k].response # "none"
          /\ Outcome(journal[k].execution) = journal[k].response

WorkflowInv == TypeOK /\ Rows /\ Bindings /\ Copies /\ Stepping /\ Unread /\ Answers

------------------------------------------------------------------------------
LEMMA NodeFacts ==
  /\ Steps \in Nat /\ Steps # 0 /\ 0 \notin Node
  /\ \A n \in Node : n \in Nat
  BY GraphAssumption DEF Node

LEMMA NewStateFacts ==
  /\ NewState \in State /\ NewState.final_status = "none" /\ NewState.active_step = 0
  /\ Shaped(NewState)
  <1>1. /\ NewState.next_step_index = 1 /\ NewState.active_step = 0
        /\ NewState.node_states = [n \in Node |-> "none"] /\ NewState.final_status = "none"
    BY DEF NewState
  <1>2. 1 \in 1..(Steps + 1) /\ 0 \in 0..Steps
    BY NodeFacts
  <1>3. NewState \in State
    BY <1>2 DEF State, NewState, NodeStatus, Final
  <1>4. \A n \in Node : ~(n < 1)
    BY DEF Node
  <1> QED
    BY <1>1, <1>3, <1>4 DEF Shaped

\* The fields of the state that a driver writes when it is done with a node.
LEMMA AdvancedFacts ==
  ASSUME NEW s \in State, s.next_step_index \in Node, NEW status \in NodeStatus
  PROVE  /\ Advanced(s, status) \in State
         /\ Advanced(s, status).next_step_index = s.next_step_index + 1
         /\ Advanced(s, status).active_step = 0
         /\ Advanced(s, status).final_status = s.final_status
         /\ \A n \in Node : Advanced(s, status).node_states[n] =
                IF n = s.next_step_index THEN status ELSE s.node_states[n]
  <1>1. /\ s.next_step_index + 1 \in 1..(Steps + 1)
        /\ s.node_states \in [Node -> NodeStatus]
        /\ s.final_status \in Final /\ 0 \in 0..Steps
    BY NodeFacts DEF State, Node
  <1>2. [s.node_states EXCEPT ![s.next_step_index] = status] \in [Node -> NodeStatus]
    BY <1>1
  <1> QED
    BY <1>1, <1>2 DEF Advanced, State

------------------------------------------------------------------------------
\* What a driver writes: the row and the copy of its owner, or nothing.
LEMMA PersistType ==
  ASSUME TypeOK, NEW r \in Attempt, exec[r] \in Attempt, NEW s \in State,
         NEW label \in {"drive", "step", "respond"}, Persist(r, s, label)
  PROVE  TypeOK'
  <1>1. CASE Owned(r)
    <2>1. [row[exec[r]] EXCEPT !.state = s] \in Row
      BY DEF TypeOK, Row
    <2>2. row' \in [Attempt -> Row]
      BY <1>1, <2>1 DEF Persist, TypeOK
    <2> QED
      BY <1>1, <2>2 DEF Persist, Goto, TypeOK
  <1>2. CASE ~Owned(r)
    BY <1>2 DEF Persist, Goto, TypeOK
  <1> QED
    BY <1>1, <1>2

LEMMA InitWorkflowInv == Init => WorkflowInv
  <1> SUFFICES ASSUME Init PROVE WorkflowInv
    OBVIOUS
  <1>0. PICK left \in SUBSET Legacy :
          /\ row = [e \in Attempt |-> IF e \in left THEN Left(e) ELSE NoRow]
          /\ journal = [k \in Key |-> IF \E e \in left : KeyOf[e] = k
                                      THEN [NoJournalRow EXCEPT !.status = "in_progress"]
                                      ELSE NoJournalRow]
    BY DEF Init
  <1>r. /\ target = [k \in Key |-> None] /\ exec = [r \in Attempt |-> None]
        /\ pc = [r \in Attempt |-> IF r \in Legacy THEN "over" ELSE "new"]
        /\ mem = [r \in Attempt |-> NewState] /\ ran = [e \in Attempt |-> [n \in Node |-> 0]]
        /\ dbErrors = 0 /\ left \subseteq Legacy /\ Legacy \subseteq Attempt
    BY <1>0, LegacyAssumption DEF Init
  <1>1. TypeOK
    <2>1. /\ NoJournalRow \in JournalRow
          /\ [NoJournalRow EXCEPT !.status = "in_progress"] \in JournalRow
      BY DEF NoJournalRow, JournalRow, Final
    <2>2. NoRow \in Row
      BY NewStateFacts DEF NoRow, Row
    <2>3. \A e \in Attempt : Left(e) \in Row
      BY NewStateFacts, AttemptAssumption DEF Left, Row
    <2>4. 0 \in 0..MaxDbErrors
      BY MaxDbErrorsAssumption
    <2> QED
      BY <1>0, <1>r, <2>1, <2>2, <2>3, <2>4, NewStateFacts DEF TypeOK
  <1>2. /\ \A e \in Attempt : row[e].state = NewState
        /\ \A e \in Attempt \ Legacy : row[e].owner_token = None
        /\ \A e \in Attempt : pc[e] \in {"new", "over"} /\ (pc[e] = "new" => e \notin Legacy)
        /\ \A k \in Key : journal[k].status # "committed"
    BY <1>0, <1>r DEF NoRow, Left, NoJournalRow
  <1>3. Rows
    <2>1. \A n \in Node : NewState.node_states[n] = "none" /\ n # 0
      BY NodeFacts DEF NewState
    <2> QED
      BY <1>r, <1>2, <2>1, NewStateFacts, NodeFacts DEF Rows, SaysWhatRan, Recorded, Unsafe
  <1>4. Bindings
    BY <1>r, <1>2 DEF Bindings, Driving
  <1>5. Copies /\ Stepping
    BY <1>2 DEF Copies, Stepping, Driving
  <1>6. Unread
    BY <1>r, <1>2, NewStateFacts DEF Unread, Driving
  <1>7. Answers
    BY <1>2 DEF Answers
  <1> QED
    BY <1>1, <1>3, <1>4, <1>5, <1>6, <1>7 DEF WorkflowInv

\* A step that leaves every execution state, and what has run, as they were, takes
\* nothing that exists away, and moves one attempt: the rows and the other
\* attempts keep what the invariant says of them.
LEMMA OthersKeep ==
  ASSUME WorkflowInv, NEW r \in Attempt, ran' = ran,
         \A e \in Attempt : /\ row'[e].state = row[e].state
                            /\ row[e].owner_token # None => row'[e].owner_token # None,
         \A q \in Attempt \ {r} : pc'[q] = pc[q] /\ exec'[q] = exec[q] /\ mem'[q] = mem[q],
         pc'[r] \notin {"step", "record"}
  PROVE  Rows' /\ Stepping'
  <1> USE DEF WorkflowInv
  <1>1. Rows'
    BY DEF Rows
  <1>2. Stepping'
    <2> SUFFICES ASSUME NEW q \in Attempt, pc'[q] \in {"step", "record"}
                 PROVE  /\ InStep(q)'
                        /\ pc'[q] = "step" /\ mem'[q].active_step \notin RetrySafe => BeforeUnsafe(q)'
      BY DEF Stepping
    <2>1. q # r /\ pc'[q] = pc[q] /\ exec'[q] = exec[q] /\ mem'[q] = mem[q]
      OBVIOUS
    <2>2. exec[q] \in Attempt
      BY <2>1 DEF Bindings, Driving, TypeOK
    <2>3. InStep(q)'
      BY <2>1 DEF Stepping, InStep, PredecessorsCompleted
    <2>4. ASSUME pc'[q] = "step", mem'[q].active_step \notin RetrySafe
          PROVE  BeforeUnsafe(q)'
      BY <2>1, <2>2, <2>4 DEF Stepping, BeforeUnsafe
    <2> QED
      BY <2>3, <2>4
  <1> QED
    BY <1>1, <1>2

\* An attempt that leaves, or gives up, takes nothing with it.
LEMMA LeavingStep ==
  ASSUME WorkflowInv, NEW r \in Attempt, UNCHANGED <<row, target, ran>>,
         pc'[r] \in {"over", "error"}, pc'[r] = "over" \/ pc[r] # "over",
         \A q \in Attempt \ {r} : pc'[q] = pc[q] /\ exec'[q] = exec[q] /\ mem'[q] = mem[q]
  PROVE  Rows' /\ Bindings' /\ Copies' /\ Stepping' /\ Unread'
  <1> USE DEF WorkflowInv
  <1>1. Rows' /\ Stepping'
    BY OthersKeep
  <1>2. Bindings'
    BY DEF Bindings, Driving
  <1>3. Copies'
    BY DEF Copies, Driving, Owned
  <1>4. Unread'
    BY LegacyAssumption DEF Unread, Driving
  <1> QED
    BY <1>1, <1>2, <1>3, <1>4

LEMMA AcquireStep ==
  ASSUME WorkflowInv, NEW r \in Attempt, Acquire(r)
  PROVE  WorkflowInv'
  <1> USE DEF WorkflowInv
  <1> DEFINE k == KeyOf[r]
  <1>0. k \in Key /\ None \notin Attempt
    BY AttemptAssumption
  <1>1. \A j \in Key : /\ journal'[j] = IF j = k THEN [journal[k] EXCEPT !.status = "in_progress",
                                                                        !.owner_token = r]
                                        ELSE journal[j]
    BY <1>0 DEF Acquire, TypeOK
  <1>2. [journal[k] EXCEPT !.status = "in_progress", !.owner_token = r] \in JournalRow
    BY <1>0 DEF TypeOK, JournalRow
  <1>3. /\ target' \in [Key -> Attempt \union {None}]
        /\ \A j \in Key : target'[j] # None => row[target'[j]].owner_token # None
        /\ \A j \in Key : target[j] # None => target'[j] # None
        /\ k \in ResumeKey => target'[k] # None
    <2>1. CASE k \in ResumeKey /\ target[k] = None
      <3>1. PICK e \in Attempt : row[e].owner_token # None /\ target' = [target EXCEPT ![k] = e]
        BY <2>1 DEF Acquire, Execution
      <3> QED
        BY <1>0, <3>1 DEF TypeOK, Bindings
    <2>2. CASE ~(k \in ResumeKey /\ target[k] = None)
      BY <2>2 DEF Acquire, TypeOK, Bindings
    <2> QED
      BY <2>1, <2>2
  <1>4. TypeOK'
    <2>1. journal' \in [Key -> JournalRow]
      BY <1>0, <1>2 DEF Acquire, TypeOK
    <2> QED
      BY <1>3, <2>1 DEF Acquire, Goto, TypeOK
  <1>5. Rows' /\ Stepping'
    BY OthersKeep DEF Acquire, Goto, TypeOK
  <1>6. Bindings'
    <2>1. /\ row' = row /\ exec' = exec /\ pc[r] = "new" /\ pc'[r] = "bind"
          /\ \A q \in Attempt : KeyOf[q] \in Key
          /\ \A q \in Attempt \ {r} : pc'[q] = pc[q]
      BY AttemptAssumption DEF Acquire, Goto, TypeOK
    <2> HIDE DEF k
    <2>2. k = KeyOf[r]
      BY DEF k
    <2> QED
      BY <1>3, <2>1, <2>2 DEF Bindings, Driving
  <1>7. Copies'
    BY DEF Acquire, Goto, Copies, Driving, Owned, TypeOK
  <1>8. Answers'
    <2>1. \A j \in Key : journal'[j].status = "committed" => journal'[j] = journal[j]
      BY <1>1, <1>2 DEF JournalRow
    <2> QED
      BY <2>1 DEF Acquire, Goto, Answers, Outcome, TypeOK
  <1>9. Unread'
    BY LegacyAssumption DEF Acquire, Goto, Unread, Driving, TypeOK
  <1> QED
    BY <1>4, <1>5, <1>6, <1>7, <1>8, <1>9

\* An attempt takes an execution over, or answers from it.
LEMMA BindStep ==
  ASSUME WorkflowInv, NEW r \in Attempt, pc[r] = "bind", NEW e \in Attempt,
         row[e].owner_token # None, Bind(r, e), UNCHANGED <<journal, target, ran, dbErrors>>
  PROVE  WorkflowInv'
  <1> USE DEF WorkflowInv
  <1>0. KeyOf[r] \in Key /\ None \notin Attempt /\ e # r
    BY AttemptAssumption DEF Bindings
  <1> DEFINE d == [row[e] EXCEPT !.journal_id = KeyOf[r], !.owner_token = r]
  <1>1. d \in Row /\ d.state = row[e].state /\ d.owner_token = r
    BY <1>0 DEF TypeOK, Row
  <1>2. row' = [row EXCEPT ![e] = d]
    BY DEF Bind, Rebound
  <1>3. /\ row' \in [Attempt -> Row] /\ row'[e].owner_token = r
        /\ \A x \in Attempt : /\ row'[x].state = row[x].state
                              /\ x # e => row'[x] = row[x]
    BY <1>1, <1>2 DEF TypeOK
  <1>4. /\ exec' = [exec EXCEPT ![r] = e]
        /\ mem' = [mem EXCEPT ![r] = Loaded(e)]
        /\ pc' = [pc EXCEPT ![r] = IF Loaded(e).final_status # "none" THEN "respond" ELSE "drive"]
    BY DEF Bind, Goto
  <1>l. /\ Loaded(e) \in State /\ Loaded(e).final_status = Outcome(e)
        /\ e \in Legacy => Loaded(e).final_status # "none"
        /\ e \notin Legacy => Loaded(e) = row[e].state
    <2>1. row[e].state \in State
      BY DEF TypeOK, Row
    <2>2. [NewState EXCEPT !.final_status = "recovery_required"] \in State
      BY NewStateFacts DEF State, Final
    <2> QED
      BY <2>1, <2>2, NewStateFacts DEF Loaded, Outcome, State
  <1> HIDE DEF d
  <1>5. TypeOK'
    BY <1>3, <1>4, <1>l DEF TypeOK
  <1>6. Rows' /\ Stepping'
    BY <1>0, <1>3, <1>4, OthersKeep DEF TypeOK
  <1>7. Bindings'
    <2>1. /\ target' = target /\ pc'[r] \in {"respond", "drive"} /\ exec'[r] = e
          /\ \A q \in Attempt \ {r} : pc'[q] = pc[q] /\ exec'[q] = exec[q]
      BY <1>4 DEF TypeOK
    <2>2. \A x \in Attempt : row[x].owner_token # None => row'[x].owner_token # None
      BY <1>0, <1>3
    <2>3. \A x \in Attempt \ {e} : row'[x] = row[x]
      BY <1>3
    <2>4. \A q \in Attempt \ {r} : pc[q] \in Driving \union {"respond"} => exec[q] \in Attempt
      BY DEF TypeOK, Bindings
    <2>5. \A k \in Key : target[k] # None => target[k] \in Attempt
      BY DEF TypeOK
    <2>6. \A q \in Attempt : pc[q] \in {"new", "bind"} => q # e
      BY DEF Bindings
    <2> QED
      BY <1>0, <1>3, <2>1, <2>2, <2>3, <2>4, <2>5, <2>6 DEF Bindings, Driving
  <1>8. Copies'
    <2> SUFFICES ASSUME NEW q \in Attempt, pc'[q] \in Driving
                 PROVE  /\ mem'[q].final_status = "none"
                        /\ Owned(q)' => mem'[q] = row'[exec'[q]].state
      BY DEF Copies
    <2>1. CASE q = r
      BY <2>1, <1>3, <1>4, <1>l DEF TypeOK, Driving
    <2>2. CASE q # r
      <3>1. /\ pc'[q] = pc[q] /\ exec'[q] = exec[q] /\ mem'[q] = mem[q] /\ exec[q] \in Attempt
        BY <2>2, <1>4 DEF TypeOK, Bindings, Driving
      <3>2. Owned(q)' => Owned(q)
        BY <3>1, <2>2, <1>3 DEF Owned
      <3> QED
        BY <3>1, <3>2, <1>3 DEF Copies
    <2> QED
      BY <2>1, <2>2
  <1>9. Answers'
    <2>0. \A x \in Attempt : Outcome(x)' = Outcome(x)
      BY <1>3 DEF Outcome
    <2>1. \A k \in Key : journal[k].status = "committed" => journal[k].execution \in Attempt
      BY DEF Answers, TypeOK, JournalRow
    <2>2. \A k \in Key : journal'[k].status = "committed" =>
             /\ journal'[k].execution # None /\ journal'[k].response # "none"
             /\ Outcome(journal[k].execution)' = journal'[k].response
      BY <2>0, <2>1 DEF Answers
    <2>3. ASSUME NEW q \in Attempt, pc'[q] = "respond"
          PROVE  /\ mem'[q].final_status # "none"
                 /\ Outcome(exec[q])' = mem'[q].final_status
      <3>1. CASE q = r
        BY <3>1, <2>3, <2>0, <1>4, <1>l DEF TypeOK
      <3>2. CASE q # r
        BY <3>2, <2>3, <2>0, <1>4 DEF TypeOK, Bindings, Answers
      <3> QED
        BY <3>1, <3>2
    <2> QED
      BY <2>2, <2>3 DEF Answers
  <1>10. Unread'
    BY <1>3, <1>4, <1>l, LegacyAssumption DEF Unread, Driving, TypeOK
  <1> QED
    BY <1>5, <1>6, <1>7, <1>8, <1>9, <1>10

\* An attempt inserts its execution.
LEMMA InsertStep ==
  ASSUME WorkflowInv, NEW r \in Attempt, pc[r] = "bind",
         row' = [row EXCEPT ![r] = [journal_id |-> KeyOf[r], owner_token |-> r, state |-> NewState]],
         exec' = [exec EXCEPT ![r] = r], mem' = [mem EXCEPT ![r] = NewState], Goto(r, "drive"),
         UNCHANGED <<journal, target, ran, dbErrors>>
  PROVE  WorkflowInv'
  <1> USE DEF WorkflowInv
  <1>0. KeyOf[r] \in Key /\ None \notin Attempt /\ row[r].state = NewState
        /\ row[r].owner_token = None
    BY AttemptAssumption DEF Bindings
  <1>1. [journal_id |-> KeyOf[r], owner_token |-> r, state |-> NewState] \in Row
    BY <1>0, NewStateFacts DEF Row
  <1>2. /\ row' \in [Attempt -> Row] /\ row'[r].owner_token = r
        /\ \A x \in Attempt : /\ row'[x].state = row[x].state
                              /\ x # r => row'[x] = row[x]
    BY <1>0, <1>1 DEF TypeOK
  <1>3. TypeOK'
    BY <1>2, NewStateFacts DEF TypeOK, Goto
  <1>4. Rows' /\ Stepping'
    BY <1>0, <1>2, OthersKeep DEF TypeOK, Goto
  <1>5. Bindings'
    BY <1>0, <1>2 DEF Bindings, Driving, TypeOK, Goto
  <1>6. Copies'
    <2> SUFFICES ASSUME NEW q \in Attempt, pc'[q] \in Driving
                 PROVE  /\ mem'[q].final_status = "none"
                        /\ Owned(q)' => mem'[q] = row'[exec'[q]].state
      BY DEF Copies
    <2>1. CASE q = r
      BY <2>1, <1>0, <1>2, NewStateFacts DEF TypeOK
    <2>2. CASE q # r
      BY <2>2, <1>0, <1>2 DEF Goto, TypeOK, Bindings, Driving, Copies, Owned
    <2> QED
      BY <2>1, <2>2
  <1>7. Answers'
    BY <1>0, <1>2 DEF Answers, Outcome, TypeOK, JournalRow, Bindings, Driving, Goto
  <1>8. Unread'
    BY <1>2, LegacyAssumption DEF Unread, Driving, Goto, TypeOK
  <1> QED
    BY <1>3, <1>4, <1>5, <1>6, <1>7, <1>8

\* A driver goes from drive or record to the next state s, if it owns the row.  What
\* s must satisfy: it has the shape, says what ran, keeps an unsafe step active
\* until it has run, and fits the place where the driver goes on.
LEMMA PersistStep ==
  ASSUME WorkflowInv, NEW r \in Attempt, pc[r] \in {"drive", "record"}, NEW s \in State,
         NEW label \in {"drive", "step", "respond"}, Persist(r, s, label),
         (Shaped(s) /\ SaysWhatRan(s, ran[exec[r]])) \/ ~Owned(r),
         \A n \in Unsafe : mem[r].active_step = n => s.active_step = n \/ ran[exec[r]][n] > 0 \/ ~Owned(r),
         s.final_status = "none" <=> label # "respond",
         label = "step" => /\ mem[r].active_step = 0 /\ s.active_step = s.next_step_index
                           /\ s.active_step \in Node /\ PredecessorsCompleted(s)
                           /\ \/ s.active_step \in RetrySafe
                              \/ ran[exec[r]][s.active_step] = 0
                              \/ ~Owned(r)
  PROVE  WorkflowInv'
  <1> USE DEF WorkflowInv
  <1> DEFINE e == exec[r]
  <1>0. e \in Attempt /\ row[e].owner_token # None
    BY DEF Bindings, Driving, TypeOK
  <1>t. TypeOK'
    BY <1>0, PersistType
  <1>u. UNCHANGED <<journal, target, exec, ran, dbErrors>>
    BY DEF Persist
  <1>1. CASE ~Owned(r)
    <2>1. row' = row /\ mem' = mem /\ pc' = [pc EXCEPT ![r] = "error"]
      BY <1>1 DEF Persist, Goto
    <2>2. /\ UNCHANGED <<row, target, ran>> /\ pc'[r] \in {"over", "error"}
          /\ \A q \in Attempt \ {r} : pc'[q] = pc[q] /\ exec'[q] = exec[q] /\ mem'[q] = mem[q]
      BY <2>1, <1>u DEF TypeOK
    <2>4. Rows' /\ Bindings' /\ Copies' /\ Stepping' /\ Unread'
      BY <2>2, LeavingStep
    <2>3. Answers'
      BY <2>1, <1>u DEF Answers, Outcome, TypeOK
    <2> QED
      BY <1>t, <2>3, <2>4
  <1>2. CASE Owned(r)
    <2> DEFINE t == row[e].state
    <2>1. t = mem[r] /\ t.final_status = "none" /\ t \in State
      BY <1>0, <1>2 DEF Copies, Driving, TypeOK, Row
    <2>2. /\ row' = [row EXCEPT ![e].state = s]
          /\ mem' = [mem EXCEPT ![r] = s] /\ pc' = [pc EXCEPT ![r] = label]
      BY <1>2 DEF Persist, Goto
    <2>3. /\ row'[e].state = s
          /\ \A x \in Attempt : /\ row'[x].journal_id = row[x].journal_id
                                /\ row'[x].owner_token = row[x].owner_token
                                /\ x # e => row'[x] = row[x]
      BY <1>0, <2>2 DEF TypeOK, Row
    <2>4. /\ mem'[r] = s /\ pc'[r] = label
          /\ \A q \in Attempt \ {r} : pc'[q] = pc[q] /\ mem'[q] = mem[q]
      BY <2>2 DEF TypeOK
    <2>5. Rows'
      BY <1>0, <1>2, <1>u, <2>3 DEF Rows
    <2>6. Bindings'
      <3>1. \A x \in Attempt : row[x].owner_token = None => x # e
        BY <1>0
      <3>2. \A q \in Attempt : pc[q] \in Driving \union {"respond"} => exec[q] \in Attempt
        BY DEF Bindings, TypeOK
      <3>3. \A k \in Key : target[k] # None => target[k] \in Attempt
        BY DEF TypeOK
      <3> QED
        BY <3>1, <3>2, <3>3, <1>u, <2>3, <2>4 DEF Bindings, Driving
    <2>7. Copies'
      <3> SUFFICES ASSUME NEW q \in Attempt, pc'[q] \in Driving
                   PROVE  /\ mem'[q].final_status = "none"
                          /\ Owned(q)' => mem'[q] = row'[exec'[q]].state
        BY DEF Copies
      <3>1. CASE q = r
        BY <3>1, <1>u, <2>3, <2>4 DEF Driving
      <3>2. CASE q # r
        <4>1. exec[q] \in Attempt /\ pc[q] \in Driving
          BY <3>2, <2>4 DEF Bindings, TypeOK
        <4>2. Owned(q)' => Owned(q) /\ exec[q] # e
          BY <4>1, <3>2, <1>u, <1>2, <2>3 DEF Owned
        <4> QED
          BY <4>1, <4>2, <3>2, <1>u, <2>3, <2>4 DEF Copies
      <3> QED
        BY <3>1, <3>2
    <2>8. ASSUME NEW q \in Attempt \ {r}, pc[q] = "step", mem[q].active_step \notin RetrySafe
          PROVE  BeforeUnsafe(q)'
      <3>1. exec[q] \in Attempt /\ mem[q] \in State
        BY <2>8 DEF Bindings, Driving, TypeOK
      <3>2. BeforeUnsafe(q) /\ InStep(q)
        BY <2>8 DEF Stepping
      <3>3. mem[q].active_step \in Unsafe
        BY <3>1, <3>2, <2>8, NodeFacts DEF InStep, State, Unsafe, Node
      <3>4. exec[q] = e => t.active_step = mem[q].active_step /\ ran[e][mem[q].active_step] = 0
        BY <3>2 DEF BeforeUnsafe
      <3>5. exec[q] = e => s.active_step = mem[q].active_step /\ label # "step"
        BY <3>3, <3>4, <2>1, <1>2, NodeFacts DEF Unsafe
      <3>6. row'[exec[q]].state.active_step = mem[q].active_step
        BY <3>1, <3>2, <3>5, <2>3 DEF BeforeUnsafe
      <3>7. ASSUME NEW p \in Attempt \ {q}, pc'[p] = "step", exec[p] = exec[q]
            PROVE  mem'[p].active_step # mem[q].active_step
        <4>1. p # r
          BY <3>5, <3>7, <2>4
        <4> QED
          BY <4>1, <3>2, <3>7, <2>4 DEF BeforeUnsafe
      <3> QED
        BY <3>2, <3>6, <3>7, <1>u, <2>4 DEF BeforeUnsafe
    <2>9. ASSUME label = "step", s.active_step \notin RetrySafe
          PROVE  BeforeUnsafe(r)'
      <3>1. ran[e][s.active_step] = 0 /\ t.active_step = 0 /\ s.active_step # 0
        BY <2>9, <2>1, <1>2, NodeFacts
      <3>2. ASSUME NEW q \in Attempt \ {r}, pc[q] = "step", exec[q] = e,
                   mem[q].active_step = s.active_step
            PROVE  FALSE
        <4>1. BeforeUnsafe(q)
          BY <3>2, <2>9 DEF Stepping
        <4> QED
          BY <4>1, <3>1, <3>2 DEF BeforeUnsafe
      <3> QED
        BY <3>1, <3>2, <1>u, <2>3, <2>4 DEF BeforeUnsafe
    <2>10. Stepping'
      <3>1. ASSUME NEW q \in Attempt \ {r}, pc'[q] \in {"step", "record"} PROVE InStep(q)'
        BY <3>1, <1>u, <2>4 DEF Stepping, InStep, PredecessorsCompleted
      <3>2. ASSUME pc'[r] \in {"step", "record"} PROVE InStep(r)'
        BY <3>2, <1>u, <2>4 DEF InStep, PredecessorsCompleted
      <3> QED
        BY <3>1, <3>2, <2>4, <2>8, <2>9 DEF Stepping
    <2>n. e \notin Legacy
      BY DEF Unread, Driving
    <2>o. Outcome(e) = "none" /\ Outcome(e)' = s.final_status
          /\ \A x \in Attempt \ {e} : Outcome(x)' = Outcome(x)
      BY <1>0, <1>u, <2>1, <2>3, <2>n DEF Outcome
    <2>11. Answers'
      <3>1. \A k \in Key : journal[k].status = "committed" =>
               journal[k].execution \in Attempt /\ journal[k].execution # e
        BY <2>o DEF Answers, TypeOK, JournalRow
      <3>2. \A q \in Attempt \ {r} : pc[q] = "respond" => exec[q] \in Attempt /\ exec[q] # e
        BY <2>o DEF Answers, TypeOK, Bindings
      <3>3. \A k \in Key : journal'[k].status = "committed" =>
               /\ journal'[k].execution # None /\ journal'[k].response # "none"
               /\ Outcome(journal[k].execution)' = journal'[k].response
        BY <3>1, <1>u, <2>o DEF Answers
      <3>4. ASSUME NEW q \in Attempt, pc'[q] = "respond"
            PROVE  /\ mem'[q].final_status # "none"
                   /\ Outcome(exec[q])' = mem'[q].final_status
        <4>1. CASE q = r
          BY <4>1, <3>4, <1>u, <2>o, <2>4
        <4>2. CASE q # r
          BY <4>2, <3>2, <3>4, <1>u, <2>o, <2>4 DEF Answers
        <4> QED
          BY <4>1, <4>2
      <3> QED
        BY <3>3, <3>4 DEF Answers
    <2>12. Unread'
      BY <1>u, <2>3, <2>4, <2>n, LegacyAssumption DEF Unread, Driving
    <2> QED
      BY <1>t, <2>5, <2>6, <2>7, <2>10, <2>11, <2>12
  <1> QED
    BY <1>1, <1>2

\* What the owner knows when it drives on.
LEMMA OwnerKnows ==
  ASSUME WorkflowInv, NEW r \in Attempt, pc[r] \in Driving
  PROVE  /\ exec[r] \in Attempt /\ mem[r] \in State /\ mem[r].final_status = "none"
         /\ Owned(r) => Shaped(mem[r]) /\ SaysWhatRan(mem[r], ran[exec[r]])
         /\ ran[exec[r]] \in [Node -> Nat]
  <1> USE DEF WorkflowInv
  <1>1. exec[r] \in Attempt
    BY DEF Bindings, TypeOK
  <1> QED
    BY <1>1 DEF TypeOK, Copies, Rows

\* Advancing past a node keeps the shape, and says what ran if the status does.
LEMMA AdvancedSays ==
  ASSUME NEW s \in State, NEW c \in [Node -> Nat], Shaped(s), SaysWhatRan(s, c),
         s.next_step_index \in Node, s.final_status = "none",
         NEW status \in NodeStatus, status # "none",
         status \in Recorded => c[s.next_step_index] > 0 /\ PredecessorsCompleted(s),
         status \in Recorded \/ s.active_step = 0
  PROVE  Shaped(Advanced(s, status)) /\ SaysWhatRan(Advanced(s, status), c)
  <1> DEFINE m == s.next_step_index
             t == Advanced(s, status)
  <1>1. /\ t.next_step_index = m + 1 /\ t.active_step = 0 /\ t.final_status = "none"
        /\ \A n \in Node : t.node_states[n] = IF n = m THEN status ELSE s.node_states[n]
    BY AdvancedFacts
  <1>2. s.node_states[m] = "none" /\ m \in Nat /\ \A n \in Node : n \in Nat
    BY NodeFacts DEF Shaped
  <1> HIDE DEF t
  <1>3. Shaped(t)
    BY <1>1, <1>2 DEF Shaped
  <1>4. \A n \in Node : t.node_states[n] \in Recorded =>
           c[n] > 0 /\ \A p \in Pred[n] : t.node_states[p] = "completed"
    <2> SUFFICES ASSUME NEW n \in Node, t.node_states[n] \in Recorded
                 PROVE  c[n] > 0 /\ \A p \in Pred[n] : t.node_states[p] = "completed"
      OBVIOUS
    <2>1. \A p \in Pred[n] : p \in Node /\ p # n
      BY <1>2, GraphAssumption
    <2>2. CASE n = m
      BY <2>1, <2>2, <1>1 DEF PredecessorsCompleted
    <2>3. CASE n # m
      <3>1. c[n] > 0 /\ \A p \in Pred[n] : s.node_states[p] = "completed"
        BY <2>3, <1>1 DEF SaysWhatRan
      <3> QED
        BY <3>1, <2>1, <1>1, <1>2
    <2> QED
      BY <2>2, <2>3
  <1>5. \A n \in Unsafe : c[n] > 0 => t.active_step = n \/ t.node_states[n] \in Recorded
    <2> SUFFICES ASSUME NEW n \in Unsafe, c[n] > 0 PROVE t.node_states[n] \in Recorded
      OBVIOUS
    <2>1. n \in Node /\ n # 0 /\ (s.active_step = n \/ s.node_states[n] \in Recorded)
      BY NodeFacts DEF SaysWhatRan, Unsafe
    <2>2. CASE s.active_step = n
      <3>1. n = m /\ status \in Recorded
        BY <2>1, <2>2 DEF Shaped
      <3> QED
        BY <3>1, <2>1, <1>1
    <2>3. CASE s.node_states[n] \in Recorded
      BY <2>1, <2>3, <1>1, <1>2 DEF Recorded
    <2> QED
      BY <2>1, <2>2, <2>3
  <1>6. \A n \in Unsafe : c[n] <= 1
    BY DEF SaysWhatRan
  <1>7. SaysWhatRan(t, c)
    BY <1>1, <1>4, <1>5, <1>6 DEF SaysWhatRan
  <1> QED
    BY <1>3, <1>7 DEF t

\* A state that differs only in its active step and in its final status.
LEMMA SameNodesSay ==
  ASSUME NEW s \in State, NEW c \in [Node -> Nat], Shaped(s), SaysWhatRan(s, c), NEW t \in State,
         t.node_states = s.node_states, t.next_step_index = s.next_step_index,
         t.active_step \in {0, s.next_step_index},
         t.final_status = "completed" => \A n \in Node : s.node_states[n] = "completed",
         \A n \in Unsafe : s.active_step = n => t.active_step = n
  PROVE  Shaped(t) /\ SaysWhatRan(t, c)
  BY DEF Shaped, SaysWhatRan

\* A state with its active step made the next one again.
LEMMA RewoundFacts ==
  ASSUME NEW s \in State, s.active_step # 0,
         NEW t, t = [s EXCEPT !.next_step_index = s.active_step, !.active_step = 0]
  PROVE  /\ t \in State /\ t.final_status = s.final_status /\ t.active_step = 0
         /\ t.next_step_index = s.active_step /\ t.node_states = s.node_states
  <1>1. /\ s.active_step \in 1..(Steps + 1) /\ 0 \in 0..Steps
        /\ s.node_states \in [Node -> NodeStatus] /\ s.final_status \in Final
    BY NodeFacts DEF State
  <1> QED
    BY <1>1 DEF State

\* A driver finds a step in progress.
LEMMA RewindStep ==
  ASSUME WorkflowInv, NEW r \in Attempt, Rewind(r)
  PROVE  WorkflowInv'
  <1> DEFINE m == mem[r]
             s == [m EXCEPT !.next_step_index = m.active_step, !.active_step = 0]
  <1>1. /\ pc[r] = "drive" /\ m.active_step # 0 /\ m.active_step \in RetrySafe
        /\ Persist(r, s, "drive")
    BY DEF Rewind, MayRerun
  <1>2. /\ m \in State /\ m.final_status = "none" /\ ran[exec[r]] \in [Node -> Nat]
        /\ Owned(r) => Shaped(m) /\ SaysWhatRan(m, ran[exec[r]])
    BY <1>1, OwnerKnows DEF Driving
  <1>4. /\ s \in State /\ s.final_status = "none" /\ s.active_step = 0
        /\ s.next_step_index = m.active_step /\ s.node_states = m.node_states
    BY <1>1, <1>2, RewoundFacts
  <1> HIDE DEF s
  <1>5. Owned(r) => Shaped(s) /\ SaysWhatRan(s, ran[exec[r]])
    <2>1. Owned(r) => m.active_step = m.next_step_index
      BY <1>1, <1>2 DEF Shaped
    <2>2. \A n \in Unsafe : m.active_step # n
      BY <1>1 DEF Unsafe
    <2> QED
      BY <1>2, <1>4, <2>1, <2>2, SameNodesSay
  <1> QED
    BY <1>1, <1>4, <1>5, PersistStep DEF Unsafe

LEMMA GiveUpStep ==
  ASSUME WorkflowInv, NEW r \in Attempt, GiveUp(r)
  PROVE  WorkflowInv'
  <1> DEFINE m == mem[r]
             s == [m EXCEPT !.final_status = "recovery_required"]
  <1>1. pc[r] = "drive" /\ Persist(r, s, "respond")
    BY DEF GiveUp
  <1>2. /\ m \in State /\ ran[exec[r]] \in [Node -> Nat]
        /\ Owned(r) => Shaped(m) /\ SaysWhatRan(m, ran[exec[r]])
    BY <1>1, OwnerKnows DEF Driving
  <1>3. /\ s \in State /\ s.final_status = "recovery_required" /\ s.active_step = m.active_step
        /\ s.next_step_index = m.next_step_index /\ s.node_states = m.node_states
    BY <1>2 DEF State, Final
  <1> HIDE DEF s
  <1>4. Owned(r) => Shaped(s) /\ SaysWhatRan(s, ran[exec[r]])
    <2>1. Owned(r) => s.active_step \in {0, m.next_step_index}
      BY <1>2, <1>3 DEF Shaped
    <2> QED
      BY <1>2, <1>3, <2>1, SameNodesSay
  <1> QED
    BY <1>1, <1>3, <1>4, PersistStep

LEMMA EndExecutionStep ==
  ASSUME WorkflowInv, NEW r \in Attempt, EndExecution(r)
  PROVE  WorkflowInv'
  <1> DEFINE m == mem[r]
             f == IF \E n \in Node : m.node_states[n] \in {"failed", "skipped"}
                  THEN "failed" ELSE "completed"
             s == [m EXCEPT !.final_status = f]
  <1>1. pc[r] = "drive" /\ m.active_step = 0 /\ m.next_step_index > Steps /\ Persist(r, s, "respond")
    BY DEF EndExecution
  <1>2. /\ m \in State /\ ran[exec[r]] \in [Node -> Nat]
        /\ Owned(r) => Shaped(m) /\ SaysWhatRan(m, ran[exec[r]])
    BY <1>1, OwnerKnows DEF Driving
  <1>3. f \in {"failed", "completed"}
    OBVIOUS
  <1>4. Owned(r) /\ f = "completed" => \A n \in Node : m.node_states[n] = "completed"
    <2> SUFFICES ASSUME Owned(r), f = "completed", NEW n \in Node
                 PROVE  m.node_states[n] = "completed"
      OBVIOUS
    <2>1. n < m.next_step_index
      BY <1>1, <1>2, NodeFacts DEF Node, State
    <2>2. m.node_states[n] # "none"
      BY <1>2, <2>1 DEF Shaped
    <2>3. m.node_states[n] \in NodeStatus
      BY <1>2 DEF State
    <2> QED
      BY <2>2, <2>3 DEF NodeStatus
  <1> HIDE DEF f
  <1>5. /\ s \in State /\ s.final_status = f /\ s.active_step = m.active_step
        /\ s.next_step_index = m.next_step_index /\ s.node_states = m.node_states
    BY <1>2, <1>3 DEF State, Final
  <1> HIDE DEF s
  <1>6. Owned(r) => Shaped(s) /\ SaysWhatRan(s, ran[exec[r]])
    <2>1. Owned(r) => s.active_step \in {0, m.next_step_index}
      BY <1>2, <1>5 DEF Shaped
    <2> QED
      BY <1>2, <1>4, <1>5, <2>1, SameNodesSay
  <1> QED
    BY <1>1, <1>3, <1>5, <1>6, PersistStep

LEMMA SkipStep ==
  ASSUME WorkflowInv, NEW r \in Attempt, Skip(r)
  PROVE  WorkflowInv'
  <1> DEFINE m == mem[r]
             s == Advanced(m, "skipped")
  <1>1. /\ pc[r] = "drive" /\ m.active_step = 0 /\ m.next_step_index <= Steps
        /\ Persist(r, s, "drive")
    BY DEF Skip, Ready
  <1>2. /\ m \in State /\ ran[exec[r]] \in [Node -> Nat] /\ m.final_status = "none"
        /\ Owned(r) => Shaped(m) /\ SaysWhatRan(m, ran[exec[r]])
    BY <1>1, OwnerKnows DEF Driving
  <1>3. m.next_step_index \in Node /\ "skipped" \in NodeStatus /\ "skipped" \notin Recorded
    BY <1>1, <1>2, NodeFacts DEF State, Node, NodeStatus, Recorded
  <1>4. s \in State /\ s.final_status = "none"
    BY <1>2, <1>3, AdvancedFacts
  <1>5. Owned(r) => Shaped(s) /\ SaysWhatRan(s, ran[exec[r]])
    BY <1>1, <1>2, <1>3, AdvancedSays
  <1> HIDE DEF s
  <1>6. \A n \in Unsafe : m.active_step # n
    BY <1>1, NodeFacts DEF Unsafe
  <1> QED
    BY <1>1, <1>4, <1>5, <1>6, PersistStep

LEMMA RecordStepStep ==
  ASSUME WorkflowInv, NEW r \in Attempt, NEW status \in Recorded, RecordStep(r, status)
  PROVE  WorkflowInv'
  <1> DEFINE m == mem[r]
             s == Advanced(m, status)
  <1>1. pc[r] = "record" /\ Persist(r, s, "drive") /\ status \in NodeStatus /\ status # "none"
    BY DEF RecordStep, Recorded, NodeStatus
  <1>2. /\ m \in State /\ ran[exec[r]] \in [Node -> Nat] /\ m.final_status = "none"
        /\ Owned(r) => Shaped(m) /\ SaysWhatRan(m, ran[exec[r]])
    BY <1>1, OwnerKnows DEF Driving
  <1>3. /\ m.active_step = m.next_step_index /\ PredecessorsCompleted(m)
        /\ ran[exec[r]][m.next_step_index] > 0
    BY <1>1 DEF WorkflowInv, Stepping, InStep
  <1>4. m.next_step_index \in Node
    BY <1>2, <1>3, NodeFacts DEF State, Node
  <1>5. s \in State /\ s.final_status = "none"
    BY <1>1, <1>2, <1>4, AdvancedFacts
  <1>6. Owned(r) => Shaped(s) /\ SaysWhatRan(s, ran[exec[r]])
    BY <1>1, <1>2, <1>3, <1>4, AdvancedSays
  <1> HIDE DEF s
  <1>7. \A n \in Unsafe : m.active_step = n => ran[exec[r]][n] > 0
    BY <1>3
  <1> QED
    BY <1>1, <1>5, <1>6, <1>7, PersistStep

\* The step becomes active: it has not run, for it is the next one and none was active.
LEMMA StartStepStep ==
  ASSUME WorkflowInv, NEW r \in Attempt, StartStep(r)
  PROVE  WorkflowInv'
  <1> DEFINE m == mem[r]
             s == Activated(m)
  <1>1. /\ pc[r] = "drive" /\ m.active_step = 0 /\ m.next_step_index <= Steps
        /\ PredecessorsCompleted(m) /\ Persist(r, s, "step")
    BY DEF StartStep, Ready
  <1>2. /\ m \in State /\ ran[exec[r]] \in [Node -> Nat] /\ m.final_status = "none"
        /\ Owned(r) => Shaped(m) /\ SaysWhatRan(m, ran[exec[r]])
    BY <1>1, OwnerKnows DEF Driving
  <1>3. m.next_step_index \in Node /\ m.next_step_index \in 0..Steps
    BY <1>1, <1>2, NodeFacts DEF State, Node
  <1>4. /\ s \in State /\ s.final_status = "none" /\ s.active_step = m.next_step_index
        /\ s.next_step_index = m.next_step_index /\ s.node_states = m.node_states
    BY <1>2, <1>3 DEF Activated, State
  <1> HIDE DEF s
  <1>5. PredecessorsCompleted(s)
    BY <1>1, <1>4 DEF PredecessorsCompleted
  <1>6. \A n \in Unsafe : m.active_step # n
    BY <1>1, NodeFacts DEF Unsafe
  <1>7. Owned(r) => Shaped(s) /\ SaysWhatRan(s, ran[exec[r]])
    BY <1>2, <1>4, <1>6, SameNodesSay
  <1>8. Owned(r) /\ s.active_step \notin RetrySafe => ran[exec[r]][s.active_step] = 0
    <2> SUFFICES ASSUME Owned(r), s.active_step \notin RetrySafe
                 PROVE  ran[exec[r]][s.active_step] = 0
      OBVIOUS
    <2>1. s.active_step \in Unsafe
      BY <1>3, <1>4 DEF Unsafe
    <2>2. m.node_states[s.active_step] = "none"
      BY <1>2, <1>3, <1>4, NodeFacts DEF Shaped
    <2>3. ~(ran[exec[r]][s.active_step] > 0)
      BY <1>2, <1>6, <2>1, <2>2 DEF SaysWhatRan, Recorded
    <2> QED
      BY <1>2, <1>3, <1>4, <2>3
  <1> QED
    BY <1>1, <1>3, <1>4, <1>5, <1>6, <1>7, <1>8, PersistStep

\* The step runs.  Only here does anything run, and an unsafe step had not.
LEMMA RunStepStep ==
  ASSUME WorkflowInv, NEW r \in Attempt, RunStep(r)
  PROVE  WorkflowInv'
  <1> USE DEF WorkflowInv
  <1> DEFINE e == exec[r]
             m == mem[r].next_step_index
  <1>1. /\ pc[r] = "step" /\ UNCHANGED <<journal, row, target, exec, mem, dbErrors>>
        /\ pc' = [pc EXCEPT ![r] = "record"]
        /\ ran' = [ran EXCEPT ![e][m] = ran[e][m] + 1]
    BY DEF RunStep, Goto
  <1>2. e \in Attempt /\ mem[r] \in State /\ ran[e] \in [Node -> Nat]
    BY <1>1, OwnerKnows DEF Driving
  <1>3. InStep(r) /\ (mem[r].active_step \notin RetrySafe => BeforeUnsafe(r))
    BY <1>1 DEF Stepping
  <1>4. mem[r].active_step = m /\ m \in Node
    BY <1>2, <1>3, NodeFacts DEF InStep, State, Node
  <1>5. /\ pc'[r] = "record" /\ \A q \in Attempt \ {r} : pc'[q] = pc[q]
        /\ \A x \in Attempt \ {e} : ran'[x] = ran[x]
        /\ ran'[e] \in [Node -> Nat] /\ ran'[e][m] = ran[e][m] + 1
        /\ \A n \in Node \ {m} : ran'[e][n] = ran[e][n]
    BY <1>1, <1>2, <1>4 DEF TypeOK
  <1>6. TypeOK'
    BY <1>1, <1>2, <1>4 DEF TypeOK
  <1>7. Rows'
    <2>1. ASSUME NEW n \in Unsafe, ran'[e][n] > 0
          PROVE  row[e].state.active_step = n \/ row[e].state.node_states[n] \in Recorded
      <3>1. CASE n = m
        BY <3>1, <1>3, <1>4 DEF BeforeUnsafe, Unsafe
      <3>2. CASE n # m
        BY <3>2, <2>1, <1>2, <1>5 DEF Rows, SaysWhatRan, Unsafe
      <3> QED
        BY <3>1, <3>2
    <2>2. \A n \in Unsafe : ran'[e][n] <= 1
      <3> SUFFICES ASSUME NEW n \in Unsafe PROVE ran'[e][n] <= 1
        OBVIOUS
      <3>1. CASE n = m
        <4>1. ran[e][m] = 0
          BY <3>1, <1>3, <1>4 DEF BeforeUnsafe, Unsafe
        <4> QED
          BY <3>1, <4>1, <1>5
      <3>2. CASE n # m
        BY <3>2, <1>2, <1>5 DEF Rows, SaysWhatRan, Unsafe
      <3> QED
        BY <3>1, <3>2
    <2>3. \A n \in Node : ran[e][n] > 0 => ran'[e][n] > 0
      BY <1>2, <1>5
    <2>4. Shaped(row[e].state) /\ SaysWhatRan(row[e].state, ran'[e])
      BY <1>2, <2>1, <2>2, <2>3 DEF Rows, SaysWhatRan
    <2> QED
      BY <1>1, <1>5, <2>4 DEF Rows
  <1>8. Bindings'
    BY <1>1, <1>5 DEF Bindings, Driving
  <1>9. Copies'
    BY <1>1, <1>5 DEF Copies, Driving, Owned
  <1>10. Stepping'
    <2>1. ASSUME NEW q \in Attempt, pc'[q] \in {"step", "record"} PROVE InStep(q)'
      <3>1. CASE q = r
        BY <3>1, <1>1, <1>2, <1>3, <1>4, <1>5 DEF InStep, PredecessorsCompleted
      <3>2. CASE q # r
        <4>1. InStep(q) /\ pc'[q] = pc[q] /\ exec[q] \in Attempt /\ mem[q] \in State
          BY <3>2, <2>1, <1>5, OwnerKnows DEF Stepping, Driving
        <4>2. mem[q].next_step_index \in Node
          BY <4>1, NodeFacts DEF InStep, State, Node
        <4>3. ran[exec[q]] \in [Node -> Nat]
          BY <4>1 DEF TypeOK
        <4>4. ran[exec[q]][mem[q].next_step_index] > 0 =>
                 ran'[exec[q]][mem[q].next_step_index] > 0
          BY <4>1, <4>2, <4>3, <1>2, <1>5
        <4> QED
          BY <4>1, <4>4, <1>1 DEF InStep, PredecessorsCompleted
      <3> QED
        BY <3>1, <3>2
    <2>2. ASSUME NEW q \in Attempt, pc'[q] = "step", mem[q].active_step \notin RetrySafe
          PROVE  BeforeUnsafe(q)'
      <3>1. /\ q # r /\ pc[q] = "step" /\ BeforeUnsafe(q) /\ InStep(q)
            /\ exec[q] \in Attempt /\ mem[q] \in State
        BY <2>2, <1>5, OwnerKnows DEF Stepping, Driving
      <3>2. mem[q].active_step \in Node
        BY <3>1, NodeFacts DEF InStep, State, Node
      <3>3. exec[q] = e => mem[q].active_step # m
        BY <3>1, <1>1, <1>4 DEF BeforeUnsafe
      <3>4. ran'[exec[q]][mem[q].active_step] = 0
        BY <3>1, <3>2, <3>3, <1>5 DEF BeforeUnsafe
      <3> QED
        BY <3>1, <3>4, <1>1, <1>5 DEF BeforeUnsafe
    <2> QED
      BY <2>1, <2>2, <1>1 DEF Stepping
  <1>11. Answers'
    BY <1>1, <1>5 DEF Answers, Outcome
  <1>12. Unread'
    BY <1>1, <1>5, LegacyAssumption DEF Unread, Driving
  <1> QED
    BY <1>6, <1>7, <1>8, <1>9, <1>10, <1>11, <1>12

\* An attempt that leaves without touching the journal.
LEMMA LeaveStep ==
  ASSUME WorkflowInv, NEW r \in Attempt, Leave(r), UNCHANGED <<row, target, ran>>
  PROVE  /\ Rows' /\ Bindings' /\ Copies' /\ Stepping' /\ Unread'
         /\ pc' = [pc EXCEPT ![r] = "over"] /\ pc'[r] = "over"
         /\ \A q \in Attempt \ {r} : pc'[q] = pc[q] /\ exec'[q] = exec[q] /\ mem'[q] = mem[q]
         /\ exec' \in [Attempt -> Attempt \union {None}] /\ mem' \in [Attempt -> State]
  <1>1. /\ pc' = [pc EXCEPT ![r] = "over"] /\ pc'[r] = "over"
        /\ \A q \in Attempt \ {r} : pc'[q] = pc[q] /\ exec'[q] = exec[q] /\ mem'[q] = mem[q]
        /\ exec' \in [Attempt -> Attempt \union {None}] /\ mem' \in [Attempt -> State]
    BY NewStateFacts DEF Leave, Goto, WorkflowInv, TypeOK
  <1>2. Rows' /\ Bindings' /\ Copies' /\ Stepping' /\ Unread'
    BY <1>1, LeavingStep
  <1> QED
    BY <1>1, <1>2

LEMMA QuietLeaveStep ==
  ASSUME WorkflowInv, NEW r \in Attempt, Leave(r), UNCHANGED <<row, target, ran, journal>>,
         dbErrors' \in 0..MaxDbErrors
  PROVE  WorkflowInv'
  <1>1. TypeOK'
    BY LeaveStep DEF WorkflowInv, TypeOK
  <1>2. Answers'
    BY LeaveStep DEF WorkflowInv, Answers, Outcome
  <1> QED
    BY <1>1, <1>2, LeaveStep DEF WorkflowInv

LEMMA CommitStep ==
  ASSUME WorkflowInv, NEW r \in Attempt, Commit(r)
  PROVE  WorkflowInv'
  <1> USE DEF WorkflowInv
  <1> DEFINE k == KeyOf[r]
             c == [journal[k] EXCEPT !.status = "committed", !.execution = exec[r],
                                     !.response = mem[r].final_status]
  <1>0. k \in Key /\ pc[r] = "respond" /\ exec[r] \in Attempt /\ None \notin Attempt
    BY AttemptAssumption DEF Commit, Bindings, TypeOK
  <1>1. UNCHANGED <<row, target, ran, dbErrors>> /\ Leave(r)
    BY DEF Commit
  <1>2. c \in JournalRow /\ c.execution = exec[r] /\ c.response = mem[r].final_status
    <2>1. mem[r].final_status \in Final
      BY DEF TypeOK, State
    <2> QED
      BY <1>0, <2>1 DEF TypeOK, JournalRow
  <1>3. journal' \in {journal, [journal EXCEPT ![k] = c]}
    BY DEF Commit
  <1> HIDE DEF c
  <1>4. /\ journal' \in [Key -> JournalRow]
        /\ \A j \in Key : journal'[j] = journal[j] \/ journal'[j] = c
    BY <1>0, <1>2, <1>3 DEF TypeOK
  <1>5. TypeOK'
    BY <1>1, <1>4, LeaveStep DEF TypeOK
  <1>6. /\ c.execution # None /\ c.response # "none"
        /\ Outcome(c.execution) = c.response
    BY <1>0, <1>2 DEF Answers
  <1>7. \A j \in Key : journal'[j].status = "committed" =>
           /\ journal'[j].execution # None /\ journal'[j].response # "none"
           /\ Outcome(journal'[j].execution) = journal'[j].response
    BY <1>4, <1>6 DEF Answers
  <1>8. Answers'
    BY <1>1, <1>7, LeaveStep DEF Answers, Outcome
  <1> QED
    BY <1>1, <1>5, <1>8, LeaveStep

LEMMA AbortStep ==
  ASSUME WorkflowInv, NEW r \in Attempt, Abort(r)
  PROVE  WorkflowInv'
  <1> USE DEF WorkflowInv
  <1> DEFINE k == KeyOf[r]
             c == [journal[k] EXCEPT !.status = "aborted"]
  <1>0. k \in Key
    BY AttemptAssumption
  <1>1. UNCHANGED <<row, target, ran, dbErrors>> /\ Leave(r)
    BY DEF Abort
  <1>2. c \in JournalRow /\ c.status = "aborted"
    BY <1>0 DEF TypeOK, JournalRow
  <1>3. journal' \in {journal, [journal EXCEPT ![k] = c]}
    BY DEF Abort
  <1> HIDE DEF c
  <1>4. /\ journal' \in [Key -> JournalRow]
        /\ \A j \in Key : journal'[j] = journal[j] \/ journal'[j] = c
    BY <1>0, <1>2, <1>3 DEF TypeOK
  <1>5. TypeOK'
    BY <1>1, <1>4, LeaveStep DEF TypeOK
  <1>6. \A j \in Key : journal'[j].status = "committed" => journal'[j] = journal[j]
    BY <1>2, <1>4
  <1>7. Answers'
    BY <1>1, <1>6, LeaveStep DEF Answers, Outcome
  <1> QED
    BY <1>1, <1>5, <1>7, LeaveStep

LEMMA DatabaseFailsStep ==
  ASSUME WorkflowInv, NEW r \in Attempt, DatabaseFails(r)
  PROVE  WorkflowInv'
  <1> USE DEF WorkflowInv
  <1>1. dbErrors' \in 0..MaxDbErrors
    BY MaxDbErrorsAssumption DEF DatabaseFails, TypeOK
  <1>2. CASE pc[r] \in {"respond", "error"}
    BY <1>1, <1>2, QuietLeaveStep DEF DatabaseFails
  <1>3. CASE pc[r] \notin {"respond", "error"}
    <2>1. UNCHANGED <<row, target, ran, journal, exec, mem>> /\ pc' = [pc EXCEPT ![r] = "error"]
      BY <1>3 DEF DatabaseFails, Goto
    <2>2. pc'[r] = "error" /\ \A q \in Attempt \ {r} : pc'[q] = pc[q]
      BY <2>1 DEF TypeOK
    <2>3. Rows' /\ Bindings' /\ Copies' /\ Stepping' /\ Unread'
      BY <2>1, <2>2, LeavingStep DEF DatabaseFails
    <2>4. TypeOK'
      BY <1>1, <2>1 DEF TypeOK
    <2>5. Answers'
      BY <2>1, <2>2 DEF Answers, Outcome
    <2> QED
      BY <2>3, <2>4, <2>5
  <1> QED
    BY <1>2, <1>3

LEMMA BindExecuteStep ==
  ASSUME WorkflowInv, NEW r \in Attempt, BindExecute(r)
  PROVE  WorkflowInv'
  <1>1. ASSUME NEW e \in Bound(KeyOf[r]), Bind(r, e) PROVE WorkflowInv'
    BY <1>1, BindStep DEF BindExecute, Bound, Execution
  <1>2. ASSUME Bound(KeyOf[r]) = {},
               row' = [row EXCEPT ![r] = [journal_id |-> KeyOf[r], owner_token |-> r,
                                          state |-> NewState]],
               exec' = [exec EXCEPT ![r] = r], mem' = [mem EXCEPT ![r] = NewState],
               Goto(r, "drive")
        PROVE  WorkflowInv'
    BY <1>2, InsertStep DEF BindExecute
  <1> QED
    BY <1>1, <1>2 DEF BindExecute

LEMMA BindResumeStep ==
  ASSUME WorkflowInv, NEW r \in Attempt, BindResume(r)
  PROVE  WorkflowInv'
  <1> DEFINE e == target[KeyOf[r]]
  <1>1. /\ pc[r] = "bind" /\ KeyOf[r] \in ResumeKey /\ Bind(r, e)
        /\ UNCHANGED <<journal, target, ran, dbErrors>> /\ KeyOf[r] \in Key
    BY AttemptAssumption DEF BindResume
  <1>2. e \in Attempt /\ row[e].owner_token # None
    BY <1>1 DEF WorkflowInv, Bindings, TypeOK
  <1> QED
    BY <1>1, <1>2, BindStep

LEMMA NextWorkflowInv == WorkflowInv /\ [Next]_vars => WorkflowInv'
  <1> SUFFICES ASSUME WorkflowInv, [Next]_vars PROVE WorkflowInv'
    OBVIOUS
  <1>0. dbErrors \in 0..MaxDbErrors
    BY DEF WorkflowInv, TypeOK
  <1>1. ASSUME NEW r \in Attempt, Replay(r) \/ Refuse(r) \/ Die(r) PROVE WorkflowInv'
    BY <1>0, <1>1, QuietLeaveStep DEF Replay, Refuse, Die
  <1>2. ASSUME NEW r \in Attempt, Drive(r) PROVE WorkflowInv'
    BY <1>2, RewindStep, GiveUpStep, SkipStep, StartStepStep, RunStepStep, EndExecutionStep,
       RecordStepStep DEF Drive, Recorded
  <1>3. CASE UNCHANGED vars
    <2>1. /\ journal' = journal /\ row' = row /\ target' = target /\ pc' = pc /\ exec' = exec
          /\ mem' = mem /\ ran' = ran /\ dbErrors' = dbErrors
      BY <1>3 DEF vars
    <2>2. TypeOK' /\ Rows' /\ Bindings'
      BY <2>1 DEF WorkflowInv, TypeOK, Rows, Bindings
    <2>3. Copies' /\ Unread' /\ Answers'
      BY <2>1 DEF WorkflowInv, Copies, Owned, Unread, Answers, Outcome
    <2>4. Stepping'
      BY <2>1 DEF WorkflowInv, Stepping, InStep, PredecessorsCompleted, BeforeUnsafe
    <2> QED
      BY <2>2, <2>3, <2>4 DEF WorkflowInv
  <1> QED
    BY <1>1, <1>2, <1>3, AcquireStep, CommitStep, AbortStep, BindExecuteStep, BindResumeStep,
       DatabaseFailsStep DEF Next

LEMMA WorkflowInvariant == Spec => []WorkflowInv
  BY InitWorkflowInv, NextWorkflowInv, PTL DEF Spec

------------------------------------------------------------------------------
\* Rows, copies and counters keep their types (TypeOK).
THEOREM WorkflowTypeCorrect == Spec => []TypeOK
  <1>1. WorkflowInv => TypeOK
    BY DEF WorkflowInv
  <1> QED
    BY <1>1, WorkflowInvariant, PTL

\* A node that is not retry-safe runs at most once in an execution, for every
\* workflow and any number of retries, resumes and takeovers.
THEOREM WorkflowUnsafeStepOnce == Spec => []UnsafeStepOnce
  <1>1. WorkflowInv => UnsafeStepOnce
    BY DEF WorkflowInv, Rows, SaysWhatRan, UnsafeStepOnce, Unsafe
  <1> QED
    BY <1>1, WorkflowInvariant, PTL

\* A node that is not retry-safe and has run is recorded, or the active step.
THEOREM WorkflowNoSilentRun == Spec => []NoSilentRun
  <1>1. WorkflowInv => NoSilentRun
    BY DEF WorkflowInv, Rows, SaysWhatRan, NoSilentRun, Unsafe, Recorded
  <1> QED
    BY <1>1, WorkflowInvariant, PTL

\* What the execution row says happened, happened.
THEOREM WorkflowRecordIsTrue == Spec => []RecordIsTrue
  <1>1. WorkflowInv => RecordIsTrue
    BY DEF WorkflowInv, Rows, SaysWhatRan, RecordIsTrue, Recorded
  <1> QED
    BY <1>1, WorkflowInvariant, PTL

\* The response that the journal replays is, and stays, the outcome in the row; of a
\* row that this version cannot read it is recovery_required, and the row has none.
THEOREM WorkflowAnswerIsOutcome == Spec => []AnswerIsOutcome
  <1>1. WorkflowInv => AnswerIsOutcome
    <2> SUFFICES ASSUME WorkflowInv, NEW k \in Key, journal[k].status = "committed"
                 PROVE  LET e == journal[k].execution
                            outcome == row[e].state.final_status
                        IN IF e \in Legacy
                           THEN journal[k].response = "recovery_required" /\ outcome = "none"
                           ELSE journal[k].response = outcome /\ outcome # "none"
      BY DEF AnswerIsOutcome
    <2> QED
      BY DEF WorkflowInv, Answers, Outcome, Unread
  <1> QED
    BY <1>1, WorkflowInvariant, PTL
==============================================================================
