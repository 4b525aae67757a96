----------------------------- MODULE LiveExecution -----------------------------
(***************************************************************************)
(* Live executions: an agent's turn run on behalf of a chat request, with a  *)
(* durable record of how far it got (ghost-gateway/src/api/                  *)
(* studio_sessions.rs, agent_chat.rs, live_executions.rs, over                *)
(* cortex-storage's live_execution_records).                                 *)
(*                                                                         *)
(* Two routes share the record, the cancellation tokens and the cancel        *)
(* endpoint.  "message" (send_message) leases the operation journal for the  *)
(* whole turn and commits the answer at its end.  "stream"                   *)
(* (agent_chat_stream) commits an acceptance first; a task then runs the      *)
(* turn, and the response body, an event stream that ends when the client     *)
(* goes, writes what the task sends.                                         *)
(*                                                                         *)
(* The attempts are HTTP requests with one idempotency key, so that there is  *)
(* one journal row and at most one record.  The journal is kept as far as     *)
(* these handlers see it (OperationJournal has its leases and its clock).     *)
(***************************************************************************)
EXTENDS Naturals

CONSTANTS Attempt, None,
          MaxCancels,   \* bound: requests to cancel
          MaxStalls,    \* bound: leases lost by a handler that is still alive
          MaxDbErrors   \* bound: failing inserts of the assistant's message

ASSUME AttemptAssumption == None \notin Attempt
ASSUME BoundsAssumption == MaxCancels \in Nat /\ MaxStalls \in Nat /\ MaxDbErrors \in Nat

VARIABLES route,
          refusal,     \* why the message cannot be answered: its inspection blocks it,
                       \* or no provider is configured
          journal,     \* operation_journal: the row of the key
          record,      \* live_execution_records: the row of the execution
          assistant,   \* whether the assistant's message is in studio_chat_messages
          writer,      \* who keeps the writer connection between two steps
          pc,
          fin,         \* what a handler is about to make final
          task,        \* the spawned task of a streaming attempt
          event,       \* the terminal event in its channel
          token,       \* live_execution_controls: whose token is registered
          cancelled,   \* the attempts whose token is cancelled
          cancel,      \* the cancel request being handled
          cancels, stalls, dbErrors,
          turns,       \* history: turns started
          cancelAcked  \* history: a cancel request has been answered as accepted

vars == <<route, refusal, journal, record, assistant, writer, pc, fin, task, event, token, cancelled,
          cancel, cancels, stalls, dbErrors, turns, cancelAcked>>

\* EXECUTION_ACTIVE_STATUSES; "preparing" is never written.
Active == {"accepted", "running", "recovery_required", "cancel_requested"}
Status == Active \union {"absent", "completed", "cancelled"}
Response == {"none", "accepted", "completed", "rejected", "recovery", "cancelled"}

Outcome == [status : Status, response : Response]
NoOutcome == [status |-> "absent", response |-> "none"]

TypeOK ==
    /\ route \in {"message", "stream"} /\ refusal \in {"none", "inspection", "providers"}
    /\ journal \in [status : {"absent", "in_progress", "committed", "aborted"},
                    owner_token : Attempt \union {None}, response : Response]
    /\ record \in [status : Status, attempt : 0..1, response : Response]
    /\ assistant \in BOOLEAN
    /\ writer \in Attempt \union {None}
    /\ pc \in [Attempt -> {"new", "load", "accept", "prepare", "begin", "check", "turn",
                           "store", "stuck", "finalize", "commit", "sse", "wait", "over"}]
    /\ fin \in [Attempt -> Outcome]
    /\ task \in [Attempt -> {"none", "spawned", "check", "turn", "over"}]
    /\ event \in [Attempt -> {"none", "completed", "recovery_required", "cancelled"}]
    /\ token \in Attempt \union {None}
    /\ cancelled \subseteq Attempt
    /\ cancel \in {"none", "write", "signal"}
    /\ cancels \in 0..MaxCancels /\ stalls \in 0..MaxStalls /\ dbErrors \in 0..MaxDbErrors
    /\ turns \in Nat /\ cancelAcked \in BOOLEAN

Init ==
    /\ route \in {"message", "stream"}
    /\ refusal \in IF route = "message" THEN {"none", "inspection", "providers"} ELSE {"none"}
    /\ journal = [status |-> "absent", owner_token |-> None, response |-> "none"]
    /\ record = [status |-> "absent", attempt |-> 0, response |-> "none"]
    /\ assistant = FALSE /\ writer = None
    /\ pc = [r \in Attempt |-> "new"]
    /\ fin = [r \in Attempt |-> NoOutcome]
    /\ task = [r \in Attempt |-> "none"]
    /\ event = [r \in Attempt |-> "none"]
    /\ token = None /\ cancelled = {}
    /\ cancel = "none" /\ cancels = 0 /\ stalls = 0 /\ dbErrors = 0
    /\ turns = 0 /\ cancelAcked = FALSE

request == <<route, refusal>>
bounds == <<cancels, stalls, dbErrors>>
tokens == <<token, cancelled>>
streaming == <<task, event>>
cancelling == <<cancel, cancelAcked>>

Goto(r, label) == pc' = [pc EXCEPT ![r] = label]
Free == writer = None

\* Dropping a LiveExecutionControlGuard removes the attempt's own token only.
DropToken(r) == IF token = r THEN None ELSE token

\* The handler has answered, or is gone; its guard and its connection go with it.
Leave(r) ==
    /\ Goto(r, "over")
    /\ fin' = [fin EXCEPT ![r] = NoOutcome]
    /\ writer' = IF writer = r THEN None ELSE writer
    /\ token' = IF task[r] = "none" THEN DropToken(r) ELSE token

\* The handler has decided on an outcome and goes on to make it final.
Finish(r, status, response) ==
    /\ fin' = [fin EXCEPT ![r] = [status |-> status, response |-> response]]
    /\ Goto(r, "finalize")

------------------------------------------------------------------------------
(***************************************************************************)
(* prepare_json_operation: the answer of a committed row, a refusal, or the  *)
(* lease.  A lease can be taken over once it has expired: its holder is gone *)
(* or, which counts as a stall, is alive and has failed to renew it.          *)
(***************************************************************************)
Living(r) == r # None /\ pc[r] \notin {"new", "over"}
OwnsJournal(r) == journal.status = "in_progress" /\ journal.owner_token = r

Answer(r) ==
    /\ pc[r] = "new" /\ Free /\ journal.status \in {"committed", "in_progress"}
    /\ Goto(r, "over")
    /\ UNCHANGED <<request, journal, record, assistant, writer, fin, streaming, tokens,
                   cancelling, bounds, turns>>

Acquire(r) ==
    /\ pc[r] = "new" /\ Free /\ journal.status # "committed"
    /\ IF journal.status = "in_progress" /\ Living(journal.owner_token)
       THEN stalls < MaxStalls /\ stalls' = stalls + 1
       ELSE UNCHANGED stalls
    /\ journal' = [journal EXCEPT !.status = "in_progress", !.owner_token = r]
    /\ Goto(r, "load")
    /\ UNCHANGED <<request, record, assistant, writer, fin, streaming, tokens, cancelling,
                   cancels, dbErrors, turns>>

\* abort_prepared_json_operation: the session, the runtime or a gate of pre_loop
\* refuses the request before there is a record, or there is one whose state another
\* version of the gateway wrote and this one cannot parse.
Reject(r) ==
    /\ pc[r] = "load" /\ Free
    /\ journal' = IF OwnsJournal(r) THEN [journal EXCEPT !.status = "aborted"] ELSE journal
    /\ Leave(r)
    /\ UNCHANGED <<request, record, assistant, streaming, cancelled, cancelling, bounds, turns>>

\* The record is inserted, with the user's message or the start of the stream.
\* send_message inspects a message that has no record yet, and ends here if it is
\* blocked; it asks for a provider again after it has begun.
Accept(r) ==
    /\ pc[r] = "load" /\ Free /\ record.status = "absent"
    /\ record' = [record EXCEPT !.status = "accepted"]
    /\ IF route = "message"
       THEN /\ IF refusal # "none" THEN Finish(r, "completed", "rejected")
               ELSE Goto(r, "prepare") /\ UNCHANGED fin
            /\ UNCHANGED writer
       ELSE Goto(r, "accept") /\ writer' = r /\ UNCHANGED fin
    /\ UNCHANGED <<request, journal, assistant, streaming, tokens, cancelling, bounds, turns>>

RunnableIfRunning == {"accepted", "running"}

\* The statuses of a record whose turn has certainly not begun.
Runnable == {"accepted"}

\* An earlier attempt left a record: send_message decides by its status ...
LoadMessage(r) ==
    /\ route = "message"
    /\ pc[r] = "load" /\ Free /\ record.status # "absent"
    /\ \/ record.status \in Runnable /\ Goto(r, "prepare") /\ UNCHANGED fin
       \/ record.status = "completed" /\ Finish(r, "completed", record.response)
       \/ record.status = "recovery_required" /\ Finish(r, "completed", "recovery")
       \/ record.status \in {"cancelled", "cancel_requested"} /\ Finish(r, "cancelled", "cancelled")
       \/ record.status = "running" /\ assistant /\ Finish(r, "completed", "completed")
       \/ record.status = "running" /\ ~assistant /\ Finish(r, "recovery_required", "recovery")
    /\ UNCHANGED <<request, journal, record, assistant, writer, streaming, tokens, cancelling,
                   bounds, turns>>

\* ... and agent_chat_stream, once it has committed the acceptance, by the terminal
\* event in its state.
LoadStream(r) ==
    /\ route = "stream"
    /\ pc[r] = "load" /\ Free /\ record.status # "absent"
    /\ Goto(r, "accept") /\ writer' = r
    /\ UNCHANGED <<request, journal, record, assistant, fin, streaming, tokens, cancelling,
                   bounds, turns>>

CommitAcceptance(r) ==
    /\ pc[r] = "accept"
    /\ IF OwnsJournal(r)
       THEN /\ journal' = [journal EXCEPT !.status = "committed", !.response = "accepted"]
            /\ IF record.response = "none"
               THEN Goto(r, "begin") /\ writer' = None /\ UNCHANGED <<fin, token>>
               ELSE Leave(r)
       ELSE Leave(r) /\ UNCHANGED journal
    /\ UNCHANGED <<request, record, assistant, streaming, cancelled, cancelling, bounds, turns>>

------------------------------------------------------------------------------
(***************************************************************************)
(* Running the turn.                                                        *)
(***************************************************************************)

\* acquire_live_execution_control replaces and cancels an earlier token.
Register(r) ==
    /\ token' = r
    /\ cancelled' = cancelled \union ({token} \ {None, r})

\* send_message builds the runtime again and registers its token, unless the session
\* has been deleted; an error here (Die) leaves the record and the lease as they are.
Prepare(r) ==
    /\ pc[r] = "prepare"
    /\ \/ Register(r) /\ Goto(r, "begin") /\ UNCHANGED fin
       \/ Finish(r, "recovery_required", "recovery") /\ UNCHANGED tokens
    /\ UNCHANGED <<request, journal, record, assistant, writer, streaming, cancelling,
                   bounds, turns>>

\* begin_execution_attempt: a record that is running already will do.
BeginFrom == {"accepted", "running"}

Begun(rec) ==
    IF rec.status = "running" THEN rec
    ELSE [status |-> "running", attempt |-> rec.attempt + 1, response |-> "none"]

Begin(r) ==
    /\ pc[r] = "begin" /\ Free
    /\ IF record.status \in BeginFrom
       THEN /\ record' = Begun(record)
            /\ Goto(r, IF route = "message" THEN "check" ELSE "sse")
            /\ task' = IF route = "message" THEN task ELSE [task EXCEPT ![r] = "spawned"]
            /\ UNCHANGED <<fin, writer, token>>
       ELSE Leave(r) /\ UNCHANGED <<record, task>>
    /\ UNCHANGED <<request, journal, assistant, event, cancelled, cancelling, bounds, turns>>

\* After the heartbeat has started and pre_loop has passed its gates (else Die).
StartTurn(r) ==
    /\ pc[r] = "check"
    /\ \/ /\ refusal = "providers"
          /\ Finish(r, "completed", "rejected") /\ UNCHANGED turns
       \/ /\ refusal # "providers" /\ r \in cancelled
          /\ Finish(r, "cancelled", "cancelled") /\ UNCHANGED turns
       \/ /\ refusal # "providers" /\ r \notin cancelled
          /\ Goto(r, "turn") /\ turns' = turns + 1 /\ UNCHANGED fin
    /\ UNCHANGED <<request, journal, record, assistant, writer, streaming, tokens, cancelling,
                   bounds>>

\* The turn ends.  Its result is dropped if the heartbeat has found the lease lost.
EndTurn(r) ==
    /\ pc[r] = "turn"
    /\ \/ /\ \/ Goto(r, "store") /\ UNCHANGED fin
             \/ r \in cancelled /\ Finish(r, "cancelled", "cancelled")
             \/ Finish(r, "recovery_required", "recovery")
          /\ UNCHANGED <<writer, token>>
       \/ ~OwnsJournal(r) /\ Leave(r)
    /\ UNCHANGED <<request, journal, record, assistant, streaming, cancelled, cancelling, bounds,
                   turns>>

\* The assistant's message has the id that the record gave it, so that a second
\* insert fails.  The handler of the failure asks for the writer it still holds.
StoreMessage(r) ==
    /\ pc[r] = "store" /\ Free
    /\ \/ /\ ~assistant /\ assistant' = TRUE
          /\ Finish(r, "completed", "completed")
          /\ UNCHANGED <<writer, dbErrors>>
       \/ /\ IF assistant THEN UNCHANGED dbErrors
             ELSE dbErrors < MaxDbErrors /\ dbErrors' = dbErrors + 1
          /\ writer' = r /\ Goto(r, "stuck")
          /\ UNCHANGED <<assistant, fin>>
    /\ UNCHANGED <<request, journal, record, streaming, tokens, cancelling, cancels, stalls, turns>>

TransitionsFromAny == Status \ {"absent"}

\* The statuses that the finalize functions expect to find.
TransitionsFrom == Active

\* finalize_studio_message_{terminal,recovery,cancelled}_response: first the record ...
Finalize(r) ==
    /\ pc[r] = "finalize" /\ Free
    /\ IF record.status \in TransitionsFrom
       THEN /\ record' = [record EXCEPT !.status = fin[r].status,
                                        !.response = IF fin[r].status = "recovery_required"
                                                     THEN "none" ELSE fin[r].response]
            /\ writer' = r /\ Goto(r, "commit") /\ UNCHANGED <<fin, token>>
       ELSE Leave(r) /\ UNCHANGED record
    /\ UNCHANGED <<request, journal, assistant, streaming, cancelled, cancelling, bounds, turns>>

CommitFinalRelocking(r) ==
    /\ pc[r] = "commit" /\ Free
    /\ journal' = [journal EXCEPT !.status = "committed", !.response = fin[r].response]
    /\ Leave(r)
    /\ UNCHANGED <<request, record, assistant, streaming, cancelled, cancelling, bounds, turns>>

\* ... then, with the same connection, the journal.
CommitFinal(r) ==
    /\ pc[r] = "commit"
    /\ journal' = IF OwnsJournal(r)
                  THEN [journal EXCEPT !.status = "committed", !.response = fin[r].response]
                  ELSE journal
    /\ Leave(r)
    /\ UNCHANGED <<request, record, assistant, streaming, cancelled, cancelling, bounds, turns>>

------------------------------------------------------------------------------
(***************************************************************************)
(* The stream: the task (spawn_agent_chat_stream_execution) and the response *)
(* body (agent_live_stream_response).                                       *)
(***************************************************************************)
TaskRegister(r) ==
    /\ task[r] = "spawned"
    /\ Register(r) /\ task' = [task EXCEPT ![r] = "check"]
    /\ UNCHANGED <<request, journal, record, assistant, writer, pc, fin, event, cancelling, bounds,
                   turns>>

\* The receiver is dropped with the response body; a send then fails.
Emit(r, e) ==
    /\ event' = IF pc[r] = "over" THEN event ELSE [event EXCEPT ![r] = e]
    /\ task' = [task EXCEPT ![r] = "over"]
    /\ token' = DropToken(r)

TaskStart(r) ==
    /\ task[r] = "check"
    /\ \/ /\ task' = [task EXCEPT ![r] = "turn"] /\ turns' = turns + 1
          /\ UNCHANGED <<event, token>>
       \/ Emit(r, "recovery_required") /\ UNCHANGED turns
    /\ UNCHANGED <<request, journal, record, assistant, writer, pc, fin, cancelled, cancelling,
                   bounds>>

TaskEnd(r) ==
    /\ task[r] = "turn"
    /\ \/ Emit(r, "completed")
       \/ Emit(r, "recovery_required")
       \/ r \in cancelled /\ Emit(r, "cancelled")
    /\ UNCHANGED <<request, journal, record, assistant, writer, pc, fin, cancelled, cancelling,
                   bounds, turns>>

\* update_agent_stream_execution_state, with the state the handler has.
StreamStatus(status, response) ==
    record' = IF record.status \in TransitionsFrom
              THEN [record EXCEPT !.status = status, !.response = response] ELSE record

SseStart(r) ==
    /\ pc[r] = "sse" /\ Free
    /\ StreamStatus("running", "none")
    /\ IF record.status \in TransitionsFrom
       THEN Goto(r, "wait") /\ UNCHANGED <<fin, writer, token>>
       ELSE Leave(r)
    /\ UNCHANGED <<request, journal, assistant, streaming, cancelled, cancelling, bounds, turns>>

\* The terminal event is persisted, then the record; a stream that ends without
\* one, or whose events cannot be persisted, requires recovery.
SseEnd(r) ==
    /\ pc[r] = "wait" /\ Free
    /\ \/ /\ event[r] # "none"
          /\ StreamStatus(event[r], CASE event[r] = "completed" -> "completed"
                                      [] event[r] = "cancelled" -> "cancelled"
                                      [] OTHER -> "recovery")
       \/ /\ event[r] # "none" \/ task[r] = "turn"
          /\ StreamStatus("recovery_required", "recovery")
    /\ event' = [event EXCEPT ![r] = "none"]
    /\ Leave(r)
    /\ UNCHANGED <<request, journal, assistant, task, cancelled, cancelling, bounds, turns>>

------------------------------------------------------------------------------
(***************************************************************************)
(* cancel_live_execution: it has read the record, updates it if it is still   *)
(* active, and signals the registered token.                                 *)
(***************************************************************************)
CancelFrom == {"accepted", "running", "recovery_required"}

CancelBegin ==
    /\ cancel = "none" /\ cancels < MaxCancels /\ cancels' = cancels + 1
    /\ \/ record.status \in CancelFrom /\ cancel' = "write"
       \/ record.status = "cancel_requested" /\ cancel' = "signal"
    /\ UNCHANGED <<request, journal, record, assistant, writer, pc, fin, streaming, tokens, stalls,
                   dbErrors, turns, cancelAcked>>

CancelWrite ==
    /\ cancel = "write" /\ Free
    /\ IF record.status \in CancelFrom
       THEN /\ record' = [record EXCEPT !.status = "cancel_requested", !.response = "cancelled"]
            /\ cancel' = "signal"
       ELSE cancel' = "none" /\ UNCHANGED record
    /\ UNCHANGED <<request, journal, assistant, writer, pc, fin, streaming, tokens, bounds, turns,
                   cancelAcked>>

CancelNobody ==
    /\ cancel = "signal" /\ cancel' = "none" /\ cancelAcked' = TRUE
    /\ UNCHANGED <<request, journal, record, assistant, writer, pc, fin, streaming, tokens, bounds,
                   turns>>

CancelSignal ==
    /\ cancel = "signal" /\ cancel' = "none" /\ cancelAcked' = TRUE
    /\ cancelled' = cancelled \union ({token} \ {None})
    /\ UNCHANGED <<request, journal, record, assistant, writer, pc, fin, streaming, token, bounds,
                   turns>>

------------------------------------------------------------------------------
\* The gateway crashes, a statement or a gate fails or the client goes away: the handler ends
\* where it is.  A client that goes leaves the task of a stream running.
Die(r) ==
    /\ pc[r] \notin {"new", "over"}
    /\ Leave(r)
    /\ event' = [event EXCEPT ![r] = "none"]
    /\ UNCHANGED <<request, journal, record, assistant, task, cancelled, cancelling, bounds, turns>>

\* The gateway crashes with the response body already gone.
TaskDies(r) ==
    /\ task[r] \notin {"none", "over"} /\ pc[r] = "over"
    /\ task' = [task EXCEPT ![r] = "over"]
    /\ token' = DropToken(r)
    /\ UNCHANGED <<request, journal, record, assistant, writer, pc, fin, event, cancelled,
                   cancelling, bounds, turns>>

Lease(r) == Answer(r) \/ Acquire(r)

Handle(r) ==
    \/ Reject(r) \/ Accept(r) \/ LoadMessage(r) \/ LoadStream(r) \/ CommitAcceptance(r)
    \/ Prepare(r) \/ Begin(r) \/ StartTurn(r) \/ EndTurn(r) \/ StoreMessage(r)
    \/ Finalize(r) \/ CommitFinal(r)

Stream(r) == TaskRegister(r) \/ TaskStart(r) \/ TaskEnd(r) \/ SseStart(r) \/ SseEnd(r)

Next ==
    \/ \E r \in Attempt : Lease(r) \/ Handle(r) \/ Stream(r) \/ Die(r) \/ TaskDies(r)
    \/ CancelBegin \/ CancelWrite \/ CancelSignal

Spec == Init /\ [][Next]_vars

\* Handlers and tasks run to their end, the turn included: calls of providers and
\* tools time out.  Nothing is assumed of clients, of cancel requests or of crashes.
FairSpec == Spec /\ \A r \in Attempt : WF_vars(Handle(r)) /\ WF_vars(Stream(r))

------------------------------------------------------------------------------
\* Every request that has the lease is answered or dropped, and so is every other that
\* waits for the writer meanwhile, unless a handler could not store the assistant's
\* message: then it waits for itself, and everyone for it.
Answered ==
    \A r \in Attempt :
        (pc[r] = "load") ~> (pc[r] = "over" \/ \E s \in Attempt : pc[s] = "stuck")

\* A message is acted on once: the turn runs at most once, and once more for each
\* lease that a living handler loses before it has begun.  A stream, whose journal
\* row is committed before it begins, runs once whatever happens to leases.
OneTurn == turns <= IF route = "stream" THEN 1 ELSE 1 + stalls

\* "accepted work has a durable execution record": the answer that the journal
\* replays agrees with the record, whichever attempts have written either.  An
\* answer with the assistant's text has that text stored, and a 202 for a turn of
\* unknown outcome is never given for one that could still be begun.
AnswerIsRecorded ==
    (journal.status = "committed") =>
        CASE journal.response = "completed" -> record.status = "completed" /\ assistant
          [] journal.response = "rejected"  -> record.status = "completed" /\ refusal # "none"
          [] journal.response = "cancelled" -> record.status = "cancelled"
          [] journal.response = "recovery"  -> record.status \notin {"absent", "accepted", "running"}
          [] OTHER -> route = "stream" /\ record.status # "absent"

\* Once a request to cancel a message has been answered, no turn is started for it,
\* by any attempt: the request finds the token of every attempt that may begin.
CancelHolds ==
    [][(route = "message" /\ cancelAcked) => turns' = turns]_vars

\* "cancelled and completed are immutable": no writer with an older view of the
\* record takes it out of a terminal status, or changes the response it stored.
TerminalIsFinal ==
    [][(record.status \in {"completed", "cancelled"}) => record' = record]_vars
================================================================================
