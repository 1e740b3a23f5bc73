----------------------------- MODULE JobService -----------------------------
(***************************************************************************)
(* Durable jobs and the threads that move them: src/app/job_service.py, with *)
(* the creating callers (conversation_service.py, capability_service.py) and *)
(* the startup sweep of database.py.                                         *)
(*                                                                          *)
(* A chat job carries a turn, a media job a capability request.  Five actors *)
(* touch one job: the submitter that created it, the worker that runs it,    *)
(* a user's cancellation, the coordinator that rejects it and the thread     *)
(* that stops the service.  Each changes the database in units of work.  A   *)
(* unit of work reads the job row when it begins and writes when it commits: *)
(* the read takes no lock (SQLite begins a transaction at the first write),  *)
(* so a row may have changed when the decision taken from it is written.     *)
(* The turn and the capability are read after that first write, inside the   *)
(* transaction, except in _complete, whose on_success reads the capability   *)
(* first.  A behaviour with isolated is one in which units of work of one    *)
(* job never overlap; in the others they may.                                *)
(*                                                                          *)
(* The queue is reduced to where a job is: JobQueue models it.               *)
(***************************************************************************)
EXTENDS Naturals, Sequences

CONSTANTS
    Jobs,               \* job identities; a job is created once
    MaxRestarts         \* bound on crashes and restarts of the process

ASSUME ServiceAssumption == MaxRestarts \in Nat

VARIABLES
    kind,           \* what the job serves: a turn or a capability request
    row,            \* async_jobs: status and cancel_requested
    turn,           \* conversation_turns.status
    cap,            \* capability_requests.status
    reply,          \* whether on_generated stored an assistant message
    log,            \* what the turn's event stream carries
    registered,     \* jobs in _tokens and _executions
    cancelled,      \* jobs whose CancellationToken is cancelled
    done,           \* the job's entry of _done
    place,          \* where the queue holds the job
    pc, saw,        \* where each actor is, and the job row it read
    capSaw,         \* the capability on_success read
    captured,       \* cancellations that found the job's execution
    accepting,      \* _accepting_submissions
    stopPc,         \* the progress of stop()
    restarts,
    isolated        \* whether units of work of a job are kept apart

durable == <<kind, row, turn, cap, reply>>
memory == <<registered, cancelled, done, place>>
actors == <<pc, saw, capSaw, captured>>
service == <<accepting, stopPc, restarts, isolated>>
vars == <<durable, log, memory, actors, service>>

Active == {"queued", "running"}
Terminal == {"completed", "failed", "cancelled"}
Status == {"none"} \cup Active \cup Terminal
Rows == [status : Status, cancelRequested : BOOLEAN]
NoRow == [status |-> "none", cancelRequested |-> FALSE]

TerminalEvents == {"turn.completed", "turn.failed", "turn.cancelled"}
Events == {"turn.queued", "turn.started"} \cup TerminalEvents

Actors == {"submitter", "worker", "canceller", "coordinator", "stopper"}

\* Places of an actor between the read and the commit of a unit of work.
InUow == {"begin-commit", "success-read", "complete-commit", "fail-commit", "cancel-commit"}
PCs == InUow \cup
    {"idle", "announce", "submit", "begin", "started", "execute", "complete", "fail", "cancel",
     "say-completed", "say-failed", "say-cancelled", "signal", "dequeue", "finish", "end"}

ChatJobs == {j \in Jobs : kind[j] = "chat"}
MediaJobs == {j \in Jobs : kind[j] = "media"}

TypeOK ==
    /\ kind \in [Jobs -> {"none", "chat", "media"}]
    /\ row \in [Jobs -> Rows]
    /\ turn \in [Jobs -> Status] /\ cap \in [Jobs -> Status]
    /\ reply \in [Jobs -> BOOLEAN]
    /\ log \in [Jobs -> Seq(Events)]
    /\ registered \subseteq Jobs /\ cancelled \subseteq Jobs /\ captured \subseteq Jobs
    /\ done \in [Jobs -> {"none", "clear", "set"}]
    /\ place \in [Jobs -> {"none", "pending", "taken", "detached"}]
    /\ pc \in [Actors -> [Jobs -> PCs]]
    /\ saw \in [Actors -> [Jobs -> Rows]]
    /\ capSaw \in [Jobs -> Status]
    /\ accepting \in BOOLEAN
    /\ stopPc \in {"up", "close", "signal", "finalize", "stopped"}
    /\ restarts \in 0 .. MaxRestarts /\ isolated \in BOOLEAN

ForJobs(v) == [j \in Jobs |-> v]

Init ==
    /\ kind = ForJobs("none")
    /\ row = ForJobs(NoRow) /\ turn = ForJobs("none") /\ cap = ForJobs("none")
    /\ reply = ForJobs(FALSE) /\ log = ForJobs(<<>>)
    /\ registered = {} /\ cancelled = {} /\ captured = {}
    /\ done = ForJobs("none") /\ place = ForJobs("none")
    /\ pc = [a \in Actors |-> ForJobs("idle")]
    /\ saw = [a \in Actors |-> ForJobs(NoRow)]
    /\ capSaw = ForJobs("none")
    /\ accepting = TRUE /\ stopPc = "up" /\ restarts = 0 /\ isolated \in BOOLEAN

-----------------------------------------------------------------------------
(* Transitions and units of work.                                           *)

\* Variant: every transition is accepted.
AnyTransition(from, to) == TRUE

\* LEGAL_TRANSITIONS, and the early return for the state a row is already in.
Legal(from, to) ==
    \/ from = to
    \/ from = "queued" /\ to \in {"running", "failed", "cancelled"}
    \/ from = "running" /\ to \in Terminal

Goto(a, j, where) == pc' = [pc EXCEPT ![a][j] = where]
Forgotten(a, j) == saw' = [saw EXCEPT ![a][j] = NoRow]

\* A unit of work begins: the actor keeps the job row it reads.
Read(a, j, where) ==
    /\ isolated => \A b \in Actors : pc[b][j] \notin InUow
    /\ saw' = [saw EXCEPT ![a][j] = row[j]]
    /\ Goto(a, j, where)
    /\ UNCHANGED <<durable, log, memory, capSaw, captured, service>>

\* The unit of work reads the row and has nothing to write.
Decline(a, j, where) ==
    /\ isolated => \A b \in Actors : pc[b][j] \notin InUow
    /\ Goto(a, j, where)
    /\ UNCHANGED <<durable, log, memory, saw, capSaw, captured, service>>

SetStatus(j, status) == row' = [row EXCEPT ![j].status = status]
SetTurn(j, status) == turn' = IF j \in ChatJobs THEN [turn EXCEPT ![j] = status] ELSE turn
\* Variant: a callback only minds a running capability.
SetRunningCap(j, from, status) ==
    cap' = IF j \in MediaJobs /\ cap[j] \in from \cap {"running"}
           THEN [cap EXCEPT ![j] = status] ELSE cap

SetCap(j, from, status) ==
    cap' = IF j \in MediaJobs /\ cap[j] \in from THEN [cap EXCEPT ![j] = status] ELSE cap

EndTurn(j, status) == IF turn[j] \in Active THEN SetTurn(j, status) ELSE UNCHANGED turn

Publish(j, event) == log' = [log EXCEPT ![j] = Append(@, event)]

Pop(j) == registered' = registered \ {j}
SetDone(j) == done' = IF done[j] = "none" THEN done ELSE [done EXCEPT ![j] = "set"]

-----------------------------------------------------------------------------
(* The submitter: create_turn, and start_explicit or submit_queued.         *)

Create(j) ==
    /\ pc["submitter"][j] = "idle"
    /\ row' = [row EXCEPT ![j].status = "queued"]
    /\ \/ /\ kind' = [kind EXCEPT ![j] = "chat"]
          /\ turn' = [turn EXCEPT ![j] = "queued"]
          /\ Goto("submitter", j, "announce")
          /\ UNCHANGED cap
       \/ /\ kind' = [kind EXCEPT ![j] = "media"]
          /\ cap' = [cap EXCEPT ![j] = "queued"]
          /\ Goto("submitter", j, "submit")
          /\ UNCHANGED turn
    /\ UNCHANGED <<reply, log, memory, saw, capSaw, captured, service>>

Announce(j) ==
    /\ pc["submitter"][j] = "announce"
    /\ Publish(j, "turn.queued")
    /\ Goto("submitter", j, "submit")
    /\ UNCHANGED <<durable, memory, saw, capSaw, captured, service>>

\* submit holds the lifecycle lock from its test to queue.submit.
Submit(j) ==
    /\ pc["submitter"][j] = "submit" /\ accepting
    /\ registered' = registered \cup {j}
    /\ done' = [done EXCEPT ![j] = "clear"]
    /\ place' = [place EXCEPT ![j] = "pending"]
    /\ Goto("submitter", j, "end")
    /\ UNCHANGED <<durable, log, cancelled, saw, capSaw, captured, service>>

\* A refused media job is failed (fail_unsubmitted); a refused turn is left.
RefuseSubmit(j) ==
    /\ pc["submitter"][j] = "submit" /\ ~accepting
    /\ Goto("submitter", j, IF j \in MediaJobs THEN "fail" ELSE "end")
    /\ UNCHANGED <<durable, log, memory, saw, capSaw, captured, service>>

-----------------------------------------------------------------------------
(* Units of work several actors run.                                        *)

\* Where an actor goes once it has failed, or tried to fail, the job.
AfterFail(a) == IF a = "submitter" THEN "end" ELSE "finish"

FailRead(a, j) ==
    /\ pc[a][j] = "fail"
    /\ \/ row[j].status \notin Terminal /\ Read(a, j, "fail-commit")
       \/ row[j].status \in Terminal /\ Decline(a, j, AfterFail(a))

FailCommit(a, j) ==
    /\ pc[a][j] = "fail-commit"
    /\ SetStatus(j, "failed")
    /\ EndTurn(j, "failed")
    /\ SetCap(j, Active, "failed")
    /\ Goto(a, j, IF j \in ChatJobs THEN "say-failed" ELSE AfterFail(a))
    /\ Forgotten(a, j)
    /\ UNCHANGED <<kind, reply, log, memory, capSaw, captured, service>>

\* The stream is told that the turn failed whether or not this commit, or
\* an earlier one, ended it.
SayFailed(a, j) ==
    /\ pc[a][j] = "say-failed"
    /\ Publish(j, "turn.failed")
    /\ Goto(a, j, AfterFail(a))
    /\ UNCHANGED <<durable, memory, saw, capSaw, captured, service>>

\* _cancel_terminal, by the worker or by stop().
CancelRead(a, j) ==
    /\ pc[a][j] = "cancel"
    /\ Read(a, j, "cancel-commit")

CancelCommit(a, j) ==
    LET open == saw[a][j].status \notin Terminal
        changed == open \/ turn[j] \in Active
        called == changed /\ (a = "stopper" => j \in registered)
    IN  /\ pc[a][j] = "cancel-commit"
        /\ row' = [row EXCEPT ![j] = [status |-> IF open THEN "cancelled" ELSE @.status,
                                      cancelRequested |-> TRUE]]
        /\ EndTurn(j, "cancelled")
        /\ SetCap(j, IF called THEN Active ELSE {}, "cancelled")
        /\ Goto(a, j, IF j \in ChatJobs /\ changed THEN "say-cancelled" ELSE "finish")
        /\ Forgotten(a, j)
        /\ UNCHANGED <<kind, reply, log, memory, capSaw, captured, service>>

SayCancelled(a, j) ==
    /\ pc[a][j] = "say-cancelled"
    /\ Publish(j, "turn.cancelled")
    /\ Goto(a, j, "finish")
    /\ UNCHANGED <<durable, memory, saw, capSaw, captured, service>>

-----------------------------------------------------------------------------
(* The worker: _run, _begin and _complete.                                  *)

Take(j) ==
    /\ place[j] = "pending"
    /\ place' = [place EXCEPT ![j] = "taken"]
    /\ Goto("worker", j, "begin")
    /\ UNCHANGED <<durable, log, registered, cancelled, done, saw, capSaw, captured, service>>

\* _begin and _complete give up on a cancellation they can see.
CancelSeen(j) == row[j].status = "cancelled" \/ row[j].cancelRequested

BeginRead(j) ==
    /\ pc["worker"][j] = "begin"
    /\ \/ ~CancelSeen(j) /\ Read("worker", j, "begin-commit")
       \/ CancelSeen(j) /\ Decline("worker", j, "finish")

\* Variant: the message was stored in a transaction of its own.
RollBackPartly(j) ==
    /\ Goto("worker", j, "fail")
    /\ reply' = [reply EXCEPT ![j] = j \in ChatJobs /\ pc["worker"][j] = "complete-commit"]
    /\ UNCHANGED <<kind, row, turn, cap>>

\* An illegal transition raises: the unit of work is rolled back.
RollBack(j) ==
    /\ Goto("worker", j, "fail")
    /\ UNCHANGED durable

BeginCommit(j) ==
    /\ pc["worker"][j] = "begin-commit"
    /\ IF /\ Legal(saw["worker"][j].status, "running")
          /\ j \in ChatJobs => Legal(turn[j], "running")
       THEN /\ SetStatus(j, "running")
            /\ SetTurn(j, "running")
            /\ SetCap(j, {"queued"}, "running")
            /\ Goto("worker", j, "started")
            /\ UNCHANGED <<kind, reply>>
       ELSE RollBack(j)
    /\ Forgotten("worker", j)
    /\ UNCHANGED <<log, memory, capSaw, captured, service>>

SayStarted(j) ==
    /\ pc["worker"][j] = "started"
    /\ IF j \in ChatJobs THEN Publish(j, "turn.started") ELSE UNCHANGED log
    /\ Goto("worker", j, "execute")
    /\ UNCHANGED <<durable, memory, saw, capSaw, captured, service>>

\* The execution returns, or raises a provider's error or any other one.  A
\* cancelled token turns the first two into a cancellation.
Execute(j) ==
    /\ pc["worker"][j] = "execute"
    /\ \E outcome \in {"returns", "provider error", "other error"} :
         Goto("worker", j,
              IF outcome # "other error" /\ j \in cancelled THEN "cancel"
              ELSE IF outcome = "returns" THEN "complete" ELSE "fail")
    /\ UNCHANGED <<durable, log, memory, saw, capSaw, captured, service>>

CompleteRead(j) ==
    /\ pc["worker"][j] = "complete"
    /\ \/ ~CancelSeen(j) /\ Read("worker", j, IF j \in MediaJobs THEN "success-read"
                                              ELSE "complete-commit")
       \/ CancelSeen(j) /\ Decline("worker", j, "finish")

\* on_success of a media job reads the capability before the first write.
SuccessRead(j) ==
    /\ pc["worker"][j] = "success-read"
    /\ capSaw' = [capSaw EXCEPT ![j] = cap[j]]
    /\ Goto("worker", j, "complete-commit")
    /\ UNCHANGED <<durable, log, memory, saw, captured, service>>

CompleteCommit(j) ==
    /\ pc["worker"][j] = "complete-commit"
    /\ IF /\ Legal(saw["worker"][j].status, "completed")
          /\ j \in ChatJobs => Legal(turn[j], "completed")
       THEN /\ SetStatus(j, "completed")
            /\ SetTurn(j, "completed")
            /\ reply' = IF j \in ChatJobs THEN [reply EXCEPT ![j] = TRUE] ELSE reply
            /\ cap' = IF capSaw[j] = "running" THEN [cap EXCEPT ![j] = "completed"] ELSE cap
            /\ Goto("worker", j, IF j \in ChatJobs THEN "say-completed" ELSE "finish")
            /\ UNCHANGED kind
       ELSE RollBack(j)
    /\ Forgotten("worker", j)
    /\ capSaw' = [capSaw EXCEPT ![j] = "none"]
    /\ UNCHANGED <<log, memory, captured, service>>

SayCompleted(j) ==
    /\ pc["worker"][j] = "say-completed"
    /\ Publish(j, "turn.completed")
    /\ Goto("worker", j, "finish")
    /\ UNCHANGED <<durable, memory, saw, capSaw, captured, service>>

\* The finally clause of _run; the token goes with the execution.
Finish(j) ==
    /\ pc["worker"][j] = "finish"
    /\ Pop(j) /\ SetDone(j)
    /\ cancelled' = cancelled \ {j}
    /\ place' = [place EXCEPT ![j] = "none"]
    /\ Goto("worker", j, "end")
    /\ UNCHANGED <<durable, log, saw, capSaw, captured, service>>

-----------------------------------------------------------------------------
(* A user's cancellation: cancel().                                         *)

\* Who knows the job asks for it; the execution is looked up first.
Capture(j) ==
    /\ pc["canceller"][j] = "idle" /\ row[j].status # "none"
    /\ captured' = IF j \in registered THEN captured \cup {j} ELSE captured
    /\ Goto("canceller", j, "cancel")
    /\ UNCHANGED <<durable, log, memory, saw, capSaw, service>>

UserCancelRead(j) ==
    /\ pc["canceller"][j] = "cancel"
    /\ \/ row[j].status \notin Terminal /\ Read("canceller", j, "cancel-commit")
       \/ row[j].status \in Terminal /\ Decline("canceller", j, "signal")

UserCancelCommit(j) ==
    /\ pc["canceller"][j] = "cancel-commit"
    /\ row' = [row EXCEPT ![j] = [status |-> "cancelled", cancelRequested |-> TRUE]]
    /\ EndTurn(j, "cancelled")
    /\ SetCap(j, IF j \in captured THEN Active ELSE {}, "cancelled")
    /\ Goto("canceller", j, "signal")
    /\ UNCHANGED <<kind, reply, log, memory, saw, capSaw, captured, service>>

SignalToken(j) ==
    /\ pc["canceller"][j] = "signal"
    /\ cancelled' = IF j \in registered THEN cancelled \cup {j} ELSE cancelled
    /\ Goto("canceller", j, "dequeue")
    /\ UNCHANGED <<durable, log, registered, done, place, saw, capSaw, captured, service>>

\* Variant: only a job still in the queue is announced.
AnnouncesDequeued(j) == j \in ChatJobs /\ place[j] = "pending"

\* The stream hears of it when this cancellation changed the job.
Announces(j) == j \in ChatJobs /\ saw["canceller"][j] # NoRow

Dequeue(j) ==
    /\ pc["canceller"][j] = "dequeue"
    /\ IF place[j] = "pending"
       THEN place' = [place EXCEPT ![j] = "none"] /\ Pop(j)
       ELSE UNCHANGED <<place, registered>>
    /\ SetDone(j)
    /\ Goto("canceller", j, IF Announces(j) THEN "say-cancelled" ELSE "end")
    /\ Forgotten("canceller", j)
    /\ captured' = captured \ {j}
    /\ UNCHANGED <<durable, log, cancelled, capSaw, service>>

SayUserCancelled(j) ==
    /\ pc["canceller"][j] = "say-cancelled"
    /\ Publish(j, "turn.cancelled")
    /\ Goto("canceller", j, "end")
    /\ UNCHANGED <<durable, memory, saw, capSaw, captured, service>>

-----------------------------------------------------------------------------
(* The coordinator rejects a job that waited too long: _admission_reject.   *)

Reject(j) ==
    /\ j \in MediaJobs /\ pc["coordinator"][j] = "idle"
    /\ place[j] = "pending"
    /\ place' = [place EXCEPT ![j] = "none"]
    /\ Goto("coordinator", j, "fail")
    /\ UNCHANGED <<durable, log, registered, cancelled, done, saw, capSaw, captured, service>>

RejectEnd(j) ==
    /\ pc["coordinator"][j] = "finish"
    /\ Pop(j) /\ SetDone(j)
    /\ Goto("coordinator", j, "end")
    /\ UNCHANGED <<durable, log, cancelled, place, saw, capSaw, captured, service>>

-----------------------------------------------------------------------------
(* stop() and the next start of the process.                                *)

StopBegin ==
    /\ accepting /\ stopPc = "up"
    /\ accepting' = FALSE /\ stopPc' = "close"
    /\ UNCHANGED <<durable, log, memory, actors, restarts, isolated>>

StopClose ==
    /\ stopPc = "close" /\ stopPc' = "signal"
    /\ place' = [j \in Jobs |-> IF place[j] = "pending" THEN "detached" ELSE place[j]]
    /\ UNCHANGED <<durable, log, registered, cancelled, done, actors, accepting, restarts, isolated>>

StopSignal ==
    /\ stopPc = "signal" /\ stopPc' = "finalize"
    /\ cancelled' = cancelled \cup registered
    /\ UNCHANGED <<durable, log, registered, done, place, actors, accepting, restarts, isolated>>

\* _finalize_stopped_pending handles the detached jobs one after the other.
StopNext(j) ==
    /\ stopPc = "finalize"
    /\ place[j] = "detached"
    /\ \A i \in Jobs : pc["stopper"][i] \in {"idle", "end"}
    /\ Goto("stopper", j, "cancel")
    /\ UNCHANGED <<durable, log, memory, saw, capSaw, captured, service>>

StopSettle(j) ==
    /\ pc["stopper"][j] = "finish"
    /\ Pop(j) /\ SetDone(j)
    /\ place' = [place EXCEPT ![j] = "none"]
    /\ Goto("stopper", j, "end")
    /\ UNCHANGED <<durable, log, cancelled, saw, capSaw, captured, service>>

StopJoin ==
    /\ stopPc = "finalize"
    /\ \A j \in Jobs : place[j] \notin {"detached", "taken"}
    /\ stopPc' = "stopped"
    /\ UNCHANGED <<durable, log, memory, actors, accepting, restarts, isolated>>

\* The startup sweep of init_db.
Swept(status) == IF status \in Active THEN "failed" ELSE status

\* The process ends, at any point, and another one starts.  An actor under
\* way is lost; one that had not begun may act in the new process.
Restart ==
    /\ restarts < MaxRestarts /\ restarts' = restarts + 1
    /\ row' = [j \in Jobs |-> [row[j] EXCEPT !.status = Swept(@)]]
    /\ turn' = [j \in Jobs |-> Swept(turn[j])]
    /\ cap' = [j \in Jobs |-> Swept(cap[j])]
    /\ log' = ForJobs(<<>>)
    /\ registered' = {} /\ cancelled' = {} /\ captured' = {}
    /\ done' = ForJobs("none") /\ place' = ForJobs("none")
    /\ pc' = [a \in Actors |-> [j \in Jobs |-> IF pc[a][j] = "idle" THEN "idle" ELSE "end"]]
    /\ saw' = [a \in Actors |-> ForJobs(NoRow)] /\ capSaw' = ForJobs("none")
    /\ accepting' = TRUE /\ stopPc' = "up"
    /\ UNCHANGED <<kind, reply, isolated>>

-----------------------------------------------------------------------------
Failers == {"submitter", "worker", "coordinator"}
Cancellers == {"worker", "stopper"}

SubmitterStep(j) == Announce(j) \/ Submit(j) \/ RefuseSubmit(j)

WorkerStep(j) ==
    \/ Take(j) \/ BeginRead(j) \/ BeginCommit(j) \/ SayStarted(j) \/ Execute(j)
    \/ CompleteRead(j) \/ SuccessRead(j) \/ CompleteCommit(j) \/ SayCompleted(j) \/ Finish(j)

FailStep(a, j) == FailRead(a, j) \/ FailCommit(a, j) \/ SayFailed(a, j)
CancelStep(a, j) == CancelRead(a, j) \/ CancelCommit(a, j) \/ SayCancelled(a, j)

UserCancelStep(j) ==
    \/ UserCancelRead(j) \/ UserCancelCommit(j) \/ SignalToken(j) \/ Dequeue(j)
    \/ SayUserCancelled(j)

StopStep == StopClose \/ StopSignal \/ StopJoin \/ \E j \in Jobs : StopNext(j) \/ StopSettle(j)

Next ==
    \/ \E j \in Jobs :
         \/ Create(j) \/ Capture(j) \/ Reject(j)
         \/ SubmitterStep(j) \/ WorkerStep(j) \/ UserCancelStep(j) \/ RejectEnd(j)
         \/ \E a \in Failers : FailStep(a, j)
         \/ \E a \in Cancellers : CancelStep(a, j)
    \/ StopBegin \/ StopStep \/ Restart

Spec == Init /\ [][Next]_vars

(* Fairness: a thread inside a call goes on, a pending job is taken (shown   *)
(* of JobQueue), every execution returns or raises.  Creating, cancelling,   *)
(* rejecting, stopping and crashing may never happen.                        *)
Fairness ==
    /\ WF_vars(StopStep)
    /\ \A j \in Jobs :
         /\ WF_vars(SubmitterStep(j)) /\ WF_vars(WorkerStep(j))
         /\ WF_vars(UserCancelStep(j)) /\ WF_vars(RejectEnd(j))
         /\ \A a \in Failers : WF_vars(FailStep(a, j))
         /\ \A a \in Cancellers : WF_vars(CancelStep(a, j))

LiveSpec == Spec /\ Fairness

-----------------------------------------------------------------------------
(* What holds although units of work overlap.                               *)

\* The assistant's message is stored exactly for completed turns: no reply
\* survives on a turn somebody cancelled, and none is missing.
ReplyIffCompleted ==
    \A j \in ChatJobs : reply[j] <=> turn[j] = "completed"

\* The turns of the service behave as TurnContract says.
Contract == INSTANCE TurnContract WITH Turns <- Jobs, status <- turn
KeepsContract == Contract!Spec

\* Whoever waits for a submitted job is woken: its done event is set by the
\* worker, the cancellation, the rejection or the shutdown.
WaitersWoken == \A j \in Jobs : (done[j] = "clear") ~> (done[j] # "clear")

\* A turn the queue accepted ends.
TurnsEnd ==
    \A j \in Jobs : (place[j] = "pending" /\ kind[j] = "chat") ~> (turn[j] \in Terminal)

\* A turn that ended is announced on its stream, so that nobody follows a
\* finished turn for ever; only a restart may take the stream away first.
EndsAreAnnounced ==
    \A j \in Jobs :
        (turn[j] \in Terminal /\ restarts = 0) ~>
            (restarts > 0 \/ \E n \in DOMAIN log[j] : log[j][n] \in TerminalEvents)

-----------------------------------------------------------------------------
(* What needs units of work that do not overlap.                            *)

\* A turn and the job that serves it are always in the same state.
JobAndTurnAgree == isolated => \A j \in ChatJobs : row[j].status = turn[j]

Endings(j) == {n \in DOMAIN log[j] : log[j][n] \in TerminalEvents}
EventOf(status) ==
    CASE status = "completed" -> "turn.completed"
      [] status = "failed" -> "turn.failed"
      [] status = "cancelled" -> "turn.cancelled"
      [] OTHER -> "none"

\* A stream carries at most one terminal event, and it is the durable state
\* of the turn.
OneTruthfulEnding ==
    isolated => \A j \in ChatJobs :
        /\ \A m, n \in Endings(j) : m = n
        /\ \A n \in Endings(j) : log[j][n] = EventOf(turn[j])

\* A capability completed or cancelled only with its job, and a job that
\* completed or failed took its capability along.  (A cancelled job may leave
\* its capability queued, see CapabilityCannotDisagree, and a restart then
\* fails it.)
CapabilityFollowsJob ==
    isolated => \A j \in MediaJobs :
        /\ cap[j] \in {"completed", "cancelled"} => row[j].status = cap[j]
        /\ row[j].status \in {"completed", "failed"} => cap[j] = row[j].status

\* A job that ended stays as it ended.
JobEndingIsFinal ==
    [][isolated => \A j \in Jobs : row[j].status \in Terminal => row'[j].status = row[j].status]_vars

\* Every job the queue accepted ends.
JobsEnd == \A j \in Jobs : (isolated /\ place[j] = "pending") ~> (row[j].status \in Terminal)

-----------------------------------------------------------------------------
(* What the documentation says and the code does not keep.                  *)

\* docs/architecture.md: a turn's stream carries exactly one of
\* turn.completed, turn.failed and turn.cancelled.
OneTerminalEvent == \A j \in ChatJobs : \A m, n \in Endings(j) : m = n

\* docs/architecture.md: running, completion, failure and cancellation of a
\* job and its capability cannot disagree.
CapabilityCannotDisagree ==
    \A j \in MediaJobs : row[j].status \in Terminal => cap[j] = row[j].status

-----------------------------------------------------------------------------
(* Together.                                                                *)

\* Job, turn, stream and capability tell the same story while units of work do
\* not overlap.
StoriesAgree == TypeOK /\ JobAndTurnAgree /\ OneTruthfulEnding /\ CapabilityFollowsJob

\* Jobs and turns end, once, and everybody who waits for one learns of it.
EverybodyIsAnswered == EndsAreAnnounced /\ WaitersWoken /\ TurnsEnd /\ JobsEnd /\ JobEndingIsFinal
=============================================================================
