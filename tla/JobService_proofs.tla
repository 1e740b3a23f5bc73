-------------------------- MODULE JobService_proofs --------------------------
(***************************************************************************)
(* Theorems of JobService, for any jobs and any number of restarts: what    *)
(* holds although units of work overlap, what holds where they do not, and  *)
(* that a turn behaves as TurnContract says.                                *)
(***************************************************************************)
EXTENDS JobService, TLAPS

-----------------------------------------------------------------------------
(* The inductive invariant.                                                 *)

\* A job that nobody has created has left no trace, and nobody acts on it.
Untouched(j) ==
    /\ kind[j] = "none" <=> pc["submitter"][j] = "idle"
    /\ kind[j] = "none" => ~reply[j] /\ log[j] = <<>> /\ \A a \in Actors : pc[a][j] = "idle"

\* A row exists exactly for a created job, a turn exactly for a chat job and a
\* capability exactly for a media job.
KindFits(j) ==
    /\ row[j].status = "none" <=> kind[j] = "none"
    /\ turn[j] = "none" <=> kind[j] # "chat"
    /\ cap[j] = "none" <=> kind[j] # "media"
    /\ capSaw[j] # "none" => kind[j] = "media"

\* A worker takes a job once: the queue holds it after it was submitted, and
\* while it waits there no worker has begun it.
NotYetTaken(j) ==
    /\ pc["submitter"][j] \in {"idle", "announce", "submit"} =>
         place[j] = "none" /\ pc["worker"][j] = "idle"
    /\ place[j] = "pending" => pc["worker"][j] = "idle"

\* A reply is stored with the completion of its turn, and a job is completed by
\* its worker, which then has only to say so and to finish.
ReplyFits(j) == kind[j] = "chat" => (reply[j] <=> turn[j] = "completed")
CompletedLast(j) ==
    row[j].status = "completed" => pc["worker"][j] \in {"say-completed", "finish", "end"}

\* What holds of a job although units of work overlap.
JobInv(j) == Untouched(j) /\ KindFits(j) /\ NotYetTaken(j) /\ ReplyFits(j) /\ CompletedLast(j)

\* Units of work that are kept apart: one at a time, on a row nobody changed.
\* The decision to write was taken from the row that is written.
ReadsHold(j) ==
    /\ \A a, b \in Actors : pc[a][j] \in InUow /\ pc[b][j] \in InUow => a = b
    /\ \A a \in Actors : pc[a][j] \in InUow => saw[a][j] = row[j]
    /\ \A a \in Actors : pc[a][j] = "fail-commit" => row[j].status \notin Terminal
    /\ pc["canceller"][j] = "cancel-commit" => row[j].status \notin Terminal
    /\ pc["worker"][j] = "complete-commit" /\ kind[j] = "media" => capSaw[j] = cap[j]
    /\ saw["canceller"][j] # NoRow => pc["canceller"][j] \in {"cancel-commit", "signal", "dequeue"}

\* Job and turn, job and capability, as they are kept.
KeptTogether(j) ==
    /\ kind[j] = "chat" => row[j].status = turn[j]
    /\ kind[j] = "media" => cap[j] = row[j].status \/ (row[j].status = "cancelled" /\ cap[j] # "completed")

\* The actor that has ended a turn and still owes its stream the news is the
\* only one, the stream has no ending yet, and what it will say is true.
Owes(a, j) ==
    \/ pc[a][j] \in {"say-completed", "say-failed", "say-cancelled"}
    \/ a = "canceller" /\ pc[a][j] \in {"signal", "dequeue"} /\ saw[a][j] # NoRow
Announcement(a, j) ==
    CASE pc[a][j] = "say-completed" -> "turn.completed"
      [] pc[a][j] = "say-failed" -> "turn.failed"
      [] OTHER -> "turn.cancelled"
OneAnnouncer(j) ==
    kind[j] = "chat" =>
        /\ turn[j] \notin Terminal => Endings(j) = {}
        /\ \A a \in Actors : Owes(a, j) =>
             /\ turn[j] \in Terminal /\ Endings(j) = {}
             /\ Announcement(a, j) = EventOf(turn[j])
        /\ \A a, b \in Actors : Owes(a, j) /\ Owes(b, j) => a = b

\* A stream ends once, with the truth.
EndsOnce(j) ==
    kind[j] = "chat" =>
        /\ \A m, n \in Endings(j) : m = n
        /\ \A n \in Endings(j) : log[j][n] = EventOf(turn[j])

\* What holds of a job while its units of work do not overlap.
IsolatedInv(j) == isolated => ReadsHold(j) /\ KeptTogether(j) /\ OneAnnouncer(j) /\ EndsOnce(j)

ServiceInv == TypeOK /\ \A j \in Jobs : JobInv(j)
StoryInv == ServiceInv /\ \A j \in Jobs : IsolatedInv(j)

-----------------------------------------------------------------------------
(* The steps, by the job they are about.                                    *)

\* The steps that more than one actor takes, the actor left out.
FailReads(j) == \E a \in Failers : FailRead(a, j)
FailCommits(j) == \E a \in Failers : FailCommit(a, j)
SaysFailed(j) == \E a \in Failers : SayFailed(a, j)
CancelReads(j) == \E a \in Cancellers : CancelRead(a, j)
CancelCommits(j) == \E a \in Cancellers : CancelCommit(a, j)
SaysCancelled(j) == \E a \in Cancellers : SayCancelled(a, j)

\* A step of one job, whoever takes it.
JobStep(j) ==
    \/ Create(j)
    \/ Announce(j)
    \/ Submit(j)
    \/ RefuseSubmit(j)
    \/ Take(j)
    \/ BeginRead(j)
    \/ BeginCommit(j)
    \/ SayStarted(j)
    \/ Execute(j)
    \/ CompleteRead(j)
    \/ SuccessRead(j)
    \/ CompleteCommit(j)
    \/ SayCompleted(j)
    \/ Finish(j)
    \/ Capture(j)
    \/ UserCancelRead(j)
    \/ UserCancelCommit(j)
    \/ SignalToken(j)
    \/ Dequeue(j)
    \/ SayUserCancelled(j)
    \/ Reject(j)
    \/ RejectEnd(j)
    \/ StopNext(j)
    \/ StopSettle(j)
    \/ FailReads(j)
    \/ FailCommits(j)
    \/ SaysFailed(j)
    \/ CancelReads(j)
    \/ CancelCommits(j)
    \/ SaysCancelled(j)

\* A step of the service as a whole.
ServiceStep == StopBegin \/ StopClose \/ StopSignal \/ StopJoin \/ Restart

\* Next is a step of one job or of the service.
LEMMA Steps == Next => (\E j \in Jobs : JobStep(j)) \/ ServiceStep
<1> SUFFICES ASSUME Next PROVE (\E j \in Jobs : JobStep(j)) \/ ServiceStep
  OBVIOUS
<1> USE DEF JobStep, ServiceStep
<1>1. ASSUME NEW j \in Jobs,
             \/ Create(j) \/ Capture(j) \/ Reject(j) \/ SubmitterStep(j) \/ WorkerStep(j)
             \/ UserCancelStep(j) \/ RejectEnd(j)
             \/ \E a \in Failers : FailStep(a, j)
             \/ \E a \in Cancellers : CancelStep(a, j)
      PROVE  JobStep(j)
  BY <1>1, Zenon DEF SubmitterStep, WorkerStep, UserCancelStep, FailStep, CancelStep, FailReads,
                     FailCommits, SaysFailed, CancelReads, CancelCommits, SaysCancelled
<1>2. CASE StopStep
  BY <1>2, Zenon DEF StopStep
<1>3. QED
  BY <1>1, <1>2, Zenon DEF Next

-----------------------------------------------------------------------------
(* Type correctness.                                                        *)

LEMMA TypeInit == Init => TypeOK
BY ServiceAssumption DEF Init, TypeOK, ForJobs, Rows, NoRow, Status, PCs

\* What an assignment to one actor's place, or to what it read, does.
LEMMA GotoFacts ==
    ASSUME TypeOK, NEW a \in Actors, NEW j \in Jobs, NEW where \in PCs, Goto(a, j, where)
    PROVE  /\ pc' \in [Actors -> [Jobs -> PCs]]
           /\ pc'[a][j] = where
           /\ \A b \in Actors, i \in Jobs : b # a \/ i # j => pc'[b][i] = pc[b][i]
<1>1. pc \in [Actors -> [Jobs -> PCs]]
  BY DEF TypeOK
<1>2. pc' = [pc EXCEPT ![a] = [pc[a] EXCEPT ![j] = where]]
  BY DEF Goto
<1>3. [pc[a] EXCEPT ![j] = where] \in [Jobs -> PCs]
  BY <1>1
<1>4. QED
  BY <1>1, <1>2, <1>3

LEMMA SawFacts ==
    ASSUME TypeOK, NEW a \in Actors, NEW j \in Jobs, NEW read \in Rows,
           saw' = [saw EXCEPT ![a][j] = read]
    PROVE  /\ saw' \in [Actors -> [Jobs -> Rows]]
           /\ saw'[a][j] = read
           /\ \A b \in Actors, i \in Jobs : b # a \/ i # j => saw'[b][i] = saw[b][i]
<1>1. saw \in [Actors -> [Jobs -> Rows]]
  BY DEF TypeOK
<1>2. saw' = [saw EXCEPT ![a] = [saw[a] EXCEPT ![j] = read]]
  OBVIOUS
<1>3. [saw[a] EXCEPT ![j] = read] \in [Jobs -> Rows]
  BY <1>1
<1>4. QED
  BY <1>1, <1>2, <1>3

LEMMA RowTypes == NoRow \in Rows /\ \A r \in Rows : r.status \in Status
BY DEF NoRow, Rows, Status

\* A unit of work that begins, and one that gives up at once.
LEMMA ReadFacts ==
    ASSUME TypeOK, NEW a \in Actors, NEW j \in Jobs, NEW where \in PCs, Read(a, j, where)
    PROVE  /\ UNCHANGED <<durable, log, memory, capSaw, captured, service>>
           /\ Goto(a, j, where)
           /\ saw' = [saw EXCEPT ![a][j] = row[j]] /\ row[j] \in Rows
           /\ isolated => \A b \in Actors : pc[b][j] \notin InUow
BY DEF Read, TypeOK

\* What an event on a stream does to its endings.
LEMMA PublishFacts ==
    ASSUME TypeOK, NEW j \in Jobs, NEW event \in Events, Publish(j, event)
    PROVE  /\ log' \in [Jobs -> Seq(Events)]
           /\ \A i \in Jobs : i # j => log'[i] = log[i]
           /\ event \notin TerminalEvents => Endings(j)' = Endings(j)
           /\ event \in TerminalEvents => Endings(j)' = Endings(j) \cup {Len(log[j]) + 1}
           /\ \A n \in Endings(j) : log'[j][n] = log[j][n]
           /\ log'[j][Len(log[j]) + 1] = event
           /\ log'[j] # <<>>
<1>1. log[j] \in Seq(Events) /\ log'[j] = Append(log[j], event)
  BY DEF TypeOK, Publish
<1>2. /\ log' \in [Jobs -> Seq(Events)]
      /\ \A i \in Jobs : i # j => log'[i] = log[i]
  BY <1>1 DEF TypeOK, Publish
<1>3. /\ Len(log'[j]) = Len(log[j]) + 1 /\ Len(log[j]) \in Nat
      /\ \A n \in 1 .. Len(log[j]) : log'[j][n] = log[j][n]
      /\ log'[j][Len(log[j]) + 1] = event
      /\ DOMAIN log[j] = 1 .. Len(log[j]) /\ DOMAIN log'[j] = 1 .. (Len(log[j]) + 1)
  BY <1>1
<1>4. /\ event \notin TerminalEvents => Endings(j)' = Endings(j)
      /\ event \in TerminalEvents => Endings(j)' = Endings(j) \cup {Len(log[j]) + 1}
      /\ \A n \in Endings(j) : log'[j][n] = log[j][n]
  BY <1>3 DEF Endings
<1>5. log'[j] # <<>>
  BY <1>3
<1>6. QED
  BY <1>2, <1>3, <1>4, <1>5

\* What the place an actor goes to says of the step: a worker that goes was
\* under way or takes the job, it does not come back from its end, and a
\* submitter still about to submit has created or announced the job.
Leaves(a, j, where) ==
    /\ a # "worker" \/ pc["worker"][j] # "idle" \/ Take(j)
    /\ \/ a # "worker" \/ pc["worker"][j] \notin {"say-completed", "finish", "end"}
       \/ where \in {"say-completed", "finish", "end"} \/ Take(j)
    /\ a # "submitter" \/ where \notin {"announce", "submit"} \/ Create(j) \/ Announce(j)

\* A step of a job moves one actor.
LEMMA PcStep ==
    ASSUME NEW j \in Jobs, JobStep(j)
    PROVE  \E a \in Actors, where \in PCs \ {"idle"} : Goto(a, j, where) /\ Leaves(a, j, where)
<1> USE DEF PCs, InUow, Actors, Failers, Cancellers, Leaves
<1>1. CASE Create(j)
  BY <1>1, Zenon DEF Create
<1>2. CASE Announce(j)
  BY <1>2, Zenon DEF Announce
<1>3. CASE Submit(j)
  BY <1>3 DEF Submit
<1>4. CASE RefuseSubmit(j)
  BY <1>4 DEF RefuseSubmit
<1>5. CASE Take(j)
  BY <1>5, Zenon DEF Take
<1>6. CASE BeginRead(j)
  BY <1>6, Zenon DEF BeginRead, Read, Decline
<1>7. CASE BeginCommit(j)
  BY <1>7, Zenon DEF BeginCommit, RollBack
<1>8. CASE SayStarted(j)
  BY <1>8, Zenon DEF SayStarted
<1>9. CASE Execute(j)
  BY <1>9, Zenon DEF Execute
<1>10. CASE CompleteRead(j)
  BY <1>10, Zenon DEF CompleteRead, Read, Decline
<1>11. CASE SuccessRead(j)
  BY <1>11, Zenon DEF SuccessRead
<1>12. CASE CompleteCommit(j)
  BY <1>12, Zenon DEF CompleteCommit, RollBack
<1>13. CASE SayCompleted(j)
  BY <1>13, Zenon DEF SayCompleted
<1>14. CASE Finish(j)
  BY <1>14, Zenon DEF Finish
<1>15. CASE Capture(j)
  BY <1>15, Zenon DEF Capture
<1>16. CASE UserCancelRead(j)
  BY <1>16, Zenon DEF UserCancelRead, Read, Decline
<1>17. CASE UserCancelCommit(j)
  BY <1>17, Zenon DEF UserCancelCommit
<1>18. CASE SignalToken(j)
  BY <1>18, Zenon DEF SignalToken
<1>19. CASE Dequeue(j)
  BY <1>19, Zenon DEF Dequeue
<1>20. CASE SayUserCancelled(j)
  BY <1>20, Zenon DEF SayUserCancelled
<1>21. CASE Reject(j)
  BY <1>21, Zenon DEF Reject
<1>22. CASE RejectEnd(j)
  BY <1>22, Zenon DEF RejectEnd
<1>23. CASE StopNext(j)
  BY <1>23, Zenon DEF StopNext
<1>24. CASE StopSettle(j)
  BY <1>24, Zenon DEF StopSettle
<1>25. CASE FailReads(j)
  BY <1>25 DEF FailReads, FailRead, Read, Decline, AfterFail
<1>26. CASE FailCommits(j)
  BY <1>26 DEF FailCommits, FailCommit, AfterFail
<1>27. CASE SaysFailed(j)
  BY <1>27 DEF SaysFailed, SayFailed, AfterFail
<1>28. CASE CancelReads(j)
  BY <1>28, Zenon DEF CancelReads, CancelRead, Read
<1>29. CASE CancelCommits(j)
  BY <1>29, Zenon DEF CancelCommits, CancelCommit
<1>30. CASE SaysCancelled(j)
  BY <1>30, Zenon DEF SaysCancelled, SayCancelled
<1>31. QED
  BY <1>1, <1>2, <1>3, <1>4, <1>5, <1>6, <1>7, <1>8, <1>9, <1>10, <1>11, <1>12, <1>13, <1>14,
     <1>15, <1>16, <1>17, <1>18, <1>19, <1>20, <1>21, <1>22, <1>23, <1>24, <1>25, <1>26, <1>27,
     <1>28, <1>29, <1>30 DEF JobStep

\* A step of a job remembers or forgets the row for one actor.
LEMMA SawStep ==
    ASSUME TypeOK, NEW j \in Jobs, JobStep(j)
    PROVE  saw' = saw \/ \E a \in Actors, read \in Rows : saw' = [saw EXCEPT ![a][j] = read]
<1> USE DEF Actors, Failers, Cancellers
<1>1. CASE BeginRead(j)
  BY <1>1, Zenon DEF BeginRead, Read, Decline, TypeOK
<1>2. CASE BeginCommit(j)
  BY <1>2, Zenon DEF BeginCommit, Forgotten, NoRow, Rows, Status
<1>3. CASE CompleteRead(j)
  BY <1>3, Zenon DEF CompleteRead, Read, Decline, TypeOK
<1>4. CASE CompleteCommit(j)
  BY <1>4, Zenon DEF CompleteCommit, Forgotten, NoRow, Rows, Status
<1>5. CASE UserCancelRead(j)
  BY <1>5, Zenon DEF UserCancelRead, Read, Decline, TypeOK
<1>6. CASE Dequeue(j)
  BY <1>6, Zenon DEF Dequeue, Forgotten, NoRow, Rows, Status
<1>7. CASE FailReads(j)
  BY <1>7, Zenon DEF FailReads, FailRead, Read, Decline, TypeOK
<1>8. CASE FailCommits(j)
  BY <1>8, Zenon DEF FailCommits, FailCommit, Forgotten, NoRow, Rows, Status
<1>9. CASE CancelReads(j)
  BY <1>9, Zenon DEF CancelReads, CancelRead, Read, TypeOK
<1>10. CASE CancelCommits(j)
  BY <1>10, Zenon DEF CancelCommits, CancelCommit, Forgotten, NoRow, Rows, Status
<1>11. CASE \/ Create(j)
            \/ Announce(j)
            \/ Submit(j)
            \/ RefuseSubmit(j)
            \/ Take(j)
            \/ SayStarted(j)
            \/ Execute(j)
            \/ SuccessRead(j)
            \/ SayCompleted(j)
            \/ Finish(j)
            \/ Capture(j)
            \/ UserCancelCommit(j)
            \/ SignalToken(j)
            \/ SayUserCancelled(j)
            \/ Reject(j)
            \/ RejectEnd(j)
            \/ StopNext(j)
            \/ StopSettle(j)
            \/ SaysFailed(j)
            \/ SaysCancelled(j)
  BY <1>11, Zenon DEF Create, Announce, Submit, RefuseSubmit, Take, SayStarted, Execute,
                      SuccessRead, SayCompleted, Finish, Capture, UserCancelCommit, SignalToken,
                      SayUserCancelled, Reject, RejectEnd, StopNext, StopSettle, SaysFailed,
                      SayFailed, SaysCancelled, SayCancelled
<1>12. QED
  BY <1>1, <1>2, <1>3, <1>4, <1>5, <1>6, <1>7, <1>8, <1>9, <1>10, <1>11, Zenon DEF JobStep

\* What a step of a job says on streams, writes into the database and changes
\* in memory, all of that job.
Says(j) == log' = log \/ \E event \in Events : Publish(j, event)
Writes(j) ==
    /\ kind' \in [Jobs -> {"none", "chat", "media"}] /\ row' \in [Jobs -> Rows]
    /\ turn' \in [Jobs -> Status] /\ cap' \in [Jobs -> Status] /\ reply' \in [Jobs -> BOOLEAN]
    /\ \A i \in Jobs : i # j =>
         /\ kind'[i] = kind[i] /\ row'[i] = row[i] /\ turn'[i] = turn[i]
         /\ cap'[i] = cap[i] /\ reply'[i] = reply[i]
Remembers(j) ==
    /\ registered' \subseteq Jobs /\ cancelled' \subseteq Jobs /\ captured' \subseteq Jobs
    /\ done' \in [Jobs -> {"none", "clear", "set"}]
    /\ place' \in [Jobs -> {"none", "pending", "taken", "detached"}]
    /\ capSaw' \in [Jobs -> Status] /\ UNCHANGED service
    /\ \A i \in Jobs : i # j => place'[i] = place[i] /\ capSaw'[i] = capSaw[i]

\* A step of a job publishes at most one event.
LEMMA LogStep ==
    ASSUME NEW j \in Jobs, JobStep(j)
    PROVE  Says(j)
<1>1. CASE Announce(j)
  BY <1>1, Zenon DEF Announce, Says, Events, TerminalEvents
<1>2. CASE SayStarted(j)
  BY <1>2, Zenon DEF SayStarted, Says, Events, TerminalEvents
<1>3. CASE SayCompleted(j)
  BY <1>3, Zenon DEF SayCompleted, Says, Events, TerminalEvents
<1>4. CASE SayUserCancelled(j)
  BY <1>4, Zenon DEF SayUserCancelled, Says, Events, TerminalEvents
<1>5. CASE SaysFailed(j)
  BY <1>5, Zenon DEF SaysFailed, SayFailed, Says, Events, TerminalEvents
<1>6. CASE SaysCancelled(j)
  BY <1>6, Zenon DEF SaysCancelled, SayCancelled, Says, Events, TerminalEvents
<1>7. CASE \/ Create(j)
           \/ Submit(j)
           \/ RefuseSubmit(j)
           \/ Take(j)
           \/ BeginRead(j)
           \/ BeginCommit(j)
           \/ Execute(j)
           \/ CompleteRead(j)
           \/ SuccessRead(j)
           \/ CompleteCommit(j)
           \/ Finish(j)
           \/ Capture(j)
           \/ UserCancelRead(j)
           \/ UserCancelCommit(j)
           \/ SignalToken(j)
           \/ Dequeue(j)
           \/ Reject(j)
           \/ RejectEnd(j)
           \/ StopNext(j)
           \/ StopSettle(j)
           \/ FailReads(j)
           \/ FailCommits(j)
           \/ CancelReads(j)
           \/ CancelCommits(j)
  BY <1>7, Zenon DEF Create, Submit, RefuseSubmit, Take, BeginRead, BeginCommit, Execute,
                     CompleteRead, SuccessRead, CompleteCommit, Finish, Capture, UserCancelRead,
                     UserCancelCommit, SignalToken, Dequeue, Reject, RejectEnd, StopNext,
                     StopSettle, FailReads, FailRead, FailCommits, FailCommit, CancelReads,
                     CancelRead, CancelCommits, CancelCommit, Read, Decline, Says
<1>8. QED
  BY <1>1, <1>2, <1>3, <1>4, <1>5, <1>6, <1>7 DEF JobStep

\* The assignments to a row, a turn and a capability.
LEMMA RowFacts ==
    ASSUME TypeOK, NEW j \in Jobs, NEW status \in Status, SetStatus(j, status)
    PROVE  /\ row' \in [Jobs -> Rows]
           /\ row'[j].status = status /\ row'[j].cancelRequested = row[j].cancelRequested
           /\ \A i \in Jobs : i # j => row'[i] = row[i]
<1>1. row \in [Jobs -> Rows] /\ row[j] \in Rows
  BY DEF TypeOK
<1>2. row' = [row EXCEPT ![j] = [row[j] EXCEPT !.status = status]]
  BY DEF SetStatus
<1>3. /\ [row[j] EXCEPT !.status = status] \in Rows
      /\ [row[j] EXCEPT !.status = status].status = status
      /\ [row[j] EXCEPT !.status = status].cancelRequested = row[j].cancelRequested
  BY <1>1 DEF Rows
<1>4. QED
  BY <1>1, <1>2, <1>3

LEMMA TurnFacts ==
    ASSUME TypeOK, NEW j \in Jobs, NEW status \in Status, SetTurn(j, status)
    PROVE  /\ turn' \in [Jobs -> Status]
           /\ kind[j] = "chat" => turn'[j] = status
           /\ kind[j] # "chat" => turn' = turn
           /\ \A i \in Jobs : i # j => turn'[i] = turn[i]
BY DEF SetTurn, ChatJobs, TypeOK

LEMMA EndTurnFacts ==
    ASSUME TypeOK, NEW j \in Jobs, NEW status \in Status, EndTurn(j, status)
    PROVE  /\ turn' \in [Jobs -> Status]
           /\ kind[j] = "chat" /\ turn[j] \in Active => turn'[j] = status
           /\ kind[j] # "chat" \/ turn[j] \notin Active => turn' = turn
           /\ \A i \in Jobs : i # j => turn'[i] = turn[i]
BY TurnFacts DEF EndTurn, TypeOK

LEMMA CapFacts ==
    ASSUME TypeOK, NEW j \in Jobs, NEW status \in Status, NEW from, SetCap(j, from, status)
    PROVE  /\ cap' \in [Jobs -> Status]
           /\ kind[j] = "media" /\ cap[j] \in from => cap'[j] = status
           /\ kind[j] # "media" \/ cap[j] \notin from => cap' = cap
           /\ \A i \in Jobs : i # j => cap'[i] = cap[i]
BY DEF SetCap, MediaJobs, TypeOK

\* A unit of work that cancels.
LEMMA CancelRowFacts ==
    ASSUME TypeOK, NEW j \in Jobs, NEW status \in Status,
           row' = [row EXCEPT ![j] = [status |-> status, cancelRequested |-> TRUE]]
    PROVE  /\ row' \in [Jobs -> Rows]
           /\ row'[j].status = status /\ row'[j].cancelRequested
           /\ \A i \in Jobs : i # j => row'[i] = row[i]
BY DEF TypeOK, Rows

LEMMA Statuses ==
    /\ \A status \in {"none", "queued", "running", "completed", "failed", "cancelled"} : status \in Status
    /\ TypeOK => \A j \in Jobs : row[j].status \in Status
BY DEF Status, Active, Terminal, TypeOK, Rows

\* A step of a job writes of no other job.
LEMMA WriteStep ==
    ASSUME TypeOK, NEW j \in Jobs, JobStep(j)
    PROVE  Writes(j)
<1> USE Statuses
<1>0. UNCHANGED durable => Writes(j)
  BY DEF durable, Writes, TypeOK
<1>a. kind \in [Jobs -> {"none", "chat", "media"}] /\ reply \in [Jobs -> BOOLEAN] /\ "cancelled" \in Status
  BY DEF TypeOK
<1>1. ASSUME Create(j) PROVE Writes(j)
  <2>1. SetStatus(j, "queued") /\ reply' = reply
    BY <1>1 DEF Create, SetStatus
  <2>2. /\ kind' \in [Jobs -> {"none", "chat", "media"}] /\ turn' \in [Jobs -> Status]
        /\ cap' \in [Jobs -> Status]
        /\ \A i \in Jobs : i # j => kind'[i] = kind[i] /\ turn'[i] = turn[i] /\ cap'[i] = cap[i]
    BY <1>1 DEF Create, TypeOK, Status, Active
  <2>3. QED
    BY <2>1, <2>2, RowFacts DEF Writes, TypeOK
<1>2. ASSUME BeginCommit(j) PROVE Writes(j)
  <2>1. CASE /\ SetStatus(j, "running") /\ SetTurn(j, "running") /\ SetCap(j, {"queued"}, "running")
             /\ UNCHANGED <<kind, reply>>
    BY <2>1, RowFacts, TurnFacts, CapFacts DEF Writes, TypeOK
  <2>2. QED
    BY <1>0, <1>2, <2>1 DEF BeginCommit, RollBack
<1>3. ASSUME CompleteCommit(j) PROVE Writes(j)
  <2>1. CASE /\ SetStatus(j, "completed") /\ SetTurn(j, "completed")
             /\ reply' = IF j \in ChatJobs THEN [reply EXCEPT ![j] = TRUE] ELSE reply
             /\ cap' = IF capSaw[j] = "running" THEN [cap EXCEPT ![j] = "completed"] ELSE cap
             /\ UNCHANGED kind
    BY <2>1, RowFacts, TurnFacts DEF Writes, TypeOK
  <2>2. QED
    BY <1>0, <1>3, <2>1 DEF CompleteCommit, RollBack
<1>4. ASSUME UserCancelCommit(j) PROVE Writes(j)
  <2>1. /\ row' = [row EXCEPT ![j] = [status |-> "cancelled", cancelRequested |-> TRUE]]
        /\ EndTurn(j, "cancelled") /\ UNCHANGED <<kind, reply>>
        /\ SetCap(j, IF j \in captured THEN Active ELSE {}, "cancelled")
    BY <1>4 DEF UserCancelCommit
  <2>2. row' \in [Jobs -> Rows] /\ \A i \in Jobs : i # j => row'[i] = row[i]
    BY <2>1, CancelRowFacts
  <2>3. turn' \in [Jobs -> Status] /\ \A i \in Jobs : i # j => turn'[i] = turn[i]
    BY <2>1, <1>a, EndTurnFacts
  <2>4. cap' \in [Jobs -> Status] /\ \A i \in Jobs : i # j => cap'[i] = cap[i]
    BY <2>1, <1>a, CapFacts
  <2>5. QED
    BY <2>1, <2>2, <2>3, <2>4, <1>a DEF Writes
<1>5. ASSUME FailCommits(j) PROVE Writes(j)
  BY <1>5, RowFacts, EndTurnFacts, CapFacts DEF FailCommits, FailCommit, Writes, TypeOK
<1>6. ASSUME CancelCommits(j) PROVE Writes(j)
  <2>1. /\ \E status \in Status : row' = [row EXCEPT ![j] = [status |-> status, cancelRequested |-> TRUE]]
        /\ EndTurn(j, "cancelled") /\ UNCHANGED <<kind, reply>>
        /\ \E from : SetCap(j, from, "cancelled")
    <3>1. PICK a \in Cancellers : CancelCommit(a, j)
      BY <1>6 DEF CancelCommits
    <3>2. PICK wasOpen \in BOOLEAN :
              row' = [row EXCEPT ![j] = [status |-> IF wasOpen THEN "cancelled" ELSE @.status,
                                         cancelRequested |-> TRUE]]
      BY <3>1, Zenon DEF CancelCommit
    <3>3. \E status \in Status : row' = [row EXCEPT ![j] = [status |-> status, cancelRequested |-> TRUE]]
      BY <3>2 DEF TypeOK
    <3>4. EndTurn(j, "cancelled") /\ UNCHANGED <<kind, reply>>
      BY <3>1 DEF CancelCommit
    <3> DEFINE open == saw[a][j].status \notin Terminal
               changed == open \/ turn[j] \in Active
               called == changed /\ (a = "stopper" => j \in registered)
    <3>5. SetCap(j, IF called THEN Active ELSE {}, "cancelled")
      BY <3>1 DEF CancelCommit
    <3>6. \E from : SetCap(j, from, "cancelled")
      BY <3>5, Zenon
    <3>7. QED
      BY <3>3, <3>4, <3>6
  <2>2. row' \in [Jobs -> Rows] /\ \A i \in Jobs : i # j => row'[i] = row[i]
    BY <2>1, CancelRowFacts
  <2>3. turn' \in [Jobs -> Status] /\ \A i \in Jobs : i # j => turn'[i] = turn[i]
    BY <2>1, <1>a, EndTurnFacts
  <2>4. cap' \in [Jobs -> Status] /\ \A i \in Jobs : i # j => cap'[i] = cap[i]
    BY <2>1, <1>a, CapFacts
  <2>5. QED
    BY <2>1, <2>2, <2>3, <2>4, <1>a DEF Writes
<1>7. CASE \/ Announce(j)
           \/ Submit(j)
           \/ RefuseSubmit(j)
           \/ Take(j)
           \/ BeginRead(j)
           \/ SayStarted(j)
           \/ Execute(j)
           \/ CompleteRead(j)
           \/ SuccessRead(j)
           \/ SayCompleted(j)
           \/ Finish(j)
           \/ Capture(j)
           \/ UserCancelRead(j)
           \/ SignalToken(j)
           \/ Dequeue(j)
           \/ SayUserCancelled(j)
           \/ Reject(j)
           \/ RejectEnd(j)
           \/ StopNext(j)
           \/ StopSettle(j)
           \/ FailReads(j)
           \/ SaysFailed(j)
           \/ CancelReads(j)
           \/ SaysCancelled(j)
  BY <1>7, <1>0, Zenon DEF Announce, Submit, RefuseSubmit, Take, BeginRead, SayStarted, Execute,
                           CompleteRead, SuccessRead, SayCompleted, Finish, Capture,
                           UserCancelRead, SignalToken, Dequeue, SayUserCancelled, Reject,
                           RejectEnd, StopNext, StopSettle, FailReads, FailRead, SaysFailed,
                           SayFailed, CancelReads, CancelRead, SaysCancelled, SayCancelled, Read,
                           Decline
<1>8. QED
  BY <1>1, <1>2, <1>3, <1>4, <1>5, <1>6, <1>7, Zenon DEF JobStep

\* A step of a job changes nothing of another job in memory.
LEMMA MemoryStep ==
    ASSUME TypeOK, NEW j \in Jobs, JobStep(j)
    PROVE  Remembers(j)
<1> USE DEF TypeOK, memory, service, Remembers
<1>1. CASE Submit(j)
  BY <1>1 DEF Submit
<1>2. CASE Take(j)
  BY <1>2 DEF Take
<1>3. CASE SuccessRead(j)
  BY <1>3 DEF SuccessRead
<1>4. CASE CompleteCommit(j)
  BY <1>4 DEF CompleteCommit, Status
<1>5. CASE Finish(j)
  BY <1>5 DEF Finish, Pop, SetDone
<1>6. CASE Capture(j)
  BY <1>6 DEF Capture
<1>7. CASE SignalToken(j)
  BY <1>7 DEF SignalToken
<1>8. CASE Dequeue(j)
  BY <1>8 DEF Dequeue, Pop, SetDone
<1>9. CASE Reject(j)
  BY <1>9 DEF Reject
<1>10. CASE RejectEnd(j)
  BY <1>10 DEF RejectEnd, Pop, SetDone
<1>11. CASE StopSettle(j)
  BY <1>11 DEF StopSettle, Pop, SetDone
<1>12. CASE \/ Create(j)
            \/ Announce(j)
            \/ RefuseSubmit(j)
            \/ BeginRead(j)
            \/ BeginCommit(j)
            \/ SayStarted(j)
            \/ Execute(j)
            \/ CompleteRead(j)
            \/ SayCompleted(j)
            \/ UserCancelRead(j)
            \/ UserCancelCommit(j)
            \/ SayUserCancelled(j)
            \/ StopNext(j)
            \/ FailReads(j)
            \/ FailCommits(j)
            \/ SaysFailed(j)
            \/ CancelReads(j)
            \/ CancelCommits(j)
            \/ SaysCancelled(j)
  BY <1>12, Zenon DEF Create, Announce, RefuseSubmit, BeginRead, BeginCommit, SayStarted, Execute,
                      CompleteRead, SayCompleted, UserCancelRead, UserCancelCommit,
                      SayUserCancelled, StopNext, FailReads, FailRead, FailCommits, FailCommit,
                      SaysFailed, SayFailed, CancelReads, CancelRead, CancelCommits, CancelCommit,
                      SaysCancelled, SayCancelled, Read, Decline
<1>13. QED
  BY <1>1, <1>2, <1>3, <1>4, <1>5, <1>6, <1>7, <1>8, <1>9, <1>10, <1>11, <1>12 DEF JobStep

LEMMA TypeJobStep ==
    ASSUME TypeOK, NEW j \in Jobs, JobStep(j)
    PROVE  TypeOK'
<1>1. pc' \in [Actors -> [Jobs -> PCs]]
  BY PcStep, GotoFacts
<1>2. saw' \in [Actors -> [Jobs -> Rows]]
  <2>1. saw \in [Actors -> [Jobs -> Rows]]
    BY DEF TypeOK
  <2>2. QED
    BY <2>1, SawStep, SawFacts
<1>3. log' \in [Jobs -> Seq(Events)]
  BY LogStep, PublishFacts DEF Says, TypeOK
<1>4. Writes(j) /\ Remembers(j)
  BY WriteStep, MemoryStep
<1>5. QED
  BY <1>1, <1>2, <1>3, <1>4 DEF TypeOK, Writes, Remembers, service

LEMMA TypeNext == TypeOK /\ [Next]_vars => TypeOK'
<1> SUFFICES ASSUME TypeOK, [Next]_vars PROVE TypeOK'
  OBVIOUS
<1>1. CASE \E j \in Jobs : JobStep(j)
  BY <1>1, TypeJobStep
<1>2. CASE StopBegin \/ StopClose \/ StopSignal \/ StopJoin
  BY <1>2 DEF StopBegin, StopClose, StopSignal, StopJoin, TypeOK, durable, memory, actors
<1>3. CASE Restart
  <2>1. pc' \in [Actors -> [Jobs -> PCs]]
    <3>1. "idle" \in PCs /\ "end" \in PCs
      BY DEF PCs
    <3>2. pc' = [a \in Actors |-> [j \in Jobs |-> IF pc[a][j] = "idle" THEN "idle" ELSE "end"]]
      BY <1>3, Zenon DEF Restart
    <3>3. QED
      BY <3>1, <3>2
  <2>8. saw' \in [Actors -> [Jobs -> Rows]]
    BY <1>3, RowTypes DEF Restart, ForJobs
  <2>2. row' \in [Jobs -> Rows]
    <3>1. \A j \in Jobs : Swept(row[j].status) \in Status
      BY Statuses DEF Swept, TypeOK, Status, Terminal
    <3>2. \A j \in Jobs : [row[j] EXCEPT !.status = Swept(@)] \in Rows
      BY <3>1 DEF TypeOK, Rows
    <3>3. row' = [j \in Jobs |-> [row[j] EXCEPT !.status = Swept(@)]]
      BY <1>3, Zenon DEF Restart
    <3>4. QED
      BY <3>2, <3>3
  <2>3. turn' \in [Jobs -> Status] /\ cap' \in [Jobs -> Status]
    BY <1>3 DEF Restart, TypeOK, Status, Swept, Terminal
  <2>4. restarts' \in 0 .. MaxRestarts
    BY <1>3, ServiceAssumption DEF Restart, TypeOK
  <2>5. log' \in [Jobs -> Seq(Events)]
    BY <1>3 DEF Restart, ForJobs
  <2>6. capSaw' \in [Jobs -> Status]
    BY <1>3 DEF Restart, ForJobs, Status
  <2>7. QED
    BY <1>3, <2>1, <2>2, <2>3, <2>4, <2>5, <2>6, <2>8 DEF Restart, TypeOK, ForJobs
<1>4. CASE UNCHANGED vars
  BY <1>4 DEF vars, durable, memory, actors, service, TypeOK
<1>5. QED
  BY <1>1, <1>2, <1>3, <1>4, Steps, Zenon DEF ServiceStep

-----------------------------------------------------------------------------
(* A step that is not about a job leaves it alone.                          *)

Unmoved(i) ==
    /\ kind'[i] = kind[i] /\ row'[i] = row[i] /\ turn'[i] = turn[i] /\ cap'[i] = cap[i]
    /\ reply'[i] = reply[i] /\ log'[i] = log[i] /\ place'[i] = place[i] /\ capSaw'[i] = capSaw[i]
    /\ \A a \in Actors : pc'[a][i] = pc[a][i] /\ saw'[a][i] = saw[a][i]
    /\ isolated' = isolated

LEMMA OthersUnmoved ==
    ASSUME TypeOK, NEW j \in Jobs, JobStep(j), NEW i \in Jobs, i # j
    PROVE  Unmoved(i)
<1>1. \A a \in Actors : pc'[a][i] = pc[a][i]
  BY PcStep, GotoFacts
<1>2. \A a \in Actors : saw'[a][i] = saw[a][i]
  BY SawStep, SawFacts
<1>3. log'[i] = log[i]
  BY LogStep, PublishFacts DEF Says
<1>4. Writes(j) /\ Remembers(j)
  BY WriteStep, MemoryStep
<1>5. QED
  BY <1>1, <1>2, <1>3, <1>4 DEF Writes, Remembers, Unmoved, service

LEMMA UnmovedKeeps ==
    ASSUME NEW i \in Jobs, Unmoved(i)
    PROVE  /\ JobInv(i) => JobInv(i)'
           /\ IsolatedInv(i) => IsolatedInv(i)'
<1> USE DEF Unmoved, Actors
<1>1. JobInv(i) => JobInv(i)'
  BY DEF JobInv, Untouched, KindFits, NotYetTaken, ReplyFits, CompletedLast
<1>2. ReadsHold(i) => ReadsHold(i)'
  BY DEF ReadsHold
<1>3. KeptTogether(i) => KeptTogether(i)'
  BY DEF KeptTogether
<1>4. Endings(i)' = Endings(i)
  BY DEF Endings
<1>5. \A a \in Actors : Owes(a, i)' = Owes(a, i) /\ Announcement(a, i)' = Announcement(a, i)
  BY DEF Owes, Announcement
<1>6. OneAnnouncer(i) => OneAnnouncer(i)'
  BY <1>4, <1>5 DEF OneAnnouncer, EventOf
<1>7. EndsOnce(i) => EndsOnce(i)'
  BY <1>4 DEF EndsOnce, EventOf
<1>8. QED
  BY <1>1, <1>2, <1>3, <1>6, <1>7 DEF IsolatedInv

-----------------------------------------------------------------------------
(* What holds although units of work overlap.                               *)

\* What each commit does to the rows of its job.
LEMMA FailCommitFacts ==
    ASSUME TypeOK, NEW j \in Jobs, NEW a \in Failers, FailCommit(a, j)
    PROVE  /\ kind' = kind /\ reply' = reply
           /\ row'[j].status = "failed"
           /\ turn'[j] = IF kind[j] = "chat" /\ turn[j] \in Active THEN "failed" ELSE turn[j]
           /\ cap'[j] = IF kind[j] = "media" /\ cap[j] \in Active THEN "failed" ELSE cap[j]
<1>1. SetStatus(j, "failed") /\ EndTurn(j, "failed") /\ SetCap(j, Active, "failed")
  BY DEF FailCommit
<1>2. kind' = kind /\ reply' = reply
  BY DEF FailCommit
<1>3. QED
  BY <1>1, <1>2, RowFacts, EndTurnFacts, CapFacts, Statuses

LEMMA CancelCommitFacts ==
    ASSUME TypeOK, NEW j \in Jobs, NEW a \in Cancellers, CancelCommit(a, j)
    PROVE  /\ kind' = kind /\ reply' = reply
           /\ row'[j].status = IF saw[a][j].status \in Terminal THEN row[j].status ELSE "cancelled"
           /\ turn'[j] = IF kind[j] = "chat" /\ turn[j] \in Active THEN "cancelled" ELSE turn[j]
           /\ cap'[j] = cap[j] \/ (kind[j] = "media" /\ cap[j] \in Active /\ cap'[j] = "cancelled")
           /\ saw[a][j].status \in Terminal /\ turn[j] \notin Active => cap'[j] = cap[j]
<1> DEFINE open == saw[a][j].status \notin Terminal
           changed == open \/ turn[j] \in Active
           called == changed /\ (a = "stopper" => j \in registered)
<1>1. row' = [row EXCEPT ![j] = [status |-> IF open THEN "cancelled" ELSE row[j].status,
                                 cancelRequested |-> TRUE]]
  BY DEF CancelCommit, TypeOK
<1>2. (IF open THEN "cancelled" ELSE row[j].status) \in Status
  BY Statuses
<1>3. row'[j].status = IF open THEN "cancelled" ELSE row[j].status
  BY <1>1, <1>2, CancelRowFacts
<1>4. EndTurn(j, "cancelled") /\ SetCap(j, IF called THEN Active ELSE {}, "cancelled")
  BY DEF CancelCommit
<1>5. kind' = kind /\ reply' = reply
  BY DEF CancelCommit
<1>6. turn'[j] = IF kind[j] = "chat" /\ turn[j] \in Active THEN "cancelled" ELSE turn[j]
  BY <1>4, EndTurnFacts, Statuses
<1> HIDE DEF called
<1>7. cap'[j] = IF kind[j] = "media" /\ cap[j] \in (IF called THEN Active ELSE {}) THEN "cancelled" ELSE cap[j]
  BY <1>4, CapFacts, Statuses
<1> USE DEF called
<1>8. QED
  BY <1>3, <1>5, <1>6, <1>7

LEMMA UserCancelFacts ==
    ASSUME TypeOK, NEW j \in Jobs, UserCancelCommit(j)
    PROVE  /\ kind' = kind /\ reply' = reply
           /\ row'[j].status = "cancelled"
           /\ turn'[j] = IF kind[j] = "chat" /\ turn[j] \in Active THEN "cancelled" ELSE turn[j]
           /\ cap'[j] = cap[j] \/ (kind[j] = "media" /\ cap[j] \in Active /\ cap'[j] = "cancelled")
<1>1. row' = [row EXCEPT ![j] = [status |-> "cancelled", cancelRequested |-> TRUE]]
  BY DEF UserCancelCommit
<1>2. EndTurn(j, "cancelled") /\ SetCap(j, IF j \in captured THEN Active ELSE {}, "cancelled")
  BY DEF UserCancelCommit
<1>3. kind' = kind /\ reply' = reply
  BY DEF UserCancelCommit
<1>4. row'[j].status = "cancelled"
  BY <1>1, CancelRowFacts, Statuses
<1>5. turn'[j] = IF kind[j] = "chat" /\ turn[j] \in Active THEN "cancelled" ELSE turn[j]
  BY <1>2, EndTurnFacts, Statuses
<1>6. cap'[j] = cap[j] \/ (kind[j] = "media" /\ cap[j] \in Active /\ cap'[j] = "cancelled")
  BY <1>2, CapFacts, Statuses
<1>7. QED
  BY <1>3, <1>4, <1>5, <1>6

LEMMA BeginCommitFacts ==
    ASSUME TypeOK, NEW j \in Jobs, BeginCommit(j)
    PROVE  \/ UNCHANGED durable /\ Goto("worker", j, "fail")
           \/ /\ Legal(saw["worker"][j].status, "running")
              /\ kind[j] = "chat" => Legal(turn[j], "running")
              /\ kind' = kind /\ reply' = reply
              /\ row'[j].status = "running"
              /\ turn'[j] = IF kind[j] = "chat" THEN "running" ELSE turn[j]
              /\ cap'[j] = IF kind[j] = "media" /\ cap[j] = "queued" THEN "running" ELSE cap[j]
              /\ Goto("worker", j, "started")
<1>1. CASE /\ Legal(saw["worker"][j].status, "running")
           /\ j \in ChatJobs => Legal(turn[j], "running")
  <2>1. /\ SetStatus(j, "running") /\ SetTurn(j, "running") /\ SetCap(j, {"queued"}, "running")
        /\ Goto("worker", j, "started") /\ UNCHANGED <<kind, reply>>
    BY <1>1 DEF BeginCommit
  <2>2. kind[j] = "chat" => Legal(turn[j], "running")
    BY <1>1 DEF ChatJobs
  <2>3. row'[j].status = "running"
    BY <2>1, RowFacts, Statuses
  <2>4. turn'[j] = IF kind[j] = "chat" THEN "running" ELSE turn[j]
    BY <2>1, TurnFacts, Statuses
  <2>5. cap'[j] = IF kind[j] = "media" /\ cap[j] = "queued" THEN "running" ELSE cap[j]
    BY <2>1, CapFacts, Statuses
  <2>6. QED
    BY <1>1, <2>1, <2>2, <2>3, <2>4, <2>5
<1>2. CASE ~(/\ Legal(saw["worker"][j].status, "running")
             /\ j \in ChatJobs => Legal(turn[j], "running"))
  BY <1>2 DEF BeginCommit, RollBack
<1>3. QED
  BY <1>1, <1>2

LEMMA CompleteCommitFacts ==
    ASSUME TypeOK, NEW j \in Jobs, CompleteCommit(j)
    PROVE  \/ UNCHANGED durable /\ Goto("worker", j, "fail")
           \/ /\ Legal(saw["worker"][j].status, "completed")
              /\ kind[j] = "chat" => Legal(turn[j], "completed")
              /\ kind' = kind
              /\ reply' = IF kind[j] = "chat" THEN [reply EXCEPT ![j] = TRUE] ELSE reply
              /\ row'[j].status = "completed"
              /\ turn'[j] = IF kind[j] = "chat" THEN "completed" ELSE turn[j]
              /\ turn' = IF kind[j] = "chat" THEN [turn EXCEPT ![j] = "completed"] ELSE turn
              /\ cap'[j] = IF capSaw[j] = "running" THEN "completed" ELSE cap[j]
              /\ Goto("worker", j, IF kind[j] = "chat" THEN "say-completed" ELSE "finish")
<1>1. CASE /\ Legal(saw["worker"][j].status, "completed")
           /\ j \in ChatJobs => Legal(turn[j], "completed")
  <2>1. /\ SetStatus(j, "completed") /\ SetTurn(j, "completed")
        /\ reply' = IF j \in ChatJobs THEN [reply EXCEPT ![j] = TRUE] ELSE reply
        /\ cap' = IF capSaw[j] = "running" THEN [cap EXCEPT ![j] = "completed"] ELSE cap
        /\ Goto("worker", j, IF j \in ChatJobs THEN "say-completed" ELSE "finish")
        /\ UNCHANGED kind
    BY <1>1 DEF CompleteCommit
  <2>2. j \in ChatJobs <=> kind[j] = "chat"
    BY DEF ChatJobs
  <2>3. row'[j].status = "completed"
    BY <2>1, RowFacts, Statuses
  <2>4. turn'[j] = IF kind[j] = "chat" THEN "completed" ELSE turn[j]
    BY <2>1, TurnFacts, Statuses
  <2>5. cap'[j] = IF capSaw[j] = "running" THEN "completed" ELSE cap[j]
    BY <2>1 DEF TypeOK
  <2>6. turn' = IF kind[j] = "chat" THEN [turn EXCEPT ![j] = "completed"] ELSE turn
    BY <2>1, <2>2 DEF SetTurn
  <2>7. QED
    BY <1>1, <2>1, <2>2, <2>3, <2>4, <2>5, <2>6
<1>2. CASE ~(/\ Legal(saw["worker"][j].status, "completed")
             /\ j \in ChatJobs => Legal(turn[j], "completed"))
  BY <1>2 DEF CompleteCommit, RollBack
<1>3. QED
  BY <1>1, <1>2

LEMMA CreateFacts ==
    ASSUME TypeOK, NEW j \in Jobs, Create(j)
    PROVE  /\ reply' = reply /\ row'[j].status = "queued"
           /\ \/ /\ kind'[j] = "chat" /\ turn' = [turn EXCEPT ![j] = "queued"] /\ cap' = cap
                 /\ Goto("submitter", j, "announce")
              \/ /\ kind'[j] = "media" /\ cap' = [cap EXCEPT ![j] = "queued"] /\ turn' = turn
                 /\ Goto("submitter", j, "submit")
<1>1. SetStatus(j, "queued")
  BY DEF Create, SetStatus
<1>2. QED
  BY <1>1, RowFacts, Statuses DEF Create, TypeOK

\* The steps that write into the database.
LEMMA Writers ==
    ASSUME NEW j \in Jobs, JobStep(j)
    PROVE  \/ UNCHANGED durable
           \/ Create(j) \/ BeginCommit(j) \/ CompleteCommit(j)
           \/ UserCancelCommit(j) \/ FailCommits(j) \/ CancelCommits(j)
<1>1. CASE \/ Announce(j)
           \/ Submit(j)
           \/ RefuseSubmit(j)
           \/ Take(j)
           \/ BeginRead(j)
           \/ SayStarted(j)
           \/ Execute(j)
           \/ CompleteRead(j)
           \/ SuccessRead(j)
           \/ SayCompleted(j)
           \/ Finish(j)
           \/ Capture(j)
           \/ UserCancelRead(j)
           \/ SignalToken(j)
           \/ Dequeue(j)
           \/ SayUserCancelled(j)
           \/ Reject(j)
           \/ RejectEnd(j)
           \/ StopNext(j)
           \/ StopSettle(j)
           \/ FailReads(j)
           \/ SaysFailed(j)
           \/ CancelReads(j)
           \/ SaysCancelled(j)
  BY <1>1, Zenon DEF Announce, Submit, RefuseSubmit, Take, BeginRead, SayStarted, Execute,
                    CompleteRead, SuccessRead, SayCompleted, Finish, Capture, UserCancelRead,
                    SignalToken, Dequeue, SayUserCancelled, Reject, RejectEnd, StopNext, StopSettle,
                    FailReads, FailRead, SaysFailed, SayFailed, CancelReads, CancelRead,
                    SaysCancelled, SayCancelled, Read, Decline
<1>2. QED
  BY <1>1, Zenon DEF JobStep

\* A step is about a job that was created, or creates it.
LEMMA Created ==
    ASSUME TypeOK, NEW j \in Jobs, JobInv(j), JobStep(j)
    PROVE  Create(j) \/ (kind[j] # "none" /\ kind' = kind)
<1>1. kind' = kind \/ Create(j)
  BY Writers, FailCommitFacts, CancelCommitFacts, UserCancelFacts, BeginCommitFacts,
     CompleteCommitFacts
     DEF durable, FailCommits, CancelCommits
<1>2. ASSUME kind[j] = "none" PROVE Create(j)
  <2>1. \A a \in Actors : pc[a][j] = "idle"
    BY <1>2 DEF JobInv, Untouched
  <2>2. place[j] \notin {"pending", "detached"} /\ row[j].status = "none" /\ j \notin MediaJobs
    BY <1>2, <2>1 DEF JobInv, NotYetTaken, KindFits, MediaJobs, Actors
  <2>3. QED
    BY <2>1, <2>2, Zenon
       DEF JobStep, Announce, Submit, RefuseSubmit, Take, BeginRead, BeginCommit, SayStarted, Execute,
           CompleteRead, SuccessRead, CompleteCommit, SayCompleted, Finish, Capture, UserCancelRead,
           UserCancelCommit, SignalToken, Dequeue, SayUserCancelled, Reject, RejectEnd, StopNext,
           StopSettle, FailReads, FailRead, FailCommits, FailCommit, SaysFailed, SayFailed,
           CancelReads, CancelRead, CancelCommits, CancelCommit, SaysCancelled, SayCancelled,
           Actors, Failers, Cancellers
<1>3. QED
  BY <1>1, <1>2

LEMMA UntouchedStep ==
    ASSUME TypeOK, NEW j \in Jobs, JobInv(j), JobStep(j)
    PROVE  Untouched(j)'
<1>1. PICK a \in Actors, where \in PCs \ {"idle"} : Goto(a, j, where)
  BY PcStep
<1>2. /\ pc'[a][j] = where
      /\ \A b \in Actors : b # a => pc'[b][j] = pc[b][j]
  BY <1>1, GotoFacts
<1>3. CASE Create(j)
  <2>2. pc'["submitter"][j] # "idle" /\ kind'[j] # "none"
    BY <1>3, CreateFacts, GotoFacts DEF PCs, Actors
  <2>3. QED
    BY <2>2 DEF Untouched
<1>4. CASE kind[j] # "none" /\ kind' = kind
  <2>1. pc["submitter"][j] # "idle"
    BY <1>4 DEF JobInv, Untouched
  <2>2. pc'["submitter"][j] # "idle"
    BY <1>2, <2>1 DEF Actors
  <2>3. QED
    BY <1>4, <2>2 DEF Untouched
<1>5. QED
  BY <1>3, <1>4, Created

LEMMA KindFitsStep ==
    ASSUME TypeOK, NEW j \in Jobs, JobInv(j), JobStep(j)
    PROVE  KindFits(j)'
<1> USE DEF KindFits
<1>0. KindFits(j) /\ turn[j] \in Status /\ cap[j] \in Status
  BY DEF JobInv, TypeOK
<1>1. capSaw'[j] # "none" => capSaw[j] # "none" \/ cap[j] # "none"
  <2>1. capSaw' = capSaw \/ capSaw' = [capSaw EXCEPT ![j] = cap[j]] \/ capSaw' = [capSaw EXCEPT ![j] = "none"]
    BY Zenon DEF JobStep, Create, Announce, Submit, RefuseSubmit, Take, BeginRead, BeginCommit,
                 SayStarted,
               Execute, CompleteRead, SuccessRead, CompleteCommit, SayCompleted, Finish, Capture,
               UserCancelRead, UserCancelCommit, SignalToken, Dequeue, SayUserCancelled, Reject,
               RejectEnd, StopNext, StopSettle, FailReads, FailRead, FailCommits, FailCommit,
               SaysFailed, SayFailed, CancelReads, CancelRead, CancelCommits, CancelCommit,
               SaysCancelled, SayCancelled,
               Read, Decline
  <2>2. QED
    BY <2>1 DEF TypeOK
<1>2. CASE UNCHANGED durable
  BY <1>0, <1>1, <1>2 DEF durable
<1>3. CASE Create(j)
  <2>1. kind[j] = "none"
    BY <1>3 DEF Create, JobInv, Untouched
  <2>2. capSaw'[j] = capSaw[j]
    BY <1>3 DEF Create
  <2>3. QED
    BY <1>0, <1>3, <2>1, <2>2, CreateFacts DEF TypeOK
<1>4. CASE BeginCommit(j)
  BY <1>0, <1>1, <1>2, <1>4, BeginCommitFacts, <1>3, Created
<1>5. CASE CompleteCommit(j)
  BY <1>0, <1>1, <1>2, <1>5, CompleteCommitFacts, <1>3, Created
<1>6. CASE UserCancelCommit(j)
  BY <1>0, <1>1, <1>6, UserCancelFacts, <1>3, Created DEF Active
<1>7. CASE FailCommits(j)
  BY <1>0, <1>1, <1>7, FailCommitFacts, <1>3, Created DEF FailCommits, Active
<1>8. CASE CancelCommits(j)
  BY <1>0, <1>1, <1>8, CancelCommitFacts, <1>3, Created DEF CancelCommits, Active
<1>9. QED
  BY <1>2, <1>3, <1>4, <1>5, <1>6, <1>7, <1>8, Writers

\* Where the worker and the submitter are after a step.
LEMMA WhoMoves ==
    ASSUME TypeOK, NEW j \in Jobs, JobStep(j)
    PROVE  /\ \/ pc'["worker"][j] = pc["worker"][j]
              \/ pc["worker"][j] # "idle"
              \/ Take(j)
           /\ \/ pc'["submitter"][j] = pc["submitter"][j]
              \/ pc'["submitter"][j] \notin {"idle", "announce", "submit"}
              \/ Create(j) \/ Announce(j)
           /\ \/ pc'["worker"][j] = pc["worker"][j]
              \/ pc["worker"][j] \notin {"say-completed", "finish", "end"}
              \/ pc'["worker"][j] \in {"say-completed", "finish", "end"}
              \/ Take(j)
BY PcStep, GotoFacts DEF Leaves, Actors

LEMMA NotYetTakenStep ==
    ASSUME TypeOK, NEW j \in Jobs, JobInv(j), JobStep(j)
    PROVE  NotYetTaken(j)'
<1>1. \/ place'[j] = place[j] \/ place'[j] = "none"
      \/ place'[j] = "pending" /\ Submit(j)
      \/ place'[j] = "taken" /\ Take(j)
  <2>1. \/ place' = place \/ place' = [place EXCEPT ![j] = "none"]
        \/ place' = [place EXCEPT ![j] = "pending"] /\ Submit(j)
        \/ place' = [place EXCEPT ![j] = "taken"] /\ Take(j)
    <3>1. CASE Dequeue(j) \/ Submit(j) \/ Take(j) \/ Finish(j) \/ Reject(j) \/ StopSettle(j)
      BY <3>1 DEF Dequeue, Submit, Take, Finish, Reject, StopSettle
    <3>2. CASE ~(Dequeue(j) \/ Submit(j) \/ Take(j) \/ Finish(j) \/ Reject(j) \/ StopSettle(j))
      BY <3>2, Zenon DEF JobStep, Create, Announce, RefuseSubmit, BeginRead, BeginCommit,
                         SayStarted, Execute,
               CompleteRead, SuccessRead, CompleteCommit, SayCompleted, Capture, UserCancelRead,
               UserCancelCommit, SignalToken, SayUserCancelled, RejectEnd, StopNext, FailReads,
               FailRead, FailCommits, FailCommit, SaysFailed, SayFailed, CancelReads, CancelRead,
               CancelCommits, CancelCommit, SaysCancelled, SayCancelled,
             Read, Decline, memory
    <3>3. QED
      BY <3>1, <3>2
  <2>2. QED
    BY <2>1 DEF TypeOK
<1>2. pc["worker"][j] = "idle" => pc'["worker"][j] = "idle" \/ Take(j)
  BY WhoMoves DEF Actors
<1>3. pc'["submitter"][j] \in {"idle", "announce", "submit"} =>
        pc["submitter"][j] \in {"idle", "announce", "submit"} /\ ~Submit(j)
  <2>1. Submit(j) => pc'["submitter"][j] = "end"
    BY GotoFacts DEF Submit, Actors, PCs
  <2>2. Create(j) \/ Announce(j) => pc["submitter"][j] \in {"idle", "announce"}
    BY DEF Create, Announce
  <2>3. QED
    BY <2>1, <2>2, WhoMoves DEF Actors
<1>4. /\ Submit(j) => pc["submitter"][j] = "submit"
      /\ Take(j) => place[j] = "pending" /\ place'[j] = "taken"
  BY DEF Submit, Take, TypeOK
<1>5. QED
  BY <1>1, <1>2, <1>3, <1>4 DEF NotYetTaken, JobInv

LEMMA ReplyFitsStep ==
    ASSUME TypeOK, NEW j \in Jobs, JobInv(j), JobStep(j)
    PROVE  ReplyFits(j)'
<1>0. ReplyFits(j) /\ reply[j] \in BOOLEAN /\ turn[j] \in Status
  BY DEF JobInv, TypeOK
<1>1. CASE UNCHANGED durable
  BY <1>0, <1>1 DEF durable, ReplyFits
<1>2. CASE Create(j)
  <2>1. kind[j] = "none" /\ ~reply[j]
    BY <1>2 DEF Create, JobInv, Untouched
  <2>2. QED
    BY <1>2, <2>1, CreateFacts DEF TypeOK, ReplyFits
<1>3. CASE BeginCommit(j)
  BY <1>0, <1>1, <1>3, BeginCommitFacts DEF ReplyFits, Legal
<1>4. CASE CompleteCommit(j)
  BY <1>0, <1>1, <1>4, CompleteCommitFacts DEF ReplyFits, TypeOK
<1>5. CASE UserCancelCommit(j)
  BY <1>0, <1>5, UserCancelFacts DEF ReplyFits, Active
<1>6. CASE FailCommits(j)
  BY <1>0, <1>6, FailCommitFacts DEF FailCommits, ReplyFits, Active
<1>7. CASE CancelCommits(j)
  BY <1>0, <1>7, CancelCommitFacts DEF CancelCommits, ReplyFits, Active
<1>8. QED
  BY <1>1, <1>2, <1>3, <1>4, <1>5, <1>6, <1>7, Writers

LEMMA CompletedLastStep ==
    ASSUME TypeOK, NEW j \in Jobs, JobInv(j), JobStep(j)
    PROVE  CompletedLast(j)'
<1>1. \/ pc'["worker"][j] = pc["worker"][j]
      \/ pc["worker"][j] \notin {"say-completed", "finish", "end"}
      \/ pc'["worker"][j] \in {"say-completed", "finish", "end"}
  <2>1. Take(j) => pc["worker"][j] = "idle"
    BY DEF Take, JobInv, NotYetTaken
  <2>2. QED
    BY <2>1, WhoMoves
<1>2. CASE UNCHANGED durable
  BY <1>1, <1>2 DEF durable, CompletedLast, JobInv
<1>3. CASE CompleteCommit(j)
  <2>1. CASE UNCHANGED durable
    BY <1>2, <2>1
  <2>2. CASE Goto("worker", j, IF kind[j] = "chat" THEN "say-completed" ELSE "finish")
    BY <2>2, GotoFacts DEF PCs, Actors, CompletedLast
  <2>3. QED
    BY <1>3, <2>1, <2>2, CompleteCommitFacts
<1>4. CASE CancelCommits(j)
  BY <1>1, <1>4, CancelCommitFacts DEF CancelCommits, CompletedLast, JobInv
<1>5. QED
  BY <1>2, <1>3, <1>4, Writers, CreateFacts, BeginCommitFacts, UserCancelFacts, FailCommitFacts
     DEF FailCommits, CompletedLast

\* A new process finds every job that was created, and nothing under way.
LEMMA RestartedJob ==
    ASSUME TypeOK, NEW j \in Jobs, Restart
    PROVE  /\ kind' = kind /\ reply' = reply /\ isolated' = isolated
           /\ row'[j].status = Swept(row[j].status)
           /\ turn'[j] = Swept(turn[j]) /\ cap'[j] = Swept(cap[j])
           /\ log'[j] = <<>> /\ place'[j] = "none" /\ capSaw'[j] = "none"
           /\ \A a \in Actors : pc'[a][j] = (IF pc[a][j] = "idle" THEN "idle" ELSE "end") /\ saw'[a][j] = NoRow
<1>1. kind' = kind /\ reply' = reply /\ isolated' = isolated
  BY Zenon DEF Restart
<1>2. row'[j] = [row[j] EXCEPT !.status = Swept(@)] /\ turn'[j] = Swept(turn[j]) /\ cap'[j] = Swept(cap[j])
  BY Zenon DEF Restart
<1>3. row[j] \in Rows
  BY DEF TypeOK
<1>4. log'[j] = <<>> /\ place'[j] = "none" /\ capSaw'[j] = "none"
  BY Zenon DEF Restart, ForJobs
<1>5. \A a \in Actors : pc'[a][j] = (IF pc[a][j] = "idle" THEN "idle" ELSE "end") /\ saw'[a][j] = NoRow
  BY Zenon DEF Restart, ForJobs
<1>6. QED
  BY <1>1, <1>2, <1>3, <1>4, <1>5 DEF Rows

\* The steps of the service as a whole, Restart apart.
LEMMA StopSteps ==
    ASSUME TypeOK, NEW j \in Jobs, StopBegin \/ StopClose \/ StopSignal \/ StopJoin
    PROVE  /\ kind' = kind /\ row' = row /\ turn' = turn /\ cap' = cap /\ reply' = reply /\ log' = log
           /\ pc' = pc /\ saw' = saw /\ capSaw' = capSaw /\ isolated' = isolated
           /\ place'[j] = place[j] \/ (place[j] = "pending" /\ place'[j] = "detached")
BY DEF StopBegin, StopClose, StopSignal, StopJoin, durable, memory, actors, TypeOK

LEMMA ServiceInvInit == Init => ServiceInv
<1> SUFFICES ASSUME Init PROVE ServiceInv
  OBVIOUS
<1>1. \A j \in Jobs : JobInv(j)
  BY DEF Init, ForJobs, NoRow, Actors, JobInv, Untouched, KindFits, NotYetTaken, ReplyFits,
     CompletedLast
<1>2. QED
  BY <1>1, TypeInit DEF ServiceInv

LEMMA JobInvRestart ==
    ASSUME TypeOK, NEW j \in Jobs, JobInv(j), Restart
    PROVE  JobInv(j)'
<1> USE RestartedJob
<1>0. /\ row[j].status \in Status /\ turn[j] \in Status /\ cap[j] \in Status
      /\ \A status \in Status : (Swept(status) = "none" <=> status = "none")
                                /\ (Swept(status) = "completed" <=> status = "completed")
  BY Statuses DEF TypeOK, Swept, Status, Active, Terminal
<1>1. Untouched(j)'
  BY DEF JobInv, Untouched, Actors
<1>2. KindFits(j)'
  BY <1>0 DEF JobInv, KindFits
<1>3. NotYetTaken(j)'
  BY DEF JobInv, NotYetTaken, Actors
<1>4. ReplyFits(j)'
  BY <1>0 DEF JobInv, ReplyFits
<1>5. CompletedLast(j)'
  BY <1>0 DEF JobInv, CompletedLast, Actors
<1>6. QED
  BY <1>1, <1>2, <1>3, <1>4, <1>5 DEF JobInv

LEMMA ServiceInvNext == ServiceInv /\ [Next]_vars => ServiceInv'
<1> SUFFICES ASSUME ServiceInv, [Next]_vars PROVE ServiceInv'
  OBVIOUS
<1>1. TypeOK /\ TypeOK'
  BY TypeNext DEF ServiceInv
<1> SUFFICES ASSUME NEW i \in Jobs PROVE JobInv(i)'
  BY <1>1 DEF ServiceInv
<1>2. JobInv(i)
  BY DEF ServiceInv
<1>3. ASSUME NEW j \in Jobs, JobStep(j) PROVE JobInv(i)'
  <2>1. CASE i = j
    BY <1>1, <1>2, <1>3, <2>1, UntouchedStep, KindFitsStep, NotYetTakenStep, ReplyFitsStep,
       CompletedLastStep,
       Zenon DEF JobInv
  <2>2. CASE i # j
    BY <1>1, <1>2, <1>3, <2>2, OthersUnmoved, UnmovedKeeps
  <2>3. QED
    BY <2>1, <2>2
<1>4. CASE StopBegin \/ StopClose \/ StopSignal \/ StopJoin
  BY <1>1, <1>2, <1>4, StopSteps DEF JobInv, Untouched, KindFits, NotYetTaken, ReplyFits,
                                     CompletedLast
<1>5. CASE Restart
  BY <1>1, <1>2, <1>5, JobInvRestart
<1>6. CASE UNCHANGED vars
  BY <1>2, <1>6 DEF vars, durable, memory, actors, service, JobInv, Untouched, KindFits,
                    NotYetTaken, ReplyFits, CompletedLast
<1>7. QED
  BY <1>3, <1>4, <1>5, <1>6, Steps, Zenon DEF ServiceStep

LEMMA ServiceInvariance == Spec => []ServiceInv
<1>1. Init => ServiceInv
  BY ServiceInvInit
<1>2. ServiceInv /\ [Next]_vars => ServiceInv'
  BY ServiceInvNext
<1>3. QED
  BY <1>1, <1>2, PTL DEF Spec

\* Overlapping units of work or not: a message of the assistant is stored
\* exactly for the turns that completed (on_generated inside _complete).
THEOREM RepliesAreOfCompletedTurns == Spec => []ReplyIffCompleted
<1>1. ServiceInv => ReplyIffCompleted
  BY DEF ServiceInv, JobInv, ReplyFits, ReplyIffCompleted, ChatJobs
<1>2. QED
  BY <1>1, ServiceInvariance, PTL

-----------------------------------------------------------------------------
(* A turn behaves as TurnContract says.                                     *)

LEMMA ContractStep ==
    ASSUME ServiceInv, [Next]_vars
    PROVE  [Contract!Next]_(Contract!vars)
<1> USE DEF Contract!Next, Contract!vars, Contract!Move, Contract!Active, Active
<1>1. TypeOK
  BY DEF ServiceInv
<1>2. ASSUME NEW j \in Jobs, JobStep(j) PROVE [Contract!Next]_(Contract!vars)
  <2>0. turn \in [Jobs -> Status] /\ reply \in [Jobs -> BOOLEAN] /\ JobInv(j)
    BY DEF ServiceInv, TypeOK
  <2>1. CASE UNCHANGED durable
    BY <2>1 DEF durable
  <2>2. CASE Create(j)
    <3>1. kind[j] = "none" /\ turn[j] = "none"
      BY <2>0, <2>2 DEF JobInv, Untouched, KindFits, Create
    <3>2. reply' = reply /\ (turn' = turn \/ turn' = [turn EXCEPT ![j] = "queued"])
      BY <1>1, <2>2, CreateFacts
    <3>3. QED
      BY <3>1, <3>2 DEF Contract!Open
  <2>3. CASE BeginCommit(j)
    <3>1. \/ UNCHANGED <<turn, reply>>
          \/ reply' = reply /\ SetTurn(j, "running") /\ (kind[j] = "chat" => Legal(turn[j], "running"))
      BY <2>3 DEF BeginCommit, RollBack, durable, ChatJobs
    <3>2. QED
      BY <2>0, <3>1 DEF SetTurn, ChatJobs, Legal, Contract!Start
  <2>4. CASE CompleteCommit(j)
    <3>1. \/ UNCHANGED <<turn, reply>>
          \/ /\ turn[j] \in {"running", "completed"} /\ (reply[j] <=> turn[j] = "completed")
             /\ turn' = [turn EXCEPT ![j] = "completed"] /\ reply' = [reply EXCEPT ![j] = TRUE]
      BY <1>1, <2>0, <2>4, CompleteCommitFacts DEF JobInv, ReplyFits, Legal, durable
    <3>2. CASE turn[j] = "completed"
      BY <2>0, <3>1, <3>2
    <3>3. CASE turn[j] = "running" /\ turn' = [turn EXCEPT ![j] = "completed"] /\ reply' = [reply EXCEPT ![j] = TRUE]
      BY <3>3 DEF Contract!Complete
    <3>4. QED
      BY <3>1, <3>2, <3>3
  <2>5. CASE UserCancelCommit(j)
    <3>1. reply' = reply /\ EndTurn(j, "cancelled")
      BY <2>5 DEF UserCancelCommit
    <3>2. QED
      BY <2>0, <3>1 DEF EndTurn, SetTurn, Contract!Cancel
  <2>6. CASE FailCommits(j)
    <3>1. reply' = reply /\ EndTurn(j, "failed")
      BY <2>6 DEF FailCommits, FailCommit
    <3>2. QED
      BY <2>0, <3>1 DEF EndTurn, SetTurn, Contract!Fail
  <2>7. CASE CancelCommits(j)
    <3>1. reply' = reply /\ EndTurn(j, "cancelled")
      BY <2>7 DEF CancelCommits, CancelCommit
    <3>2. QED
      BY <2>0, <3>1 DEF EndTurn, SetTurn, Contract!Cancel
  <2>8. QED
    BY <1>2, <2>1, <2>2, <2>3, <2>4, <2>5, <2>6, <2>7, Writers
<1>3. CASE StopBegin \/ StopClose \/ StopSignal \/ StopJoin
  BY <1>3 DEF StopBegin, StopClose, StopSignal, StopJoin, durable
<1>4. CASE Restart
  <2>1. turn' = [j \in Jobs |-> Swept(turn[j])] /\ reply' = reply
    BY <1>4, Zenon DEF Restart
  <2>2. QED
    BY <2>1 DEF Swept, Contract!Interrupt
<1>5. CASE UNCHANGED vars
  BY <1>5 DEF vars, durable
<1>6. QED
  BY <1>2, <1>3, <1>4, <1>5, Steps, Zenon DEF ServiceStep

\* The turns of the service implement TurnContract: opened once, ended once and
\* for good, with a message exactly when completed.
THEOREM ServiceKeepsContract == Spec => KeepsContract
<1>1. Init => Contract!Init
  BY DEF Init, ForJobs, Contract!Init
<1>2. ServiceInv /\ [Next]_vars => [Contract!Next]_(Contract!vars)
  BY ContractStep
<1>3. QED
  BY <1>1, <1>2, ServiceInvariance, PTL DEF Spec, KeepsContract, Contract!Spec

-----------------------------------------------------------------------------
(* What needs units of work that do not overlap.                            *)

\* The four ways a step of a job may meet its units of work: one begins, one
\* reads its capability, one commits, or none is touched.
Begins(j) ==
    /\ \A b \in Actors : pc[b][j] \notin InUow
    /\ UNCHANGED durable
    /\ \E a \in Actors, where \in InUow :
         /\ Goto(a, j, where)
         /\ saw' = [saw EXCEPT ![a][j] = row[j]]
         /\ where = "fail-commit" => row[j].status \notin Terminal
         /\ where = "complete-commit" => kind[j] # "media"
         /\ a = "canceller" => where = "cancel-commit" /\ row[j].status \notin Terminal

Commits(j) ==
    \E a \in Actors, where \in PCs \ InUow :
        /\ pc[a][j] \in InUow
        /\ Goto(a, j, where)
        /\ \/ a # "canceller" /\ Forgotten(a, j)
           \/ a = "canceller" /\ where = "signal" /\ saw' = saw

Apart(j) ==
    /\ UNCHANGED durable \/ Create(j)
    /\ capSaw' = capSaw
    /\ \E a \in Actors, where \in PCs \ InUow :
         /\ pc[a][j] \notin InUow
         /\ Goto(a, j, where)
         /\ \/ saw' = saw /\ (a = "canceller" => where \in {"signal", "dequeue"} \/ saw[a][j] = NoRow)
            \/ a = "canceller" /\ Forgotten(a, j)

LEMMA UowSteps ==
    ASSUME TypeOK, NEW j \in Jobs, isolated, JobInv(j), ReadsHold(j), JobStep(j)
    PROVE  Begins(j) \/ SuccessRead(j) \/ Commits(j) \/ Apart(j)
<1> USE DEF PCs, InUow, Actors, Failers, Cancellers
<1>0. saw["canceller"][j] # NoRow => pc["canceller"][j] \in {"cancel-commit", "signal", "dequeue"}
  BY DEF ReadsHold
<1>1. CASE Create(j)
  BY <1>0, <1>1 DEF Create, Apart
<1>2. CASE Announce(j)
  BY <1>0, <1>2 DEF Announce, Apart
<1>3. CASE Submit(j)
  BY <1>0, <1>3 DEF Submit, Apart
<1>4. CASE RefuseSubmit(j)
  BY <1>0, <1>4 DEF RefuseSubmit, Apart
<1>5. CASE Take(j)
  BY <1>0, <1>5 DEF Take, Apart, JobInv, NotYetTaken
<1>6. CASE BeginRead(j)
  BY <1>0, <1>6 DEF BeginRead, Read, Decline, Begins, Apart, MediaJobs, durable
<1>7. CASE BeginCommit(j)
  BY <1>0, <1>7 DEF BeginCommit, RollBack, Commits
<1>8. CASE SayStarted(j)
  BY <1>0, <1>8 DEF SayStarted, Apart
<1>9. CASE Execute(j)
  BY <1>0, <1>9 DEF Execute, Apart
<1>10. CASE CompleteRead(j)
  <2>1. CASE ~CancelSeen(j)
    <3>1. \/ Read("worker", j, "success-read")
          \/ Read("worker", j, "complete-commit") /\ kind[j] # "media"
      <4>1. Read("worker", j, IF j \in MediaJobs THEN "success-read" ELSE "complete-commit")
        BY <1>10, <2>1, Zenon DEF CompleteRead
      <4>2. QED
        BY <4>1 DEF MediaJobs
    <3>2. QED
      BY <3>1 DEF Read, Begins, durable
  <2>2. CASE CancelSeen(j)
    BY <1>10, <2>2 DEF CompleteRead, Decline, Apart, durable
  <2>3. QED
    BY <2>1, <2>2
<1>11. CASE SuccessRead(j)
  BY <1>11
<1>12. CASE CompleteCommit(j)
  BY <1>0, <1>12 DEF CompleteCommit, RollBack, Commits
<1>13. CASE SayCompleted(j)
  BY <1>0, <1>13 DEF SayCompleted, Apart
<1>14. CASE Finish(j)
  BY <1>0, <1>14 DEF Finish, Apart
<1>15. CASE Capture(j)
  BY <1>0, <1>15 DEF Capture, Apart
<1>16. CASE UserCancelRead(j)
  BY <1>0, <1>16 DEF UserCancelRead, Read, Decline, Begins, Apart, MediaJobs, durable
<1>17. CASE UserCancelCommit(j)
  BY <1>0, <1>17 DEF UserCancelCommit, Commits
<1>18. CASE SignalToken(j)
  BY <1>0, <1>18 DEF SignalToken, Apart
<1>19. CASE Dequeue(j)
  BY <1>0, <1>19 DEF Dequeue, Apart
<1>20. CASE SayUserCancelled(j)
  BY <1>0, <1>20 DEF SayUserCancelled, Apart
<1>21. CASE Reject(j)
  BY <1>0, <1>21 DEF Reject, Apart
<1>22. CASE RejectEnd(j)
  BY <1>0, <1>22 DEF RejectEnd, Apart
<1>23. CASE StopNext(j)
  BY <1>0, <1>23 DEF StopNext, Apart
<1>24. CASE StopSettle(j)
  BY <1>0, <1>24 DEF StopSettle, Apart
<1>25. CASE FailReads(j)
  BY <1>0, <1>25 DEF FailReads, FailRead, Read, Decline, AfterFail, Begins, Apart, MediaJobs,
                     durable
<1>26. CASE FailCommits(j)
  BY <1>0, <1>26 DEF FailCommits, FailCommit, AfterFail, Commits
<1>27. CASE SaysFailed(j)
  BY <1>0, <1>27 DEF SaysFailed, SayFailed, AfterFail, Apart
<1>28. CASE CancelReads(j)
  BY <1>0, <1>28 DEF CancelReads, CancelRead, Read, Begins
<1>29. CASE CancelCommits(j)
  BY <1>0, <1>29 DEF CancelCommits, CancelCommit, Commits
<1>30. CASE SaysCancelled(j)
  BY <1>0, <1>30 DEF SaysCancelled, SayCancelled, Apart
<1>31. QED
  BY <1>1, <1>2, <1>3, <1>4, <1>5, <1>6, <1>7, <1>8, <1>9, <1>10, <1>11, <1>12, <1>13, <1>14, <1>15,
     <1>16, <1>17, <1>18, <1>19, <1>20, <1>21, <1>22, <1>23, <1>24, <1>25, <1>26, <1>27, <1>28,
     <1>29, <1>30 DEF JobStep

LEMMA ReadsHoldStep ==
    ASSUME TypeOK, NEW j \in Jobs, isolated, JobInv(j), ReadsHold(j), JobStep(j)
    PROVE  ReadsHold(j)'
<1> USE DEF ReadsHold
<1>0. NoRow \in Rows /\ row[j] \in Rows /\ InUow \subseteq PCs /\ {"worker", "canceller"} \subseteq Actors
  BY RowTypes DEF TypeOK, PCs, Actors
<1>1. CASE Begins(j)
  <2>1. PICK a \in Actors, where \in InUow :
               /\ Goto(a, j, where)
               /\ saw' = [saw EXCEPT ![a][j] = row[j]]
               /\ where = "fail-commit" => row[j].status \notin Terminal
               /\ where = "complete-commit" => kind[j] # "media"
               /\ a = "canceller" => where = "cancel-commit" /\ row[j].status \notin Terminal
    BY <1>1 DEF Begins
  <2>2. pc'[a][j] = where /\ \A b \in Actors : b # a => pc'[b][j] = pc[b][j]
    BY <1>0, <2>1, GotoFacts
  <2>3. saw'[a][j] = row[j] /\ \A b \in Actors : b # a => saw'[b][j] = saw[b][j]
    BY <1>0, <2>1, SawFacts
  <2>4. row' = row /\ kind' = kind /\ \A b \in Actors : pc[b][j] \notin InUow
    BY <1>1 DEF Begins, durable
  <2>5. {"fail-commit", "cancel-commit", "complete-commit"} \subseteq InUow
    BY DEF InUow
  <2>6. QED
    BY <1>0, <2>1, <2>2, <2>3, <2>4, <2>5
<1>2. CASE SuccessRead(j)
  <2>1. /\ Goto("worker", j, "complete-commit") /\ pc["worker"][j] = "success-read"
        /\ UNCHANGED durable /\ saw' = saw /\ capSaw'[j] = cap[j]
    BY <1>2 DEF SuccessRead, TypeOK
  <2>2. pc'["worker"][j] = "complete-commit" /\ \A b \in Actors : b # "worker" => pc'[b][j] = pc[b][j]
    BY <1>0, <2>1, GotoFacts DEF InUow
  <2>3. {"success-read", "complete-commit"} \subseteq InUow
    BY DEF InUow
  <2>4. QED
    BY <1>0, <2>1, <2>2, <2>3 DEF durable
<1>3. CASE Commits(j)
  <2>1. PICK a \in Actors, where \in PCs \ InUow :
               /\ pc[a][j] \in InUow
               /\ Goto(a, j, where)
               /\ \/ a # "canceller" /\ Forgotten(a, j)
                  \/ a = "canceller" /\ where = "signal" /\ saw' = saw
    BY <1>3 DEF Commits
  <2>2. pc'[a][j] = where /\ \A b \in Actors : b # a => pc'[b][j] = pc[b][j]
    BY <1>0, <2>1, GotoFacts
  <2>3. \A b \in Actors : pc'[b][j] \notin InUow
    BY <2>1, <2>2
  <2>4. saw'["canceller"][j] # NoRow => pc'["canceller"][j] \in {"cancel-commit", "signal", "dequeue"}
    BY <1>0, <2>1, <2>2, SawFacts DEF Forgotten
  <2>5. {"fail-commit", "cancel-commit", "complete-commit"} \subseteq InUow
    BY DEF InUow
  <2>6. QED
    BY <1>0, <2>3, <2>4, <2>5
<1>4. CASE Apart(j)
  <2>1. PICK a \in Actors, where \in PCs \ InUow :
               /\ pc[a][j] \notin InUow
               /\ Goto(a, j, where)
               /\ \/ saw' = saw /\ (a = "canceller" => where \in {"signal", "dequeue"} \/ saw[a][j] = NoRow)
                  \/ a = "canceller" /\ Forgotten(a, j)
    BY <1>4 DEF Apart
  <2>2. pc'[a][j] = where /\ \A b \in Actors : b # a => pc'[b][j] = pc[b][j]
    BY <1>0, <2>1, GotoFacts
  <2>3. /\ \A b \in Actors : saw'[b][j] = saw[b][j] \/ (b = "canceller" /\ b = a /\ saw'[b][j] = NoRow)
        /\ Forgotten(a, j) => saw'[a][j] = NoRow
    BY <1>0, <2>1, SawFacts DEF Forgotten
  <2>4. saw'["canceller"][j] # NoRow => pc'["canceller"][j] \in {"cancel-commit", "signal", "dequeue"}
    BY <1>0, <2>1, <2>2, <2>3
  <2>5. {"fail-commit", "cancel-commit", "complete-commit"} \subseteq InUow /\ "idle" \notin InUow
    BY DEF InUow
  <2>6. CASE UNCHANGED durable
    BY <1>0, <1>4, <2>1, <2>2, <2>3, <2>4, <2>5, <2>6 DEF durable, Apart
  <2>7. CASE Create(j)
    <3>1. \A b \in Actors : pc[b][j] = "idle"
      BY <2>7 DEF Create, JobInv, Untouched
    <3>2. QED
      BY <1>0, <2>1, <2>2, <2>4, <2>5, <3>1
  <2>8. QED
    BY <1>4, <2>6, <2>7 DEF Apart
<1>5. QED
  BY <1>1, <1>2, <1>3, <1>4, UowSteps

LEMMA KeptTogetherStep ==
    ASSUME TypeOK, NEW j \in Jobs, isolated, JobInv(j), ReadsHold(j), KeptTogether(j), JobStep(j)
    PROVE  KeptTogether(j)'
<1> USE DEF KeptTogether
<1>0. /\ {"fail-commit", "cancel-commit", "complete-commit", "begin-commit"} \subseteq InUow
      /\ Failers \cup Cancellers \cup {"worker", "canceller"} \subseteq Actors
      /\ KindFits(j) /\ row[j].status \in Status
  BY Statuses DEF InUow, Actors, Failers, Cancellers, JobInv
<1>1. CASE UNCHANGED durable
  BY <1>1 DEF durable
<1>2. CASE Create(j)
  BY <1>2, CreateFacts DEF TypeOK
<1>3. CASE BeginCommit(j)
  <2>1. saw["worker"][j] = row[j]
    BY <1>0, <1>3 DEF BeginCommit, ReadsHold
  <2>2. QED
    BY <1>1, <1>3, <2>1, BeginCommitFacts DEF Legal
<1>4. CASE CompleteCommit(j)
  <2>1. pc["worker"][j] = "complete-commit"
    BY <1>4 DEF CompleteCommit
  <2>2. saw["worker"][j] = row[j] /\ (kind[j] = "media" => capSaw[j] = cap[j])
    BY <1>0, <2>1 DEF ReadsHold
  <2>3. row[j].status # "completed"
    BY <2>1 DEF JobInv, CompletedLast
  <2>4. QED
    BY <1>1, <1>4, <2>2, <2>3, CompleteCommitFacts DEF Legal
<1>5. CASE UserCancelCommit(j)
  <2>1. row[j].status \notin Terminal
    BY <1>5 DEF UserCancelCommit, ReadsHold
  <2>2. QED
    BY <1>0, <1>5, <2>1, UserCancelFacts DEF KindFits, Status, Terminal
<1>6. CASE FailCommits(j)
  <2>1. PICK a \in Failers : FailCommit(a, j)
    BY <1>6 DEF FailCommits
  <2>2. row[j].status \notin Terminal
    BY <1>0, <2>1 DEF FailCommit, ReadsHold
  <2>3. QED
    BY <1>0, <2>1, <2>2, FailCommitFacts DEF KindFits, Status, Terminal
<1>7. CASE CancelCommits(j)
  <2>1. PICK a \in Cancellers : CancelCommit(a, j)
    BY <1>7 DEF CancelCommits
  <2>2. saw[a][j] = row[j]
    BY <1>0, <2>1 DEF CancelCommit, ReadsHold
  <2>3. QED
    BY <1>0, <2>1, <2>2, CancelCommitFacts DEF KindFits, Status, Terminal, Active
<1>8. QED
  BY <1>1, <1>2, <1>3, <1>4, <1>5, <1>6, <1>7, Writers

\* What a step of a chat job does for those who follow its stream: it neither
\* ends the turn nor speaks of it, or it ends the turn and owes the news, or it
\* tells them.
SameOwing(a, j) ==
    /\ Owes(a, j)' <=> Owes(a, j)
    /\ Owes(a, j) => Announcement(a, j)' = Announcement(a, j)
Quiet(j) ==
    /\ turn'[j] = turn[j] \/ (turn[j] \notin Terminal /\ turn'[j] \notin Terminal)
    /\ Endings(j)' = Endings(j) /\ \A n \in Endings(j) : log'[j][n] = log[j][n]
    /\ \A a \in Actors : SameOwing(a, j)
EndsTurn(j) ==
    /\ turn[j] \notin Terminal /\ turn'[j] \in Terminal /\ log' = log
    /\ \E a \in Actors :
         /\ Owes(a, j)' /\ Announcement(a, j)' = EventOf(turn'[j])
         /\ \A b \in Actors : b # a => SameOwing(b, j)
Tells(j) ==
    /\ turn' = turn
    /\ \E a \in Actors :
         /\ Owes(a, j) /\ ~Owes(a, j)'
         /\ Publish(j, Announcement(a, j))
         /\ \A b \in Actors : b # a => SameOwing(b, j)

LEMMA ToldOnce ==
    ASSUME TypeOK, NEW j \in Jobs, kind[j] = "chat", kind' = kind, OneAnnouncer(j), EndsOnce(j),
           turn[j] \in Status, Quiet(j) \/ EndsTurn(j) \/ Tells(j)
    PROVE  OneAnnouncer(j)' /\ EndsOnce(j)'
<1> USE DEF OneAnnouncer, EndsOnce
<1>0. \A status : EventOf(status) = CASE status = "completed" -> "turn.completed"
                                      [] status = "failed" -> "turn.failed"
                                      [] status = "cancelled" -> "turn.cancelled"
                                      [] OTHER -> "none"
  BY DEF EventOf
<1>1. CASE Quiet(j)
  BY <1>1 DEF Quiet, SameOwing, EventOf
<1>2. CASE EndsTurn(j)
  <2>1. PICK a \in Actors : /\ Owes(a, j)' /\ Announcement(a, j)' = EventOf(turn'[j])
                            /\ \A b \in Actors : b # a => SameOwing(b, j)
    BY <1>2 DEF EndsTurn
  <2>2. Endings(j)' = {} /\ \A b \in Actors : b # a => ~Owes(b, j)'
    BY <1>2, <2>1 DEF EndsTurn, SameOwing, Endings
  <2>3. QED
    BY <1>2, <2>1, <2>2 DEF EndsTurn, EventOf
<1>3. CASE Tells(j)
  <2>1. PICK a \in Actors : /\ Owes(a, j) /\ ~Owes(a, j)'
                            /\ Publish(j, Announcement(a, j))
                            /\ \A b \in Actors : b # a => SameOwing(b, j)
    BY <1>3 DEF Tells
  <2>2. /\ turn[j] \in Terminal /\ Endings(j) = {} /\ Announcement(a, j) = EventOf(turn[j])
        /\ \A b \in Actors : ~Owes(b, j)'
    BY <2>1 DEF SameOwing
  <2>3. Announcement(a, j) \in TerminalEvents /\ Announcement(a, j) \in Events
    BY DEF Announcement, TerminalEvents, Events
  <2>4. Endings(j)' = {Len(log[j]) + 1} /\ log'[j][Len(log[j]) + 1] = Announcement(a, j)
    BY <2>1, <2>2, <2>3, PublishFacts
  <2>5. turn' = turn
    BY <1>3 DEF Tells
  <2>6. QED
    BY <2>2, <2>4, <2>5 DEF EventOf
<1>4. QED
  BY <1>1, <1>2, <1>3

\* An actor moves without owing anything before or after.
LEMMA QuietMove ==
    ASSUME TypeOK, NEW j \in Jobs, NEW a \in Actors, NEW where \in PCs, Goto(a, j, where),
           ~Owes(a, j),
           where \notin {"say-completed", "say-failed", "say-cancelled"},
           a = "canceller" => where \notin {"signal", "dequeue"} \/ saw'[a][j] = NoRow,
           a # "canceller" => saw'["canceller"][j] = saw["canceller"][j]
    PROVE  \A b \in Actors : SameOwing(b, j)
<1>1. pc'[a][j] = where /\ \A b \in Actors : b # a => pc'[b][j] = pc[b][j]
  BY GotoFacts
<1>2. QED
  BY <1>1 DEF SameOwing, Owes, Announcement, Actors

\* An actor other than the canceller moves: what the others owe is as before.
LEMMA OthersOwe ==
    ASSUME TypeOK, NEW j \in Jobs, NEW a \in Actors, NEW where \in PCs, Goto(a, j, where),
           a # "canceller" => saw'["canceller"][j] = saw["canceller"][j]
    PROVE  \A b \in Actors : b # a => SameOwing(b, j)
<1>1. \A b \in Actors : b # a => pc'[b][j] = pc[b][j]
  BY GotoFacts
<1>2. QED
  BY <1>1 DEF SameOwing, Owes, Announcement, Actors

\* Who only moves says nothing and ends nothing.
LEMMA MovesAreQuiet ==
    ASSUME TypeOK, NEW j \in Jobs, kind[j] = "chat", isolated, JobInv(j), ReadsHold(j), JobStep(j),
           \/ Announce(j)
           \/ Submit(j)
           \/ RefuseSubmit(j)
           \/ Take(j)
           \/ BeginRead(j)
           \/ SayStarted(j)
           \/ Execute(j)
           \/ CompleteRead(j)
           \/ SuccessRead(j)
           \/ Finish(j)
           \/ Capture(j)
           \/ UserCancelRead(j)
           \/ Reject(j)
           \/ RejectEnd(j)
           \/ StopNext(j)
           \/ StopSettle(j)
           \/ FailReads(j)
           \/ CancelReads(j)
    PROVE  \A b \in Actors : SameOwing(b, j)
<1> USE DEF PCs, InUow, Actors, Failers, Cancellers
<1>0. saw["canceller"][j] # NoRow => pc["canceller"][j] \in {"cancel-commit", "signal", "dequeue"}
  BY DEF ReadsHold
<1>a. \A a \in Actors, where \in PCs : Read(a, j, where) =>
        Goto(a, j, where) /\ (a # "canceller" => saw'["canceller"][j] = saw["canceller"][j])
  BY SawFacts DEF Read, TypeOK
<1>b. \A a \in Actors, where \in PCs : Decline(a, j, where) => Goto(a, j, where) /\ saw' = saw
  BY DEF Decline
<1>1. CASE Announce(j)
  BY <1>0, <1>1, QuietMove DEF Announce, Owes
<1>2. CASE Submit(j)
  BY <1>0, <1>2, QuietMove DEF Submit, Owes
<1>3. CASE RefuseSubmit(j)
  BY <1>0, <1>3, QuietMove DEF RefuseSubmit, Owes
<1>4. CASE Take(j)
  BY <1>0, <1>4, QuietMove DEF Take, JobInv, NotYetTaken, Owes
<1>5. CASE BeginRead(j)
  BY <1>0, <1>a, <1>b, <1>5, QuietMove DEF BeginRead, Owes
<1>6. CASE SayStarted(j)
  BY <1>0, <1>6, QuietMove DEF SayStarted, Owes
<1>7. CASE Execute(j)
  BY <1>0, <1>7, QuietMove DEF Execute, Owes
<1>8. CASE CompleteRead(j)
  BY <1>0, <1>a, <1>b, <1>8, QuietMove DEF CompleteRead, Owes
<1>9. CASE SuccessRead(j)
  BY <1>0, <1>9, QuietMove DEF SuccessRead, Owes
<1>10. CASE Finish(j)
  BY <1>0, <1>10, QuietMove DEF Finish, Owes
<1>11. CASE Capture(j)
  BY <1>0, <1>11, QuietMove DEF Capture, Owes
<1>12. CASE UserCancelRead(j)
  BY <1>0, <1>a, <1>b, <1>12, QuietMove DEF UserCancelRead, Owes
<1>13. CASE Reject(j)
  BY <1>0, <1>13, QuietMove DEF Reject, Owes
<1>14. CASE RejectEnd(j)
  BY <1>0, <1>14, QuietMove DEF RejectEnd, Owes
<1>15. CASE StopNext(j)
  BY <1>0, <1>15, QuietMove DEF StopNext, Owes
<1>16. CASE StopSettle(j)
  BY <1>0, <1>16, QuietMove DEF StopSettle, Owes
<1>17. CASE FailReads(j)
  BY <1>0, <1>a, <1>b, <1>17, QuietMove DEF FailReads, FailRead, AfterFail, Owes
<1>18. CASE CancelReads(j)
  BY <1>0, <1>a, <1>b, <1>18, QuietMove DEF CancelReads, CancelRead, Owes
<1>19. QED
  BY <1>1, <1>2, <1>3, <1>4, <1>5, <1>6, <1>7, <1>8, <1>9, <1>10, <1>11, <1>12, <1>13, <1>14, <1>15,
     <1>16, <1>17, <1>18

\* A step that publishes a terminal event tells what its actor owed.
LEMMA TellingSteps ==
    ASSUME TypeOK, NEW j \in Jobs, NEW a \in Actors, NEW where \in {"finish", "end"}, Goto(a, j, where),
           pc[a][j] \in {"say-completed", "say-failed", "say-cancelled"},
           Publish(j, Announcement(a, j)), UNCHANGED <<durable, saw>>
    PROVE  Tells(j)
<1>1. where \in PCs
  BY DEF PCs
<1>2. \A b \in Actors : b # a => SameOwing(b, j)
  BY <1>1, OthersOwe
<1>3. Owes(a, j) /\ ~Owes(a, j)'
  BY <1>1, GotoFacts DEF Owes
<1>4. QED
  BY <1>2, <1>3 DEF Tells, durable

\* A commit that ends the turn.
LEMMA EndingCommit ==
    ASSUME TypeOK, NEW j \in Jobs, NEW a \in Actors, NEW where \in PCs, Goto(a, j, where),
           turn[j] \notin Terminal, log' = log,
           a # "canceller" => saw'["canceller"][j] = saw["canceller"][j],
           \/ where = "say-completed" /\ turn'[j] = "completed"
           \/ where = "say-failed" /\ turn'[j] = "failed"
           \/ where = "say-cancelled" /\ turn'[j] = "cancelled"
           \/ where = "signal" /\ a = "canceller" /\ saw'[a][j] # NoRow /\ turn'[j] = "cancelled"
    PROVE  EndsTurn(j)
<1>1. \A b \in Actors : b # a => SameOwing(b, j)
  BY OthersOwe
<1>2. pc'[a][j] = where
  BY GotoFacts
<1>3. Owes(a, j)' /\ Announcement(a, j)' = EventOf(turn'[j])
  BY <1>2 DEF Owes, Announcement, EventOf
<1>4. QED
  BY <1>1, <1>3 DEF EndsTurn, Terminal

LEMMA TurnSteps ==
    ASSUME TypeOK, NEW j \in Jobs, kind[j] = "chat", isolated, JobInv(j), ReadsHold(j), KeptTogether(j),
           JobStep(j)
    PROVE  Quiet(j) \/ EndsTurn(j) \/ Tells(j)
<1>0. /\ InUow \subseteq PCs /\ {"say-completed", "say-failed", "say-cancelled", "signal", "dequeue", "end",
                                 "finish", "fail", "started"} \subseteq PCs
      /\ Failers \cup Cancellers \cup {"worker", "canceller"} \subseteq Actors
      /\ "canceller" \notin Failers \cup Cancellers
      /\ {"fail-commit", "cancel-commit", "complete-commit", "begin-commit"} \subseteq InUow
      /\ row[j].status = turn[j] /\ turn[j] # "none" /\ turn[j] \in Status /\ row[j] \in Rows /\ NoRow \in Rows
  BY RowTypes DEF PCs, InUow, Actors, Failers, Cancellers, KeptTogether, JobInv, KindFits, TypeOK
<1>q. ASSUME log' = log, turn'[j] = turn[j], \A b \in Actors : SameOwing(b, j) PROVE Quiet(j)
  BY <1>q DEF Quiet, Endings
<1>c. \A a \in Actors : a # "canceller" /\ Forgotten(a, j) => saw'["canceller"][j] = saw["canceller"][j]
  BY <1>0, SawFacts DEF Forgotten
<1>1. CASE \/ Announce(j)
           \/ Submit(j)
           \/ RefuseSubmit(j)
           \/ Take(j)
           \/ BeginRead(j)
           \/ SayStarted(j)
           \/ Execute(j)
           \/ CompleteRead(j)
           \/ SuccessRead(j)
           \/ Finish(j)
           \/ Capture(j)
           \/ UserCancelRead(j)
           \/ Reject(j)
           \/ RejectEnd(j)
           \/ StopNext(j)
           \/ StopSettle(j)
           \/ FailReads(j)
           \/ CancelReads(j)
  <2>1. \A b \in Actors : SameOwing(b, j)
    BY <1>1, MovesAreQuiet
  <2>2. CASE Announce(j)
    <3>1. Publish(j, "turn.queued") /\ turn' = turn
      BY <2>2 DEF Announce, durable
    <3>2. QED
      BY <2>1, <3>1, PublishFacts DEF Quiet, Events, TerminalEvents
  <2>3. CASE SayStarted(j)
    <3>1. Publish(j, "turn.started") /\ turn' = turn
      BY <2>3 DEF SayStarted, durable, ChatJobs
    <3>2. QED
      BY <2>1, <3>1, PublishFacts DEF Quiet, Events, TerminalEvents
  <2>4. CASE \/ Submit(j)
             \/ RefuseSubmit(j)
             \/ Take(j)
             \/ BeginRead(j)
             \/ Execute(j)
             \/ CompleteRead(j)
             \/ SuccessRead(j)
             \/ Finish(j)
             \/ Capture(j)
             \/ UserCancelRead(j)
             \/ Reject(j)
             \/ RejectEnd(j)
             \/ StopNext(j)
             \/ StopSettle(j)
             \/ FailReads(j)
             \/ CancelReads(j)
    <3>1. log' = log /\ turn' = turn
      BY <2>4 DEF Submit, RefuseSubmit, Take, BeginRead, Execute, CompleteRead, SuccessRead, Finish,
                  Capture, UserCancelRead, Reject, RejectEnd, StopNext, StopSettle, FailReads,
                  FailRead, CancelReads, CancelRead,
                  Read, Decline, durable
    <3>2. QED
      BY <1>q, <2>1, <3>1
  <2>5. QED
    BY <1>1, <2>2, <2>3, <2>4
<1>2. CASE SignalToken(j)
  <2>1. Goto("canceller", j, "dequeue") /\ pc["canceller"][j] = "signal" /\ log' = log /\ turn' = turn /\ saw' = saw
    BY <1>2 DEF SignalToken, durable
  <2>2. pc'["canceller"][j] = "dequeue" /\ \A b \in Actors : b # "canceller" => pc'[b][j] = pc[b][j]
    BY <1>0, <2>1, GotoFacts
  <2>3. \A b \in Actors : SameOwing(b, j)
    BY <2>1, <2>2 DEF SameOwing, Owes, Announcement, Actors
  <2>4. QED
    BY <1>q, <2>1, <2>3
<1>3. CASE Dequeue(j)
  <2>1. /\ Goto("canceller", j, IF Announces(j) THEN "say-cancelled" ELSE "end")
        /\ pc["canceller"][j] = "dequeue" /\ log' = log /\ turn' = turn /\ Forgotten("canceller", j)
    BY <1>3 DEF Dequeue, durable
  <2>2. /\ pc'["canceller"][j] = IF saw["canceller"][j] # NoRow THEN "say-cancelled" ELSE "end"
        /\ \A b \in Actors : b # "canceller" => pc'[b][j] = pc[b][j]
    BY <1>0, <2>1, GotoFacts DEF Announces, ChatJobs
  <2>3. \A b \in Actors : SameOwing(b, j)
    BY <1>0, <2>1, <2>2 DEF SameOwing, Owes, Announcement, Actors
  <2>4. QED
    BY <1>q, <2>1, <2>3
<1>4. CASE SayCompleted(j)
  <2>1. Announcement("worker", j) = "turn.completed"
    BY <1>4 DEF SayCompleted, Announcement
  <2>2. QED
    BY <1>0, <1>4, <2>1, TellingSteps DEF SayCompleted
<1>5. CASE SayUserCancelled(j)
  <2>1. Announcement("canceller", j) = "turn.cancelled"
    BY <1>5 DEF SayUserCancelled, Announcement
  <2>2. QED
    BY <1>0, <1>5, <2>1, TellingSteps DEF SayUserCancelled
<1>6. CASE SaysFailed(j)
  <2>1. PICK a \in Failers : SayFailed(a, j)
    BY <1>6 DEF SaysFailed
  <2>2. Announcement(a, j) = "turn.failed"
    BY <2>1 DEF SayFailed, Announcement
  <2>3. AfterFail(a) \in {"finish", "end"}
    BY DEF AfterFail
  <2>4. QED
    BY <1>0, <2>1, <2>2, <2>3, TellingSteps DEF SayFailed
<1>7. CASE SaysCancelled(j)
  <2>1. PICK a \in Cancellers : SayCancelled(a, j)
    BY <1>7 DEF SaysCancelled
  <2>2. Announcement(a, j) = "turn.cancelled"
    BY <2>1 DEF SayCancelled, Announcement
  <2>3. QED
    BY <1>0, <2>1, <2>2, TellingSteps DEF SayCancelled
<1>8. CASE Create(j)
  BY <1>8 DEF Create, JobInv, Untouched
<1>9. CASE BeginCommit(j)
  <2>1. /\ pc["worker"][j] = "begin-commit" /\ log' = log /\ Forgotten("worker", j)
        /\ saw["worker"][j] = row[j]
    BY <1>0, <1>9 DEF BeginCommit, ReadsHold
  <2>2. CASE UNCHANGED durable /\ Goto("worker", j, "fail")
    BY <1>0, <1>c, <1>q, <2>1, <2>2, QuietMove DEF durable, Owes
  <2>3. CASE /\ Legal(saw["worker"][j].status, "running")
             /\ turn'[j] = "running"
             /\ Goto("worker", j, "started")
    <3>1. \A b \in Actors : SameOwing(b, j)
      BY <1>0, <1>c, <2>1, <2>3, QuietMove DEF Owes
    <3>2. turn[j] \notin Terminal
      BY <1>0, <2>1, <2>3 DEF Legal, Terminal
    <3>3. QED
      BY <2>1, <2>3, <3>1, <3>2 DEF Quiet, Endings, Terminal
  <2>4. QED
    BY <1>9, <2>2, <2>3, BeginCommitFacts
<1>10. CASE CompleteCommit(j)
  <2>1. /\ pc["worker"][j] = "complete-commit" /\ log' = log /\ Forgotten("worker", j)
        /\ saw["worker"][j] = row[j]
    BY <1>0, <1>10 DEF CompleteCommit, ReadsHold
  <2>2. CASE UNCHANGED durable /\ Goto("worker", j, "fail")
    BY <1>0, <1>c, <1>q, <2>1, <2>2, QuietMove DEF durable, Owes
  <2>3. CASE /\ Legal(saw["worker"][j].status, "completed")
             /\ turn'[j] = "completed"
             /\ Goto("worker", j, "say-completed")
    <3>1. turn[j] \notin Terminal
      BY <1>0, <2>1, <2>3 DEF Legal, Terminal, JobInv, CompletedLast
    <3>2. QED
      BY <1>0, <1>c, <2>1, <2>3, <3>1, EndingCommit
  <2>4. QED
    BY <1>10, <2>2, <2>3, CompleteCommitFacts
<1>11. CASE UserCancelCommit(j)
  <2>1. /\ pc["canceller"][j] = "cancel-commit" /\ log' = log /\ saw' = saw /\ Goto("canceller", j, "signal")
    BY <1>11 DEF UserCancelCommit
  <2>2. saw["canceller"][j] = row[j] /\ row[j].status \notin Terminal
    BY <1>0, <2>1 DEF ReadsHold
  <2>3. turn'[j] = "cancelled" /\ saw'["canceller"][j] # NoRow
    BY <1>0, <1>11, <2>1, <2>2, UserCancelFacts DEF NoRow, Status, Terminal
  <2>4. QED
    BY <1>0, <2>1, <2>2, <2>3, EndingCommit
<1>12. CASE FailCommits(j)
  <2>1. PICK a \in Failers : FailCommit(a, j)
    BY <1>12 DEF FailCommits
  <2>2. Goto(a, j, "say-failed") /\ log' = log /\ Forgotten(a, j) /\ pc[a][j] = "fail-commit"
    BY <2>1 DEF FailCommit, ChatJobs
  <2>3. row[j].status \notin Terminal
    BY <1>0, <2>2 DEF ReadsHold
  <2>4. turn'[j] = "failed"
    BY <1>0, <2>1, <2>3, FailCommitFacts DEF Status, Terminal
  <2>5. QED
    BY <1>0, <1>c, <2>2, <2>3, <2>4, EndingCommit
<1>13. CASE CancelCommits(j)
  <2>1. PICK a \in Cancellers : CancelCommit(a, j)
    BY <1>13 DEF CancelCommits
  <2>2. /\ Goto(a, j, IF saw[a][j].status \notin Terminal \/ turn[j] \in Active THEN "say-cancelled" ELSE "finish")
        /\ log' = log /\ Forgotten(a, j) /\ pc[a][j] = "cancel-commit"
    BY <2>1 DEF CancelCommit, ChatJobs
  <2>3. saw[a][j] = row[j]
    BY <1>0, <2>2 DEF ReadsHold
  <2>4. CASE turn[j] \in Terminal
    <3>1. turn'[j] = turn[j] /\ Goto(a, j, "finish")
      BY <1>0, <2>1, <2>2, <2>3, <2>4, CancelCommitFacts DEF Terminal, Active
    <3>2. QED
      BY <1>0, <1>c, <1>q, <2>2, <3>1, QuietMove DEF Owes
  <2>5. CASE turn[j] \notin Terminal
    <3>1. turn'[j] = "cancelled" /\ Goto(a, j, "say-cancelled")
      BY <1>0, <2>1, <2>2, <2>3, <2>5, CancelCommitFacts DEF Terminal, Status
    <3>2. QED
      BY <1>0, <1>c, <2>2, <2>5, <3>1, EndingCommit
  <2>6. QED
    BY <2>4, <2>5
<1>14. QED
  BY <1>1, <1>2, <1>3, <1>4, <1>5, <1>6, <1>7, <1>8, <1>9, <1>10, <1>11, <1>12, <1>13 DEF JobStep

\* A chat job that is created has a stream without an ending, and nobody owes it one.
LEMMA CreatedQuietly ==
    ASSUME TypeOK, NEW j \in Jobs, JobInv(j), Create(j)
    PROVE  OneAnnouncer(j)' /\ EndsOnce(j)'
<1>1. log[j] = <<>> /\ \A b \in Actors : pc[b][j] = "idle"
  BY DEF Create, JobInv, Untouched
<1>2. log' = log
  BY DEF Create
<1>3. Endings(j)' = {}
  BY <1>1, <1>2 DEF Endings
<1>4. \A b \in Actors : pc'[b][j] \in {"idle", "announce", "submit"}
  BY <1>1, CreateFacts, GotoFacts DEF PCs, Actors
<1>5. QED
  BY <1>3, <1>4 DEF OneAnnouncer, EndsOnce, Owes

LEMMA IsolatedJobStep ==
    ASSUME TypeOK, NEW j \in Jobs, JobInv(j), IsolatedInv(j), JobStep(j)
    PROVE  IsolatedInv(j)'
<1>1. isolated' = isolated
  BY MemoryStep DEF Remembers, service
<1> SUFFICES ASSUME isolated PROVE (ReadsHold(j) /\ KeptTogether(j) /\ OneAnnouncer(j) /\ EndsOnce(j))'
  BY <1>1 DEF IsolatedInv
<1>2. ReadsHold(j)' /\ KeptTogether(j)'
  BY ReadsHoldStep, KeptTogetherStep DEF IsolatedInv
<1>3. CASE Create(j)
  BY <1>2, <1>3, CreatedQuietly
<1>4. CASE kind[j] # "none" /\ kind' = kind
  <2>1. CASE kind[j] # "chat"
    BY <1>2, <1>4, <2>1 DEF OneAnnouncer, EndsOnce
  <2>2. CASE kind[j] = "chat"
    <3>1. turn[j] \in Status
      BY DEF TypeOK
    <3>2. Quiet(j) \/ EndsTurn(j) \/ Tells(j)
      BY <2>2, TurnSteps DEF IsolatedInv
    <3>3. QED
      BY <1>2, <1>4, <2>2, <3>1, <3>2, ToldOnce DEF IsolatedInv
  <2>3. QED
    BY <2>1, <2>2
<1>5. QED
  BY <1>3, <1>4, Created

LEMMA IsolatedRestart ==
    ASSUME TypeOK, NEW j \in Jobs, JobInv(j), IsolatedInv(j), Restart
    PROVE  IsolatedInv(j)'
<1> USE RestartedJob
<1>1. \A b \in Actors : pc'[b][j] \in {"idle", "end"} /\ saw'[b][j] = NoRow
  OBVIOUS
<1>2. Endings(j)' = {}
  BY DEF Endings
<1>3. ReadsHold(j)'
  BY <1>1 DEF ReadsHold, InUow, Actors
<1>4. IsolatedInv(j) /\ isolated => KeptTogether(j)'
  BY DEF IsolatedInv, KeptTogether, Swept, Active
<1>5. OneAnnouncer(j)' /\ EndsOnce(j)'
  BY <1>1, <1>2 DEF OneAnnouncer, EndsOnce, Owes
<1>6. QED
  BY <1>3, <1>4, <1>5 DEF IsolatedInv

LEMMA StoryInvInit == Init => StoryInv
<1> SUFFICES ASSUME Init PROVE StoryInv
  OBVIOUS
<1>1. ASSUME NEW j \in Jobs PROVE ReadsHold(j) /\ KeptTogether(j)
  BY DEF Init, ForJobs, ReadsHold, KeptTogether, InUow, Actors
<1>2. ASSUME NEW j \in Jobs PROVE OneAnnouncer(j) /\ EndsOnce(j)
  BY DEF Init, ForJobs, OneAnnouncer, EndsOnce
<1>3. QED
  BY <1>1, <1>2, ServiceInvInit DEF StoryInv, IsolatedInv

LEMMA StoryInvNext == StoryInv /\ [Next]_vars => StoryInv'
<1> SUFFICES ASSUME StoryInv, [Next]_vars PROVE StoryInv'
  OBVIOUS
<1>1. ServiceInv /\ ServiceInv' /\ TypeOK
  BY ServiceInvNext DEF StoryInv, ServiceInv
<1> SUFFICES ASSUME NEW i \in Jobs PROVE IsolatedInv(i)'
  BY <1>1 DEF StoryInv
<1>2. JobInv(i) /\ IsolatedInv(i)
  BY DEF StoryInv, ServiceInv
<1>3. ASSUME NEW j \in Jobs, JobStep(j) PROVE IsolatedInv(i)'
  <2>1. CASE i = j
    BY <1>1, <1>2, <1>3, <2>1, IsolatedJobStep
  <2>2. CASE i # j
    BY <1>1, <1>2, <1>3, <2>2, OthersUnmoved, UnmovedKeeps
  <2>3. QED
    BY <2>1, <2>2
<1>4. CASE StopBegin \/ StopClose \/ StopSignal \/ StopJoin
  <2>1. /\ kind' = kind /\ row' = row /\ turn' = turn /\ cap' = cap /\ log' = log
        /\ pc' = pc /\ saw' = saw /\ capSaw' = capSaw /\ isolated' = isolated
    BY <1>1, <1>4, StopSteps
  <2>2. QED
    BY <1>2, <2>1 DEF IsolatedInv, ReadsHold, KeptTogether, OneAnnouncer, EndsOnce, Endings, Owes,
                      Announcement, EventOf
<1>5. CASE Restart
  BY <1>1, <1>2, <1>5, IsolatedRestart
<1>6. CASE UNCHANGED vars
  <2>1. Unmoved(i)
    BY <1>6 DEF vars, durable, memory, actors, service, Unmoved
  <2>2. QED
    BY <1>2, <2>1, UnmovedKeeps
<1>7. QED
  BY <1>3, <1>4, <1>5, <1>6, Steps, Zenon DEF ServiceStep

LEMMA StoryInvariance == Spec => []StoryInv
<1>1. Init => StoryInv
  BY StoryInvInit
<1>2. StoryInv /\ [Next]_vars => StoryInv'
  BY StoryInvNext
<1>3. QED
  BY <1>1, <1>2, PTL DEF Spec

\* Where units of work of one job do not overlap, job, turn, stream and
\* capability tell one story.
THEOREM OneStory == Spec => []StoriesAgree
<1>1. StoryInv => StoriesAgree
  <2> SUFFICES ASSUME StoryInv PROVE StoriesAgree
    OBVIOUS
  <2>1. ASSUME isolated, NEW j \in Jobs PROVE KeptTogether(j) /\ EndsOnce(j) /\ KindFits(j)
    BY <2>1 DEF StoryInv, ServiceInv, IsolatedInv, JobInv
  <2>2. TypeOK
    BY DEF StoryInv, ServiceInv
  <2>3. JobAndTurnAgree
    BY <2>1 DEF JobAndTurnAgree, KeptTogether, ChatJobs
  <2>4. OneTruthfulEnding
    BY <2>1 DEF OneTruthfulEnding, EndsOnce, ChatJobs
  <2>5. CapabilityFollowsJob
    BY <2>1 DEF CapabilityFollowsJob, KeptTogether, MediaJobs
  <2>6. QED
    BY <2>2, <2>3, <2>4, <2>5 DEF StoriesAgree
<1>2. QED
  BY <1>1, StoryInvariance, PTL
\* A job that ended stays as it ended, while units of work do not overlap: no
\* step changes the status of a row that is terminal.
THEOREM EndedJobsStay == Spec => JobEndingIsFinal
<1>1. StoryInv /\ [Next]_vars =>
        [isolated => \A j \in Jobs : row[j].status \in Terminal => row'[j].status = row[j].status]_vars
  <2> SUFFICES ASSUME StoryInv, Next, isolated, NEW i \in Jobs, row[i].status \in Terminal
               PROVE  row'[i].status = row[i].status
    BY Zenon
  <2>1. TypeOK /\ JobInv(i) /\ IsolatedInv(i)
    BY DEF StoryInv, ServiceInv
  <2>2. ReadsHold(i)
    BY <2>1 DEF IsolatedInv
  <2>3. ASSUME NEW j \in Jobs, JobStep(j), i # j PROVE row'[i] = row[i]
    BY <2>1, <2>3, OthersUnmoved DEF Unmoved
  <2>4. CASE JobStep(i)
    <3>0. /\ Failers \cup Cancellers \cup {"worker"} \subseteq Actors
          /\ {"fail-commit", "cancel-commit", "complete-commit", "begin-commit"} \subseteq InUow
      BY DEF Actors, Failers, Cancellers, InUow
    <3>1. CASE UNCHANGED durable
      BY <3>1 DEF durable
    <3>2. CASE Create(i)
      BY <2>1, <3>2 DEF Create, JobInv, Untouched, KindFits, Terminal
    <3>3. CASE BeginCommit(i)
      <4>1. saw["worker"][i] = row[i]
        BY <2>2, <3>0, <3>3 DEF BeginCommit, ReadsHold
      <4>2. QED
        BY <2>1, <3>1, <3>3, <4>1, BeginCommitFacts DEF Legal, Terminal
    <3>4. CASE CompleteCommit(i)
      <4>1. saw["worker"][i] = row[i]
        BY <2>2, <3>0, <3>4 DEF CompleteCommit, ReadsHold
      <4>2. QED
        BY <2>1, <3>1, <3>4, <4>1, CompleteCommitFacts DEF Legal, Terminal
    <3>5. CASE UserCancelCommit(i)
      BY <2>2, <3>5 DEF UserCancelCommit, ReadsHold
    <3>6. CASE FailCommits(i)
      BY <2>2, <3>0, <3>6 DEF FailCommits, FailCommit, ReadsHold
    <3>7. CASE CancelCommits(i)
      <4>1. PICK a \in Cancellers : CancelCommit(a, i)
        BY <3>7 DEF CancelCommits
      <4>2. saw[a][i] = row[i]
        BY <2>2, <3>0, <4>1 DEF CancelCommit, ReadsHold
      <4>3. QED
        BY <2>1, <4>1, <4>2, CancelCommitFacts
    <3>8. QED
      BY <2>4, <3>1, <3>2, <3>3, <3>4, <3>5, <3>6, <3>7, Writers
  <2>5. CASE StopBegin \/ StopClose \/ StopSignal \/ StopJoin
    BY <2>1, <2>5, StopSteps
  <2>6. CASE Restart
    BY <2>1, <2>6, RestartedJob DEF Swept, Active, Terminal
  <2>7. QED
    BY <2>3, <2>4, <2>5, <2>6, Steps DEF ServiceStep
<1>2. QED
  BY <1>1, StoryInvariance, PTL DEF Spec, JobEndingIsFinal
=============================================================================
