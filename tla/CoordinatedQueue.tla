-------------------------- MODULE CoordinatedQueue --------------------------
(***************************************************************************)
(* The job queue and the resource coordinator together, as                  *)
(* JobService.start() of src/app/job_service.py connects them: can_start is *)
(* the queue's admission_check, reserve its on_selected and enabled its     *)
(* serialize_resources.                                                     *)
(*                                                                          *)
(* A worker in the queue's critical section asks the coordinator one        *)
(* question at a time, and each answer is taken under the coordinator's     *)
(* lock only: the polling thread, a cancellation, a completing job or an    *)
(* administrator may act between two of them.  What the worker concludes    *)
(* from the answers is JobQueue's Look and Pick.                            *)
(***************************************************************************)
EXTENDS ResourceCoordinator

CONSTANTS
    Workers, WorkerLane, LaneOf, OrderingKey, ModelKey, Latency,
    NoKey, NoModel, NoWorker

VARIABLES
    where, outcome, earlier, overdue, pc, on, holder, active, activeKeys, currentModel,
    stop, stoppedPending,
    asked, admits,  \* the jobs this evaluation has asked about, and the admitted ones
    serialize,      \* the answer of serialize_resources in this evaluation
    phase,          \* a running worker's place in JobService._run
    cancelStep,     \* a user's cancellation of the job
    failed,         \* jobs the rejection has failed
    undisturbed     \* workers that began their evaluation, or the job it chose, while
                    \* coordination was enabled, if it was not disabled since (history)

Q == INSTANCE JobQueue WITH
        Answers <- [admits : SUBSET Jobs, serialize : BOOLEAN], Recycle <- FALSE

ASSUME CoordinationAssumption == Q!QueueAssumption

queueVars == <<where, outcome, earlier, overdue, pc, on, holder, active, activeKeys,
               currentModel, stop, stoppedPending>>
scanVars == <<asked, admits, serialize>>
runVars == <<phase, cancelStep, failed, undisturbed>>
vars == <<queueVars, coordinatorVars, scanVars, runVars>>

Init ==
    /\ Q!Init /\ CoordinatorInit
    /\ asked = {} /\ admits = {} /\ serialize = "unasked"
    /\ phase = [w \in Workers |-> "none"]
    /\ cancelStep = [j \in Jobs |-> "no"]
    /\ failed = {} /\ undisturbed = {}

TypeOK ==
    /\ Q!TypeOK /\ CoordinatorTypeOK
    /\ asked \subseteq Jobs /\ admits \subseteq asked
    /\ serialize \in {"unasked", "yes", "no"}
    /\ phase \in [Workers -> {"none", "reserving", "picked", "executing", "leaving", "cleanup", "cleared",
                              "completed"}]
    /\ cancelStep \in [Jobs -> {"no", "asked", "released", "done"}]
    /\ failed \subseteq Jobs /\ undisturbed \subseteq Workers

-----------------------------------------------------------------------------
(* An evaluation of eligibility, question by question.                      *)

Evaluating(w) == holder = w /\ pc[w] \in {"look", "pick"}
Lane(w) == WorkerLane[w]

\* Variant: media yields in managed mode only.
SerializesWhenManaged == mode = "managed"
Serializes == enabled

AskSerialize(w) ==
    /\ Evaluating(w) /\ Lane(w) = "media" /\ serialize = "unasked"
    /\ serialize' = IF Serializes THEN "yes" ELSE "no"
    /\ UNCHANGED <<queueVars, coordinatorVars, asked, admits, runVars>>

Answered == [admits |-> admits, serialize |-> serialize = "yes"]
Ready(w) == Lane(w) = "interactive" \/ serialize # "unasked"
Yields(w) == Q!YieldsTo(Lane(w), Answered)

AskAdmission(w) ==
    /\ Evaluating(w) /\ Ready(w) /\ ~Yields(w)
    /\ \E j \in Q!Foremost(Q!PendingIn(Lane(w)) \ asked) :
         /\ asked' = asked \cup {j}
         /\ admits' = IF CanStart(j) THEN admits \cup {j} ELSE admits
    /\ UNCHANGED <<queueVars, coordinatorVars, serialize, runVars>>

ResetScan == asked' = {} /\ serialize' = "unasked" /\ admits' = {}

\* The end of an evaluation.  A chosen job is handed to on_selected, which
\* runs before the queue's lock is released.
Conclude(w) ==
    /\ Evaluating(w) /\ Ready(w)
    /\ Yields(w) \/ asked = Q!PendingIn(Lane(w))
    /\ ResetScan
    /\ \/ Q!Look(w, Answered) /\ UNCHANGED phase
       \/ /\ Q!Pick(w, Answered)
          /\ phase' = [phase EXCEPT ![w] = IF on'[w] = NoJob THEN "none"
                                           ELSE IF Reserves(on'[w]) THEN "reserving"
                                           ELSE "picked"]
    /\ UNCHANGED <<coordinatorVars, cancelStep, failed, undisturbed>>

ReserveLease(w) ==
    /\ phase[w] = "reserving"
    /\ Reserve(on[w])
    /\ phase' = [phase EXCEPT ![w] = "picked"]
    /\ UNCHANGED <<queueVars, scanVars, cancelStep, failed, undisturbed>>

QueueLockFree == Q!LockFree /\ \A w \in Workers : phase[w] # "reserving"

Acquire(w) ==
    /\ QueueLockFree /\ Q!Acquire(w)
    /\ undisturbed' = IF enabled THEN undisturbed \cup {w} ELSE undisturbed \ {w}
    /\ UNCHANGED <<coordinatorVars, scanVars, phase, cancelStep, failed>>

-----------------------------------------------------------------------------
(* A job: submitted, executed by a worker, cancelled by its user.           *)

\* submit() registers the job with the coordinator, then queues it.
Submit(j) ==
    /\ QueueLockFree /\ Q!Submit(j) /\ Register(j)
    /\ UNCHANGED <<scanVars, runVars>>

\* _begin refuses a job that was cancelled or failed meanwhile.
Begin(w) ==
    LET j == on[w] IN
    /\ phase[w] = "picked"
    /\ IF cancelStep[j] # "no" \/ j \in failed
       THEN /\ phase' = [phase EXCEPT ![w] = "leaving"]
            /\ UNCHANGED coordinatorVars
       ELSE /\ phase' = [phase EXCEPT ![w] = "executing"]
            /\ ExecutionStarted(j)
    /\ UNCHANGED <<queueVars, scanVars, cancelStep, failed, undisturbed>>

\* The finally clause of _run calls complete() of the coordinator.
End(w) ==
    /\ phase[w] \in {"executing", "leaving"}
    /\ phase' = [phase EXCEPT ![w] = IF Reclaims(on[w]) THEN "cleanup" ELSE "completed"]
    /\ Complete(on[w])
    /\ UNCHANGED <<queueVars, scanVars, cancelStep, failed, undisturbed>>

Reclaim(w) ==
    /\ \/ phase[w] = "cleanup" /\ PostJobRelease /\ phase' = [phase EXCEPT ![w] = "cleared"]
       \/ phase[w] = "cleared" /\ EndControl /\ phase' = [phase EXCEPT ![w] = "completed"]
    /\ UNCHANGED <<queueVars, scanVars, cancelStep, failed, undisturbed>>

Release(w) ==
    /\ QueueLockFree /\ Q!Release(w)
    /\ UNCHANGED <<coordinatorVars, scanVars, runVars>>

Settle(w) ==
    /\ phase[w] = "completed"
    /\ Q!Settle(w, "value")
    /\ phase' = [phase EXCEPT ![w] = "none"]
    /\ UNCHANGED <<coordinatorVars, scanVars, cancelStep, failed, undisturbed>>

\* cancel() commits, then tells the coordinator, then the queue.
UserCancel(j) ==
    /\ cancelStep[j] = "no" /\ where[j] \in {"pending", "running"}
    /\ cancelStep' = [cancelStep EXCEPT ![j] = "asked"]
    /\ UNCHANGED <<queueVars, coordinatorVars, scanVars, phase, failed, undisturbed>>

CancelAdmission(j) ==
    /\ cancelStep[j] = "asked"
    /\ cancelStep' = [cancelStep EXCEPT ![j] = "released"]
    /\ CancelRecord(j)
    /\ UNCHANGED <<queueVars, scanVars, phase, failed, undisturbed>>

Dequeue(j) ==
    /\ QueueLockFree
    /\ IF where[j] = "pending" THEN Q!CancelPending(j) ELSE UNCHANGED queueVars

CancelQueued(j) ==
    /\ cancelStep[j] = "released"
    /\ cancelStep' = [cancelStep EXCEPT ![j] = "done"]
    /\ Dequeue(j)
    /\ UNCHANGED <<coordinatorVars, scanVars, phase, failed, undisturbed>>

\* _admission_reject: the queue gives the job up, the job fails, and only
\* then is its record dropped (PollDrop).
Reject(j) ==
    /\ poll = [at |-> "reject", job |-> j]
    /\ Dequeue(j)
    /\ PollGoto("fail", j)
    /\ UNCHANGED <<mode, record, started, attempted, expired, lease, control, reclaimed,
                   scanVars, runVars>>

FailRejected(j) ==
    /\ poll = [at |-> "fail", job |-> j]
    /\ failed' = IF cancelStep[j] = "no" THEN failed \cup {j} ELSE failed
    /\ PollGoto("drop", j)
    /\ UNCHANGED <<mode, record, started, attempted, expired, lease, control, reclaimed,
                   queueVars, scanVars, phase, cancelStep, undisturbed>>

Polling(step) == step /\ UNCHANGED <<queueVars, scanVars, runVars>>

\* An administrator changes the policy.
Update(to) ==
    /\ SetMode(to)
    /\ undisturbed' = IF to = "disabled" THEN {} ELSE undisturbed
    /\ UNCHANGED <<queueVars, scanVars, phase, cancelStep, failed>>

\* A job arrives.  How long it waits in the queue only decides its order
\* within its lane, which is JobQueue's subject: no job grows overdue here.
Arrive(j) == Q!NewJob(j) /\ UNCHANGED <<coordinatorVars, scanVars, runVars>>

-----------------------------------------------------------------------------
Runs(w) ==
    ReserveLease(w) \/ Begin(w) \/ End(w) \/ Reclaim(w) \/ Settle(w)
Evaluates(w) == AskSerialize(w) \/ AskAdmission(w) \/ Conclude(w)

Next ==
    \/ \E w \in Workers : Acquire(w) \/ Evaluates(w) \/ Runs(w) \/ Release(w)
    \/ \E j \in Jobs :
         \/ Arrive(j) \/ Submit(j)
         \/ UserCancel(j) \/ CancelAdmission(j) \/ CancelQueued(j)
         \/ Reject(j) \/ FailRejected(j)
         \/ Polling(PollBegin(j)) \/ Polling(PollStep(j)) \/ Polling(Expire(j))
    \/ \E to \in Modes : Update(to)

Spec == Init /\ [][Next]_vars

(* Fairness.  Threads run: those that wait for the queue's lock are not     *)
(* passed over for ever, a worker inside the lock or a job proceeds (a      *)
(* provider call has a timeout), the polling thread returns to every        *)
(* waiting record, and time passes.  Users and administrators owe nothing.  *)
Fairness ==
    /\ \A w \in Workers :
         /\ SF_vars(Acquire(w)) /\ SF_vars(Release(w))
         /\ WF_vars(Evaluates(w)) /\ WF_vars(Runs(w))
    /\ \A j \in Jobs :
         /\ SF_vars(Polling(PollBegin(j))) /\ SF_vars(Reject(j))
         /\ WF_vars(FailRejected(j)) /\ WF_vars(Polling(PollStep(j)))
         /\ WF_vars(Polling(Expire(j)))

LiveSpec == Spec /\ Fairness

-----------------------------------------------------------------------------
(* Properties.                                                              *)

\* Workers in the middle of a coordinated job, and those that execute one.
Occupied == {w \in Workers : on[w] \in Coordinated /\ phase[w] \in {"picked", "executing", "leaving"}}
Executing == {w \in Occupied : phase[w] = "executing"}

\* While coordination stays enabled the lease admits one local GPU job at a
\* time, of either lane, and belongs to that job until it completes.
LeaseExclusive ==
    \A w \in Occupied \cap undisturbed :
        lease = on[w] /\ \A v \in Occupied \cap undisturbed : v = w

\* The polling thread holds the flag, for a release that makes room.
PollReleases == poll.at \in {"release", "releaseOllama", "unlock"}

\* A release after a job finds no job admitted under coordination executing:
\* from the completion on, the flag keeps every one of them out, those too that
\* a worker was asking about ("Otherwise a waiting chat can start in the narrow
\* window", complete()).  The polling thread shares the flag and takes it
\* between a worker's question and its lease; the statement is about the times
\* when the flag is not the polling thread's.
PostJobReleaseAlone == (control /\ ~PollReleases) => Executing \cap undisturbed = {}

\* Without that exception the comment ("Keep the queue lease closed until the
\* coarse provider release finishes") is not kept: a release for a waiting job
\* that began before this one lowers the flag of both.
LeaseClosedUntilReclaimed ==
    (\E w \in Workers : phase[w] = "cleanup") => Executing \cap undisturbed = {}

\* The same of the release that makes room for a waiting job
\* (_attempt_release), which takes control only when the lease is free: not
\* kept either, since a job may have been admitted and not have its lease yet.
PreAdmissionReleaseAlone == reclaimed = "pre_admission" => Executing \cap undisturbed = {}

\* While the polling thread gives up a job that waited too long, no worker
\* executes that job, unless disabling the coordination admitted it: the
\* rejected record stays until the queue has removed the job (_process).
RejectedNeverExecutes ==
    \A w \in Executing :
        (poll.at \in {"reject", "fail", "drop"} /\ poll.job = on[w]) => record[on[w]] = "admitted"

\* Disabling the coordination "must not let the polling thread reject work
\* that the queue is now allowed to start" (update()): no job that was failed
\* for its capacity wait is executing.
NoRunningJobIsRejected == \A w \in Executing : on[w] \notin failed

\* A job cancelled or failed before it executed never makes its worker
\* reclaim provider memory, whenever the cancellation came.
NeverExecutedNeverReclaims ==
    [][\A w \in Workers : phase[w] = "leaving" => phase'[w] # "cleanup"]_vars

\* With coordination enabled, a media worker never takes a job while chat or
\* text work waits for the same GPU.
MediaYields ==
    [][\A w \in undisturbed :
         (pc[w] = "pick" /\ pc'[w] = "run" /\ Lane(w) = "media") =>
             Q!PendingIn("interactive") \cap Coordinated = {}]_vars

\* Waiting work is held without occupying a worker, and no worker is lost to
\* it: the eligibility a worker saw when it stopped waiting is still there
\* when it chooses.
NoWorkerDies == \A w \in Workers : pc[w] # "dead"

\* The capacity wait is bounded: a job the coordinator holds back is
\* admitted, rejected or cancelled, whatever the providers report and
\* however often the administrator changes the policy.
CapacityWaitEnds ==
    \A j \in Jobs : (record[j] = "checking") ~> (record[j] # "checking")

\* An accepted job leaves the queue, executed or given up, unless a worker
\* thread was lost.
QueuedJobsLeave ==
    \A j \in Jobs : (where[j] = "pending") ~>
        (where[j] # "pending" \/ \E w \in Workers : pc[w] = "dead")

\* The lease over all states of the type.
LeaseIsSound == TypeOK /\ LeaseExclusive

\* What no step of a worker does: take a picture while chat work waits, reclaim
\* memory for a job that was not executed.
WorkersKeepOrder == MediaYields /\ NeverExecutedNeverReclaims

\* A job that was held back is let go, and leaves the queue.
HeldJobsLeave == CapacityWaitEnds /\ QueuedJobsLeave
=============================================================================
