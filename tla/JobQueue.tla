------------------------------ MODULE JobQueue ------------------------------
(***************************************************************************)
(* The in-process queue of src/app/job_queue.py: worker threads, one lane   *)
(* each, share a list of pending jobs under one condition variable.         *)
(*                                                                          *)
(* A worker takes the lock (Acquire), evaluates the condition of its wait   *)
(* loop (Look) and, still holding the lock, evaluates eligibility a second  *)
(* time to choose a job (Pick).  Both evaluations ask admission_check and   *)
(* serialize_resources, which answer for another component under a lock of  *)
(* its own: Look and Pick therefore take the answer as a parameter, and the *)
(* two answers of one worker need not agree.                                *)
(*                                                                          *)
(* Job identities are used again (Recycle) when a settled job is forgotten, *)
(* so that a behaviour may submit jobs without end.  Grouped submission     *)
(* (submit_group) has no caller in the application and is left out.         *)
(***************************************************************************)
EXTENDS Naturals, FiniteSets

CONSTANTS
    Jobs,           \* identities of Job objects
    Workers,        \* worker threads
    WorkerLane,     \* the lane a worker serves
    LaneOf,         \* _lane_for_job
    OrderingKey,    \* metadata["ordering_key"], or NoKey
    ModelKey,       \* model_key, or NoModel
    Latency,        \* LATENCY_PRIORITY of the job's latency class
    Coordinated,    \* jobs with metadata["coordinated_resource"]
    Answers,        \* what the two callbacks may answer at an evaluation
    Recycle,        \* whether a settled identity may be used again
    NoKey, NoModel, NoJob, NoWorker

Lanes == {"interactive", "media"}
Keys == {OrderingKey[j] : j \in Jobs} \ {NoKey}
Models == {ModelKey[j] : j \in Jobs} \ {NoModel}

\* An answer names the jobs admission_check would admit and says whether
\* the media lane has to yield (serialize_resources).
Answer == [admits : SUBSET Jobs, serialize : BOOLEAN]

ASSUME QueueAssumption ==
    /\ IsFiniteSet(Workers)
    /\ WorkerLane \in [Workers -> Lanes]
    /\ LaneOf \in [Jobs -> Lanes]
    /\ Latency \in [Jobs -> Nat]
    /\ Coordinated \subseteq Jobs
    /\ Answers \subseteq Answer
    /\ Recycle \in BOOLEAN
    /\ NoJob \notin Jobs
    /\ NoWorker \notin Workers

VARIABLES
    where,          \* where a job object is
    outcome,        \* the result mark_done stored, once done_event is set
    earlier,        \* the waiting jobs with a smaller arrival_time
    overdue,        \* waiting jobs past max_wait_seconds of their class
    pc, on,         \* a worker's place in _run, and the job it holds
    holder,         \* the worker inside the critical section of _run
    active,         \* _active_by_lane
    activeKeys,     \* _active_ordering_keys
    currentModel,   \* _current_model_key_by_lane
    stop,           \* _stop
    stoppedPending  \* _stopped_pending

jobVars == <<where, outcome, earlier, overdue>>
workerVars == <<pc, on, holder, active, activeKeys, currentModel>>
stopVars == <<stop, stoppedPending>>
vars == <<jobVars, workerVars, stopVars>>

Places == {"free", "made", "pending", "running", "settled"}
Outcomes == {"none", "value", "error"}
PCs == {"wait", "look", "pick", "run", "release", "exited", "dead"}

TypeOK ==
    /\ where \in [Jobs -> Places]
    /\ outcome \in [Jobs -> Outcomes]
    /\ earlier \in [Jobs -> SUBSET Jobs]
    /\ overdue \subseteq Jobs
    /\ pc \in [Workers -> PCs]
    /\ on \in [Workers -> Jobs \cup {NoJob}]
    /\ holder \in Workers \cup {NoWorker}
    /\ active \in [Lanes -> Nat]
    /\ activeKeys \subseteq Keys
    /\ currentModel \in [Lanes -> Models \cup {NoModel}]
    /\ stop \in BOOLEAN
    /\ stoppedPending \subseteq Jobs

Init ==
    /\ where = [j \in Jobs |-> "free"]
    /\ outcome = [j \in Jobs |-> "none"]
    /\ earlier = [j \in Jobs |-> {}]
    /\ overdue = {}
    /\ pc = [w \in Workers |-> "wait"]
    /\ on = [w \in Workers |-> NoJob]
    /\ holder = NoWorker
    /\ active = [l \in Lanes |-> 0]
    /\ activeKeys = {}
    /\ currentModel = [l \in Lanes |-> NoModel]
    /\ stop = FALSE
    /\ stoppedPending = {}

-----------------------------------------------------------------------------
(* Waiting jobs and their order.                                            *)

Pending == {j \in Jobs : where[j] = "pending"}
Waiting == {j \in Jobs : where[j] \in {"made", "pending"}}
PendingIn(lane) == {j \in Pending : LaneOf[j] = lane}

\* The waiting jobs of S that arrived before all the others of S.
Foremost(S) == {j \in S : S \cap earlier[j] = {}}

\* Jobs that stop waiting leave no trace in the arrival order.
Forget(S) ==
    /\ earlier' = [j \in Jobs |-> IF j \in S THEN {} ELSE earlier[j] \ S]
    /\ overdue' = overdue \ S

\* mark_done on jobs that leave the queue without having been executed.
SettleWaiting(S) ==
    /\ where' = [j \in Jobs |-> IF j \in S THEN "settled" ELSE where[j]]
    /\ outcome' = [j \in Jobs |-> IF j \in S THEN "error" ELSE outcome[j]]
    /\ Forget(S)

\* new_job stamps the arrival time, before and outside the queue's lock.
NewJob(j) ==
    /\ \/ where[j] = "free"
       \/ Recycle /\ where[j] = "settled" /\ j \notin stoppedPending
                  /\ \A w \in Workers : on[w] # j
    /\ where' = [where EXCEPT ![j] = "made"]
    /\ outcome' = [outcome EXCEPT ![j] = "none"]
    /\ earlier' = [earlier EXCEPT ![j] = Waiting]
    /\ UNCHANGED <<overdue, workerVars, stopVars>>

\* A waiting job passes its limit.  An earlier job of the same or a more
\* urgent class has a limit that is no longer, so it has passed it already.
Age(j) ==
    /\ j \in Waiting \ overdue
    /\ \A i \in earlier[j] : Latency[i] <= Latency[j] => i \in overdue
    /\ overdue' = overdue \cup {j}
    /\ UNCHANGED <<where, outcome, earlier, workerVars, stopVars>>

-----------------------------------------------------------------------------
(* What the owner of the queue calls: each takes the lock.                  *)

LockFree == holder = NoWorker

Submit(j) ==
    /\ LockFree /\ ~stop
    /\ where[j] = "made"
    /\ where' = [where EXCEPT ![j] = "pending"]
    /\ UNCHANGED <<outcome, earlier, overdue, workerVars, stopVars>>

\* submit raises once the queue is closed; the job object is dropped.
RefuseSubmit(j) ==
    /\ LockFree /\ stop
    /\ where[j] = "made"
    /\ where' = [where EXCEPT ![j] = "free"]
    /\ Forget({j})
    /\ UNCHANGED <<outcome, workerVars, stopVars>>

\* Variant: the cancellation also reaches a job some worker already took.
CancelAnywhere(j) ==
    /\ LockFree
    /\ where[j] \in {"pending", "running"}
    /\ SettleWaiting({j})
    /\ UNCHANGED <<workerVars, stopVars>>

CancelPending(j) ==
    /\ LockFree
    /\ where[j] = "pending"
    /\ SettleWaiting({j})
    /\ UNCHANGED <<workerVars, stopVars>>

\* Variant: the flag is raised before the lock is taken and the list emptied.
CloseUnlocked ==
    /\ stop' = TRUE
    /\ UNCHANGED <<jobVars, workerVars, stoppedPending>>

CloseAndDetachPending ==
    /\ LockFree
    /\ stop' = TRUE
    /\ stoppedPending' = stoppedPending \cup Pending
    /\ SettleWaiting(Pending)
    /\ UNCHANGED workerVars

AcknowledgeStoppedPending(j) ==
    /\ LockFree
    /\ j \in stoppedPending
    /\ stoppedPending' = stoppedPending \ {j}
    /\ UNCHANGED <<jobVars, workerVars, stop>>

-----------------------------------------------------------------------------
(* Eligibility and choice.                                                  *)

YieldsTo(lane, ans) ==
    lane = "media" /\ ans.serialize /\ PendingIn("interactive") \cap Coordinated # {}

\* Variants: keys in execution are not consulted; a key is not led by its
\* earliest job.
LeadsBesideRunning(j, admitted) ==
    \A i \in admitted \cap earlier[j] : OrderingKey[i] # OrderingKey[j]
LeadsInAnyOrder(j, admitted) == OrderingKey[j] \notin activeKeys

\* Only the first admitted job of an ordering key is considered, and only
\* when no worker of any lane is running a job of that key.
Leads(j, admitted) ==
    /\ OrderingKey[j] \notin activeKeys
    /\ \A i \in admitted \cap earlier[j] : OrderingKey[i] # OrderingKey[j]

Eligible(lane, ans) ==
    LET admitted == PendingIn(lane) \cap ans.admits
    IN  IF YieldsTo(lane, ans)
        THEN {}
        ELSE {j \in admitted : OrderingKey[j] = NoKey \/ Leads(j, admitted)}

Loaded(lane, E) == {j \in E : ModelKey[j] # NoModel /\ ModelKey[j] = currentModel[lane]}
Urgent(E) == {j \in E : \A i \in E : Latency[j] <= Latency[i]}

\* Variant: without the starvation prevention.
ChoicesByModel(lane, E) ==
    IF Cardinality(E) > 1 /\ Loaded(lane, E) # {} THEN Foremost(Loaded(lane, E))
    ELSE Foremost(Urgent(E))

\* Overdue jobs first, then the model already loaded, then the urgent class.
Choices(lane, E) ==
    IF E \cap overdue # {} THEN Foremost(E \cap overdue)
    ELSE IF Cardinality(E) > 1 /\ Loaded(lane, E) # {} THEN Foremost(Loaded(lane, E))
    ELSE Foremost(Urgent(E))

-----------------------------------------------------------------------------
(* A worker thread.                                                         *)

Goto(w, place) == pc' = [pc EXCEPT ![w] = place]

Acquire(w) ==
    /\ pc[w] = "wait"
    /\ LockFree
    /\ holder' = w
    /\ Goto(w, "look")
    /\ UNCHANGED <<jobVars, on, active, activeKeys, currentModel, stopVars>>

\* The wait loop and the test of _stop that follows it.
Look(w, ans) ==
    /\ pc[w] = "look"
    /\ \/ /\ stop
          /\ Goto(w, "exited")
          /\ holder' = NoWorker
       \/ /\ ~stop
          /\ Eligible(WorkerLane[w], ans) # {}
          /\ Goto(w, "pick")
          /\ UNCHANGED holder
       \/ /\ ~stop
          /\ Eligible(WorkerLane[w], ans) = {}
          /\ Goto(w, "wait")
          /\ holder' = NoWorker
    /\ UNCHANGED <<jobVars, on, active, activeKeys, currentModel, stopVars>>

\* Variant: a job without an ordering key enters the set as well.
RawKey(j) == {OrderingKey[j]}

\* What the job adds to _active_ordering_keys.
KeysOf(j) == {OrderingKey[j]} \ {NoKey}

Start(w, j) ==
    LET lane == WorkerLane[w] IN
    /\ where' = [where EXCEPT ![j] = "running"]
    /\ on' = [on EXCEPT ![w] = j]
    /\ active' = [active EXCEPT ![lane] = @ + 1]
    /\ activeKeys' = activeKeys \cup KeysOf(j)
    /\ currentModel' = IF j \in overdue THEN currentModel
                       ELSE [currentModel EXCEPT ![lane] = ModelKey[j]]
    /\ Goto(w, "run")
    /\ holder' = NoWorker
    /\ Forget({j})
    /\ UNCHANGED <<outcome, stopVars>>

\* min() of an empty list raises outside any handler of _run.
Die(w) ==
    /\ Goto(w, "dead")
    /\ holder' = NoWorker
    /\ UNCHANGED <<jobVars, on, active, activeKeys, currentModel, stopVars>>

Pick(w, ans) ==
    /\ pc[w] = "pick"
    /\ LET E == Eligible(WorkerLane[w], ans) IN
       \/ E = {} /\ Die(w)
       \/ \E j \in Choices(WorkerLane[w], E) : Start(w, j)

\* job.execute returns or raises; mark_done, without the lock.
Settle(w, result) ==
    /\ pc[w] = "run"
    /\ outcome' = [outcome EXCEPT ![on[w]] = result]
    /\ where' = [where EXCEPT ![on[w]] = "settled"]
    /\ Goto(w, "release")
    /\ UNCHANGED <<earlier, overdue, on, holder, active, activeKeys, currentModel, stopVars>>

\* Variant: the lane is marked idle instead of counted down.
MarkIdle(count) == 0

CountDown(count) == IF count > 0 THEN count - 1 ELSE 0

\* The finally clause.
Release(w) ==
    /\ pc[w] = "release"
    /\ LockFree
    /\ active' = [active EXCEPT ![WorkerLane[w]] = CountDown(@)]
    /\ activeKeys' = activeKeys \ KeysOf(on[w])
    /\ on' = [on EXCEPT ![w] = NoJob]
    /\ Goto(w, "wait")
    /\ UNCHANGED <<jobVars, holder, currentModel, stopVars>>

-----------------------------------------------------------------------------
OwnerStep ==
    \/ \E j \in Jobs :
         NewJob(j) \/ Submit(j) \/ RefuseSubmit(j) \/ CancelPending(j)
                   \/ AcknowledgeStoppedPending(j) \/ Age(j)
    \/ CloseAndDetachPending

WorkerStep(w) ==
    \/ Acquire(w) \/ Release(w)
    \/ \E ans \in Answers : Look(w, ans) \/ Pick(w, ans)
    \/ \E result \in {"value", "error"} : Settle(w, result)

Next == OwnerStep \/ \E w \in Workers : WorkerStep(w)

Spec == Init /\ [][Next]_vars

(* Fairness.  A thread that waits for a mutex is not passed over for ever   *)
(* (strong fairness of Acquire and Release: the mutex is taken and released *)
(* by others in between); a thread in the critical section proceeds; every  *)
(* job returns or raises, because providers are called with timeouts; time  *)
(* passes.  Owners have no fairness: nobody has to submit, cancel or stop.  *)
Fairness ==
    /\ \A w \in Workers :
         /\ SF_vars(Acquire(w)) /\ SF_vars(Release(w))
         /\ WF_vars(\E ans \in Answers : Look(w, ans) \/ Pick(w, ans))
         /\ WF_vars(\E result \in {"value", "error"} : Settle(w, result))
    /\ \A j \in Jobs : WF_vars(Age(j))

LiveSpec == Spec /\ Fairness

-----------------------------------------------------------------------------
(* Properties.                                                              *)

Executing(w) == pc[w] \in {"run", "release"}

\* At most one worker, of whatever lane, runs a job of an ordering key: the
\* turns of one chat are never processed side by side (the active key set
\* and the leading-job rule of _eligible_pending_for_lane_locked).
KeyExclusion ==
    \A v, w \in Workers :
        (v # w /\ Executing(v) /\ Executing(w)) =>
            (OrderingKey[on[v]] = NoKey \/ OrderingKey[on[v]] # OrderingKey[on[w]])

\* wait_until_idle tells the truth: when nothing is pending and no lane
\* counts an active worker, no accepted job is still waiting or executing.
IdleMeansSettled ==
    (Pending = {} /\ \A l \in Lanes : active[l] = 0) =>
        /\ \A j \in Jobs : where[j] \notin {"pending", "running"}
        /\ \A w \in Workers : ~Executing(w)

\* Shutdown: from the moment close_and_detach_pending returns, no worker
\* begins a job, also one that was choosing when the queue was closed.
NoStartAfterClose ==
    [][stop => \A j \in Jobs : where'[j] = "running" => where[j] = "running"]_vars

\* mark_done is called once for a job: a settled job is not executed again
\* and its result is not replaced, whoever cancels, detaches or runs it.
SettledOnce ==
    [][\A j \in Jobs : where[j] = "settled" =>
         where'[j] = "made" \/ (where'[j] = "settled" /\ outcome'[j] = outcome[j])]_vars

\* Per ordering key, jobs of one lane start in their arrival order, whatever
\* the loaded model, the latency classes and the overdue promotion prefer.
CausalOrder ==
    [][\A j \in Jobs : (where[j] = "pending" /\ where'[j] = "running") =>
         \A i \in earlier[j] \cap PendingIn(LaneOf[j]) :
             OrderingKey[j] = NoKey \/ OrderingKey[i] # OrderingKey[j]]_vars

\* Starvation freedom of the interactive lane: a waiting job is executed,
\* cancelled or detached although new jobs of the loaded model and of a more
\* urgent class keep arriving (the overdue promotion).
NoStarvation ==
    \A j \in Jobs : (j \in PendingIn("interactive")) ~> (where[j] # "pending")

\* After close_and_detach_pending every worker thread leaves its loop.
WorkersExit ==
    \A w \in Workers : stop ~> (pc[w] = "exited")

\* The queue moves on: no interactive job waits for ever, no worker outlives a
\* close.
QueueMovesOn == NoStarvation /\ WorkersExit
=============================================================================
