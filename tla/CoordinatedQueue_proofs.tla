----------------------- MODULE CoordinatedQueue_proofs -----------------------
(***************************************************************************)
(* Theorems about the queue and the coordinator together, for any jobs,     *)
(* workers, lanes and demands: the composed system is a run of JobQueue, so *)
(* that what is proved of the queue holds of it; the lease admits one job   *)
(* at a time; a release after a job, and a rejection, meet no job that      *)
(* executes; media work yields to chat.                                     *)
(***************************************************************************)
EXTENDS CoordinatedQueue, TLAPS

\* The queue's theorems, of the queue that this module composes.
QP == INSTANCE JobQueue_proofs WITH
        Answers <- [admits : SUBSET Jobs, serialize : BOOLEAN], Recycle <- FALSE

-----------------------------------------------------------------------------
(* The inductive invariant.                                                 *)

Pending == {j \in Jobs : where[j] = "pending"}

\* A worker inside the queue's lock, which on_selected still holds.
Locked(w) == holder = w \/ phase[w] = "reserving"
Reserving(w) == phase[w] = "reserving"
Holds(w) == phase[w] \in {"picked", "executing", "leaving"}
Ends(w) == phase[w] \in {"cleanup", "cleared", "completed"}

\* The places of a worker in the queue and in its job agree, one worker is in
\* the lock, and the questions asked are those of its evaluation.
PhasesAgree == \A w \in Workers : phase[w] # "none" <=> pc[w] = "run"
HolderEvaluates == holder # NoWorker => pc[holder] \in {"look", "pick"}
IdleHoldNothing == \A w \in Workers : pc[w] \notin {"run", "release"} => on[w] = NoJob
OneLocked ==
    \A w \in Workers : Reserving(w) =>
        /\ holder = NoWorker /\ on[w] \in Coordinated
        /\ \A v \in Workers : Reserving(v) => v = w
NoStaleAnswers == holder = NoWorker => asked = {} /\ serialize = "unasked"
AsksAboutPending == asked \subseteq Pending

PlaceInv == PhasesAgree /\ HolderEvaluates /\ IdleHoldNothing /\ OneLocked /\ NoStaleAnswers /\ AsksAboutPending

\* Undisturbed workers saw no disabled mode, and one of them is in the lock if
\* any worker is.
UndisturbedEnabled == undisturbed # {} => enabled
LockedUndisturbed == \A w \in Workers : Locked(w) /\ undisturbed # {} => w \in undisturbed

\* The lease is of a job that a worker holds.
LeaseIsHeld == lease # NoJob => \E w \in Workers : on[w] = lease /\ Holds(w)

\* A worker that will take the lease, or has been told that it may, finds it
\* free.
Promised(w) == Reserving(w) \/ (holder = w /\ admits \cap Coordinated # {})
PromiseIsKept == \A w \in undisturbed : Promised(w) => lease = NoJob

\* The flag of a release after a job excludes them all.
FlagExcludes ==
    (control /\ ~PollReleases) => \A w \in undisturbed : w \notin Occupied /\ ~Promised(w)

\* What an undisturbed evaluation has been told of serialize_resources.
SerializeIsTrue == \A w \in undisturbed : holder = w => serialize # "no"

LeaseInv ==
    /\ UndisturbedEnabled /\ LockedUndisturbed /\ LeaseIsHeld
    /\ LeaseExclusive /\ PromiseIsKept /\ FlagExcludes /\ SerializeIsTrue

\* Records of jobs that were admitted, or taken, neither wait nor are rejected.
LetGo(j) == record[j] \in {"none", "admitted"}
NobodyWaitsDisabled == mode = "disabled" => \A j \in Jobs : LetGo(j)
OnlyDemandsRecorded == \A j \in Jobs : Demand[j] = "none" => record[j] = "none"
AdmittedLetGo == \A j \in admits : LetGo(j)
TakenLetGo == \A w \in Workers : phase[w] # "none" => LetGo(on[w])
ExecutionIsNoted == \A w \in Workers : (phase[w] = "executing" /\ record[on[w]] # "none") => on[w] \in started
NotedExecute == \A j \in started : \E w \in Workers : on[w] = j /\ phase[w] = "executing"

\* A job that will never execute.
Gone(j) ==
    \/ cancelStep[j] # "no" \/ where[j] = "settled"
    \/ \E w \in Workers : on[w] = j /\ Ends(w)

\* The job the polling thread gives up, once its record is gone: its owner
\* cancelled it or it has been executed.
PollIsOfAJob == poll.at # "idle" => poll.job \in Jobs
GivesUp == poll.at \in {"reject", "fail", "drop"}
GivenUpIsGone ==
    (GivesUp /\ record[poll.job] = "none") =>
        /\ Gone(poll.job)
        /\ \A w \in Workers : on[w] = poll.job => phase[w] # "executing"

RecordInv ==
    /\ NobodyWaitsDisabled /\ OnlyDemandsRecorded /\ AdmittedLetGo /\ TakenLetGo
    /\ ExecutionIsNoted /\ NotedExecute /\ PollIsOfAJob /\ GivenUpIsGone

CoordInv == TypeOK /\ QP!QueueInv /\ PlaceInv /\ LeaseInv /\ RecordInv

-----------------------------------------------------------------------------
(* Every step is a step of the queue, or leaves it alone.                   *)

LEMMA QueueAssumptionHolds == QP!QueueAssumption
BY CoordinationAssumption DEF Q!QueueAssumption, QP!QueueAssumption, Q!Lanes, QP!Lanes, Q!Answer, QP!Answer,
   Q!IsFiniteSet, QP!IsFiniteSet

LEMMA SameQueue ==
    /\ Q!Init <=> QP!Init
    /\ Q!TypeOK <=> QP!TypeOK
    /\ \A w \in Workers : (Q!Acquire(w) <=> QP!Acquire(w)) /\ (Q!Release(w) <=> QP!Release(w))
    /\ \A j \in Jobs : /\ Q!NewJob(j) <=> QP!NewJob(j)
                       /\ Q!Submit(j) <=> QP!Submit(j)
                       /\ Q!CancelPending(j) <=> QP!CancelPending(j)
    /\ \A w \in Workers : Q!Settle(w, "value") <=> QP!Settle(w, "value")
<1>1. Q!Init <=> QP!Init
  BY DEF Q!Init, QP!Init, Q!Lanes, QP!Lanes
<1>2. Q!TypeOK <=> QP!TypeOK
  BY DEF Q!TypeOK, QP!TypeOK, Q!Lanes, QP!Lanes, Q!Places, QP!Places, Q!Outcomes, QP!Outcomes, Q!PCs, QP!PCs,
         Q!Keys, QP!Keys, Q!Models, QP!Models
<1>3. \A w \in Workers : Q!Acquire(w) <=> QP!Acquire(w)
  BY DEF Q!Acquire, QP!Acquire, Q!LockFree, QP!LockFree, Q!Goto, QP!Goto, Q!jobVars, QP!jobVars, Q!stopVars, QP!stopVars
<1>4. \A w \in Workers : Q!Release(w) <=> QP!Release(w)
  BY DEF Q!Release, QP!Release, Q!LockFree, QP!LockFree, Q!Goto, QP!Goto, Q!jobVars, QP!jobVars, Q!stopVars, QP!stopVars,
         Q!CountDown, QP!CountDown, Q!KeysOf, QP!KeysOf
<1>5. \A j \in Jobs : Q!NewJob(j) <=> QP!NewJob(j)
  BY DEF Q!NewJob, QP!NewJob, Q!Waiting, QP!Waiting, Q!workerVars, QP!workerVars, Q!stopVars, QP!stopVars
<1>6. \A j \in Jobs : Q!Submit(j) <=> QP!Submit(j)
  BY DEF Q!Submit, QP!Submit, Q!LockFree, QP!LockFree, Q!workerVars, QP!workerVars, Q!stopVars, QP!stopVars
<1>7. \A j \in Jobs : Q!CancelPending(j) <=> QP!CancelPending(j)
  BY DEF Q!CancelPending, QP!CancelPending, Q!LockFree, QP!LockFree, Q!workerVars, QP!workerVars, Q!stopVars, QP!stopVars,
         Q!SettleWaiting, QP!SettleWaiting, Q!Forget, QP!Forget
<1>8. \A w \in Workers : Q!Settle(w, "value") <=> QP!Settle(w, "value")
  BY DEF Q!Settle, QP!Settle, Q!Goto, QP!Goto, Q!stopVars, QP!stopVars
<1> QED
  BY <1>1, <1>2, <1>3, <1>4, <1>5, <1>6, <1>7, <1>8

LEMMA SameChoice ==
    ASSUME NEW w \in Workers, NEW ans
    PROVE  (Q!Look(w, ans) <=> QP!Look(w, ans)) /\ (Q!Pick(w, ans) <=> QP!Pick(w, ans))
<1>1. \A lane : Q!PendingIn(lane) = QP!PendingIn(lane)
  BY DEF Q!PendingIn, QP!PendingIn, Q!Pending, QP!Pending
<1>2. \A lane : Q!YieldsTo(lane, ans) <=> QP!YieldsTo(lane, ans)
  BY <1>1 DEF Q!YieldsTo, QP!YieldsTo
<1>3. \A j, S : Q!Leads(j, S) <=> QP!Leads(j, S)
  BY DEF Q!Leads, QP!Leads
<1>4. \A lane : Q!Eligible(lane, ans) = QP!Eligible(lane, ans)
  BY <1>1, <1>2, <1>3 DEF Q!Eligible, QP!Eligible
<1>5. \A S : Q!Foremost(S) = QP!Foremost(S) /\ Q!Urgent(S) = QP!Urgent(S) /\ \A lane : Q!Loaded(lane, S) = QP!Loaded(lane, S)
  BY DEF Q!Foremost, QP!Foremost, Q!Urgent, QP!Urgent, Q!Loaded, QP!Loaded
<1>6. \A lane, S : Q!Choices(lane, S) = QP!Choices(lane, S)
  <2>1. \A S : Q!Cardinality(S) = QP!Cardinality(S)
    BY DEF Q!Cardinality, QP!Cardinality
  <2> QED
    BY <1>5, <2>1 DEF Q!Choices, QP!Choices
<1>7. \A j : Q!Start(w, j) <=> QP!Start(w, j)
  BY DEF Q!Start, QP!Start, Q!KeysOf, QP!KeysOf, Q!Goto, QP!Goto, Q!Forget, QP!Forget, Q!stopVars, QP!stopVars
<1>8. Q!Die(w) <=> QP!Die(w)
  BY DEF Q!Die, QP!Die, Q!Goto, QP!Goto, Q!jobVars, QP!jobVars, Q!stopVars, QP!stopVars
<1>9. Q!Pick(w, ans) <=> QP!Pick(w, ans)
  BY <1>4, <1>6, <1>7, <1>8 DEF Q!Pick, QP!Pick
<1>10. Q!Look(w, ans) <=> QP!Look(w, ans)
  BY <1>4 DEF Q!Look, QP!Look, Q!Goto, QP!Goto, Q!jobVars, QP!jobVars, Q!stopVars, QP!stopVars
<1> QED
  BY <1>9, <1>10

\* The answer of an evaluation is an answer of the queue's kind.
LEMMA AnsweredIsAnswer == TypeOK => Answered \in [admits : SUBSET Jobs, serialize : BOOLEAN]
BY DEF TypeOK, Answered

LEMMA QueueStep == TypeOK /\ [Next]_vars => [QP!Next]_(QP!vars)
<1> SUFFICES ASSUME TypeOK, [Next]_vars PROVE [QP!Next]_(QP!vars)
  OBVIOUS
<1> USE DEF QP!Next, QP!OwnerStep, QP!WorkerStep
<1>0. UNCHANGED queueVars => UNCHANGED QP!vars
  BY DEF queueVars, QP!vars, QP!jobVars, QP!workerVars, QP!stopVars
<1>1. ASSUME NEW w \in Workers, Acquire(w) PROVE QP!Next
  BY <1>1, SameQueue DEF Acquire
<1>2. ASSUME NEW w \in Workers, Evaluates(w) PROVE QP!Next \/ UNCHANGED queueVars
  BY <1>2, SameChoice, AnsweredIsAnswer DEF Evaluates, AskSerialize, AskAdmission, Conclude
<1>3. ASSUME NEW w \in Workers, Runs(w) PROVE QP!Next \/ UNCHANGED queueVars
  BY <1>3, SameQueue DEF Runs, ReserveLease, Begin, End, Reclaim, Settle
<1>4. ASSUME NEW w \in Workers, Release(w) PROVE QP!Next
  BY <1>4, SameQueue DEF Release
<1>5. ASSUME NEW j \in Jobs, Arrive(j) \/ Submit(j) PROVE QP!Next
  BY <1>5, SameQueue DEF Arrive, Submit
<1>6. ASSUME NEW j \in Jobs, UserCancel(j) \/ CancelAdmission(j) \/ CancelQueued(j) PROVE QP!Next \/ UNCHANGED queueVars
  BY <1>6, SameQueue DEF UserCancel, CancelAdmission, CancelQueued, Dequeue
<1>7. ASSUME NEW j \in Jobs, Reject(j) \/ FailRejected(j) PROVE QP!Next \/ UNCHANGED queueVars
  BY <1>7, SameQueue DEF Reject, FailRejected, Dequeue
<1>8. ASSUME NEW j \in Jobs, Polling(PollBegin(j)) \/ Polling(PollStep(j)) \/ Polling(Expire(j)) PROVE UNCHANGED queueVars
  BY <1>8 DEF Polling
<1>9. ASSUME NEW to \in Modes, Update(to) PROVE UNCHANGED queueVars
  BY <1>9 DEF Update
<1>10. UNCHANGED vars => UNCHANGED queueVars
  BY DEF vars
<1> QED
  BY <1>0, <1>1, <1>2, <1>3, <1>4, <1>5, <1>6, <1>7, <1>8, <1>9, <1>10 DEF Next

\* What the steps do to the queue, as far as the invariant looks at it.
LEMMA AcquireEffect ==
    ASSUME NEW w \in Workers, Acquire(w)
    PROVE  /\ pc[w] = "wait" /\ holder = NoWorker /\ \A v \in Workers : ~Reserving(v)
           /\ pc' = [pc EXCEPT ![w] = "look"] /\ holder' = w
           /\ UNCHANGED <<on, where, phase, cancelStep, failed>> /\ UNCHANGED scanVars /\ UNCHANGED coordinatorVars
           /\ undisturbed' = IF enabled THEN undisturbed \cup {w} ELSE undisturbed \ {w}
BY DEF Acquire, QueueLockFree, Q!LockFree, Q!Acquire, Q!Goto, Q!jobVars, Reserving

Looked(w) ==
    /\ UNCHANGED <<on, where, phase>> /\ pc[w] = "look"
    /\ \E p \in {"exited", "pick", "wait"} :
         pc' = [pc EXCEPT ![w] = p] /\ holder' = IF p = "pick" THEN holder ELSE NoWorker
Died(w) ==
    /\ pc[w] = "pick" /\ pc' = [pc EXCEPT ![w] = "dead"] /\ holder' = NoWorker
    /\ UNCHANGED <<on, where>> /\ phase' = [phase EXCEPT ![w] = "none"]
Took(w, j) ==
    /\ pc[w] = "pick" /\ pc' = [pc EXCEPT ![w] = "run"] /\ holder' = NoWorker
    /\ j \in admits /\ where[j] = "pending" /\ Ready(w) /\ ~Yields(w)
    /\ where' = [where EXCEPT ![j] = "running"] /\ on' = [on EXCEPT ![w] = j]
    /\ phase' = [phase EXCEPT ![w] = IF Reserves(j) THEN "reserving" ELSE "picked"]

LEMMA ConcludeEffect ==
    ASSUME TypeOK, PlaceInv, NEW w \in Workers, Conclude(w)
    PROVE  /\ holder = w /\ Ready(w)
           /\ asked' = {} /\ admits' = {} /\ serialize' = "unasked"
           /\ UNCHANGED <<cancelStep, failed, undisturbed>> /\ UNCHANGED coordinatorVars
           /\ Looked(w) \/ Died(w) \/ \E j \in Jobs : Took(w, j)
<1>1. CASE Q!Look(w, Answered) /\ UNCHANGED phase
  <2>1. Looked(w)
    BY <1>1 DEF Looked, Q!Look, Q!Goto, Q!jobVars
  <2> QED
    BY <2>1 DEF Conclude, ResetScan, Evaluating
<1>2. CASE Q!Pick(w, Answered)
  <2>0. /\ phase' = [phase EXCEPT ![w] = IF on'[w] = NoJob THEN "none"
                                         ELSE IF Reserves(on'[w]) THEN "reserving" ELSE "picked"]
        /\ pc[w] = "pick"
    BY <1>2 DEF Conclude, Q!Pick, Q!Look
  <2>1. CASE Q!Die(w)
    <3>1. on[w] = NoJob
      BY <2>0 DEF PlaceInv, IdleHoldNothing
    <3>2. Died(w)
      BY <2>0, <2>1, <3>1 DEF Died, Q!Die, Q!Goto, Q!jobVars
    <3> QED
      BY <3>2 DEF Conclude, ResetScan, Evaluating
  <2>2. CASE \E j \in Q!Choices(Lane(w), Q!Eligible(Lane(w), Answered)) : Q!Start(w, j)
    <3>1. PICK j \in Q!Choices(Lane(w), Q!Eligible(Lane(w), Answered)) : Q!Start(w, j)
      BY <2>2
    <3>2. j \in Q!Eligible(Lane(w), Answered)
      BY <3>1 DEF Q!Choices, Q!Foremost, Q!Loaded, Q!Urgent
    <3>3. j \in Q!PendingIn(Lane(w)) /\ j \in admits /\ ~Yields(w)
      BY <3>2 DEF Q!Eligible, Answered, Yields
    <3>4. j \in Jobs /\ where[j] = "pending" /\ j # NoJob
      BY <3>3, CoordinatorAssumption DEF Q!PendingIn, Q!Pending
    <3>5. on' = [on EXCEPT ![w] = j] /\ on'[w] = j
      BY <3>1 DEF Q!Start, TypeOK, Q!TypeOK
    <3>6. Took(w, j)
      BY <2>0, <3>1, <3>3, <3>4, <3>5 DEF Took, Q!Start, Q!Goto, Conclude
    <3> QED
      BY <3>4, <3>6 DEF Conclude, ResetScan, Evaluating
  <2> QED
    BY <1>2, <2>1, <2>2 DEF Q!Pick, Lane
<1> QED
  BY <1>1, <1>2 DEF Conclude

LEMMA SettleEffect ==
    ASSUME NEW w \in Workers, Settle(w)
    PROVE  /\ phase[w] = "completed" /\ phase' = [phase EXCEPT ![w] = "none"]
           /\ pc[w] = "run" /\ pc' = [pc EXCEPT ![w] = "release"]
           /\ where' = [where EXCEPT ![on[w]] = "settled"]
           /\ UNCHANGED <<on, holder, cancelStep, failed, undisturbed>> /\ UNCHANGED scanVars /\ UNCHANGED coordinatorVars
BY DEF Settle, Q!Settle, Q!Goto

LEMMA ReleaseEffect ==
    ASSUME NEW w \in Workers, Release(w)
    PROVE  /\ pc[w] = "release" /\ pc' = [pc EXCEPT ![w] = "wait"] /\ on' = [on EXCEPT ![w] = NoJob]
           /\ holder = NoWorker /\ \A v \in Workers : ~Reserving(v)
           /\ UNCHANGED <<where, holder, phase, cancelStep, failed, undisturbed>> /\ UNCHANGED scanVars
           /\ UNCHANGED coordinatorVars
BY DEF Release, QueueLockFree, Q!LockFree, Q!Release, Q!Goto, Q!jobVars, runVars, Reserving

\* A step of a job's owner.
Outside == holder = NoWorker /\ (\A v \in Workers : ~Reserving(v)) /\ UNCHANGED <<pc, on, holder>>

LEMMA ArriveEffect ==
    ASSUME NEW j \in Jobs, Arrive(j)
    PROVE  /\ where[j] = "free" /\ where' = [where EXCEPT ![j] = "made"] /\ UNCHANGED <<pc, on, holder>>
           /\ UNCHANGED scanVars /\ UNCHANGED runVars /\ UNCHANGED coordinatorVars
BY DEF Arrive, Q!NewJob, Q!workerVars

LEMMA SubmitEffect ==
    ASSUME NEW j \in Jobs, Submit(j)
    PROVE  /\ where[j] = "made" /\ where' = [where EXCEPT ![j] = "pending"] /\ Outside
           /\ UNCHANGED scanVars /\ UNCHANGED runVars /\ Register(j)
BY DEF Submit, QueueLockFree, Q!LockFree, Q!Submit, Q!workerVars, Outside, Reserving

LEMMA DequeueEffect ==
    ASSUME TypeOK, NEW j \in Jobs, Dequeue(j)
    PROVE  /\ Outside
           /\ where' = where \/ (where[j] = "pending" /\ where' = [where EXCEPT ![j] = "settled"])
<1>1. CASE where[j] = "pending"
  <2>1. Q!CancelPending(j)
    BY <1>1 DEF Dequeue
  <2>2. where' = [i \in Jobs |-> IF i \in {j} THEN "settled" ELSE where[i]]
    BY <2>1 DEF Q!CancelPending, Q!SettleWaiting
  <2>3. where' = [where EXCEPT ![j] = "settled"]
    BY <2>2 DEF TypeOK, Q!TypeOK
  <2> QED
    BY <1>1, <2>1, <2>3 DEF Dequeue, QueueLockFree, Q!LockFree, Q!CancelPending, Q!workerVars, Outside, Reserving
<1>2. CASE where[j] # "pending"
  BY <1>2 DEF Dequeue, QueueLockFree, Q!LockFree, queueVars, Outside, Reserving
<1> QED
  BY <1>1, <1>2

-----------------------------------------------------------------------------
(* Types, and what the queue's invariant says of workers and jobs.          *)

Places == {"free", "made", "pending", "running", "settled"}
WorkerPlaces == {"wait", "look", "pick", "run", "release", "exited", "dead"}
Phases == {"none", "reserving", "picked", "executing", "leaving", "cleanup", "cleared", "completed"}

Typed ==
    /\ where \in [Jobs -> Places] /\ pc \in [Workers -> WorkerPlaces] /\ on \in [Workers -> Jobs \cup {NoJob}]
    /\ holder \in Workers \cup {NoWorker}
    /\ asked \subseteq Jobs /\ admits \subseteq asked /\ serialize \in {"unasked", "yes", "no"}
    /\ phase \in [Workers -> Phases] /\ cancelStep \in [Jobs -> {"no", "asked", "released", "done"}]
    /\ failed \subseteq Jobs /\ undisturbed \subseteq Workers

LEMMA TypedHolds == TypeOK => Typed
BY DEF TypeOK, Typed, Q!TypeOK, Q!Places, Q!PCs, Places, WorkerPlaces, Phases

\* A worker in its job holds a running job, alone.
Working == \A w \in Workers : phase[w] # "none" => on[w] \in Jobs /\ where[on[w]] = "running"
Apart == \A v, w \in Workers : (phase[v] # "none" /\ phase[w] # "none" /\ on[v] = on[w]) => v = w
Lookers == \A w \in Workers : pc[w] \in {"look", "pick"} => holder = w

LEMMA WorkersApart ==
    ASSUME QP!QueueInv, PlaceInv
    PROVE  Working /\ Apart /\ Lookers
<1> USE DEF QP!QueueInv, QP!RunInv, QP!LockInv
<1>1. Working
  BY DEF Working, PlaceInv, PhasesAgree, QP!HoldsJob, QP!RunsRunning, QP!Executing
<1>2. Apart
  BY DEF Apart, PlaceInv, PhasesAgree, QP!RunsAlone
<1>3. Lookers
  BY DEF Lookers, QP!LockHeld
<1> QED
  BY <1>1, <1>2, <1>3

LEMMA QueueKept == TypeOK /\ QP!QueueInv /\ [Next]_vars => QP!QueueInv'
BY QueueStep, QueueAssumptionHolds, QP!QueueInvNext

LEMMA QueueTypeKept == QP!QueueInv' => Q!TypeOK'
<1> SUFFICES ASSUME QP!TypeOK' PROVE Q!TypeOK'
  BY DEF QP!QueueInv
<1> QED
  BY DEF Q!TypeOK, QP!TypeOK, Q!Lanes, QP!Lanes, Q!Places, QP!Places, Q!Outcomes, QP!Outcomes, Q!PCs, QP!PCs,
         Q!Keys, QP!Keys, Q!Models, QP!Models

\* The coordinator's types, and those of the composition, without the queue's.
OwnTypes == 
    /\ CoordinatorTypeOK
    /\ asked \subseteq Jobs /\ admits \subseteq asked /\ serialize \in {"unasked", "yes", "no"}
    /\ phase \in [Workers -> Phases] /\ cancelStep \in [Jobs -> {"no", "asked", "released", "done"}]
    /\ failed \subseteq Jobs /\ undisturbed \subseteq Workers

LEMMA PollGotoType ==
    ASSUME NEW j \in Jobs, NEW place \in PollPlaces, PollGoto(place, j)
    PROVE  poll' \in [at : PollPlaces, job : Jobs \cup {NoJob}]
BY DEF PollGoto

LEMMA PollStepTypes ==
    ASSUME CoordinatorTypeOK, NEW j \in Jobs, PollBegin(j) \/ PollStep(j) \/ Expire(j)
    PROVE  CoordinatorTypeOK'
<1>0. Expire(j) \/ \E place \in PollPlaces : PollGoto(place, j)
  BY DEF PollBegin, PollStep, PollDecide, PollAdmit, PollExpire, PollDrop, PollAttempt, PollRelease, PollUnlock, PollPlaces
<1>1. poll' \in [at : PollPlaces, job : Jobs \cup {NoJob}]
  BY <1>0, PollGotoType DEF Expire, CoordinatorTypeOK
<1>2. /\ UNCHANGED mode /\ UNCHANGED lease
      /\ started' \in {started, started \ {j}} /\ attempted' \in {attempted, attempted \cup {j}, attempted \ {j}}
      /\ expired' \in {expired, expired \cup {j}, expired \ {j}} /\ control' \in {control, TRUE, FALSE}
      /\ reclaimed' \in {reclaimed, "pre_admission"}
      /\ record' = record \/ \E s \in RecordStates : SetRecord(j, s)
  BY DEF PollBegin, PollStep, PollDecide, PollAdmit, PollExpire, PollDrop, PollAttempt, PollRelease, PollUnlock, Expire,
         PopRecord, RecordStates
<1>3. record' \in [Jobs -> RecordStates]
  BY <1>2 DEF SetRecord, CoordinatorTypeOK
<1> QED
  BY <1>1, <1>2, <1>3 DEF CoordinatorTypeOK

LEMMA OwnTypesKept ==
    ASSUME TypeOK, PlaceInv, QP!QueueInv, [Next]_vars
    PROVE  OwnTypes'
<1>0. OwnTypes /\ Typed /\ Working
  BY TypedHolds, WorkersApart DEF OwnTypes, TypeOK, Phases
<1>1. ASSUME NEW w \in Workers, Acquire(w) PROVE OwnTypes'
  BY <1>0, <1>1, AcquireEffect DEF OwnTypes, scanVars, coordinatorVars, CoordinatorTypeOK
<1>2. ASSUME NEW w \in Workers, AskSerialize(w) \/ AskAdmission(w) PROVE OwnTypes'
  <2>1. Q!Foremost(Q!PendingIn(Lane(w)) \ asked) \subseteq Jobs
    BY DEF Q!Foremost, Q!PendingIn, Q!Pending
  <2>2. /\ asked' \subseteq Jobs /\ admits' \subseteq asked' /\ serialize' \in {"unasked", "yes", "no"}
        /\ UNCHANGED runVars /\ UNCHANGED coordinatorVars
    BY <1>0, <1>2, <2>1 DEF AskSerialize, AskAdmission, OwnTypes
  <2> QED
    BY <1>0, <2>2 DEF OwnTypes, runVars, coordinatorVars, CoordinatorTypeOK
<1>3. ASSUME NEW w \in Workers, Conclude(w) PROVE OwnTypes'
  <2>1. phase' \in [Workers -> Phases]
    BY <1>0, <1>3, ConcludeEffect DEF OwnTypes, Looked, Died, Took, Phases
  <2> QED
    BY <1>0, <1>3, <2>1, ConcludeEffect DEF OwnTypes, coordinatorVars, CoordinatorTypeOK
<1>4. ASSUME NEW w \in Workers, ReserveLease(w) PROVE OwnTypes'
  <2>1. on[w] \in Jobs
    BY <1>0, <1>4 DEF ReserveLease, Working
  <2> QED
    BY <1>0, <1>4, <2>1 DEF ReserveLease, Reserve, OwnTypes, CoordinatorTypeOK, Phases, scanVars
<1>5. ASSUME NEW w \in Workers, Begin(w) PROVE OwnTypes'
  <2>1. on[w] \in Jobs
    BY <1>0, <1>5 DEF Begin, Working
  <2> QED
    BY <1>0, <1>5, <2>1 DEF Begin, ExecutionStarted, OwnTypes, CoordinatorTypeOK, Phases, scanVars, coordinatorVars
<1>6. ASSUME NEW w \in Workers, End(w) PROVE OwnTypes'
  <2>1. on[w] \in Jobs
    BY <1>0, <1>6 DEF End, Working
  <2>2. CoordinatorTypeOK'
    BY <1>0, <1>6, <2>1 DEF End, Complete, PopRecord, SetRecord, OwnTypes, CoordinatorTypeOK, RecordStates
  <2> QED
    BY <1>0, <1>6, <2>2 DEF End, OwnTypes, Phases, scanVars
<1>7. ASSUME NEW w \in Workers, Reclaim(w) PROVE OwnTypes'
  BY <1>0, <1>7 DEF Reclaim, PostJobRelease, EndControl, OwnTypes, CoordinatorTypeOK, Phases, scanVars
<1>8. ASSUME NEW w \in Workers, Settle(w) PROVE OwnTypes'
  BY <1>0, <1>8, SettleEffect DEF OwnTypes, scanVars, coordinatorVars, CoordinatorTypeOK, Phases
<1>9. ASSUME NEW w \in Workers, Release(w) PROVE OwnTypes'
  BY <1>0, <1>9, ReleaseEffect DEF OwnTypes, scanVars, coordinatorVars, CoordinatorTypeOK
<1>10. ASSUME NEW j \in Jobs, Arrive(j) PROVE OwnTypes'
  BY <1>0, <1>10, ArriveEffect DEF OwnTypes, scanVars, runVars, coordinatorVars, CoordinatorTypeOK
<1>11. ASSUME NEW j \in Jobs, Submit(j) PROVE OwnTypes'
  BY <1>0, <1>11, SubmitEffect DEF OwnTypes, scanVars, runVars, Register, SetRecord, CoordinatorTypeOK, RecordStates
<1>12. ASSUME NEW j \in Jobs, UserCancel(j) \/ CancelQueued(j) PROVE OwnTypes'
  BY <1>0, <1>12 DEF UserCancel, CancelQueued, OwnTypes, scanVars, coordinatorVars, CoordinatorTypeOK
<1>13. ASSUME NEW j \in Jobs, CancelAdmission(j) PROVE OwnTypes'
  BY <1>0, <1>13 DEF CancelAdmission, CancelRecord, PopRecord, SetRecord, OwnTypes, scanVars, CoordinatorTypeOK, RecordStates
<1>14. ASSUME NEW j \in Jobs, Reject(j) \/ FailRejected(j) PROVE OwnTypes'
  BY <1>0, <1>14 DEF Reject, FailRejected, PollGoto, PollPlaces, OwnTypes, scanVars, runVars, CoordinatorTypeOK
<1>15. ASSUME NEW j \in Jobs, Polling(PollBegin(j)) \/ Polling(PollStep(j)) \/ Polling(Expire(j)) PROVE OwnTypes'
  BY <1>0, <1>15, PollStepTypes DEF Polling, OwnTypes, scanVars, runVars
<1>16. ASSUME NEW to \in Modes, Update(to) PROVE OwnTypes'
  BY <1>0, <1>16 DEF Update, SetMode, OwnTypes, scanVars, CoordinatorTypeOK, RecordStates
<1>17. CASE UNCHANGED vars
  BY <1>0, <1>17 DEF vars, scanVars, runVars, coordinatorVars, OwnTypes, CoordinatorTypeOK
<1> QED
  BY <1>1, <1>2, <1>3, <1>4, <1>5, <1>6, <1>7, <1>8, <1>9, <1>10, <1>11, <1>12, <1>13, <1>14, <1>15, <1>16, <1>17
     DEF Next, Evaluates, Runs

LEMMA TypeKept ==
    ASSUME TypeOK, PlaceInv, QP!QueueInv, [Next]_vars
    PROVE  TypeOK' /\ Typed'
<1>1. TypeOK'
  BY OwnTypesKept, QueueKept, QueueTypeKept DEF OwnTypes, TypeOK, Phases
<1> QED
  BY <1>1 DEF TypeOK, Typed, Q!TypeOK, Q!Places, Q!PCs, Places, WorkerPlaces, Phases

-----------------------------------------------------------------------------
(* The places of the workers.                                               *)

LEMMA PlaceKept ==
    ASSUME TypeOK, PlaceInv, QP!QueueInv, [Next]_vars
    PROVE  PlaceInv'
<1> USE DEF PlaceInv, PhasesAgree, HolderEvaluates, IdleHoldNothing, OneLocked, NoStaleAnswers, AsksAboutPending,
            Reserving, Pending
<1>0. Typed /\ Working /\ Lookers /\ NoWorker \notin Workers
  BY TypedHolds, WorkersApart, CoordinationAssumption DEF Q!QueueAssumption
<1>1. ASSUME NEW w \in Workers, Acquire(w) PROVE PlaceInv'
  BY <1>0, <1>1, AcquireEffect DEF Typed, scanVars
<1>2. ASSUME NEW w \in Workers, AskSerialize(w) PROVE PlaceInv'
  BY <1>0, <1>2 DEF AskSerialize, Evaluating, runVars, queueVars, Typed
<1>3. ASSUME NEW w \in Workers, AskAdmission(w) PROVE PlaceInv'
  <2>1. Q!Foremost(Q!PendingIn(Lane(w)) \ asked) \subseteq Pending
    BY DEF Q!Foremost, Q!PendingIn, Q!Pending
  <2> QED
    BY <1>0, <1>3, <2>1 DEF AskAdmission, Evaluating, runVars, queueVars, Typed
<1>4. ASSUME NEW w \in Workers, Conclude(w) PROVE PlaceInv'
  <2>0. holder = w /\ asked' = {} /\ serialize' = "unasked" /\ \A v \in Workers : ~Reserving(v)
    BY <1>4, <1>0, ConcludeEffect DEF Typed
  <2>1. CASE Looked(w)
    BY <1>0, <2>0, <2>1 DEF Looked, Typed
  <2>2. CASE Died(w)
    BY <1>0, <2>0, <2>2 DEF Died, Typed
  <2>3. CASE \E j \in Jobs : Took(w, j)
    <3>1. PICK j \in Jobs : Took(w, j)
      BY <2>3
    <3>2. /\ holder' = NoWorker /\ on' = [on EXCEPT ![w] = j] /\ pc' = [pc EXCEPT ![w] = "run"] /\ pc[w] = "pick"
          /\ \/ phase' = [phase EXCEPT ![w] = "reserving"] /\ j \in Coordinated
             \/ phase' = [phase EXCEPT ![w] = "picked"]
      BY <3>1 DEF Took, Reserves
    <3> QED
      BY <1>0, <2>0, <3>2 DEF Typed
  <2> QED
    BY <1>4, <2>1, <2>2, <2>3, ConcludeEffect
<1>5. ASSUME NEW w \in Workers, ReserveLease(w) \/ Begin(w) \/ End(w) \/ Reclaim(w) PROVE PlaceInv'
  <2>1. /\ UNCHANGED queueVars /\ UNCHANGED scanVars /\ phase[w] # "none"
        /\ \E p \in {"picked", "executing", "leaving", "cleanup", "cleared", "completed"} : phase' = [phase EXCEPT ![w] = p]
    BY <1>5 DEF ReserveLease, Begin, End, Reclaim
  <2> QED
    BY <1>0, <2>1 DEF queueVars, scanVars, Typed
<1>6. ASSUME NEW w \in Workers, Settle(w) PROVE PlaceInv'
  <2>1. where[on[w]] = "running"
    BY <1>0, <1>6, SettleEffect DEF Working
  <2> QED
    BY <1>0, <1>6, <2>1, SettleEffect DEF Typed, scanVars
<1>7. ASSUME NEW w \in Workers, Release(w) PROVE PlaceInv'
  BY <1>0, <1>7, ReleaseEffect DEF Typed, scanVars
<1>8. ASSUME NEW j \in Jobs, Arrive(j) PROVE PlaceInv'
  BY <1>0, <1>8, ArriveEffect DEF Typed, scanVars, runVars
<1>9. ASSUME NEW j \in Jobs, Submit(j) PROVE PlaceInv'
  BY <1>0, <1>9, SubmitEffect DEF Typed, scanVars, runVars, Outside
<1>10. ASSUME NEW j \in Jobs, CancelQueued(j) \/ Reject(j) PROVE PlaceInv'
  <2>1. Dequeue(j) /\ UNCHANGED scanVars /\ UNCHANGED phase
    BY <1>10 DEF CancelQueued, Reject, runVars
  <2> QED
    BY <1>0, <2>1, DequeueEffect DEF Typed, scanVars, Outside
<1>11. ASSUME NEW j \in Jobs, UserCancel(j) \/ CancelAdmission(j) \/ FailRejected(j) PROVE PlaceInv'
  BY <1>11 DEF UserCancel, CancelAdmission, FailRejected, queueVars, scanVars
<1>12. ASSUME NEW j \in Jobs, Polling(PollBegin(j)) \/ Polling(PollStep(j)) \/ Polling(Expire(j)) PROVE PlaceInv'
  BY <1>12 DEF Polling, queueVars, scanVars, runVars
<1>13. ASSUME NEW to \in Modes, Update(to) PROVE PlaceInv'
  BY <1>13 DEF Update, queueVars, scanVars
<1>14. CASE UNCHANGED vars
  BY <1>14 DEF vars, queueVars, scanVars, runVars
<1> QED
  BY <1>1, <1>2, <1>3, <1>4, <1>5, <1>6, <1>7, <1>8, <1>9, <1>10, <1>11, <1>12, <1>13, <1>14 DEF Next, Evaluates, Runs

-----------------------------------------------------------------------------
(* The lease.                                                               *)

\* Nothing the lease depends on changes.
LeaseVars == <<undisturbed, mode, holder, phase, lease, on, admits, control, PollReleases, serialize>>

LEMMA LeaseFrame ==
    ASSUME LeaseInv, UNCHANGED LeaseVars
    PROVE  LeaseInv'
<1> USE DEF LeaseVars, LeaseInv
<1>1. UndisturbedEnabled' /\ LockedUndisturbed' /\ LeaseIsHeld'
  BY DEF UndisturbedEnabled, enabled, LockedUndisturbed, Locked, LeaseIsHeld, Holds
<1>2. LeaseExclusive'
  BY DEF LeaseExclusive, Occupied
<1>3. PromiseIsKept' /\ SerializeIsTrue'
  BY DEF PromiseIsKept, Promised, Reserving, SerializeIsTrue
<1>4. FlagExcludes'
  BY DEF FlagExcludes, Promised, Reserving, Occupied
<1> QED
  BY <1>1, <1>2, <1>3, <1>4

\* What the coordinator answers an undisturbed worker of a coordinated job.
LEMMA AdmissionFacts ==
    ASSUME TypeOK, QP!QueueInv, PlaceInv, LeaseInv, NEW w \in undisturbed, holder = w,
           NEW j \in Pending, j \in Coordinated, CanStart(j)
    PROVE  lease = NoJob /\ ~control
<1>1. Typed /\ Working
  BY TypedHolds, WorkersApart
<1>2. enabled
  BY DEF LeaseInv, UndisturbedEnabled
<1>3. ~control /\ lease \in {j, NoJob}
  BY <1>2 DEF CanStart
<1>4. lease # j
  <2>1. ASSUME lease = j, j # NoJob PROVE FALSE
    <3>1. PICK v \in Workers : on[v] = j /\ phase[v] # "none"
      BY <2>1 DEF LeaseInv, LeaseIsHeld, Holds
    <3> QED
      BY <3>1, <1>1 DEF Working, Pending
  <2> QED
    BY <2>1, CoordinatorAssumption DEF Pending
<1> QED
  BY <1>3, <1>4

LEMMA LeaseAsk ==
    ASSUME TypeOK, QP!QueueInv, PlaceInv, LeaseInv, NEW w \in Workers, AskSerialize(w) \/ AskAdmission(w)
    PROVE  LeaseInv'
<1>0. /\ Typed /\ holder = w /\ UNCHANGED <<undisturbed, holder, phase, on>> /\ UNCHANGED coordinatorVars
  BY TypedHolds DEF AskSerialize, AskAdmission, Evaluating, runVars, queueVars
<1>a. UNCHANGED <<mode, lease, control, PollReleases>>
  BY <1>0 DEF coordinatorVars, PollReleases
<1>1. UndisturbedEnabled' /\ LockedUndisturbed' /\ LeaseIsHeld'
  BY <1>0, <1>a DEF LeaseInv, UndisturbedEnabled, enabled, LockedUndisturbed, Locked, LeaseIsHeld, Holds
<1>2. LeaseExclusive'
  BY <1>0, <1>a DEF LeaseInv, LeaseExclusive, Occupied
<1>3. admits' = admits \/ \E j \in Pending : CanStart(j) /\ admits' = admits \cup {j}
  <2>1. Q!Foremost(Q!PendingIn(Lane(w)) \ asked) \subseteq Pending
    BY DEF Q!Foremost, Q!PendingIn, Q!Pending, Pending
  <2> QED
    BY <2>1 DEF AskSerialize, AskAdmission
<1>4. w \in undisturbed /\ admits' \cap Coordinated # {} => admits \cap Coordinated # {} \/ (lease = NoJob /\ ~control)
  BY <1>0, <1>3, AdmissionFacts
<1>5. PromiseIsKept'
  BY <1>0, <1>a, <1>4 DEF LeaseInv, PromiseIsKept, Promised, Reserving
<1>6. FlagExcludes'
  BY <1>0, <1>a, <1>4 DEF LeaseInv, FlagExcludes, Promised, Reserving, Occupied
<1>7. SerializeIsTrue'
  BY <1>0, <1>a DEF LeaseInv, SerializeIsTrue, AskSerialize, AskAdmission, Serializes, UndisturbedEnabled
<1> QED
  BY <1>1, <1>2, <1>5, <1>6, <1>7 DEF LeaseInv

LEMMA LeaseAcquire ==
    ASSUME TypeOK, QP!QueueInv, PlaceInv, LeaseInv, NEW w \in Workers, Acquire(w)
    PROVE  LeaseInv'
<1>0. /\ Typed /\ holder = NoWorker /\ holder' = w /\ pc[w] = "wait" /\ (\A v \in Workers : ~Reserving(v))
      /\ UNCHANGED <<phase, on>> /\ UNCHANGED scanVars /\ UNCHANGED coordinatorVars
      /\ undisturbed' = IF enabled THEN undisturbed \cup {w} ELSE undisturbed \ {w}
  BY TypedHolds, AcquireEffect
<1>a. UNCHANGED <<mode, lease, control, PollReleases, admits, serialize>>
  BY <1>0 DEF coordinatorVars, PollReleases, scanVars
<1>b. asked = {} /\ admits = {} /\ serialize = "unasked" /\ phase[w] = "none"
  BY <1>0 DEF PlaceInv, NoStaleAnswers, PhasesAgree, Typed
<1>1. UndisturbedEnabled' /\ LockedUndisturbed' /\ LeaseIsHeld'
  BY <1>0, <1>a, <1>b DEF LeaseInv, UndisturbedEnabled, enabled, LockedUndisturbed, Locked, LeaseIsHeld, Holds, Reserving
<1>c. Occupied' = Occupied /\ w \notin Occupied
  BY <1>0, <1>b DEF Occupied
<1>2. LeaseExclusive'
  BY <1>0, <1>a, <1>c DEF LeaseInv, LeaseExclusive
<1>3. PromiseIsKept' /\ SerializeIsTrue'
  BY <1>0, <1>a, <1>b DEF PromiseIsKept, Promised, Reserving, SerializeIsTrue, Typed
<1>4. FlagExcludes'
  BY <1>0, <1>a, <1>b, <1>c DEF LeaseInv, FlagExcludes, Promised, Reserving
<1> QED
  BY <1>1, <1>2, <1>3, <1>4 DEF LeaseInv

LEMMA LeaseConclude ==
    ASSUME TypeOK, QP!QueueInv, PlaceInv, LeaseInv, NEW w \in Workers, Conclude(w)
    PROVE  LeaseInv'
<1>0. /\ Typed /\ NoWorker \notin Workers /\ NoJob \notin Jobs
      /\ holder = w /\ asked' = {} /\ admits' = {} /\ serialize' = "unasked"
      /\ UNCHANGED undisturbed /\ UNCHANGED coordinatorVars
      /\ Looked(w) \/ Died(w) \/ \E j \in Jobs : Took(w, j)
  BY TypedHolds, ConcludeEffect, CoordinationAssumption DEF Q!QueueAssumption
<1>a. UNCHANGED <<mode, lease, control, PollReleases>>
  BY <1>0 DEF coordinatorVars, PollReleases
<1>b. /\ holder' \in {holder, NoWorker} /\ pc[w] \in {"look", "pick"} /\ phase[w] = "none" /\ (\A v \in Workers : ~Reserving(v))
      /\ on[w] = NoJob
  BY <1>0 DEF Looked, Died, Took, PlaceInv, PhasesAgree, OneLocked, Typed, IdleHoldNothing
<1>1. CASE Looked(w) \/ Died(w)
  <2>0. UNCHANGED <<phase, on>>
    BY <1>0, <1>1, <1>b DEF Looked, Died, Typed
  <2>1. UndisturbedEnabled' /\ LockedUndisturbed' /\ LeaseIsHeld'
    BY <1>0, <1>a, <1>b, <2>0 DEF LeaseInv, UndisturbedEnabled, enabled, LockedUndisturbed, Locked, LeaseIsHeld, Holds, Reserving
  <2>2. LeaseExclusive'
    BY <1>0, <1>a, <2>0 DEF LeaseInv, LeaseExclusive, Occupied
  <2>3. PromiseIsKept' /\ SerializeIsTrue'
    BY <1>0, <1>a, <1>b, <2>0 DEF PromiseIsKept, Promised, Reserving, SerializeIsTrue, Typed
  <2>4. FlagExcludes'
    BY <1>0, <1>a, <1>b, <2>0 DEF LeaseInv, FlagExcludes, Promised, Reserving, Occupied
  <2> QED
    BY <2>1, <2>2, <2>3, <2>4 DEF LeaseInv
<1>2. CASE \E j \in Jobs : Took(w, j)
  <2>0. PICK j \in Jobs : Took(w, j)
    BY <1>2
  <2>1. /\ j \in admits /\ on' = [on EXCEPT ![w] = j] /\ holder' = NoWorker
        /\ phase' = [phase EXCEPT ![w] = IF Reserves(j) THEN "reserving" ELSE "picked"]
    BY <2>0 DEF Took
  <2>2. CASE Reserves(j)
    <3>0. phase'[w] = "reserving" /\ (\A v \in Workers : v # w => phase'[v] = phase[v] /\ on'[v] = on[v]) /\ on'[w] = j
      BY <1>0, <2>1, <2>2 DEF Typed
    <3>c. Occupied' = Occupied
      BY <3>0, <1>b DEF Occupied
    <3>d. ASSUME NEW v \in Workers, on[v] = lease, Holds(v) PROVE v # w
      BY <3>d, <1>b DEF Holds
    <3>e. w \in undisturbed => lease = NoJob
      BY <2>1, <2>2, <1>0 DEF LeaseInv, PromiseIsKept, Promised, Reserves
    <3>f. w \in undisturbed /\ control => PollReleases
      BY <2>1, <2>2, <1>0 DEF LeaseInv, FlagExcludes, Promised, Reserves
    <3>1. UndisturbedEnabled' /\ LockedUndisturbed'
      BY <1>0, <1>a, <1>b, <2>1, <3>0 DEF LeaseInv, UndisturbedEnabled, enabled, LockedUndisturbed, Locked, Reserving
    <3>2. LeaseIsHeld'
      BY <1>a, <3>0, <3>d DEF LeaseInv, LeaseIsHeld, Holds
    <3>3. LeaseExclusive'
      <4>1. \A v \in Occupied : on'[v] = on[v] /\ v \in Workers
        BY <3>0, <1>b DEF Occupied
      <4> QED
        BY <1>0, <1>a, <3>c, <4>1 DEF LeaseInv, LeaseExclusive
    <3>4. PromiseIsKept' /\ SerializeIsTrue'
      BY <1>0, <1>a, <1>b, <2>1, <3>0, <3>e DEF PromiseIsKept, Promised, Reserving, SerializeIsTrue, Typed
    <3>5. FlagExcludes'
      BY <1>0, <1>a, <1>b, <2>1, <3>0, <3>c, <3>f DEF LeaseInv, FlagExcludes, Promised, Reserving, Occupied, Typed
    <3> QED
      BY <3>1, <3>2, <3>3, <3>4, <3>5 DEF LeaseInv
  <2>3. CASE ~Reserves(j)
    <3>0. phase'[w] = "picked" /\ (\A v \in Workers : v # w => phase'[v] = phase[v] /\ on'[v] = on[v]) /\ on'[w] = j
      BY <1>0, <2>1, <2>3 DEF Typed
    <3>c. Occupied' \cap undisturbed' = Occupied \cap undisturbed /\ \A v \in Occupied : v # w
      BY <3>0, <1>b, <1>0, <2>3 DEF Occupied, Reserves, LeaseInv, UndisturbedEnabled
    <3>1. UndisturbedEnabled' /\ LockedUndisturbed'
      BY <1>0, <1>a, <1>b, <2>1, <3>0 DEF LeaseInv, UndisturbedEnabled, enabled, LockedUndisturbed, Locked, Reserving
    <3>2. LeaseIsHeld'
      BY <1>a, <1>b, <3>0 DEF LeaseInv, LeaseIsHeld, Holds
    <3>3. LeaseExclusive'
      <4>1. \A v \in Occupied : on'[v] = on[v] /\ v \in Workers
        BY <3>0, <3>c DEF Occupied
      <4> QED
        BY <1>0, <1>a, <3>c, <4>1 DEF LeaseInv, LeaseExclusive
    <3>4. PromiseIsKept' /\ SerializeIsTrue'
      BY <1>0, <1>a, <1>b, <2>1, <3>0 DEF PromiseIsKept, Promised, Reserving, SerializeIsTrue, Typed
    <3>5. FlagExcludes'
      BY <1>0, <1>a, <1>b, <2>1, <3>0, <3>c DEF LeaseInv, FlagExcludes, Promised, Reserving, Typed
    <3> QED
      BY <3>1, <3>2, <3>3, <3>4, <3>5 DEF LeaseInv
  <2> QED
    BY <2>2, <2>3
<1> QED
  BY <1>0, <1>1, <1>2

LEMMA LeaseReserve ==
    ASSUME TypeOK, QP!QueueInv, PlaceInv, LeaseInv, NEW w \in Workers, ReserveLease(w)
    PROVE  LeaseInv'
<1>0. /\ Typed /\ Reserving(w) /\ phase' = [phase EXCEPT ![w] = "picked"] /\ lease' = on[w]
      /\ UNCHANGED <<undisturbed, holder, on, mode, control, PollReleases, admits, serialize>>
  BY TypedHolds DEF ReserveLease, Reserve, Reserving, queueVars, scanVars, PollReleases
<1>a. /\ holder = NoWorker /\ on[w] \in Coordinated /\ (\A v \in Workers : Reserving(v) => v = w)
      /\ NoWorker \notin Workers
  BY <1>0, CoordinationAssumption DEF PlaceInv, OneLocked, Q!QueueAssumption
<1>b. phase'[w] = "picked" /\ \A v \in Workers : v # w => phase'[v] = phase[v]
  BY <1>0 DEF Typed
<1>c. w \in undisturbed => Occupied \cap undisturbed = {}
  <2>1. w \in undisturbed => lease = NoJob
    BY <1>0 DEF LeaseInv, PromiseIsKept, Promised
  <2>2. \A v \in Occupied : on[v] # NoJob
    BY CoordinatorAssumption DEF Occupied
  <2> QED
    BY <2>1, <2>2 DEF LeaseInv, LeaseExclusive
<1>d. w \notin undisturbed => undisturbed = {}
  BY <1>0 DEF LeaseInv, LockedUndisturbed, Locked, Reserving
<1>e. Occupied' = Occupied \cup {w}
  BY <1>0, <1>a, <1>b DEF Occupied, Reserving
<1>1. UndisturbedEnabled' /\ LockedUndisturbed'
  BY <1>0, <1>a, <1>b DEF LeaseInv, UndisturbedEnabled, enabled, LockedUndisturbed, Locked, Reserving
<1>2. LeaseIsHeld'
  BY <1>0, <1>b DEF LeaseIsHeld, Holds
<1>3. LeaseExclusive'
  BY <1>0, <1>c, <1>d, <1>e DEF LeaseInv, LeaseExclusive
<1>4. PromiseIsKept' /\ SerializeIsTrue'
  BY <1>0, <1>a, <1>b DEF PromiseIsKept, Promised, Reserving, SerializeIsTrue, Typed
<1>5. FlagExcludes'
  <2>1. w \in undisturbed => ~(control /\ ~PollReleases)
    BY <1>0 DEF LeaseInv, FlagExcludes, Promised
  <2> QED
    BY <1>0, <1>a, <1>b, <1>d, <1>e, <2>1 DEF LeaseInv, FlagExcludes, Promised, Reserving, Typed
<1> QED
  BY <1>1, <1>2, <1>3, <1>4, <1>5 DEF LeaseInv

LEMMA LeaseBegin ==
    ASSUME TypeOK, QP!QueueInv, PlaceInv, LeaseInv, NEW w \in Workers, Begin(w)
    PROVE  LeaseInv'
<1>0. /\ Typed /\ phase[w] = "picked" /\ phase' \in {[phase EXCEPT ![w] = "leaving"], [phase EXCEPT ![w] = "executing"]}
      /\ UNCHANGED <<undisturbed, holder, on, mode, control, PollReleases, admits, serialize, lease>>
  BY TypedHolds DEF Begin, ExecutionStarted, queueVars, scanVars, PollReleases, coordinatorVars
<1>b. phase'[w] \in {"leaving", "executing"} /\ \A v \in Workers : v # w => phase'[v] = phase[v]
  BY <1>0 DEF Typed
<1>c. /\ \A v \in Workers : (Holds(v)' <=> Holds(v)) /\ (Reserving(v)' <=> Reserving(v))
      /\ Occupied' = Occupied
  BY <1>0, <1>b DEF Holds, Reserving, Occupied
<1>1. UndisturbedEnabled' /\ LockedUndisturbed' /\ LeaseIsHeld'
  BY <1>0, <1>c DEF LeaseInv, UndisturbedEnabled, enabled, LockedUndisturbed, Locked, LeaseIsHeld, Reserving
<1>2. LeaseExclusive'
  BY <1>0, <1>c DEF LeaseInv, LeaseExclusive
<1>3. PromiseIsKept' /\ SerializeIsTrue'
  BY <1>0, <1>c DEF LeaseInv, PromiseIsKept, Promised, SerializeIsTrue, Typed
<1>4. FlagExcludes'
  BY <1>0, <1>c DEF LeaseInv, FlagExcludes, Promised, Typed
<1> QED
  BY <1>1, <1>2, <1>3, <1>4 DEF LeaseInv

\* A completing job opens the lease, or closes it by the flag.
LEMMA LeaseEnd ==
    ASSUME TypeOK, QP!QueueInv, PlaceInv, LeaseInv, NEW w \in Workers, End(w)
    PROVE  LeaseInv'
<1>0. /\ Typed /\ phase[w] \in {"executing", "leaving"}
      /\ phase' = [phase EXCEPT ![w] = IF Reclaims(on[w]) THEN "cleanup" ELSE "completed"]
      /\ lease' = IF lease = on[w] THEN NoJob ELSE lease
      /\ control' = (control \/ Reclaims(on[w])) /\ (Reclaims(on[w]) => lease = on[w])
      /\ UNCHANGED <<undisturbed, holder, on, mode, PollReleases, admits, serialize>>
  BY TypedHolds DEF End, Complete, Reclaims, queueVars, scanVars, PollReleases
<1>a. Working /\ Apart /\ on[w] \in Jobs /\ on[w] # NoJob
  BY <1>0, WorkersApart, CoordinatorAssumption DEF Working
<1>b. phase'[w] \in {"cleanup", "completed"} /\ \A v \in Workers : v # w => phase'[v] = phase[v]
  BY <1>0 DEF Typed
<1>c. /\ \A v \in Workers : v # w => (Holds(v)' <=> Holds(v))
      /\ \A v \in Workers : (Reserving(v)' <=> Reserving(v))
      /\ Occupied' = Occupied \ {w}
      /\ \A v \in Occupied : on[v] = on[w] => v = w
  BY <1>0, <1>a, <1>b DEF Holds, Reserving, Occupied, Apart
<1>1. UndisturbedEnabled' /\ LockedUndisturbed'
  BY <1>0, <1>c DEF LeaseInv, UndisturbedEnabled, enabled, LockedUndisturbed, Locked, Reserving
<1>2. LeaseIsHeld'
  <2> SUFFICES ASSUME lease' # NoJob PROVE \E v \in Workers : on[v]' = lease' /\ Holds(v)'
    BY DEF LeaseIsHeld
  <2>1. lease' = lease /\ lease # on[w]
    BY <1>0
  <2>2. PICK v \in Workers : on[v] = lease /\ Holds(v)
    BY <2>1 DEF LeaseInv, LeaseIsHeld
  <2> QED
    BY <2>1, <2>2, <1>0, <1>c
<1>3. LeaseExclusive'
  BY <1>0, <1>c DEF LeaseInv, LeaseExclusive
<1>4. PromiseIsKept' /\ SerializeIsTrue'
  BY <1>0, <1>c DEF LeaseInv, PromiseIsKept, Promised, SerializeIsTrue, Typed
<1>5. FlagExcludes'
  <2>1. CASE Reclaims(on[w])
    <3>1. \A v \in undisturbed : ~Promised(v)
      BY <2>1, <1>0, <1>a DEF LeaseInv, PromiseIsKept
    <3>2. \A v \in undisturbed : v \notin Occupied'
      BY <2>1, <1>0, <1>c DEF LeaseInv, LeaseExclusive
    <3> QED
      BY <3>1, <3>2, <1>0, <1>c DEF FlagExcludes, Promised, Typed
  <2>2. CASE ~Reclaims(on[w])
    BY <2>2, <1>0, <1>c DEF LeaseInv, FlagExcludes, Promised, Typed
  <2> QED
    BY <2>1, <2>2
<1> QED
  BY <1>1, <1>2, <1>3, <1>4, <1>5 DEF LeaseInv

\* The rest of a worker's steps: after the job, out of the lock.
LEMMA LeaseAfter ==
    ASSUME TypeOK, QP!QueueInv, PlaceInv, LeaseInv, NEW w \in Workers, Reclaim(w) \/ Settle(w) \/ Release(w)
    PROVE  LeaseInv'
<1>0. /\ Typed /\ ~Holds(w) /\ ~Reserving(w)
      /\ phase' = phase \/ \E p \in {"none", "cleared", "completed"} : phase' = [phase EXCEPT ![w] = p]
      /\ on' = on \/ on' = [on EXCEPT ![w] = NoJob]
      /\ control' = control \/ control' = FALSE
      /\ UNCHANGED <<undisturbed, holder, mode, lease, PollReleases, admits, serialize>>
  <2>1. CASE Reclaim(w)
    BY <2>1, TypedHolds DEF Reclaim, PostJobRelease, EndControl, queueVars, scanVars, PollReleases, Holds, Reserving
  <2>2. CASE Settle(w)
    BY <2>2, SettleEffect, TypedHolds DEF scanVars, coordinatorVars, PollReleases, Holds, Reserving
  <2>3. CASE Release(w)
    BY <2>3, ReleaseEffect, TypedHolds DEF scanVars, coordinatorVars, PollReleases, Holds, Reserving, PlaceInv, PhasesAgree
  <2> QED
    BY <2>1, <2>2, <2>3
<1>b. phase'[w] \in {phase[w], "none", "cleared", "completed"}
      /\ \A v \in Workers : v # w => phase'[v] = phase[v] /\ on'[v] = on[v]
  BY <1>0 DEF Typed
<1>c. /\ \A v \in Workers : (Holds(v)' <=> Holds(v)) /\ (Reserving(v)' <=> Reserving(v))
      /\ Occupied' = Occupied /\ w \notin Occupied
  BY <1>0, <1>b DEF Holds, Reserving, Occupied
<1>1. UndisturbedEnabled' /\ LockedUndisturbed'
  BY <1>0, <1>c DEF LeaseInv, UndisturbedEnabled, enabled, LockedUndisturbed, Locked, Reserving
<1>2. LeaseIsHeld'
  BY <1>0, <1>b, <1>c DEF LeaseInv, LeaseIsHeld
<1>3. LeaseExclusive'
  BY <1>0, <1>b, <1>c DEF LeaseInv, LeaseExclusive, Typed
<1>4. PromiseIsKept' /\ SerializeIsTrue'
  BY <1>0, <1>c DEF LeaseInv, PromiseIsKept, Promised, SerializeIsTrue, Typed
<1>5. FlagExcludes'
  BY <1>0, <1>c DEF LeaseInv, FlagExcludes, Promised, Typed
<1> QED
  BY <1>1, <1>2, <1>3, <1>4, <1>5 DEF LeaseInv

\* Where the polling thread is before and after its steps.
From(places) == poll.at \in places
To(places) == poll'.at \in places

LEMMA PollIsAt ==
    ASSUME NEW j \in Jobs, NEW at \in PollPlaces, PollGoto(at, j)
    PROVE  poll'.at = at /\ (at # "idle" => poll'.job = j)
BY DEF PollGoto

LEMMA PollPath ==
    ASSUME NEW j \in Jobs
    PROVE  /\ PollBegin(j) => From({"idle"}) /\ To({"probe"}) /\ poll'.job = j
           /\ PollDecide(j) => From({"probe"}) /\ To({"idle", "admit", "expire", "attempt"}) /\ poll.job = j
                              /\ (poll'.at # "idle" => poll'.job = j)
           /\ PollAdmit(j) => From({"admit"}) /\ To({"idle"}) /\ poll.job = j
           /\ PollExpire(j) => From({"expire"}) /\ To({"idle", "reject"}) /\ poll.job = j
                              /\ (poll'.at # "idle" => poll'.job = j)
           /\ PollDrop(j) => From({"drop"}) /\ To({"idle"}) /\ poll.job = j
           /\ PollAttempt(j) => From({"attempt"}) /\ To({"idle", "release"}) /\ poll.job = j
                              /\ (poll'.at # "idle" => poll'.job = j)
           /\ PollRelease(j) => From({"release", "releaseOllama"}) /\ To({"releaseOllama", "unlock"})
                              /\ poll.job = j /\ poll'.job = j
           /\ PollUnlock(j) => From({"unlock"}) /\ To({"idle"}) /\ poll.job = j
<1> USE PollIsAt DEF From, To, PollPlaces
<1>1. PollBegin(j) => From({"idle"}) /\ To({"probe"}) /\ poll'.job = j
  BY DEF PollBegin
<1>2. PollDecide(j) => From({"probe"}) /\ To({"idle", "admit", "expire", "attempt"}) /\ poll.job = j
                              /\ (poll'.at # "idle" => poll'.job = j)
  BY DEF PollDecide
<1>3. PollAdmit(j) => From({"admit"}) /\ To({"idle"}) /\ poll.job = j
  BY DEF PollAdmit
<1>4. PollExpire(j) => From({"expire"}) /\ To({"idle", "reject"}) /\ poll.job = j
                              /\ (poll'.at # "idle" => poll'.job = j)
  BY DEF PollExpire
<1>5. PollDrop(j) => From({"drop"}) /\ To({"idle"}) /\ poll.job = j
  BY DEF PollDrop
<1>6. PollAttempt(j) => From({"attempt"}) /\ To({"idle", "release"}) /\ poll.job = j
                              /\ (poll'.at # "idle" => poll'.job = j)
  BY DEF PollAttempt
<1>7. PollRelease(j) => From({"release", "releaseOllama"}) /\ To({"releaseOllama", "unlock"})
                              /\ poll.job = j /\ poll'.job = j
  <2> SUFFICES ASSUME PollRelease(j)
               PROVE  From({"release", "releaseOllama"}) /\ To({"releaseOllama", "unlock"})
                      /\ poll.job = j /\ poll'.job = j
    OBVIOUS
  <2>1. poll.at \in {"release", "releaseOllama"} /\ poll.job = j
    BY DEF PollRelease
  <2>2. PollGoto("releaseOllama", j) \/ PollGoto("unlock", j)
    BY DEF PollRelease
  <2> QED
    BY <2>1, <2>2
<1>8. PollUnlock(j) => From({"unlock"}) /\ To({"idle"}) /\ poll.job = j
  BY DEF PollUnlock
<1> QED
  BY <1>1, <1>2, <1>3, <1>4, <1>5, <1>6, <1>7, <1>8

\* The polling thread takes the flag for itself, and gives it back.
LEMMA LeasePoll ==
    ASSUME LeaseInv, NEW j \in Jobs,
           Polling(PollBegin(j)) \/ Polling(PollStep(j)) \/ Polling(Expire(j))
    PROVE  LeaseInv'
<1>0. UNCHANGED <<undisturbed, mode, holder, phase, lease, on, admits, serialize>>
  BY DEF Polling, PollBegin, PollStep, PollDecide, PollAdmit, PollExpire, PollDrop, PollAttempt, PollRelease, PollUnlock, Expire,
         queueVars, scanVars, runVars
<1>1. (control' /\ ~PollReleases') => (control /\ ~PollReleases)
  <2> USE DEF Polling, PollReleases, From, To
  <2>1. CASE Polling(Expire(j))
    BY <2>1 DEF Expire
  <2>2. CASE PollBegin(j)
    BY <2>2, PollPath DEF PollBegin
  <2>3. CASE PollDecide(j)
    BY <2>3, PollPath DEF PollDecide
  <2>4. CASE PollAdmit(j)
    BY <2>4, PollPath DEF PollAdmit
  <2>5. CASE PollExpire(j)
    BY <2>5, PollPath DEF PollExpire
  <2>6. CASE PollDrop(j)
    BY <2>6, PollPath DEF PollDrop
  <2>7. CASE PollAttempt(j)
    <3>1. control' # control => poll'.at = "release"
      BY <2>7, PollIsAt DEF PollAttempt, PollPlaces
    <3> QED
      BY <2>7, <3>1, PollPath
  <2>8. CASE PollRelease(j)
    BY <2>8, PollPath DEF PollRelease
  <2>9. CASE PollUnlock(j)
    BY <2>9, PollPath DEF PollUnlock
  <2> QED
    BY <2>1, <2>2, <2>3, <2>4, <2>5, <2>6, <2>7, <2>8, <2>9 DEF PollStep
<1>2. UndisturbedEnabled' /\ LockedUndisturbed' /\ LeaseIsHeld'
  BY <1>0 DEF LeaseInv, UndisturbedEnabled, enabled, LockedUndisturbed, Locked, LeaseIsHeld, Holds
<1>3. LeaseExclusive'
  BY <1>0 DEF LeaseInv, LeaseExclusive, Occupied
<1>4. PromiseIsKept' /\ SerializeIsTrue'
  BY <1>0 DEF LeaseInv, PromiseIsKept, Promised, Reserving, SerializeIsTrue
<1>5. FlagExcludes'
  BY <1>0, <1>1 DEF LeaseInv, FlagExcludes, Promised, Reserving, Occupied
<1> QED
  BY <1>2, <1>3, <1>4, <1>5 DEF LeaseInv

LEMMA LeaseUpdate ==
    ASSUME LeaseInv, NEW to \in Modes, Update(to)
    PROVE  LeaseInv'
<1>0. UNCHANGED <<holder, phase, lease, on, admits, serialize, control, PollReleases>>
      /\ undisturbed' \in {undisturbed, {}} /\ mode' = to /\ (to = "disabled" => undisturbed' = {})
  BY DEF Update, SetMode, queueVars, scanVars, PollReleases
<1>2. UndisturbedEnabled' /\ LockedUndisturbed' /\ LeaseIsHeld'
  BY <1>0 DEF LeaseInv, UndisturbedEnabled, enabled, LockedUndisturbed, Locked, LeaseIsHeld, Holds
<1>3. LeaseExclusive'
  BY <1>0 DEF LeaseInv, LeaseExclusive, Occupied
<1>4. PromiseIsKept' /\ SerializeIsTrue'
  BY <1>0 DEF LeaseInv, PromiseIsKept, Promised, Reserving, SerializeIsTrue
<1>5. FlagExcludes'
  BY <1>0 DEF LeaseInv, FlagExcludes, Promised, Reserving, Occupied
<1> QED
  BY <1>2, <1>3, <1>4, <1>5 DEF LeaseInv

LEMMA LeaseOwner ==
    ASSUME TypeOK, LeaseInv, NEW j \in Jobs,
           Arrive(j) \/ Submit(j) \/ UserCancel(j) \/ CancelAdmission(j) \/ CancelQueued(j) \/ Reject(j) \/ FailRejected(j)
    PROVE  LeaseInv'
<1>1. CASE Arrive(j)
  BY <1>1, ArriveEffect, LeaseFrame DEF scanVars, runVars, coordinatorVars, LeaseVars, PollReleases
<1>2. CASE Submit(j)
  BY <1>2, SubmitEffect, LeaseFrame DEF scanVars, runVars, LeaseVars, PollReleases, Register, Outside
<1>3. CASE UserCancel(j)
  BY <1>3, LeaseFrame DEF UserCancel, queueVars, scanVars, coordinatorVars, LeaseVars, PollReleases
<1>4. CASE CancelAdmission(j)
  BY <1>4, LeaseFrame DEF CancelAdmission, CancelRecord, queueVars, scanVars, LeaseVars, PollReleases
<1>5. CASE CancelQueued(j)
  BY <1>5, DequeueEffect, LeaseFrame DEF CancelQueued, scanVars, coordinatorVars, LeaseVars, PollReleases, Outside
<1>6. CASE Reject(j)
  BY <1>6, DequeueEffect, LeaseFrame DEF Reject, scanVars, runVars, LeaseVars, PollReleases, Outside, PollGoto
<1>7. CASE FailRejected(j)
  BY <1>7, LeaseFrame DEF FailRejected, queueVars, scanVars, LeaseVars, PollReleases, PollGoto
<1> QED
  BY <1>1, <1>2, <1>3, <1>4, <1>5, <1>6, <1>7

LEMMA LeaseKept ==
    ASSUME TypeOK, PlaceInv, QP!QueueInv, LeaseInv, [Next]_vars
    PROVE  LeaseInv'
<1>1. ASSUME NEW w \in Workers, Acquire(w) \/ Evaluates(w) PROVE LeaseInv'
  BY <1>1, LeaseAcquire, LeaseAsk, LeaseConclude DEF Evaluates
<1>2. ASSUME NEW w \in Workers, Runs(w) \/ Release(w) PROVE LeaseInv'
  BY <1>2, LeaseReserve, LeaseBegin, LeaseEnd, LeaseAfter DEF Runs
<1>3. CASE UNCHANGED vars
  BY <1>3, LeaseFrame DEF vars, queueVars, scanVars, runVars, coordinatorVars, LeaseVars, PollReleases
<1> QED
  BY <1>1, <1>2, <1>3, LeaseOwner, LeasePoll, LeaseUpdate DEF Next
-----------------------------------------------------------------------------
(* The records.  First what a step may do to a worker, to a job's owner and *)
(* to a record, then the invariant from it.                                 *)

\* on[w] is about to execute: _begin found no cancellation.
Begins(w) == phase[w] = "picked" /\ cancelStep[on[w]] = "no" /\ ExecutionStarted(on[w])

WorkerMoves(w) ==
    /\ phase'[w] # "none" =>
         \/ phase[w] # "none" /\ on'[w] = on[w]
         \/ \E j \in Jobs : Took(w, j) /\ UNCHANGED coordinatorVars
    /\ phase'[w] = "executing" => on'[w] = on[w] /\ (phase[w] = "executing" \/ Begins(w))
    /\ phase[w] = "executing" => on'[w] = on[w] /\ (phase'[w] = "executing" \/ on[w] \notin started')
    /\ Ends(w) => on'[w] = on[w] /\ (Ends(w)' \/ where'[on[w]] = "settled")
    /\ phase'[w] = "cleanup" => phase[w] = "cleanup" \/ (phase[w] # "none" /\ on[w] \in started)

LEMMA WorkersMove ==
    ASSUME TypeOK, PlaceInv, QP!QueueInv, [Next]_vars, NEW w \in Workers
    PROVE  WorkerMoves(w)
<1> USE DEF WorkerMoves, Ends
<1>0. Typed /\ Working
  BY TypedHolds, WorkersApart
<1>1. CASE UNCHANGED <<phase, on>>
  BY <1>1
<1>2. ASSUME NEW v \in Workers, Acquire(v) PROVE WorkerMoves(w)
  BY <1>2, <1>1, AcquireEffect
<1>3. ASSUME NEW v \in Workers, AskSerialize(v) \/ AskAdmission(v) PROVE WorkerMoves(w)
  BY <1>3, <1>1 DEF AskSerialize, AskAdmission, queueVars, runVars
<1>4. ASSUME NEW v \in Workers, Conclude(v) PROVE WorkerMoves(w)
  <2>1. UNCHANGED coordinatorVars /\ (Looked(v) \/ Died(v) \/ \E j \in Jobs : Took(v, j))
    BY <1>4, ConcludeEffect
  <2>2. CASE Looked(v)
    BY <2>2, <1>1 DEF Looked
  <2>3. CASE Died(v)
    <3>1. phase[v] = "none"
      BY <2>3, <1>0 DEF Died, PlaceInv, PhasesAgree
    <3> QED
      BY <2>3, <3>1, <1>0 DEF Died, Typed
  <2>4. ASSUME NEW j \in Jobs, Took(v, j) PROVE WorkerMoves(w)
    <3>1. /\ phase[v] = "none" /\ phase'[v] \in {"reserving", "picked"}
          /\ \A u \in Workers : u # v => phase'[u] = phase[u] /\ on'[u] = on[u]
      BY <2>4, <1>0 DEF Took, PlaceInv, PhasesAgree, Typed
    <3> QED
      BY <2>1, <2>4, <3>1
  <2> QED
    BY <2>1, <2>2, <2>3, <2>4
<1>5. ASSUME NEW v \in Workers, ReserveLease(v) \/ Begin(v) PROVE WorkerMoves(w)
  <2>1. /\ UNCHANGED on /\ phase[v] \in {"reserving", "picked"} /\ phase'[v] \in {"picked", "leaving", "executing"}
        /\ \A u \in Workers : u # v => phase'[u] = phase[u]
        /\ phase'[v] = "executing" => Begins(v)
    BY <1>5, <1>0 DEF ReserveLease, Begin, Begins, queueVars, Typed
  <2> QED
    BY <2>1
<1>6. ASSUME NEW v \in Workers, End(v) PROVE WorkerMoves(w)
  <2>1. /\ UNCHANGED on /\ phase[v] \in {"executing", "leaving"} /\ phase'[v] \in {"cleanup", "completed"}
        /\ \A u \in Workers : u # v => phase'[u] = phase[u]
        /\ on[v] \notin started' /\ (phase'[v] = "cleanup" => on[v] \in started)
    BY <1>6, <1>0 DEF End, Complete, Reclaims, PopRecord, queueVars, Typed
  <2> QED
    BY <2>1
<1>7. ASSUME NEW v \in Workers, Reclaim(v) PROVE WorkerMoves(w)
  <2>1. /\ UNCHANGED on /\ Ends(v) /\ phase'[v] \in {"cleared", "completed"}
        /\ \A u \in Workers : u # v => phase'[u] = phase[u]
    BY <1>7, <1>0 DEF Reclaim, queueVars, Typed
  <2> QED
    BY <2>1
<1>8. ASSUME NEW v \in Workers, Settle(v) PROVE WorkerMoves(w)
  <2>1. /\ UNCHANGED on /\ phase[v] = "completed" /\ phase'[v] = "none" /\ where'[on[v]] = "settled"
        /\ \A u \in Workers : u # v => phase'[u] = phase[u]
    BY <1>8, <1>0, SettleEffect DEF Typed, Working
  <2> QED
    BY <2>1
<1>9. ASSUME NEW v \in Workers, Release(v) PROVE WorkerMoves(w)
  <2>1. UNCHANGED phase /\ phase[v] = "none" /\ \A u \in Workers : u # v => on'[u] = on[u]
    BY <1>9, <1>0, ReleaseEffect DEF PlaceInv, PhasesAgree, Typed
  <2> QED
    BY <2>1
<1>10. ASSUME NEW j \in Jobs, Arrive(j) \/ Submit(j) PROVE WorkerMoves(w)
  BY <1>10, <1>1, ArriveEffect, SubmitEffect DEF runVars, Outside
<1>11. ASSUME NEW j \in Jobs, UserCancel(j) \/ CancelAdmission(j) \/ FailRejected(j) PROVE WorkerMoves(w)
  BY <1>11, <1>1 DEF UserCancel, CancelAdmission, FailRejected, queueVars
<1>12. ASSUME NEW j \in Jobs, CancelQueued(j) \/ Reject(j) PROVE WorkerMoves(w)
  BY <1>12, <1>1, DequeueEffect DEF CancelQueued, Reject, runVars, Outside
<1>13. ASSUME NEW j \in Jobs, Polling(PollBegin(j)) \/ Polling(PollStep(j)) \/ Polling(Expire(j)) PROVE WorkerMoves(w)
  BY <1>13, <1>1 DEF Polling, queueVars, runVars
<1>14. ASSUME NEW to \in Modes, Update(to) PROVE WorkerMoves(w)
  BY <1>14, <1>1 DEF Update, queueVars
<1>15. CASE UNCHANGED vars
  BY <1>15, <1>1 DEF vars, queueVars, runVars
<1> QED
  BY <1>2, <1>3, <1>4, <1>5, <1>6, <1>7, <1>8, <1>9, <1>10, <1>11, <1>12, <1>13, <1>14, <1>15
     DEF Next, Evaluates, Runs

\* What is settled stays settled, what is cancelled stays cancelled, and only
\* the coordinator's permission admits.
JobMoves(j) ==
    /\ where[j] = "settled" => where'[j] = "settled"
    /\ cancelStep[j] # "no" => cancelStep'[j] # "no"
    /\ j \in admits' => j \in admits \/ (CanStart(j) /\ UNCHANGED coordinatorVars)

LEMMA JobsMove ==
    ASSUME TypeOK, PlaceInv, QP!QueueInv, [Next]_vars, NEW j \in Jobs
    PROVE  JobMoves(j)
<1> USE DEF JobMoves
<1>0. Typed /\ Working
  BY TypedHolds, WorkersApart
<1>1. CASE UNCHANGED <<where, cancelStep, admits>>
  BY <1>1
<1>2. ASSUME NEW w \in Workers, Acquire(w) \/ Release(w) PROVE JobMoves(j)
  BY <1>2, <1>1, AcquireEffect, ReleaseEffect DEF scanVars
<1>3. ASSUME NEW w \in Workers, AskSerialize(w) \/ AskAdmission(w) PROVE JobMoves(j)
  BY <1>3 DEF AskSerialize, AskAdmission, queueVars, runVars
<1>4. ASSUME NEW w \in Workers, Conclude(w) PROVE JobMoves(j)
  <2>1. admits' = {} /\ UNCHANGED cancelStep /\ (where' = where \/ \E i \in Jobs : Took(w, i))
    BY <1>4, ConcludeEffect DEF Looked, Died
  <2> QED
    BY <2>1, <1>0 DEF Took, Typed
<1>5. ASSUME NEW w \in Workers, ReserveLease(w) \/ Begin(w) \/ End(w) \/ Reclaim(w) PROVE JobMoves(j)
  BY <1>5, <1>1 DEF ReserveLease, Begin, End, Reclaim, queueVars, scanVars
<1>6. ASSUME NEW w \in Workers, Settle(w) PROVE JobMoves(j)
  BY <1>6, <1>0, SettleEffect DEF scanVars, Typed
<1>7. ASSUME NEW i \in Jobs, Arrive(i) \/ Submit(i) PROVE JobMoves(j)
  BY <1>7, <1>0, ArriveEffect, SubmitEffect DEF scanVars, runVars, Typed
<1>8. ASSUME NEW i \in Jobs, UserCancel(i) \/ CancelAdmission(i) PROVE JobMoves(j)
  BY <1>8, <1>0 DEF UserCancel, CancelAdmission, queueVars, scanVars, Typed
<1>9. ASSUME NEW i \in Jobs, CancelQueued(i) \/ Reject(i) PROVE JobMoves(j)
  <2>1. Dequeue(i) /\ UNCHANGED admits /\ cancelStep' \in {cancelStep, [cancelStep EXCEPT ![i] = "done"]}
    BY <1>9 DEF CancelQueued, Reject, scanVars, runVars
  <2>2. where' = where \/ where' = [where EXCEPT ![i] = "settled"]
    BY <2>1, DequeueEffect
  <2> QED
    BY <2>1, <2>2, <1>0 DEF Typed
<1>10. ASSUME NEW i \in Jobs, FailRejected(i) PROVE JobMoves(j)
  BY <1>10, <1>1 DEF FailRejected, queueVars, scanVars
<1>11. ASSUME NEW i \in Jobs, Polling(PollBegin(i)) \/ Polling(PollStep(i)) \/ Polling(Expire(i)) PROVE JobMoves(j)
  BY <1>11, <1>1 DEF Polling, queueVars, scanVars, runVars
<1>12. ASSUME NEW to \in Modes, Update(to) PROVE JobMoves(j)
  BY <1>12, <1>1 DEF Update, queueVars, scanVars
<1>13. CASE UNCHANGED vars
  BY <1>13, <1>1 DEF vars, queueVars, scanVars, runVars
<1> QED
  BY <1>2, <1>3, <1>4, <1>5, <1>6, <1>7, <1>8, <1>9, <1>10, <1>11, <1>12, <1>13 DEF Next, Evaluates, Runs

\* A record appears when its job is submitted; it goes with the end of the job,
\* with a cancellation before its execution, or with its rejection.
Appears(j) == where[j] = "made" /\ mode' # "disabled" /\ UNCHANGED started
Forgets(j) ==
    \/ \E w \in Workers : on[w] = j /\ on'[w] = j /\ phase[w] \in {"executing", "leaving"} /\ Ends(w)'
    \/ j \notin started /\ cancelStep'[j] # "no" /\ UNCHANGED <<phase, on>>
    \/ poll'.at = "idle"

RecordMoves(j) ==
    /\ record[j] = "none" => record'[j] = "none" \/ (Appears(j) /\ Demand[j] # "none")
    /\ LetGo(j) => LetGo(j)' \/ Appears(j)
    /\ j \in started => j \in started' \/ record'[j] = "none"
    /\ j \in started' => j \in started \/ \E w \in Workers : on[w] = j /\ on'[w] = j /\ phase'[w] = "executing"
    /\ mode' = "disabled" => mode = "disabled" \/ LetGo(j)'
    /\ (record[j] # "none" /\ record'[j] = "none") => Forgets(j)

LEMMA RecordsMove ==
    ASSUME TypeOK, PlaceInv, QP!QueueInv, [Next]_vars, NEW j \in Jobs
    PROVE  RecordMoves(j)
<1> USE DEF RecordMoves, LetGo
<1>0. Typed /\ Working /\ CoordinatorTypeOK
  BY TypedHolds, WorkersApart DEF TypeOK
<1>1. CASE UNCHANGED <<mode, record, started>>
  BY <1>1
<1>2. ASSUME NEW w \in Workers, Acquire(w) \/ Evaluates(w) \/ Settle(w) \/ Release(w) PROVE RecordMoves(j)
  <2>1. UNCHANGED coordinatorVars
    BY <1>2, AcquireEffect, ReleaseEffect, SettleEffect DEF Evaluates, AskSerialize, AskAdmission, Conclude
  <2> QED
    BY <2>1, <1>1 DEF coordinatorVars
<1>3. ASSUME NEW w \in Workers, ReserveLease(w) \/ Reclaim(w) PROVE RecordMoves(j)
  BY <1>3, <1>1 DEF ReserveLease, Reserve, Reclaim, PostJobRelease, EndControl
<1>4. ASSUME NEW w \in Workers, Begin(w) PROVE RecordMoves(j)
  <2>1. /\ UNCHANGED <<mode, record>> /\ UNCHANGED on /\ phase[w] = "picked"
        /\ \/ started' = started
           \/ phase' = [phase EXCEPT ![w] = "executing"] /\ started' = started \cup {on[w]}
    BY <1>4 DEF Begin, ExecutionStarted, coordinatorVars, queueVars
  <2> QED
    BY <2>1, <1>0 DEF Typed
<1>5. ASSUME NEW w \in Workers, End(w) PROVE RecordMoves(j)
  <2>1. /\ UNCHANGED mode /\ UNCHANGED on /\ phase[w] \in {"executing", "leaving"} /\ phase'[w] \in {"cleanup", "completed"}
        /\ record' = [record EXCEPT ![on[w]] = "none"] /\ started' = started \ {on[w]}
    BY <1>5, <1>0 DEF End, Complete, PopRecord, SetRecord, queueVars, Typed
  <2>2. on[w] = j => Forgets(j)
    BY <2>1 DEF Forgets, Ends
  <2> QED
    BY <2>1, <2>2, <1>0 DEF CoordinatorTypeOK
<1>6. ASSUME NEW i \in Jobs, Arrive(i) \/ UserCancel(i) \/ CancelQueued(i) \/ Reject(i) \/ FailRejected(i)
      PROVE  RecordMoves(j)
  BY <1>6, <1>1, ArriveEffect DEF UserCancel, CancelQueued, Reject, FailRejected, coordinatorVars
<1>7. ASSUME NEW i \in Jobs, Submit(i) PROVE RecordMoves(j)
  <2>1. /\ where[i] = "made" /\ UNCHANGED <<mode, started>>
        /\ record' = record \/ (Demand[i] # "none" /\ enabled /\ \E s \in {"checking", "admitted"} : SetRecord(i, s))
    BY <1>7, SubmitEffect DEF Register
  <2> QED
    BY <2>1, <1>0 DEF SetRecord, CoordinatorTypeOK, enabled, Appears
<1>8. ASSUME NEW i \in Jobs, CancelAdmission(i) PROVE RecordMoves(j)
  <2>1. CASE i \in started
    BY <2>1, <1>8, <1>1 DEF CancelAdmission, CancelRecord
  <2>2. CASE i \notin started
    <3>1. /\ UNCHANGED <<mode, on, phase>> /\ cancelStep'[i] = "released"
          /\ record' = [record EXCEPT ![i] = "none"] /\ started' = started \ {i}
      BY <2>2, <1>8, <1>0 DEF CancelAdmission, CancelRecord, PopRecord, SetRecord, queueVars, Typed
    <3> QED
      BY <3>1, <2>2, <1>0 DEF CoordinatorTypeOK, Forgets
  <2> QED
    BY <2>1, <2>2
<1>9. ASSUME NEW i \in Jobs, PollBegin(i) \/ Expire(i) \/ PollDecide(i) \/ PollAttempt(i) \/ PollRelease(i) \/ PollUnlock(i)
      PROVE  RecordMoves(j)
  BY <1>9, <1>1 DEF PollBegin, Expire, PollDecide, PollAttempt, PollRelease, PollUnlock
<1>10. ASSUME NEW i \in Jobs, PollAdmit(i) PROVE RecordMoves(j)
  BY <1>10, <1>0 DEF PollAdmit, SetRecord, CoordinatorTypeOK
<1>11. ASSUME NEW i \in Jobs, PollExpire(i) PROVE RecordMoves(j)
  BY <1>11, <1>0 DEF PollExpire, SetRecord, CoordinatorTypeOK
<1>12. ASSUME NEW i \in Jobs, PollDrop(i) PROVE RecordMoves(j)
  <2>1. Forgets(j)
    BY <1>12, PollPath DEF To, Forgets
  <2> QED
    BY <2>1, <1>12, <1>0 DEF PollDrop, PopRecord, SetRecord, CoordinatorTypeOK
<1>13. ASSUME NEW to \in Modes, Update(to) PROVE RecordMoves(j)
  BY <1>13, <1>0 DEF Update, SetMode, CoordinatorTypeOK
<1>14. CASE UNCHANGED vars
  BY <1>14, <1>1 DEF vars, coordinatorVars
<1> QED
  BY <1>2, <1>3, <1>4, <1>5, <1>6, <1>7, <1>8, <1>9, <1>10, <1>11, <1>12, <1>13, <1>14
     DEF Next, Runs, Polling, PollStep

\* A rejection begins with a record that is there, and stays with its job.
PollMoves ==
    /\ poll'.at # "idle" => poll'.job \in Jobs
    /\ GivesUp' => \/ GivesUp /\ poll'.job = poll.job
                   \/ record'[poll'.job] = "rejected"

LEMMA PollerMoves ==
    ASSUME TypeOK, PlaceInv, QP!QueueInv, RecordInv, [Next]_vars
    PROVE  PollMoves
<1> USE DEF PollMoves, GivesUp
<1>0. CoordinatorTypeOK /\ (poll.at # "idle" => poll.job \in Jobs)
  BY DEF TypeOK, RecordInv, PollIsOfAJob
<1>1. CASE UNCHANGED poll
  BY <1>0, <1>1
<1>2. ASSUME NEW w \in Workers, Acquire(w) \/ Evaluates(w) \/ Runs(w) \/ Release(w) PROVE PollMoves
  <2>1. UNCHANGED poll
    BY <1>2, AcquireEffect, ReleaseEffect, SettleEffect
       DEF Evaluates, AskSerialize, AskAdmission, Conclude, Runs, ReserveLease, Reserve, Begin, ExecutionStarted, End, Complete,
           Reclaim, PostJobRelease, EndControl, coordinatorVars
  <2> QED
    BY <2>1, <1>1
<1>3. ASSUME NEW j \in Jobs, Arrive(j) \/ Submit(j) \/ UserCancel(j) \/ CancelAdmission(j) \/ CancelQueued(j) PROVE PollMoves
  BY <1>3, <1>1, ArriveEffect, SubmitEffect DEF UserCancel, CancelAdmission, CancelRecord, CancelQueued, Register, coordinatorVars
<1>4. ASSUME NEW j \in Jobs, Reject(j) PROVE PollMoves
  BY <1>4, PollIsAt DEF Reject, PollPlaces
<1>5. ASSUME NEW j \in Jobs, FailRejected(j) PROVE PollMoves
  BY <1>5, PollIsAt DEF FailRejected, PollPlaces
<1>6. ASSUME NEW j \in Jobs, PollBegin(j) \/ PollDecide(j) \/ PollAdmit(j) \/ PollDrop(j) \/ PollAttempt(j) \/ PollRelease(j)
                             \/ PollUnlock(j) PROVE PollMoves
  BY <1>6, PollPath DEF To
<1>7. ASSUME NEW j \in Jobs, PollExpire(j) PROVE PollMoves
  <2>1. poll'.at = "reject" => record'[j] = "rejected"
    BY <1>7, <1>0, PollIsAt DEF PollExpire, SetRecord, CoordinatorTypeOK, PollPlaces
  <2> QED
    BY <1>7, <2>1, PollPath DEF To
<1>8. ASSUME NEW j \in Jobs, Expire(j) PROVE PollMoves
  BY <1>8, <1>1 DEF Expire
<1>9. ASSUME NEW to \in Modes, Update(to) PROVE PollMoves
  BY <1>9, <1>1 DEF Update, SetMode
<1>10. CASE UNCHANGED vars
  BY <1>10, <1>1 DEF vars, coordinatorVars
<1> QED
  BY <1>2, <1>3, <1>4, <1>5, <1>6, <1>7, <1>8, <1>9, <1>10 DEF Next, Polling, PollStep

LEMMA RecordKept ==
    ASSUME TypeOK, PlaceInv, QP!QueueInv, RecordInv, [Next]_vars
    PROVE  RecordInv'
<1>0. Typed /\ Working /\ Apart /\ Typed'
  BY TypedHolds, WorkersApart, TypeKept
<1>w. \A w \in Workers : WorkerMoves(w)
  BY WorkersMove
<1>j. \A j \in Jobs : JobMoves(j) /\ RecordMoves(j)
  BY JobsMove, RecordsMove
<1>p. PollMoves
  BY PollerMoves
\* Whatever is pending or running has no record to gain.
<1>g. \A j \in Jobs : LetGo(j) /\ where[j] # "made" => LetGo(j)'
  BY <1>j DEF RecordMoves, Appears
<1>1. NobodyWaitsDisabled'
  <2> SUFFICES ASSUME mode' = "disabled", NEW j \in Jobs PROVE LetGo(j)'
    BY DEF NobodyWaitsDisabled, LetGo
  <2> QED
    BY <1>j DEF RecordMoves, Appears, RecordInv, NobodyWaitsDisabled
<1>2. OnlyDemandsRecorded'
  BY <1>j DEF RecordMoves, RecordInv, OnlyDemandsRecorded
<1>3. AdmittedLetGo'
  <2> SUFFICES ASSUME NEW j \in admits' PROVE LetGo(j)'
    BY DEF AdmittedLetGo, LetGo
  <2>1. j \in Jobs
    BY <1>0 DEF Typed
  <2>2. CASE j \in admits
    <3>1. LetGo(j) /\ where[j] = "pending"
      BY <2>2, <1>0 DEF RecordInv, AdmittedLetGo, PlaceInv, AsksAboutPending, Pending, Typed
    <3> QED
      BY <2>1, <3>1, <1>g
  <2>3. CASE CanStart(j) /\ UNCHANGED coordinatorVars
    <3>1. CASE j \in Coordinated /\ enabled
      BY <2>3, <3>1 DEF CanStart, LetGo, coordinatorVars
    <3>2. CASE ~enabled
      BY <2>1, <2>3, <3>2 DEF enabled, RecordInv, NobodyWaitsDisabled, LetGo, coordinatorVars
    <3>3. CASE j \notin Coordinated
      BY <2>1, <2>3, <3>3, CoordinatorAssumption DEF RecordInv, OnlyDemandsRecorded, LetGo, coordinatorVars
    <3> QED
      BY <3>1, <3>2, <3>3
  <2> QED
    BY <2>1, <2>2, <2>3, <1>j DEF JobMoves
<1>4. TakenLetGo'
  <2> SUFFICES ASSUME NEW w \in Workers, phase'[w] # "none" PROVE record'[on'[w]] \in {"none", "admitted"}
    BY DEF TakenLetGo, LetGo
  <2>1. CASE phase[w] # "none" /\ on'[w] = on[w]
    <3>1. LetGo(on[w]) /\ on[w] \in Jobs /\ where[on[w]] = "running"
      BY <2>1, <1>0 DEF RecordInv, TakenLetGo, Working
    <3> QED
      BY <2>1, <3>1, <1>g DEF LetGo
  <2>2. ASSUME NEW j \in Jobs, Took(w, j), UNCHANGED coordinatorVars PROVE record'[on'[w]] \in {"none", "admitted"}
    <3>1. on'[w] = j /\ j \in admits
      BY <2>2, <1>0 DEF Took, Typed
    <3> QED
      BY <2>2, <3>1 DEF RecordInv, AdmittedLetGo, LetGo, coordinatorVars
  <2> QED
    BY <2>1, <2>2, <1>w DEF WorkerMoves
<1>5. ExecutionIsNoted'
  <2> SUFFICES ASSUME NEW w \in Workers, phase'[w] = "executing", record'[on'[w]] # "none" PROVE on'[w] \in started'
    BY DEF ExecutionIsNoted
  <2>1. on'[w] = on[w] /\ (phase[w] = "executing" \/ Begins(w))
    BY <1>w DEF WorkerMoves
  <2>2. on[w] \in Jobs /\ where[on[w]] = "running"
    BY <2>1, <1>0 DEF Working, Begins
  <2>3. record[on[w]] # "none"
    BY <2>1, <2>2, <1>j DEF RecordMoves, Appears
  <2>4. CASE phase[w] = "executing"
    BY <2>1, <2>2, <2>3, <2>4, <1>j DEF RecordInv, ExecutionIsNoted, RecordMoves
  <2>5. CASE Begins(w)
    BY <2>1, <2>3, <2>5 DEF Begins, ExecutionStarted
  <2> QED
    BY <2>1, <2>4, <2>5
<1>6. NotedExecute'
  <2> SUFFICES ASSUME NEW j \in started' PROVE \E w \in Workers : on'[w] = j /\ phase'[w] = "executing"
    BY DEF NotedExecute
  <2>0. TypeOK'
    BY TypeKept
  <2>1. j \in Jobs
    BY <2>0 DEF TypeOK, CoordinatorTypeOK
  <2>2. CASE j \in started
    <3>1. PICK w \in Workers : on[w] = j /\ phase[w] = "executing"
      BY <2>2 DEF RecordInv, NotedExecute
    <3> QED
      BY <3>1, <1>w DEF WorkerMoves
  <2>3. CASE j \notin started
    BY <2>1, <2>3, <1>j DEF RecordMoves
  <2> QED
    BY <2>2, <2>3
<1>7. PollIsOfAJob'
  BY <1>p DEF PollMoves, PollIsOfAJob
<1>8. GivenUpIsGone'
  <2> SUFFICES ASSUME GivesUp', NEW i \in Jobs, i = poll'.job, record'[i] = "none"
               PROVE  Gone(i)' /\ \A w \in Workers : on'[w] = i => phase'[w] # "executing"
    BY <1>7 DEF GivenUpIsGone, PollIsOfAJob, GivesUp
  <2>0. GivesUp /\ poll.job = i
    BY <1>p DEF PollMoves, GivesUp
  \* Gone before the step: gone after it, and _begin executes no such job.
  <2>1. CASE record[i] = "none"
    <3>1. Gone(i) /\ \A w \in Workers : on[w] = i => phase[w] # "executing"
      BY <2>0, <2>1 DEF RecordInv, GivenUpIsGone
    <3>2. cancelStep'[i] # "no" \/ where'[i] = "settled" \/ \E w \in Workers : on'[w] = i /\ Ends(w)'
      BY <2>0, <3>1, <1>w, <1>j DEF Gone, WorkerMoves, JobMoves
    <3>3. ASSUME NEW w \in Workers, on'[w] = i, phase'[w] = "executing" PROVE FALSE
      <4>1. on[w] = i /\ Begins(w)
        BY <3>1, <3>3, <1>w DEF WorkerMoves
      <4>2. where[i] = "running" /\ cancelStep[i] = "no"
        BY <4>1, <1>0 DEF Begins, Working
      <4>3. PICK v \in Workers : on[v] = i /\ Ends(v)
        BY <3>1, <4>2 DEF Gone
      <4> QED
        BY <4>1, <4>3, <1>0 DEF Apart, Begins, Ends
    <3> QED
      BY <2>0, <3>2, <3>3 DEF Gone
  \* The record goes in this step: with the job's end or its cancellation.
  <2>2. CASE record[i] # "none"
    <3>1. Forgets(i)
      BY <2>0, <2>2, <1>j DEF RecordMoves
    <3>2. ASSUME NEW w \in Workers, on[w] = i, on'[w] = i, phase[w] \in {"executing", "leaving"}, Ends(w)'
          PROVE  Gone(i)' /\ \A v \in Workers : on'[v] = i => phase'[v] # "executing"
      <4>1. ASSUME NEW v \in Workers, on'[v] = i, phase'[v] = "executing" PROVE FALSE
        <5>1. on[v] = i /\ phase[v] \in {"executing", "picked"}
          BY <4>1, <1>w DEF WorkerMoves, Begins
        <5>2. v = w
          BY <5>1, <3>2, <1>0 DEF Apart
        <5> QED
          BY <5>2, <4>1, <3>2 DEF Ends
      <4> QED
        BY <3>2, <4>1 DEF Gone
    <3>3. ASSUME i \notin started, cancelStep'[i] # "no", UNCHANGED <<phase, on>>
          PROVE  Gone(i)' /\ \A v \in Workers : on'[v] = i => phase'[v] # "executing"
      BY <3>3, <2>2 DEF Gone, RecordInv, ExecutionIsNoted
    <3> QED
      BY <2>0, <3>1, <3>2, <3>3 DEF Forgets, GivesUp
  <2> QED
    BY <2>1, <2>2
<1> QED
  BY <1>1, <1>2, <1>3, <1>4, <1>5, <1>6, <1>7, <1>8 DEF RecordInv

-----------------------------------------------------------------------------
(* The invariant holds of every reachable state.                            *)

LEMMA CoordInvInit == Init => CoordInv
<1> SUFFICES ASSUME Init PROVE CoordInv
  OBVIOUS
<1>1. QP!QueueInv
  BY SameQueue, QueueAssumptionHolds, QP!QueueInvInit DEF Init
<1>2. Q!TypeOK
  BY <1>1, SameQueue DEF QP!QueueInv
<1>3. TypeOK
  BY <1>2, CoordinatorAssumption
     DEF Init, TypeOK, CoordinatorInit, CoordinatorTypeOK, Modes, RecordStates, PollPlaces
<1>4. /\ holder = NoWorker /\ \A w \in Workers : pc[w] = "wait" /\ on[w] = NoJob /\ phase[w] = "none"
      /\ asked = {} /\ admits = {} /\ serialize = "unasked" /\ undisturbed = {}
      /\ lease = NoJob /\ control = FALSE /\ poll.at = "idle" /\ started = {} /\ \A j \in Jobs : record[j] = "none"
  BY DEF Init, Q!Init, CoordinatorInit
<1>5. PlaceInv
  BY <1>4 DEF PlaceInv, PhasesAgree, HolderEvaluates, IdleHoldNothing, OneLocked, Reserving, NoStaleAnswers,
              AsksAboutPending
<1>6. LeaseInv
  BY <1>4 DEF LeaseInv, UndisturbedEnabled, LockedUndisturbed, LeaseIsHeld, LeaseExclusive, PromiseIsKept, FlagExcludes,
              SerializeIsTrue
<1>7. RecordInv
  BY <1>4 DEF RecordInv, NobodyWaitsDisabled, OnlyDemandsRecorded, AdmittedLetGo, TakenLetGo, ExecutionIsNoted, NotedExecute,
              PollIsOfAJob, GivenUpIsGone, GivesUp, LetGo
<1> QED
  BY <1>1, <1>3, <1>5, <1>6, <1>7 DEF CoordInv

LEMMA CoordInvNext == CoordInv /\ [Next]_vars => CoordInv'
BY TypeKept, QueueKept, PlaceKept, LeaseKept, RecordKept DEF CoordInv

LEMMA CoordInvariance == Spec => []CoordInv
BY CoordInvInit, CoordInvNext, PTL DEF Spec

-----------------------------------------------------------------------------
(* What follows from it.                                                    *)

\* The composition is a queue: every behaviour of the workers, the coordinator
\* and the polling thread together is, seen from the queue alone, one of
\* JobQueue in which the callbacks answer something.
THEOREM CoordinationKeepsQueue == Spec => QP!Spec
<1>1. Init => QP!Init
  BY SameQueue DEF Init
<1>2. CoordInv /\ [Next]_vars => [QP!Next]_(QP!vars)
  BY QueueStep DEF CoordInv
<1> QED
  BY <1>1, <1>2, CoordInvariance, PTL DEF Spec, QP!Spec

\* Under coordination too, the turns of one chat are never processed side by
\* side, whatever is admitted, rejected or cancelled between the questions of
\* an evaluation.
THEOREM CoordinatedKeysExclude == Spec => []QP!KeyExclusion
<1>1. QP!Spec => []QP!KeyExclusion
  BY QueueAssumptionHolds, QP!KeysExclude
<1> QED
  BY <1>1, CoordinationKeepsQueue

\* While coordination stays enabled, at most one local GPU job is between its
\* choice and its completion, in either lane, and the lease is its own.
THEOREM LeaseAdmitsOne == Spec => []LeaseIsSound
<1>1. CoordInv => LeaseIsSound
  BY DEF CoordInv, LeaseInv, LeaseIsSound
<1> QED
  BY <1>1, CoordInvariance, PTL

\* No job admitted under coordination executes while a completed job's release
\* holds the flag.
THEOREM ReleasesMeetNobody == Spec => []PostJobReleaseAlone
<1>1. CoordInv => PostJobReleaseAlone
  BY DEF CoordInv, LeaseInv, FlagExcludes, PostJobReleaseAlone, Executing
<1> QED
  BY <1>1, CoordInvariance, PTL

\* A job that the polling thread gives up does not execute meanwhile, unless
\* the administrator's change of policy admitted it.
THEOREM RejectionsMeetNobody == Spec => []RejectedNeverExecutes
<1>1. CoordInv => RejectedNeverExecutes
  <2> SUFFICES ASSUME CoordInv, NEW w \in Executing, GivesUp, poll.job = on[w] PROVE record[on[w]] = "admitted"
    BY DEF RejectedNeverExecutes, GivesUp
  <2>1. w \in Workers /\ phase[w] = "executing"
    BY DEF Executing, Occupied
  <2>2. record[on[w]] \in {"none", "admitted"}
    BY <2>1 DEF CoordInv, RecordInv, TakenLetGo, LetGo
  <2>3. record[on[w]] # "none"
    BY <2>1 DEF CoordInv, RecordInv, GivenUpIsGone
  <2> QED
    BY <2>2, <2>3
<1> QED
  BY <1>1, CoordInvariance, PTL

\* A media worker takes no job past waiting chat work of the same GPU, and a job
\* that was cancelled or failed before its execution reclaims no memory.
THEOREM WorkersKeepTheOrder == Spec => WorkersKeepOrder
<1>1. CoordInv /\ [Next]_vars =>
        [\A w \in undisturbed :
           (pc[w] = "pick" /\ pc'[w] = "run" /\ Lane(w) = "media") =>
               Q!PendingIn("interactive") \cap Coordinated = {}]_vars
  <2> SUFFICES ASSUME CoordInv, [Next]_vars, NEW w \in undisturbed, pc[w] = "pick", pc'[w] = "run", Lane(w) = "media"
               PROVE  Q!PendingIn("interactive") \cap Coordinated = {}
    OBVIOUS
  <2>1. w \in Workers /\ holder = w /\ serialize \in {"unasked", "yes", "no"}
    BY TypedHolds, WorkersApart DEF CoordInv, Typed, Lookers
  <2>2. phase[w] = "none" /\ phase'[w] # "none"
    BY <2>1, CoordInvNext DEF CoordInv, PlaceInv, PhasesAgree
  <2>3. Ready(w) /\ ~Yields(w)
    BY <2>1, <2>2, WorkersMove DEF WorkerMoves, Took, CoordInv
  <2>4. serialize = "yes"
    BY <2>1, <2>3 DEF CoordInv, LeaseInv, SerializeIsTrue, Ready
  <2> QED
    BY <2>3, <2>4 DEF Yields, Q!YieldsTo, Answered
<1>2. CoordInv /\ [Next]_vars => [\A w \in Workers : phase[w] = "leaving" => phase'[w] # "cleanup"]_vars
  <2> SUFFICES ASSUME CoordInv, [Next]_vars, NEW w \in Workers, phase[w] = "leaving", phase'[w] = "cleanup" PROVE FALSE
    OBVIOUS
  <2>1. on[w] \in started
    BY WorkersMove DEF WorkerMoves, CoordInv
  <2>2. PICK v \in Workers : on[v] = on[w] /\ phase[v] = "executing"
    BY <2>1 DEF CoordInv, RecordInv, NotedExecute
  <2> QED
    BY <2>2, WorkersApart DEF CoordInv, Apart
<1> QED
  BY <1>1, <1>2, CoordInvariance, PTL DEF Spec, WorkersKeepOrder, MediaYields, NeverExecutedNeverReclaims

=============================================================================
