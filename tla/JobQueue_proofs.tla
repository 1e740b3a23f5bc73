--------------------------- MODULE JobQueue_proofs ---------------------------
(***************************************************************************)
(* Theorems of JobQueue, for any jobs, workers, lanes, keys and answers.    *)
(***************************************************************************)
EXTENDS JobQueue, TLAPS, FiniteSetTheorems

\* A worker's steps, the answer or the result left out.
Looks(w) == \E ans \in Answers : Look(w, ans)
Picks(w) == \E ans \in Answers : Pick(w, ans)
Settles(w) == \E result \in {"value", "error"} : Settle(w, result)

\* Next is one of these, and a proof about a step has a case for each.
LEMMA Steps ==
    ASSUME Next
    PROVE  \/ \E j \in Jobs : NewJob(j)
           \/ \E j \in Jobs : Submit(j)
           \/ \E j \in Jobs : RefuseSubmit(j)
           \/ \E j \in Jobs : CancelPending(j)
           \/ \E j \in Jobs : AcknowledgeStoppedPending(j)
           \/ \E j \in Jobs : Age(j)
           \/ CloseAndDetachPending
           \/ \E w \in Workers : Acquire(w)
           \/ \E w \in Workers : Looks(w)
           \/ \E w \in Workers : Picks(w)
           \/ \E w \in Workers : Settles(w)
           \/ \E w \in Workers : Release(w)
BY DEF Next, OwnerStep, WorkerStep, Looks, Picks, Settles

\* What a choice is made of: jobs of the worker's lane that are pending and
\* admitted and, if they have a key, lead it.
LEMMA ChoicesAreEligible ==
    ASSUME NEW lane \in Lanes, NEW ans \in Answers,
           NEW j \in Choices(lane, Eligible(lane, ans))
    PROVE  /\ j \in Jobs
           /\ where[j] = "pending"
           /\ LaneOf[j] = lane
           /\ j \in ans.admits
           /\ \/ OrderingKey[j] = NoKey
              \/ Leads(j, PendingIn(lane) \cap ans.admits)
<1>1. j \in Eligible(lane, ans)
  BY DEF Choices, Foremost, Loaded, Urgent
<1>2. QED
  BY <1>1 DEF Eligible, PendingIn, Pending

-----------------------------------------------------------------------------
(* Type correctness.                                                        *)

LEMMA TypeInit == Init => TypeOK
<1> SUFFICES ASSUME Init PROVE TypeOK
  OBVIOUS
<1>1. where \in [Jobs -> Places] /\ outcome \in [Jobs -> Outcomes] /\ pc \in [Workers -> PCs]
  BY DEF Init, Places, Outcomes, PCs
<1>2. active \in [Lanes -> Nat]
  BY DEF Init
<1>3. stop \in BOOLEAN
  BY DEF Init
<1>4. QED
  BY <1>1, <1>2, <1>3 DEF Init, TypeOK

LEMMA TypePick ==
    ASSUME TypeOK, NEW w \in Workers, Picks(w)
    PROVE  TypeOK'
<1> USE QueueAssumption
<1>1. PICK ans \in Answers : Pick(w, ans)
  BY DEF Picks
<1>2. WorkerLane[w] \in Lanes
  OBVIOUS
<1>3. CASE Die(w)
  BY <1>3 DEF TypeOK, PCs, Die, Goto, jobVars, stopVars
<1>4. CASE \E j \in Choices(WorkerLane[w], Eligible(WorkerLane[w], ans)) : Start(w, j)
  <2>1. PICK j \in Choices(WorkerLane[w], Eligible(WorkerLane[w], ans)) : Start(w, j)
    BY <1>4
  <2>2. j \in Jobs
    BY <1>2, <2>1, ChoicesAreEligible
  <2>3. KeysOf(j) \subseteq Keys
    BY <2>2 DEF KeysOf, Keys
  <2>4. ModelKey[j] \in Models \cup {NoModel}
    BY <2>2 DEF Models
  <2>5. where' \in [Jobs -> Places] /\ outcome' \in [Jobs -> Outcomes]
    BY <2>1, <2>2 DEF Start, TypeOK, Places
  <2>6. earlier' \in [Jobs -> SUBSET Jobs] /\ overdue' \subseteq Jobs
    BY <2>1, <2>2 DEF Start, Forget, TypeOK
  <2>7. pc' \in [Workers -> PCs] /\ on' \in [Workers -> Jobs \cup {NoJob}]
        /\ holder' \in Workers \cup {NoWorker}
    BY <2>1, <2>2 DEF Start, Goto, TypeOK, PCs
  <2>8. active' \in [Lanes -> Nat]
    BY <1>2, <2>1 DEF Start, TypeOK
  <2>9. activeKeys' \subseteq Keys
    BY <2>1, <2>3 DEF Start, TypeOK
  <2>10. currentModel' \in [Lanes -> Models \cup {NoModel}]
    BY <1>2, <2>1, <2>4 DEF Start, TypeOK
  <2>11. stop' \in BOOLEAN /\ stoppedPending' \subseteq Jobs
    BY <2>1 DEF Start, stopVars, TypeOK
  <2>12. QED
    BY <2>5, <2>6, <2>7, <2>8, <2>9, <2>10, <2>11 DEF TypeOK
<1>5. QED
  BY <1>1, <1>3, <1>4 DEF Pick

LEMMA TypeNext == TypeOK /\ [Next]_vars => TypeOK'
<1> SUFFICES ASSUME TypeOK, [Next]_vars PROVE TypeOK'
  OBVIOUS
<1> USE QueueAssumption
<1>1. CASE \E j \in Jobs : NewJob(j)
  BY <1>1 DEF NewJob, TypeOK, Places, Outcomes, Waiting, workerVars, stopVars
<1>2. CASE \E j \in Jobs : Submit(j)
  BY <1>2 DEF Submit, TypeOK, Places, workerVars, stopVars
<1>3. CASE \E j \in Jobs : RefuseSubmit(j)
  BY <1>3 DEF RefuseSubmit, Forget, TypeOK, Places, workerVars, stopVars
<1>4. CASE \E j \in Jobs : CancelPending(j)
  BY <1>4 DEF CancelPending, SettleWaiting, Forget, TypeOK, Places, Outcomes, workerVars, stopVars
<1>5. CASE \E j \in Jobs : AcknowledgeStoppedPending(j)
  BY <1>5 DEF AcknowledgeStoppedPending, TypeOK, jobVars, workerVars
<1>6. CASE \E j \in Jobs : Age(j)
  BY <1>6 DEF Age, TypeOK, workerVars, stopVars
<1>7. CASE CloseAndDetachPending
  BY <1>7 DEF CloseAndDetachPending, SettleWaiting, Forget, Pending, TypeOK, Places, Outcomes,
              workerVars
<1>8. CASE \E w \in Workers : Acquire(w)
  BY <1>8 DEF Acquire, Goto, TypeOK, PCs, jobVars, stopVars
<1>9. CASE \E w \in Workers : Looks(w)
  BY <1>9 DEF Looks, Look, Goto, TypeOK, PCs, jobVars, stopVars
<1>10. CASE \E w \in Workers : Picks(w)
  BY <1>10, TypePick
<1>11. CASE \E w \in Workers : Settles(w)
  <2>1. PICK w \in Workers, result \in {"value", "error"} : Settle(w, result)
    BY <1>11 DEF Settles
  <2>2. where' \in [Jobs -> Places] /\ outcome' \in [Jobs -> Outcomes]
    BY <2>1 DEF Settle, TypeOK, Places, Outcomes
  <2>3. pc' \in [Workers -> PCs]
    BY <2>1 DEF Settle, Goto, TypeOK, PCs
  <2>4. QED
    BY <2>1, <2>2, <2>3 DEF Settle, TypeOK, stopVars
<1>12. CASE \E w \in Workers : Release(w)
  BY <1>12 DEF Release, CountDown, Goto, TypeOK, PCs, jobVars, stopVars
<1>13. CASE UNCHANGED vars
  BY <1>13 DEF vars, jobVars, workerVars, stopVars, TypeOK
<1>14. QED
  BY <1>1, <1>2, <1>3, <1>4, <1>5, <1>6, <1>7, <1>8, <1>9, <1>10, <1>11, <1>12, <1>13, Steps

\* Every variable of the queue keeps its type; in particular no lane's count
\* of active workers leaves the natural numbers.
THEOREM TypeCorrect == Spec => []TypeOK
BY TypeInit, TypeNext, PTL DEF Spec

-----------------------------------------------------------------------------
(* The inductive invariant.                                                 *)

\* A worker that evaluates eligibility is inside the lock, and once the
\* queue is closed none is left that is about to choose.
LockHeld == \A w \in Workers : pc[w] \in {"look", "pick"} => holder = w
NoChoiceAfterClose == stop => \A w \in Workers : pc[w] # "pick"

\* Workers and running jobs correspond one to one.
HoldsJob == \A w \in Workers : Executing(w) => on[w] \in Jobs
RunsRunning == \A w \in Workers : pc[w] = "run" => where[on[w]] = "running"
RunsAlone ==
    \A v, w \in Workers : (v # w /\ pc[v] = "run" /\ pc[w] = "run") => on[v] # on[w]
RunningIsRun == \A j \in Jobs : where[j] = "running" => \E w \in Workers : pc[w] = "run" /\ on[w] = j

\* The key of a job in execution is in the active set.
KeysActive == \A w \in Workers : Executing(w) => KeysOf(on[w]) \subseteq activeKeys

\* A lane's count is the number of its workers that hold a job.
Busy(lane) == {w \in Workers : Executing(w) /\ WorkerLane[w] = lane}
CountsBusy == \A l \in Lanes : active[l] = Cardinality(Busy(l))

LockInv == LockHeld /\ NoChoiceAfterClose
RunInv == HoldsJob /\ RunsRunning /\ RunsAlone /\ RunningIsRun
KeyInv == KeysActive /\ KeyExclusion
QueueInv == TypeOK /\ LockInv /\ RunInv /\ KeyInv /\ CountsBusy

-----------------------------------------------------------------------------
(* Every step either leaves the execution of jobs alone or is one of three. *)

Quiet ==
    /\ on' = on /\ active' = active /\ activeKeys' = activeKeys
    /\ \A j \in Jobs : where'[j] = "running" <=> where[j] = "running"
    /\ \A w \in Workers : (pc'[w] = "run" <=> pc[w] = "run")
                         /\ (pc'[w] = "release" <=> pc[w] = "release")

Starts(w, j) ==
    /\ pc[w] = "pick" /\ Start(w, j)
    /\ j \in Jobs /\ where[j] = "pending" /\ LaneOf[j] = WorkerLane[w]
    /\ \E ans \in Answers :
         \/ OrderingKey[j] = NoKey
         \/ Leads(j, PendingIn(WorkerLane[w]) \cap ans.admits)

LEMMA PicksStart ==
    ASSUME TypeOK, NEW w \in Workers, Picks(w)
    PROVE  (pc[w] = "pick" /\ Die(w)) \/ \E j \in Jobs : Starts(w, j)
<1>1. PICK ans \in Answers : Pick(w, ans)
  BY DEF Picks
<1>2. WorkerLane[w] \in Lanes
  BY QueueAssumption
<1>3. CASE \E j \in Choices(WorkerLane[w], Eligible(WorkerLane[w], ans)) : Start(w, j)
  <2>1. PICK j \in Choices(WorkerLane[w], Eligible(WorkerLane[w], ans)) : Start(w, j)
    BY <1>3
  <2>2. QED
    BY <1>1, <1>2, <2>1, ChoicesAreEligible DEF Starts, Pick
<1>4. QED
  BY <1>1, <1>3 DEF Pick

LEMMA OwnerIsQuiet == TypeOK /\ OwnerStep => Quiet
<1> SUFFICES ASSUME TypeOK, OwnerStep PROVE Quiet
  OBVIOUS
<1>1. UNCHANGED <<on, active, activeKeys, pc>>
  BY DEF OwnerStep, NewJob, Submit, RefuseSubmit, CancelPending, AcknowledgeStoppedPending, Age,
         CloseAndDetachPending, workerVars
<1>2. \A j \in Jobs : where'[j] = "running" <=> where[j] = "running"
  BY DEF OwnerStep, NewJob, Submit, RefuseSubmit, CancelPending, AcknowledgeStoppedPending, Age,
         CloseAndDetachPending, SettleWaiting, Pending, jobVars, TypeOK
<1>3. QED
  BY <1>1, <1>2 DEF Quiet

LEMMA StepKinds ==
    ASSUME TypeOK, [Next]_vars
    PROVE  \/ Quiet
           \/ \E w \in Workers, j \in Jobs : Starts(w, j)
           \/ \E w \in Workers : Settles(w)
           \/ \E w \in Workers : Release(w)
<1>1. CASE OwnerStep
  BY <1>1, OwnerIsQuiet
<1>2. CASE UNCHANGED vars
  BY <1>2 DEF Quiet, vars, jobVars, workerVars
<1>3. CASE \E w \in Workers : Acquire(w)
  BY <1>3 DEF Acquire, Goto, Quiet, TypeOK, jobVars
<1>4. CASE \E w \in Workers : Looks(w)
  BY <1>4 DEF Looks, Look, Goto, Quiet, TypeOK, jobVars
<1>5. CASE \E w \in Workers : Picks(w)
  <2>1. PICK w \in Workers : Picks(w)
    BY <1>5
  <2>2. CASE pc[w] = "pick" /\ Die(w)
    BY <2>2 DEF Die, Goto, Quiet, TypeOK, jobVars
  <2>3. QED
    BY <2>1, <2>2, PicksStart
<1>6. QED
  BY <1>1, <1>2, <1>3, <1>4, <1>5 DEF Next, WorkerStep, Looks, Picks, Settles

-----------------------------------------------------------------------------
(* Preservation of each part.                                               *)

LEMMA LockStep ==
    ASSUME TypeOK, LockInv, [Next]_vars
    PROVE  LockInv'
<1> USE DEF LockInv, LockHeld, NoChoiceAfterClose, LockFree
<1>1. CASE OwnerStep
  <2>1. UNCHANGED <<pc, holder>>
    BY <1>1 DEF OwnerStep, NewJob, Submit, RefuseSubmit, CancelPending, AcknowledgeStoppedPending,
                Age, CloseAndDetachPending, workerVars
  <2>2. stop' # stop => holder = NoWorker
    BY <1>1 DEF OwnerStep, NewJob, Submit, RefuseSubmit, CancelPending, AcknowledgeStoppedPending,
                Age, CloseAndDetachPending, stopVars
  <2>3. QED
    BY <2>1, <2>2, QueueAssumption
<1>2. CASE UNCHANGED vars
  BY <1>2 DEF vars, workerVars, stopVars
<1>3. CASE \E w \in Workers : Acquire(w)
  BY <1>3, QueueAssumption DEF Acquire, Goto, TypeOK, stopVars
<1>4. CASE \E w \in Workers : Looks(w)
  <2>1. PICK w \in Workers, ans \in Answers : Look(w, ans)
    BY <1>4 DEF Looks
  <2>2. /\ pc[w] = "look" /\ UNCHANGED stop
        /\ \/ pc' = [pc EXCEPT ![w] = "pick"] /\ ~stop /\ holder' = holder
           \/ \E p \in {"wait", "exited"} : pc' = [pc EXCEPT ![w] = p]
    BY <2>1 DEF Look, Goto, stopVars
  <2>3. QED
    BY <2>2 DEF TypeOK
<1>5. CASE \E w \in Workers : Picks(w)
  <2>1. PICK w \in Workers : Picks(w)
    BY <1>5
  <2>2. /\ pc[w] = "pick" /\ UNCHANGED stop
        /\ \E p \in {"run", "dead"} : pc' = [pc EXCEPT ![w] = p]
    BY <2>1, PicksStart DEF Starts, Start, Die, Goto, stopVars
  <2>3. QED
    BY <2>2 DEF TypeOK
<1>6. CASE \E w \in Workers : Settles(w)
  BY <1>6 DEF Settles, Settle, Goto, TypeOK, stopVars
<1>7. CASE \E w \in Workers : Release(w)
  BY <1>7 DEF Release, Goto, TypeOK, stopVars
<1>8. QED
  BY <1>1, <1>2, <1>3, <1>4, <1>5, <1>6, <1>7 DEF Next, WorkerStep, Looks, Picks, Settles

LEMMA RunStep ==
    ASSUME TypeOK, RunInv, [Next]_vars
    PROVE  RunInv'
<1> USE DEF RunInv, HoldsJob, RunsRunning, RunsAlone, RunningIsRun, Executing
<1>1. CASE Quiet
  BY <1>1 DEF Quiet
<1>2. CASE \E w \in Workers, j \in Jobs : Starts(w, j)
  <2>1. PICK w \in Workers, j \in Jobs : Starts(w, j)
    BY <1>2
  <2>2. /\ where' = [where EXCEPT ![j] = "running"] /\ on' = [on EXCEPT ![w] = j]
        /\ pc' = [pc EXCEPT ![w] = "run"] /\ pc[w] = "pick" /\ where[j] = "pending"
    BY <2>1 DEF Starts, Start, Goto
  <2>3. HoldsJob' /\ RunsRunning'
    BY <2>2 DEF TypeOK
  <2>4. RunsAlone'
    BY <2>2 DEF TypeOK
  <2>5. RunningIsRun'
    BY <2>2 DEF TypeOK
  <2>6. QED
    BY <2>3, <2>4, <2>5
<1>3. CASE \E w \in Workers : Settles(w)
  <2>1. PICK w \in Workers, result \in {"value", "error"} : Settle(w, result)
    BY <1>3 DEF Settles
  <2>2. /\ where' = [where EXCEPT ![on[w]] = "settled"] /\ on' = on
        /\ pc' = [pc EXCEPT ![w] = "release"] /\ pc[w] = "run"
    BY <2>1 DEF Settle, Goto
  <2>3. HoldsJob' /\ RunsRunning' /\ RunsAlone'
    BY <2>2 DEF TypeOK
  <2>4. RunningIsRun'
    BY <2>2 DEF TypeOK
  <2>5. QED
    BY <2>3, <2>4
<1>4. CASE \E w \in Workers : Release(w)
  <2>1. PICK w \in Workers : Release(w)
    BY <1>4
  <2>2. /\ where' = where /\ on' = [on EXCEPT ![w] = NoJob]
        /\ pc' = [pc EXCEPT ![w] = "wait"] /\ pc[w] = "release"
    BY <2>1 DEF Release, Goto, jobVars
  <2>3. QED
    BY <2>2 DEF TypeOK
<1>5. QED
  BY <1>1, <1>2, <1>3, <1>4, StepKinds

LEMMA KeyStep ==
    ASSUME TypeOK, RunInv, KeyInv, [Next]_vars
    PROVE  KeyInv'
<1> USE DEF KeyInv, KeysActive, KeyExclusion, Executing, KeysOf
<1>1. CASE Quiet
  BY <1>1 DEF Quiet
<1>2. CASE \E w \in Workers, j \in Jobs : Starts(w, j)
  <2>1. PICK w \in Workers, j \in Jobs : Starts(w, j)
    BY <1>2
  <2>2. /\ on' = [on EXCEPT ![w] = j] /\ pc' = [pc EXCEPT ![w] = "run"]
        /\ activeKeys' = activeKeys \cup ({OrderingKey[j]} \ {NoKey})
    BY <2>1 DEF Starts, Start, Goto
  <2>3. OrderingKey[j] = NoKey \/ OrderingKey[j] \notin activeKeys
    BY <2>1 DEF Starts, Leads
  <2>4. KeysActive'
    BY <2>2 DEF TypeOK
  <2>5. KeyExclusion'
    BY <2>2, <2>3 DEF TypeOK
  <2>6. QED
    BY <2>4, <2>5
<1>3. CASE \E w \in Workers : Settles(w)
  <2>1. PICK w \in Workers, result \in {"value", "error"} : Settle(w, result)
    BY <1>3 DEF Settles
  <2>2. on' = on /\ activeKeys' = activeKeys /\ pc' = [pc EXCEPT ![w] = "release"]
        /\ pc[w] = "run"
    BY <2>1 DEF Settle, Goto
  <2>3. QED
    BY <2>2 DEF TypeOK
<1>4. CASE \E w \in Workers : Release(w)
  <2>1. PICK w \in Workers : Release(w)
    BY <1>4
  <2>2. /\ on' = [on EXCEPT ![w] = NoJob] /\ pc' = [pc EXCEPT ![w] = "wait"]
        /\ activeKeys' = activeKeys \ ({OrderingKey[on[w]]} \ {NoKey})
        /\ pc[w] = "release"
    BY <2>1 DEF Release, Goto
  <2>3. \A v \in Workers : (v # w /\ Executing(v)) =>
            OrderingKey[on[v]] = NoKey \/ OrderingKey[on[v]] # OrderingKey[on[w]]
    BY <2>2
  <2>4. KeysActive'
    BY <2>2, <2>3 DEF TypeOK
  <2>5. KeyExclusion'
    BY <2>2 DEF TypeOK
  <2>6. QED
    BY <2>4, <2>5
<1>5. QED
  BY <1>1, <1>2, <1>3, <1>4, StepKinds

LEMMA BusyFinite ==
    ASSUME NEW l \in Lanes
    PROVE  IsFiniteSet(Busy(l)) /\ Cardinality(Busy(l)) \in Nat
BY FS_Subset, FS_CardinalityType, QueueAssumption DEF Busy

LEMMA CountStep ==
    ASSUME TypeOK, RunInv, CountsBusy, [Next]_vars
    PROVE  CountsBusy'
<1> USE DEF CountsBusy, Executing
<1>1. CASE Quiet
  <2>1. \A l \in Lanes : Busy(l)' = Busy(l)
    BY <1>1 DEF Quiet, Busy
  <2>2. QED
    BY <1>1, <2>1 DEF Quiet
<1>2. CASE \E w \in Workers, j \in Jobs : Starts(w, j)
  <2>1. PICK w \in Workers, j \in Jobs : Starts(w, j)
    BY <1>2
  <2>2. /\ pc' = [pc EXCEPT ![w] = "run"] /\ pc[w] = "pick"
        /\ active' = [active EXCEPT ![WorkerLane[w]] = @ + 1]
    BY <2>1 DEF Starts, Start, Goto
  <2>3. \A l \in Lanes : Busy(l)' = IF l = WorkerLane[w] THEN Busy(l) \cup {w} ELSE Busy(l)
    BY <2>2 DEF Busy, TypeOK
  <2>4. w \notin Busy(WorkerLane[w])
    BY <2>2 DEF Busy
  <2>5. WorkerLane[w] \in Lanes
    BY QueueAssumption
  <2>6. Cardinality(Busy(WorkerLane[w]) \cup {w}) = Cardinality(Busy(WorkerLane[w])) + 1
    BY <2>4, <2>5, BusyFinite, FS_AddElement
  <2>7. \A l \in Lanes : active'[l] = Cardinality(Busy(l)')
    BY <2>2, <2>3, <2>5, <2>6 DEF TypeOK
  <2>8. QED
    BY <2>7
<1>3. CASE \E w \in Workers : Settles(w)
  <2>1. PICK w \in Workers, result \in {"value", "error"} : Settle(w, result)
    BY <1>3 DEF Settles
  <2>2. active' = active /\ pc' = [pc EXCEPT ![w] = "release"] /\ pc[w] = "run"
    BY <2>1 DEF Settle, Goto
  <2>3. \A l \in Lanes : Busy(l)' = Busy(l)
    BY <2>2 DEF Busy, TypeOK
  <2>4. QED
    BY <2>2, <2>3
<1>4. CASE \E w \in Workers : Release(w)
  <2>1. PICK w \in Workers : Release(w)
    BY <1>4
  <2>2. /\ pc' = [pc EXCEPT ![w] = "wait"] /\ pc[w] = "release"
        /\ active' = [active EXCEPT ![WorkerLane[w]] = CountDown(@)]
    BY <2>1 DEF Release, Goto
  <2>3. \A l \in Lanes : Busy(l)' = IF l = WorkerLane[w] THEN Busy(l) \ {w} ELSE Busy(l)
    BY <2>2 DEF Busy, TypeOK
  <2>4. w \in Busy(WorkerLane[w])
    BY <2>2 DEF Busy
  <2>5. WorkerLane[w] \in Lanes
    BY QueueAssumption
  <2>6. /\ Cardinality(Busy(WorkerLane[w]) \ {w}) = Cardinality(Busy(WorkerLane[w])) - 1
        /\ Cardinality(Busy(WorkerLane[w]) \ {w}) \in Nat
    BY <2>4, <2>5, BusyFinite, FS_RemoveElement, FS_CardinalityType
  <2>7. CountDown(active[WorkerLane[w]]) = Cardinality(Busy(WorkerLane[w]) \ {w})
    BY <2>5, <2>6, BusyFinite DEF CountDown
  <2>8. \A l \in Lanes : active'[l] = Cardinality(Busy(l)')
    BY <2>2, <2>3, <2>5, <2>7 DEF TypeOK
  <2>9. QED
    BY <2>8
<1>5. QED
  BY <1>1, <1>2, <1>3, <1>4, StepKinds

LEMMA QueueInvInit == Init => QueueInv
<1> SUFFICES ASSUME Init PROVE QueueInv
  OBVIOUS
<1>1. TypeOK
  BY TypeInit
<1>2. \A w \in Workers : pc[w] = "wait"
  BY DEF Init
<1>3. LockInv
  BY <1>2 DEF LockInv, LockHeld, NoChoiceAfterClose
<1>4. RunInv
  BY <1>2 DEF Init, RunInv, HoldsJob, RunsRunning, RunsAlone, RunningIsRun, Executing
<1>5. KeyInv
  BY <1>2 DEF KeyInv, KeysActive, KeyExclusion, Executing
<1>6. CountsBusy
  <2>1. \A l \in Lanes : Busy(l) = {}
    BY <1>2 DEF Busy, Executing
  <2>2. QED
    BY <2>1, FS_EmptySet DEF Init, CountsBusy
<1>7. QED
  BY <1>1, <1>3, <1>4, <1>5, <1>6 DEF QueueInv

LEMMA QueueInvNext == QueueInv /\ [Next]_vars => QueueInv'
BY TypeNext, LockStep, RunStep, KeyStep, CountStep DEF QueueInv

\* The invariant holds of every reachable state.
LEMMA QueueInvHolds == Spec => []QueueInv
BY QueueInvInit, QueueInvNext, PTL DEF Spec

-----------------------------------------------------------------------------
(* What follows from it.                                                    *)

\* Whatever the lanes, the number of workers and the answers of admission,
\* two workers never hold jobs of one ordering key: the turns of a chat are
\* processed one at a time.
THEOREM KeysExclude == Spec => []KeyExclusion
<1>1. QueueInv => KeyExclusion
  BY DEF QueueInv, KeyInv
<1>2. QED
  BY <1>1, QueueInvHolds, PTL

\* When nothing is pending and every lane counts no active worker, no
\* accepted job waits or runs: wait_until_idle does not return early.
THEOREM IdleIsSettled == Spec => []IdleMeansSettled
<1>1. QueueInv => IdleMeansSettled
  <2> SUFFICES ASSUME QueueInv, Pending = {}, \A l \in Lanes : active[l] = 0
               PROVE  /\ \A j \in Jobs : where[j] \notin {"pending", "running"}
                      /\ \A w \in Workers : ~Executing(w)
    BY DEF IdleMeansSettled
  <2>1. \A l \in Lanes : Busy(l) = {}
    BY BusyFinite, FS_EmptySet DEF QueueInv, CountsBusy
  <2>2. \A w \in Workers : ~Executing(w)
    BY <2>1, QueueAssumption DEF Busy
  <2>3. \A j \in Jobs : where[j] # "running"
    BY <2>2 DEF QueueInv, RunInv, RunningIsRun, Executing
  <2>4. \A j \in Jobs : where[j] # "pending"
    BY DEF Pending
  <2>5. QED
    BY <2>2, <2>3, <2>4
<1>2. QED
  BY <1>1, QueueInvHolds, PTL

\* After the queue is closed no step begins a job.
THEOREM NothingStartsAfterClose == Spec => NoStartAfterClose
<1>1. QueueInv /\ [Next]_vars =>
        [stop => \A j \in Jobs : where'[j] = "running" => where[j] = "running"]_vars
  <2> SUFFICES ASSUME QueueInv, [Next]_vars, stop, NEW j \in Jobs, where'[j] = "running"
               PROVE  where[j] = "running"
    OBVIOUS
  <2> USE DEF QueueInv, TypeOK
  <2>1. CASE Quiet
    BY <2>1 DEF Quiet
  <2>2. CASE \E w \in Workers, i \in Jobs : Starts(w, i)
    BY <2>2 DEF Starts, LockInv, NoChoiceAfterClose
  <2>3. CASE \E w \in Workers : Settles(w)
    BY <2>3 DEF Settles, Settle
  <2>4. CASE \E w \in Workers : Release(w)
    BY <2>4 DEF Release, jobVars
  <2>5. QED
    BY <2>1, <2>2, <2>3, <2>4, StepKinds
<1>2. QED
  BY <1>1, QueueInvHolds, PTL DEF Spec, NoStartAfterClose

\* A settled job keeps its result until it is forgotten: mark_done happens
\* once, although cancellation, detachment and execution all call it.
THEOREM SettlesOnce == Spec => SettledOnce
<1>1. QueueInv /\ [Next]_vars =>
        [\A j \in Jobs : where[j] = "settled" =>
           where'[j] = "made" \/ (where'[j] = "settled" /\ outcome'[j] = outcome[j])]_vars
  <2> SUFFICES ASSUME QueueInv, [Next]_vars, NEW j \in Jobs, where[j] = "settled"
               PROVE  where'[j] = "made" \/ (where'[j] = "settled" /\ outcome'[j] = outcome[j])
    OBVIOUS
  <2> USE DEF QueueInv, TypeOK
  <2>1. CASE OwnerStep
    BY <2>1 DEF OwnerStep, NewJob, Submit, RefuseSubmit, CancelPending, AcknowledgeStoppedPending,
                Age, CloseAndDetachPending, SettleWaiting, Pending, jobVars
  <2>2. CASE UNCHANGED vars
    BY <2>2 DEF vars, jobVars
  <2>3. CASE \E w \in Workers : Acquire(w) \/ Looks(w) \/ Release(w)
    BY <2>3 DEF Acquire, Looks, Look, Release, jobVars
  <2>4. CASE \E w \in Workers : Picks(w)
    BY <2>4, PicksStart DEF Starts, Start, Die, jobVars
  <2>5. CASE \E w \in Workers : Settles(w)
    <3>1. PICK w \in Workers, result \in {"value", "error"} : Settle(w, result)
      BY <2>5 DEF Settles
    <3>2. j # on[w]
      BY <3>1 DEF Settle, RunInv, RunsRunning
    <3>3. QED
      BY <3>1, <3>2 DEF Settle
  <2>6. QED
    BY <2>1, <2>2, <2>3, <2>4, <2>5 DEF Next, WorkerStep, Looks, Picks, Settles
<1>2. QED
  BY <1>1, QueueInvHolds, PTL DEF Spec, SettledOnce

\* If admission withholds no job, the jobs of an ordering key start in their
\* arrival order within a lane, whatever else the choice prefers.
THEOREM KeysInOrder ==
    ASSUME \A ans \in Answers : ans.admits = Jobs
    PROVE  Spec => CausalOrder
<1> DEFINE InOrder ==
      \A j \in Jobs : (where[j] = "pending" /\ where'[j] = "running") =>
        \A i \in earlier[j] \cap PendingIn(LaneOf[j]) :
            OrderingKey[j] = NoKey \/ OrderingKey[i] # OrderingKey[j]
<1>1. QueueInv /\ [Next]_vars => InOrder
  <2> SUFFICES ASSUME QueueInv, [Next]_vars, NEW j \in Jobs,
                      where[j] = "pending", where'[j] = "running",
                      NEW i \in earlier[j] \cap PendingIn(LaneOf[j])
               PROVE  OrderingKey[j] = NoKey \/ OrderingKey[i] # OrderingKey[j]
    OBVIOUS
  <2> USE DEF QueueInv, TypeOK
  <2>1. CASE Quiet
    BY <2>1 DEF Quiet
  <2>2. CASE \E w \in Workers, k \in Jobs : Starts(w, k)
    <3>1. PICK w \in Workers, k \in Jobs : Starts(w, k)
      BY <2>2
    <3>2. k = j
      BY <3>1 DEF Starts, Start
    <3>3. QED
      BY <3>1, <3>2 DEF Starts, Leads, PendingIn, Pending
  <2>3. CASE \E w \in Workers : Settles(w)
    BY <2>3 DEF Settles, Settle
  <2>4. CASE \E w \in Workers : Release(w)
    BY <2>4 DEF Release, jobVars
  <2>5. QED
    BY <2>1, <2>2, <2>3, <2>4, StepKinds
<1>2. QueueInv /\ [Next]_vars => [InOrder]_vars
  BY <1>1
<1>3. QED
  BY <1>2, QueueInvHolds, PTL DEF Spec, CausalOrder
=============================================================================
