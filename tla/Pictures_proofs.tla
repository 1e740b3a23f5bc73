---------------------------- MODULE Pictures_proofs ----------------------------
(***************************************************************************)
(* Theorems about what a picture is made from, asked for and sent with:      *)
(* capability requests with their attachments, handlers and jobs             *)
(* (CapabilityRequests), the pictures kept to be sent again (MediaLibrary),  *)
(* the verdict on an imported workflow (WorkflowInspection), the persona's   *)
(* photos and their consent (IdentityProfiles), the plan of a request        *)
(* (MediaPlanning) and the catalog's presets (MediaCatalog), for every       *)
(* number of requests, handlers, jobs, restarts, photos, edits and callers,  *)
(* every set of nodes and every catalog.                                     *)
(***************************************************************************)
EXTENDS CapabilityRequests, MediaPlanning, MediaCatalog, MediaLibrary, WorkflowInspection,
        WellFoundedInduction, FiniteSetTheorems, SequenceTheorems, TLAPS

-----------------------------------------------------------------------------
(* Requests, their attachments and their jobs.  The inductive invariant.    *)

\* A request that does not exist has nothing.
BlankInv ==
    \A r \in Requests : status[r] = None =>
        attachment[r] = NoAttachment /\ job[r] = NoJobs /\ replaces[r] = {}

\* Only jobs are worked on, and what waits for a confirmation is no image.
WorkInv ==
    \A r \in Requests :
        /\ \A n \in JobNumbers : work[r][n] # None => job[r][n] # None
        /\ status[r] = "pending_confirmation" => kind[r] # "image"
        /\ job[r] # NoJobs => r \in permitted

\* What a handler holds: a request that exists, and what it has read of it.
Holds(s) ==
    LET u == session[s] IN
    \/ u = Idle
    \/ /\ u.op \in {"approve", "deny", "cancel", "retry"}
       /\ u.of \in Requests /\ status[u.of] # None
       /\ u.seen \in (CASE u.op \in {"approve", "deny"} -> {"pending_confirmation"}
                        [] u.op = "cancel" -> {"pending_confirmation"} \cup Live
                        [] OTHER -> {"failed", "cancelled"})
    \/ /\ u.op = "cancel_job" /\ u.of \in Requests
       /\ u.seen \in JobNumbers /\ job[u.of][u.seen] # None

SessionInv == \A s \in Sessions : Holds(s)

\* Where handlers exclude each other, what one has read is still so.
StillSo(s) ==
    LET u == session[s] IN
    /\ u # Idle => \A t \in Sessions \ {s} : session[t] = Idle
    /\ u.op \in {"approve", "deny", "cancel"} /\ u.seen = "pending_confirmation" => status[u.of] = "pending_confirmation"
    /\ u.op = "retry" => status[u.of] \in {"failed", "cancelled"} /\ attachment[u.of].retry

\* Then what waits or was denied has no job, and nothing has two.
OneJob(r) ==
    /\ status[r] \in {None, "pending_confirmation", "denied"} => job[r] = NoJobs
    /\ \A m, n \in JobNumbers : job[r][m] # None /\ job[r][n] # None => m = n

\* A request that was retried shows it, and offers no further retry.
RetriedInv(r) ==
    /\ attachment[r].shown = "retried" => ~attachment[r].retry
    /\ \A o \in replaces[r] : attachment[o].shown = "retried" /\ status[o] \in {"failed", "cancelled"}
    /\ \A q \in Requests : replaces[q] \cap replaces[r] # {} => q = r

IsolatedInv ==
    isolated =>
        /\ \A s \in Sessions : StillSo(s)
        /\ \A r \in Requests : OneJob(r) /\ RetriedInv(r)

RequestsInv == TypeOK /\ BlankInv /\ WorkInv /\ SessionInv /\ IsolatedInv /\ AttachmentAgrees

-----------------------------------------------------------------------------
(* Rows.                                                                    *)

AttachmentType == [shown : {None, "queued", "running", "completed", "failed", "cancelled", "retried"},
                   retry : BOOLEAN]
JobType == [JobNumbers -> {None} \cup Live \cup Ended]
WorkType == [JobNumbers -> {None, "owed", "submitting", "waiting", "running"}]

LEMMA LegalMoves ==
    ASSUME NEW from \in Statuses, NEW to \in LegalTransitions[from]
    PROVE  \/ from = "pending_confirmation" /\ to \in {"queued", "denied", "cancelled"}
           \/ from = "queued" /\ to \in {"running", "failed", "cancelled"}
           \/ from = "running" /\ to \in {"completed", "failed", "cancelled"}
<1>1. LegalTransitions[from] =
          CASE from = "pending_confirmation" -> {"queued", "denied", "cancelled"}
            [] from = "queued" -> {"running", "failed", "cancelled"}
            [] from = "running" -> {"completed", "failed", "cancelled"}
            [] OTHER -> {}
  BY DEF LegalTransitions
<1> QED
  BY <1>1

LEMMA SyncedShows ==
    ASSUME NEW a \in AttachmentType, NEW s \in Statuses \ {None}
    PROVE  /\ Synced(a, s) \in AttachmentType
           /\ a = NoAttachment => Synced(a, s) = NoAttachment
           /\ a # NoAttachment =>
                /\ Synced(a, s).shown = Shown(s)
                /\ s \in {"failed", "cancelled"} => Synced(a, s).retry
                /\ s \in {"completed", "denied"} => ~Synced(a, s).retry
                /\ s \notin Ended => Synced(a, s).retry = a.retry
<1>1. CASE a = NoAttachment
  BY <1>1 DEF Synced
<1>2. CASE a # NoAttachment
  <2>1. Shown(s) \in {"queued", "running", "completed", "failed", "cancelled"}
    BY DEF Shown, Statuses, Live, Ended
  <2>2. Synced(a, s) = [shown |-> Shown(s),
                        retry |-> IF s \in {"failed", "cancelled"} THEN TRUE
                                  ELSE IF s \in Ended THEN FALSE ELSE a.retry]
    BY <1>2 DEF Synced
  <2>3. a.retry \in BOOLEAN
    BY DEF AttachmentType
  <2>4. (IF s \in {"failed", "cancelled"} THEN TRUE ELSE IF s \in Ended THEN FALSE ELSE a.retry) \in BOOLEAN
    BY <2>3
  <2>5. Synced(a, s).shown = Shown(s) /\ Synced(a, s).retry =
          (IF s \in {"failed", "cancelled"} THEN TRUE ELSE IF s \in Ended THEN FALSE ELSE a.retry)
    BY <2>2
  <2> QED
    BY <1>2, <2>1, <2>2, <2>4, <2>5 DEF AttachmentType, Ended
<1> QED
  BY <1>1, <1>2

\* The row of r is written from s, and its attachment follows.
Writes(r, s) ==
    /\ status' = [status EXCEPT ![r] = s]
    /\ attachment' = [attachment EXCEPT ![r] = Synced(@, s)]

LEMMA WritesShow ==
    ASSUME TypeOK, NEW r \in Requests, NEW s \in Statuses \ {None}, Writes(r, s)
    PROVE  /\ status' \in [Requests -> Statuses] /\ attachment' \in [Requests -> AttachmentType]
           /\ \A q \in Requests \ {r} : status'[q] = status[q] /\ attachment'[q] = attachment[q]
           /\ status'[r] = s
           /\ attachment[r] = NoAttachment => attachment'[r] = NoAttachment
           /\ attachment[r] # NoAttachment =>
                /\ attachment'[r].shown = Shown(s)
                /\ s \in {"failed", "cancelled"} => attachment'[r].retry
                /\ s \in {"completed", "denied"} => ~attachment'[r].retry
                /\ s \notin Ended => attachment'[r].retry = attachment[r].retry
<1>1. status \in [Requests -> Statuses] /\ attachment \in [Requests -> AttachmentType]
  BY DEF TypeOK, AttachmentType
<1>2. attachment'[r] = Synced(attachment[r], s) /\ attachment[r] \in AttachmentType
  BY <1>1 DEF Writes
<1>3. attachment'[r] \in AttachmentType
  BY <1>2, SyncedShows
<1>4. attachment' \in [Requests -> AttachmentType]
  BY <1>1, <1>2, <1>3 DEF Writes
<1>5. /\ status' \in [Requests -> Statuses] /\ status'[r] = s
      /\ \A q \in Requests \ {r} : status'[q] = status[q] /\ attachment'[q] = attachment[q]
  BY <1>1 DEF Writes
<1> QED
  BY <1>2, <1>4, <1>5, SyncedShows

-----------------------------------------------------------------------------
LEMMA RequestsStart == Init => RequestsInv
<1> SUFFICES ASSUME Init PROVE RequestsInv
  OBVIOUS
<1>1. TypeOK
  <2>1. isolated \in BOOLEAN
    BY DEF Init
  <2>2. attachment \in [Requests -> [shown : {None, "queued", "running", "completed",
                                             "failed", "cancelled", "retried"}, retry : BOOLEAN]]
    BY DEF Init, NoAttachment
  <2>3. /\ job \in [Requests -> [JobNumbers -> {None} \cup Live \cup Ended]]
        /\ work \in [Requests -> [JobNumbers -> {None, "owed", "submitting", "waiting", "running"}]]
    BY DEF Init, NoJobs
  <2>4. status \in [Requests -> Statuses] /\ replaces \in [Requests -> SUBSET Requests]
        /\ restarts \in 0..MaxRestarts
    BY CapabilityAssumption DEF Init, Statuses
  <2> QED
    BY <2>1, <2>2, <2>3, <2>4 DEF Init, TypeOK
<1>2. BlankInv /\ WorkInv
  BY DEF Init, BlankInv, WorkInv, NoJobs
<1>3. SessionInv /\ AttachmentAgrees
  BY DEF Init, SessionInv, Holds, AttachmentAgrees
<1>4. IsolatedInv
  <2>1. \A s \in Sessions : StillSo(s)
    BY DEF Init, StillSo, Idle
  <2>2. \A r \in Requests : OneJob(r) /\ RetriedInv(r)
    BY DEF Init, OneJob, RetriedInv, NoAttachment, NoJobs, None
  <2> QED
    BY <2>1, <2>2 DEF IsolatedInv
<1> QED
  BY <1>1, <1>2, <1>3, <1>4 DEF RequestsInv

\* Sessions that end, or go on as they were.
SessionsEnd == DOMAIN session' = Sessions /\ \A t \in Sessions : session'[t] \in {session[t], Idle}

\* A step of the n-th job of r, and of the row of r if it is told.
JobMove(r, n) ==
    /\ r \in Requests /\ n \in JobNumbers /\ job[r][n] # None
    /\ job' \in [Requests -> JobType] /\ work' \in [Requests -> WorkType] /\ job'[r][n] # None
    /\ \A q \in Requests, m \in JobNumbers :
          q # r \/ m # n => job'[q][m] = job[q][m] /\ work'[q][m] = work[q][m]
    /\ \/ UNCHANGED <<status, attachment>>
       \/ \E s \in LegalTransitions[status[r]] : Writes(r, s)
    /\ UNCHANGED <<origin, kind, plan, replaces, permitted, isolated, refused, restarts>>

LEMMA JobMoveKeeps ==
    ASSUME RequestsInv, NEW r, NEW n, JobMove(r, n), SessionsEnd
    PROVE  RequestsInv'
<1>1. /\ r \in Requests /\ n \in JobNumbers /\ job[r][n] # None /\ job'[r][n] # None /\ status[r] \in Statuses
      /\ \A q \in Requests, m \in JobNumbers :
           q # r \/ m # n => job'[q][m] = job[q][m] /\ work'[q][m] = work[q][m]
      /\ UNCHANGED <<origin, kind, plan, replaces, permitted, isolated, refused, restarts>>
      /\ job \in [Requests -> JobType] /\ work \in [Requests -> WorkType]
      /\ job' \in [Requests -> JobType] /\ work' \in [Requests -> WorkType]
      /\ status \in [Requests -> Statuses] /\ attachment \in [Requests -> AttachmentType]
  BY DEF JobMove, RequestsInv, TypeOK, JobType, WorkType, AttachmentType
<1>2. \A q \in Requests : job'[q] = NoJobs <=> job[q] = NoJobs
  <2>1. job[r] # NoJobs /\ job'[r] # NoJobs
    BY <1>1 DEF NoJobs
  <2>2. ASSUME NEW q \in Requests, q # r PROVE job'[q] = job[q]
    <3>1. job'[q] \in JobType /\ job[q] \in JobType /\ \A m \in JobNumbers : job'[q][m] = job[q][m]
      BY <1>1, <2>2
    <3> QED
      BY <3>1 DEF JobType
  <2> QED
    BY <2>1, <2>2
<1>3. status[r] # None /\ (isolated => status[r] \notin {"pending_confirmation", "denied"})
  <2>1. job[r] # NoJobs
    BY <1>1 DEF NoJobs
  <2> QED
    BY <1>1, <2>1 DEF RequestsInv, BlankInv, IsolatedInv, OneJob
<1>4. /\ status' \in [Requests -> Statuses] /\ attachment' \in [Requests -> AttachmentType]
      /\ \A q \in Requests \ {r} : status'[q] = status[q] /\ attachment'[q] = attachment[q]
      /\ \/ status'[r] = status[r] /\ attachment'[r] = attachment[r]
         \/ /\ \/ status[r] = "pending_confirmation" /\ status'[r] \in {"queued", "denied", "cancelled"}
               \/ status[r] = "queued" /\ status'[r] \in {"running", "failed", "cancelled"}
               \/ status[r] = "running" /\ status'[r] \in {"completed", "failed", "cancelled"}
            /\ attachment[r] = NoAttachment => attachment'[r] = NoAttachment
            /\ attachment[r] # NoAttachment =>
                 /\ attachment'[r].shown = Shown(status'[r])
                 /\ status'[r] \in {"failed", "cancelled"} => attachment'[r].retry
                 /\ status'[r] \in {"completed", "denied"} => ~attachment'[r].retry
                 /\ status'[r] \notin Ended => attachment'[r].retry = attachment[r].retry
  <2>1. CASE UNCHANGED <<status, attachment>>
    BY <1>1, <2>1
  <2>2. CASE \E s \in LegalTransitions[status[r]] : Writes(r, s)
    <3>1. PICK s \in LegalTransitions[status[r]] : Writes(r, s)
      BY <2>2
    <3>2. \/ status[r] = "pending_confirmation" /\ s \in {"queued", "denied", "cancelled"}
          \/ status[r] = "queued" /\ s \in {"running", "failed", "cancelled"}
          \/ status[r] = "running" /\ s \in {"completed", "failed", "cancelled"}
      BY <1>1, LegalMoves
    <3>3. s \in Statuses \ {None} /\ TypeOK
      BY <3>2 DEF Statuses, Live, Ended, None, RequestsInv
    <3> QED
      BY <1>1, <3>1, <3>2, <3>3, WritesShow
  <2> QED
    BY <2>1, <2>2 DEF JobMove
<1>5. TypeOK'
  BY <1>1, <1>4 DEF RequestsInv, TypeOK, SessionsEnd, JobType, WorkType, AttachmentType
<1>6. BlankInv'
  BY <1>1, <1>2, <1>3, <1>4 DEF RequestsInv, BlankInv, None
<1>7. WorkInv'
  BY <1>1, <1>2, <1>4 DEF RequestsInv, WorkInv
<1>8. SessionInv'
  <2>1. SUFFICES ASSUME NEW s \in Sessions PROVE Holds(s)'
    BY DEF SessionInv
  <2>2. CASE session'[s] = Idle
    BY <2>2 DEF Holds
  <2>3. CASE session'[s] = session[s]
    <3>1. Holds(s)
      BY DEF RequestsInv, SessionInv
    <3>2. \A q \in Requests, m \in JobNumbers : job[q][m] # None => job'[q][m] # None
      BY <1>1
    <3>3. \A q \in Requests : status[q] # None => status'[q] # None
      BY <1>4 DEF None
    <3> QED
      BY <2>3, <3>1, <3>2, <3>3 DEF Holds
  <2> QED
    BY <2>2, <2>3 DEF SessionsEnd
<1>9. IsolatedInv'
  <2> SUFFICES ASSUME isolated PROVE (\A s \in Sessions : StillSo(s)') /\ \A q \in Requests : OneJob(q)' /\ RetriedInv(q)'
    BY <1>1 DEF IsolatedInv
  <2>1. ASSUME NEW s \in Sessions PROVE StillSo(s)'
    <3>1. StillSo(s) /\ Holds(s) /\ \A t \in Sessions : session'[t] \in {session[t], Idle}
      BY DEF RequestsInv, IsolatedInv, SessionInv, SessionsEnd
    <3>2. CASE session'[s] = Idle
      BY <3>2 DEF StillSo, Idle
    <3>3. CASE session'[s] = session[s] /\ session[s] # Idle
      <4>1. \A t \in Sessions \ {s} : session'[t] = Idle
        BY <3>1, <3>3 DEF StillSo
      <4>2. session[s].of \in Requests
        BY <3>1, <3>3 DEF Holds
      <4> QED
        BY <1>3, <1>4, <3>1, <3>3, <4>1, <4>2 DEF StillSo
    <3> QED
      BY <3>1, <3>2, <3>3
  <2>2. ASSUME NEW q \in Requests PROVE OneJob(q)'
    <3>1. OneJob(q)
      BY DEF RequestsInv, IsolatedInv
    <3>2. ASSUME status'[q] \in {None, "pending_confirmation", "denied"} PROVE job'[q] = NoJobs
      BY <1>2, <1>3, <1>4, <3>1, <3>2 DEF OneJob, None
    <3>3. \A a \in JobNumbers : job'[q][a] # None => job[q][a] # None
      BY <1>1
    <3> QED
      BY <3>1, <3>2, <3>3 DEF OneJob
  <2>3. ASSUME NEW q \in Requests PROVE RetriedInv(q)'
    <3>1. RetriedInv(q) /\ RetriedInv(r) /\ replaces[q] \subseteq Requests
      BY <1>1 DEF RequestsInv, IsolatedInv, TypeOK
    <3>2. attachment'[q].shown = "retried" => ~attachment'[q].retry
      BY <1>1, <1>4, <3>1 DEF RetriedInv, Shown, NoAttachment, None
    <3>3. \A o \in replaces[q] : attachment'[o].shown = "retried" /\ status'[o] \in {"failed", "cancelled"}
      BY <1>4, <3>1 DEF RetriedInv
    <3> QED
      BY <1>1, <3>1, <3>2, <3>3 DEF RetriedInv
  <2> QED
    BY <2>1, <2>2, <2>3
<1>10. AttachmentAgrees'
  <2> DEFINE Agrees(q) ==
               LET a == attachment[q]  failed == status[q] \in {"failed", "cancelled"} IN
               a # NoAttachment =>
                   /\ \/ a.shown = Shown(status[q])
                      \/ (a.shown = "retried" /\ failed)
                      \/ (a.shown = "failed" /\ status[q] = "pending_confirmation" /\ restarts > 0)
                   /\ failed /\ a.shown # "retried" => a.retry
                   /\ a.retry => failed \/ (restarts > 0 /\ kind[q] # "image")
  <2>1. SUFFICES ASSUME isolated, NEW q \in Requests PROVE Agrees(q)'
    BY <1>1 DEF AttachmentAgrees
  <2>2. Agrees(q)
    BY <2>1 DEF RequestsInv, AttachmentAgrees
  <2>3. CASE q # r \/ (status'[r] = status[r] /\ attachment'[r] = attachment[r])
    BY <1>1, <1>4, <2>2, <2>3
  <2>4. CASE q = r /\ ~(status'[r] = status[r] /\ attachment'[r] = attachment[r])
    BY <1>1, <1>3, <1>4, <2>1, <2>2, <2>4 DEF Ended
  <2> QED
    BY <2>3, <2>4
<1> QED
  BY <1>5, <1>6, <1>7, <1>8, <1>9, <1>10 DEF RequestsInv

-----------------------------------------------------------------------------
(* Jobs.                                                                    *)

\* A matrix that is written in one place.
LEMMA EntryWrites ==
    ASSUME NEW V, NEW f \in [Requests -> [JobNumbers -> V]],
           NEW r \in Requests, NEW n \in JobNumbers, NEW x \in V
    PROVE  /\ [f EXCEPT ![r][n] = x] \in [Requests -> [JobNumbers -> V]]
           /\ [f EXCEPT ![r][n] = x][r][n] = x
           /\ \A q \in Requests, m \in JobNumbers :
                 q # r \/ m # n => [f EXCEPT ![r][n] = x][q][m] = f[q][m]
  OBVIOUS

RowMove(r) ==
    \/ UNCHANGED <<status, attachment>>
    \/ \E s \in LegalTransitions[status[r]] : Writes(r, s)

LEMMA FinishMoves ==
    ASSUME NEW r \in Requests, NEW s \in {"completed", "failed", "cancelled"}, Finish(r, s)
    PROVE  RowMove(r)
<1>1. CASE UNCHANGED <<status, attachment>>
  BY <1>1 DEF RowMove
<1>2. CASE Transition(r, s) /\ s # status[r]
  BY <1>2 DEF RowMove, Transition, Writes
<1> QED
  BY <1>1, <1>2 DEF Finish, Ended

LEMMA JobMoveOf ==
    ASSUME RequestsInv, NEW r \in Requests, NEW n \in JobNumbers, job[r][n] # None, RowMove(r),
           NEW x \in {"queued", "running", "failed", "completed", "cancelled"},
           NEW y \in {None, "submitting", "waiting", "running"},
           job' = job \/ job' = [job EXCEPT ![r][n] = x],
           work' = work \/ work' = [work EXCEPT ![r][n] = y],
           UNCHANGED <<origin, kind, plan, replaces, permitted, isolated, refused, restarts>>
    PROVE  JobMove(r, n)
<1>1. job \in [Requests -> JobType] /\ work \in [Requests -> WorkType]
  BY DEF RequestsInv, TypeOK, JobType, WorkType
<1>2. /\ job' \in [Requests -> JobType] /\ job'[r][n] # None
      /\ \A q \in Requests, m \in JobNumbers : q # r \/ m # n => job'[q][m] = job[q][m]
  <2>1. CASE job' = job
    BY <1>1, <2>1
  <2>2. CASE job' = [job EXCEPT ![r][n] = x]
    BY <1>1, <2>2, EntryWrites DEF JobType, Live, Ended, None
  <2> QED
    BY <2>1, <2>2
<1>3. /\ work' \in [Requests -> WorkType]
      /\ \A q \in Requests, m \in JobNumbers : q # r \/ m # n => work'[q][m] = work[q][m]
  <2>1. CASE work' = work
    BY <1>1, <2>1
  <2>2. CASE work' = [work EXCEPT ![r][n] = y]
    BY <1>1, <2>2, EntryWrites DEF WorkType
  <2> QED
    BY <2>1, <2>2
<1> QED
  BY <1>2, <1>3 DEF JobMove, RowMove

LEMMA JobStepMoves ==
    ASSUME RequestsInv, NEW r \in Requests, NEW n \in JobNumbers, JobStep(r, n) \/ SubmitFails(r, n) \/ AutomaticFails(r, n)
    PROVE  JobMove(r, n) /\ SessionsEnd
<1>1. DOMAIN session = Sessions /\ (work[r][n] # None => job[r][n] # None)
  BY DEF RequestsInv, TypeOK, WorkInv
<1>2. UNCHANGED <<origin, kind, plan, replaces, permitted, isolated, refused, restarts, session>>
  BY DEF JobStep, CheckQueued, Submit, SubmitFails, AutomaticFails, StartJob, EndJob, Abandon,
         requestVars, handlerVars, jobFrame
<1>3. job[r][n] # None
  BY <1>1 DEF JobStep, CheckQueued, Submit, SubmitFails, AutomaticFails, StartJob, EndJob, Abandon, None
<1>4. RowMove(r)
  <2>1. CASE CheckQueued(r, n) \/ Submit(r, n) \/ Abandon(r, n)
    BY <2>1 DEF CheckQueued, Submit, Abandon, requestVars, RowMove
  <2>2. CASE StartJob(r, n)
    BY <2>2 DEF StartJob, RowMove, Transition, Writes
  <2>3. CASE SubmitFails(r, n)
    BY <2>3, FinishMoves DEF SubmitFails, RowMove
  <2>5. CASE AutomaticFails(r, n)
    BY <2>5 DEF AutomaticFails, RowMove, Transition, Writes
  <2>4. CASE EndJob(r, n, "completed") \/ EndJob(r, n, "failed")
    BY <2>4, FinishMoves DEF EndJob
  <2> QED
    BY <2>1, <2>2, <2>3, <2>4, <2>5 DEF JobStep
<1>5. /\ job' = job \/ \E x \in {"running", "failed", "completed"} : job' = [job EXCEPT ![r][n] = x]
      /\ \E y \in {None, "submitting", "waiting", "running"} : work' = [work EXCEPT ![r][n] = y]
  BY DEF JobStep, CheckQueued, Submit, SubmitFails, AutomaticFails, StartJob, EndJob, Abandon, JobEnds
<1> QED
  BY <1>1, <1>2, <1>3, <1>4, <1>5, JobMoveOf DEF SessionsEnd

LEMMA CancelJobMoves ==
    ASSUME RequestsInv, NEW s \in Sessions, CancelJob(s)
    PROVE  JobMove(session[s].of, session[s].seen) /\ SessionsEnd
<1> DEFINE r == session[s].of
           n == session[s].seen
<1>1. r \in Requests /\ n \in JobNumbers /\ job[r][n] # None
  <2>1. Holds(s) /\ session[s].op = "cancel_job"
    BY DEF RequestsInv, SessionInv, CancelJob, CommitAs
  <2> QED
    BY <2>1 DEF Holds, Idle
<1>2. DOMAIN session = Sessions
  BY DEF RequestsInv, TypeOK
<1>3. SessionsEnd
  BY <1>2 DEF CancelJob, Return, SessionsEnd
<1> HIDE DEF r, n
<1>4. RowMove(r)
  BY <1>1, FinishMoves DEF CancelJob, RowMove, r, n
<1>6. job' = job \/ job' = [job EXCEPT ![r][n] = "cancelled"]
  BY DEF CancelJob, r, n
<1>7. UNCHANGED <<origin, kind, plan, replaces, permitted, isolated, refused, restarts, work>>
  BY DEF CancelJob, jobFrame
<1>8. JobMove(r, n)
  BY <1>1, <1>4, <1>6, <1>7, JobMoveOf DEF None
<1> QED
  BY <1>3, <1>8 DEF r, n

-----------------------------------------------------------------------------
(* Handlers.                                                                *)

\* A step of sessions alone.
LEMMA SessionsMove ==
    ASSUME RequestsInv, DOMAIN session' = Sessions, UNCHANGED <<requestVars, workVars, isolated, restarts>>,
           refused' \subseteq Requests, \A s \in Sessions : Holds(s)',
           isolated => \A s \in Sessions : StillSo(s)'
    PROVE  RequestsInv'
<1>1. TypeOK'
  BY DEF RequestsInv, TypeOK, requestVars, workVars
<1>2. BlankInv' /\ WorkInv'
  BY DEF RequestsInv, BlankInv, WorkInv, requestVars, workVars
<1>3. AttachmentAgrees'
  BY DEF RequestsInv, AttachmentAgrees, requestVars
<1>4. IsolatedInv'
  BY DEF RequestsInv, IsolatedInv, OneJob, RetriedInv, requestVars, workVars
<1>5. SessionInv'
  BY DEF SessionInv
<1> QED
  BY <1>1, <1>2, <1>3, <1>4, <1>5 DEF RequestsInv

LEMMA BeginKeeps ==
    ASSUME RequestsInv, NEW s \in Sessions, NEW r \in Requests, NEW op, Begin(s, op, r),
           \/ op \in {"approve", "deny"} /\ status[r] = "pending_confirmation"
           \/ op = "cancel" /\ status[r] \in {"pending_confirmation"} \cup Live
           \/ op = "retry" /\ status[r] \in {"failed", "cancelled"} /\ attachment[r].retry
    PROVE  RequestsInv'
<1>1. /\ DOMAIN session = Sessions /\ UNCHANGED <<requestVars, workVars, isolated, refused, restarts>>
      /\ session' = [session EXCEPT ![s] = [op |-> op, of |-> r, seen |-> status[r]]]
      /\ isolated => \A t \in Sessions : session[t] = Idle
      /\ refused \subseteq Requests
  BY DEF RequestsInv, TypeOK, Begin, MayRead
<1>2. /\ DOMAIN session' = Sessions /\ \A t \in Sessions \ {s} : session'[t] = session[t]
      /\ session'[s] = [op |-> op, of |-> r, seen |-> status[r]]
  BY <1>1
<1>3. UNCHANGED <<status, attachment, job>>
  BY <1>1 DEF requestVars, workVars
<1>4. ASSUME NEW t \in Sessions PROVE Holds(t)'
  <2>1. CASE t = s
    BY <1>2, <1>3, <2>1 DEF Holds, Live, None
  <2>2. CASE t # s
    BY <1>2, <1>3, <2>2 DEF RequestsInv, SessionInv, Holds
  <2> QED
    BY <2>1, <2>2
<1>5. ASSUME isolated, NEW t \in Sessions PROVE StillSo(t)'
  <2>1. CASE t = s
    BY <1>1, <1>2, <1>3, <1>5, <2>1 DEF StillSo
  <2>2. CASE t # s
    <3>1. session'[t] = Idle
      BY <1>1, <1>2, <1>5, <2>2
    <3> QED
      BY <3>1 DEF StillSo, Idle
  <2> QED
    BY <2>1, <2>2
<1> QED
  BY <1>1, <1>2, <1>4, <1>5, SessionsMove

LEMMA SessionReadKeeps ==
    ASSUME RequestsInv, NEW s \in Sessions, SessionRead(s)
    PROVE  RequestsInv'
<1>1. PICK r \in Requests :
          \/ ApproveRead(s, r) \/ ApproveRefused(s, r) \/ DenyRead(s, r)
          \/ CancelRead(s, r) \/ RetryRead(s, r)
  BY DEF SessionRead
<1>2. CASE ApproveRefused(s, r)
  <2>1. /\ DOMAIN session' = Sessions /\ refused' \subseteq Requests
        /\ UNCHANGED <<requestVars, workVars, session, isolated, restarts>>
    BY <1>2 DEF ApproveRefused, RequestsInv, TypeOK
  <2>2. UNCHANGED <<status, attachment, job, session>>
    BY <2>1 DEF requestVars, workVars
  <2>3. \A t \in Sessions : Holds(t)'
    BY <2>2 DEF RequestsInv, SessionInv, Holds
  <2>4. isolated => \A t \in Sessions : StillSo(t)'
    BY <2>2 DEF RequestsInv, IsolatedInv, StillSo
  <2> QED
    BY <2>1, <2>3, <2>4, SessionsMove
<1>3. CASE ApproveRead(s, r) \/ DenyRead(s, r)
  BY <1>3, BeginKeeps DEF ApproveRead, DenyRead
<1>4. CASE CancelRead(s, r) \/ RetryRead(s, r)
  BY <1>4, BeginKeeps DEF CancelRead, RetryRead
<1> QED
  BY <1>1, <1>2, <1>3, <1>4

\* A job is added to r, or none.
Adds(r) ==
    /\ job' \in [Requests -> JobType] /\ work' \in [Requests -> WorkType]
    /\ \A q \in Requests \ {r} : job'[q] = job[q] /\ work'[q] = work[q]
    /\ \/ UNCHANGED workVars
       \/ \E n \in JobNumbers :
            /\ job[r][n] = None /\ job'[r][n] # None
            /\ \A m \in JobNumbers \ {n} : job'[r][m] = job[r][m] /\ work'[r][m] = work[r][m]

LEMMA AddJobAdds ==
    ASSUME RequestsInv, NEW r \in Requests, NEW how \in {"owed", "submitting"},
           AddJob(r, how) \/ UNCHANGED workVars
    PROVE  Adds(r)
<1>1. job \in [Requests -> JobType] /\ work \in [Requests -> WorkType]
  BY DEF RequestsInv, TypeOK, JobType, WorkType
<1>2. CASE UNCHANGED workVars
  BY <1>1, <1>2 DEF Adds, workVars
<1>3. CASE AddJob(r, how)
  <2>1. PICK n \in JobNumbers :
            /\ job[r][n] = None
            /\ job' = [job EXCEPT ![r][n] = "queued"] /\ work' = [work EXCEPT ![r][n] = how]
    BY <1>3 DEF AddJob
  <2>2. /\ job' \in [Requests -> JobType] /\ job'[r][n] = "queued"
        /\ \A q \in Requests \ {r} : job'[q] = job[q]
        /\ \A m \in JobNumbers \ {n} : job'[r][m] = job[r][m]
    BY <1>1, <2>1 DEF JobType, Live
  <2>3. /\ work' \in [Requests -> WorkType]
        /\ \A q \in Requests \ {r} : work'[q] = work[q]
        /\ \A m \in JobNumbers \ {n} : work'[r][m] = work[r][m]
    BY <1>1, <2>1 DEF WorkType
  <2> QED
    BY <2>1, <2>2, <2>3 DEF Adds, None
<1> QED
  BY <1>2, <1>3

\* What is added is seen in no other request, and what is worked on is a job.
LEMMA AddsShow ==
    ASSUME RequestsInv, NEW r \in Requests, Adds(r)
    PROVE  /\ \A q \in Requests, n \in JobNumbers :
                 /\ work'[q][n] # None => job'[q][n] # None
                 /\ job[q][n] # None => job'[q][n] # None
           /\ \A q \in Requests : job'[q] # NoJobs => job[q] # NoJobs \/ (q = r /\ ~UNCHANGED workVars)
           /\ job[r] = NoJobs => \A m, n \in JobNumbers : job'[r][m] # None /\ job'[r][n] # None => m = n
<1>1. \A q \in Requests, n \in JobNumbers : work[q][n] # None => job[q][n] # None
  BY DEF RequestsInv, WorkInv
<1>2. CASE UNCHANGED workVars
  BY <1>1, <1>2 DEF workVars, NoJobs
<1>3. CASE ~UNCHANGED workVars
  <2>1. PICK n \in JobNumbers :
            /\ job[r][n] = None /\ job'[r][n] # None
            /\ \A m \in JobNumbers \ {n} : job'[r][m] = job[r][m] /\ work'[r][m] = work[r][m]
    BY <1>3 DEF Adds
  <2>2. \A q \in Requests \ {r} : job'[q] = job[q] /\ work'[q] = work[q]
    BY DEF Adds
  <2>3. job[r] = NoJobs => \A m \in JobNumbers : job[r][m] = None
    BY DEF NoJobs
  <2> QED
    BY <1>1, <1>3, <2>1, <2>2, <2>3
<1> QED
  BY <1>2, <1>3

\* The commit of a handler that read a request as pending.
LEMMA PendingCommit ==
    ASSUME RequestsInv, NEW s \in Sessions, session[s].op \in {"approve", "deny", "cancel"},
           session[s].seen = "pending_confirmation",
           NEW to \in {"queued", "denied", "cancelled"}, Writes(session[s].of, to),
           Adds(session[s].of), to # "queued" => UNCHANGED workVars,
           permitted' \subseteq Requests, permitted \subseteq permitted',
           UNCHANGED workVars \/ session[s].of \in permitted',
           Return(s), UNCHANGED <<origin, kind, plan, replaces, isolated, refused, restarts>>
    PROVE  RequestsInv'
<1> DEFINE r == session[s].of
<1>1. r \in Requests /\ status[r] # None /\ session[s] # Idle
  <2>1. Holds(s)
    BY DEF RequestsInv, SessionInv
  <2> QED
    BY <2>1 DEF Holds, Idle
<1>2. /\ UNCHANGED <<origin, kind, plan, replaces, isolated, refused, restarts>>
      /\ DOMAIN session' = Sessions /\ session'[s] = Idle /\ \A t \in Sessions \ {s} : session'[t] = session[t]
      /\ r = session[s].of
  BY DEF RequestsInv, TypeOK, Return
<1>3. isolated => status[r] = "pending_confirmation" /\ \A t \in Sessions : session'[t] = Idle
  <2>1. isolated => StillSo(s)
    BY DEF RequestsInv, IsolatedInv
  <2> QED
    BY <1>1, <1>2, <2>1 DEF StillSo
<1> HIDE DEF r
<1>4. Writes(r, to) /\ Adds(r) /\ (UNCHANGED workVars \/ r \in permitted')
  BY DEF r
<1>5. to \in Statuses \ {None} /\ TypeOK
  BY DEF Statuses, Live, Ended, None, RequestsInv
<1>6. /\ status' \in [Requests -> Statuses] /\ attachment' \in [Requests -> AttachmentType]
      /\ \A q \in Requests \ {r} : status'[q] = status[q] /\ attachment'[q] = attachment[q]
      /\ status'[r] = to
      /\ attachment[r] = NoAttachment => attachment'[r] = NoAttachment
      /\ attachment[r] # NoAttachment =>
           /\ attachment'[r].shown = Shown(to)
           /\ to \in {"failed", "cancelled"} => attachment'[r].retry
           /\ to \in {"completed", "denied"} => ~attachment'[r].retry
           /\ to \notin Ended => attachment'[r].retry = attachment[r].retry
  BY <1>1, <1>4, <1>5, WritesShow
<1>7. /\ \A q \in Requests, n \in JobNumbers :
            /\ work'[q][n] # None => job'[q][n] # None
            /\ job[q][n] # None => job'[q][n] # None
      /\ \A q \in Requests : job'[q] # NoJobs => job[q] # NoJobs \/ (q = r /\ ~UNCHANGED workVars)
      /\ job[r] = NoJobs => \A m, n \in JobNumbers : job'[r][m] # None /\ job'[r][n] # None => m = n
  BY <1>1, <1>4, AddsShow
<1>8. TypeOK'
  BY <1>2, <1>4, <1>6 DEF RequestsInv, TypeOK, Adds, JobType, WorkType, AttachmentType
<1>9. BlankInv'
  BY <1>1, <1>2, <1>6, <1>7 DEF RequestsInv, BlankInv, None
<1>10. WorkInv'
  BY <1>2, <1>4, <1>6, <1>7 DEF RequestsInv, WorkInv
<1>11. SessionInv'
  <2>1. SUFFICES ASSUME NEW t \in Sessions PROVE Holds(t)'
    BY DEF SessionInv
  <2>2. CASE t = s
    BY <1>2, <2>2 DEF Holds
  <2>3. CASE t # s
    <3>1. Holds(t) /\ session'[t] = session[t]
      BY <1>2, <2>3 DEF RequestsInv, SessionInv
    <3>2. \A q \in Requests : status[q] # None => status'[q] # None
      BY <1>6 DEF None
    <3> QED
      BY <1>7, <3>1, <3>2 DEF Holds
  <2> QED
    BY <2>2, <2>3
<1>12. IsolatedInv'
  <2> SUFFICES ASSUME isolated PROVE (\A t \in Sessions : StillSo(t)') /\ \A q \in Requests : OneJob(q)' /\ RetriedInv(q)'
    BY <1>2 DEF IsolatedInv
  <2>1. \A t \in Sessions : StillSo(t)'
    BY <1>3 DEF StillSo, Idle
  <2>2. ASSUME NEW q \in Requests PROVE OneJob(q)'
    <3>1. OneJob(q) /\ OneJob(r)
      BY <1>1 DEF RequestsInv, IsolatedInv
    <3>2. job[r] = NoJobs /\ (q # r => job'[q] = job[q])
      BY <1>3, <1>4, <3>1 DEF OneJob, Adds
    <3>3. status'[q] \in {None, "pending_confirmation", "denied"} => job'[q] = NoJobs
      BY <1>6, <1>7, <3>1, <3>2 DEF OneJob, None
    <3> QED
      BY <1>7, <3>1, <3>2, <3>3 DEF OneJob
  <2>3. ASSUME NEW q \in Requests PROVE RetriedInv(q)'
    <3>1. RetriedInv(q) /\ replaces[q] \subseteq Requests
      BY <1>5 DEF RequestsInv, IsolatedInv, TypeOK
    <3>2. attachment'[q].shown = "retried" => ~attachment'[q].retry
      BY <1>1, <1>6, <3>1 DEF RetriedInv, Shown, NoAttachment, None
    <3>3. \A o \in replaces[q] : attachment'[o].shown = "retried" /\ status'[o] \in {"failed", "cancelled"}
      BY <1>3, <1>6, <3>1 DEF RetriedInv
    <3> QED
      BY <1>2, <3>1, <3>2, <3>3 DEF RetriedInv
  <2> QED
    BY <2>1, <2>2, <2>3
<1>13. AttachmentAgrees'
  <2> DEFINE Agrees(q) ==
               LET a == attachment[q]  failed == status[q] \in {"failed", "cancelled"} IN
               a # NoAttachment =>
                   /\ \/ a.shown = Shown(status[q])
                      \/ (a.shown = "retried" /\ failed)
                      \/ (a.shown = "failed" /\ status[q] = "pending_confirmation" /\ restarts > 0)
                   /\ failed /\ a.shown # "retried" => a.retry
                   /\ a.retry => failed \/ (restarts > 0 /\ kind[q] # "image")
  <2>1. SUFFICES ASSUME isolated, NEW q \in Requests PROVE Agrees(q)'
    BY <1>2 DEF AttachmentAgrees
  <2>2. Agrees(q)
    BY <1>2, <2>1 DEF RequestsInv, AttachmentAgrees
  <2>3. CASE q # r
    BY <1>2, <1>6, <2>2, <2>3
  <2>4. CASE q = r
    BY <1>2, <1>3, <1>6, <2>1, <2>2, <2>4 DEF Ended
  <2> QED
    BY <2>3, <2>4
<1> QED
  BY <1>8, <1>9, <1>10, <1>11, <1>12, <1>13 DEF RequestsInv

\* The commit of a cancellation of what is live: the job is to be cancelled.
LEMMA CancelLiveKeeps ==
    ASSUME RequestsInv, NEW s \in Sessions, CommitAs(s, "cancel"), session[s].seen \in Live,
           NEW n \in JobNumbers, job[session[s].of][n] # None,
           session' = [session EXCEPT ![s] = [op |-> "cancel_job", of |-> session[s].of, seen |-> n]],
           UNCHANGED <<requestVars, workVars, isolated, refused, restarts>>
    PROVE  RequestsInv'
<1>1. Holds(s) /\ session[s].op = "cancel" /\ session[s] # Idle
  BY DEF RequestsInv, SessionInv, CommitAs, Idle
<1>2. /\ session[s].of \in Requests /\ DOMAIN session' = Sessions
      /\ \A t \in Sessions \ {s} : session'[t] = session[t]
      /\ session'[s] = [op |-> "cancel_job", of |-> session[s].of, seen |-> n]
      /\ refused' \subseteq Requests /\ UNCHANGED <<status, attachment, job>>
  BY <1>1 DEF Holds, RequestsInv, TypeOK, requestVars, workVars
<1>3. ASSUME NEW t \in Sessions PROVE Holds(t)'
  <2>1. CASE t = s
    BY <1>2, <2>1 DEF Holds
  <2>2. CASE t # s
    BY <1>2, <2>2 DEF RequestsInv, SessionInv, Holds
  <2> QED
    BY <2>1, <2>2
<1>4. ASSUME isolated, NEW t \in Sessions PROVE StillSo(t)'
  <2>1. \A u \in Sessions \ {s} : session[u] = Idle
    BY <1>1, <1>4 DEF RequestsInv, IsolatedInv, StillSo
  <2>2. CASE t = s
    BY <1>2, <2>1, <2>2 DEF StillSo
  <2>3. CASE t # s
    BY <1>2, <2>1, <2>3 DEF StillSo, Idle
  <2> QED
    BY <2>2, <2>3
<1> QED
  BY <1>2, <1>3, <1>4, SessionsMove

LEMMA CommitsKeep ==
    ASSUME RequestsInv, NEW s \in Sessions, ApproveCommit(s) \/ DenyCommit(s) \/ CancelCommit(s)
    PROVE  RequestsInv'
<1> DEFINE r == session[s].of
<1>1. permitted \subseteq Requests /\ Holds(s)
  BY DEF RequestsInv, TypeOK, SessionInv
<1>2. CASE ApproveCommit(s)
  <2>1. session[s].op = "approve" /\ session[s].seen = "pending_confirmation" /\ r \in Requests
    BY <1>1, <1>2 DEF Holds, ApproveCommit, CommitAs, Idle
  <2>2. Writes(r, "queued") /\ AddJob(r, "submitting") /\ permitted' = permitted \cup {r} /\ Return(s)
        /\ UNCHANGED <<origin, kind, plan, replaces, isolated, refused, restarts>>
    BY <1>2 DEF ApproveCommit, Write, Writes
  <2> HIDE DEF r
  <2>3. Adds(r)
    BY <2>1, <2>2, AddJobAdds
  <2> QED
    BY <1>1, <2>1, <2>2, <2>3, PendingCommit DEF r
<1>3. CASE DenyCommit(s)
  <2>1. session[s].op = "deny" /\ session[s].seen = "pending_confirmation" /\ r \in Requests
    BY <1>1, <1>3 DEF Holds, DenyCommit, CommitAs, Idle
  <2>2. Writes(r, "denied") /\ UNCHANGED workVars /\ permitted' = permitted /\ Return(s)
        /\ UNCHANGED <<origin, kind, plan, replaces, isolated, refused, restarts>>
    BY <1>3 DEF DenyCommit, Write, Writes
  <2> HIDE DEF r
  <2>3. Adds(r)
    BY <2>1, <2>2, AddJobAdds
  <2> QED
    BY <1>1, <2>1, <2>2, <2>3, PendingCommit DEF r
<1>4. CASE CancelCommit(s)
  <2>1. session[s].op = "cancel" /\ r \in Requests
    BY <1>1, <1>4 DEF Holds, CancelCommit, CommitAs, Idle
  <2>2. UNCHANGED <<origin, kind, plan, replaces, permitted, workVars, isolated, refused, restarts>>
    BY <1>4 DEF CancelCommit
  <2>3. CASE session[s].seen = "pending_confirmation" /\ Write(r, "pending_confirmation", "cancelled") /\ Return(s)
    <3>1. Writes(r, "cancelled")
      BY <2>3 DEF Write, Writes
    <3> HIDE DEF r
    <3>2. Adds(r)
      BY <2>1, <2>2, AddJobAdds
    <3> QED
      BY <1>1, <2>1, <2>2, <2>3, <3>1, <3>2, PendingCommit DEF r
  <2>4. CASE /\ session[s].seen \in Live /\ UNCHANGED <<status, attachment>>
             /\ \E n \in JobNumbers :
                   /\ job[r][n] # None
                   /\ session' = [session EXCEPT ![s] = [op |-> "cancel_job", of |-> r, seen |-> n]]
    <3>1. UNCHANGED <<requestVars, workVars, isolated, refused, restarts>>
      BY <2>2, <2>4 DEF requestVars
    <3> QED
      BY <2>1, <2>4, <3>1, CancelLiveKeeps DEF CommitAs
  <2> QED
    BY <1>4, <2>3, <2>4 DEF CancelCommit
<1> QED
  BY <1>2, <1>3, <1>4

-----------------------------------------------------------------------------
(* Creation.                                                                *)

\* A new request r, and what it replaces is marked.
Creates(r, O) ==
    /\ status[r] = None /\ O \in SUBSET Requests
    /\ \E s \in {"queued", "failed", "pending_confirmation"} :
         /\ status' = [status EXCEPT ![r] = s]
         /\ s # "queued" => UNCHANGED workVars
         /\ attachment'[r] \in {NoAttachment, [shown |-> Shown(s), retry |-> s = "failed"]}
    /\ attachment' \in [Requests -> AttachmentType]
    /\ \A q \in Requests \ {r} : attachment'[q] = IF q \in O THEN Retried ELSE attachment[q]
    /\ kind' \in [Requests -> {None, "image", "edit", "video"}]
    /\ origin' \in [Requests -> {None, "planned", "explicit", "edit", "retry", "background"}]
    /\ plan' \in [Requests -> {None, "ready", "blocked"}]
    /\ status'[r] = "pending_confirmation" => kind'[r] # "image"
    /\ \A q \in Requests \ {r} : kind'[q] = kind[q]
    /\ Adds(r)
    /\ permitted' \subseteq Requests /\ permitted \subseteq permitted'
    /\ UNCHANGED workVars \/ r \in permitted'
    /\ replaces' = [replaces EXCEPT ![r] = O]
    /\ DOMAIN session' = Sessions /\ \A t \in Sessions : session'[t] \in {session[t], Idle}
    /\ UNCHANGED <<isolated, refused, restarts>>

LEMMA CreatesKeeps ==
    ASSUME RequestsInv, NEW r \in Requests, NEW O, Creates(r, O),
           \/ O = {}
           \/ /\ isolated => \A t \in Sessions : session'[t] = Idle
              /\ isolated => \A o \in O : attachment[o].retry /\ status[o] \in {"failed", "cancelled"}
              /\ \A o \in O : status[o] # None
    PROVE  RequestsInv'
<1>1. /\ status \in [Requests -> Statuses] /\ attachment \in [Requests -> AttachmentType] /\ TypeOK
      /\ replaces \in [Requests -> SUBSET Requests] /\ restarts \in 0..MaxRestarts
  BY DEF RequestsInv, TypeOK, AttachmentType
<1>2. PICK s \in {"queued", "failed", "pending_confirmation"} :
         /\ status' = [status EXCEPT ![r] = s]
         /\ s # "queued" => UNCHANGED workVars
         /\ attachment'[r] \in {NoAttachment, [shown |-> Shown(s), retry |-> s = "failed"]}
  BY DEF Creates
<1>3. /\ status[r] = None /\ O \in SUBSET Requests
      /\ attachment' \in [Requests -> AttachmentType]
      /\ \A q \in Requests \ {r} : attachment'[q] = IF q \in O THEN Retried ELSE attachment[q]
      /\ status'[r] = "pending_confirmation" => kind'[r] # "image"
      /\ \A q \in Requests \ {r} : kind'[q] = kind[q]
      /\ Adds(r)
      /\ permitted' \subseteq Requests /\ permitted \subseteq permitted'
      /\ UNCHANGED workVars \/ r \in permitted'
      /\ replaces' = [replaces EXCEPT ![r] = O]
      /\ DOMAIN session' = Sessions /\ \A t \in Sessions : session'[t] \in {session[t], Idle}
      /\ UNCHANGED <<isolated, refused, restarts>>
  BY DEF Creates
<1>4. /\ status' \in [Requests -> Statuses] /\ status'[r] = s
      /\ \A q \in Requests \ {r} : status'[q] = status[q] /\ replaces'[q] = replaces[q]
      /\ replaces' \in [Requests -> SUBSET Requests] /\ replaces'[r] = O
  BY <1>1, <1>2, <1>3 DEF Statuses, Live, Ended
<1>5. /\ \A q \in Requests, n \in JobNumbers :
            /\ work'[q][n] # None => job'[q][n] # None
            /\ job[q][n] # None => job'[q][n] # None
      /\ \A q \in Requests : job'[q] # NoJobs => job[q] # NoJobs \/ (q = r /\ ~UNCHANGED workVars)
      /\ job[r] = NoJobs => \A m, n \in JobNumbers : job'[r][m] # None /\ job'[r][n] # None => m = n
  BY <1>3, AddsShow
<1>6. attachment[r] = NoAttachment /\ job[r] = NoJobs /\ replaces[r] = {}
  BY <1>3 DEF RequestsInv, BlankInv
<1>7. TypeOK'
  <2>1. isolated' \in BOOLEAN
    BY <1>3 DEF RequestsInv, TypeOK
  <2>2. restarts' \in 0..MaxRestarts /\ refused' \subseteq Requests
    BY <1>3 DEF RequestsInv, TypeOK
  <2>3. /\ kind' \in [Requests -> {None, "image", "edit", "video"}]
        /\ origin' \in [Requests -> {None, "planned", "explicit", "edit", "retry", "background"}]
        /\ plan' \in [Requests -> {None, "ready", "blocked"}]
    BY DEF Creates
  <2> QED
    BY <1>3, <1>4, <2>1, <2>2, <2>3 DEF TypeOK, Adds, JobType, WorkType, AttachmentType
<1>8. BlankInv'
  <2> SUFFICES ASSUME NEW q \in Requests, status'[q] = None
               PROVE  attachment'[q] = NoAttachment /\ job'[q] = NoJobs /\ replaces'[q] = {}
    BY DEF BlankInv
  <2>1. q # r
    BY <1>2, <1>4 DEF None
  <2>2. status[q] = None /\ attachment[q] = NoAttachment /\ job[q] = NoJobs /\ replaces[q] = {}
    BY <1>4, <2>1 DEF RequestsInv, BlankInv
  <2>3. q \notin O
    BY <2>2
  <2> QED
    BY <1>3, <1>4, <1>5, <2>1, <2>2, <2>3
<1>9. WorkInv'
  BY <1>3, <1>4, <1>5 DEF RequestsInv, WorkInv
<1>10. SessionInv'
  <2>1. SUFFICES ASSUME NEW t \in Sessions PROVE Holds(t)'
    BY DEF SessionInv
  <2>2. CASE session'[t] = Idle
    BY <2>2 DEF Holds
  <2>3. CASE session'[t] = session[t]
    <3>1. Holds(t)
      BY DEF RequestsInv, SessionInv
    <3>2. \A q \in Requests : status[q] # None => status'[q] # None
      BY <1>3, <1>4
    <3> QED
      BY <1>5, <2>3, <3>1, <3>2 DEF Holds
  <2> QED
    BY <1>3, <2>2, <2>3
<1>11. IsolatedInv'
  <2> SUFFICES ASSUME isolated PROVE (\A t \in Sessions : StillSo(t)') /\ \A q \in Requests : OneJob(q)' /\ RetriedInv(q)'
    BY <1>3 DEF IsolatedInv
  <2>1. ASSUME NEW t \in Sessions PROVE StillSo(t)'
    <3>1. StillSo(t) /\ Holds(t)
      BY DEF RequestsInv, IsolatedInv, SessionInv
    <3>2. CASE session'[t] = Idle
      BY <3>2 DEF StillSo, Idle
    <3>3. CASE session'[t] # Idle
      <4>1. O = {} /\ session'[t] = session[t]
        BY <1>3, <3>3
      <4>2. \A u \in Sessions \ {t} : session'[u] = Idle
        BY <1>3, <3>1, <3>3, <4>1 DEF StillSo
      <4>3. session[t].of \in Requests /\ (session[t].op # "cancel_job" => status[session[t].of] # None)
        BY <3>1, <3>3, <4>1 DEF Holds
      <4>4. session[t].op # "cancel_job" =>
              status'[session[t].of] = status[session[t].of] /\ attachment'[session[t].of] = attachment[session[t].of]
        BY <1>3, <1>4, <4>1, <4>3
      <4> QED
        BY <3>1, <4>1, <4>2, <4>4 DEF StillSo
    <3> QED
      BY <3>2, <3>3
  <2>2. ASSUME NEW q \in Requests PROVE OneJob(q)'
    <3>1. OneJob(q)
      BY DEF RequestsInv, IsolatedInv
    <3>2. CASE q = r
      BY <1>2, <1>4, <1>5, <1>6, <3>2 DEF OneJob, None
    <3>3. CASE q # r
      BY <1>3, <1>4, <3>1, <3>3 DEF OneJob, Adds
    <3> QED
      BY <3>2, <3>3
  <2>3. ASSUME NEW o \in O
        PROVE  /\ o # r /\ status'[o] = status[o] /\ status[o] \in {"failed", "cancelled"}
               /\ attachment[o].retry /\ attachment'[o] = Retried
    BY <1>3, <1>4 DEF None
  <2>4. ASSUME NEW q \in Requests, replaces'[q] \cap replaces'[r] # {} PROVE q = r
    <3>1. SUFFICES ASSUME q # r PROVE FALSE
      OBVIOUS
    <3>2. PICK o \in O : o \in replaces[q]
      BY <1>4, <2>4, <3>1
    <3>3. RetriedInv(q) /\ RetriedInv(o)
      BY <1>3 DEF RequestsInv, IsolatedInv
    <3> QED
      BY <2>3, <3>2, <3>3 DEF RetriedInv
  <2>5. ASSUME NEW q \in Requests PROVE RetriedInv(q)'
    <3>1. RetriedInv(q) /\ replaces[q] \subseteq Requests
      BY <1>1 DEF RequestsInv, IsolatedInv
    <3>2. attachment'[q].shown = "retried" => ~attachment'[q].retry
      <4>1. CASE q = r
        BY <1>2, <4>1 DEF Shown, NoAttachment, None
      <4>2. CASE q # r
        BY <1>3, <3>1, <4>2 DEF RetriedInv, Retried
      <4> QED
        BY <4>1, <4>2
    <3>3. ASSUME NEW o \in replaces'[q] PROVE attachment'[o].shown = "retried" /\ status'[o] \in {"failed", "cancelled"}
      <4>1. CASE q = r
        BY <1>4, <2>3, <4>1 DEF Retried
      <4>2. CASE q # r
        <5>1. o \in replaces[q] /\ o \in Requests /\ attachment[o].shown = "retried" /\ status[o] \in {"failed", "cancelled"}
          BY <1>4, <3>1, <4>2 DEF RetriedInv
        <5>2. o # r
          BY <1>3, <5>1 DEF None
        <5> QED
          BY <1>3, <1>4, <5>1, <5>2 DEF Retried
      <4> QED
        BY <4>1, <4>2
    <3>4. ASSUME NEW p \in Requests, replaces'[p] \cap replaces'[q] # {} PROVE p = q
      <4>1. CASE p = r \/ q = r
        BY <2>4, <3>4, <4>1
      <4>2. CASE p # r /\ q # r
        BY <1>4, <3>1, <3>4, <4>2 DEF RetriedInv
      <4> QED
        BY <4>1, <4>2
    <3> QED
      BY <3>2, <3>3, <3>4 DEF RetriedInv
  <2> QED
    BY <2>1, <2>2, <2>5
<1>12. AttachmentAgrees'
  <2> DEFINE Agrees(q) ==
               LET a == attachment[q]  failed == status[q] \in {"failed", "cancelled"} IN
               a # NoAttachment =>
                   /\ \/ a.shown = Shown(status[q])
                      \/ (a.shown = "retried" /\ failed)
                      \/ (a.shown = "failed" /\ status[q] = "pending_confirmation" /\ restarts > 0)
                   /\ failed /\ a.shown # "retried" => a.retry
                   /\ a.retry => failed \/ (restarts > 0 /\ kind[q] # "image")
  <2>1. SUFFICES ASSUME isolated, NEW q \in Requests PROVE Agrees(q)'
    BY <1>3 DEF AttachmentAgrees
  <2>2. Agrees(q)
    BY <1>3, <2>1 DEF RequestsInv, AttachmentAgrees
  <2>3. CASE q = r
    <3>1. CASE attachment'[r] = NoAttachment
      BY <2>3, <3>1
    <3>2. CASE attachment'[r] = [shown |-> Shown(s), retry |-> s = "failed"]
      <4>1. attachment'[r].shown = Shown(status'[r]) /\ attachment'[r].retry = (s = "failed")
        BY <1>4, <3>2
      <4>2. s # "cancelled"
        BY <1>2
      <4> QED
        BY <1>4, <2>3, <4>1, <4>2
    <3> QED
      BY <1>2, <3>1, <3>2
  <2>4. CASE q # r /\ q \notin O
    BY <1>3, <1>4, <2>2, <2>4
  <2>5. CASE q # r /\ q \in O
    <3>1. status'[q] \in {"failed", "cancelled"} /\ attachment'[q] = Retried
      BY <1>3, <1>4, <2>1, <2>5
    <3> QED
      BY <3>1 DEF Retried
  <2> QED
    BY <2>3, <2>4, <2>5
<1> QED
  BY <1>7, <1>8, <1>9, <1>10, <1>11, <1>12 DEF RequestsInv

\* The ways in which a request is made.
LEMMA NewRequestsKeep ==
    ASSUME RequestsInv, NEW r \in Requests, PreparePlanned(r) \/ StartExplicit(r) \/ StartEdit(r)
    PROVE  RequestsInv'
<1>1. /\ attachment \in [Requests -> AttachmentType] /\ permitted \subseteq Requests /\ DOMAIN session = Sessions
      /\ replaces \in [Requests -> SUBSET Requests]
      /\ kind \in [Requests -> {None, "image", "edit", "video"}]
      /\ origin \in [Requests -> {None, "planned", "explicit", "edit", "retry", "background"}]
      /\ plan \in [Requests -> {None, "ready", "blocked"}]
      /\ status \in [Requests -> Statuses]
  BY DEF RequestsInv, TypeOK, AttachmentType
<1>2. status[r] = None /\ attachment[r] = NoAttachment /\ replaces[r] = {}
  BY DEF RequestsInv, BlankInv, PreparePlanned, Enqueue, AddRequest, StartExplicit, StartEdit
<1>3. PICK s \in {"queued", "failed", "pending_confirmation"}, by \in {"planned", "explicit", "edit"},
           k \in {"image", "edit", "video"}, p \in {"ready", "blocked"}, how \in {"owed", "submitting"} :
        /\ AddRequest(r, s, by, k, p)
        /\ s = "pending_confirmation" => k # "image"
        /\ \/ UNCHANGED workVars
           \/ AddJob(r, how) /\ s = "queued" /\ permitted' = permitted \cup {r}
        /\ permitted' \in {permitted, permitted \cup {r}}
        /\ attachment' = attachment \/ Attach(r, s)
        /\ UNCHANGED <<replaces, handlerVars, restarts>>
  <2>1. ASSUME PreparePlanned(r)
        PROVE  \E s \in {"queued", "failed", "pending_confirmation"}, k \in {"image", "edit", "video"},
                  p \in {"ready", "blocked"} :
                 /\ AddRequest(r, s, "planned", k, p)
                 /\ s = "pending_confirmation" => k # "image"
                 /\ \/ UNCHANGED workVars
                    \/ AddJob(r, "owed") /\ s = "queued" /\ permitted' = permitted \cup {r}
                 /\ permitted' \in {permitted, permitted \cup {r}}
                 /\ Attach(r, s)
                 /\ UNCHANGED <<replaces, handlerVars, restarts>>
    <3>1. \A s, k, p : AddRequest(r, s, "planned", k, p) => status'[r] = s
      BY <1>1 DEF AddRequest
    <3>2. Attach(r, status'[r]) /\ UNCHANGED <<replaces, handlerVars, restarts>>
      BY <2>1 DEF PreparePlanned
    <3>3. CASE Enqueue(r, "planned", "image", "owed") /\ permitted' = permitted \cup {r}
      BY <3>1, <3>2, <3>3 DEF Enqueue
    <3>4. CASE \E k \in {"image", "edit", "video"}, p \in {"ready", "blocked"} :
                  /\ k # "image" /\ AddRequest(r, "pending_confirmation", "planned", k, p)
                  /\ UNCHANGED <<workVars, permitted>>
      <4>1. PICK k \in {"image", "edit", "video"}, p \in {"ready", "blocked"} :
                  /\ k # "image" /\ AddRequest(r, "pending_confirmation", "planned", k, p)
                  /\ UNCHANGED <<workVars, permitted>>
        BY <3>4
      <4> QED
        BY <3>1, <3>2, <4>1
    <3> QED
      BY <2>1, <3>3, <3>4 DEF PreparePlanned, AutoExecutes
  <2>2. ASSUME StartExplicit(r)
        PROVE  \E k \in {"image", "edit", "video"} :
                 /\ AddRequest(r, "queued", "explicit", k, "ready")
                 /\ AddJob(r, "submitting") /\ permitted' = permitted \cup {r}
                 /\ attachment' = attachment \/ Attach(r, "queued")
                 /\ UNCHANGED <<replaces, handlerVars, restarts>>
    BY <2>2 DEF StartExplicit
  <2>3. ASSUME StartEdit(r)
        PROVE  /\ AddRequest(r, "queued", "edit", "edit", "ready")
               /\ AddJob(r, "submitting") /\ permitted' = permitted \cup {r}
               /\ attachment' = attachment
               /\ UNCHANGED <<replaces, handlerVars, restarts>>
    BY <2>3 DEF StartEdit
  <2>4. CASE PreparePlanned(r)
    BY <2>1, <2>4
  <2>5. CASE StartExplicit(r)
    BY <2>2, <2>5
  <2>6. CASE StartEdit(r)
    BY <2>3, <2>6
  <2> QED
    BY <2>4, <2>5, <2>6
<1>4. Adds(r)
  BY <1>3, AddJobAdds
<1>5. /\ attachment'[r] \in {NoAttachment, [shown |-> Shown(s), retry |-> s = "failed"]}
      /\ attachment' \in [Requests -> AttachmentType]
      /\ \A q \in Requests \ {r} : attachment'[q] = attachment[q]
  <2>1. CASE attachment' = attachment
    BY <1>1, <1>2, <2>1
  <2>2. CASE Attach(r, s)
    <3>1. [shown |-> Shown(s), retry |-> s = "failed"] \in AttachmentType
      <4>1. (s = "failed") \in BOOLEAN
        OBVIOUS
      <4>2. Shown(s) \in {"queued", "failed"}
        BY <1>3 DEF Shown
      <4> QED
        BY <4>1, <4>2 DEF AttachmentType
    <3> QED
      BY <1>1, <2>2, <3>1 DEF Attach
  <2> QED
    BY <1>3, <2>1, <2>2
<1>6. /\ status' = [status EXCEPT ![r] = s] /\ kind' = [kind EXCEPT ![r] = k]
      /\ origin' = [origin EXCEPT ![r] = by] /\ plan' = [plan EXCEPT ![r] = p]
  BY <1>3 DEF AddRequest
<1>7. Creates(r, {})
  <2>1. \A t \in Sessions : session'[t] \in {session[t], Idle}
    BY <1>3 DEF handlerVars
  <2>2. replaces' = [replaces EXCEPT ![r] = {}]
    BY <1>1, <1>2, <1>3
  <2>3. DOMAIN session' = Sessions /\ UNCHANGED <<isolated, refused, restarts>>
    BY <1>1, <1>3 DEF handlerVars
  <2>4. permitted' \subseteq Requests /\ permitted \subseteq permitted' /\ (UNCHANGED workVars \/ r \in permitted')
    BY <1>1, <1>3
  <2>5. /\ kind' \in [Requests -> {None, "image", "edit", "video"}]
        /\ origin' \in [Requests -> {None, "planned", "explicit", "edit", "retry", "background"}]
        /\ plan' \in [Requests -> {None, "ready", "blocked"}]
        /\ status'[r] = s /\ kind'[r] = k /\ \A q \in Requests \ {r} : kind'[q] = kind[q]
    BY <1>1, <1>6
  <2> QED
    BY <1>2, <1>3, <1>4, <1>5, <1>6, <2>1, <2>2, <2>3, <2>4, <2>5 DEF Creates
<1> QED
  BY <1>7, CreatesKeeps

LEMMA RetryKeeps ==
    ASSUME RequestsInv, NEW s \in Sessions, NEW r \in Requests, RetryCommit(s, r)
    PROVE  RequestsInv'
<1> DEFINE o == session[s].of
<1>1. /\ attachment \in [Requests -> AttachmentType] /\ permitted \subseteq Requests /\ DOMAIN session = Sessions
      /\ replaces \in [Requests -> SUBSET Requests]
      /\ kind \in [Requests -> {None, "image", "edit", "video"}]
      /\ origin \in [Requests -> {None, "planned", "explicit", "edit", "retry", "background"}]
      /\ plan \in [Requests -> {None, "ready", "blocked"}]
      /\ status \in [Requests -> Statuses]
  BY DEF RequestsInv, TypeOK, AttachmentType
<1>2. Holds(s) /\ session[s].op = "retry" /\ o \in Requests /\ status[o] # None /\ session[s] # Idle
  BY DEF RequestsInv, SessionInv, Holds, RetryCommit, CommitAs, Idle
<1>3. isolated => /\ status[o] \in {"failed", "cancelled"} /\ attachment[o].retry
                  /\ \A t \in Sessions \ {s} : session[t] = Idle
  BY <1>2 DEF RequestsInv, IsolatedInv, StillSo
<1>4. /\ session' = [session EXCEPT ![s] = Idle] /\ permitted' = permitted \cup {r}
      /\ replaces' = [replaces EXCEPT ![r] = {o}] /\ UNCHANGED <<isolated, refused, restarts>>
      /\ attachment' = [attachment EXCEPT ![o] = Retried,
                                         ![r] = [shown |-> status'[r], retry |-> status'[r] = "failed"]]
      /\ Enqueue(r, "retry", "image", "submitting")
  BY DEF RetryCommit, Return
<1> HIDE DEF o
<1>5. PICK to \in {"queued", "failed"}, p \in {"ready", "blocked"} :
        /\ AddRequest(r, to, "retry", "image", p)
        /\ UNCHANGED workVars \/ (AddJob(r, "submitting") /\ to = "queued")
  BY <1>4 DEF Enqueue
<1>6. /\ status[r] = None
      /\ status' = [status EXCEPT ![r] = to] /\ kind' = [kind EXCEPT ![r] = "image"]
      /\ origin' = [origin EXCEPT ![r] = "retry"] /\ plan' = [plan EXCEPT ![r] = p]
  BY <1>5 DEF AddRequest
<1>7. Adds(r)
  BY <1>5, AddJobAdds
<1>8. /\ attachment'[r] = [shown |-> Shown(to), retry |-> to = "failed"]
      /\ attachment' \in [Requests -> AttachmentType]
      /\ \A q \in Requests \ {r} : attachment'[q] = IF q \in {o} THEN Retried ELSE attachment[q]
  <2>1. Retried \in AttachmentType
    BY DEF Retried, AttachmentType
  <2>2. status'[r] = to /\ Shown(to) = to
    BY <1>1, <1>6 DEF Shown
  <2>3. [shown |-> to, retry |-> to = "failed"] \in AttachmentType
    <3>1. (to = "failed") \in BOOLEAN
      OBVIOUS
    <3> QED
      BY <3>1 DEF AttachmentType
  <2> QED
    BY <1>1, <1>2, <1>4, <2>1, <2>2, <2>3
<1>9. Creates(r, {o})
  <2>1. DOMAIN session' = Sessions /\ \A t \in Sessions : session'[t] \in {session[t], Idle}
    BY <1>1, <1>4
  <2>2. /\ kind' \in [Requests -> {None, "image", "edit", "video"}]
        /\ origin' \in [Requests -> {None, "planned", "explicit", "edit", "retry", "background"}]
        /\ plan' \in [Requests -> {None, "ready", "blocked"}]
        /\ status'[r] = to /\ \A q \in Requests \ {r} : kind'[q] = kind[q]
    BY <1>1, <1>6
  <2>3. permitted' \subseteq Requests /\ permitted \subseteq permitted' /\ r \in permitted'
    BY <1>1, <1>4
  <2> QED
    BY <1>2, <1>4, <1>5, <1>6, <1>7, <1>8, <2>1, <2>2, <2>3 DEF Creates
<1>10. isolated => \A t \in Sessions : session'[t] = Idle
  BY <1>1, <1>3, <1>4
<1> QED
  BY <1>2, <1>3, <1>9, <1>10, CreatesKeeps

-----------------------------------------------------------------------------
LEMMA ReplanKeeps ==
    ASSUME RequestsInv, NEW r \in Requests, Replan(r)
    PROVE  RequestsInv'
<1>1. /\ status[r] = "pending_confirmation" /\ plan' \in [Requests -> {None, "ready", "blocked"}]
      /\ UNCHANGED <<status, origin, kind, attachment, replaces, permitted,
                     job, work, session, isolated, refused, restarts>>
  BY DEF Replan, RequestsInv, TypeOK, workVars, handlerVars
<1>2. TypeOK'
  BY <1>1 DEF RequestsInv, TypeOK
<1>3. BlankInv' /\ WorkInv' /\ AttachmentAgrees'
  BY <1>1 DEF RequestsInv, BlankInv, WorkInv, AttachmentAgrees
<1>4. SessionInv'
  BY <1>1 DEF RequestsInv, SessionInv, Holds
<1>5. IsolatedInv'
  BY <1>1 DEF RequestsInv, IsolatedInv, StillSo, OneJob, RetriedInv
<1> QED
  BY <1>2, <1>3, <1>4, <1>5 DEF RequestsInv

LEMMA RestartKeeps ==
    ASSUME RequestsInv, Restart
    PROVE  RequestsInv'
<1>1. PICK made \in SUBSET {r \in Requests : Recoverable(r)} :
        /\ status' = [r \in Requests |->
                        IF r \in made THEN "completed"
                        ELSE IF status[r] \in Live THEN "failed" ELSE status[r]]
        /\ attachment' = [r \in Requests |->
                            IF r \in made THEN [shown |-> "completed", retry |-> FALSE]
                            ELSE SweptShown(attachment[r])]
        /\ job' = [r \in Requests |-> [n \in JobNumbers |->
                    IF job[r][n] \notin Live THEN job[r][n]
                    ELSE IF r \in made THEN "completed" ELSE "failed"]]
  BY DEF Restart
<1>2. /\ UNCHANGED <<origin, kind, plan, replaces, permitted, isolated, refused>>
      /\ work' = [r \in Requests |-> NoJobs] /\ session' = [s \in Sessions |-> Idle]
      /\ restarts' \in 0..MaxRestarts /\ restarts' > 0
  BY CapabilityAssumption DEF Restart, RequestsInv, TypeOK
<1>3. /\ status \in [Requests -> Statuses] /\ attachment \in [Requests -> AttachmentType]
      /\ job \in [Requests -> JobType] /\ restarts \in 0..MaxRestarts
  BY DEF RequestsInv, TypeOK, AttachmentType, JobType
<1>4. ASSUME NEW r \in Requests
      PROVE  /\ status'[r] \in Statuses /\ attachment'[r] \in AttachmentType /\ job'[r] \in JobType
             /\ r \in made => status[r] = "running" /\ status'[r] = "completed"
                              /\ attachment'[r] = [shown |-> "completed", retry |-> FALSE]
             /\ r \notin made => /\ status'[r] = IF status[r] \in Live THEN "failed" ELSE status[r]
                                 /\ attachment'[r] = SweptShown(attachment[r])
             /\ \A n \in JobNumbers : job'[r][n] # None => job[r][n] # None
             /\ job'[r] # NoJobs => job[r] # NoJobs
             /\ \A n \in JobNumbers : job[r][n] # None => job'[r][n] # None
  <2>1. SweptShown(attachment[r]) \in AttachmentType
    BY <1>3 DEF SweptShown, AttachmentType
  <2>2. [shown |-> "completed", retry |-> FALSE] \in AttachmentType
    BY DEF AttachmentType
  <2>3. /\ status'[r] = IF r \in made THEN "completed" ELSE IF status[r] \in Live THEN "failed" ELSE status[r]
        /\ attachment'[r] = IF r \in made THEN [shown |-> "completed", retry |-> FALSE] ELSE SweptShown(attachment[r])
        /\ r \in made => status[r] = "running"
    BY <1>1 DEF Recoverable
  <2>4. /\ job[r] \in JobType
        /\ job'[r] = [n \in JobNumbers |-> IF job[r][n] \notin Live THEN job[r][n]
                                           ELSE IF r \in made THEN "completed" ELSE "failed"]
    BY <1>1, <1>3
  <2>5. /\ job'[r] \in JobType
        /\ \A n \in JobNumbers : job'[r][n] # None <=> job[r][n] # None
    BY <2>4 DEF JobType, Live, Ended, None
  <2>6. job'[r] # NoJobs => job[r] # NoJobs
    BY <2>4, <2>5 DEF NoJobs, Live, None
  <2>7. status'[r] \in Statuses
    BY <1>3, <2>3 DEF Statuses, Ended
  <2> QED
    BY <2>1, <2>2, <2>3, <2>5, <2>6, <2>7
<1>5. TypeOK'
  <2>1. /\ status' \in [Requests -> Statuses] /\ attachment' \in [Requests -> AttachmentType]
        /\ job' \in [Requests -> JobType]
    BY <1>1, <1>4
  <2>2. /\ work' \in [Requests -> [JobNumbers -> {None, "owed", "submitting", "waiting", "running"}]]
        /\ DOMAIN session' = Sessions
    BY <1>2 DEF NoJobs
  <2> QED
    BY <1>2, <2>1, <2>2 DEF RequestsInv, TypeOK, AttachmentType, JobType
<1>6. BlankInv'
  <2> SUFFICES ASSUME NEW r \in Requests, status'[r] = None
               PROVE  attachment'[r] = NoAttachment /\ job'[r] = NoJobs /\ replaces'[r] = {}
    BY DEF BlankInv
  <2>1. status[r] = None /\ r \notin made
    BY <1>4 DEF None, Live
  <2>2. attachment[r] = NoAttachment /\ job[r] = NoJobs /\ replaces[r] = {}
    BY <2>1 DEF RequestsInv, BlankInv
  <2>3. attachment'[r] = NoAttachment
    BY <1>4, <2>1, <2>2 DEF SweptShown, NoAttachment, Live, None
  <2> QED
    BY <1>2, <1>4, <2>2, <2>3
<1>7. WorkInv'
  <2> SUFFICES ASSUME NEW r \in Requests
               PROVE  /\ \A n \in JobNumbers : work'[r][n] # None => job'[r][n] # None
                      /\ status'[r] = "pending_confirmation" => kind'[r] # "image"
                      /\ job'[r] # NoJobs => r \in permitted'
    BY DEF WorkInv
  <2>1. \A n \in JobNumbers : work'[r][n] = None
    BY <1>2 DEF NoJobs
  <2> QED
    BY <1>2, <1>4, <2>1 DEF RequestsInv, WorkInv
<1>8. SessionInv'
  BY <1>2 DEF SessionInv, Holds
<1>9. IsolatedInv'
  <2> SUFFICES ASSUME isolated PROVE (\A s \in Sessions : StillSo(s)') /\ \A r \in Requests : OneJob(r)' /\ RetriedInv(r)'
    BY <1>2 DEF IsolatedInv
  <2>1. \A s \in Sessions : StillSo(s)'
    BY <1>2 DEF StillSo, Idle
  <2>2. ASSUME NEW r \in Requests PROVE OneJob(r)'
    <3>1. OneJob(r)
      BY DEF RequestsInv, IsolatedInv
    <3>2. status'[r] \in {None, "pending_confirmation", "denied"} => status[r] = status'[r]
      BY <1>4 DEF None
    <3> QED
      BY <1>4, <3>1, <3>2 DEF OneJob
  <2>3. ASSUME NEW r \in Requests PROVE RetriedInv(r)'
    <3>1. RetriedInv(r) /\ replaces[r] \subseteq Requests
      BY DEF RequestsInv, IsolatedInv, TypeOK
    <3>2. attachment'[r].shown = "retried" => ~attachment'[r].retry
      BY <1>4, <3>1 DEF RetriedInv, SweptShown
    <3>3. \A o \in replaces[r] : attachment'[o].shown = "retried" /\ status'[o] \in {"failed", "cancelled"}
      BY <1>4, <3>1 DEF RetriedInv, SweptShown, Live
    <3> QED
      BY <1>2, <3>1, <3>2, <3>3 DEF RetriedInv
  <2> QED
    BY <2>1, <2>2, <2>3
<1>10. AttachmentAgrees'
  <2> DEFINE Agrees(q) ==
               LET a == attachment[q]  failed == status[q] \in {"failed", "cancelled"} IN
               a # NoAttachment =>
                   /\ \/ a.shown = Shown(status[q])
                      \/ (a.shown = "retried" /\ failed)
                      \/ (a.shown = "failed" /\ status[q] = "pending_confirmation" /\ restarts > 0)
                   /\ failed /\ a.shown # "retried" => a.retry
                   /\ a.retry => failed \/ (restarts > 0 /\ kind[q] # "image")
  <2>1. SUFFICES ASSUME isolated, NEW q \in Requests PROVE Agrees(q)'
    BY <1>2 DEF AttachmentAgrees
  <2>2. Agrees(q)
    BY <1>2, <2>1 DEF RequestsInv, AttachmentAgrees
  <2>3. status[q] = "pending_confirmation" => kind[q] # "image"
    BY DEF RequestsInv, WorkInv
  <2>4. CASE q \in made
    BY <1>4, <2>4 DEF Shown
  <2>5. CASE q \notin made /\ attachment[q] = NoAttachment
    BY <1>4, <2>5 DEF SweptShown, NoAttachment, Live, None
  <2>6. CASE q \notin made /\ attachment[q] # NoAttachment /\ attachment[q].shown \in Live
    <3>1. attachment'[q] = [shown |-> "failed", retry |-> TRUE]
      BY <1>4, <2>6 DEF SweptShown
    <3>2. status[q] \in {"pending_confirmation"} \cup Live
      BY <1>3, <2>2, <2>6 DEF Shown, Live, Statuses, Ended, None
    <3>3. status'[q] = "failed" \/ (status'[q] = "pending_confirmation" /\ status[q] = status'[q])
      BY <1>4, <2>6, <3>2
    <3> QED
      BY <1>2, <2>3, <3>1, <3>3 DEF Shown
  <2>7. CASE q \notin made /\ attachment[q] # NoAttachment /\ attachment[q].shown \notin Live
    <3>1. attachment'[q] = attachment[q]
      BY <1>4, <2>7 DEF SweptShown
    <3>2. status[q] \notin Live
      BY <2>2, <2>7 DEF Shown, Live
    <3>3. status'[q] = status[q]
      BY <1>4, <2>7, <3>2
    <3> QED
      BY <1>2, <2>2, <3>1, <3>3
  <2> QED
    BY <2>4, <2>5, <2>6, <2>7
<1> QED
  BY <1>5, <1>6, <1>7, <1>8, <1>9, <1>10 DEF RequestsInv

-----------------------------------------------------------------------------
LEMMA RequestsStep == RequestsInv /\ [Next]_vars => RequestsInv'
<1> SUFFICES ASSUME RequestsInv, [Next]_vars PROVE RequestsInv'
  OBVIOUS
<1>1. ASSUME NEW r \in Requests, PreparePlanned(r) \/ StartExplicit(r) \/ StartEdit(r) PROVE RequestsInv'
  BY <1>1, NewRequestsKeep
<1>2. ASSUME NEW r \in Requests, Replan(r) PROVE RequestsInv'
  BY <1>2, ReplanKeeps
<1>3. ASSUME NEW s \in Sessions, SessionRead(s) PROVE RequestsInv'
  BY <1>3, SessionReadKeeps
<1>4. ASSUME NEW s \in Sessions, SessionStep(s) PROVE RequestsInv'
  <2>1. CASE ApproveCommit(s) \/ DenyCommit(s) \/ CancelCommit(s)
    BY <2>1, CommitsKeep
  <2>2. CASE CancelJob(s)
    BY <2>2, CancelJobMoves, JobMoveKeeps
  <2>3. CASE \E r \in Requests : RetryCommit(s, r)
    BY <2>3, RetryKeeps
  <2> QED
    BY <1>4, <2>1, <2>2, <2>3 DEF SessionStep
<1>5. ASSUME NEW r \in Requests, NEW n \in JobNumbers, JobStep(r, n) \/ SubmitFails(r, n) \/ AutomaticFails(r, n) PROVE RequestsInv'
  BY <1>5, JobStepMoves, JobMoveKeeps
<1>6. CASE Restart
  BY <1>6, RestartKeeps
<1>7. CASE UNCHANGED vars
  <2>1. UNCHANGED <<requestVars, workVars, isolated, restarts>> /\ UNCHANGED <<session, refused, status, attachment, job>>
    BY <1>7 DEF vars, handlerVars, requestVars, workVars
  <2>2. \A t \in Sessions : Holds(t)'
    BY <2>1 DEF RequestsInv, SessionInv, Holds
  <2>3. isolated => \A t \in Sessions : StillSo(t)'
    BY <2>1 DEF RequestsInv, IsolatedInv, StillSo
  <2> QED
    BY <2>1, <2>2, <2>3, SessionsMove DEF RequestsInv, TypeOK
<1> QED
  BY <1>1, <1>2, <1>3, <1>4, <1>5, <1>6, <1>7 DEF Next

LEMMA RequestsAlways == Spec => []RequestsInv
<1> QED
  BY RequestsStart, RequestsStep, PTL DEF Spec

\* Whatever requests, handlers, jobs and restarts there are: no picture is made
\* that no user and no automatic plan permitted; and where units of work of
\* handlers exclude each other, what a chat shows of a request is what became of
\* it, and nothing is made that was denied.
\* (approve, deny, cancel, retry, transition_capability, initialize_database)
THEOREM RequestsAreHonoured == Spec => []RequestsInvariant
<1>1. RequestsInv => RequestsInvariant
  <2> SUFFICES ASSUME RequestsInv, NEW r \in Requests, job[r] # NoJobs
               PROVE  r \in permitted /\ (isolated => status[r] # "denied")
    BY DEF RequestsInvariant, RequestsInv, MadeWithPermission
  <2> QED
    BY DEF RequestsInv, WorkInv, IsolatedInv, OneJob
<1> QED
  BY <1>1, RequestsAlways, PTL

\* Then a failed picture is replaced by one further request at most and a request
\* has one job at most, however often a retry or an approval is repeated.
\* (retry, approve, cancel)
THEOREM PicturesAreReplacedOnce == Spec => []ReplacedOnce
<1>1. RequestsInv => ReplacedOnce
  <2> SUFFICES ASSUME RequestsInv, isolated, NEW r \in Requests
               PROVE  Cardinality({n \in JobNumbers : job[r][n] # None}) <= 1
    BY DEF ReplacedOnce, RequestsInv, IsolatedInv, RetriedInv
  <2> DEFINE S == {n \in JobNumbers : job[r][n] # None}
  <2>1. \A m, n \in S : m = n
    BY DEF RequestsInv, IsolatedInv, OneJob
  <2>2. CASE S = {}
    BY <2>2, FS_EmptySet
  <2>3. CASE S # {}
    <3>1. PICK n \in S : TRUE
      BY <2>3
    <3>2. S = {n}
      BY <2>1, <3>1
    <3> HIDE DEF S
    <3>3. Cardinality(S) = 1
      BY <3>2, FS_Singleton
    <3> QED
      BY <3>3 DEF S
  <2> QED
    BY <2>2, <2>3
<1> QED
  BY <1>1, RequestsAlways, PTL

-----------------------------------------------------------------------------
(* The library.  The inductive invariant.                                   *)

IsSingle(e) == entry[e].picture \notin SetFrames
Sent(e) == \E c \in Chats : \E i \in 1..Len(sentTo[c]) : sentTo[c][i] = e

Found(e) == \E i \in 1..Len(serving.found) : serving.found[i] = e

\* What is found is still to be sent: a picture outside a set stands alone, its
\* entry was not sent, or not noted as sent, and was not made in the chat that asks.
StillToSend(e) ==
    entry[e].state # "none" /\ (Sent(e) => e \in unmarked) /\ entry[e].madeIn # serving.chat

ServingInv ==
    /\ serving \in [chat : Chats \cup {"none"}, found : Seq(Entries)]
    /\ serving.found # <<>> => serving.chat \in Chats
    /\ \A e \in Entries : Found(e) =>
          entry[e].state # "none" /\ (IsSingle(e) => Len(serving.found) = 1 /\ StillToSend(e))

\* What was sent is not ready again, whatever became of its entry, and a picture
\* in the library has one row.
SentInv ==
    \A e \in Entries : Sent(e) =>
        /\ entry[e].state # "none"
        /\ IsSingle(e) => entry[e].state # "ready" \/ e \in unmarked
RowsInv ==
    /\ \A e \in Entries : entry[e].frame => entry[e].picture \in SetFrames
    /\ \A e, f \in Entries : Kept(e) /\ Kept(f) /\ entry[e].picture = entry[f].picture => e = f

SentOnce(e) ==
    \A c \in Chats : \A i \in 1..Len(sentTo[c]) : sentTo[c][i] = e =>
        /\ entry[e].madeIn # c
        /\ e \in unmarked \/ \A d \in Chats : \A j \in 1..Len(sentTo[d]) : sentTo[d][j] = e => c = d /\ i = j
EntriesSentOnce == \A e \in Entries : IsSingle(e) => SentOnce(e)

LibraryInv ==
    LibraryTypeOK /\ ReadyWithinLimit /\ ServingInv /\ SentInv /\ RowsInv /\ EntriesSentOnce

-----------------------------------------------------------------------------
(* The newest entries are no more than the limit.                           *)

Below(R, x, y) == <<x, y>> \in R

LEMMA LessThanIsWellFounded ==
    \E R : IsWellFoundedOn(R, Nat) /\ \A x, y \in Nat : Below(R, x, y) <=> x < y
<1>1. \A x, y \in Nat : <<x, y>> \in OpToRel(<, Nat) <=> x < y
  BY DEF OpToRel
<1> QED
  BY <1>1, NatLessThanWellFounded, Zenon DEF Below

LEMMA WellFoundedHasLeast ==
    ASSUME NEW R, NEW S, IsWellFoundedOn(R, S), NEW T, T \subseteq S, T # {}
    PROVE  \E x \in T : \A y \in T : ~Below(R, y, x)
BY WFMin, Zenon DEF Below

LEMMA HasLeast ==
    ASSUME NEW T, T \subseteq Nat, T # {}
    PROVE  \E x \in T : \A y \in T : x <= y
<1>1. PICK R : IsWellFoundedOn(R, Nat) /\ \A x, y \in Nat : Below(R, x, y) <=> x < y
  BY LessThanIsWellFounded
<1>2. \E x \in T : \A y \in T : ~Below(R, y, x)
  BY <1>1, WellFoundedHasLeast
<1> QED
  BY <1>1, <1>2

LEMMA NewestIsBounded ==
    ASSUME NEW given
    PROVE  Cardinality(Newest(given)) <= EntryLimit /\ IsFiniteSet(Newest(given))
<1> DEFINE K == Newest(given)
           After(p) == {q \in Entries : q > p /\ InUse(given, q)}
<1>1. K \subseteq Entries /\ K \subseteq Nat /\ IsFiniteSet(Entries) /\ EntryLimit \in Nat \ {0}
  BY LibraryAssumption DEF Newest
<1>2. \A p \in K : Cardinality(After(p)) < EntryLimit
  BY DEF Newest
<1>3. \A p \in K : \A q \in K : p < q => q \in After(p)
  BY LibraryAssumption DEF Newest
<1>4. \A p \in Entries : After(p) \subseteq Entries
  OBVIOUS
<1> HIDE DEF K, After
<1>5. IsFiniteSet(K)
  BY <1>1, FS_Subset
<1>6. CASE K = {}
  BY <1>1, <1>5, <1>6, FS_EmptySet DEF K
<1>7. CASE K # {}
  <2>1. PICK p \in K : \A q \in K : p <= q
    BY <1>1, <1>7, HasLeast
  <2>2. K \ {p} \subseteq After(p)
    BY <1>1, <1>3, <2>1
  <2>3. IsFiniteSet(After(p))
    BY <1>1, <1>4, <2>1, FS_Subset
  <2>4. IsFiniteSet(K \ {p}) /\ Cardinality(K \ {p}) <= Cardinality(After(p))
    BY <2>2, <2>3, FS_Subset
  <2>5. Cardinality(K \ {p}) = Cardinality(K) - 1
    BY <1>5, <2>1, FS_RemoveElement
  <2>6. Cardinality(K) \in Nat /\ Cardinality(After(p)) \in Nat
    BY <1>5, <2>3, FS_CardinalityType
  <2>7. Cardinality(K) <= EntryLimit
    BY <1>1, <1>2, <2>1, <2>4, <2>5, <2>6
  <2> QED
    BY <1>5, <2>7 DEF K
<1> QED
  BY <1>6, <1>7

\* Fewer ready entries are within the limit, too.
LEMMA FewerReady ==
    ASSUME NEW S, IsFiniteSet(S), Cardinality(S) <= EntryLimit,
           NEW given, {e \in Entries : given[e].state = "ready"} \subseteq S
    PROVE  Cardinality({e \in Entries : given[e].state = "ready"}) <= EntryLimit
<1> DEFINE R == {e \in Entries : given[e].state = "ready"}
<1>1. R \subseteq S
  OBVIOUS
<1> HIDE DEF R
<1>2. IsFiniteSet(R) /\ Cardinality(R) <= Cardinality(S)
  BY <1>1, FS_Subset
<1>3. Cardinality(R) \in Nat /\ Cardinality(S) \in Nat /\ EntryLimit \in Nat
  BY <1>2, FS_CardinalityType, LibraryAssumption
<1>4. Cardinality(R) <= EntryLimit
  BY <1>2, <1>3
<1> QED
  BY <1>4 DEF R

LEMMA ReadyIsFinite == IsFiniteSet({e \in Entries : entry[e].state = "ready"})
<1> DEFINE R == {e \in Entries : entry[e].state = "ready"}
<1>1. R \subseteq Entries
  OBVIOUS
<1> HIDE DEF R
<1>2. IsFiniteSet(R)
  BY <1>1, FS_Subset, LibraryAssumption
<1> QED
  BY <1>2 DEF R

-----------------------------------------------------------------------------
EntryRows ==
    [state : {"none", "ready", "served", "retired", "removed"}, picture : Pictures \cup {0},
     frame : BOOLEAN, madeIn : Chats \cup {"none"}, lastServed : Chats \cup {"none"}]

LEMMA LibraryStarts == LibraryInit => LibraryInv
<1> SUFFICES ASSUME LibraryInit PROVE LibraryInv
  OBVIOUS
<1>1. LibraryTypeOK
  BY DEF LibraryInit, LibraryTypeOK, NoRow
<1>2. ReadyWithinLimit
  <2>1. {e \in Entries : entry[e].state = "ready"} = {}
    BY DEF LibraryInit, NoRow
  <2> QED
    <3>1. Cardinality({}) = 0 /\ EntryLimit \in Nat
      BY FS_EmptySet, LibraryAssumption
    <3>2. Cardinality({e \in Entries : entry[e].state = "ready"}) = 0
      BY <2>1, <3>1
    <3> QED
      BY <3>1, <3>2 DEF ReadyWithinLimit
<1>3. ServingInv
  BY DEF LibraryInit, NoServing, ServingInv, Found
<1>4. SentInv /\ RowsInv /\ EntriesSentOnce
  BY DEF LibraryInit, NoRow, SentInv, Sent, RowsInv, Kept, EntriesSentOnce, SentOnce
<1> QED
  BY <1>1, <1>2, <1>3, <1>4 DEF LibraryInv

\* Adding and removing leave what an entry is of, and do not make it ready.
SameEntry(e) ==
    /\ entry'[e].picture = entry[e].picture /\ entry'[e].madeIn = entry[e].madeIn
    /\ entry'[e].state # "none" /\ (entry'[e].state = "ready" => entry[e].state = "ready")

LEMMA SameEntriesKeep ==
    ASSUME LibraryInv, entry' \in [Entries -> EntryRows], UNCHANGED <<serving, sentTo, unmarked>>,
           \A e \in Entries : entry[e].state # "none" => SameEntry(e),
           ReadyWithinLimit', RowsInv'
    PROVE  LibraryInv'
<1>1. LibraryTypeOK'
  BY DEF LibraryInv, LibraryTypeOK, EntryRows
<1>2. \A e \in Entries : (Sent(e) <=> Sent(e)') /\ (entry[e].state # "none" => (IsSingle(e) <=> IsSingle(e)'))
  BY DEF Sent, IsSingle, SameEntry
<1>3. \A e \in Entries : StillToSend(e) => StillToSend(e)'
  BY <1>2 DEF StillToSend, SameEntry
<1>4. ServingInv'
  <2>1. \A e \in Entries : Found(e)' <=> Found(e)
    BY DEF Found
  <2>2. \A e \in Entries : Found(e)' =>
          entry'[e].state # "none" /\ (IsSingle(e)' => Len(serving'.found) = 1 /\ StillToSend(e)')
    BY <1>2, <1>3, <2>1 DEF LibraryInv, ServingInv, SameEntry
  <2> QED
    BY <2>2 DEF LibraryInv, ServingInv
<1>5. SentInv'
  BY <1>2 DEF LibraryInv, SentInv, SameEntry
<1>6. EntriesSentOnce'
  <2> SUFFICES ASSUME NEW e \in Entries, IsSingle(e)' PROVE SentOnce(e)'
    BY DEF EntriesSentOnce
  <2>1. CASE Sent(e)
    <3>1. entry[e].state # "none" /\ entry'[e].madeIn = entry[e].madeIn /\ SentOnce(e)
      BY <1>2, <2>1 DEF LibraryInv, SentInv, EntriesSentOnce, SameEntry
    <3> QED
      BY <3>1 DEF SentOnce
  <2>2. CASE ~Sent(e)
    BY <2>2 DEF SentOnce, Sent
  <2> QED
    BY <2>1, <2>2
<1> QED
  BY <1>1, <1>4, <1>5, <1>6 DEF LibraryInv

LEMMA AddEntryKeeps ==
    ASSUME LibraryInv, NEW e \in Entries, NEW p \in Pictures, NEW chat \in Chats \cup {"none"},
           NEW frame \in BOOLEAN, frame => p \in SetFrames, AddEntry(e, p, chat, frame)
    PROVE  LibraryInv'
<1> DEFINE new == [state |-> "ready", picture |-> p, frame |-> frame, madeIn |-> chat, lastServed |-> "none"]
           S == [entry EXCEPT ![e] = new]
<1>1. /\ entry \in [Entries -> EntryRows] /\ entry[e] = NoRow /\ entry' = WithinLimit(S)
      /\ UNCHANGED <<serving, sentTo, unmarked>>
      /\ \A f \in Entries : Kept(f) => entry[f].picture # p
  BY DEF LibraryInv, LibraryTypeOK, EntryRows, AddEntry, IsNewEntry
<1>2. /\ S \in [Entries -> EntryRows] /\ S[e] = new /\ \A f \in Entries \ {e} : S[f] = entry[f]
  <2>1. new \in EntryRows
    BY DEF EntryRows
  <2> HIDE DEF new
  <2> QED
    BY <1>1, <2>1
<1> HIDE DEF S
<1>3. ASSUME NEW f \in Entries
      PROVE  /\ entry'[f] \in EntryRows
             /\ entry'[f].picture = S[f].picture /\ entry'[f].madeIn = S[f].madeIn /\ entry'[f].frame = S[f].frame
             /\ entry'[f].state = S[f].state \/ (InUse(S, f) /\ entry'[f].state = "retired")
             /\ entry'[f].state = "ready" => f \in Newest(S)
  <2>1. S[f] \in EntryRows
    BY <1>2
  <2>2. entry'[f] = IF InUse(S, f) /\ f \notin Newest(S) THEN [S[f] EXCEPT !.state = "retired"] ELSE S[f]
    BY <1>1 DEF WithinLimit
  <2> QED
    BY <2>1, <2>2 DEF EntryRows, InUse
<1>4. entry' \in [Entries -> EntryRows]
  <2>1. DOMAIN entry' = Entries /\ entry' = [f \in Entries |-> entry'[f]]
    BY <1>1 DEF WithinLimit
  <2> QED
    BY <1>3, <2>1
<1>5. ReadyWithinLimit'
  <2>1. {f \in Entries : entry'[f].state = "ready"} \subseteq Newest(S)
    BY <1>3
  <2> QED
    BY <2>1, NewestIsBounded, FewerReady DEF ReadyWithinLimit
<1>6. \A f \in Entries : entry[f].state # "none" => f # e /\ SameEntry(f)
  BY <1>1, <1>2, <1>3 DEF SameEntry, NoRow, InUse
<1>7. RowsInv'
  <2>1. \A f \in Entries : f # e => /\ entry'[f].picture = entry[f].picture /\ entry'[f].frame = entry[f].frame
                                    /\ Kept(f)' => Kept(f)
    BY <1>2, <1>3 DEF Kept, InUse
  <2>2. entry'[e].picture = p /\ entry'[e].frame = frame
    BY <1>2, <1>3
  <2>3. \A f \in Entries : entry'[f].frame => entry'[f].picture \in SetFrames
    BY <2>1, <2>2 DEF LibraryInv, RowsInv
  <2>4. ASSUME NEW f \in Entries, NEW g \in Entries, Kept(f)', Kept(g)', entry'[f].picture = entry'[g].picture
        PROVE  f = g
    <3>1. CASE f # e /\ g # e
      BY <2>1, <2>4, <3>1 DEF LibraryInv, RowsInv
    <3>2. CASE f = e \/ g = e
      BY <1>1, <2>1, <2>2, <2>4, <3>2
    <3> QED
      BY <3>1, <3>2
  <2> QED
    BY <2>3, <2>4 DEF RowsInv
<1> QED
  BY <1>1, <1>4, <1>5, <1>6, <1>7, SameEntriesKeep

LEMMA RemoveKeeps ==
    ASSUME LibraryInv, NEW e \in Entries, RemoveFromLibrary(e)
    PROVE  LibraryInv'
<1>1. /\ entry \in [Entries -> EntryRows] /\ entry' = [entry EXCEPT ![e].state = "removed"]
      /\ entry[e].state # "none" /\ UNCHANGED <<serving, sentTo, unmarked>>
  BY DEF LibraryInv, LibraryTypeOK, EntryRows, RemoveFromLibrary, Kept
<1>2. /\ entry' \in [Entries -> EntryRows] /\ entry'[e].state = "removed"
      /\ \A f \in Entries : /\ entry'[f].picture = entry[f].picture /\ entry'[f].frame = entry[f].frame
                            /\ entry'[f].madeIn = entry[f].madeIn
                            /\ f # e => entry'[f].state = entry[f].state
  BY <1>1 DEF EntryRows
<1>3. ReadyWithinLimit'
  <2>1. {f \in Entries : entry'[f].state = "ready"} \subseteq {f \in Entries : entry[f].state = "ready"}
    BY <1>2
  <2> QED
    BY <2>1, ReadyIsFinite, FewerReady DEF LibraryInv, ReadyWithinLimit
<1>4. RowsInv'
  <2>1. \A f \in Entries : Kept(f)' => Kept(f)
    BY <1>2 DEF Kept
  <2> QED
    BY <1>2, <2>1 DEF LibraryInv, RowsInv
<1>5. \A f \in Entries : entry[f].state # "none" => SameEntry(f)
  BY <1>2 DEF SameEntry
<1> QED
  BY <1>1, <1>2, <1>3, <1>4, <1>5, SameEntriesKeep

LEMMA FindKeeps ==
    ASSUME LibraryInv, NEW c \in Chats, FindReady(c)
    PROVE  LibraryInv'
<1>1. PICK best \in Ready : \E siblings \in Siblings(best, c) :
         /\ NewTo(c, best)
         /\ serving' = [chat |-> c, found |-> <<best>> \o siblings]
  BY DEF FindReady
<1>2. PICK siblings \in Siblings(best, c) :
         /\ NewTo(c, best)
         /\ serving' = [chat |-> c, found |-> <<best>> \o siblings]
  BY <1>1
<1>3. UNCHANGED <<entry, sentTo, unmarked>> /\ best \in Entries /\ entry[best].state = "ready"
  BY DEF FindReady, Ready
<1> DEFINE frames == {e \in Entries \ {best} : InUse(entry, e) /\ entry[e].frame /\ NewTo(c, e)}
<1>4. /\ frames \subseteq Entries
      /\ \A e \in frames : entry[e].state # "none" /\ ~IsSingle(e)
      /\ IsSingle(best) => ~entry[best].frame
  BY <1>3 DEF LibraryInv, RowsInv, InUse, IsSingle
<1>5. siblings \in Seq(frames) /\ (IsSingle(best) => siblings = <<>>)
  <2>1. CASE ~entry[best].frame
    BY <1>2, <2>1 DEF Siblings
  <2>2. CASE entry[best].frame
    <3>1. siblings \in FirstOf(frames)
      BY <1>2, <2>2 DEF Siblings
    <3>2. IsFiniteSet(frames)
      BY <1>4, LibraryAssumption, FS_Subset
    <3> HIDE DEF frames
    <3>3. Cardinality(frames) \in Nat /\ SiblingLimit \in Nat
      BY <3>2, FS_CardinalityType, LibraryAssumption DEF SiblingLimit
    <3>4. \E n \in Nat : siblings \in [1..n -> frames]
      BY <3>1, <3>3 DEF FirstOf
    <3> QED
      BY <1>4, <2>2, <3>4
  <2> QED
    BY <2>1, <2>2
<1> HIDE DEF frames
<1>6. /\ serving'.chat = c /\ serving'.found \in Seq(Entries)
      /\ \A i \in 1..Len(serving'.found) : serving'.found[i] \in frames \/ (serving'.found[i] = best /\ i = 1)
      /\ IsSingle(best) => Len(serving'.found) = 1
      /\ serving' = [chat |-> c, found |-> serving'.found]
  <2>1. siblings \in Seq(Entries)
    <3>1. \A i \in 1..Len(siblings) : siblings[i] \in Entries
      BY <1>4, <1>5
    <3> QED
      BY <1>5, <3>1
  <2>2. <<best>> \in Seq(Entries) /\ Len(<<best>>) = 1 /\ <<best>>[1] = best
    BY <1>3
  <2> DEFINE all == <<best>> \o siblings
  <2>3. all \in Seq(Entries) /\ Len(all) = 1 + Len(siblings)
    BY <2>1, <2>2, ConcatProperties
  <2>4. \A i \in 1..(1 + Len(siblings)) : all[i] = IF i <= 1 THEN best ELSE siblings[i - 1]
    BY <2>1, <2>2, ConcatProperties
  <2>5. serving' = [chat |-> c, found |-> all]
    BY <1>2
  <2> HIDE DEF all
  <2>6. Len(siblings) \in Nat /\ \A i \in 1..Len(siblings) : siblings[i] \in frames
    BY <1>5
  <2>7. \A i \in 1..Len(all) : all[i] \in frames \/ (all[i] = best /\ i = 1)
    BY <2>3, <2>4, <2>6
  <2>8. IsSingle(best) => Len(all) = 1
    BY <1>5, <2>3
  <2> QED
    BY <2>3, <2>5, <2>7, <2>8
<1>7. LibraryTypeOK' /\ ReadyWithinLimit' /\ SentInv' /\ RowsInv' /\ EntriesSentOnce'
  BY <1>3 DEF LibraryInv, LibraryTypeOK, ReadyWithinLimit, SentInv, Sent, IsSingle, RowsInv, Kept, EntriesSentOnce, SentOnce
<1>8. ServingInv'
  <2>1. serving' \in [chat : Chats \cup {"none"}, found : Seq(Entries)]
    BY <1>6
  <2>2. ASSUME IsSingle(best) PROVE StillToSend(best)'
    <3>1. Sent(best) => best \in unmarked
      BY <1>3, <2>2 DEF LibraryInv, SentInv
    <3>2. entry[best].madeIn # c
      BY <1>2 DEF NewTo
    <3> QED
      BY <1>3, <1>6, <3>1, <3>2 DEF StillToSend, Sent
  <2>3. serving'.chat \in Chats
    BY <1>6
  <2>4. \A e \in Entries : Found(e)' => e \in frames \/ e = best
    BY <1>6 DEF Found
  <2>5. \A e \in Entries : Found(e)' =>
          entry'[e].state # "none" /\ (IsSingle(e)' => Len(serving'.found) = 1 /\ StillToSend(e)')
    BY <1>3, <1>4, <1>6, <2>2, <2>4 DEF IsSingle
  <2> QED
    BY <2>1, <2>3, <2>5 DEF ServingInv
<1> QED
  BY <1>7, <1>8 DEF LibraryInv

LEMMA MarkKeeps ==
    ASSUME LibraryInv, MarkServed
    PROVE  LibraryInv'
<1> DEFINE m == Head(serving.found)
           c == serving.chat
<1>1. /\ serving.found # <<>> /\ serving.found \in Seq(Entries) /\ c \in Chats
      /\ serving \in [chat : Chats \cup {"none"}, found : Seq(Entries)]
  BY DEF MarkServed, LibraryInv, ServingInv
<1>2. m \in Entries /\ m = serving.found[1] /\ 1 \in 1..Len(serving.found)
  BY <1>1
<1>3. /\ sentTo' = [sentTo EXCEPT ![c] = Append(@, m)]
      /\ \/ /\ entry' = IF Kept(m) THEN [entry EXCEPT ![m].state = "served", ![m].lastServed = c] ELSE entry
            /\ unmarked' = unmarked
         \/ unmarked' = unmarked \cup {m} /\ entry' = entry
      /\ serving' = IF Tail(serving.found) = <<>> THEN NoServing
                    ELSE [serving EXCEPT !.found = Tail(@)]
  BY DEF MarkServed
<1>4. entry[m].state # "none" /\ (IsSingle(m) => StillToSend(m) /\ Len(serving.found) = 1)
  <2>1. Found(m)
    BY <1>2 DEF Found
  <2> QED
    BY <1>2, <2>1 DEF LibraryInv, ServingInv
<1>5. entry \in [Entries -> EntryRows] /\ sentTo \in [Chats -> Seq(Entries)] /\ unmarked \subseteq Entries
  BY DEF LibraryInv, LibraryTypeOK, EntryRows
<1>6. /\ Tail(serving.found) \in Seq(Entries)
      /\ Tail(serving.found) # <<>> =>
           /\ Len(serving.found) > 1
           /\ \A i \in 1..Len(Tail(serving.found)) :
                Tail(serving.found)[i] = serving.found[i + 1] /\ i + 1 \in 1..Len(serving.found)
  BY <1>1
<1>7. \/ serving' = NoServing
      \/ /\ serving'.chat = c /\ serving'.found = Tail(serving.found) /\ Tail(serving.found) # <<>>
         /\ serving' \in [chat : Chats \cup {"none"}, found : Seq(Entries)]
  BY <1>1, <1>3, <1>6
<1> HIDE DEF m, c
<1>8. /\ entry' \in [Entries -> EntryRows] /\ unmarked' \subseteq Entries /\ unmarked \subseteq unmarked'
      /\ \A e \in Entries : /\ entry'[e].picture = entry[e].picture /\ entry'[e].frame = entry[e].frame
                            /\ entry'[e].madeIn = entry[e].madeIn
                            /\ entry[e].state = "none" <=> entry'[e].state = "none"
                            /\ entry'[e].state = "ready" => entry[e].state = "ready"
                            /\ Kept(e)' => Kept(e)
      /\ entry'[m].state # "ready" \/ m \in unmarked'
  <2>1. CASE entry' = entry /\ (unmarked' = unmarked \cup {m} \/ (unmarked' = unmarked /\ ~Kept(m)))
    BY <1>2, <1>5, <2>1 DEF Kept
  <2>2. CASE Kept(m) /\ entry' = [entry EXCEPT ![m].state = "served", ![m].lastServed = c] /\ unmarked' = unmarked
    <3>1. entry[m] \in EntryRows
      BY <1>2, <1>5
    <3>2. entry'[m] = [entry[m] EXCEPT !.state = "served", !.lastServed = c] /\ \A e \in Entries \ {m} : entry'[e] = entry[e]
      BY <1>2, <1>5, <2>2
    <3>3. entry' \in [Entries -> EntryRows]
      BY <1>1, <1>2, <1>5, <2>2, <3>1 DEF EntryRows
    <3> QED
      BY <1>5, <2>2, <3>1, <3>2, <3>3 DEF EntryRows, Kept
  <2> QED
    BY <1>3, <2>1, <2>2
<1>9. /\ sentTo' \in [Chats -> Seq(Entries)]
      /\ \A d \in Chats \ {c} : sentTo'[d] = sentTo[d]
      /\ sentTo'[c] = Append(sentTo[c], m) /\ sentTo[c] \in Seq(Entries)
  <2>1. sentTo[c] \in Seq(Entries) /\ Append(sentTo[c], m) \in Seq(Entries)
    BY <1>1, <1>2, <1>5
  <2> QED
    BY <1>1, <1>3, <1>5, <2>1
<1>10. /\ Len(sentTo'[c]) = Len(sentTo[c]) + 1 /\ Len(sentTo[c]) \in Nat
       /\ \A i \in 1..Len(sentTo[c]) : sentTo'[c][i] = sentTo[c][i]
       /\ sentTo'[c][Len(sentTo[c]) + 1] = m
  BY <1>2, <1>9
<1>11. \A e \in Entries \ {m} : Sent(e)' => Sent(e)
  <2> SUFFICES ASSUME NEW e \in Entries \ {m}, NEW d \in Chats, NEW i \in 1..Len(sentTo'[d]), sentTo'[d][i] = e
               PROVE  Sent(e)
    BY DEF Sent
  <2>1. CASE d = c
    <3>1. i \in 1..Len(sentTo[c]) /\ sentTo[c][i] = e
      BY <1>10, <2>1
    <3> QED
      BY <2>1, <3>1 DEF Sent
  <2>2. CASE d # c
    BY <1>9, <2>2 DEF Sent
  <2> QED
    BY <2>1, <2>2
<1>12. LibraryTypeOK' /\ RowsInv'
  BY <1>8, <1>9 DEF LibraryTypeOK, EntryRows, LibraryInv, RowsInv
<1>13. ReadyWithinLimit'
  <2>1. {e \in Entries : entry'[e].state = "ready"} \subseteq {e \in Entries : entry[e].state = "ready"}
    BY <1>8
  <2> QED
    BY <2>1, ReadyIsFinite, FewerReady DEF LibraryInv, ReadyWithinLimit
<1>14. ServingInv'
  <2>1. CASE serving' = NoServing
    BY <2>1 DEF NoServing, ServingInv, Found
  <2>2. CASE /\ serving'.chat = c /\ serving'.found = Tail(serving.found) /\ Tail(serving.found) # <<>>
             /\ serving' \in [chat : Chats \cup {"none"}, found : Seq(Entries)]
    <3>1. \A e \in Entries : Found(e)' => Found(e)
      BY <1>6, <2>2 DEF Found
    <3>2. \A e \in Entries : Found(e)' => entry[e].state # "none" /\ ~IsSingle(e)
      BY <1>6, <2>2, <3>1 DEF LibraryInv, ServingInv
    <3>3. \A e \in Entries : Found(e)' => entry'[e].state # "none" /\ ~IsSingle(e)'
      BY <1>8, <3>2 DEF IsSingle
    <3> QED
      BY <1>1, <2>2, <3>3 DEF ServingInv
  <2> QED
    BY <1>7, <2>1, <2>2
<1>15. \A e \in Entries : IsSingle(e)' <=> IsSingle(e)
  BY <1>8 DEF IsSingle
<1>16. SentInv'
  <2> SUFFICES ASSUME NEW e \in Entries, Sent(e)'
               PROVE  entry'[e].state # "none" /\ (IsSingle(e)' => entry'[e].state # "ready" \/ e \in unmarked')
    BY DEF SentInv
  <2>1. CASE e = m
    BY <1>4, <1>8, <2>1
  <2>2. CASE e # m
    BY <1>8, <1>11, <1>15, <2>2 DEF LibraryInv, SentInv
  <2> QED
    BY <2>1, <2>2
<1>17. EntriesSentOnce'
  <2> SUFFICES ASSUME NEW e \in Entries, IsSingle(e),
                      NEW a \in Chats, NEW i \in 1..Len(sentTo'[a]), sentTo'[a][i] = e
               PROVE  /\ entry'[e].madeIn # a
                      /\ \/ e \in unmarked'
                         \/ \A d \in Chats : \A j \in 1..Len(sentTo'[d]) : sentTo'[d][j] = e => a = d /\ i = j
    BY <1>15 DEF EntriesSentOnce, SentOnce
  <2>1. CASE e = m /\ e \notin unmarked
    <3>1. /\ entry[m].madeIn # c
          /\ \A d \in Chats : \A j \in 1..Len(sentTo[d]) : sentTo[d][j] # m
      BY <1>4, <2>1 DEF StillToSend, Sent, c
    <3>2. \A d \in Chats : \A j \in 1..Len(sentTo'[d]) : sentTo'[d][j] = m => d = c /\ j = Len(sentTo[c]) + 1
      <4> SUFFICES ASSUME NEW d \in Chats, NEW j \in 1..Len(sentTo'[d]), sentTo'[d][j] = m
                   PROVE  d = c /\ j = Len(sentTo[c]) + 1
        OBVIOUS
      <4>1. d = c
        BY <1>9, <3>1
      <4> QED
        BY <1>10, <3>1, <4>1
    <3> QED
      BY <1>8, <2>1, <3>1, <3>2
  <2>2. CASE e = m /\ e \in unmarked
    <3>1. entry[m].madeIn # c /\ SentOnce(m)
      BY <1>2, <1>4, <2>2 DEF StillToSend, LibraryInv, EntriesSentOnce, c
    <3>2. entry[e].madeIn # a
      <4>1. CASE a = c
        BY <2>2, <3>1, <4>1
      <4>2. CASE a # c
        BY <1>9, <2>2, <3>1, <4>2 DEF SentOnce
      <4> QED
        BY <4>1, <4>2
    <3> QED
      BY <1>8, <2>2, <3>2
  <2>3. CASE e # m
    <3>1. \A d \in Chats : \A j \in 1..Len(sentTo'[d]) :
            sentTo'[d][j] = e => j \in 1..Len(sentTo[d]) /\ sentTo[d][j] = e
      <4> SUFFICES ASSUME NEW d \in Chats, NEW j \in 1..Len(sentTo'[d]), sentTo'[d][j] = e
                   PROVE  j \in 1..Len(sentTo[d]) /\ sentTo[d][j] = e
        OBVIOUS
      <4>1. CASE d = c
        BY <1>10, <2>3, <4>1
      <4>2. CASE d # c
        BY <1>9, <4>2
      <4> QED
        BY <4>1, <4>2
    <3>2. i \in 1..Len(sentTo[a]) /\ sentTo[a][i] = e
      BY <3>1
    <3>3. SentOnce(e)
      BY DEF LibraryInv, EntriesSentOnce
    <3> QED
      BY <1>8, <3>1, <3>2, <3>3 DEF SentOnce
  <2> QED
    BY <2>1, <2>2, <2>3
<1> QED
  BY <1>12, <1>13, <1>14, <1>16, <1>17 DEF LibraryInv

LEMMA LibraryStep == LibraryInv /\ [LibraryNext]_libraryVars => LibraryInv'
<1> SUFFICES ASSUME LibraryInv, [LibraryNext]_libraryVars PROVE LibraryInv'
  OBVIOUS
<1>1. ASSUME NEW e \in Entries, NEW p \in Pictures, NEW chat \in Chats \cup {"none"}, Retain(e, p, chat)
      PROVE  LibraryInv'
  <2>1. (p \in SetFrames) \in BOOLEAN /\ AddEntry(e, p, chat, p \in SetFrames)
    BY <1>1 DEF Retain
  <2> QED
    BY <2>1, AddEntryKeeps
<1>2. ASSUME NEW e \in Entries, NEW p \in Pictures, AddExisting(e, p)
      PROVE  LibraryInv'
  BY <1>2, AddEntryKeeps DEF AddExisting
<1>3. CASE \E e \in Entries : RemoveFromLibrary(e)
  BY <1>3, RemoveKeeps
<1>4. CASE \E c \in Chats : FindReady(c)
  BY <1>4, FindKeeps
<1>5. CASE MarkServed
  BY <1>5, MarkKeeps
<1>6. CASE UNCHANGED libraryVars
  <2>1. UNCHANGED <<entry, serving, sentTo, unmarked>>
    BY <1>6 DEF libraryVars
  <2>2. ServingInv'
    BY <2>1 DEF LibraryInv, ServingInv, Found, StillToSend, Sent, IsSingle
  <2>3. SentInv' /\ RowsInv' /\ EntriesSentOnce'
    BY <2>1 DEF LibraryInv, SentInv, Sent, IsSingle, RowsInv, Kept, EntriesSentOnce, SentOnce
  <2> QED
    BY <2>1, <2>2, <2>3 DEF LibraryInv, LibraryTypeOK, ReadyWithinLimit
<1> QED
  BY <1>1, <1>2, <1>3, <1>4, <1>5, <1>6 DEF LibraryNext

LEMMA SentOnceMeans == LibraryInv => SingleSentOnce
<1> SUFFICES ASSUME LibraryInv, NEW c \in Chats, NEW d \in Chats,
                    NEW i \in 1..Len(sentTo[c]), NEW j \in 1..Len(sentTo[d]),
                    entry[sentTo[c][i]].picture = entry[sentTo[d][j]].picture,
                    entry[sentTo[c][i]].picture \notin SetFrames
             PROVE  /\ entry[sentTo[c][i]].madeIn # c
                    /\ \/ c = d /\ i = j
                       \/ sentTo[c][i] = sentTo[d][j] /\ sentTo[c][i] \in unmarked
                       \/ sentTo[c][i] # sentTo[d][j] /\ ~(Kept(sentTo[c][i]) /\ Kept(sentTo[d][j]))
  BY DEF SingleSentOnce
<1>1. sentTo[c][i] \in Entries /\ sentTo[d][j] \in Entries
  BY DEF LibraryInv, LibraryTypeOK
<1>2. SentOnce(sentTo[c][i])
  BY <1>1 DEF LibraryInv, EntriesSentOnce, IsSingle
<1>3. sentTo[c][i] = sentTo[d][j] \/ ~(Kept(sentTo[c][i]) /\ Kept(sentTo[d][j]))
  BY <1>1 DEF LibraryInv, RowsInv
<1> QED
  BY <1>2, <1>3 DEF SentOnce

\* Whatever the owner adds and removes between finding a picture and sending it,
\* and whatever new pictures push out: a picture outside a photo set is sent once
\* over all the chats and never to the chat its entry was made in, unless the
\* owner removed it and added it again or the library could not note that it was
\* sent; and no more pictures than the limit wait to be sent.
\* (find_ready, mark_served, retain, add_existing, remove, _enforce_limit)
THEOREM LibraryPicturesAreSentOnce == LibrarySpec => []LibraryInvariant
<1>1. LibraryInv => LibraryInvariant
  BY SentOnceMeans DEF LibraryInv, LibraryInvariant
<1> QED
  BY <1>1, LibraryStarts, LibraryStep, PTL DEF LibrarySpec

-----------------------------------------------------------------------------
(* The inspection of a workflow.  A search that ended found exactly what its  *)
(* start leads to: what is found lies in every closed set that has the start, *)
(* and all but the pending nodes of it had their children found, so that it  *)
(* is closed itself once nothing is pending.  A node is sorted away once all *)
(* that feed it were, and where some are left each of them is fed by one     *)
(* that is left: a cycle.                                                    *)

GraphType ==
    /\ adjacency \in [Nodes -> SUBSET Nodes]
    /\ pending \subseteq Nodes /\ found \subseteq Nodes

\* What the search knows while it runs.
Searching ==
    phase \in {"downstream", "through"} /\ start # Nowhere =>
        /\ start \in found
        /\ pending \subseteq found
        /\ \A n \in found \ pending : adjacency[n] \subseteq found
        /\ \A C \in SUBSET Nodes : start \in C /\ Closed(C, adjacency) => found \subseteq C

SearchInv == GraphType /\ Searching

\* The nodes are a type of their own: the marker for none is not one of them,
\* and a graph without edges and an empty search satisfy the invariant.
LEMMA InitSearch == InspectionInit => SearchInv
BY NowhereAssumption DEF InspectionInit, SearchInv, GraphType, Searching

\* Visiting a pending node keeps what the search knows.
LEMMA VisitSearches ==
    ASSUME SearchInv, NEW n \in Nodes, Visit(n)
    PROVE  SearchInv'
<1>1. adjacency' = adjacency /\ phase' = phase /\ start' = start
  BY DEF Visit
<1>2. n \in pending /\ found' = found \cup adjacency[n] /\ pending' = (pending \ {n}) \cup (adjacency[n] \ found)
  BY DEF Visit, Unfound
<1>3. GraphType'
  BY <1>1, <1>2 DEF SearchInv, GraphType
<1>4. Searching'
  <2> SUFFICES ASSUME phase \in {"downstream", "through"}, start # Nowhere
               PROVE  /\ start \in found'
                      /\ pending' \subseteq found'
                      /\ \A m \in found' \ pending' : adjacency[m] \subseteq found'
                      /\ \A C \in SUBSET Nodes : start \in C /\ Closed(C, adjacency) => found' \subseteq C
    BY <1>1 DEF Searching, Closed
  <2>1. /\ start \in found
        /\ pending \subseteq found
        /\ \A m \in found \ pending : adjacency[m] \subseteq found
        /\ \A C \in SUBSET Nodes : start \in C /\ Closed(C, adjacency) => found \subseteq C
    BY DEF SearchInv, Searching
  <2>2. start \in found' /\ pending' \subseteq found'
    BY <1>2, <2>1
  <2>3. ASSUME NEW m \in found' \ pending'
        PROVE  adjacency[m] \subseteq found'
    <3>1. m = n \/ m \in found \ pending
      BY <1>2, <2>1, <2>3
    <3>2. QED
      BY <1>2, <2>1, <3>1
  <2>4. ASSUME NEW C \in SUBSET Nodes, start \in C, Closed(C, adjacency)
        PROVE  found' \subseteq C
    <3>1. found \subseteq C
      BY <2>1, <2>4
    <3>2. adjacency[n] \subseteq C
      BY <1>2, <2>1, <2>4, <3>1 DEF Closed
    <3>3. QED
      BY <1>2, <3>1, <3>2
  <2>5. QED
    BY <2>2, <2>3, <2>4
<1>5. QED
  BY <1>3, <1>4 DEF SearchInv

\* A search begins with its start.
LEMMA SearchBegins ==
    ASSUME GraphType, NEW n \in Nodes, SearchFrom(n), UNCHANGED adjacency
    PROVE  SearchInv'
BY DEF SearchInv, GraphType, Searching, SearchFrom

\* Every step keeps the invariant.
LEMMA SearchStep == SearchInv /\ [InspectionNext]_inspectionVars => SearchInv'
<1> SUFFICES ASSUME SearchInv, [InspectionNext]_inspectionVars
             PROVE  SearchInv'
  OBVIOUS
<1> USE DEF SearchInv
<1>1. ASSUME NEW n \in Nodes, LookAtNode(n)
      PROVE  SearchInv'
  <2>1. phase = "nodes" /\ phase' = phase /\ UNCHANGED <<pending, found>>
    BY <1>1 DEF LookAtNode
  <2>2. adjacency' \in [Nodes -> SUBSET Nodes]
    <3>1. CASE n \in workflow.reported
      <4>1. adjacency' = [m \in Nodes |-> IF <<m, n>> \in LinksInto(n) \cap workflow.typed
                                          THEN adjacency[m] \cup {n} ELSE adjacency[m]]
        BY <1>1, <3>1 DEF LookAtNode
      <4>2. QED
        BY <4>1 DEF GraphType
    <3>2. CASE n \notin workflow.reported
      BY <1>1, <3>2 DEF LookAtNode, GraphType
    <3>3. QED
      BY <3>1, <3>2
  <2>3. QED
    BY <2>1, <2>2 DEF GraphType, Searching
<1>2. ASSUME NEW n \in Nodes, RemoveNode(n)
      PROVE  SearchInv'
  <2>1. phase' = "cycle" /\ UNCHANGED <<adjacency, found>>
    BY <1>2 DEF RemoveNode
  <2>2. pending' \subseteq Nodes
    <3>1. pending' = (pending \ {n}) \cup {m \in adjacency[n] : indegree[m] = 1}
      BY <1>2 DEF RemoveNode
    <3>2. QED
      BY <3>1 DEF GraphType
  <2>3. QED
    BY <2>1, <2>2 DEF GraphType, Searching
<1>3. ASSUME NEW n \in Nodes, Visit(n)
      PROVE  SearchInv'
  BY <1>3, VisitSearches
<1>4. ASSUME NEW n \in Nodes, LookAtUpload(n) \/ TryIdentity(n)
      PROVE  SearchInv'
  <2>1. SearchFrom(n) /\ UNCHANGED adjacency
    BY <1>4 DEF LookAtUpload, TryIdentity
  <2>2. QED
    BY <2>1, SearchBegins
<1>5. ASSUME CountEdges
      PROVE  SearchInv'
  BY <1>5 DEF CountEdges, GraphType, Searching
<1>6. ASSUME NothingToRemove \/ Conclude
      PROVE  SearchInv'
  BY <1>6 DEF NothingToRemove, Conclude, GraphType, Searching
<1>7. ASSUME IdentityBelow \/ TriedIdentity
      PROVE  SearchInv'
  BY <1>7 DEF IdentityBelow, TriedIdentity, GraphType, Searching
<1>8. ASSUME NoIdentityLeft
      PROVE  SearchInv'
  BY <1>8 DEF NoIdentityLeft, GraphType, Searching
<1>9. ASSUME UNCHANGED inspectionVars
      PROVE  SearchInv'
  BY <1>9 DEF inspectionVars, GraphType, Searching, Closed
<1>10. QED
  BY <1>1, <1>2, <1>3, <1>4, <1>5, <1>6, <1>7, <1>8, <1>9 DEF InspectionNext

\* The invariant says that a search without pending nodes is exact.
LEMMA InvMeansExact == SearchInv => SearchIsExact
<1> SUFFICES ASSUME SearchInv, phase \in {"downstream", "through"}, start # Nowhere, pending = {}
             PROVE  found = LeadsTo(start, adjacency)
  BY DEF SearchIsExact
<1>1. found \in SUBSET Nodes /\ start \in found /\ Closed(found, adjacency)
  BY DEF SearchInv, GraphType, Searching, Closed
<1>2. \A C \in SUBSET Nodes : start \in C /\ Closed(C, adjacency) => found \subseteq C
  BY DEF SearchInv, Searching
<1>3. found \subseteq LeadsTo(start, adjacency)
  BY <1>1, <1>2 DEF LeadsTo
<1>4. LeadsTo(start, adjacency) \subseteq found
  BY <1>1 DEF LeadsTo
<1>5. QED
  BY <1>3, <1>4

\* In every inspection of every workflow, _reachable finds exactly the nodes
\* that the upload, or the identity node, leads to.
THEOREM SearchTheorem == InspectionSpec => []SearchIsExact
<1>1. InspectionSpec => []SearchInv
  BY InitSearch, SearchStep, PTL DEF InspectionSpec
<1>2. QED
  BY <1>1, InvMeansExact, PTL

-----------------------------------------------------------------------------
(* The verdict.  What the pass, the sort and the candidates establish.      *)

\* The links whose ends are reported and whose types agree.
Typed(m, n) == <<m, n>> \in workflow.links /\ <<m, n>> \in workflow.typed
Seen == (Nodes \ unseen) \cap workflow.reported

\* What the pass knows of the nodes it has come to.
IsFlawed(n) == n \notin workflow.complete \/ \E m \in workflow.reported : <<m, n>> \in workflow.links /\ ~Typed(m, n)
PassInv ==
    /\ workflow \in Workflows /\ unseen \subseteq Nodes
    /\ adjacency \in [Nodes -> SUBSET Nodes]
    /\ \A m \in Nodes, n \in Nodes :
          n \in adjacency[m] <=> n \in Seen /\ m \in workflow.reported /\ Typed(m, n)
    /\ outputNodes = Seen \cap workflow.outputs /\ identityNodes = Seen \cap workflow.identity
    /\ phase # "nodes" => unseen = {}

\* What makes it doubt the graph.
OnNoCycle(n) == \A m \in adjacency[n] : n \notin LeadsTo(m, adjacency)
Lacking == outputNodes = {} \/ (workflow.conditioned /\ identityNodes = {})
FlawInv ==
    /\ flawed \in BOOLEAN
    /\ flawed <=> \/ \E n \in Seen : IsFlawed(n)
                  \/ phase # "nodes" /\ Lacking
                  \/ phase \notin {"nodes", "cycle"} /\ ~\A n \in Nodes : OnNoCycle(n)

\* Nodes are removed once all that feed them are, so that they are on no cycle.
Removed == {n \in Nodes : n \notin pending /\ indegree[n] = 0}
CycleInv ==
    phase = "cycle" =>
        /\ indegree \in [Nodes -> Nat]
        /\ \A n \in Nodes : indegree[n] = Cardinality({m \in Nodes \ Removed : n \in adjacency[m]})
        /\ pending \subseteq Nodes /\ \A n \in pending : indegree[n] = 0
        /\ visited = Cardinality(Removed)
        /\ \A n \in Removed : OnNoCycle(n)

\* An upload is a candidate if an identity node below it leads to an output.
LeadsOutOf(i) == outputNodes \cap LeadsTo(i, adjacency) # {}
IdentitiesBelow(u) == identityNodes \cap LeadsTo(u, adjacency)
Fit(u) == \E i \in IdentitiesBelow(u) : LeadsOutOf(i)
Uploads == Seen \cap workflow.uploads
CandidateInv ==
    /\ phase \in {"nodes", "cycle"} => uploads = Uploads /\ candidates = {} 
    /\ phase = "nodes" => visited = 0
    /\ uploads \subseteq Uploads
    /\ \A u \in candidates : u \in Uploads /\ Fit(u)
    /\ \A u \in Uploads \ uploads :
          Fit(u) => u \in candidates \/ (phase \in {"downstream", "through"} /\ u = upload)
    /\ phase \in {"downstream", "through"} => upload \in Uploads
    /\ phase = "downstream" => start = upload
    /\ phase = "through" =>
          /\ through \subseteq IdentitiesBelow(upload)
          /\ start = Nowhere \/ start \in IdentitiesBelow(upload)
          /\ \A i \in IdentitiesBelow(upload) : i \in through \/ i = start \/ ~LeadsOutOf(i)

\* The verdict is the last thing.
EndInv ==
    /\ phase \in {"nodes", "cycle", "uploads", "downstream", "through", "done"}
    /\ phase # "done" => verdict = "none"
    /\ VerdictIsProof

InspectionInv == SearchInv /\ PassInv /\ FlawInv /\ CycleInv /\ CandidateInv /\ EndInv

-----------------------------------------------------------------------------
(* Graphs.                                                                  *)

LEMMA LeadsToItself ==
    ASSUME NEW feeds \in [Nodes -> SUBSET Nodes], NEW n \in Nodes
    PROVE  n \in LeadsTo(n, feeds) /\ LeadsTo(n, feeds) \subseteq Nodes
BY DEF LeadsTo

LEMMA LeadsToFed ==
    ASSUME NEW feeds \in [Nodes -> SUBSET Nodes], NEW n \in Nodes, NEW m \in feeds[n]
    PROVE  m \in LeadsTo(n, feeds)
BY DEF LeadsTo, Closed

LEMMA LeadsToOn ==
    ASSUME NEW feeds \in [Nodes -> SUBSET Nodes], NEW x \in Nodes, NEW y \in LeadsTo(x, feeds),
           NEW z \in LeadsTo(y, feeds)
    PROVE  z \in LeadsTo(x, feeds)
<1> SUFFICES ASSUME NEW C \in SUBSET Nodes, x \in C, Closed(C, feeds)
             PROVE  z \in C
  BY DEF LeadsTo
<1>1. y \in C
  BY DEF LeadsTo
<1> QED
  BY <1>1 DEF LeadsTo

\* Where each of a few nodes is fed by one of them there is a cycle.
LEMMA FedFromWithin ==
    ASSUME NEW feeds \in [Nodes -> SUBSET Nodes], NEW S, S \subseteq Nodes, S # {},
           \A n \in S : \E m \in S : n \in feeds[m]
    PROVE  \E n \in S : \E m \in feeds[n] : n \in LeadsTo(m, feeds)
<1> DEFINE Over(n) == {x \in S : n \in LeadsTo(x, feeds)}
           Sizes == {Cardinality(Over(n)) : n \in S}
<1>1. IsFiniteSet(S)
  BY WorkflowAssumption, FS_Subset
<1>2. ASSUME NEW n \in S PROVE Over(n) \subseteq S /\ IsFiniteSet(Over(n)) /\ Cardinality(Over(n)) \in Nat
  <2>1. Over(n) \subseteq S
    OBVIOUS
  <2> HIDE DEF Over
  <2> QED
    BY <1>1, <2>1, FS_Subset, FS_CardinalityType
<1>3. Sizes \subseteq Nat /\ Sizes # {}
  BY <1>2
<1>4. PICK least \in Sizes : \A other \in Sizes : least <= other
  BY <1>3, HasLeast
<1>5. PICK n \in S : least = Cardinality(Over(n))
  BY <1>4
<1>6. PICK p \in S : n \in feeds[p]
  OBVIOUS
<1>7. Over(p) \subseteq Over(n)
  <2> SUFFICES ASSUME NEW x \in S, p \in LeadsTo(x, feeds)
               PROVE  n \in LeadsTo(x, feeds)
    OBVIOUS
  <2>1. n \in LeadsTo(p, feeds)
    BY <1>6, LeadsToFed
  <2> QED
    BY <2>1, LeadsToOn
<1>8. n \in Over(n)
  BY LeadsToItself
<1>9. Cardinality(Over(n)) <= Cardinality(Over(p))
  BY <1>4, <1>5
<1> HIDE DEF Over, Sizes
<1>10. Over(p) = Over(n)
  <2>1. Cardinality(Over(p)) <= Cardinality(Over(n))
        /\ (Cardinality(Over(p)) = Cardinality(Over(n)) => Over(p) = Over(n))
    BY <1>2, <1>7, FS_Subset
  <2> QED
    BY <1>2, <1>9, <2>1
<1>11. p \in LeadsTo(n, feeds)
  BY <1>8, <1>10 DEF Over
<1> QED
  BY <1>6, <1>11

\* A node that all that feed it precede is on no cycle.
LEMMA NoCycleThrough ==
    ASSUME adjacency \in [Nodes -> SUBSET Nodes], NEW R, R \subseteq Nodes,
           \A x \in R : \A m \in Nodes : x \in adjacency[m] => m \in R,
           NEW n \in Nodes, n \notin R, \A m \in Nodes : n \in adjacency[m] => m \in R
    PROVE  OnNoCycle(n)
<1> SUFFICES ASSUME NEW m \in adjacency[n] PROVE n \notin LeadsTo(m, adjacency)
  BY DEF OnNoCycle
<1> DEFINE C == Nodes \ (R \cup {n})
<1>1. m \in C
  OBVIOUS
<1>2. Closed(C, adjacency)
  BY DEF Closed
<1>3. C \in SUBSET Nodes /\ n \notin C /\ n \in Nodes
  OBVIOUS
<1> HIDE DEF C
<1> QED
  BY <1>1, <1>2, <1>3 DEF LeadsTo

-----------------------------------------------------------------------------
LEMMA WorkflowTyped ==
    ASSUME workflow \in Workflows
    PROVE  /\ workflow.reported \subseteq Nodes /\ workflow.complete \subseteq Nodes
           /\ workflow.identity \subseteq Nodes /\ workflow.outputs \subseteq Nodes
           /\ workflow.uploads \subseteq Nodes /\ workflow.texts \subseteq Nodes
           /\ \A link \in workflow.links : link = <<link[1], link[2]>> /\ link[1] \in Nodes /\ link[2] \in Nodes
BY WorkflowAssumption

LEMMA VerdictStarts == InspectionInit => InspectionInv
<1> SUFFICES ASSUME InspectionInit PROVE InspectionInv
  OBVIOUS
<1>1. SearchInv
  BY InitSearch
<1>2. Seen = {}
  BY DEF InspectionInit, Seen
<1>3. PassInv
  BY <1>2 DEF InspectionInit, PassInv
<1>4. FlawInv
  BY <1>2 DEF InspectionInit, FlawInv
<1>5. CycleInv
  BY DEF InspectionInit, CycleInv
<1>6. CandidateInv
  BY <1>2 DEF InspectionInit, CandidateInv, Uploads
<1>7. EndInv
  BY DEF InspectionInit, EndInv, VerdictIsProof
<1> QED
  BY <1>1, <1>3, <1>4, <1>5, <1>6, <1>7 DEF InspectionInv

\* The links into a node, and those whose types agree.
LEMMA LinksOf ==
    ASSUME workflow \in Workflows, NEW n \in Nodes
    PROVE  /\ \A m \in Nodes : <<m, n>> \in LinksInto(n) \cap workflow.typed <=> m \in workflow.reported /\ Typed(m, n)
           /\ LinksInto(n) \subseteq workflow.typed <=>
                ~\E m \in workflow.reported : <<m, n>> \in workflow.links /\ ~Typed(m, n)
<1>1. ASSUME NEW m \in Nodes
      PROVE  <<m, n>> \in LinksInto(n) <=> <<m, n>> \in workflow.links /\ m \in workflow.reported
  <2>1. <<m, n>>[1] = m /\ <<m, n>>[2] = n
    OBVIOUS
  <2> QED
    BY <2>1 DEF LinksInto
<1>2. \A link \in LinksInto(n) : link = <<link[1], n>> /\ link[1] \in Nodes
  BY WorkflowTyped DEF LinksInto
<1>3. workflow.reported \subseteq Nodes
  BY WorkflowTyped
<1> QED
  BY <1>1, <1>2, <1>3 DEF Typed

LEMMA LookAtNodeKeeps ==
    ASSUME InspectionInv, NEW n \in Nodes, LookAtNode(n)
    PROVE  InspectionInv'
<1>1. SearchInv'
  BY SearchStep DEF InspectionInv, InspectionNext
<1>2. /\ phase = "nodes" /\ n \in unseen /\ unseen' = unseen \ {n} /\ unseen \subseteq Nodes
      /\ UNCHANGED <<workflow, phase, visited, candidates, verdict>>
      /\ workflow \in Workflows
      /\ adjacency \in [Nodes -> SUBSET Nodes] /\ adjacency' \in [Nodes -> SUBSET Nodes]
      /\ workflow.reported \subseteq Nodes
  BY <1>1, WorkflowTyped DEF LookAtNode, InspectionInv, PassInv, SearchInv, GraphType
<1>3. Seen' = Seen \cup ({n} \cap workflow.reported) /\ n \notin Seen
  BY <1>2 DEF Seen
<1>4. \A m \in Nodes, k \in Nodes : Typed(m, k)' <=> Typed(m, k)
  BY <1>2 DEF Typed
<1>5. \A k \in Nodes : IsFlawed(k)' <=> IsFlawed(k)
  BY <1>2 DEF IsFlawed, Typed
<1>6. PassInv'
  <2>1. \A m \in Nodes, k \in Nodes : k \in adjacency'[m] <=>
          k \in adjacency[m] \/ (k = n /\ n \in workflow.reported /\ m \in workflow.reported /\ Typed(m, n))
    <3>1. CASE n \in workflow.reported
      <4>1. adjacency' = [m \in Nodes |-> IF <<m, n>> \in LinksInto(n) \cap workflow.typed
                                          THEN adjacency[m] \cup {n} ELSE adjacency[m]]
        BY <3>1 DEF LookAtNode
      <4>2. \A m \in Nodes : <<m, n>> \in LinksInto(n) \cap workflow.typed <=> m \in workflow.reported /\ Typed(m, n)
        BY <1>2, LinksOf
      <4>3. \A m \in Nodes : adjacency'[m] = IF m \in workflow.reported /\ Typed(m, n)
                                             THEN adjacency[m] \cup {n} ELSE adjacency[m]
        BY <4>1, <4>2
      <4> QED
        BY <3>1, <4>3
    <3>2. CASE n \notin workflow.reported
      BY <3>2 DEF LookAtNode
    <3> QED
      BY <3>1, <3>2
  <2>2. \A m \in Nodes, k \in Nodes :
          k \in adjacency[m] <=> k \in Seen /\ m \in workflow.reported /\ Typed(m, k)
    BY DEF InspectionInv, PassInv
  <2>3. \A m \in Nodes, k \in Nodes :
          k \in adjacency'[m] <=> k \in Seen' /\ m \in workflow'.reported /\ Typed(m, k)'
    BY <1>2, <1>3, <1>4, <2>1, <2>2
  <2>4. outputNodes' = Seen' \cap workflow.outputs /\ identityNodes' = Seen' \cap workflow.identity
    BY <1>3 DEF LookAtNode, InspectionInv, PassInv
  <2> QED
    BY <1>2, <2>3, <2>4 DEF PassInv
<1>7. FlawInv'
  <2>1. flawed \in BOOLEAN /\ (flawed <=> \E k \in Seen : IsFlawed(k))
    BY <1>2 DEF InspectionInv, FlawInv
  <2>2. IsFlawed(n) <=> n \notin workflow.complete \/ ~(LinksInto(n) \subseteq workflow.typed)
    BY <1>2, LinksOf DEF IsFlawed
  <2>3. flawed' \in BOOLEAN /\ (flawed' <=> flawed \/ (n \in workflow.reported /\ IsFlawed(n)))
    <3>1. CASE n \in workflow.reported
      <4>1. flawed' = (flawed \/ n \notin workflow.complete \/ ~(LinksInto(n) \subseteq workflow.typed))
        BY <3>1 DEF LookAtNode
      <4> QED
        BY <2>2, <3>1, <4>1
    <3>2. CASE n \notin workflow.reported
      BY <2>1, <3>2 DEF LookAtNode
    <3> QED
      BY <3>1, <3>2
  <2>4. (\E k \in Seen' : IsFlawed(k)') <=> (\E k \in Seen : IsFlawed(k)) \/ (n \in workflow.reported /\ IsFlawed(n))
    BY <1>3, <1>5 DEF Seen
  <2> QED
    BY <1>2, <2>1, <2>3, <2>4 DEF FlawInv
<1>8. CycleInv'
  BY <1>2 DEF CycleInv
<1>9. CandidateInv'
  <2>1. uploads = Uploads /\ candidates = {} /\ visited = 0
    BY <1>2 DEF InspectionInv, CandidateInv
  <2>2. uploads' = Uploads'
    BY <1>2, <1>3, <2>1 DEF LookAtNode, Uploads
  <2> QED
    BY <1>2, <2>1, <2>2 DEF CandidateInv
<1>10. EndInv'
  BY <1>2 DEF InspectionInv, EndInv, VerdictIsProof
<1> QED
  BY <1>1, <1>6, <1>7, <1>8, <1>9, <1>10 DEF InspectionInv

\* After the pass the graph stays as it is.
GraphStays == UNCHANGED <<workflow, unseen, adjacency, outputNodes, identityNodes>>

LEMMA GraphStaysSo ==
    ASSUME GraphStays
    PROVE  /\ Seen' = Seen /\ Uploads' = Uploads /\ (Lacking' <=> Lacking)
           /\ \A n : (IsFlawed(n)' <=> IsFlawed(n)) /\ (OnNoCycle(n)' <=> OnNoCycle(n))
           /\ \A n : IdentitiesBelow(n)' = IdentitiesBelow(n) /\ (LeadsOutOf(n)' <=> LeadsOutOf(n))
           /\ \A n : Fit(n)' <=> Fit(n)
           /\ PassInv /\ (phase' # "nodes" => phase # "nodes" \/ unseen = {}) => PassInv'
<1>1. Seen' = Seen /\ Uploads' = Uploads /\ (Lacking' <=> Lacking)
  BY DEF GraphStays, Seen, Uploads, Lacking
<1>2. \A n : (IsFlawed(n)' <=> IsFlawed(n)) /\ (OnNoCycle(n)' <=> OnNoCycle(n))
  BY DEF GraphStays, IsFlawed, Typed, OnNoCycle, LeadsTo, Closed
<1>3. \A n : IdentitiesBelow(n)' = IdentitiesBelow(n) /\ (LeadsOutOf(n)' <=> LeadsOutOf(n))
  BY DEF GraphStays, IdentitiesBelow, LeadsOutOf, LeadsTo, Closed
<1>4. \A n : Fit(n)' <=> Fit(n)
  BY DEF GraphStays, Fit, IdentitiesBelow, LeadsOutOf, LeadsTo, Closed
<1>5. PassInv /\ (phase' # "nodes" => phase # "nodes" \/ unseen = {}) => PassInv'
  BY <1>1 DEF GraphStays, PassInv, Typed
<1> QED
  BY <1>1, <1>2, <1>3, <1>4, <1>5

LEMMA CountEdgesKeeps ==
    ASSUME InspectionInv, CountEdges
    PROVE  InspectionInv'
<1>1. SearchInv'
  BY SearchStep DEF InspectionInv, InspectionNext
<1>2. /\ phase = "nodes" /\ unseen = {} /\ phase' = "cycle"
      /\ GraphStays /\ UNCHANGED <<uploads, visited, candidates, verdict>>
  BY DEF CountEdges, GraphStays
<1>3. adjacency' = adjacency /\ adjacency \in [Nodes -> SUBSET Nodes]
  BY <1>2 DEF GraphStays, InspectionInv, PassInv
<1>4. PassInv'
  BY <1>2, GraphStaysSo DEF InspectionInv
<1>5. FlawInv'
  <2>1. flawed' = (flawed \/ outputNodes = {} \/ (workflow.conditioned /\ identityNodes = {}))
    BY DEF CountEdges
  <2>2. flawed' \in BOOLEAN /\ (flawed' <=> flawed \/ Lacking)
    BY <2>1 DEF Lacking
  <2>3. flawed <=> \E n \in Seen : IsFlawed(n)
    BY <1>2 DEF InspectionInv, FlawInv
  <2>4. /\ (Lacking' <=> Lacking)
        /\ (\E n \in Seen' : IsFlawed(n)') <=> \E n \in Seen : IsFlawed(n)
    BY <1>2, GraphStaysSo
  <2> QED
    BY <1>2, <2>2, <2>3, <2>4 DEF FlawInv
<1>6. CycleInv'
  <2> DEFINE Into(n) == {m \in Nodes : n \in adjacency[m]}
  <2>1. /\ indegree' = [n \in Nodes |-> Cardinality(Into(n))]
        /\ pending' = {n \in Nodes : \A m \in Nodes : n \notin adjacency[m]}
    BY DEF CountEdges
  <2>2. ASSUME NEW n \in Nodes
        PROVE  Cardinality(Into(n)) \in Nat /\ (Cardinality(Into(n)) = 0 <=> n \in pending')
    <3>1. Into(n) \subseteq Nodes /\ (Into(n) = {} <=> n \in pending')
      BY <2>1
    <3> HIDE DEF Into
    <3>2. IsFiniteSet(Into(n))
      BY <3>1, WorkflowAssumption, FS_Subset
    <3> QED
      BY <3>1, <3>2, FS_CardinalityType, FS_EmptySet
  <2>3. Removed' = {}
    BY <2>1, <2>2 DEF Removed
  <2>4. visited' = 0 /\ Cardinality({}) = 0
    BY <1>2, FS_EmptySet DEF InspectionInv, CandidateInv
  <2>5. \A n \in Nodes : {m \in Nodes \ Removed' : n \in adjacency'[m]} = Into(n)
    BY <1>3, <2>3
  <2>6. \A n \in Nodes : indegree'[n] = Cardinality({m \in Nodes \ Removed' : n \in adjacency'[m]})
    BY <2>1, <2>5
  <2>7. indegree' \in [Nodes -> Nat] /\ pending' \subseteq Nodes /\ \A n \in pending' : indegree'[n] = 0
    BY <2>1, <2>2
  <2> QED
    BY <2>3, <2>4, <2>6, <2>7 DEF CycleInv
<1>7. CandidateInv'
  BY <1>2, GraphStaysSo DEF InspectionInv, CandidateInv
<1>8. EndInv'
  BY <1>2 DEF InspectionInv, EndInv, VerdictIsProof
<1> QED
  BY <1>1, <1>4, <1>5, <1>6, <1>7, <1>8 DEF InspectionInv

LEMMA RemoveNodeKeeps ==
    ASSUME InspectionInv, NEW n \in Nodes, RemoveNode(n)
    PROVE  InspectionInv'
<1>1. SearchInv'
  BY SearchStep DEF InspectionInv, InspectionNext
<1>2. /\ phase = "cycle" /\ phase' = "cycle" /\ n \in pending
      /\ GraphStays /\ UNCHANGED <<flawed, uploads, candidates, verdict>>
  BY DEF RemoveNode, GraphStays
<1>3. adjacency' = adjacency /\ adjacency \in [Nodes -> SUBSET Nodes]
  BY <1>2 DEF GraphStays, InspectionInv, PassInv
<1>4. /\ visited' = visited + 1
      /\ indegree' = [m \in Nodes |-> IF m \in adjacency[n] THEN indegree[m] - 1 ELSE indegree[m]]
      /\ pending' = (pending \ {n}) \cup {m \in adjacency[n] : indegree[m] = 1}
  BY DEF RemoveNode
<1> DEFINE Into(k) == {m \in Nodes \ Removed : k \in adjacency[m]}
<1>5. /\ indegree \in [Nodes -> Nat] /\ \A k \in Nodes : indegree[k] = Cardinality(Into(k))
      /\ pending \subseteq Nodes /\ \A k \in pending : indegree[k] = 0
      /\ visited = Cardinality(Removed)
      /\ \A k \in Removed : OnNoCycle(k)
  BY <1>2 DEF InspectionInv, CycleInv
<1>6. n \in Nodes \ Removed /\ Removed \subseteq Nodes
  BY <1>2 DEF Removed
<1>7. ASSUME NEW k \in Nodes
      PROVE  /\ IsFiniteSet(Into(k))
             /\ indegree[k] = 0 <=> Into(k) = {}
             /\ k \in adjacency[n] => n \in Into(k) /\ indegree[k] # 0
  <2>1. Into(k) \subseteq Nodes /\ (k \in adjacency[n] => n \in Into(k)) /\ indegree[k] = Cardinality(Into(k))
    BY <1>5, <1>6
  <2> HIDE DEF Into
  <2>2. IsFiniteSet(Into(k))
    BY <2>1, WorkflowAssumption, FS_Subset
  <2> QED
    BY <2>1, <2>2, FS_EmptySet
<1>8. n \notin adjacency[n] /\ indegree[n] = 0
  BY <1>2, <1>5, <1>7
<1>9. indegree' \in [Nodes -> Nat]
  <2>1. \A k \in Nodes : indegree[k] \in Nat
    BY <1>5
  <2>2. ASSUME NEW k \in Nodes, k \in adjacency[n] PROVE indegree[k] - 1 \in Nat
    <3>1. indegree[k] \in Nat /\ indegree[k] # 0
      BY <1>7, <2>1, <2>2
    <3> QED
      BY <3>1
  <2> QED
    BY <1>4, <2>1, <2>2
<1>10. Removed' = Removed \cup {n}
  <2>1. ASSUME NEW k \in Nodes
        PROVE  k \in Removed' <=> k \in Removed \/ k = n
    <3>1. CASE k = n
      BY <1>4, <1>8, <3>1 DEF Removed
    <3>2. CASE k # n /\ k \notin adjacency[n]
      BY <1>4, <3>2 DEF Removed
    <3>3. CASE k # n /\ k \in adjacency[n]
      <4>1. indegree[k] \in Nat /\ indegree[k] # 0
        BY <1>5, <1>7, <3>3
      <4>2. indegree'[k] = indegree[k] - 1
        BY <1>4, <3>3
      <4>3. k \in pending' <=> k \in pending \/ indegree[k] = 1
        BY <1>4, <3>3
      <4> QED
        BY <3>3, <4>1, <4>2, <4>3 DEF Removed
    <3> QED
      BY <3>1, <3>2, <3>3
  <2>2. Removed' \subseteq Nodes
    BY DEF Removed
  <2> QED
    BY <1>6, <2>1, <2>2
<1>11. visited' = Cardinality(Removed')
  <2>1. IsFiniteSet(Removed)
    BY <1>6, WorkflowAssumption, FS_Subset
  <2>2. Cardinality(Removed \cup {n}) = Cardinality(Removed) + 1
    BY <1>6, <2>1, FS_AddElement
  <2> QED
    BY <1>4, <1>5, <1>10, <2>2
<1>12. ASSUME NEW k \in Nodes
       PROVE  indegree'[k] = Cardinality({m \in Nodes \ Removed' : k \in adjacency'[m]})
  <2>1. {m \in Nodes \ Removed' : k \in adjacency'[m]} = Into(k) \ {n}
    BY <1>3, <1>10
  <2>2. CASE k \in adjacency[n]
    <3>1. Cardinality(Into(k) \ {n}) = Cardinality(Into(k)) - 1
      <4>1. n \in Into(k) /\ IsFiniteSet(Into(k))
        BY <1>7, <2>2
      <4> HIDE DEF Into
      <4> QED
        BY <4>1, FS_RemoveElement
    <3> QED
      BY <1>4, <1>5, <2>1, <2>2, <3>1
  <2>3. CASE k \notin adjacency[n]
    <3>1. Into(k) \ {n} = Into(k)
      BY <2>3
    <3> QED
      BY <1>4, <1>5, <2>1, <2>3, <3>1
  <2> QED
    BY <2>2, <2>3
<1>13. pending' \subseteq Nodes /\ \A k \in pending' : indegree'[k] = 0
  <2>1. pending' \subseteq Nodes
    BY <1>3, <1>4, <1>5
  <2>2. ASSUME NEW k \in pending' PROVE indegree'[k] = 0
    <3>1. CASE k \in adjacency[n]
      <4>1. indegree[k] # 0 /\ k \in Nodes
        BY <1>7, <2>1, <3>1
      <4>2. indegree[k] = 1
        BY <1>4, <1>5, <2>2, <4>1
      <4> QED
        BY <1>4, <3>1, <4>1, <4>2
    <3>2. CASE k \notin adjacency[n]
      BY <1>4, <1>5, <2>1, <3>2
    <3> QED
      BY <3>1, <3>2
  <2> QED
    BY <2>1, <2>2
<1>14. \A k \in Removed' : OnNoCycle(k)'
  <2>1. \A x \in Removed : \A m \in Nodes : x \in adjacency[m] => m \in Removed
    <3> SUFFICES ASSUME NEW x \in Removed, NEW m \in Nodes, x \in adjacency[m] PROVE m \in Removed
      OBVIOUS
    <3>1. x \in Nodes /\ Into(x) = {}
      BY <1>7 DEF Removed
    <3> QED
      BY <3>1
  <2>2. \A m \in Nodes : n \in adjacency[m] => m \in Removed
    <3>1. Into(n) = {}
      BY <1>7, <1>8
    <3> QED
      BY <3>1
  <2>3. OnNoCycle(n)
    BY <1>3, <1>6, <2>1, <2>2, NoCycleThrough
  <2> QED
    BY <1>2, <1>5, <1>10, <2>3, GraphStaysSo
<1>15. PassInv'
  BY <1>2, GraphStaysSo DEF InspectionInv
<1>16. FlawInv'
  <2>1. flawed \in BOOLEAN /\ (flawed <=> (\E k \in Seen : IsFlawed(k)) \/ Lacking)
    BY <1>2 DEF InspectionInv, FlawInv
  <2>2. (Lacking' <=> Lacking) /\ ((\E k \in Seen' : IsFlawed(k)') <=> \E k \in Seen : IsFlawed(k))
    BY <1>2, GraphStaysSo
  <2> QED
    BY <1>2, <2>1, <2>2 DEF FlawInv
<1>17. CycleInv'
  BY <1>9, <1>11, <1>12, <1>13, <1>14 DEF CycleInv
<1>18. CandidateInv'
  BY <1>2, GraphStaysSo DEF InspectionInv, CandidateInv
<1>19. EndInv'
  BY <1>2 DEF InspectionInv, EndInv, VerdictIsProof
<1> QED
  BY <1>1, <1>15, <1>16, <1>17, <1>18, <1>19 DEF InspectionInv

LEMMA NothingToRemoveKeeps ==
    ASSUME InspectionInv, NothingToRemove
    PROVE  InspectionInv'
<1>1. SearchInv'
  BY SearchStep DEF InspectionInv, InspectionNext
<1>2. /\ phase = "cycle" /\ pending = {} /\ phase' = "uploads" /\ flawed' = (flawed \/ ~Sorted)
      /\ GraphStays /\ UNCHANGED <<uploads, candidates, verdict>>
  BY DEF NothingToRemove, GraphStays
<1>3. adjacency \in [Nodes -> SUBSET Nodes]
  BY DEF InspectionInv, PassInv
<1> DEFINE Into(k) == {m \in Nodes \ Removed : k \in adjacency[m]}
<1>4. /\ indegree \in [Nodes -> Nat] /\ \A k \in Nodes : indegree[k] = Cardinality(Into(k))
      /\ visited = Cardinality(Removed)
      /\ \A k \in Removed : OnNoCycle(k)
  BY <1>2 DEF InspectionInv, CycleInv
<1>5. Sorted <=> Removed = Nodes
  <2>1. Removed \subseteq Nodes
    BY DEF Removed
  <2>2. Cardinality(Removed) = Cardinality(Nodes) <=> Removed = Nodes
    BY <2>1, WorkflowAssumption, FS_Subset
  <2> QED
    BY <1>4, <2>2 DEF Sorted
<1>6. Sorted <=> \A n \in Nodes : OnNoCycle(n)
  <2>1. CASE Removed = Nodes
    BY <1>4, <1>5, <2>1
  <2>2. CASE Removed # Nodes
    <3> DEFINE S == Nodes \ Removed
    <3>1. S # {} /\ S \subseteq Nodes
      BY <2>2 DEF Removed
    <3>2. \A n \in S : \E m \in S : n \in adjacency[m]
      <4> SUFFICES ASSUME NEW n \in S PROVE Into(n) # {}
        OBVIOUS
      <4>1. n \in Nodes /\ indegree[n] # 0
        BY <1>2 DEF Removed
      <4>2. Cardinality(Into(n)) # 0
        BY <1>4, <4>1
      <4> HIDE DEF Into
      <4> QED
        BY <4>2, FS_EmptySet
    <3> HIDE DEF S
    <3>3. PICK n \in S : \E m \in adjacency[n] : n \in LeadsTo(m, adjacency)
      BY <1>3, <3>1, <3>2, FedFromWithin
    <3>4. n \in Nodes /\ ~OnNoCycle(n)
      BY <3>1, <3>3 DEF OnNoCycle
    <3> QED
      BY <1>5, <2>2, <3>4
  <2> QED
    BY <2>1, <2>2
<1>7. PassInv'
  BY <1>2, GraphStaysSo DEF InspectionInv
<1>8. FlawInv'
  <2>1. flawed <=> (\E k \in Seen : IsFlawed(k)) \/ Lacking
    BY <1>2 DEF InspectionInv, FlawInv
  <2>2. flawed' \in BOOLEAN /\ (flawed' <=> flawed \/ ~\A n \in Nodes : OnNoCycle(n))
    BY <1>2, <1>6
  <2>3. /\ Lacking' <=> Lacking
        /\ (\E k \in Seen' : IsFlawed(k)') <=> \E k \in Seen : IsFlawed(k)
        /\ (\A n \in Nodes : OnNoCycle(n)') <=> \A n \in Nodes : OnNoCycle(n)
    BY <1>2, GraphStaysSo
  <2> QED
    BY <1>2, <2>1, <2>2, <2>3 DEF FlawInv
<1>9. CycleInv'
  BY <1>2 DEF CycleInv
<1>10. CandidateInv'
  BY <1>2, GraphStaysSo DEF InspectionInv, CandidateInv
<1>11. EndInv'
  BY <1>2 DEF InspectionInv, EndInv, VerdictIsProof
<1> QED
  BY <1>1, <1>7, <1>8, <1>9, <1>10, <1>11 DEF InspectionInv

\* The steps of the candidates leave the graph, what was thought of it and the
\* verdict alone.
LEMMA CandidateSteps ==
    ASSUME InspectionInv, GraphStays, UNCHANGED <<flawed, verdict>>,
           phase \in {"uploads", "downstream", "through"}, phase' \in {"uploads", "downstream", "through"},
           SearchInv', CandidateInv'
    PROVE  InspectionInv'
<1>1. PassInv'
  BY GraphStaysSo DEF InspectionInv
<1>2. FlawInv'
  <2>1. /\ Lacking' <=> Lacking
        /\ (\E k \in Seen' : IsFlawed(k)') <=> \E k \in Seen : IsFlawed(k)
        /\ (\A n \in Nodes : OnNoCycle(n)') <=> \A n \in Nodes : OnNoCycle(n)
    BY GraphStaysSo
  <2>2. flawed' = flawed /\ phase \notin {"nodes", "cycle"} /\ phase' \notin {"nodes", "cycle"}
    OBVIOUS
  <2> QED
    BY <2>1, <2>2 DEF InspectionInv, FlawInv
<1>3. CycleInv'
  BY DEF CycleInv
<1>4. EndInv'
  BY DEF InspectionInv, EndInv, VerdictIsProof
<1> QED
  BY <1>1, <1>2, <1>3, <1>4 DEF InspectionInv

LEMMA VisitKeeps ==
    ASSUME InspectionInv, NEW n \in Nodes, Visit(n)
    PROVE  InspectionInv'
<1>1. SearchInv'
  BY SearchStep DEF InspectionInv, InspectionNext
<1>2. /\ phase \in {"downstream", "through"} /\ phase' = phase
      /\ GraphStays /\ UNCHANGED <<flawed, verdict, uploads, visited, upload, through, start, candidates>>
  BY DEF Visit, GraphStays
<1>3. CandidateInv'
  BY <1>2, GraphStaysSo DEF InspectionInv, CandidateInv
<1> QED
  BY <1>1, <1>2, <1>3, CandidateSteps

LEMMA LookAtUploadKeeps ==
    ASSUME InspectionInv, NEW n \in Nodes, LookAtUpload(n)
    PROVE  InspectionInv'
<1>1. SearchInv'
  BY SearchStep DEF InspectionInv, InspectionNext
<1>2. /\ phase = "uploads" /\ phase' = "downstream" /\ n \in uploads
      /\ upload' = n /\ uploads' = uploads \ {n} /\ start' = n
      /\ GraphStays /\ UNCHANGED <<flawed, verdict, candidates>>
  BY DEF LookAtUpload, SearchFrom, GraphStays
<1>3. CandidateInv'
  BY <1>2, GraphStaysSo DEF InspectionInv, CandidateInv
<1> QED
  BY <1>1, <1>2, <1>3, CandidateSteps

LEMMA IdentityBelowKeeps ==
    ASSUME InspectionInv, IdentityBelow
    PROVE  InspectionInv'
<1>1. SearchInv'
  BY SearchStep DEF InspectionInv, InspectionNext
<1>2. /\ phase = "downstream" /\ phase' = "through" /\ pending = {}
      /\ through' = found \cap identityNodes /\ start' = Nowhere
      /\ GraphStays /\ UNCHANGED <<flawed, verdict, uploads, upload, candidates>>
  BY DEF IdentityBelow, GraphStays
<1>3. upload \in Nodes /\ start = upload
  BY <1>2, WorkflowTyped DEF InspectionInv, CandidateInv, PassInv, Uploads, Seen
<1>4. found = LeadsTo(upload, adjacency)
  BY <1>2, <1>3, InvMeansExact, NowhereAssumption DEF InspectionInv, SearchIsExact
<1>5. through' = IdentitiesBelow(upload)
  BY <1>2, <1>4 DEF IdentitiesBelow
<1>6. CandidateInv'
  <2>1. IdentitiesBelow(upload)' = IdentitiesBelow(upload)
    BY <1>2 DEF GraphStays, IdentitiesBelow, LeadsTo, Closed
  <2> QED
    BY <1>2, <1>5, <2>1, GraphStaysSo DEF InspectionInv, CandidateInv
<1> QED
  BY <1>1, <1>2, <1>6, CandidateSteps

LEMMA TryIdentityKeeps ==
    ASSUME InspectionInv, NEW n \in Nodes, TryIdentity(n)
    PROVE  InspectionInv'
<1>1. SearchInv'
  BY SearchStep DEF InspectionInv, InspectionNext
<1>2. /\ phase = "through" /\ phase' = "through" /\ start = Nowhere /\ n \in through
      /\ through' = through \ {n} /\ start' = n
      /\ GraphStays /\ UNCHANGED <<flawed, verdict, uploads, upload, candidates>>
  BY DEF TryIdentity, SearchFrom, GraphStays
<1>3. CandidateInv'
  <2>1. IdentitiesBelow(upload)' = IdentitiesBelow(upload)
    BY <1>2 DEF GraphStays, IdentitiesBelow, LeadsTo, Closed
  <2>2. \A i \in IdentitiesBelow(upload) : i # Nowhere
    BY NowhereAssumption, WorkflowTyped DEF InspectionInv, PassInv, IdentitiesBelow, Seen
  <2> QED
    BY <1>2, <2>1, <2>2, GraphStaysSo DEF InspectionInv, CandidateInv
<1> QED
  BY <1>1, <1>2, <1>3, CandidateSteps

LEMMA TriedIdentityKeeps ==
    ASSUME InspectionInv, TriedIdentity
    PROVE  InspectionInv'
<1>1. SearchInv'
  BY SearchStep DEF InspectionInv, InspectionNext
<1>2. /\ phase = "through" /\ pending = {} /\ start # Nowhere /\ start' = Nowhere
      /\ \/ LeadsOut /\ candidates' = candidates \cup {upload} /\ phase' = "uploads"
         \/ ~LeadsOut /\ candidates' = candidates /\ phase' = "through"
      /\ GraphStays /\ UNCHANGED <<flawed, verdict, uploads, upload, through>>
  BY DEF TriedIdentity, GraphStays
<1>3. found = LeadsTo(start, adjacency)
  BY <1>2, InvMeansExact DEF InspectionInv, SearchIsExact
<1>4. LeadsOut <=> LeadsOutOf(start)
  BY <1>3 DEF LeadsOut, LeadsOutOf
<1>5. /\ start \in IdentitiesBelow(upload) /\ through \subseteq IdentitiesBelow(upload)
      /\ \A i \in IdentitiesBelow(upload) : i \in through \/ i = start \/ ~LeadsOutOf(i)
      /\ upload \in Uploads
  BY <1>2 DEF InspectionInv, CandidateInv
<1>6. LeadsOut => Fit(upload)
  BY <1>4, <1>5 DEF Fit
<1>7. /\ IdentitiesBelow(upload)' = IdentitiesBelow(upload)
      /\ \A n : LeadsOutOf(n)' <=> LeadsOutOf(n)
  BY <1>2 DEF GraphStays, IdentitiesBelow, LeadsOutOf, LeadsTo, Closed
<1>8. CandidateInv'
  BY <1>2, <1>4, <1>5, <1>6, <1>7, GraphStaysSo DEF InspectionInv, CandidateInv
<1> QED
  BY <1>1, <1>2, <1>8, CandidateSteps

LEMMA NoIdentityLeftKeeps ==
    ASSUME InspectionInv, NoIdentityLeft
    PROVE  InspectionInv'
<1>1. SearchInv'
  BY SearchStep DEF InspectionInv, InspectionNext
<1>2. /\ phase = "through" /\ start = Nowhere /\ through = {} /\ phase' = "uploads"
      /\ GraphStays /\ UNCHANGED <<flawed, verdict, uploads, upload, candidates>>
  BY DEF NoIdentityLeft, GraphStays
<1>3. ~Fit(upload)
  <2>1. \A i \in IdentitiesBelow(upload) : i # Nowhere
    BY NowhereAssumption, WorkflowTyped DEF InspectionInv, PassInv, IdentitiesBelow, Seen
  <2> QED
    BY <1>2, <2>1 DEF InspectionInv, CandidateInv, Fit
<1>4. CandidateInv'
  BY <1>2, <1>3, GraphStaysSo DEF InspectionInv, CandidateInv
<1> QED
  BY <1>1, <1>2, <1>4, CandidateSteps

LEMMA ConcludeKeeps ==
    ASSUME InspectionInv, Conclude
    PROVE  InspectionInv'
<1>1. SearchInv'
  BY SearchStep DEF InspectionInv, InspectionNext
<1>2. /\ phase = "uploads" /\ uploads = {} /\ phase' = "done" /\ unseen = {}
      /\ verdict' = IF Nodes \subseteq workflow.reported /\ ~flawed /\ FitForRole
                    THEN "provider_compatible" ELSE "incompatible"
      /\ GraphStays /\ UNCHANGED <<flawed, uploads, candidates>>
  BY DEF Conclude, GraphStays, InspectionInv, PassInv
<1>3. /\ workflow \in Workflows /\ adjacency \in [Nodes -> SUBSET Nodes]
      /\ Seen = workflow.reported /\ workflow.reported \subseteq Nodes /\ workflow.complete \subseteq Nodes
      /\ workflow.texts \subseteq Nodes
      /\ \A link \in workflow.links : link = <<link[1], link[2]>> /\ link[1] \in Nodes /\ link[2] \in Nodes
  BY <1>2, WorkflowTyped DEF InspectionInv, PassInv, Seen
<1>4. PassInv'
  BY <1>2, GraphStaysSo DEF InspectionInv
<1>5. FlawInv'
  <2>1. /\ Lacking' <=> Lacking
        /\ (\E k \in Seen' : IsFlawed(k)') <=> \E k \in Seen : IsFlawed(k)
        /\ (\A n \in Nodes : OnNoCycle(n)') <=> \A n \in Nodes : OnNoCycle(n)
    BY <1>2, GraphStaysSo
  <2> QED
    BY <1>2, <2>1 DEF InspectionInv, FlawInv
<1>6. CycleInv'
  BY <1>2 DEF CycleInv
<1>7. CandidateInv'
  BY <1>2, GraphStaysSo DEF InspectionInv, CandidateInv
<1>8. candidates # {} <=> \E u \in Uploads : Fit(u)
  BY <1>2 DEF InspectionInv, CandidateInv
<1>9. flawed <=> (\E n \in Seen : IsFlawed(n)) \/ Lacking \/ ~\A n \in Nodes : OnNoCycle(n)
  BY <1>2 DEF InspectionInv, FlawInv
<1> DEFINE Plain == workflow.reported = Nodes /\ workflow.complete = Nodes /\ workflow.links \subseteq workflow.typed
<1>10. workflow.reported = Nodes => ((\E n \in Seen : IsFlawed(n)) <=> ~Plain)
  <2> SUFFICES ASSUME workflow.reported = Nodes PROVE (\A n \in Nodes : ~IsFlawed(n)) <=> Plain
    BY <1>3
  <2>1. ASSUME Plain, NEW n \in Nodes PROVE ~IsFlawed(n)
    BY <2>1 DEF IsFlawed, Typed
  <2>2. ASSUME \A n \in Nodes : ~IsFlawed(n) PROVE Plain
    <3>1. workflow.complete = Nodes
      BY <1>3, <2>2 DEF IsFlawed
    <3>2. ASSUME NEW link \in workflow.links PROVE link \in workflow.typed
      <4>1. link = <<link[1], link[2]>> /\ link[1] \in Nodes /\ link[2] \in Nodes
        BY <1>3
      <4>2. <<link[1], link[2]>> \in workflow.links => Typed(link[1], link[2])
        BY <2>2, <4>1 DEF IsFlawed
      <4> QED
        BY <4>1, <4>2 DEF Typed
    <3> QED
      BY <3>1, <3>2
  <2> QED
    BY <2>1, <2>2
<1>11. Plain => adjacency = Feeds
  <2> SUFFICES ASSUME Plain PROVE adjacency = Feeds
    OBVIOUS
  <2>1. \A m \in Nodes, n \in Nodes : n \in adjacency[m] <=> <<m, n>> \in workflow.links
    <3> SUFFICES ASSUME NEW m \in Nodes, NEW n \in Nodes PROVE n \in adjacency[m] <=> <<m, n>> \in workflow.links
      OBVIOUS
    <3>1. n \in adjacency[m] <=> Typed(m, n)
      BY <1>3 DEF InspectionInv, PassInv
    <3> QED
      BY <3>1 DEF Typed
  <2>2. \A m \in Nodes : adjacency[m] = {n \in Nodes : <<m, n>> \in workflow.links}
    BY <1>3, <2>1
  <2> QED
    BY <1>3, <2>2 DEF Feeds
<1>12. outputNodes = workflow.reported \cap workflow.outputs /\ identityNodes = workflow.reported \cap workflow.identity
       /\ workflow.outputs \subseteq Nodes /\ workflow.identity \subseteq Nodes /\ workflow.uploads \subseteq Nodes
       /\ Uploads = workflow.reported \cap workflow.uploads
  BY <1>3, WorkflowTyped DEF InspectionInv, PassInv, Uploads
<1>13. ASSUME Plain
       PROVE  /\ (\A n \in Nodes : OnNoCycle(n)) <=>
                   \A n \in Nodes, m \in Nodes : m \in Feeds[n] => n \notin LeadsTo(m, Feeds)
              /\ (\E u \in Uploads : Fit(u)) <=>
                   \E u \in workflow.uploads : \E i \in workflow.identity \cap LeadsTo(u, Feeds) :
                      workflow.outputs \cap LeadsTo(i, Feeds) # {}
              /\ outputNodes = workflow.outputs /\ identityNodes = workflow.identity
              /\ workflow.texts \cap workflow.reported = workflow.texts
  <2>1. adjacency = Feeds /\ outputNodes = workflow.outputs /\ identityNodes = workflow.identity
        /\ Uploads = workflow.uploads /\ workflow.texts \cap workflow.reported = workflow.texts
    BY <1>3, <1>11, <1>12, <1>13
  <2>2. (\A n \in Nodes : OnNoCycle(n)) <=> \A n \in Nodes, m \in Nodes : m \in Feeds[n] => n \notin LeadsTo(m, Feeds)
    BY <1>3, <2>1 DEF OnNoCycle
  <2>3. (\E u \in Uploads : Fit(u)) <=>
           \E u \in workflow.uploads : \E i \in workflow.identity \cap LeadsTo(u, Feeds) :
              workflow.outputs \cap LeadsTo(i, Feeds) # {}
    BY <2>1 DEF Fit, IdentitiesBelow, LeadsOutOf
  <2> QED
    BY <2>1, <2>2, <2>3
<1> DEFINE Accepted == Nodes \subseteq workflow.reported /\ ~flawed /\ FitForRole
<1>14. Accepted => Proven
  <2> SUFFICES ASSUME Accepted PROVE Proven
    OBVIOUS
  <2>1. workflow.reported = Nodes
    BY <1>3
  <2>2. Plain /\ ~Lacking /\ \A n \in Nodes : OnNoCycle(n)
    BY <1>9, <1>10, <2>1
  <2> HIDE DEF Plain
  <2>3. workflow.outputs # {}
    BY <1>13, <2>2 DEF Lacking
  <2>4. \A n \in Nodes, m \in Nodes : m \in Feeds[n] => n \notin LeadsTo(m, Feeds)
    BY <1>13, <2>2
  <2>5. IF workflow.conditioned
        THEN \E u \in workflow.uploads : \E i \in workflow.identity \cap LeadsTo(u, Feeds) :
                workflow.outputs \cap LeadsTo(i, Feeds) # {}
        ELSE workflow.texts # {}
    BY <1>8, <1>13, <2>2 DEF FitForRole
  <2> QED
    BY <2>2, <2>3, <2>4, <2>5 DEF Proven, Plain
<1>15. Proven => Accepted
  <2> SUFFICES ASSUME Proven PROVE Accepted
    OBVIOUS
  <2>1. Plain
    BY DEF Proven
  <2>2. IF workflow.conditioned THEN \E u \in Uploads : Fit(u) ELSE workflow.texts # {}
    BY <1>13, <2>1 DEF Proven
  <2>3. ~Lacking
    <3>1. workflow.conditioned => identityNodes # {}
      BY <2>2 DEF Fit, IdentitiesBelow
    <3>2. outputNodes # {}
      BY <1>13, <2>1 DEF Proven
    <3> QED
      BY <3>1, <3>2 DEF Lacking
  <2>4. \A n \in Nodes : OnNoCycle(n)
    BY <1>13, <2>1 DEF Proven
  <2>5. ~flawed
    BY <1>9, <1>10, <2>1, <2>3, <2>4
  <2>6. FitForRole
    BY <1>8, <1>13, <2>1, <2>2 DEF FitForRole
  <2> QED
    BY <2>1, <2>5, <2>6
<1>16. EndInv'
  <2>1. Proven' <=> Proven
    BY <1>2 DEF GraphStays, Proven, Feeds, LeadsTo, Closed
  <2>2. verdict' = "provider_compatible" <=> Proven
    BY <1>2, <1>14, <1>15
  <2> QED
    BY <1>2, <2>1, <2>2 DEF EndInv, VerdictIsProof
<1> QED
  BY <1>1, <1>4, <1>5, <1>6, <1>7, <1>16 DEF InspectionInv

LEMMA VerdictStep == InspectionInv /\ [InspectionNext]_inspectionVars => InspectionInv'
<1> SUFFICES ASSUME InspectionInv, [InspectionNext]_inspectionVars PROVE InspectionInv'
  OBVIOUS
<1>1. ASSUME NEW n \in Nodes, LookAtNode(n) \/ RemoveNode(n) \/ Visit(n) \/ LookAtUpload(n) \/ TryIdentity(n)
      PROVE  InspectionInv'
  BY <1>1, LookAtNodeKeeps, RemoveNodeKeeps, VisitKeeps, LookAtUploadKeeps, TryIdentityKeeps
<1>2. CASE CountEdges \/ NothingToRemove \/ IdentityBelow
  BY <1>2, CountEdgesKeeps, NothingToRemoveKeeps, IdentityBelowKeeps
<1>3. CASE TriedIdentity \/ NoIdentityLeft \/ Conclude
  BY <1>3, TriedIdentityKeeps, NoIdentityLeftKeeps, ConcludeKeeps
<1>4. CASE UNCHANGED inspectionVars
  <2>1. GraphStays /\ SearchInv'
        /\ UNCHANGED <<phase, flawed, uploads, indegree, pending, visited, upload, through, start, candidates, verdict>>
    BY <1>4, SearchStep DEF inspectionVars, GraphStays, InspectionInv
  <2>2. PassInv'
    BY <2>1, GraphStaysSo DEF InspectionInv
  <2>3. FlawInv'
    <3>1. /\ Lacking' <=> Lacking
          /\ (\E k \in Seen' : IsFlawed(k)') <=> \E k \in Seen : IsFlawed(k)
          /\ (\A n \in Nodes : OnNoCycle(n)') <=> \A n \in Nodes : OnNoCycle(n)
      BY <2>1, GraphStaysSo
    <3> QED
      BY <2>1, <3>1 DEF InspectionInv, FlawInv
  <2>4. CycleInv'
    <3>1. /\ \A n : OnNoCycle(n)' <=> OnNoCycle(n)
          /\ Removed' = Removed
      BY <2>1, GraphStaysSo DEF Removed
    <3>2. CASE phase = "cycle"
      <4>1. /\ indegree' \in [Nodes -> Nat]
            /\ \A n \in Nodes : indegree'[n] = Cardinality({m \in Nodes \ Removed : n \in adjacency'[m]})
            /\ pending' \subseteq Nodes /\ \A n \in pending' : indegree'[n] = 0
            /\ visited' = Cardinality(Removed)
        BY <2>1, <3>2 DEF InspectionInv, CycleInv, GraphStays
      <4>2. \A n \in Removed' : OnNoCycle(n)'
        BY <3>1, <3>2 DEF InspectionInv, CycleInv
      <4> QED
        BY <3>1, <4>1, <4>2 DEF CycleInv
    <3>3. CASE phase # "cycle"
      BY <2>1, <3>3 DEF CycleInv
    <3> QED
      BY <3>2, <3>3
  <2>5. CandidateInv'
    <3>1. IdentitiesBelow(upload)' = IdentitiesBelow(upload) /\ \A n : LeadsOutOf(n)' <=> LeadsOutOf(n)
      BY <2>1 DEF GraphStays, IdentitiesBelow, LeadsOutOf, LeadsTo, Closed
    <3> QED
      BY <2>1, <3>1, GraphStaysSo DEF InspectionInv, CandidateInv
  <2>6. EndInv'
    <3>1. Proven' <=> Proven
      BY <2>1 DEF GraphStays, Proven, Feeds, LeadsTo, Closed
    <3> QED
      BY <2>1, <3>1 DEF InspectionInv, EndInv, VerdictIsProof
  <2> QED
    BY <2>1, <2>2, <2>3, <2>4, <2>5, <2>6 DEF InspectionInv
<1> QED
  BY <1>1, <1>2, <1>3, <1>4 DEF InspectionNext

\* For every workflow and every report on its nodes, in whatever order the sets of
\* the code are gone through: a workflow is accepted exactly when its inputs are
\* complete, its links typed, it has no cycle and, if it is conditioned, a path
\* leads from an upload through an identity node to an output.
\* (_inspect_comfyui_object_info, _has_cycle, _reachable)
THEOREM VerdictsAreProofs == InspectionSpec => []VerdictIsProof
<1>1. InspectionInv => VerdictIsProof
  BY DEF InspectionInv, EndInv
<1> QED
  BY <1>1, VerdictStarts, VerdictStep, PTL DEF InspectionSpec

-----------------------------------------------------------------------------
(* The persona's photos.  Why a photo is sent under consent only: whatever a  *)
(* queued comparison, or one being asked for, still has to send is approved   *)
(* and held under consent, or about to be unlinked or cancelled, or was left   *)
(* out when the persona was deleted.                                          *)
HeldProfiles ==
    [consent : {"not_granted", "granted", "withdrawn"}, status : {"draft", "active", "disabled"},
     revision : 0..MaxRevision, required : BOOLEAN]
Profiles ==
    [consent : {"not_granted", "granted", "withdrawn"}, status : {"draft", "active", "disabled", "erased"},
     revision : 0..MaxRevision, required : BOOLEAN]
Refs ==
    [review : {"none", "pending", "approved", "rejected", "deleted"}, path : BOOLEAN, primary : BOOLEAN]
ProfileOps == {"put", "grant", "withdraw", "compare"}
RefOps == {"add", "approve", "reject", "delete"}

ReadRows ==
    [op : ProfileOps \cup RefOps \cup {"none"}, ref : References \cup {0}, profile : HeldProfiles,
     row : Refs, photos : SUBSET References]

IdentityTypes ==
    /\ profile \in Profiles
    /\ ref \in [References -> Refs]
    /\ files \subseteq References /\ sent \subseteq References /\ overlooked \subseteq References
    /\ slow \in ReadRows
    /\ erasing \in [step : {"none", "listed", "cancelled"}, cancel : BOOLEAN, photos : SUBSET References]
    /\ cleanup \in [cancel : BOOLEAN, unlink : SUBSET References]
    /\ comparison \in [status : {"none", "queued", "running", "done", "error", "cancelled"},
                       photos : SUBSET References]

\* A row with a file is a photo that was added and not deleted, and a late
\* handler of one that has its file has read it so.  Handlers end with the persona.
PathHeld ==
    /\ \A r \in References : ref[r].path => HeldReference(r)
    /\ slow.op \in RefOps => slow.ref \in References
    /\ slow.op \in {"approve", "reject", "delete"} =>
         /\ ref[slow.ref].review # "none"
         /\ ref[slow.ref].path => slow.row.path
    /\ slow.op # "none" => Allowed(slow)
    /\ profile.status = "erased" => slow.op = "none"

Asked == slow.op = "compare"
\* What may still be sent.
ToSend == (IF Comparing THEN comparison.photos ELSE {}) \cup (IF Asked THEN slow.photos ELSE {})
\* What keeps a photo from being sent.
Stopped(r) == r \in cleanup.unlink \/ (cleanup.cancel /\ Comparing /\ ~(Asked /\ r \in slow.photos))
PhotosInv ==
    /\ profile.status # "erased" => overlooked = {} /\ \A r \in ToSend : ref[r].review # "none"
    /\ \A r \in (ToSend \cap files) \ overlooked :
         /\ ref[r].path \/ Stopped(r)
         /\ profile.consent = "granted" \/ Stopped(r)
IdentityInv == IdentityTypes /\ PathHeld /\ PhotosInv

LEMMA ProfileWritten ==
    ASSUME profile \in Profiles, NEW h \in ReadRows, NEW wanted \in HeldProfiles, WriteProfile(h, wanted)
    PROVE  /\ profile' \in Profiles
           /\ profile.status # "erased" => profile'.status # "erased"
           /\ profile'.consent = IF wanted.consent # h.profile.consent THEN wanted.consent ELSE profile.consent
<1> DEFINE full == [wanted EXCEPT !.revision = Profile(h.profile).revision + 1]
<1>1. h.profile \in HeldProfiles
  BY DEF ReadRows
<1>2. Profile(h.profile).revision \in Nat /\ Profile(h.profile).revision + 1 \in 0..MaxRevision
  BY <1>1, IdentityAssumption DEF WriteProfile, Profile, HeldProfiles
<1>3. full \in HeldProfiles /\ full.consent = wanted.consent
  BY <1>2 DEF HeldProfiles
<1>4. /\ DOMAIN profile = {"consent", "status", "revision", "required"}
      /\ profile' = Merged(profile, h.profile, full)
  BY DEF WriteProfile, Profiles
<1>5. profile' = [consent |-> IF full.consent # h.profile.consent THEN full.consent ELSE profile.consent,
                  status |-> IF full.status # h.profile.status THEN full.status ELSE profile.status,
                  revision |-> IF full.revision # h.profile.revision THEN full.revision ELSE profile.revision,
                  required |-> IF full.required # h.profile.required THEN full.required ELSE profile.required]
  <2> HIDE DEF full
  <2> QED
    BY <1>4 DEF Merged
<1> HIDE DEF full
<1> QED
  BY <1>1, <1>3, <1>5 DEF Profiles, HeldProfiles

LEMMA RowWritten ==
    ASSUME NEW now \in Refs, NEW seen \in Refs, NEW wanted \in Refs
    PROVE  /\ Merged(now, seen, wanted) \in Refs
           /\ Merged(now, seen, wanted).review = IF wanted.review # seen.review THEN wanted.review ELSE now.review
           /\ Merged(now, seen, wanted).path = IF wanted.path # seen.path THEN wanted.path ELSE now.path
<1>1. DOMAIN now = {"review", "path", "primary"}
  BY DEF Refs
<1>2. Merged(now, seen, wanted) =
        [review |-> IF wanted.review # seen.review THEN wanted.review ELSE now.review,
         path |-> IF wanted.path # seen.path THEN wanted.path ELSE now.path,
         primary |-> IF wanted.primary # seen.primary THEN wanted.primary ELSE now.primary]
  BY <1>1 DEF Merged
<1> QED
  BY <1>2 DEF Refs

LEMMA RowRead ==
    ASSUME IdentityTypes, profile.status # "erased", NEW op \in ProfileOps \cup RefOps, NEW r \in References \cup {0}
    PROVE  Read(op, r) \in ReadRows
<1>1. NoRef \in Refs
  BY DEF NoRef, Refs
<1>2. {q \in References : ref[q].path /\ (op = "compare" => ref[q].review = "approved")} \in SUBSET References
  OBVIOUS
<1>3. (IF r \in References THEN ref[r] ELSE NoRef) \in Refs
  BY <1>1 DEF IdentityTypes
<1>4. profile \in HeldProfiles
  BY DEF IdentityTypes, Profiles, HeldProfiles
<1> QED
  BY <1>2, <1>3, <1>4 DEF Read, ReadRows

\* What a handler knows of its row, late or not.
LEMMA HandlersRead ==
    ASSUME IdentityTypes, PathHeld, NEW op \in ProfileOps \cup RefOps, NEW r \in References \cup {0},
           NEW h \in Handlers(op, r)
    PROVE  /\ h \in ReadRows /\ h.op = op /\ h.ref = r
           /\ profile.status # "erased"
           /\ h = slow \/ h = Read(op, r)
           /\ op \in {"approve", "reject", "delete"} /\ r \in References /\ Allowed(h) =>
                /\ h.row.review \notin {"none", "deleted"}
                /\ ref[r].review # "none"
                /\ ref[r].path => h.row.path
<1>1. \/ h = slow /\ h.op = op /\ h.ref = r
      \/ h = Read(op, r) /\ profile.status # "erased"
  <2> DEFINE fresh == IF profile.status = "erased" THEN {} ELSE {Read(op, r)}
  <2>1. h \in fresh \/ (h = slow /\ h.op = op /\ h.ref = r)
    BY DEF Handlers
  <2> QED
    BY <2>1
<1>2. CASE h = slow /\ h.op = op /\ h.ref = r
  <2>1. op \in {"approve", "reject", "delete"} => slow.op \in {"approve", "reject", "delete"}
    BY <1>2
  <2>2. slow \in ReadRows
    BY DEF IdentityTypes
  <2>3. slow.op \in {"approve", "reject", "delete"} =>
          /\ slow.row.review \notin {"none", "deleted"} /\ ref[slow.ref].review # "none"
          /\ ref[slow.ref].path => slow.row.path
    BY DEF PathHeld, Allowed
  <2>4. h \in ReadRows /\ h = slow /\ slow.op = op /\ slow.ref = r
    BY <1>2, <2>2
  <2>5. op \in {"approve", "reject", "delete"} =>
          /\ h.row.review \notin {"none", "deleted"} /\ ref[r].review # "none"
          /\ ref[r].path => h.row.path
    BY <2>3, <2>4
  <2>6. profile.status # "erased"
    BY <2>4 DEF PathHeld, ProfileOps, RefOps
  <2> QED
    BY <2>4, <2>5, <2>6
<1>3. CASE h = Read(op, r) /\ profile.status # "erased"
  <2>1. h \in ReadRows /\ h.op = op /\ h.ref = r
    BY <1>3, RowRead DEF Read
  <2>2. r \in References => h.row = ref[r]
    BY <1>3 DEF Read
  <2> QED
    BY <1>3, <2>1, <2>2 DEF Allowed
<1> QED
  BY <1>1, <1>2, <1>3

MadePrimary(refs, r) == [refs EXCEPT ![r].primary = TRUE]

\* A row is deleted, approved or rejected as it is now, and another one may
\* become the primary one.
LEMMA RowsWritten ==
    ASSUME ref \in [References -> Refs], NEW h \in ReadRows, h.ref \in References, NEW wanted \in Refs,
           NEW after, after \in {WithRow(h, wanted), Succeeded(h, WithRow(h, wanted)),
                                 MadePrimary(WithRow(h, wanted), h.ref)}
    PROVE  /\ after \in [References -> Refs]
           /\ \A q \in References :
                /\ after[q].review = Merged(ref[q], h.row, wanted).review \/ q # h.ref
                /\ after[q].path = Merged(ref[q], h.row, wanted).path \/ q # h.ref
                /\ q # h.ref => after[q].review = ref[q].review /\ after[q].path = ref[q].path
<1> DEFINE written == WithRow(h, wanted)
<1>1. h.row \in Refs
  BY DEF ReadRows
<1>2. Merged(ref[h.ref], h.row, wanted) \in Refs
  BY <1>1, RowWritten
<1>3. /\ written \in [References -> Refs]
      /\ written[h.ref] = Merged(ref[h.ref], h.row, wanted)
      /\ \A q \in References \ {h.ref} : written[q] = ref[q]
  BY <1>2 DEF WithRow
<1> HIDE DEF written
<1>4. ASSUME NEW later, later \in {Succeeded(h, written), MadePrimary(written, h.ref)}
      PROVE  /\ later \in [References -> Refs]
             /\ \A q \in References : later[q].review = written[q].review /\ later[q].path = written[q].path
  <2>1. later = written \/ \E x : later = [written EXCEPT ![x].primary = TRUE]
    BY <1>4 DEF Succeeded, MadePrimary
  <2>2. ASSUME NEW q \in References
        PROVE  later[q] = written[q] \/ later[q] = [written[q] EXCEPT !.primary = TRUE]
    BY <1>3, <2>1
  <2>3. ASSUME NEW q \in References
        PROVE  later[q] \in Refs /\ later[q].review = written[q].review /\ later[q].path = written[q].path
    <3> DEFINE row == written[q]
    <3>1. row \in Refs
      BY <1>3
    <3> HIDE DEF row
    <3>2. [row EXCEPT !.primary = TRUE] \in Refs
      BY <3>1 DEF Refs
    <3>3. [row EXCEPT !.primary = TRUE].review = row.review /\ [row EXCEPT !.primary = TRUE].path = row.path
      BY <3>1 DEF Refs
    <3>4. later[q] = row \/ later[q] = [row EXCEPT !.primary = TRUE]
      BY <2>2 DEF row
    <3>5. /\ later[q] \in Refs
          /\ later[q].review = row.review /\ later[q].path = row.path
      BY <3>1, <3>2, <3>3, <3>4
    <3> QED
      BY <3>5 DEF row
  <2>4. later = [q \in References |-> later[q]]
    BY <1>3, <2>1
  <2> QED
    BY <2>3, <2>4
<1>5. after = written \/ after \in {Succeeded(h, written), MadePrimary(written, h.ref)}
  BY DEF written
<1>6. /\ after \in [References -> Refs]
      /\ \A q \in References : after[q].review = written[q].review /\ after[q].path = written[q].path
  BY <1>3, <1>4, <1>5
<1> QED
  BY <1>3, <1>6

\* What a handler that ends leaves to the rest.
LEMMA StillHeld ==
    ASSUME IdentityTypes, IdentityTypes', PathHeld, slow' \in {slow, NoHandler},
           profile'.status = "erased" => profile.status = "erased",
           \A r \in References :
               /\ ref'[r].path => ref'[r].review \notin {"none", "deleted"}
               /\ ref'[r].path => ref[r].path \/ ref[r].review = "none"
               /\ ref[r].review # "none" => ref'[r].review # "none"
    PROVE  PathHeld'
<1>1. CASE slow' = slow
  <2>1. Allowed(slow)' <=> Allowed(slow)
    BY <1>1 DEF Allowed
  <2>2. slow.op \in {"approve", "reject", "delete"} => slow.ref \in References
    BY DEF PathHeld, RefOps
  <2> QED
    BY <1>1, <2>1, <2>2 DEF PathHeld, HeldReference
<1>2. CASE slow' = NoHandler
  BY <1>2 DEF PathHeld, HeldReference, NoHandler, RefOps
<1> QED
  BY <1>1, <1>2

LEMMA StillSafe ==
    ASSUME IdentityInv, IdentityTypes', slow' \in {slow, NoHandler}, UNCHANGED <<comparison, cleanup, overlooked>>,
           profile.status = "erased" => profile'.status = "erased",
           \A r \in ToSend :
               /\ r \in files' => r \in files
               /\ ref[r].review # "none" => ref'[r].review # "none"
               /\ ref[r].path => ref'[r].path,
           profile.consent = "granted" => profile'.consent = "granted"
    PROVE  PhotosInv'
<1>1. ToSend' \subseteq ToSend
  BY DEF ToSend, Asked, Comparing, NoHandler
<1>2. \A r \in References : Stopped(r) => Stopped(r)'
  BY DEF Stopped, Asked, Comparing, NoHandler
<1>3. ToSend \subseteq References
  BY DEF ToSend, IdentityInv, IdentityTypes, ReadRows
<1> QED
  BY <1>1, <1>2, <1>3 DEF IdentityInv, PhotosInv

LEMMA PhotosStart == IdentityInit => IdentityInv
<1> SUFFICES ASSUME IdentityInit PROVE IdentityInv
  OBVIOUS
<1>1. NoProfile \in HeldProfiles /\ NoProfile \in Profiles /\ NoRef \in Refs
  BY IdentityAssumption DEF NoProfile, NoRef, HeldProfiles, Profiles, Refs
<1>2. NoHandler \in ReadRows
  BY <1>1 DEF NoHandler, ReadRows
<1>3. IdentityTypes
  BY <1>1, <1>2 DEF IdentityInit, IdentityTypes, NoErasure, NoCleanup, NoComparison
<1>4. PathHeld
  BY DEF IdentityInit, PathHeld, NoRef, NoHandler, RefOps
<1>5. ToSend = {}
  BY DEF IdentityInit, ToSend, Asked, Comparing, NoHandler, NoComparison
<1> QED
  BY <1>3, <1>4, <1>5 DEF IdentityInit, IdentityInv, PhotosInv

LEMMA HandlerEnds ==
    ASSUME IdentityInv, NEW h \in ReadRows, Finished(h)
    PROVE  slow' \in {slow, NoHandler} /\ slow' \in ReadRows
<1>1. NoHandler \in ReadRows
  BY IdentityAssumption DEF NoHandler, NoProfile, NoRef, ReadRows, HeldProfiles, Refs
<1> QED
  BY <1>1 DEF Finished, IdentityInv, IdentityTypes

\* Handlers of the profile alone.
LEMMA SaveProfileKeeps ==
    ASSUME IdentityInv, \/ \E required \in BOOLEAN : SaveProfile(required)
                        \/ GrantConsent
    PROVE  IdentityInv'
<1>1. \E op \in {"put", "grant"} : \E h \in Handlers(op, 0), wanted \in HeldProfiles :
         /\ WriteProfile(h, wanted) /\ Finished(h) /\ UNCHANGED <<ref, files, cleanup, comparison, sent, erasureVars>>
         /\ wanted.consent \in {h.profile.consent, "granted"}
  <2>1. CASE \E required \in BOOLEAN : SaveProfile(required)
    <3>1. PICK required \in BOOLEAN : SaveProfile(required)
      BY <2>1
    <3>2. PICK h \in Handlers("put", 0) :
            /\ WriteProfile(h, [h.profile EXCEPT !.required = required])
            /\ Finished(h) /\ UNCHANGED <<ref, files, cleanup, comparison, sent, erasureVars>>
      BY <3>1 DEF SaveProfile
    <3>3. h.profile \in HeldProfiles
      BY HandlersRead DEF IdentityInv, ProfileOps, ReadRows
    <3>4. /\ [h.profile EXCEPT !.required = required] \in HeldProfiles
          /\ [h.profile EXCEPT !.required = required].consent = h.profile.consent
      BY <3>3 DEF HeldProfiles
    <3> QED
      BY <3>2, <3>4
  <2>2. CASE GrantConsent
    <3>1. PICK h \in Handlers("grant", 0) :
            /\ WriteProfile(h, [h.profile EXCEPT !.consent = "granted",
                                  !.status = IF ApprovedReferences(ref) = {} THEN "draft" ELSE "active"])
            /\ Finished(h) /\ UNCHANGED <<ref, files, cleanup, comparison, sent, erasureVars>>
      BY <2>2 DEF GrantConsent
    <3> DEFINE wanted == [h.profile EXCEPT !.consent = "granted",
                            !.status = IF ApprovedReferences(ref) = {} THEN "draft" ELSE "active"]
    <3>2. h.profile \in HeldProfiles
      BY HandlersRead DEF IdentityInv, ProfileOps, ReadRows
    <3>3. wanted \in HeldProfiles /\ wanted.consent = "granted"
      BY <3>2 DEF HeldProfiles
    <3> QED
      BY <3>1, <3>3
  <2> QED
    BY <2>1, <2>2
<1>2. PICK op \in {"put", "grant"} : \E h \in Handlers(op, 0), wanted \in HeldProfiles :
         /\ WriteProfile(h, wanted) /\ Finished(h) /\ UNCHANGED <<ref, files, cleanup, comparison, sent, erasureVars>>
         /\ wanted.consent \in {h.profile.consent, "granted"}
  BY <1>1
<1>3. PICK h \in Handlers(op, 0) : \E wanted \in HeldProfiles :
         /\ WriteProfile(h, wanted) /\ Finished(h) /\ UNCHANGED <<ref, files, cleanup, comparison, sent, erasureVars>>
         /\ wanted.consent \in {h.profile.consent, "granted"}
  BY <1>2
<1>4. PICK wanted \in HeldProfiles :
         /\ WriteProfile(h, wanted) /\ Finished(h) /\ UNCHANGED <<ref, files, cleanup, comparison, sent, erasureVars>>
         /\ wanted.consent \in {h.profile.consent, "granted"}
  BY <1>3
<1>5. h \in ReadRows /\ profile \in Profiles /\ profile.status # "erased"
  BY HandlersRead DEF IdentityInv, IdentityTypes, ProfileOps
<1>6. /\ profile' \in Profiles /\ profile'.status # "erased"
      /\ profile.consent = "granted" => profile'.consent = "granted"
  BY <1>4, <1>5, ProfileWritten
<1>7. slow' \in {slow, NoHandler} /\ slow' \in ReadRows
  BY <1>4, <1>5, HandlerEnds
<1>8. IdentityTypes'
  BY <1>4, <1>6, <1>7 DEF IdentityInv, IdentityTypes, erasureVars
<1>9. PathHeld'
  BY <1>4, <1>6, <1>7, <1>8, StillHeld DEF IdentityInv, PathHeld, HeldReference
<1>10. PhotosInv'
  BY <1>4, <1>5, <1>6, <1>7, <1>8, StillSafe DEF erasureVars
<1> QED
  BY <1>8, <1>9, <1>10 DEF IdentityInv

\* A new photo: its file, and its row.
LEMMA AddReferenceKeeps ==
    ASSUME IdentityInv, NEW r \in References, WriteReferenceFile(r) \/ AddReference(r)
    PROVE  IdentityInv'
<1>1. CASE WriteReferenceFile(r)
  <2>1. IdentityTypes'
    BY <1>1 DEF WriteReferenceFile, IdentityInv, IdentityTypes, erasureVars
  <2>2. PathHeld'
    BY <1>1, <2>1, StillHeld DEF WriteReferenceFile, IdentityInv, PathHeld, HeldReference
  <2>3. r \notin ToSend
    BY <1>1 DEF WriteReferenceFile, IdentityInv, PhotosInv, NoRef
  <2>4. PhotosInv'
    BY <1>1, <2>1, <2>3, StillSafe DEF WriteReferenceFile, erasureVars
  <2> QED
    BY <2>1, <2>2, <2>4 DEF IdentityInv
<1>2. CASE AddReference(r)
  <2> DEFINE added == [NoRef EXCEPT !.review = "pending", !.path = TRUE]
  <2>1. PICK h \in Handlers("add", r) :
          /\ r \in files /\ ref[r] = NoRef
          /\ IF Allowed(h) THEN ref' = [ref EXCEPT ![r] = added] /\ UNCHANGED files
             ELSE files' = files \ {r} /\ UNCHANGED ref
          /\ Finished(h) /\ UNCHANGED <<profile, cleanup, comparison, sent, erasureVars>>
    BY <1>2 DEF AddReference
  <2>2. h \in ReadRows
    BY HandlersRead DEF IdentityInv, RefOps
  <2>3. slow' \in {slow, NoHandler} /\ slow' \in ReadRows
    BY <2>1, <2>2, HandlerEnds
  <2>4. added \in Refs /\ added.review = "pending" /\ added.path
    BY DEF NoRef, Refs
  <2> HIDE DEF added
  <2>5. ref' \in [References -> Refs] /\ files' \subseteq files
    BY <2>1, <2>4 DEF IdentityInv, IdentityTypes
  <2>6. \A q \in References : ref'[q] = ref[q] \/ (q = r /\ ref'[q] = added)
    BY <2>1 DEF IdentityInv, IdentityTypes
  <2>7. ~ref[r].path /\ ref[r].review = "none"
    BY <2>1 DEF NoRef
  <2>8. IdentityTypes'
    BY <2>1, <2>3, <2>5 DEF IdentityInv, IdentityTypes, erasureVars
  <2>9. PathHeld'
    <3>1. \A q \in References : ref[q].path => ref[q].review \notin {"none", "deleted"}
      BY DEF IdentityInv, PathHeld, HeldReference
    <3> QED
      BY <2>1, <2>3, <2>4, <2>6, <2>7, <2>8, <3>1, StillHeld DEF IdentityInv
  <2>10. PhotosInv'
    <3>1. ToSend \subseteq References
      BY DEF ToSend, IdentityInv, IdentityTypes, ReadRows
    <3> QED
      BY <2>1, <2>3, <2>4, <2>5, <2>6, <2>8, <3>1, StillSafe DEF erasureVars
  <2> QED
    BY <2>8, <2>9, <2>10 DEF IdentityInv
<1> QED
  BY <1>1, <1>2

\* Rows that stay held keep their files, except the one a handler deletes.
LEMMA ReviewKeeps ==
    ASSUME IdentityInv, NEW r \in References, ApproveReference(r) \/ RejectReference(r)
    PROVE  IdentityInv'
<1> DEFINE approved(h) == [h.row EXCEPT !.review = "approved"]
           rejected(h) == [h.row EXCEPT !.review = "rejected", !.primary = FALSE]
<1>1. \E op \in {"approve", "reject"} : \E h \in Handlers(op, r) : \E wanted \in Refs, new \in HeldProfiles :
         /\ Allowed(h) /\ Finished(h)
         /\ wanted.review \in {"approved", "rejected"} /\ wanted.path = h.row.path
         /\ ref' \in {WithRow(h, wanted), Succeeded(h, WithRow(h, wanted)),
                      MadePrimary(WithRow(h, wanted), h.ref)}
         /\ WriteProfile(h, new) /\ new.consent = h.profile.consent
         /\ UNCHANGED <<files, cleanup, comparison, sent, erasureVars>>
  <2>1. CASE ApproveReference(r)
    <3> DEFINE activated(h) == [h.profile EXCEPT !.status = "active"]
    <3>1. PICK h \in Handlers("approve", r) :
            /\ Allowed(h) /\ Finished(h) /\ UNCHANGED <<files, cleanup, comparison, sent, erasureVars>>
            /\ \/ ref' = WithRow(h, approved(h))
               \/ ref' = MadePrimary(WithRow(h, approved(h)), r)
            /\ WriteProfile(h, activated(h))
      BY <2>1 DEF ApproveReference, MadePrimary
    <3>2. h \in ReadRows /\ h.ref = r
      BY HandlersRead DEF IdentityInv, RefOps
    <3>3. approved(h) \in Refs /\ approved(h).review = "approved" /\ approved(h).path = h.row.path
      BY <3>2 DEF ReadRows, Refs
    <3>4. activated(h) \in HeldProfiles /\ activated(h).consent = h.profile.consent
      BY <3>2 DEF ReadRows, HeldProfiles
    <3> HIDE DEF approved, activated
    <3>5. ref' \in {WithRow(h, approved(h)), Succeeded(h, WithRow(h, approved(h))),
                    MadePrimary(WithRow(h, approved(h)), h.ref)}
      BY <3>1, <3>2
    <3> QED
      BY <3>1, <3>3, <3>4, <3>5
  <2>2. CASE RejectReference(r)
    <3> DEFINE demoted(h) == [h.profile EXCEPT !.status = IF ApprovedReferences(ref') = {} THEN "draft" ELSE @]
    <3>1. PICK h \in Handlers("reject", r) :
            /\ Allowed(h) /\ Finished(h) /\ UNCHANGED <<files, cleanup, comparison, sent, erasureVars>>
            /\ ref' = Succeeded(h, WithRow(h, rejected(h)))
            /\ WriteProfile(h, demoted(h))
      BY <2>2 DEF RejectReference
    <3>2. h \in ReadRows /\ h.ref = r
      BY HandlersRead DEF IdentityInv, RefOps
    <3>3. rejected(h) \in Refs /\ rejected(h).review = "rejected" /\ rejected(h).path = h.row.path
      BY <3>2 DEF ReadRows, Refs
    <3>4. demoted(h) \in HeldProfiles /\ demoted(h).consent = h.profile.consent
      BY <3>2 DEF ReadRows, HeldProfiles
    <3> HIDE DEF rejected, demoted
    <3> QED
      BY <3>1, <3>3, <3>4
  <2> QED
    BY <2>1, <2>2
<1>2. PICK op \in {"approve", "reject"} : \E h \in Handlers(op, r) : \E wanted \in Refs, new \in HeldProfiles :
         /\ Allowed(h) /\ Finished(h)
         /\ wanted.review \in {"approved", "rejected"} /\ wanted.path = h.row.path
         /\ ref' \in {WithRow(h, wanted), Succeeded(h, WithRow(h, wanted)),
                      MadePrimary(WithRow(h, wanted), h.ref)}
         /\ WriteProfile(h, new) /\ new.consent = h.profile.consent
         /\ UNCHANGED <<files, cleanup, comparison, sent, erasureVars>>
  BY <1>1
<1>3. PICK h \in Handlers(op, r) : \E wanted \in Refs, new \in HeldProfiles :
         /\ Allowed(h) /\ Finished(h)
         /\ wanted.review \in {"approved", "rejected"} /\ wanted.path = h.row.path
         /\ ref' \in {WithRow(h, wanted), Succeeded(h, WithRow(h, wanted)),
                      MadePrimary(WithRow(h, wanted), h.ref)}
         /\ WriteProfile(h, new) /\ new.consent = h.profile.consent
         /\ UNCHANGED <<files, cleanup, comparison, sent, erasureVars>>
  BY <1>2
<1>4. PICK wanted \in Refs, new \in HeldProfiles :
         /\ Allowed(h) /\ Finished(h)
         /\ wanted.review \in {"approved", "rejected"} /\ wanted.path = h.row.path
         /\ ref' \in {WithRow(h, wanted), Succeeded(h, WithRow(h, wanted)),
                      MadePrimary(WithRow(h, wanted), h.ref)}
         /\ WriteProfile(h, new) /\ new.consent = h.profile.consent
         /\ UNCHANGED <<files, cleanup, comparison, sent, erasureVars>>
  BY <1>3
<1>5. h \in ReadRows /\ h.ref = r /\ profile \in Profiles /\ ref \in [References -> Refs] /\ h.row \in Refs
  BY HandlersRead DEF IdentityInv, IdentityTypes, RefOps, ReadRows
<1>6. ref[r].review # "none" /\ (ref[r].path => h.row.path) /\ profile.status # "erased"
  BY <1>4, HandlersRead DEF IdentityInv, RefOps
<1>7. profile' \in Profiles /\ profile'.consent = profile.consent /\ profile'.status # "erased"
  BY <1>4, <1>5, <1>6, ProfileWritten
<1>8. slow' \in {slow, NoHandler} /\ slow' \in ReadRows
  BY <1>4, <1>5, HandlerEnds
<1>9. /\ ref' \in [References -> Refs]
      /\ \A q \in References : q # r => ref'[q].review = ref[q].review /\ ref'[q].path = ref[q].path
      /\ ref'[r].review = Merged(ref[r], h.row, wanted).review
      /\ ref'[r].path = Merged(ref[r], h.row, wanted).path
  <2>1. /\ ref' \in [References -> Refs]
        /\ \A q \in References :
             /\ ref'[q].review = Merged(ref[q], h.row, wanted).review \/ q # h.ref
             /\ ref'[q].path = Merged(ref[q], h.row, wanted).path \/ q # h.ref
             /\ q # h.ref => ref'[q].review = ref[q].review /\ ref'[q].path = ref[q].path
    <3>1. h.ref \in References /\ ref \in [References -> Refs] /\ h \in ReadRows /\ wanted \in Refs
      BY <1>4, <1>5
    <3>2. CASE ref' = WithRow(h, wanted)
      BY <3>1, <3>2, RowsWritten
    <3>3. CASE ref' = Succeeded(h, WithRow(h, wanted))
      BY <3>1, <3>3, RowsWritten
    <3>4. CASE ref' = MadePrimary(WithRow(h, wanted), h.ref)
      BY <3>1, <3>4, RowsWritten
    <3> QED
      BY <1>4, <3>2, <3>3, <3>4
  <2> QED
    BY <1>5, <2>1
<1>10. /\ ref'[r].path = ref[r].path
       /\ ref'[r].review \in {wanted.review, ref[r].review}
  <2>1. ref[r] \in Refs
    BY <1>5
  <2> QED
    BY <1>4, <1>5, <1>9, <2>1, RowWritten
<1>11. IdentityTypes'
  BY <1>4, <1>7, <1>8, <1>9 DEF IdentityInv, IdentityTypes, erasureVars
<1>12. \A q \in References : ref[q].path => ref[q].review \notin {"none", "deleted"}
  BY DEF IdentityInv, PathHeld, HeldReference
<1>13. PathHeld'
  BY <1>4, <1>6, <1>7, <1>8, <1>9, <1>10, <1>11, <1>12, StillHeld DEF IdentityInv
<1>14. ToSend \subseteq References
  BY DEF ToSend, IdentityInv, IdentityTypes, ReadRows
<1>15. PhotosInv'
  BY <1>4, <1>6, <1>7, <1>8, <1>9, <1>10, <1>11, <1>14, StillSafe DEF erasureVars
<1> QED
  BY <1>11, <1>13, <1>15 DEF IdentityInv

\* Deleting one photo: its file is among those to be unlinked, also when the
\* handler is late.
LEMMA DeleteReferenceKeeps ==
    ASSUME IdentityInv, NEW r \in References, DeleteReference(r)
    PROVE  IdentityInv'
<1> DEFINE new(h) == [h.profile EXCEPT !.status =
                        IF ApprovedReferences(ref') # {} THEN @
                        ELSE IF h.profile.consent = "granted" THEN "draft" ELSE "disabled"]
<1>1. PICK h \in Handlers("delete", r) :
        /\ Allowed(h) /\ cleanup = NoCleanup
        /\ ref' = Succeeded(h, WithRow(h, DeletedRef))
        /\ WriteProfile(h, new(h))
        /\ cleanup' = [cancel |-> FALSE, unlink |-> IF h.row.path THEN {r} ELSE {}]
        /\ Finished(h) /\ UNCHANGED <<files, comparison, sent, erasureVars>>
  BY DEF DeleteReference
<1>2. h \in ReadRows /\ h.ref = r /\ profile \in Profiles /\ ref \in [References -> Refs] /\ h.row \in Refs
  <2>1. h \in ReadRows /\ h.ref = r
    BY HandlersRead DEF IdentityInv, RefOps
  <2> QED
    BY <2>1 DEF IdentityInv, IdentityTypes, ReadRows
<1>3. /\ ref[r].review # "none" /\ (ref[r].path => h.row.path)
      /\ h.row.review \notin {"none", "deleted"} /\ profile.status # "erased"
  BY <1>1, HandlersRead DEF IdentityInv, RefOps
<1>4. new(h) \in HeldProfiles /\ new(h).consent = h.profile.consent
  BY <1>2 DEF ReadRows, HeldProfiles
<1> HIDE DEF new
<1>5. profile' \in Profiles /\ profile'.consent = profile.consent /\ profile'.status # "erased"
  BY <1>1, <1>2, <1>3, <1>4, ProfileWritten
<1>6. slow' \in {slow, NoHandler} /\ slow' \in ReadRows
  BY <1>1, <1>2, HandlerEnds
<1>7. DeletedRef \in Refs /\ DeletedRef.review = "deleted" /\ DeletedRef.path = FALSE
  BY DEF DeletedRef, NoRef, Refs
<1>8. /\ ref' \in [References -> Refs]
      /\ \A q \in References : q # r => ref'[q].review = ref[q].review /\ ref'[q].path = ref[q].path
      /\ ref'[r].review = Merged(ref[r], h.row, DeletedRef).review
      /\ ref'[r].path = Merged(ref[r], h.row, DeletedRef).path
  BY <1>1, <1>2, <1>7, RowsWritten
<1>9. ref'[r].path = FALSE /\ ref'[r].review = "deleted"
  <2>1. ref[r] \in Refs
    BY <1>2
  <2>2. h.row.path \in BOOLEAN /\ ref[r].path \in BOOLEAN
    BY <1>2, <2>1 DEF Refs
  <2> QED
    BY <1>2, <1>3, <1>7, <1>8, <2>1, <2>2, RowWritten
<1>10. IdentityTypes'
  BY <1>1, <1>5, <1>6, <1>8 DEF IdentityInv, IdentityTypes, erasureVars
<1>11. \A q \in References : ref[q].path => ref[q].review \notin {"none", "deleted"}
  BY DEF IdentityInv, PathHeld, HeldReference
<1>12. PathHeld'
  BY <1>1, <1>3, <1>5, <1>6, <1>8, <1>9, <1>10, <1>11, StillHeld DEF IdentityInv
<1>13. ToSend \subseteq References /\ ToSend' \subseteq ToSend
  BY <1>1, <1>6 DEF ToSend, Asked, Comparing, NoHandler, IdentityInv, IdentityTypes, ReadRows
<1>14. overlooked = {} /\ overlooked' = {} /\ \A q \in ToSend : ref'[q].review # "none"
  BY <1>1, <1>3, <1>8, <1>9, <1>13 DEF IdentityInv, PhotosInv, erasureVars
<1>15. ASSUME NEW q \in ToSend \cap files
       PROVE  /\ ref[q].path /\ profile.consent = "granted"
              /\ q = r => q \in cleanup'.unlink
  <2>1. ~Stopped(q)
    BY <1>1 DEF Stopped, NoCleanup
  <2>2. ref[q].path /\ profile.consent = "granted"
    BY <1>14, <2>1 DEF IdentityInv, PhotosInv
  <2> QED
    BY <1>1, <1>3, <2>2
<1>16. ASSUME NEW q \in ToSend' \cap files'
       PROVE  profile'.consent = "granted" /\ (ref'[q].path \/ Stopped(q)')
  BY <1>1, <1>5, <1>8, <1>13, <1>15 DEF Stopped
<1>17. PhotosInv'
  BY <1>13, <1>14, <1>16 DEF PhotosInv
<1> QED
  BY <1>10, <1>12, <1>17 DEF IdentityInv

\* Withdrawing: every photo that has a file is deleted and will be unlinked.
LEMMA WithdrawConsentKeeps ==
    ASSUME IdentityInv, WithdrawConsent
    PROVE  IdentityInv'
<1> DEFINE new(h) == [h.profile EXCEPT !.consent = "withdrawn", !.status = "disabled"]
<1>1. PICK h \in Handlers("withdraw", 0) :
        /\ cleanup = NoCleanup
        /\ WriteProfile(h, new(h))
        /\ ref' = [r \in References |-> IF HeldReference(r) THEN DeletedRef ELSE ref[r]]
        /\ cleanup' = [cancel |-> Comparing, unlink |-> WithdrawnFiles]
        /\ Finished(h) /\ UNCHANGED <<files, comparison, sent, erasureVars>>
  BY DEF WithdrawConsent
<1>2. h \in ReadRows /\ profile \in Profiles /\ profile.status # "erased"
  BY HandlersRead DEF IdentityInv, IdentityTypes, ProfileOps
<1>3. new(h) \in HeldProfiles
  BY <1>2 DEF ReadRows, HeldProfiles
<1> HIDE DEF new
<1>4. profile' \in Profiles /\ profile'.status # "erased"
  BY <1>1, <1>2, <1>3, ProfileWritten
<1>5. slow' \in {slow, NoHandler} /\ slow' \in ReadRows
  BY <1>1, <1>2, HandlerEnds
<1>6. DeletedRef \in Refs /\ DeletedRef.review = "deleted" /\ DeletedRef.path = FALSE
  BY DEF DeletedRef, NoRef, Refs
<1>7. ref' \in [References -> Refs] /\ WithdrawnFiles \in SUBSET References /\ Comparing \in BOOLEAN
  BY <1>1, <1>6 DEF IdentityInv, IdentityTypes, WithdrawnFiles, Comparing
<1>8. IdentityTypes'
  BY <1>1, <1>4, <1>5, <1>7 DEF IdentityInv, IdentityTypes, erasureVars
<1>9. \A q \in References :
        /\ ref[q].path => HeldReference(q)
        /\ ref'[q] = DeletedRef \/ (ref'[q] = ref[q] /\ ~HeldReference(q))
  BY <1>1 DEF IdentityInv, PathHeld
<1>10. PathHeld'
  BY <1>4, <1>5, <1>6, <1>8, <1>9, StillHeld DEF IdentityInv, HeldReference
<1>11. ToSend \subseteq References /\ ToSend' \subseteq ToSend
  BY <1>1, <1>5 DEF ToSend, Asked, Comparing, NoHandler, IdentityInv, IdentityTypes, ReadRows
<1>12. overlooked = {} /\ overlooked' = {} /\ \A q \in ToSend' : ref'[q].review # "none"
  BY <1>1, <1>2, <1>6, <1>9, <1>11 DEF IdentityInv, PhotosInv, erasureVars
<1>13. ASSUME NEW q \in ToSend' \cap files' PROVE q \in cleanup'.unlink
  <2>1. ~Stopped(q)
    BY <1>1 DEF Stopped, NoCleanup
  <2>2. q \in References /\ ref[q].path
    BY <1>1, <1>11, <1>12, <2>1 DEF IdentityInv, PhotosInv
  <2>3. q \in WithdrawnFiles
    BY <1>9, <2>2 DEF WithdrawnFiles
  <2> QED
    BY <1>1, <2>3
<1>14. PhotosInv'
  BY <1>12, <1>13 DEF PhotosInv, Stopped
<1> QED
  BY <1>8, <1>10, <1>14 DEF IdentityInv

\* Deleting the persona: the listed photos will be unlinked, and of the ones
\* that were added since, a comparison that is not cancelled has its share.
LEMMA ErasureKeeps ==
    ASSUME IdentityInv, ListErasure \/ CancelListed \/ ErasePersona
    PROVE  IdentityInv'
<1>1. NoProfile \in HeldProfiles /\ NoRef \in Refs
  BY IdentityAssumption DEF NoProfile, NoRef, HeldProfiles, Refs
<1>2. NoHandler \in ReadRows /\ [NoProfile EXCEPT !.status = "erased"] \in Profiles
  BY <1>1 DEF NoHandler, ReadRows, Profiles, HeldProfiles
<1>3. CASE ListErasure
  <2>1. {r \in References : ref[r].path} \in SUBSET References /\ Comparing \in BOOLEAN
    BY DEF Comparing
  <2>2. IdentityTypes'
    BY <1>3, <2>1 DEF ListErasure, IdentityInv, IdentityTypes
  <2> QED
    BY <1>3, <2>2 DEF ListErasure, IdentityInv, PathHeld, HeldReference, Allowed, PhotosInv, ToSend, Stopped,
                      Asked, Comparing
<1>4. CASE CancelListed
  <2>1. comparison' = comparison \/ (Comparing /\ comparison' = [comparison EXCEPT !.status = "cancelled"])
    BY <1>4 DEF CancelListed, CancelComparison
  <2>2. erasing' \in [step : {"none", "listed", "cancelled"}, cancel : BOOLEAN, photos : SUBSET References]
    BY <1>4 DEF CancelListed, IdentityInv, IdentityTypes
  <2>3. IdentityTypes'
    BY <1>4, <2>1, <2>2 DEF CancelListed, IdentityInv, IdentityTypes
  <2>4. PathHeld'
    BY <1>4 DEF CancelListed, IdentityInv, PathHeld, HeldReference, Allowed
  <2>5. ToSend' \subseteq ToSend /\ \A q \in ToSend' : Stopped(q) => Stopped(q)'
    BY <1>4, <2>1 DEF CancelListed, ToSend, Stopped, Asked, Comparing, IdentityInv, IdentityTypes
  <2>6. PhotosInv'
    BY <1>4, <2>5 DEF CancelListed, IdentityInv, PhotosInv
  <2> QED
    BY <2>3, <2>4, <2>6 DEF IdentityInv
<1>5. CASE ErasePersona
  <2>1. /\ profile' \in Profiles /\ profile'.status = "erased"
        /\ ref' = [r \in References |-> NoRef] /\ files' \subseteq files
        /\ cleanup' = [cancel |-> FALSE, unlink |-> erasing.photos]
        /\ overlooked' = IF Comparing THEN comparison.photos \ erasing.photos ELSE {}
        /\ slow' = NoHandler /\ erasing' = NoErasure /\ UNCHANGED <<comparison, sent>>
    BY <1>2, <1>5 DEF ErasePersona, NoProfile
  <2>2. erasing.photos \in SUBSET References /\ comparison.photos \in SUBSET References
    BY DEF IdentityInv, IdentityTypes
  <2>3. IdentityTypes'
    BY <1>1, <1>2, <2>1, <2>2 DEF IdentityInv, IdentityTypes, NoErasure
  <2>4. PathHeld'
    BY <2>1 DEF PathHeld, HeldReference, NoRef, NoHandler, RefOps
  <2>5. ToSend' = IF Comparing THEN comparison.photos ELSE {}
    BY <2>1 DEF ToSend, Asked, Comparing, NoHandler
  <2>6. \A r \in ToSend' \ overlooked' : r \in cleanup'.unlink
    BY <2>1, <2>5
  <2>7. PhotosInv'
    BY <2>1, <2>6 DEF PhotosInv, Stopped
  <2> QED
    BY <2>3, <2>4, <2>7 DEF IdentityInv
<1> QED
  BY <1>3, <1>4, <1>5

\* Nothing is left to send when a restart is over.
LEMMA PhotosRestart ==
    ASSUME IdentityInv, RestartIdentity
    PROVE  IdentityInv'
<1>1. NoHandler \in ReadRows
  BY IdentityAssumption DEF NoHandler, NoProfile, NoRef, ReadRows, HeldProfiles, Refs
<1>2. IdentityTypes'
  BY <1>1 DEF RestartIdentity, IdentityInv, IdentityTypes, NoCleanup, NoErasure
<1>3. ToSend' = {}
  BY DEF RestartIdentity, ToSend, Asked, Comparing, NoHandler
<1>4. PathHeld'
  BY DEF RestartIdentity, IdentityInv, PathHeld, HeldReference, NoHandler, RefOps
<1>5. PhotosInv'
  BY <1>3 DEF RestartIdentity, IdentityInv, PhotosInv
<1> QED
  BY <1>2, <1>4, <1>5 DEF IdentityInv

LEMMA CleanUpKeeps ==
    ASSUME IdentityInv, CleanUp
    PROVE  IdentityInv'
<1>1. IdentityTypes'
  BY DEF CleanUp, CancelComparison, IdentityInv, IdentityTypes, NoCleanup, erasureVars
<1>2. PathHeld'
  BY DEF CleanUp, IdentityInv, PathHeld, HeldReference, Allowed
<1>3. ToSend' \subseteq ToSend
  BY DEF CleanUp, CancelComparison, ToSend, Asked, Comparing, IdentityInv, IdentityTypes
<1>4. ASSUME NEW q \in ToSend' \cap files' PROVE ~Stopped(q)
  <2>1. q \notin cleanup.unlink
    BY DEF CleanUp
  <2>2. cleanup.cancel /\ Comparing => Asked /\ q \in slow.photos
    BY DEF CleanUp, CancelComparison, ToSend, Asked, Comparing, IdentityInv, IdentityTypes
  <2> QED
    BY <2>1, <2>2 DEF Stopped
<1>5. PhotosInv'
  BY <1>3, <1>4 DEF CleanUp, IdentityInv, PhotosInv, erasureVars
<1> QED
  BY <1>1, <1>2, <1>5 DEF IdentityInv

\* What a handler of the comparison has read is approved and has its file.
LEMMA BeginProfileCallKeeps ==
    ASSUME IdentityInv, NEW op \in ProfileOps \cup RefOps, NEW r \in References \cup {0},
           op \in RefOps => r \in References, BeginProfileCall(op, r)
    PROVE  IdentityInv'
<1>1. Read(op, r) \in ReadRows /\ Read(op, r).op = op /\ Read(op, r).ref = r
  BY RowRead DEF BeginProfileCall, IdentityInv, Read
<1>2. IdentityTypes'
  BY <1>1 DEF BeginProfileCall, IdentityInv, IdentityTypes, erasureVars
<1>3. r \in References => Read(op, r).row = ref[r]
  BY DEF Read
<1>4. Allowed(Read(op, r))
  BY DEF BeginProfileCall
<1>5. Allowed(slow)'
  BY <1>4 DEF BeginProfileCall, Allowed
<1>6. op \in {"approve", "reject", "delete"} => r \in References /\ ref[r].review # "none"
  BY <1>1, <1>3, <1>4 DEF Allowed, RefOps
<1>7. PathHeld'
  BY <1>1, <1>3, <1>5, <1>6 DEF BeginProfileCall, IdentityInv, PathHeld, HeldReference
<1>8. op = "compare" =>
        /\ profile.consent = "granted"
        /\ \A q \in Read(op, r).photos : q \in References /\ ref[q].path /\ ref[q].review = "approved"
  BY <1>4 DEF Read, Allowed
<1>9. ASSUME NEW q \in ToSend'
      PROVE  q \in ToSend \/ (op = "compare" /\ q \in Read(op, r).photos)
  BY <1>1 DEF BeginProfileCall, ToSend, Asked, Comparing
<1>10. ASSUME NEW q, Stopped(q) PROVE Stopped(q)' \/ (op = "compare" /\ q \in Read(op, r).photos)
  BY <1>1, <1>10 DEF BeginProfileCall, Stopped, Asked, Comparing
<1>11. PhotosInv'
  <2>1. UNCHANGED <<ref, files, profile, overlooked>> /\ profile.status # "erased" /\ overlooked = {}
    BY DEF BeginProfileCall, erasureVars, IdentityInv, PhotosInv
  <2>2. ASSUME NEW q \in ToSend'
        PROVE  /\ ref[q].review # "none"
               /\ q \in files => /\ ref[q].path \/ Stopped(q)'
                                 /\ profile.consent = "granted" \/ Stopped(q)'
    BY <1>8, <1>9, <1>10, <2>1 DEF IdentityInv, PhotosInv
  <2> QED
    BY <2>1, <2>2 DEF PhotosInv
<1> QED
  BY <1>2, <1>7, <1>11 DEF IdentityInv

LEMMA ValidateMediaKeeps ==
    ASSUME IdentityInv, ValidateMedia
    PROVE  IdentityInv'
<1>1. PICK h \in Handlers("compare", 0) :
        /\ Allowed(h) /\ comparison = NoComparison
        /\ comparison' = [status |-> "queued", photos |-> h.photos]
        /\ Finished(h) /\ UNCHANGED <<profile, ref, files, cleanup, sent, erasureVars>>
  BY DEF ValidateMedia
<1>2. h \in ReadRows /\ h.op = "compare" /\ (h = slow \/ h = Read("compare", 0)) /\ profile.status # "erased"
  BY HandlersRead DEF IdentityInv, ProfileOps
<1>3. slow' \in {slow, NoHandler} /\ slow' \in ReadRows
  BY <1>1, <1>2, HandlerEnds
<1>4. h.photos \subseteq References
  BY <1>2 DEF ReadRows
<1>5. IdentityTypes'
  BY <1>1, <1>3, <1>4 DEF IdentityInv, IdentityTypes, erasureVars
<1>6. PathHeld'
  BY <1>1, <1>3, <1>5, StillHeld DEF IdentityInv, PathHeld, HeldReference
<1>7. ~Comparing
  BY <1>1 DEF Comparing, NoComparison
<1>8. ASSUME NEW q \in ToSend' PROVE q \in ToSend \/ (h = Read("compare", 0) /\ q \in h.photos)
  BY <1>1, <1>2, <1>3 DEF ToSend, Asked, Comparing, NoHandler
<1>9. ASSUME NEW q \in References, Stopped(q) PROVE Stopped(q)'
  BY <1>1, <1>7, <1>9 DEF Stopped
<1>10. h = Read("compare", 0) =>
         /\ profile.consent = "granted"
         /\ \A q \in h.photos : ref[q].path /\ ref[q].review = "approved"
  BY <1>1 DEF Read, Allowed
<1>11. ToSend \subseteq References
  BY DEF ToSend, IdentityInv, IdentityTypes, ReadRows
<1>12. PhotosInv'
  <2>1. overlooked = {} /\ overlooked' = {}
    BY <1>1, <1>2 DEF IdentityInv, PhotosInv, erasureVars
  <2>2. ASSUME NEW q \in ToSend'
        PROVE  /\ ref[q].review # "none"
               /\ q \in files => /\ ref[q].path \/ Stopped(q)'
                                 /\ profile.consent = "granted" \/ Stopped(q)'
    BY <1>2, <1>8, <1>9, <1>10, <1>11, <2>1 DEF IdentityInv, PhotosInv
  <2> QED
    BY <1>1, <2>1, <2>2 DEF PhotosInv
<1> QED
  BY <1>5, <1>6, <1>12 DEF IdentityInv

\* The comparison itself.
LEMMA ComparisonKeeps ==
    ASSUME IdentityInv,
           \/ StartComparison
           \/ \E r \in References : ComparePhoto(r)
           \/ \E ending \in {"done", "error"} : EndComparison(ending)
    PROVE  IdentityInv'
<1>1. /\ UNCHANGED <<profile, ref, files, slow, cleanup, erasing, overlooked>>
      /\ Comparing
      /\ comparison' \in [status : {"running", "done", "error"}, photos : SUBSET comparison.photos]
      /\ sent' \subseteq References
  BY DEF StartComparison, ComparePhoto, EndComparison, Comparing, IdentityInv, IdentityTypes,
         erasureVars
<1>2. IdentityTypes'
  BY <1>1 DEF IdentityInv, IdentityTypes
<1>3. PathHeld'
  BY <1>1 DEF IdentityInv, PathHeld, HeldReference, Allowed
<1>4. ToSend' \subseteq ToSend
  BY <1>1 DEF ToSend, Asked, Comparing
<1>5. ASSUME NEW q \in ToSend', Stopped(q) PROVE Stopped(q)'
  BY <1>1, <1>5 DEF Stopped, ToSend, Asked, Comparing
<1>6. PhotosInv'
  BY <1>1, <1>4, <1>5 DEF IdentityInv, PhotosInv
<1> QED
  BY <1>2, <1>3, <1>6 DEF IdentityInv

LEMMA PhotosStep == IdentityInv /\ [IdentityNext]_identityVars => IdentityInv'
<1> SUFFICES ASSUME IdentityInv, [IdentityNext]_identityVars PROVE IdentityInv'
  OBVIOUS
<1>1. CASE ProfileStep
  <2>1. ASSUME NEW r \in References, NEW op \in {"add", "approve", "reject", "delete"}, BeginProfileCall(op, r)
        PROVE  IdentityInv'
    BY <2>1, BeginProfileCallKeeps DEF RefOps
  <2>2. ASSUME NEW op \in {"put", "grant", "withdraw"}, BeginProfileCall(op, 0)
        PROVE  IdentityInv'
    BY <2>2, BeginProfileCallKeeps DEF RefOps, ProfileOps
  <2> QED
    BY <1>1, <2>1, <2>2, SaveProfileKeeps, WithdrawConsentKeeps, CleanUpKeeps, AddReferenceKeeps, ReviewKeeps,
       DeleteReferenceKeeps DEF ProfileStep
<1>2. CASE ComparisonStep
  <2>1. BeginProfileCall("compare", 0) => IdentityInv'
    BY BeginProfileCallKeeps DEF RefOps, ProfileOps
  <2> QED
    BY <1>2, <2>1, ErasureKeeps, ValidateMediaKeeps, ComparisonKeeps DEF ComparisonStep
<1>3. CASE RestartIdentity
  BY <1>3, PhotosRestart
<1>4. CASE UNCHANGED identityVars
  BY <1>4 DEF identityVars, IdentityInv, IdentityTypes, PathHeld, HeldReference, Allowed, PhotosInv, ToSend,
              Stopped, Asked, Comparing
<1> QED
  BY <1>1, <1>2, <1>3, <1>4 DEF IdentityNext

\* A photo reaches the comparison service only under consent, or before the
\* handler that took it back has cleaned up (IdentityService: withdraw_consent,
\* prepare_persona_deletion, validate_media and the comparison job), for every
\* number of photos and however the handlers overlap; but for photos that were
\* added and compared between the steps of the persona's deletion.
THEOREM PhotosAreSentUnderConsent == IdentitySpec => ConsentHolds
<1> DEFINE Consented ==
      sent' # sent => \/ profile.consent = "granted" \/ cleanup # NoCleanup
                      \/ sent' \ sent \subseteq overlooked
<1>1. IdentityInv => IdentityTypeOK
  BY DEF IdentityInv, IdentityTypes, IdentityTypeOK, Profiles, Refs
<1>2. IdentityInv /\ [IdentityNext]_identityVars => Consented
  <2> SUFFICES ASSUME IdentityInv, [IdentityNext]_identityVars, sent' # sent
               PROVE  \/ profile.consent = "granted" \/ cleanup # NoCleanup
                      \/ sent' \ sent \subseteq overlooked
    OBVIOUS
  <2>1. PICK r \in References : ComparePhoto(r)
    BY DEF identityVars, IdentityNext, ProfileStep, ComparisonStep, BeginProfileCall, SaveProfile, GrantConsent,
           WithdrawConsent, CleanUp, WriteReferenceFile, AddReference, ApproveReference, RejectReference,
           DeleteReference, ListErasure, CancelListed, ErasePersona, ValidateMedia, StartComparison,
           EndComparison, RestartIdentity
  <2>2. r \in ToSend \cap files /\ sent' \ sent \subseteq {r}
    BY <2>1 DEF ComparePhoto, Readable, ToSend, Comparing
  <2>3. r \in overlooked \/ profile.consent = "granted" \/ Stopped(r)
    BY <2>2 DEF IdentityInv, PhotosInv
  <2> QED
    BY <2>2, <2>3 DEF Stopped, NoCleanup
<1> QED
  BY PhotosStart, PhotosStep, <1>1, <1>2, PTL DEF IdentitySpec, ConsentHolds, SentUnderConsent

-----------------------------------------------------------------------------
(* Plans.  Why an equal revision stands for an equal row: unless an edit that  *)
(* was overtaken has written it, an edit gives a row a higher revision, and    *)
(* what is changed without one (its pairing, when the model goes) is not used  *)
(* any more.                                                                   *)
ResourceRows ==
    [state : {"enabled", "disabled", "gone"}, revision : 1..MaxEdits + 1, identity : BOOLEAN, paired : BOOLEAN]
PresetStates ==
    [state : {"enabled", "disabled", "gone"}, revision : 0..MaxEdits + 1, settings : BOOLEAN]
Runs == [mode : {"none", "plain", "unconditioned", "conditioned"}, photos : SUBSET savedPlan.photos]

PlanTypes ==
    /\ resource \in [Resources -> ResourceRows]
    /\ preset \in [PresetIds -> PresetStates]
    /\ edits \in 0..MaxEdits /\ overtaken \subseteq Resources \cup PresetIds
    /\ savedPlan.status \in {"none", "ready", "blocked"}
    /\ savedPlan.mode \in {"plain", "unconditioned", "conditioned"}
    /\ savedPlan.status # "ready" => savedPlan.photos = {}
    /\ run \in Runs

\* A revision counts edits; making the automatic preset anew is one that
\* comes after its deletion.
RevisionsCount ==
    /\ \A x \in Resources : resource[x].revision <= edits + 1
    /\ \A p \in PresetIds : preset[p].revision <= (IF preset[p].state = "gone" THEN edits ELSE edits + 1)

\* An edit changes a row that it has read, and counts on what it has read.
EditFits(e) ==
    /\ e.id \in Resources \cup PresetIds
    /\ e.id \in Resources => e.seen \in ResourceRows /\ e.wanted \in ResourceRows
    /\ e.id \in PresetIds => e.seen \in PresetStates /\ e.wanted \in PresetStates
    /\ e.wanted.revision = e.seen.revision + 1 /\ e.wanted.state # "gone"
LateInv ==
    lateEdit # NoEdit =>
        /\ EditFits(lateEdit) /\ lateEdit.wanted.revision <= edits + 1
        /\ lateEdit.id \in Resources => resource[lateEdit.id].state # "gone"
        /\ lateEdit.id \in PresetIds => preset[lateEdit.id].state # "gone"

PinnedRow(x) ==
    /\ x \in Resources
    /\ savedPlan.pinned[x] \in ResourceRows
    /\ x \notin overtaken =>
         /\ savedPlan.pinned[x].revision <= resource[x].revision
         /\ savedPlan.pinned[x].revision = resource[x].revision =>
              \/ resource[x] = savedPlan.pinned[x]
              \/ "gone" \in {resource[x].state, resource["model"].state}
PinnedPreset(p) ==
    /\ p \in PresetIds
    /\ savedPlan.presetRow \in PresetStates
    /\ p \notin overtaken =>
         /\ savedPlan.presetRow.revision <= preset[p].revision
         /\ savedPlan.presetRow.revision = preset[p].revision =>
              preset[p] = savedPlan.presetRow \/ preset[p].state = "gone"
PlanPinned ==
    savedPlan.status = "ready" =>
        /\ "model" \in DOMAIN savedPlan.pinned /\ \A x \in DOMAIN savedPlan.pinned : PinnedRow(x)
        /\ \A p \in {savedPlan.preset} : PinnedPreset(p)
PlanInv == PlanTypes /\ RevisionsCount /\ LateInv /\ PlanPinned

\* A plan is blocked, or pins a preset and resources that are there, the model
\* among them.
Pins(made) ==
    \/ /\ made.status = "blocked" /\ made.mode = "plain" /\ made.photos = {}
    \/ /\ made.status = "ready" /\ made.mode \in {"plain", "unconditioned", "conditioned"}
       /\ \E s : /\ "model" \in s /\ \A x \in s : Enabled(x)
                 /\ made.pinned = [x \in s |-> resource[x]]
       /\ made.preset \in PresetIds /\ made.presetRow = preset'[made.preset]

LEMMA ReadyPins ==
    ASSUME NEW persona, NEW c \in PlanChoices(persona), NEW mode \in {"plain", "unconditioned", "conditioned"},
           NEW photos
    PROVE  Pins(ReadyPlan(c, mode, photos))
<1> DEFINE s == Selected(c[1], c[2])
           made == ReadyPlan(c, mode, photos)
<1>1. \A x \in s : Enabled(x)
  BY DEF PlanChoices, Suits
<1>2. "model" \in s
  BY DEF Selected
<1>3. made.status = "ready" /\ made.mode = mode /\ made.pinned = [x \in s |-> resource[x]]
  BY DEF ReadyPlan
<1>4. made.preset \in PresetIds /\ made.presetRow = preset'[made.preset]
  BY DEF ReadyPlan, PlanChoices
<1>5. Pins(made)
  <2> HIDE DEF made, s
  <2> QED
    BY <1>1, <1>2, <1>3, <1>4 DEF Pins
<1> QED
  BY <1>5

LEMMA BlockedPins ==
    ASSUME NEW persona
    PROVE  Pins(Blocked(persona))
BY DEF Pins, Blocked, NoPlan

LEMMA BuiltPins ==
    ASSUME NEW persona, NEW made \in Built(persona)
    PROVE  Pins(made)
<1>1. ASSUME made \in Fallback PROVE Pins(made)
  <2>1. made = Blocked(TRUE) \/ \E c \in PlanChoices(FALSE) : made = ReadyPlan(c, "unconditioned", {})
    BY <1>1 DEF Fallback
  <2> QED
    BY <2>1, BlockedPins, ReadyPins
<1>2. \/ made \in {Blocked(FALSE), Blocked(TRUE)}
      \/ made \in Fallback
      \/ \E c \in PlanChoices(FALSE) : made = ReadyPlan(c, "plain", {})
      \/ \E c \in PlanChoices(TRUE) : made = ReadyPlan(c, "conditioned", Bound(c))
  <2>1. CASE ~persona
    BY <2>1 DEF Built
  <2>2. CASE persona /\ PlanChoices(TRUE) # {}
    <3>1. made \in UNION {IF Bound(c) # {} THEN {ReadyPlan(c, "conditioned", Bound(c))} ELSE Fallback :
                            c \in PlanChoices(TRUE)}
      BY <2>2 DEF Built
    <3>2. \E c \in PlanChoices(TRUE) : made \in IF Bound(c) # {} THEN {ReadyPlan(c, "conditioned", Bound(c))} ELSE Fallback
      BY <3>1
    <3> QED
      BY <3>2
  <2>3. CASE persona /\ PlanChoices(TRUE) = {}
    BY <2>3 DEF Built
  <2> QED
    BY <2>1, <2>2, <2>3
<1> QED
  BY <1>1, <1>2, BlockedPins, ReadyPins

LEMMA PlansStart == PlanningInit => PlanInv
<1> SUFFICES ASSUME PlanningInit PROVE PlanInv
  OBVIOUS
<1>1. resource \in [Resources -> ResourceRows] /\ \A x \in Resources : resource[x].revision = 1
  BY PlanningAssumption DEF PlanningInit, ResourceRows
<1>2. /\ preset \in [PresetIds -> PresetStates]
      /\ \A p \in PresetIds : preset[p].revision <= (IF preset[p].state = "gone" THEN 0 ELSE 1)
  <2> DEFINE ready == [NoStart EXCEPT !.state = "enabled", !.revision = 1]
  <2>1. preset = [p \in PresetIds |-> IF p = AutoPreset THEN NoStart ELSE ready]
    BY DEF PlanningInit
  <2>2. MaxEdits \in Nat
    BY PlanningAssumption
  <2>3. NoStart \in PresetStates /\ NoStart.revision = 0
    BY <2>2 DEF NoStart, PresetStates
  <2>4. ready \in PresetStates /\ ready.revision = 1 /\ ready.state = "enabled"
    <3>1. 1 \in 0..MaxEdits + 1
      BY <2>2
    <3> QED
      BY <2>3, <3>1 DEF PresetStates
  <2> HIDE DEF ready
  <2>5. \A p \in PresetIds : preset[p] = NoStart \/ preset[p] = ready
    BY <2>1
  <2>6. \A p \in PresetIds : preset[p].revision <= (IF preset[p].state = "gone" THEN 0 ELSE 1)
    BY <2>3, <2>4, <2>5
  <2> QED
    BY <2>1, <2>3, <2>4, <2>6
<1> QED
  BY <1>1, <1>2, PlanningAssumption
  DEF PlanningInit, PlanInv, PlanTypes, RevisionsCount, LateInv, PlanPinned, NoPlan, NoRun, Runs

\* The automatic preset is made anew only when every preset is gone.
LEMMA PresetsEnsured ==
    ASSUME PlanInv, EnsurePresets, UNCHANGED <<edits, resource, lateEdit>>
    PROVE  /\ preset' \in [PresetIds -> PresetStates]
           /\ \A p \in PresetIds : preset'[p].revision <= (IF preset'[p].state = "gone" THEN edits ELSE edits + 1)
           /\ LateInv'
<1>1. edits \in Nat /\ edits + 1 \in 0..MaxEdits + 1
  BY PlanningAssumption DEF PlanInv, PlanTypes
<1>2. CASE UNCHANGED preset
  BY <1>2 DEF PlanInv, PlanTypes, RevisionsCount, LateInv
<1>3. CASE /\ \A p \in PresetIds : preset[p].state = "gone"
           /\ preset' = [preset EXCEPT ![AutoPreset] =
                            [@ EXCEPT !.state = "enabled", !.revision = preset[AutoPreset].revision + 1,
                                      !.settings = FALSE]]
  <2> DEFINE old == preset[AutoPreset]
             new == [old EXCEPT !.state = "enabled", !.revision = old.revision + 1, !.settings = FALSE]
  <2>1. old \in PresetStates /\ old.revision \in Nat /\ old.revision <= edits
    BY <1>3, PlanningAssumption DEF PlanInv, PlanTypes, PresetStates, RevisionsCount
  <2>2. preset' = [preset EXCEPT ![AutoPreset] = new]
    BY <1>3, <2>1 DEF PresetStates
  <2> HIDE DEF old
  <2>3. new \in PresetStates /\ new.revision <= edits + 1 /\ new.state = "enabled"
    <3>1. old.revision + 1 \in 0..MaxEdits + 1 /\ old.revision + 1 <= edits + 1
      BY <1>1, <2>1, PlanningAssumption
    <3> QED
      BY <2>1, <3>1 DEF PresetStates
  <2> HIDE DEF new
  <2>4. \A p \in PresetIds : preset'[p].state # "gone" \/ preset'[p] = preset[p]
    BY <2>2, <2>3 DEF PlanInv, PlanTypes
  <2>5. LateInv'
    BY <1>3, <2>4 DEF PlanInv, LateInv, EditFits
  <2> QED
    BY <2>2, <2>3, <2>5 DEF PlanInv, PlanTypes, RevisionsCount
<1> QED
  BY <1>2, <1>3 DEF EnsurePresets

LEMMA PlanMadeKeeps ==
    ASSUME PlanInv, NEW persona \in BOOLEAN, CreatePlan(persona) \/ ReplanSaved
    PROVE  PlanInv'
<1>1. PICK wanted : savedPlan' \in Built(wanted)
  BY DEF CreatePlan, ReplanSaved
<1>2. Pins(savedPlan')
  BY <1>1, BuiltPins
<1>3. /\ EnsurePresets /\ UNCHANGED <<resource, run, edits, lateEdit>> /\ overtaken' = {}
      /\ savedPlan.status # "ready"
  BY DEF CreatePlan, ReplanSaved, NoPlan
<1>4. run.photos = {} /\ run \in [mode : {"none", "plain", "unconditioned", "conditioned"}, photos : {{}}]
  BY <1>3 DEF PlanInv, PlanTypes, Runs
<1>5. PlanTypes'
  <2>1. /\ savedPlan'.status \in {"none", "ready", "blocked"}
        /\ savedPlan'.mode \in {"plain", "unconditioned", "conditioned"}
        /\ savedPlan'.status # "ready" => savedPlan'.photos = {}
    BY <1>2 DEF Pins
  <2>2. run' \in Runs'
    BY <1>3, <1>4 DEF Runs
  <2> QED
    BY <1>3, <2>1, <2>2, PresetsEnsured DEF PlanInv, PlanTypes
<1>6. RevisionsCount' /\ LateInv'
  BY <1>3, PresetsEnsured DEF PlanInv, RevisionsCount
<1>7. PlanPinned'
  <2> SUFFICES ASSUME savedPlan'.status = "ready"
               PROVE  /\ "model" \in DOMAIN savedPlan'.pinned
                      /\ \A x \in DOMAIN savedPlan'.pinned : PinnedRow(x)'
                      /\ \A p \in {savedPlan'.preset} : PinnedPreset(p)'
    BY DEF PlanPinned
  <2>1. PICK s : /\ "model" \in s /\ \A x \in s : Enabled(x)
                 /\ savedPlan'.pinned = [x \in s |-> resource[x]]
    BY <1>2 DEF Pins
  <2>2. DOMAIN savedPlan'.pinned = s
    BY <2>1
  <2>3. ASSUME NEW x \in s PROVE PinnedRow(x)'
    <3>1. x \in Resources /\ savedPlan'.pinned[x] = resource[x]
      BY <2>1 DEF Enabled
    <3>2. resource[x] \in ResourceRows
      BY <3>1 DEF PlanInv, PlanTypes
    <3>3. resource[x].revision <= resource[x].revision
      BY <3>2, PlanningAssumption DEF ResourceRows
    <3> QED
      BY <1>3, <3>1, <3>2, <3>3 DEF PinnedRow
  <2>4. ASSUME NEW p, p = savedPlan'.preset PROVE PinnedPreset(p)'
    <3>1. p \in PresetIds /\ savedPlan'.presetRow = preset'[p]
      BY <1>2, <2>4 DEF Pins
    <3>2. preset'[p] \in PresetStates
      BY <1>5, <3>1 DEF PlanTypes
    <3>3. preset'[p].revision <= preset'[p].revision
      BY <3>2, PlanningAssumption DEF PresetStates
    <3> QED
      BY <3>1, <3>2, <3>3 DEF PinnedPreset
  <2> QED
    BY <2>1, <2>2, <2>3, <2>4
<1> QED
  BY <1>5, <1>6, <1>7 DEF PlanInv

\* An edit that nobody overtook counts a row on, or leaves its revision and what
\* it says to those who use it.
LEMMA PinsOutlive ==
    ASSUME PlanInv, UNCHANGED savedPlan, overtaken \subseteq overtaken',
           resource' \in [Resources -> ResourceRows], preset' \in [PresetIds -> PresetStates],
           \A x \in Resources \ overtaken' :
               \/ resource'[x] = resource[x]
               \/ resource'[x].revision > resource[x].revision
               \/ /\ resource'[x].revision = resource[x].revision
                  /\ "gone" \in {resource'[x].state, resource'["model"].state},
           \A x \in Resources : resource[x].state = "gone" => resource'[x].state = "gone",
           \A p \in PresetIds \ overtaken' :
               \/ preset'[p] = preset[p]
               \/ preset'[p].revision > preset[p].revision
               \/ preset'[p].revision = preset[p].revision /\ preset'[p].state = "gone"
    PROVE  PlanPinned'
<1> SUFFICES ASSUME savedPlan.status = "ready"
             PROVE  /\ "model" \in DOMAIN savedPlan.pinned
                    /\ \A x \in DOMAIN savedPlan.pinned : PinnedRow(x)'
                    /\ \A p \in {savedPlan.preset} : PinnedPreset(p)'
  BY DEF PlanPinned
<1>1. ASSUME NEW x \in DOMAIN savedPlan.pinned PROVE PinnedRow(x)'
  <2>1. PinnedRow(x)
    BY DEF PlanInv, PlanPinned
  <2>2. x \in Resources /\ "model" \in Resources
    BY <2>1, PlanningAssumption DEF PinnedRow
  <2>3. /\ resource[x].revision \in Int /\ resource'[x].revision \in Int /\ savedPlan.pinned[x].revision \in Int
        /\ savedPlan.pinned[x] \in ResourceRows
    BY <2>1, <2>2 DEF PlanInv, PlanTypes, ResourceRows, PinnedRow
  <2>4. CASE x \in overtaken'
    BY <2>2, <2>3, <2>4 DEF PinnedRow
  <2>5. CASE x \notin overtaken' /\ resource'[x] = resource[x]
    BY <2>1, <2>2, <2>5 DEF PinnedRow
  <2>6. CASE x \notin overtaken' /\ resource'[x].revision > resource[x].revision
    <3>1. savedPlan.pinned[x].revision <= resource[x].revision
      BY <2>1, <2>6 DEF PinnedRow
    <3>2. savedPlan.pinned[x].revision < resource'[x].revision
      BY <2>3, <2>6, <3>1
    <3> QED
      BY <2>2, <2>3, <3>2 DEF PinnedRow
  <2>7. CASE /\ x \notin overtaken' /\ resource'[x].revision = resource[x].revision
             /\ "gone" \in {resource'[x].state, resource'["model"].state}
    BY <2>1, <2>2, <2>7 DEF PinnedRow
  <2> QED
    BY <2>2, <2>4, <2>5, <2>6, <2>7
<1>2. ASSUME NEW p, p = savedPlan.preset PROVE PinnedPreset(p)'
  <2>1. PinnedPreset(p)
    BY <1>2 DEF PlanInv, PlanPinned
  <2>2. /\ p \in PresetIds /\ savedPlan.presetRow \in PresetStates
        /\ preset[p].revision \in Int /\ preset'[p].revision \in Int /\ savedPlan.presetRow.revision \in Int
    BY <2>1 DEF PlanInv, PlanTypes, PresetStates, PinnedPreset
  <2>3. CASE p \in overtaken'
    BY <2>2, <2>3 DEF PinnedPreset
  <2>4. CASE p \notin overtaken' /\ preset'[p] = preset[p]
    BY <2>1, <2>2, <2>4 DEF PinnedPreset
  <2>5. CASE p \notin overtaken' /\ preset'[p].revision > preset[p].revision
    <3>1. savedPlan.presetRow.revision <= preset[p].revision
      BY <2>1, <2>5 DEF PinnedPreset
    <3>2. savedPlan.presetRow.revision < preset'[p].revision
      BY <2>2, <2>5, <3>1
    <3> QED
      BY <2>2, <3>2 DEF PinnedPreset
  <2>6. CASE p \notin overtaken' /\ preset'[p].revision = preset[p].revision /\ preset'[p].state = "gone"
    BY <2>1, <2>2, <2>6 DEF PinnedPreset
  <2> QED
    BY <2>2, <2>3, <2>4, <2>5, <2>6
<1> QED
  BY <1>1, <1>2 DEF PlanInv, PlanPinned

\* What an edit that reads now wants to write.
LEMMA EditAsked ==
    ASSUME PlanInv, NEW id \in Resources \cup PresetIds, NEW e \in RowEdits(id), edits < MaxEdits
    PROVE  /\ EditFits(e) /\ e.id = id /\ e.wanted.revision <= edits + 2 /\ e.wanted.revision > Row(id).revision
           /\ id \in Resources => resource[id].state # "gone"
           /\ id \in PresetIds => preset[id].state # "gone"
<1>1. edits \in Nat
  BY DEF PlanInv, PlanTypes
<1>2. CASE id \in Resources
  <2> DEFINE row == resource[id]
  <2>1. row \in ResourceRows /\ row.revision <= edits + 1 /\ row.state # "gone" /\ Row(id) = row
    BY <1>2 DEF PlanInv, PlanTypes, RevisionsCount, RowEdits, Row
  <2>2. PICK c \in {"enabled", "disabled"} \X BOOLEAN : e = Saved(id, [row EXCEPT !.state = c[1], !.identity = c[2]])
    BY <1>2, <2>1 DEF RowEdits, ResourceEdits
  <2> HIDE DEF row
  <2> DEFINE wanted == [row EXCEPT !.state = c[1], !.identity = c[2], !.revision = row.revision + 1]
  <2>3. c[1] \in {"enabled", "disabled"} /\ c[2] \in BOOLEAN
    OBVIOUS
  <2>4. row.revision \in Nat /\ row.revision + 1 \in 1..MaxEdits + 1 /\ row.revision + 1 <= edits + 2
    BY <1>1, <2>1, PlanningAssumption DEF ResourceRows
  <2>5. wanted \in ResourceRows /\ wanted.revision = row.revision + 1 /\ wanted.state # "gone"
    BY <2>1, <2>3, <2>4 DEF ResourceRows
  <2>6. e.id = id /\ e.seen = row /\ e.wanted = wanted
    BY <2>1, <2>2 DEF Saved
  <2>7. id \notin PresetIds
    BY <1>2, PlanningAssumption
  <2> HIDE DEF wanted
  <2> QED
    BY <1>2, <2>1, <2>4, <2>5, <2>6, <2>7 DEF EditFits, row
<1>3. CASE id \in PresetIds
  <2> DEFINE row == preset[id]
  <2>1. id \notin Resources
    BY <1>3, PlanningAssumption
  <2>2. row \in PresetStates /\ row.revision <= edits + 1 /\ row.state # "gone" /\ Row(id) = row
    BY <1>3, <2>1 DEF PlanInv, PlanTypes, RevisionsCount, RowEdits, Row
  <2>3. PICK c \in {"enabled", "disabled"} \X BOOLEAN : e = Saved(id, [row EXCEPT !.state = c[1], !.settings = c[2]])
    BY <2>1, <2>2 DEF RowEdits, PresetEdits
  <2> HIDE DEF row
  <2> DEFINE wanted == [row EXCEPT !.state = c[1], !.settings = c[2], !.revision = row.revision + 1]
  <2>4. c[1] \in {"enabled", "disabled"} /\ c[2] \in BOOLEAN
    OBVIOUS
  <2>5. row.revision \in Nat /\ row.revision + 1 \in 0..MaxEdits + 1 /\ row.revision + 1 <= edits + 2
    BY <1>1, <2>2, PlanningAssumption DEF PresetStates
  <2>6. wanted \in PresetStates /\ wanted.revision = row.revision + 1 /\ wanted.state # "gone"
    BY <2>2, <2>4, <2>5 DEF PresetStates
  <2>7. e.id = id /\ e.seen = row /\ e.wanted = wanted
    BY <2>2, <2>3 DEF Saved
  <2> HIDE DEF wanted
  <2> QED
    BY <1>3, <2>1, <2>2, <2>5, <2>6, <2>7 DEF EditFits, row
<1> QED
  BY <1>2, <1>3

LEMMA ResourceMerged ==
    ASSUME NEW now \in ResourceRows, NEW seen \in ResourceRows, NEW wanted \in ResourceRows,
           wanted.revision = seen.revision + 1, now.state # "gone", wanted.state # "gone"
    PROVE  /\ Merged(now, seen, wanted) \in ResourceRows
           /\ Merged(now, seen, wanted).revision = wanted.revision
           /\ Merged(now, seen, wanted).state # "gone"
<1>1. DOMAIN now = {"state", "revision", "identity", "paired"}
  BY DEF ResourceRows
<1>2. Merged(now, seen, wanted) =
        [state |-> IF wanted.state # seen.state THEN wanted.state ELSE now.state,
         revision |-> IF wanted.revision # seen.revision THEN wanted.revision ELSE now.revision,
         identity |-> IF wanted.identity # seen.identity THEN wanted.identity ELSE now.identity,
         paired |-> IF wanted.paired # seen.paired THEN wanted.paired ELSE now.paired]
  BY <1>1 DEF Merged
<1>3. wanted.revision # seen.revision
  BY DEF ResourceRows
<1> QED
  BY <1>2, <1>3 DEF ResourceRows

LEMMA PresetMerged ==
    ASSUME NEW now \in PresetStates, NEW seen \in PresetStates, NEW wanted \in PresetStates,
           wanted.revision = seen.revision + 1, now.state # "gone", wanted.state # "gone"
    PROVE  /\ Merged(now, seen, wanted) \in PresetStates
           /\ Merged(now, seen, wanted).revision = wanted.revision
           /\ Merged(now, seen, wanted).state # "gone"
<1>1. DOMAIN now = {"state", "revision", "settings"}
  BY DEF PresetStates
<1>2. Merged(now, seen, wanted) =
        [state |-> IF wanted.state # seen.state THEN wanted.state ELSE now.state,
         revision |-> IF wanted.revision # seen.revision THEN wanted.revision ELSE now.revision,
         settings |-> IF wanted.settings # seen.settings THEN wanted.settings ELSE now.settings]
  BY <1>1 DEF Merged
<1>3. wanted.revision # seen.revision
  BY DEF PresetStates
<1> QED
  BY <1>2, <1>3 DEF PresetStates

\* What committing an edit writes, and to which row.
LEMMA EditWrites ==
    ASSUME PlanInv, NEW e, EditFits(e), WriteRow(e),
           e.id \in Resources => resource[e.id].state # "gone",
           e.id \in PresetIds => preset[e.id].state # "gone"
    PROVE  /\ resource' \in [Resources -> ResourceRows] /\ preset' \in [PresetIds -> PresetStates]
           /\ \A x \in Resources :
                \/ x # e.id /\ resource'[x] = resource[x]
                \/ /\ x = e.id /\ resource'[x].revision = e.wanted.revision /\ resource'[x].state # "gone"
                   /\ x \in overtaken' \/ e.wanted.revision > resource[x].revision
           /\ \A p \in PresetIds :
                \/ p # e.id /\ preset'[p] = preset[p]
                \/ /\ p = e.id /\ preset'[p].revision = e.wanted.revision /\ preset'[p].state # "gone"
                   /\ p \in overtaken' \/ e.wanted.revision > preset[p].revision
           /\ overtaken \subseteq overtaken' /\ overtaken' \subseteq Resources \cup PresetIds
<1>1. /\ overtaken \subseteq overtaken' /\ overtaken' \subseteq Resources \cup PresetIds
      /\ e.id \in overtaken' \/ e.wanted.revision > Row(e.id).revision
  BY DEF WriteRow, EditFits, PlanInv, PlanTypes
<1>2. CASE e.id \in Resources
  <2> DEFINE new == Merged(resource[e.id], e.seen, e.wanted)
  <2>1. resource[e.id] \in ResourceRows /\ Row(e.id) = resource[e.id] /\ e.id \notin PresetIds
    BY <1>2, PlanningAssumption DEF PlanInv, PlanTypes, Row
  <2>2. new \in ResourceRows /\ new.revision = e.wanted.revision /\ new.state # "gone"
    BY <1>2, <2>1, ResourceMerged DEF EditFits
  <2>3. resource' = [resource EXCEPT ![e.id] = new] /\ preset' = preset
    BY <1>2 DEF WriteRow
  <2> HIDE DEF new
  <2> QED
    BY <1>1, <1>2, <2>1, <2>2, <2>3 DEF PlanInv, PlanTypes
<1>3. CASE e.id \in PresetIds
  <2> DEFINE new == Merged(preset[e.id], e.seen, e.wanted)
  <2>1. e.id \notin Resources
    BY <1>3, PlanningAssumption
  <2>2. preset[e.id] \in PresetStates /\ Row(e.id) = preset[e.id]
    BY <1>3, <2>1 DEF PlanInv, PlanTypes, Row
  <2>3. new \in PresetStates /\ new.revision = e.wanted.revision /\ new.state # "gone"
    BY <1>3, <2>2, PresetMerged DEF EditFits
  <2>4. preset' = [preset EXCEPT ![e.id] = new] /\ resource' = resource
    BY <2>1 DEF WriteRow
  <2> HIDE DEF new
  <2> QED
    BY <1>1, <1>3, <2>1, <2>2, <2>3, <2>4 DEF PlanInv, PlanTypes
<1> QED
  BY <1>2, <1>3 DEF EditFits

\* An edit is committed, late or not.
LEMMA WrittenKeeps ==
    ASSUME PlanInv, NEW e, EditFits(e), WriteRow(e),
           e.id \in Resources => resource[e.id].state # "gone",
           e.id \in PresetIds => preset[e.id].state # "gone",
           UNCHANGED <<savedPlan, run>>, lateEdit' \in {lateEdit, NoEdit},
           edits' \in 0..MaxEdits, edits <= edits', e.wanted.revision <= edits' + 1
    PROVE  PlanInv'
<1>1. /\ resource' \in [Resources -> ResourceRows] /\ preset' \in [PresetIds -> PresetStates]
      /\ overtaken \subseteq overtaken' /\ overtaken' \subseteq Resources \cup PresetIds
  BY EditWrites
<1>2. ASSUME NEW x \in Resources
      PROVE  \/ x # e.id /\ resource'[x] = resource[x]
             \/ /\ x = e.id /\ resource'[x].revision = e.wanted.revision /\ resource'[x].state # "gone"
                /\ x \in overtaken' \/ e.wanted.revision > resource[x].revision
  BY EditWrites
<1>3. ASSUME NEW p \in PresetIds
      PROVE  \/ p # e.id /\ preset'[p] = preset[p]
             \/ /\ p = e.id /\ preset'[p].revision = e.wanted.revision /\ preset'[p].state # "gone"
                /\ p \in overtaken' \/ e.wanted.revision > preset[p].revision
  BY EditWrites
<1>4. PlanTypes'
  BY <1>1 DEF PlanInv, PlanTypes, Runs
<1>5. edits \in Int /\ edits' \in Int
  BY DEF PlanInv, PlanTypes
<1>6. RevisionsCount'
  <2>1. ASSUME NEW x \in Resources PROVE resource'[x].revision <= edits' + 1
    <3>1. resource[x].revision \in Int /\ resource[x].revision <= edits + 1
      BY DEF PlanInv, PlanTypes, ResourceRows, RevisionsCount
    <3> QED
      BY <1>2, <1>5, <3>1
  <2>2. ASSUME NEW p \in PresetIds
        PROVE  preset'[p].revision <= (IF preset'[p].state = "gone" THEN edits' ELSE edits' + 1)
    <3>1. preset[p].revision \in Int /\ preset[p].revision <= (IF preset[p].state = "gone" THEN edits ELSE edits + 1)
      BY DEF PlanInv, PlanTypes, PresetStates, RevisionsCount
    <3> QED
      BY <1>3, <1>5, <3>1
  <2> QED
    BY <2>1, <2>2 DEF RevisionsCount
<1>7. LateInv'
  <2> SUFFICES ASSUME lateEdit' # NoEdit PROVE LateInv'
    BY DEF LateInv
  <2>1. lateEdit' = lateEdit /\ EditFits(lateEdit)
    BY DEF PlanInv, LateInv
  <2>2. EditFits(lateEdit)'
    BY <2>1 DEF EditFits
  <2>3. lateEdit.wanted.revision <= edits' + 1
    <3>1. lateEdit.wanted.revision <= edits + 1 /\ lateEdit.wanted.revision \in Int
      BY <2>1 DEF PlanInv, LateInv, EditFits, ResourceRows, PresetStates
    <3> QED
      BY <1>5, <3>1
  <2>4. lateEdit.id \in Resources => resource'[lateEdit.id].state # "gone"
    BY <1>2, <2>1 DEF PlanInv, LateInv
  <2>5. lateEdit.id \in PresetIds => preset'[lateEdit.id].state # "gone"
    BY <1>3, <2>1 DEF PlanInv, LateInv
  <2> QED
    BY <2>1, <2>2, <2>3, <2>4, <2>5 DEF LateInv
<1>8. PlanPinned'
  <2>1. \A x \in Resources \ overtaken' : resource'[x] = resource[x] \/ resource'[x].revision > resource[x].revision
    BY <1>2
  <2>2. \A x \in Resources : resource[x].state = "gone" => resource'[x].state = "gone"
    BY <1>2
  <2>3. \A p \in PresetIds \ overtaken' : preset'[p] = preset[p] \/ preset'[p].revision > preset[p].revision
    BY <1>3
  <2> QED
    BY <1>1, <2>1, <2>2, <2>3, PinsOutlive
<1> QED
  BY <1>4, <1>6, <1>7, <1>8 DEF PlanInv

LEMMA EditCounted ==
    ASSUME PlanInv, Edit
    PROVE  /\ UNCHANGED <<savedPlan, run>> /\ edits < MaxEdits
           /\ edits \in Nat /\ edits' = edits + 1 /\ edits' \in 0..MaxEdits
BY PlanningAssumption DEF Edit, PlanInv, PlanTypes

LEMMA UpdateKeeps ==
    ASSUME PlanInv, NEW id \in Resources \cup PresetIds, UpdateResource(id) \/ UpdatePreset(id)
    PROVE  PlanInv'
<1>1. Edit /\ UNCHANGED lateEdit
  BY DEF UpdateResource, UpdatePreset
<1>2. PICK e \in RowEdits(id) : WriteRow(e)
  BY DEF UpdateResource, UpdatePreset
<1>3. /\ UNCHANGED <<savedPlan, run>> /\ edits < MaxEdits
      /\ edits \in Nat /\ edits' = edits + 1 /\ edits' \in 0..MaxEdits
  BY <1>1, EditCounted
<1>4. /\ EditFits(e) /\ e.wanted.revision <= edits + 2
      /\ e.id \in Resources => resource[e.id].state # "gone"
      /\ e.id \in PresetIds => preset[e.id].state # "gone"
  BY <1>2, <1>3, EditAsked
<1>5. edits <= edits' /\ e.wanted.revision <= edits' + 1
  BY <1>3, <1>4
<1> QED
  BY <1>1, <1>2, <1>3, <1>4, <1>5, WrittenKeeps

\* An edit that will be late reads its row; another step commits it.
LEMMA LateEditKeeps ==
    ASSUME PlanInv, (\E id \in Resources \cup PresetIds : BeginEdit(id)) \/ FinishEdit
    PROVE  PlanInv'
<1>1. ASSUME NEW id \in Resources \cup PresetIds, BeginEdit(id) PROVE PlanInv'
  <2>1. Edit /\ lateEdit' \in RowEdits(id) /\ UNCHANGED <<resource, preset, overtaken>>
    BY <1>1 DEF BeginEdit
  <2>2. /\ UNCHANGED <<savedPlan, run>> /\ edits < MaxEdits
        /\ edits \in Nat /\ edits' = edits + 1 /\ edits' \in 0..MaxEdits
    BY <2>1, EditCounted
  <2>3. PICK e \in RowEdits(id) : lateEdit' = e
    BY <2>1
  <2>4. /\ EditFits(e) /\ e.wanted.revision <= edits + 2
        /\ e.id \in Resources => resource[e.id].state # "gone"
        /\ e.id \in PresetIds => preset[e.id].state # "gone"
    BY <2>2, EditAsked
  <2>5. EditFits(e)' /\ e.wanted.revision <= edits' + 1
    BY <2>2, <2>4 DEF EditFits
  <2>6. LateInv'
    BY <2>1, <2>3, <2>4, <2>5 DEF LateInv, EditFits
  <2>7. PlanTypes'
    BY <2>1, <2>2 DEF PlanInv, PlanTypes, Runs
  <2>8. RevisionsCount'
    <3>1. \A x \in Resources : resource[x].revision \in Int
      BY DEF PlanInv, PlanTypes, ResourceRows
    <3>2. \A p \in PresetIds : preset[p].revision \in Int
      BY DEF PlanInv, PlanTypes, PresetStates
    <3> QED
      BY <2>1, <2>2, <3>1, <3>2 DEF PlanInv, RevisionsCount
  <2>9. PlanPinned'
    BY <2>1, <2>2 DEF PlanInv, PlanPinned, PinnedRow, PinnedPreset
  <2> QED
    BY <2>6, <2>7, <2>8, <2>9 DEF PlanInv
<1>2. CASE FinishEdit
  <2>1. /\ lateEdit # NoEdit /\ WriteRow(lateEdit) /\ lateEdit' = NoEdit /\ UNCHANGED <<savedPlan, run, edits>>
    BY <1>2 DEF FinishEdit
  <2>2. PICK e : e = lateEdit
    OBVIOUS
  <2>3. /\ EditFits(e) /\ WriteRow(e) /\ e.wanted.revision <= edits + 1
        /\ e.id \in Resources => resource[e.id].state # "gone"
        /\ e.id \in PresetIds => preset[e.id].state # "gone"
    BY <2>1, <2>2 DEF PlanInv, LateInv
  <2>4. edits' \in 0..MaxEdits /\ edits <= edits' /\ e.wanted.revision <= edits' + 1
    BY <2>1, <2>3, PlanningAssumption DEF PlanInv, PlanTypes
  <2> QED
    BY <2>1, <2>3, <2>4, WrittenKeeps
<1> QED
  BY <1>1, <1>2

\* A late edit stays one of a row that is there.
LEMMA LateOutlives ==
    ASSUME PlanInv, edits \in Nat, edits' = edits + 1,
           \/ lateEdit' = NoEdit
           \/ /\ lateEdit' = lateEdit
              /\ lateEdit.id \in Resources => resource'[lateEdit.id].state = resource[lateEdit.id].state
              /\ lateEdit.id \in PresetIds => preset'[lateEdit.id].state = preset[lateEdit.id].state
    PROVE  LateInv'
<1> SUFFICES ASSUME lateEdit' # NoEdit PROVE LateInv'
  BY DEF LateInv
<1>1. lateEdit' = lateEdit /\ lateEdit # NoEdit /\ EditFits(lateEdit)
  BY DEF PlanInv, LateInv
<1>2. lateEdit.wanted.revision <= edits' + 1
  <2>1. lateEdit.wanted.revision <= edits + 1 /\ lateEdit.wanted.revision \in Int
    BY <1>1 DEF PlanInv, LateInv, EditFits, ResourceRows, PresetStates
  <2> QED
    BY <2>1
<1>3. EditFits(lateEdit)'
  BY <1>1 DEF EditFits
<1> QED
  BY <1>1, <1>2, <1>3 DEF PlanInv, LateInv

LEMMA DeleteResourceKeeps ==
    ASSUME PlanInv, NEW x \in Resources, DeleteResource(x)
    PROVE  PlanInv'
<1>1. /\ UNCHANGED <<preset, savedPlan, run, overtaken>>
      /\ edits < MaxEdits /\ edits' = edits + 1
  BY DEF DeleteResource, Edit
<1>2. edits \in Nat /\ edits' \in 0..MaxEdits
  BY <1>1, PlanningAssumption DEF PlanInv, PlanTypes
<1>3. ASSUME NEW y \in Resources
      PROVE  /\ resource'[y] \in ResourceRows
             /\ resource'[y].revision = resource[y].revision
             /\ resource[y].state = "gone" => resource'[y].state = "gone"
             /\ y = x => resource'[y].state = "gone"
             /\ y # x => resource'[y].state = resource[y].state
             /\ resource'[y] = resource[y] \/ "gone" \in {resource'[y].state, resource'["model"].state}
  <2>1. resource[y] \in ResourceRows
    BY DEF PlanInv, PlanTypes
  <2>2. resource'[y] = IF y = x THEN [resource[y] EXCEPT !.state = "gone"]
                       ELSE [resource[y] EXCEPT !.paired = @ /\ x # "model"]
    BY DEF DeleteResource
  <2>3. CASE y = x
    BY <2>1, <2>2, <2>3 DEF ResourceRows
  <2>4. CASE y # x /\ x # "model"
    <3>1. resource'[y] = [resource[y] EXCEPT !.paired = resource[y].paired]
      BY <2>1, <2>2, <2>4 DEF ResourceRows
    <3>2. resource'[y] = resource[y]
      BY <2>1, <3>1 DEF ResourceRows
    <3> QED
      BY <2>1, <2>4, <3>2
  <2>5. CASE y # x /\ x = "model"
    <3>1. resource'["model"].state = "gone"
      <4>1. resource["model"] \in ResourceRows /\ resource'["model"] = [resource["model"] EXCEPT !.state = "gone"]
        BY <2>5 DEF DeleteResource, PlanInv, PlanTypes
      <4> QED
        BY <4>1 DEF ResourceRows
    <3>2. resource'[y] = [resource[y] EXCEPT !.paired = FALSE]
      BY <2>1, <2>2, <2>5 DEF ResourceRows
    <3>3. /\ resource'[y] \in ResourceRows /\ resource'[y].revision = resource[y].revision
          /\ resource'[y].state = resource[y].state
      BY <2>1, <3>2 DEF ResourceRows
    <3> QED
      BY <2>5, <3>1, <3>3
  <2> QED
    BY <2>3, <2>4, <2>5
<1>4. resource' \in [Resources -> ResourceRows]
  <2>1. DOMAIN resource' = Resources /\ resource' = [y \in Resources |-> resource'[y]]
    BY DEF DeleteResource
  <2> QED
    BY <1>3, <2>1
<1>5. PlanTypes'
  BY <1>1, <1>2, <1>4 DEF PlanInv, PlanTypes, Runs
<1>6. RevisionsCount'
  <2>1. \A p \in PresetIds : preset[p].revision \in Nat
    BY DEF PlanInv, PlanTypes, PresetStates
  <2>2. \A y \in Resources : resource[y].revision \in Nat
    BY DEF PlanInv, PlanTypes, ResourceRows
  <2> QED
    BY <1>1, <1>2, <1>3, <2>1, <2>2 DEF PlanInv, RevisionsCount
<1>7. PlanPinned'
  <2>1. preset' \in [PresetIds -> PresetStates]
    BY <1>1 DEF PlanInv, PlanTypes
  <2> QED
    BY <1>1, <1>3, <1>4, <2>1, PinsOutlive
<1>8. LateInv'
  BY <1>3, LateOutlives, EditCounted DEF DeleteResource
<1> QED
  BY <1>5, <1>6, <1>7, <1>8 DEF PlanInv

LEMMA DeletePresetKeeps ==
    ASSUME PlanInv, NEW p \in PresetIds, DeletePreset(p)
    PROVE  PlanInv'
<1> DEFINE new == [preset[p] EXCEPT !.state = "gone"]
<1>1. /\ preset[p].state # "gone" /\ UNCHANGED <<resource, savedPlan, run, overtaken>>
      /\ preset' = [preset EXCEPT ![p] = new]
      /\ edits < MaxEdits /\ edits \in Nat /\ edits' = edits + 1 /\ edits' \in 0..MaxEdits
  BY EditCounted DEF DeletePreset
<1>2. preset[p] \in PresetStates /\ preset[p].revision <= edits + 1
  BY <1>1 DEF PlanInv, PlanTypes, RevisionsCount
<1>3. new \in PresetStates /\ new.state = "gone" /\ new.revision = preset[p].revision
  BY <1>2 DEF PresetStates
<1> HIDE DEF new
<1>4. /\ preset' \in [PresetIds -> PresetStates] /\ preset'[p] = new
      /\ \A q \in PresetIds \ {p} : preset'[q] = preset[q]
  BY <1>1, <1>3 DEF PlanInv, PlanTypes
<1>5. PlanTypes'
  BY <1>1, <1>4 DEF PlanInv, PlanTypes, Runs
<1>6. RevisionsCount'
  <2>1. \A q \in PresetIds : preset[q].revision \in Nat
    BY DEF PlanInv, PlanTypes, PresetStates
  <2>2. \A y \in Resources : resource[y].revision \in Nat
    BY DEF PlanInv, PlanTypes, ResourceRows
  <2> QED
    BY <1>1, <1>2, <1>3, <1>4, <2>1, <2>2 DEF PlanInv, RevisionsCount
<1>7. LateInv'
  BY <1>1, <1>4, LateOutlives DEF DeletePreset
<1>8. PlanPinned'
  <2>1. resource' \in [Resources -> ResourceRows]
    BY <1>1 DEF PlanInv, PlanTypes
  <2>2. \A q \in PresetIds :
          \/ preset'[q] = preset[q]
          \/ preset'[q].revision = preset[q].revision /\ preset'[q].state = "gone"
    BY <1>3, <1>4
  <2> QED
    BY <1>1, <1>4, <2>1, <2>2, PinsOutlive
<1> QED
  BY <1>5, <1>6, <1>7, <1>8 DEF PlanInv

\* The run of a plan changes, and nothing that the invariant is about.
LEMMA RunKeeps ==
    ASSUME PlanInv, SubmitPlan \/ UploadPhotos \/ RestartPlanning
    PROVE  PlanInv'
<1>1. UNCHANGED <<resource, preset, savedPlan, edits, overtaken>> /\ lateEdit' \in {lateEdit, NoEdit}
  BY DEF SubmitPlan, UploadPhotos, RestartPlanning
<1>2. run' \in Runs
  <2>1. CASE SubmitPlan
    BY <2>1 DEF SubmitPlan, Runs, PlanInv, PlanTypes
  <2>2. CASE UploadPhotos \/ RestartPlanning
    <3>1. \E photos \in SUBSET run.photos : run' = [run EXCEPT !.photos = photos]
      <4>1. CASE UploadPhotos
        <5>1. PICK r \in run.photos : run' = [run EXCEPT !.photos = @ \ {r}] \/ run' = [run EXCEPT !.photos = {}]
          BY <4>1 DEF UploadPhotos
        <5> QED
          BY <5>1
      <4>2. CASE RestartPlanning
        BY <4>2 DEF RestartPlanning
      <4> QED
        BY <2>2, <4>1, <4>2
    <3> QED
      BY <3>1 DEF PlanInv, PlanTypes, Runs
  <2> QED
    BY <2>1, <2>2
<1>3. LateInv'
  BY <1>1 DEF PlanInv, LateInv, EditFits
<1> QED
  BY <1>1, <1>2, <1>3 DEF PlanInv, PlanTypes, RevisionsCount, PlanPinned, PinnedRow, PinnedPreset, Runs

LEMMA PlanStep == PlanInv /\ [PlanningNext]_allPlanningVars => PlanInv'
<1> SUFFICES ASSUME PlanInv, [PlanningNext]_allPlanningVars PROVE PlanInv'
  OBVIOUS
<1>1. CASE UNCHANGED planningVars
  BY <1>1 DEF planningVars, PlanInv, PlanTypes, RevisionsCount, LateInv, EditFits, PlanPinned, PinnedRow,
              PinnedPreset, Runs
<1>2. CASE \E persona \in BOOLEAN : CreatePlan(persona)
  BY <1>2, PlanMadeKeeps
<1>3. CASE ReplanSaved
  BY <1>3, PlanMadeKeeps
<1>4. CASE \E x \in Resources : UpdateResource(x) \/ DeleteResource(x)
  BY <1>4, UpdateKeeps, DeleteResourceKeeps
<1>5. CASE \E p \in PresetIds : UpdatePreset(p) \/ DeletePreset(p)
  BY <1>5, UpdateKeeps, DeletePresetKeeps
<1>7. CASE (\E id \in Resources \cup PresetIds : BeginEdit(id)) \/ FinishEdit
  BY <1>7, LateEditKeeps
<1>6. CASE SubmitPlan \/ UploadPhotos \/ RestartPlanning
  BY <1>6, RunKeeps
<1> QED
  BY <1>1, <1>2, <1>3, <1>4, <1>5, <1>6, <1>7 DEF PlanningNext, allPlanningVars

\* What is submitted is what was planned, resource by resource and with the preset
\* as it was, and under the consent and the policy there is
\* (MediaCatalogService.execution_values, _revalidate_identity), for every catalog,
\* every number of photos and of edits that overlap; but for rows that an
\* overtaken edit has written since the plan was made.
THEOREM RequestsAreSubmittedAsPlanned == PlanningSpec => PlansHold
<1> DEFINE AsPlanned ==
        run = NoRun /\ run' # NoRun =>
            /\ \A x \in DOMAIN savedPlan.pinned \ overtaken : resource[x] = savedPlan.pinned[x]
            /\ savedPlan.preset \notin overtaken => preset[savedPlan.preset] = savedPlan.presetRow
            /\ run'.mode = "conditioned" =>
                 profile.consent = "granted" /\ \A r \in run'.photos : ref[r].review = "approved"
            /\ run'.mode = "unconditioned" => ~profile.required
<1>1. PlanInv => PlanningTypeOK
  BY DEF PlanInv, PlanTypes, PlanningTypeOK, ResourceRows, PresetStates, Runs, LateInv, EditFits,
         NoEdit
<1>2. PlanInv /\ [PlanningNext]_allPlanningVars => AsPlanned
  <2> SUFFICES ASSUME PlanInv, [PlanningNext]_allPlanningVars, run = NoRun, run' # NoRun
               PROVE  /\ \A x \in DOMAIN savedPlan.pinned \ overtaken : resource[x] = savedPlan.pinned[x]
                      /\ savedPlan.preset \notin overtaken => preset[savedPlan.preset] = savedPlan.presetRow
                      /\ run'.mode = "conditioned" =>
                           profile.consent = "granted" /\ \A r \in run'.photos : ref[r].review = "approved"
                      /\ run'.mode = "unconditioned" => ~profile.required
    OBVIOUS
  <2>1. SubmitPlan
    BY DEF allPlanningVars, planningVars, PlanningNext, CreatePlan, ReplanSaved, UpdateResource, DeleteResource,
           UpdatePreset, DeletePreset, BeginEdit, FinishEdit, Edit, UploadPhotos, RestartPlanning, NoRun
  <2>2. /\ savedPlan.status = "ready" /\ Unchanged(savedPlan) /\ Revalidated(savedPlan)
        /\ run' = [mode |-> savedPlan.mode, photos |-> savedPlan.photos]
    BY <2>1 DEF SubmitPlan
  <2>3. ASSUME NEW x \in DOMAIN savedPlan.pinned \ overtaken PROVE resource[x] = savedPlan.pinned[x]
    <3>1. "model" \in DOMAIN savedPlan.pinned /\ PinnedRow(x)
      BY <2>2 DEF PlanInv, PlanPinned
    <3>2. Enabled(x) /\ Enabled("model") /\ resource[x].revision = savedPlan.pinned[x].revision
      BY <2>2, <3>1 DEF Unchanged
    <3> QED
      BY <3>1, <3>2 DEF PinnedRow, Enabled
  <2>4. run'.mode = "conditioned" =>
          profile.consent = "granted" /\ \A r \in run'.photos : ref[r].review = "approved"
    BY <2>2 DEF Revalidated
  <2>5. run'.mode = "unconditioned" => ~profile.required
    BY <2>2 DEF Revalidated
  <2>6. savedPlan.preset \notin overtaken => preset[savedPlan.preset] = savedPlan.presetRow
    <3>1. \A p \in {savedPlan.preset} : PinnedPreset(p)
      BY <2>2 DEF PlanInv, PlanPinned
    <3> QED
      BY <2>2, <3>1 DEF Unchanged, PinnedPreset
  <2> QED
    BY <2>3, <2>4, <2>5, <2>6
<1> QED
  BY PlansStart, PlanStep, <1>1, <1>2, PTL DEF PlanningSpec, PlansHold, SubmittedAsPlanned

-----------------------------------------------------------------------------
(* The catalog's presets.  Why a file is installed as a whole: the rows a     *)
(* call is about to write are its own, numbered by the call, and no preset    *)
(* there has that number yet.                                                 *)
PresetNames == (Models \X {1, 2}) \cup {File[1].name} \cup BundleNames
PresetRows ==
    [name : PresetNames, made : 0..MaxCalls, base : Models, loras : SUBSET CatalogLoras,
     passes : SUBSET {Pass}, origin : {"auto", "owner", "file", "starter"}]
Waits == {"read", "again", "write"}
CallRows ==
    [op : CatalogCalls \cup {"none"}, step : Waits \cup {"done", "refused"},
     read : SUBSET PresetRows, id : 0..MaxCalls]
FileNames == {File[i].name : i \in 1..Len(File)}
NamesApart(s) == \A p, q \in s : p.name = q.name => p = q

CatalogTypes ==
    /\ rows \subseteq Assets \cup {Pass} /\ enabled \subseteq rows
    /\ paired \subseteq CatalogLoras \X Models
    /\ presets \subseteq PresetRows /\ IsFiniteSet(presets) /\ NamesApart(presets)
    /\ imported \in BOOLEAN /\ calls \in 0..MaxCalls
    /\ call \in [Callers -> CallRows]

Calls(c) == call[c].step \in Waits
\* A call under way has a number of its own, and no preset has it yet.
NumberedCalls ==
    /\ \A c \in Callers : call[c].id <= calls
    /\ \A c, d \in Callers : Calls(c) /\ Calls(d) /\ call[c].id = call[d].id => c = d
    /\ \A p \in presets : p.made <= calls /\ \A c \in Callers : Calls(c) => p.made # call[c].id
\* What a call is about to write: new rows of its own, a whole file if it
\* imports one, or a preset that is there unless it was removed.
WritesNew(c) == call[c].step = "write" /\ call[c].op \in {"list", "import", "starters"}
Attaches(c) == call[c].step = "write" /\ call[c].op = "attach"
WritesOwn(c) ==
    WritesNew(c) =>
        /\ IsFiniteSet(call[c].read)
        /\ \A p \in call[c].read : p.made = call[c].id /\ (p.origin = "file" <=> call[c].op = "import")
        /\ call[c].op = "import" => Names(call[c].read) = FileNames
WritesBack(c) ==
    Attaches(c) =>
        \A old \in call[c].read :
            /\ old.made <= calls /\ \A d \in Callers : Calls(d) => old.made # call[d].id
            /\ \A p \in presets : Same(p, old) => p.origin = old.origin
CatalogInv == CatalogTypes /\ NumberedCalls /\ \A c \in Callers : WritesOwn(c) /\ WritesBack(c)

FileStep ==
    LET new == Names(FromFile(presets')) \ Names(FromFile(presets)) IN new = {} \/ new = FileNames

LEMMA NamesCount ==
    ASSUME NEW s, IsFiniteSet(s)
    PROVE  Cardinality(Names(s)) = Cardinality(s) <=> NamesApart(s)
<1> DEFINE f == [p \in s |-> p.name]
<1>1. f \in Surjection(s, Names(s))
  BY DEF Surjection, Names
<1>2. Cardinality(Names(s)) = Cardinality(s) <=> f \in Injection(s, Names(s))
  BY <1>1, FS_Surjection
<1>3. f \in [s -> Names(s)]
  BY DEF Names
<1> QED
  BY <1>2, <1>3 DEF Injection, IsInjective, NamesApart

LEMMA ImageIsFinite ==
    ASSUME NEW S, IsFiniteSet(S), NEW f, DOMAIN f = S, f = [x \in S |-> f[x]]
    PROVE  IsFiniteSet({f[x] : x \in S})
<1> DEFINE T == {f[x] : x \in S}
<1>1. f \in [S -> T] /\ \A t \in T : \E x \in S : f[x] = t
  OBVIOUS
<1>2. f \in Surjection(S, T)
  BY <1>1 DEF Surjection
<1> QED
  BY <1>2, FS_Surjection

LEMMA CatalogStarts == CatalogInit => CatalogInv
<1> SUFFICES ASSUME CatalogInit PROVE CatalogInv
  OBVIOUS
<1> USE DEF CatalogInit, NoCall, CatalogAssumption
<1>1. CatalogTypes
  <2>1. rows \subseteq Assets \cup {Pass} /\ enabled \subseteq rows /\ paired \subseteq CatalogLoras \X Models
    BY DEF Assets
  <2>2. presets \subseteq PresetRows /\ IsFiniteSet(presets) /\ NamesApart(presets)
    BY FS_EmptySet DEF NamesApart
  <2>3. call \in [Callers -> CallRows] /\ calls \in 0..MaxCalls /\ imported \in BOOLEAN
    BY CatalogAssumption DEF CallRows, Waits
  <2> QED
    BY <2>1, <2>2, <2>3 DEF CatalogTypes
<1>2. NumberedCalls
  BY DEF NumberedCalls, Calls, Waits
<1>3. \A c \in Callers : WritesOwn(c) /\ WritesBack(c)
  BY DEF WritesOwn, WritesBack, WritesNew, Attaches
<1> QED
  BY <1>1, <1>2, <1>3 DEF CatalogInv

\* An edit of the catalog leaves calls and presets alone.
LEMMA AssetsKeep ==
    ASSUME CatalogInv, calls < MaxCalls, calls' = calls + 1, UNCHANGED <<presets, imported, call>>,
           rows' \subseteq Assets \cup {Pass}, enabled' \subseteq rows', paired' \subseteq CatalogLoras \X Models
    PROVE  CatalogInv' /\ FileStep
<1>1. CatalogTypes'
  BY CatalogAssumption DEF CatalogInv, CatalogTypes, NamesApart
<1>2. /\ calls \in Nat /\ presets \subseteq PresetRows /\ call \in [Callers -> CallRows]
      /\ \A c \in Callers : call[c].id \in Nat /\ call[c].read \subseteq PresetRows
      /\ \A p \in PresetRows : p.made \in Nat
  BY CatalogAssumption DEF CatalogInv, CatalogTypes, CallRows, PresetRows
<1>3. NumberedCalls'
  <2>1. \A c \in Callers : call'[c] = call[c] /\ call[c].id <= calls
    BY DEF CatalogInv, NumberedCalls
  <2>2. \A c \in Callers : call'[c].id <= calls'
    BY <1>2, <2>1
  <2>3. \A p \in presets' : p.made <= calls'
    <3>1. \A p \in presets : p.made <= calls /\ p.made \in Nat
      BY <1>2 DEF CatalogInv, NumberedCalls
    <3> QED
      BY <1>2, <3>1
  <2>4. \A c \in Callers : Calls(c)' <=> Calls(c)
    BY <2>1 DEF Calls, Waits
  <2> QED
    BY <2>1, <2>2, <2>3, <2>4 DEF CatalogInv, NumberedCalls
<1>4. ASSUME NEW c \in Callers PROVE WritesOwn(c)' /\ WritesBack(c)'
  <2>1. WritesOwn(c)'
    BY DEF CatalogInv, WritesOwn, WritesNew, Names, FileNames
  <2>2. WritesBack(c)'
    BY <1>2 DEF CatalogInv, WritesBack, Attaches, Calls, Same
  <2> QED
    BY <2>1, <2>2
<1>5. FileStep
  BY DEF FileStep, FromFile, Names
<1> QED
  BY <1>1, <1>3, <1>4, <1>5 DEF CatalogInv

\* Neither does the beginning of a call, which takes the next number.
LEMMA BeginCallKeeps ==
    ASSUME CatalogInv, NEW c \in Callers, BeginCall(c)
    PROVE  CatalogInv' /\ FileStep
<1>1. PICK op \in CatalogCalls :
        call' = [call EXCEPT ![c] = [op |-> op, step |-> "read", read |-> {}, id |-> calls']]
  BY DEF BeginCall
<1>2. /\ calls \in Nat /\ presets \subseteq PresetRows /\ call \in [Callers -> CallRows]
      /\ \A d \in Callers : call[d].id \in Nat /\ call[d].read \subseteq PresetRows
      /\ \A p \in PresetRows : p.made \in Nat
  BY CatalogAssumption DEF CatalogInv, CatalogTypes, CallRows, PresetRows
<1>3. calls' = calls + 1 /\ calls < MaxCalls /\ UNCHANGED <<rows, enabled, paired, presets, imported>>
  BY DEF BeginCall
<1>4. /\ call'[c] = [op |-> op, step |-> "read", read |-> {}, id |-> calls + 1]
      /\ \A d \in Callers \ {c} : call'[d] = call[d]
  BY <1>1, <1>2, <1>3
<1>5. CatalogTypes'
  <2>1. [op |-> op, step |-> "read", read |-> {}, id |-> calls'] \in CallRows
    BY <1>2, <1>3, CatalogAssumption DEF CallRows, Waits
  <2>2. call' \in [Callers -> CallRows]
    BY <1>1, <1>2, <2>1
  <2> QED
    BY <1>2, <1>3, <2>2, CatalogAssumption DEF CatalogInv, CatalogTypes, NamesApart
<1>6. NumberedCalls'
  <2>1. \A d \in Callers : call[d].id <= calls
    BY DEF CatalogInv, NumberedCalls
  <2>2. \A d \in Callers : call'[d].id <= calls'
    BY <1>2, <1>3, <1>4, <2>1
  <2>3. ASSUME NEW d \in Callers, NEW e \in Callers, Calls(d)', Calls(e)', call'[d].id = call'[e].id PROVE d = e
    BY <1>2, <1>4, <2>1, <2>3 DEF CatalogInv, NumberedCalls, Calls
  <2>4. ASSUME NEW p \in presets', NEW d \in Callers, Calls(d)' PROVE p.made # call'[d].id
    BY <1>2, <1>3, <1>4, <2>4 DEF CatalogInv, NumberedCalls, Calls
  <2>5. \A p \in presets' : p.made <= calls'
    BY <1>2, <1>3 DEF CatalogInv, NumberedCalls
  <2> QED
    BY <2>2, <2>3, <2>4, <2>5 DEF NumberedCalls
<1>7. ASSUME NEW d \in Callers PROVE WritesOwn(d)' /\ WritesBack(d)'
  <2>1. CASE d = c
    BY <1>4, <2>1 DEF WritesOwn, WritesBack, WritesNew, Attaches
  <2>2. CASE d # c
    <3>1. WritesOwn(d)'
      <4>1. call'[d] = call[d] /\ WritesOwn(d)
        BY <1>4, <2>2 DEF CatalogInv
      <4> QED
        BY <4>1 DEF WritesOwn, WritesNew, Names, FileNames
    <3>2. WritesBack(d)'
      <4> SUFFICES ASSUME Attaches(d)', NEW old \in call'[d].read
                   PROVE  /\ old.made <= calls' /\ \A e \in Callers : Calls(e)' => old.made # call'[e].id
                          /\ \A p \in presets' : Same(p, old) => p.origin = old.origin
        BY DEF WritesBack, Same
      <4>1. Attaches(d) /\ old \in call[d].read
        BY <1>4, <2>2 DEF Attaches
      <4>2. /\ old.made <= calls /\ \A e \in Callers : Calls(e) => old.made # call[e].id
            /\ \A p \in presets : Same(p, old) => p.origin = old.origin
        BY <4>1 DEF CatalogInv, WritesBack
      <4>3. old.made \in Nat
        BY <1>2, <4>1
      <4> QED
        BY <1>2, <1>3, <1>4, <4>2, <4>3 DEF Calls
    <3> QED
      BY <3>1, <3>2
  <2> QED
    BY <2>1, <2>2
<1>8. FileStep
  BY <1>3 DEF FileStep, FromFile, Names
<1> QED
  BY <1>5, <1>6, <1>7, <1>8 DEF CatalogInv

\* A call that ends adds nothing: it was refused, or it removes.
LEMMA EndsKeep ==
    ASSUME CatalogInv, NEW c \in Callers, NEW step \in {"done", "refused"}, Answer(c, step), calls' = calls,
           presets' \subseteq presets, imported' \in BOOLEAN,
           rows' \subseteq Assets \cup {Pass}, enabled' \subseteq rows', paired' \subseteq CatalogLoras \X Models
    PROVE  CatalogInv' /\ FileStep
<1>1. /\ call \in [Callers -> CallRows] /\ presets \subseteq PresetRows
      /\ \A d \in Callers : call[d] \in CallRows
  BY DEF CatalogInv, CatalogTypes
<1>2. call'[c] = [op |-> call[c].op, step |-> step, read |-> {}, id |-> call[c].id]
      /\ \A d \in Callers \ {c} : call'[d] = call[d]
  BY <1>1 DEF Answer, CallRows
<1>3. call' \in [Callers -> CallRows]
  <2>1. call'[c] \in CallRows
    BY <1>1, <1>2 DEF CallRows
  <2> QED
    BY <1>1, <2>1 DEF Answer
<1>4. CatalogTypes'
  BY <1>3, FS_Subset DEF CatalogInv, CatalogTypes, NamesApart
<1>5. \A d \in Callers : call'[d].id = call[d].id /\ (Calls(d)' => Calls(d) /\ d # c)
  BY <1>2 DEF Calls, Waits
<1>6. NumberedCalls'
  BY <1>5 DEF CatalogInv, NumberedCalls
<1>7. ASSUME NEW d \in Callers PROVE WritesOwn(d)' /\ WritesBack(d)'
  <2>1. CASE d = c
    BY <1>2, <2>1 DEF WritesOwn, WritesBack, WritesNew, Attaches
  <2>2. CASE d # c
    <3>1. call'[d] = call[d] /\ WritesOwn(d) /\ WritesBack(d)
      BY <1>2, <2>2 DEF CatalogInv
    <3>2. WritesOwn(d)'
      BY <3>1 DEF WritesOwn, WritesNew, Names, FileNames
    <3>3. WritesBack(d)'
      BY <1>5, <3>1 DEF WritesBack, Attaches, Same
    <3> QED
      BY <3>2, <3>3
  <2> QED
    BY <2>1, <2>2
<1>8. FileStep
  BY DEF FileStep, FromFile, Names
<1> QED
  BY <1>4, <1>6, <1>7, <1>8 DEF CatalogInv

\* Neither does one that only reads on.
LEMMA ReadsKeep ==
    ASSUME CatalogInv, NEW c \in Callers, Calls(c), NEW step \in {"again", "write"},
           NEW given \in SUBSET PresetRows, Continue(c, step, given),
           UNCHANGED <<rows, enabled, paired, presets, imported, calls>>,
           step = "write" /\ call[c].op \in {"list", "import", "starters"} =>
               /\ IsFiniteSet(given)
               /\ \A p \in given : p.made = call[c].id /\ (p.origin = "file" <=> call[c].op = "import")
               /\ call[c].op = "import" => Names(given) = FileNames,
           step = "write" /\ call[c].op = "attach" => given \subseteq presets
    PROVE  CatalogInv' /\ FileStep
<1>1. /\ call \in [Callers -> CallRows] /\ presets \subseteq PresetRows /\ NamesApart(presets)
      /\ \A d \in Callers : call[d] \in CallRows
  BY DEF CatalogInv, CatalogTypes
<1>2. call'[c] = [op |-> call[c].op, step |-> step, read |-> given, id |-> call[c].id]
      /\ \A d \in Callers \ {c} : call'[d] = call[d]
  BY <1>1 DEF Continue, CallRows
<1>3. call' \in [Callers -> CallRows]
  <2>1. call'[c] \in CallRows
    BY <1>1, <1>2 DEF CallRows, Waits
  <2> QED
    BY <1>1, <1>2, <2>1 DEF Continue
<1>4. CatalogTypes'
  BY <1>3 DEF CatalogInv, CatalogTypes, NamesApart
<1>5. \A d \in Callers : call'[d].id = call[d].id /\ (Calls(d)' <=> Calls(d))
  BY <1>2 DEF Calls, Waits
<1>6. NumberedCalls'
  BY <1>5 DEF CatalogInv, NumberedCalls
<1>7. ASSUME NEW d \in Callers PROVE WritesOwn(d)' /\ WritesBack(d)'
  <2>1. CASE d = c
    <3>1. WritesOwn(d)'
      BY <1>2, <2>1 DEF WritesOwn, WritesNew
    <3>2. WritesBack(d)'
      <4> SUFFICES ASSUME Attaches(c)', NEW old \in call'[c].read
                   PROVE  /\ old.made <= calls' /\ \A e \in Callers : Calls(e)' => old.made # call'[e].id
                          /\ \A p \in presets' : Same(p, old) => p.origin = old.origin
        BY <2>1 DEF WritesBack, Same
      <4>1. old \in presets
        BY <1>2 DEF Attaches
      <4>2. \A p \in presets : Same(p, old) => p = old
        BY <1>1, <4>1 DEF Same, NamesApart
      <4> QED
        BY <1>5, <4>1, <4>2 DEF CatalogInv, NumberedCalls
    <3> QED
      BY <3>1, <3>2
  <2>2. CASE d # c
    <3>1. call'[d] = call[d] /\ WritesOwn(d) /\ WritesBack(d)
      BY <1>2, <2>2 DEF CatalogInv
    <3>2. WritesOwn(d)'
      BY <3>1 DEF WritesOwn, WritesNew, Names, FileNames
    <3>3. WritesBack(d)'
      BY <1>5, <3>1 DEF WritesBack, Attaches, Same
    <3> QED
      BY <3>2, <3>3
  <2> QED
    BY <2>1, <2>2
<1>8. FileStep
  BY DEF FileStep, FromFile, Names
<1> QED
  BY <1>4, <1>6, <1>7, <1>8 DEF CatalogInv

\* The presets a call adds are all there afterwards, or none is.
LEMMA AddsKeep ==
    ASSUME CatalogInv, NEW c \in Callers, Calls(c),
           NEW new \in SUBSET PresetRows, IsFiniteSet(new), \A p \in new : p.made = call[c].id,
           (\A p \in new : p.origin # "file") \/ (Names(new) = FileNames /\ \A p \in new : p.origin = "file"),
           Commit(c, new), calls' = calls
    PROVE  CatalogInv' /\ FileStep
<1>1. /\ rows \subseteq Assets \cup {Pass} /\ enabled \subseteq rows /\ paired \subseteq CatalogLoras \X Models
      /\ imported \in BOOLEAN /\ call \in [Callers -> CallRows] /\ \A d \in Callers : call[d] \in CallRows
      /\ presets \subseteq PresetRows /\ IsFiniteSet(presets) /\ NamesApart(presets)
      /\ calls \in Nat /\ \A d \in Callers : call[d].id \in Nat /\ call[d].id <= calls
  BY CatalogAssumption DEF CatalogInv, CatalogTypes, NumberedCalls, CallRows
<1>2. CASE Refuse(c)
  BY <1>1, <1>2, EndsKeep DEF Refuse
<1>3. CASE /\ Names(new) \cap Names(presets) = {} /\ Cardinality(Names(new)) = Cardinality(new)
           /\ presets' = presets \cup new
           /\ Answer(c, "done") /\ UNCHANGED <<rows, enabled, paired, imported>>
  <2>1. NamesApart(new)
    BY <1>3, NamesCount
  <2>2. NamesApart(presets') /\ presets' \subseteq PresetRows /\ IsFiniteSet(presets')
    <3>1. \A p \in presets, q \in new : p.name # q.name
      BY <1>3 DEF Names
    <3>2. NamesApart(presets')
      BY <1>1, <1>3, <2>1, <3>1 DEF NamesApart
    <3>3. IsFiniteSet(presets')
      BY <1>1, <1>3, FS_Union
    <3> QED
      BY <1>1, <1>3, <3>2, <3>3
  <2>3. call'[c] = [op |-> call[c].op, step |-> "done", read |-> {}, id |-> call[c].id]
        /\ \A d \in Callers \ {c} : call'[d] = call[d]
    BY <1>1, <1>3 DEF Answer, CallRows
  <2>4. call' \in [Callers -> CallRows]
    <3>1. call'[c] \in CallRows
      BY <1>1, <2>3 DEF CallRows
    <3> QED
      BY <1>1, <1>3, <3>1 DEF Answer
  <2>5. CatalogTypes'
    BY <1>3, <2>2, <2>4 DEF CatalogInv, CatalogTypes
  <2>6. \A d \in Callers : call'[d].id = call[d].id /\ (Calls(d)' => Calls(d) /\ d # c)
    BY <2>3 DEF Calls, Waits
  <2>7. NumberedCalls'
    <3>1. \A d \in Callers : Calls(d)' => call[c].id # call[d].id
      BY <2>6 DEF CatalogInv, NumberedCalls
    <3>2. ASSUME NEW p \in presets' PROVE p.made <= calls' /\ \A d \in Callers : Calls(d)' => p.made # call'[d].id
      BY <1>1, <1>3, <2>6, <3>1 DEF CatalogInv, NumberedCalls
    <3> QED
      BY <2>6, <3>2 DEF CatalogInv, NumberedCalls
  <2>8. ASSUME NEW d \in Callers PROVE WritesOwn(d)' /\ WritesBack(d)'
    <3>1. CASE d = c
      BY <2>3, <3>1 DEF WritesOwn, WritesBack, WritesNew, Attaches
    <3>2. CASE d # c
      <4>1. call'[d] = call[d] /\ WritesOwn(d) /\ WritesBack(d)
        BY <2>3, <3>2 DEF CatalogInv
      <4>2. WritesOwn(d)'
        BY <4>1 DEF WritesOwn, WritesNew, Names, FileNames
      <4>3. WritesBack(d)'
        <5> SUFFICES ASSUME Attaches(d)', NEW old \in call'[d].read
                     PROVE  /\ old.made <= calls' /\ \A e \in Callers : Calls(e)' => old.made # call'[e].id
                            /\ \A p \in presets' : Same(p, old) => p.origin = old.origin
          BY DEF WritesBack, Same
        <5>1. /\ old.made <= calls /\ \A e \in Callers : Calls(e) => old.made # call[e].id
              /\ \A p \in presets : Same(p, old) => p.origin = old.origin
          BY <4>1 DEF WritesBack, Attaches
        <5>2. \A p \in new : ~Same(p, old)
          BY <5>1 DEF Same
        <5> QED
          BY <1>3, <2>6, <5>1, <5>2
      <4> QED
        BY <4>2, <4>3
    <3> QED
      BY <3>1, <3>2
  <2>9. FileStep
    <3>1. CASE \A p \in new : p.origin # "file"
      <4>1. FromFile(presets') = FromFile(presets)
        BY <1>3, <3>1 DEF FromFile
      <4> QED
        BY <4>1 DEF FileStep
    <3>2. CASE Names(new) = FileNames /\ \A p \in new : p.origin = "file"
      <4>1. FromFile(presets') = FromFile(presets) \cup new
        BY <1>3, <3>2 DEF FromFile
      <4>2. Names(FromFile(presets')) = Names(FromFile(presets)) \cup Names(new)
        BY <4>1 DEF Names
      <4>3. Names(FromFile(presets)) \subseteq Names(presets)
        BY DEF Names, FromFile
      <4>4. Names(FromFile(presets')) \ Names(FromFile(presets)) = FileNames
        BY <1>3, <3>2, <4>2, <4>3
      <4> QED
        BY <4>4 DEF FileStep
    <3> QED
      BY <3>1, <3>2
  <2> QED
    BY <2>5, <2>7, <2>8, <2>9 DEF CatalogInv
<1> QED
  BY <1>2, <1>3 DEF Commit

\* The rows that a call makes out of what it reads are presets of its own.
LEMMA PresetsMade ==
    ASSUME CatalogInv, NEW c \in Callers, NEW name \in PresetNames, NEW base \in Models,
           NEW loras \in SUBSET CatalogLoras, NEW origin_ \in {"auto", "owner", "file", "starter"}
    PROVE  /\ Preset(c, name, base, loras, origin_) \in PresetRows
           /\ Preset(c, name, base, loras, origin_).made = call[c].id
           /\ Preset(c, name, base, loras, origin_).origin = origin_
           /\ Preset(c, name, base, loras, origin_).name = name
<1>1. call[c] \in CallRows
  BY DEF CatalogInv, CatalogTypes
<1> QED
  BY <1>1 DEF Preset, PresetRows, CallRows

LEMMA BundleFacts ==
    /\ Len(File) \in Nat /\ Len(Starters) \in Nat
    /\ \A i \in 1..Len(File) :
          File[i].name \in PresetNames /\ File[i].base \in Models /\ File[i].loras \subseteq CatalogLoras
    /\ \A i \in 1..Len(Starters) :
          Starters[i].name \in PresetNames /\ Starters[i].base \in Models /\ Starters[i].loras \subseteq CatalogLoras
<1> DEFINE BundleEntries == [name : BundleNames, base : Models, loras : SUBSET CatalogLoras]
<1>1. File \in Seq(BundleEntries) /\ Starters \in Seq(BundleEntries)
  BY CatalogAssumption
<1>2. \A e \in BundleEntries : e.name \in PresetNames /\ e.base \in Models /\ e.loras \subseteq CatalogLoras
  BY DEF PresetNames
<1> HIDE DEF BundleEntries
<1> QED
  BY <1>1, <1>2

LEMMA FileInstalled ==
    ASSUME CatalogInv, NEW c \in Callers
    PROVE  LET given == {Installed(c, File[i], "file") : i \in 1..Len(File)} IN
           /\ given \in SUBSET PresetRows /\ IsFiniteSet(given) /\ Names(given) = FileNames
           /\ \A p \in given : p.made = call[c].id /\ p.origin = "file"
<1> DEFINE given == {Installed(c, File[i], "file") : i \in 1..Len(File)}
<1>1. ASSUME NEW i \in 1..Len(File)
      PROVE  /\ Installed(c, File[i], "file") \in PresetRows /\ Installed(c, File[i], "file").made = call[c].id
             /\ Installed(c, File[i], "file").origin = "file" /\ Installed(c, File[i], "file").name = File[i].name
  <2> DEFINE loras == {l \in File[i].loras : <<l, File[i].base>> \in paired}
  <2>1. File[i].name \in PresetNames /\ File[i].base \in Models /\ loras \in SUBSET CatalogLoras
    BY BundleFacts
  <2>2. Installed(c, File[i], "file") = Preset(c, File[i].name, File[i].base, loras, "file")
    BY DEF Installed
  <2> HIDE DEF loras
  <2> QED
    BY <2>1, <2>2, PresetsMade
<1>2. given \in SUBSET PresetRows /\ \A p \in given : p.made = call[c].id /\ p.origin = "file"
  BY <1>1
<1>3. Names(given) = FileNames
  BY <1>1 DEF Names, FileNames
<1>4. IsFiniteSet(given)
  <2>1. IsFiniteSet(1..Len(File))
    BY BundleFacts, FS_Interval
  <2> DEFINE f == [i \in 1..Len(File) |-> Installed(c, File[i], "file")]
  <2>2. given = {f[x] : x \in 1..Len(File)}
    OBVIOUS
  <2>3. IsFiniteSet({f[x] : x \in 1..Len(File)})
    <3>1. DOMAIN f = 1..Len(File) /\ f = [x \in 1..Len(File) |-> f[x]]
      OBVIOUS
    <3> HIDE DEF f
    <3> QED
      BY <2>1, <3>1, ImageIsFinite
  <2> QED
    BY <2>2, <2>3
<1> QED
  BY <1>2, <1>3, <1>4

LEMMA StartersInstalled ==
    ASSUME CatalogInv, NEW c \in Callers
    PROVE  /\ StartersToInstall(c) \in SUBSET PresetRows /\ IsFiniteSet(StartersToInstall(c))
           /\ \A p \in StartersToInstall(c) : p.made = call[c].id /\ p.origin = "starter"
<1> DEFINE J == {j \in 1..Len(Starters) : Resolves(Starters[j]) /\ Starters[j].name \notin Names(presets)}
<1>1. ASSUME NEW i \in 1..Len(Starters)
      PROVE  /\ Installed(c, Starters[i], "starter") \in PresetRows
             /\ Installed(c, Starters[i], "starter").made = call[c].id
             /\ Installed(c, Starters[i], "starter").origin = "starter"
  <2> DEFINE loras == {l \in Starters[i].loras : <<l, Starters[i].base>> \in paired}
  <2>1. Starters[i].name \in PresetNames /\ Starters[i].base \in Models /\ loras \in SUBSET CatalogLoras
    BY BundleFacts
  <2>2. Installed(c, Starters[i], "starter") = Preset(c, Starters[i].name, Starters[i].base, loras, "starter")
    BY DEF Installed
  <2> HIDE DEF loras
  <2> QED
    BY <2>1, <2>2, PresetsMade
<1>2. StartersToInstall(c) = {Installed(c, Starters[i], "starter") : i \in J}
  BY DEF StartersToInstall
<1>3. IsFiniteSet(J)
  <2>1. IsFiniteSet(1..Len(Starters)) /\ J \in SUBSET (1..Len(Starters))
    BY BundleFacts, FS_Interval
  <2> QED
    BY <2>1, FS_Subset
<1>4. IsFiniteSet(StartersToInstall(c))
  <2> DEFINE f == [i \in J |-> Installed(c, Starters[i], "starter")]
  <2>1. StartersToInstall(c) = {f[x] : x \in J}
    BY <1>2
  <2>2. IsFiniteSet({f[x] : x \in J})
    <3>1. DOMAIN f = J /\ f = [x \in J |-> f[x]]
      OBVIOUS
    <3> HIDE DEF f, J
    <3> QED
      BY <1>3, <3>1, ImageIsFinite
  <2> QED
    BY <2>1, <2>2
<1> QED
  BY <1>1, <1>2, <1>4

LEMMA AutoMade ==
    ASSUME CatalogInv, NEW c \in Callers
    PROVE  LET given == {AutoRecipe(c, m, Names(presets)) : m \in Uncovered} IN
           /\ given \in SUBSET PresetRows /\ IsFiniteSet(given)
           /\ \A p \in given : p.made = call[c].id /\ p.origin = "auto"
<1> DEFINE given == {AutoRecipe(c, m, Names(presets)) : m \in Uncovered}
<1>1. ASSUME NEW m \in Models
      PROVE  /\ AutoRecipe(c, m, Names(presets)) \in PresetRows
             /\ AutoRecipe(c, m, Names(presets)).made = call[c].id
             /\ AutoRecipe(c, m, Names(presets)).origin = "auto"
  <2> DEFINE name == IF <<m, 1>> \notin Names(presets) THEN <<m, 1>> ELSE <<m, 2>>
  <2>1. name \in PresetNames
    BY DEF PresetNames
  <2>2. AutoRecipe(c, m, Names(presets)) = Preset(c, name, m, {}, "auto")
    BY DEF AutoRecipe
  <2> HIDE DEF name
  <2> QED
    BY <2>1, <2>2, PresetsMade
<1>2. Uncovered \in SUBSET Models /\ IsFiniteSet(Uncovered)
  BY CatalogAssumption, FS_Subset DEF Uncovered
<1>3. IsFiniteSet(given)
  <2> DEFINE f == [m \in Uncovered |-> AutoRecipe(c, m, Names(presets))]
  <2>1. given = {f[x] : x \in Uncovered}
    OBVIOUS
  <2>2. IsFiniteSet({f[x] : x \in Uncovered})
    <3>1. DOMAIN f = Uncovered /\ f = [x \in Uncovered |-> f[x]]
      OBVIOUS
    <3> HIDE DEF f
    <3> QED
      BY <1>2, <3>1, ImageIsFinite
  <2> QED
    BY <2>1, <2>2
<1> QED
  BY <1>1, <1>2, <1>3

LEMMA ListPresetsKeeps ==
    ASSUME CatalogInv, NEW c \in Callers, ListPresets(c)
    PROVE  CatalogInv' /\ FileStep
<1>1. CASE /\ call[c].step = "read" /\ Continue(c, "write", {AutoRecipe(c, m, Names(presets)) : m \in Uncovered})
           /\ UNCHANGED <<rows, enabled, paired, presets, imported, calls>>
  <2>1. Calls(c) /\ call[c].op = "list"
    BY <1>1 DEF Calls, Waits, ListPresets
  <2> QED
    BY <1>1, <2>1, AutoMade, ReadsKeep
<1>2. CASE call[c].step = "write" /\ Commit(c, call[c].read) /\ UNCHANGED calls
  <2>1. Calls(c) /\ call[c].op = "list" /\ WritesOwn(c) /\ call[c].read \in SUBSET PresetRows
    BY <1>2 DEF Calls, Waits, ListPresets, CatalogInv, CatalogTypes, CallRows
  <2>2. IsFiniteSet(call[c].read) /\ \A p \in call[c].read : p.made = call[c].id /\ p.origin # "file"
    BY <1>2, <2>1 DEF WritesOwn, WritesNew
  <2> QED
    BY <1>2, <2>1, <2>2, AddsKeep
<1> QED
  BY <1>1, <1>2 DEF ListPresets

LEMMA CommitCheckedKeeps ==
    ASSUME CatalogInv, NEW c \in Callers, Calls(c),
           NEW new \in SUBSET PresetRows, IsFiniteSet(new), \A p \in new : p.made = call[c].id,
           (\A p \in new : p.origin # "file") \/ (Names(new) = FileNames /\ \A p \in new : p.origin = "file"),
           CommitChecked(c, new), calls' = calls
    PROVE  CatalogInv' /\ FileStep
<1>1. CASE Commit(c, new)
  BY <1>1, AddsKeep
<1>2. CASE Refuse(c)
  BY <1>2, EndsKeep DEF Refuse, CatalogInv, CatalogTypes
<1> QED
  BY <1>1, <1>2 DEF CommitChecked

LEMMA CreatePresetKeeps ==
    ASSUME CatalogInv, NEW c \in Callers, CreatePreset(c)
    PROVE  CatalogInv' /\ FileStep
<1>0. PICK m \in Models : \E name \in {<<m, 1>>, File[1].name} : CommitChecked(c, {Preset(c, name, m, {}, "owner")})
  BY DEF CreatePreset
<1>1. PICK name \in {<<m, 1>>, File[1].name} : CommitChecked(c, {Preset(c, name, m, {}, "owner")})
  BY <1>0
<1>2. name \in PresetNames /\ Calls(c) /\ calls' = calls
  BY DEF PresetNames, CreatePreset, Calls, Waits
<1> DEFINE p == Preset(c, name, m, {}, "owner")
<1>3. p \in PresetRows /\ p.made = call[c].id /\ p.origin = "owner"
  BY <1>2, PresetsMade
<1>4. IsFiniteSet({p})
  BY FS_Singleton
<1> HIDE DEF p
<1>5. {p} \in SUBSET PresetRows /\ (\A q \in {p} : q.made = call[c].id) /\ \A q \in {p} : q.origin # "file"
  BY <1>3
<1>6. CommitChecked(c, {p})
  BY <1>1 DEF p
<1> QED
  BY <1>2, <1>4, <1>5, <1>6, CommitCheckedKeeps

LEMMA RemovePresetKeeps ==
    ASSUME CatalogInv, NEW c \in Callers, RemovePreset(c)
    PROVE  CatalogInv' /\ FileStep
<1>1. presets' \subseteq presets /\ Answer(c, "done") /\ UNCHANGED <<rows, enabled, paired, imported, calls>>
  BY DEF RemovePreset
<1> QED
  BY <1>1, EndsKeep DEF CatalogInv, CatalogTypes

LEMMA ImportFileKeeps ==
    ASSUME CatalogInv, NEW c \in Callers, ImportFile(c)
    PROVE  CatalogInv' /\ FileStep
<1>0. call[c].op = "import" /\ calls' = calls /\ {} \in SUBSET PresetRows
  BY DEF ImportFile
<1>1. CASE UNCHANGED <<rows, enabled, paired, presets, imported>> /\ Answer(c, "refused")
  BY <1>0, <1>1, EndsKeep DEF CatalogInv, CatalogTypes
<1>2. CASE call[c].step = "read" /\ UNCHANGED <<rows, enabled, paired, presets, imported>> /\ Continue(c, "again", {})
  <2>1. Calls(c)
    BY <1>2 DEF Calls, Waits
  <2> QED
    BY <1>0, <1>2, <2>1, ReadsKeep
<1>3. CASE /\ call[c].step = "again" /\ UNCHANGED <<rows, enabled, paired, presets, imported>>
           /\ Continue(c, "write", {Installed(c, File[i], "file") : i \in 1..Len(File)})
  <2>1. Calls(c)
    BY <1>3 DEF Calls, Waits
  <2> QED
    BY <1>0, <1>3, <2>1, FileInstalled, ReadsKeep
<1>4. CASE call[c].step = "write" /\ CommitChecked(c, call[c].read)
  <2>1. Calls(c) /\ WritesOwn(c) /\ call[c].read \in SUBSET PresetRows
    BY <1>4 DEF Calls, Waits, CatalogInv, CatalogTypes, CallRows
  <2>2. /\ IsFiniteSet(call[c].read) /\ Names(call[c].read) = FileNames
        /\ \A p \in call[c].read : p.made = call[c].id /\ p.origin = "file"
    BY <1>0, <1>4, <2>1 DEF WritesOwn, WritesNew
  <2> QED
    BY <1>0, <1>4, <2>1, <2>2, CommitCheckedKeeps
<1> QED
  BY <1>1, <1>2, <1>3, <1>4 DEF ImportFile

LEMMA InstallStartersKeeps ==
    ASSUME CatalogInv, NEW c \in Callers, InstallStarters(c)
    PROVE  CatalogInv' /\ FileStep
<1>0. call[c].op = "starters" /\ calls' = calls
  BY DEF InstallStarters
<1>1. CASE /\ call[c].step = "read" /\ Continue(c, "write", StartersToInstall(c))
           /\ UNCHANGED <<rows, enabled, paired, presets, imported>>
  <2>1. Calls(c)
    BY <1>1 DEF Calls, Waits
  <2> QED
    BY <1>0, <1>1, <2>1, StartersInstalled, ReadsKeep
<1>2. CASE call[c].step = "write" /\ CommitChecked(c, call[c].read)
  <2>1. Calls(c) /\ WritesOwn(c) /\ call[c].read \in SUBSET PresetRows
    BY <1>2 DEF Calls, Waits, CatalogInv, CatalogTypes, CallRows
  <2>2. IsFiniteSet(call[c].read) /\ \A p \in call[c].read : p.made = call[c].id /\ p.origin # "file"
    BY <1>0, <1>2, <2>1 DEF WritesOwn, WritesNew
  <2> QED
    BY <1>0, <1>2, <2>1, <2>2, CommitCheckedKeeps
<1> QED
  BY <1>1, <1>2 DEF InstallStarters

LEMMA ModelsKeep ==
    ASSUME CatalogInv, NEW c \in Callers, ImportLegacy(c) \/ SeedDefaults(c)
    PROVE  CatalogInv' /\ FileStep
<1>0. /\ calls' = calls /\ Legacy \subseteq Models /\ {} \in SUBSET PresetRows
      /\ rows \subseteq Assets \cup {Pass} /\ enabled \subseteq rows /\ paired \subseteq CatalogLoras \X Models
      /\ imported \in BOOLEAN
  BY CatalogAssumption DEF ImportLegacy, SeedDefaults, CatalogInv, CatalogTypes
<1> DEFINE Ends ==
             \E step \in {"done", "refused"} :
               /\ Answer(c, step) /\ presets' = presets /\ imported' \in BOOLEAN
               /\ rows' \in {rows, rows \cup Legacy, Legacy} /\ enabled' \subseteq rows' /\ paired' = paired
           Reads ==
             /\ call[c].op = "legacy" /\ call[c].step = "read" /\ Continue(c, "write", {})
             /\ UNCHANGED <<rows, enabled, paired, presets, imported>>
<1>1. CASE Ends
  <2>1. rows' \subseteq Assets \cup {Pass}
    BY <1>0, <1>1 DEF Assets
  <2> QED
    BY <1>0, <1>1, <2>1, EndsKeep
<1>2. CASE Reads
  <2>1. Calls(c)
    BY <1>2 DEF Calls, Waits
  <2> QED
    BY <1>0, <1>2, <2>1, ReadsKeep
<1>3. ImportLegacy(c) => Ends \/ Reads
  BY <1>0 DEF ImportLegacy, Refuse
<1>4. SeedDefaults(c) => Ends
  BY <1>0 DEF SeedDefaults
<1> QED
  BY <1>1, <1>2, <1>3, <1>4

\* A preset that is written back takes the place of the one it was read from.
LEMMA AttachPassKeeps ==
    ASSUME CatalogInv, NEW c \in Callers, AttachPass(c)
    PROVE  CatalogInv' /\ FileStep
<1>0. /\ calls' = calls /\ {} \in SUBSET PresetRows /\ call[c].op = "attach"
      /\ rows \subseteq Assets \cup {Pass} /\ enabled \subseteq rows /\ paired \subseteq CatalogLoras \X Models
      /\ imported \in BOOLEAN /\ call \in [Callers -> CallRows] /\ \A d \in Callers : call[d] \in CallRows
      /\ presets \subseteq PresetRows /\ IsFiniteSet(presets) /\ NamesApart(presets)
  BY DEF AttachPass, CatalogInv, CatalogTypes
<1>1. CASE Answer(c, "refused") /\ UNCHANGED <<rows, enabled, paired, presets, imported>>
  BY <1>0, <1>1, EndsKeep
<1>2. CASE /\ call[c].step = "read" /\ (\E p \in presets : Continue(c, "write", {p}))
           /\ UNCHANGED <<rows, enabled, paired, presets, imported>>
  <2>1. PICK p \in presets : Continue(c, "write", {p})
    BY <1>2
  <2>2. Calls(c) /\ {p} \in SUBSET PresetRows /\ {p} \subseteq presets
    BY <1>0, <1>2, <2>1 DEF Calls, Waits
  <2> QED
    BY <1>0, <1>2, <2>1, <2>2, ReadsKeep
<1>3. CASE /\ call[c].step = "write"
           /\ \E old \in call[c].read :
                 /\ \E p \in presets : Same(p, old)
                 /\ presets' = {p \in presets : ~Same(p, old)} \cup {[old EXCEPT !.passes = @ \cup {Pass}]}
                 /\ rows' = rows \cup {Pass} /\ enabled' = enabled \cup {Pass}
                 /\ Answer(c, "done") /\ UNCHANGED <<paired, imported>>
  <2>1. PICK old \in call[c].read :
                 /\ \E p \in presets : Same(p, old)
                 /\ presets' = {p \in presets : ~Same(p, old)} \cup {[old EXCEPT !.passes = @ \cup {Pass}]}
    BY <1>3
  <2>2. PICK was \in presets : Same(was, old)
    BY <2>1
  <2> DEFINE again == [old EXCEPT !.passes = @ \cup {Pass}]
  <2>3. /\ again \in PresetRows /\ again.name = was.name /\ again.made = was.made /\ again.origin = was.origin
    <3>1. old \in PresetRows /\ WritesBack(c) /\ Attaches(c)
      BY <1>0, <1>3 DEF CallRows, CatalogInv, Attaches
    <3>2. was.origin = old.origin
      BY <2>2, <3>1 DEF WritesBack
    <3>3. again \in PresetRows /\ again.name = old.name /\ again.made = old.made /\ again.origin = old.origin
      BY <3>1 DEF PresetRows
    <3> QED
      BY <2>2, <3>2, <3>3 DEF Same
  <2>4. \A p \in presets : ~Same(p, old) <=> p # was
    BY <1>0, <2>2 DEF Same, NamesApart
  <2> HIDE DEF again
  <2>5. presets' = (presets \ {was}) \cup {again}
    BY <2>1, <2>4 DEF again
  <2>6. presets' \subseteq PresetRows /\ IsFiniteSet(presets') /\ NamesApart(presets')
    <3>1. IsFiniteSet(presets')
      BY <1>0, <2>5, FS_RemoveElement, FS_AddElement
    <3> QED
      BY <1>0, <2>2, <2>3, <2>5, <3>1 DEF NamesApart
  \* Nothing that is said of presets tells the two apart.
  <2>7. \A p \in presets' : \E q \in presets : p.name = q.name /\ p.made = q.made /\ p.origin = q.origin
    BY <2>2, <2>3, <2>5
  <2>8. call'[c] = [op |-> call[c].op, step |-> "done", read |-> {}, id |-> call[c].id]
        /\ \A d \in Callers \ {c} : call'[d] = call[d]
    BY <1>0, <1>3 DEF Answer, CallRows
  <2>9. call' \in [Callers -> CallRows]
    <3>1. call'[c] \in CallRows
      BY <1>0, <2>8 DEF CallRows
    <3> QED
      BY <1>0, <1>3, <3>1 DEF Answer
  <2>10. CatalogTypes'
    BY <1>0, <1>3, <2>6, <2>9 DEF CatalogInv, CatalogTypes
  <2>11. \A d \in Callers : call'[d].id = call[d].id /\ (Calls(d)' => Calls(d) /\ d # c)
    BY <2>8 DEF Calls, Waits
  <2>12. NumberedCalls'
    BY <1>0, <2>7, <2>11 DEF CatalogInv, NumberedCalls
  <2>13. ASSUME NEW d \in Callers PROVE WritesOwn(d)' /\ WritesBack(d)'
    <3>1. CASE d = c
      BY <2>8, <3>1 DEF WritesOwn, WritesBack, WritesNew, Attaches
    <3>2. CASE d # c
      <4>1. call'[d] = call[d] /\ WritesOwn(d) /\ WritesBack(d)
        BY <2>8, <3>2 DEF CatalogInv
      <4>2. WritesOwn(d)'
        BY <4>1 DEF WritesOwn, WritesNew, Names, FileNames
      <4>3. WritesBack(d)'
        <5> SUFFICES ASSUME Attaches(d)', NEW o \in call'[d].read
                     PROVE  /\ o.made <= calls' /\ \A e \in Callers : Calls(e)' => o.made # call'[e].id
                            /\ \A p \in presets' : Same(p, o) => p.origin = o.origin
          BY DEF WritesBack, Same
        <5>1. /\ o.made <= calls /\ \A e \in Callers : Calls(e) => o.made # call[e].id
              /\ \A p \in presets : Same(p, o) => p.origin = o.origin
          BY <4>1 DEF WritesBack, Attaches
        <5> QED
          BY <1>0, <2>7, <2>11, <5>1 DEF Same
      <4> QED
        BY <4>2, <4>3
    <3> QED
      BY <3>1, <3>2
  <2>14. Names(FromFile(presets')) \subseteq Names(FromFile(presets))
    BY <2>7 DEF Names, FromFile
  <2> QED
    BY <2>10, <2>12, <2>13, <2>14 DEF CatalogInv, FileStep
<1> QED
  BY <1>0, <1>1, <1>2, <1>3 DEF AttachPass, Refuse

LEMMA CatalogStep == CatalogInv /\ CatalogNext => CatalogInv' /\ FileStep
<1> SUFFICES ASSUME CatalogInv, CatalogNext PROVE CatalogInv' /\ FileStep
  OBVIOUS
<1>1. ASSUME NEW c \in Callers,
             \/ BeginCall(c) \/ ListPresets(c) \/ CreatePreset(c) \/ RemovePreset(c) \/ AttachPass(c)
             \/ ImportFile(c) \/ InstallStarters(c) \/ ImportLegacy(c) \/ SeedDefaults(c)
      PROVE  CatalogInv' /\ FileStep
  BY <1>1, BeginCallKeeps, ListPresetsKeeps, CreatePresetKeeps, RemovePresetKeeps, AttachPassKeeps,
     ImportFileKeeps, InstallStartersKeeps, ModelsKeep
<1>2. ASSUME NEW a \in Assets, CatalogAsset(a) \/ UpdateAsset(a) \/ DeleteAsset(a)
      PROVE  CatalogInv' /\ FileStep
  <2>1. rows \subseteq Assets \cup {Pass} /\ enabled \subseteq rows /\ paired \subseteq CatalogLoras \X Models
    BY DEF CatalogInv, CatalogTypes
  <2>2. /\ calls < MaxCalls /\ calls' = calls + 1 /\ UNCHANGED <<presets, imported, call>>
        /\ rows' \subseteq Assets \cup {Pass} /\ enabled' \subseteq rows' /\ paired' \subseteq CatalogLoras \X Models
    BY <1>2, <2>1 DEF CatalogAsset, UpdateAsset, DeleteAsset
  <2> QED
    BY <2>2, AssetsKeep
<1> QED
  BY <1>1, <1>2 DEF CatalogNext

\* Of a preset file all presets are installed or none, whatever other calls
\* commit between its preview and its installation: ImportsHold of MediaCatalog,
\* for any file, models and calls that overlap (import_bundle).
THEOREM FilesAreImportedWhole == CatalogSpec => ImportsHold
<1> DEFINE Whole == LET new == Names(FromFile(presets')) \ Names(FromFile(presets))
                    IN new = {} \/ new = {File[i].name : i \in 1..Len(File)}
<1>1. CatalogInv => CatalogTypeOK
  <2> SUFFICES ASSUME CatalogInv PROVE CatalogTypeOK
    OBVIOUS
  <2>1. Cardinality(Names(presets)) = Cardinality(presets)
    BY NamesCount DEF CatalogInv, CatalogTypes
  <2>2. \A c \in Callers : call[c].step \in {"read", "again", "write", "done", "refused"}
    BY DEF CatalogInv, CatalogTypes, CallRows, Waits
  <2> QED
    BY <2>1, <2>2 DEF CatalogInv, CatalogTypes, CatalogTypeOK
<1>2. CatalogInv /\ [CatalogNext]_catalogVars => CatalogInv' /\ [Whole]_catalogVars
  <2> SUFFICES ASSUME CatalogInv, [CatalogNext]_catalogVars PROVE CatalogInv' /\ [Whole]_catalogVars
    OBVIOUS
  <2>1. CASE CatalogNext
    BY <2>1, CatalogStep DEF FileStep, FileNames
  <2>2. CASE UNCHANGED catalogVars
    <3>1. UNCHANGED <<rows, enabled, paired, presets, imported, calls, call>>
      BY <2>2 DEF catalogVars
    <3>2. CatalogTypes'
      BY <3>1 DEF CatalogInv, CatalogTypes, NamesApart
    <3>3. NumberedCalls'
      BY <3>1 DEF CatalogInv, NumberedCalls, Calls
    <3>4. ASSUME NEW c \in Callers PROVE WritesOwn(c)'
      BY <3>1 DEF CatalogInv, WritesOwn, WritesNew, Names, FileNames
    <3>5. ASSUME NEW c \in Callers PROVE WritesBack(c)'
      BY <3>1 DEF CatalogInv, WritesBack, Attaches, Calls, Same
    <3>6. CatalogInv'
      BY <3>2, <3>3, <3>4, <3>5 DEF CatalogInv
    <3> HIDE DEF Whole
    <3> QED
      BY <2>2, <3>6
  <2> QED
    BY <2>1, <2>2
<1> QED
  BY CatalogStarts, <1>1, <1>2, PTL DEF CatalogSpec, ImportsHold, ImportAllOrNothing

=============================================================================
