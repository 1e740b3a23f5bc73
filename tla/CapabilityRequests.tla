------------------------- MODULE CapabilityRequests -------------------------
(***************************************************************************)
(* app/capability_service.py: requests for pictures and videos, the chat    *)
(* attachment that shows each one, and the jobs that make them.  Rows are   *)
(* functions from identities; "none" is a row that does not exist.  A job   *)
(* of a request is a pair of the request and a number, because two          *)
(* approvals that overlap create two.  JobService models how one job ends;  *)
(* here its callbacks are single steps.                                     *)
(***************************************************************************)
EXTENDS Naturals, FiniteSets

CONSTANTS
    Requests,     \* identities of rows of capability_requests
    Sessions,     \* handlers of one user that may be in progress at once
    MaxJobs,      \* bound: jobs per request
    MaxRestarts   \* bound: restarts in one behaviour

ASSUME CapabilityAssumption ==
    /\ IsFiniteSet(Requests)
    /\ MaxJobs \in Nat \ {0} /\ MaxRestarts \in Nat

VARIABLES
    status,       \* status[r]: status of the request
    origin,       \* origin[r]: the way the request was made
    kind,         \* kind[r]: "image", "edit" or "video"
    plan,         \* plan[r]: status of the media execution plan
    attachment,   \* attachment[r]: [shown, retry] of the chat attachment
    replaces,     \* replaces[r]: the requests that r retries, one at most
    job,          \* job[r][n]: status of the n-th job of r
    work,         \* work[r][n]: where that job is in this process
    session,      \* session[s]: what a handler has read and will commit
    isolated,     \* whether units of work of handlers exclude each other
    permitted,    \* history: requests a user or an automatic plan permitted
    refused,      \* history: pending requests whose approval was refused
    restarts

requestVars == <<status, origin, kind, plan, attachment, replaces, permitted>>
workVars == <<job, work>>
handlerVars == <<session, isolated, refused>>
vars == <<requestVars, workVars, handlerVars, restarts>>

None == "none"
Idle == [op |-> "idle"]
Live == {"queued", "running"}
Ended == {"completed", "failed", "cancelled", "denied"}
Statuses == {None, "pending_confirmation"} \cup Live \cup Ended
Operations == {"approve", "deny", "cancel", "cancel_job", "retry"}
JobNumbers == 1..MaxJobs

NoAttachment == [shown |-> None, retry |-> FALSE]
NoJobs == [n \in JobNumbers |-> None]

LegalTransitions ==
    [s \in Statuses |->
        CASE s = "pending_confirmation" -> {"queued", "denied", "cancelled"}
          [] s = "queued" -> {"running", "failed", "cancelled"}
          [] s = "running" -> {"completed", "failed", "cancelled"}
          [] OTHER -> {}]

\* What transition_capability makes the attachment show.
Shown(s) ==
    CASE s = "pending_confirmation" -> "queued"
      [] s = "denied" -> "cancelled"
      [] OTHER -> s

\* Variant: an attachment keeps offering the retry of a picture that was made.
SyncedForgetting(a, s) ==
    IF a = NoAttachment
    THEN a
    ELSE [shown |-> IF s = "denied" THEN a.shown ELSE Shown(s),
          retry |-> a.retry \/ s \in {"failed", "cancelled"}]

Synced(a, s) ==
    IF a = NoAttachment
    THEN a
    ELSE [shown |-> Shown(s),
          retry |-> IF s \in {"failed", "cancelled"} THEN TRUE
                    ELSE IF s \in Ended THEN FALSE ELSE a.retry]

TypeOK ==
    /\ status \in [Requests -> Statuses]
    /\ origin \in [Requests -> {None, "planned", "explicit", "edit", "retry", "background"}]
    /\ kind \in [Requests -> {None, "image", "edit", "video"}]
    /\ plan \in [Requests -> {None, "ready", "blocked"}]
    /\ attachment \in [Requests -> [shown : {None, "queued", "running", "completed",
                                             "failed", "cancelled", "retried"},
                                    retry : BOOLEAN]]
    /\ replaces \in [Requests -> SUBSET Requests]
    /\ job \in [Requests -> [JobNumbers -> {None} \cup Live \cup Ended]]
    /\ work \in [Requests -> [JobNumbers -> {None, "owed", "submitting", "waiting", "running"}]]
    /\ DOMAIN session = Sessions
    /\ isolated \in BOOLEAN
    /\ permitted \subseteq Requests /\ refused \subseteq Requests
    /\ restarts \in 0..MaxRestarts

Init ==
    /\ status = [r \in Requests |-> None]
    /\ origin = [r \in Requests |-> None]
    /\ kind = [r \in Requests |-> None]
    /\ plan = [r \in Requests |-> None]
    /\ attachment = [r \in Requests |-> NoAttachment]
    /\ replaces = [r \in Requests |-> {}]
    /\ job = [r \in Requests |-> NoJobs]
    /\ work = [r \in Requests |-> NoJobs]
    /\ session = [s \in Sessions |-> Idle]
    /\ isolated \in BOOLEAN
    /\ permitted = {} /\ refused = {}
    /\ restarts = 0

-----------------------------------------------------------------------------
(* Rows *)

\* transition_capability: an illegal transition raises and nothing is written.
Transition(r, s) ==
    /\ s = status[r] \/ s \in LegalTransitions[status[r]]
    /\ status' = [status EXCEPT ![r] = s]
    /\ attachment' = [attachment EXCEPT ![r] = Synced(@, s)]

\* add_capability_request: the idempotency key is new.
AddRequest(r, s, by, k, p) ==
    /\ status[r] = None
    /\ status' = [status EXCEPT ![r] = s]
    /\ origin' = [origin EXCEPT ![r] = by]
    /\ kind' = [kind EXCEPT ![r] = k]
    /\ plan' = [plan EXCEPT ![r] = p]

\* add_job: a further job row of the request, for submission as `how' says.
AddJob(r, how) ==
    \E n \in JobNumbers :
        /\ job[r][n] = None /\ \A m \in 1..(n - 1) : job[r][m] # None
        /\ job' = [job EXCEPT ![r][n] = "queued"]
        /\ work' = [work EXCEPT ![r][n] = how]

Attach(r, s) ==
    attachment' = [attachment EXCEPT ![r] = [shown |-> Shown(s), retry |-> s = "failed"]]

\* A request of an automatic or explicit action: queued with a job if its plan
\* is ready, failed at once if it is blocked.
Enqueue(r, by, k, how) ==
    \/ /\ AddRequest(r, "queued", by, k, "ready")
       /\ AddJob(r, how)
    \/ /\ AddRequest(r, "failed", by, k, "blocked")
       /\ UNCHANGED workVars

-----------------------------------------------------------------------------
(* Creation *)

AutoExecutes(k) == k = "image"

\* on_planning and prepare_planned_requests, for one planned capability.
PreparePlanned(r) ==
    /\ \E k \in {"image", "edit", "video"} :
        \/ /\ AutoExecutes(k)
           /\ Enqueue(r, "planned", k, "owed")
           /\ permitted' = IF k = "image" THEN permitted \cup {r} ELSE permitted
        \/ /\ ~AutoExecutes(k)
           /\ \E p \in {"ready", "blocked"} :
                AddRequest(r, "pending_confirmation", "planned", k, p)
           /\ UNCHANGED <<workVars, permitted>>
    /\ Attach(r, status'[r])
    /\ UNCHANGED <<replaces, handlerVars, restarts>>

\* start_explicit: the plan of submitted settings is never blocked.
StartExplicit(r) ==
    /\ \E k \in {"image", "video"} :
        AddRequest(r, "queued", "explicit", k, "ready")
    /\ AddJob(r, "submitting")
    /\ \/ Attach(r, "queued") \/ UNCHANGED attachment
    /\ permitted' = permitted \cup {r}
    /\ UNCHANGED <<replaces, handlerVars, restarts>>

\* start_edit: a plan that is not ready rolls the whole request back.
StartEdit(r) ==
    /\ AddRequest(r, "queued", "edit", "edit", "ready")
    /\ AddJob(r, "submitting")
    /\ permitted' = permitted \cup {r}
    /\ UNCHANGED <<attachment, replaces, handlerVars, restarts>>

\* replan: the coordinator plan of a pending request after settings changed.
Replan(r) ==
    /\ status[r] = "pending_confirmation" /\ kind[r] = "video"
    /\ \E p \in {"ready", "blocked"} : plan' = [plan EXCEPT ![r] = p]
    /\ UNCHANGED <<status, origin, kind, attachment, replaces, permitted,
                   workVars, handlerVars, restarts>>

-----------------------------------------------------------------------------
(* Handlers: a unit of work reads without a lock and commits what it read.   *)

MayRead(s) == session[s] = Idle /\ (isolated => \A t \in Sessions : session[t] = Idle)

Begin(s, op, r) ==
    /\ MayRead(s)
    /\ session' = [session EXCEPT ![s] = [op |-> op, of |-> r, seen |-> status[r]]]
    /\ UNCHANGED <<requestVars, workVars, isolated, refused, restarts>>

\* approve: what reads as an image is refused, whether it is made or edited.
ApproveRead(s, r) ==
    /\ status[r] = "pending_confirmation"
    /\ kind[r] \notin {"image", "edit"}
    /\ plan[r] = "ready"
    /\ Begin(s, "approve", r)

ApproveRefused(s, r) ==
    /\ MayRead(s)
    /\ status[r] = "pending_confirmation"
    /\ kind[r] \in {"image", "edit"}
    /\ plan[r] = "ready"
    /\ refused' = refused \cup {r}
    /\ UNCHANGED <<requestVars, workVars, session, isolated, restarts>>

DenyRead(s, r) ==
    /\ status[r] = "pending_confirmation"
    /\ Begin(s, "deny", r)

CancelRead(s, r) ==
    /\ status[r] \in {"pending_confirmation"} \cup Live
    /\ Begin(s, "cancel", r)

\* retry: only a picture of a chat whose attachment offers it.
RetryRead(s, r) ==
    /\ attachment[r].retry
    /\ status[r] \in {"failed", "cancelled"}
    /\ kind[r] = "image"
    /\ Begin(s, "retry", r)

\* The commit of a unit of work that read `seen': the row is written from that.
CommitAs(s, op) == session[s].op = op
Write(r, seen, to) ==
    /\ to \in LegalTransitions[seen]
    /\ status' = [status EXCEPT ![r] = to]
    /\ attachment' = [attachment EXCEPT ![r] = Synced(@, to)]
Return(s) == session' = [session EXCEPT ![s] = Idle]

ApproveCommit(s) ==
    /\ CommitAs(s, "approve")
    /\ LET r == session[s].of IN
        /\ Write(r, session[s].seen, "queued")
        /\ AddJob(r, "submitting")
        /\ permitted' = permitted \cup {r}
    /\ Return(s)
    /\ UNCHANGED <<origin, kind, plan, replaces, isolated, refused, restarts>>

DenyCommit(s) ==
    /\ CommitAs(s, "deny")
    /\ Write(session[s].of, session[s].seen, "denied")
    /\ Return(s)
    /\ UNCHANGED <<origin, kind, plan, replaces, permitted, workVars,
                   isolated, refused, restarts>>

\* cancel: a pending request is cancelled here, a live one through its job,
\* after this unit of work has ended.
CancelCommit(s) ==
    /\ CommitAs(s, "cancel")
    /\ LET r == session[s].of IN
        \/ /\ session[s].seen = "pending_confirmation"
           /\ Write(r, "pending_confirmation", "cancelled")
           /\ Return(s)
        \/ /\ session[s].seen \in Live
           /\ \E n \in JobNumbers :
                /\ job[r][n] # None
                /\ session' = [session EXCEPT ![s] =
                                [op |-> "cancel_job", of |-> r, seen |-> n]]
           /\ UNCHANGED <<status, attachment>>
    /\ UNCHANGED <<origin, kind, plan, replaces, permitted, workVars,
                   isolated, refused, restarts>>

\* Variant: the retried attachment still offers the retry.
RetriedAgain == [shown |-> "retried", retry |-> TRUE]

Retried == [shown |-> "retried", retry |-> FALSE]

RetryCommit(s, r) ==
    /\ CommitAs(s, "retry")
    /\ LET o == session[s].of IN
        /\ Enqueue(r, "retry", "image", "submitting")
        /\ attachment' = [attachment EXCEPT
                ![o] = Retried,
                ![r] = [shown |-> status'[r], retry |-> status'[r] = "failed"]]
        /\ replaces' = [replaces EXCEPT ![r] = {o}]
    /\ permitted' = permitted \cup {r}
    /\ Return(s)
    /\ UNCHANGED <<isolated, refused, restarts>>

-----------------------------------------------------------------------------
(* Jobs *)

\* What on_success, on_failure and on_cancel do to the request.
Finish(r, s) ==
    IF (IF s = "completed" THEN status[r] = "running" ELSE status[r] \notin Ended)
    THEN Transition(r, s)
    ELSE UNCHANGED <<status, attachment>>

JobEnds(r, n, s) ==
    /\ job' = [job EXCEPT ![r][n] = s]
    /\ work' = [work EXCEPT ![r][n] = None]

jobFrame == <<origin, kind, plan, replaces, permitted, restarts>>

\* submit_queued and submit_background look again before they submit.
CheckQueued(r, n) ==
    /\ work[r][n] = "owed"
    /\ work' = [work EXCEPT ![r][n] =
                    IF status[r] = "queued" /\ job[r][n] = "queued" THEN "submitting" ELSE None]
    /\ UNCHANGED <<requestVars, job, handlerVars, restarts>>

Submit(r, n) ==
    /\ work[r][n] = "submitting"
    /\ work' = [work EXCEPT ![r][n] = "waiting"]
    /\ UNCHANGED <<requestVars, job, handlerVars, restarts>>

\* Requests that the turn itself submits, with nobody to see an exception.
Automatic(r) == origin[r] = "planned" /\ AutoExecutes(kind[r])

\* _submit raises: fail_unsubmitted fails the job unless it has ended.
SubmitFails(r, n) ==
    /\ work[r][n] = "submitting" /\ ~Automatic(r)
    /\ IF job[r][n] = "queued"
       THEN JobEnds(r, n, "failed") /\ Finish(r, "failed")
       ELSE /\ work' = [work EXCEPT ![r][n] = None]
            /\ UNCHANGED <<job, status, attachment>>
    /\ UNCHANGED <<jobFrame, handlerVars>>

\* after_planning: whatever submit_queued raises, be it for the settings of the
\* plan, before the job could be submitted, fails a request that is still queued.
AutomaticFails(r, n) ==
    /\ Automatic(r)
    /\ \/ work[r][n] = "owed" /\ status[r] = "queued" /\ job[r][n] = "queued" /\ UNCHANGED job
       \/ /\ work[r][n] = "submitting"
          /\ job' = IF job[r][n] = "queued" THEN [job EXCEPT ![r][n] = "failed"] ELSE job
    /\ work' = [work EXCEPT ![r][n] = None]
    /\ IF status[r] = "queued" THEN Transition(r, "failed") ELSE UNCHANGED <<status, attachment>>
    /\ UNCHANGED <<jobFrame, handlerVars>>

StartJob(r, n) ==
    /\ work[r][n] = "waiting" /\ job[r][n] = "queued"
    /\ job' = [job EXCEPT ![r][n] = "running"]
    /\ work' = [work EXCEPT ![r][n] = "running"]
    /\ IF status[r] = "queued" THEN Transition(r, "running") ELSE UNCHANGED <<status, attachment>>
    /\ UNCHANGED <<jobFrame, handlerVars>>

EndJob(r, n, s) ==
    /\ s \in {"completed", "failed"}
    /\ work[r][n] = "running" /\ job[r][n] = "running"
    /\ JobEnds(r, n, s)
    /\ Finish(r, s)
    /\ UNCHANGED <<jobFrame, handlerVars>>

\* A worker finds that its job was cancelled.
Abandon(r, n) ==
    /\ work[r][n] \in {"waiting", "running"} /\ job[r][n] = "cancelled"
    /\ work' = [work EXCEPT ![r][n] = None]
    /\ UNCHANGED <<requestVars, job, handlerVars, restarts>>

\* JobService.cancel: the callback exists once the job has been submitted.
CancelJob(s) ==
    /\ CommitAs(s, "cancel_job")
    /\ LET r == session[s].of  n == session[s].seen IN
        IF job[r][n] \in Live
        THEN /\ job' = [job EXCEPT ![r][n] = "cancelled"]
             /\ IF work[r][n] \in {"waiting", "running"}
                THEN Finish(r, "cancelled")
                ELSE UNCHANGED <<status, attachment>>
        ELSE UNCHANGED <<job, status, attachment>>
    /\ Return(s)
    /\ UNCHANGED <<jobFrame, work, isolated, refused>>

-----------------------------------------------------------------------------
(* Restart: memory is lost, initialize_database recovers and sweeps. *)

\* Requests in execution whose picture is a durable media file with a chat.
Recoverable(r) == status[r] = "running" /\ attachment[r].shown = "running"

SweptShown(a) == IF a.shown \in Live THEN [shown |-> "failed", retry |-> TRUE] ELSE a

Restart ==
    /\ restarts < MaxRestarts
    /\ restarts' = restarts + 1
    /\ \E made \in SUBSET {r \in Requests : Recoverable(r)} :
        /\ status' = [r \in Requests |->
                        IF r \in made THEN "completed"
                        ELSE IF status[r] \in Live THEN "failed" ELSE status[r]]
        /\ attachment' = [r \in Requests |->
                            IF r \in made THEN [shown |-> "completed", retry |-> FALSE]
                            ELSE SweptShown(attachment[r])]
        /\ job' = [r \in Requests |-> [n \in JobNumbers |->
                    IF job[r][n] \notin Live THEN job[r][n]
                    ELSE IF r \in made THEN "completed" ELSE "failed"]]
    /\ work' = [r \in Requests |-> NoJobs]
    /\ session' = [s \in Sessions |-> Idle]
    /\ UNCHANGED <<origin, kind, plan, replaces, permitted, isolated, refused>>

-----------------------------------------------------------------------------
JobStep(r, n) ==
    \/ CheckQueued(r, n) \/ Submit(r, n) \/ StartJob(r, n) \/ Abandon(r, n)
    \/ EndJob(r, n, "completed") \/ EndJob(r, n, "failed")

SessionStep(s) ==
    \/ ApproveCommit(s) \/ DenyCommit(s) \/ CancelCommit(s) \/ CancelJob(s)
    \/ \E r \in Requests : RetryCommit(s, r)

SessionRead(s) ==
    \E r \in Requests :
        \/ ApproveRead(s, r) \/ ApproveRefused(s, r) \/ DenyRead(s, r)
        \/ CancelRead(s, r) \/ RetryRead(s, r)

Next ==
    \/ \E r \in Requests : PreparePlanned(r) \/ StartExplicit(r) \/ StartEdit(r) \/ Replan(r)
    \/ \E s \in Sessions : SessionRead(s) \/ SessionStep(s)
    \/ \E r \in Requests, n \in JobNumbers : JobStep(r, n) \/ SubmitFails(r, n) \/ AutomaticFails(r, n)
    \/ Restart

Spec == Init /\ [][Next]_vars
-----------------------------------------------------------------------------
(* Properties *)

\* What a chat shows of a picture is what became of its request, and a retry
\* is offered exactly for pictures that failed or were cancelled.  The sweep of
\* a restart also marks attachments of requests that wait for confirmation.
\* (transition_capability, _sync_attachment, retry, initialize_database)
AttachmentAgrees ==
    isolated =>
        \A r \in Requests :
            LET a == attachment[r]  failed == status[r] \in {"failed", "cancelled"} IN
            a # NoAttachment =>
                /\ \/ a.shown = Shown(status[r])
                   \/ (a.shown = "retried" /\ failed)
                   \/ (a.shown = "failed" /\ status[r] = "pending_confirmation" /\ restarts > 0)
                /\ failed /\ a.shown # "retried" => a.retry
                /\ a.retry => failed \/ (restarts > 0 /\ kind[r] # "image")

\* Nothing is made that no user and no automatic plan permitted, whatever
\* handlers overlap; and without overlap nothing is made that was denied.
\* (prepare_planned_requests, approve, deny)
MadeWithPermission ==
    \A r \in Requests : job[r] # NoJobs =>
        /\ r \in permitted
        /\ isolated => status[r] # "denied"

\* Without overlap a failed picture is replaced by at most one further request
\* and a request has at most one job, so nothing is made twice.
\* (retry, approve)
ReplacedOnce ==
    isolated =>
        /\ \A q, r \in Requests : replaces[q] \cap replaces[r] # {} => q = r
        /\ \A r \in Requests : Cardinality({n \in JobNumbers : job[r][n] # None}) <= 1

\* The platform keeps its word that a proposed change runs once the user has
\* confirmed it: no confirmation of a ready request is refused.
\* (approve; docs/decisions/0029-conversational-image-editing-attachment-references.md)
ConfirmationAccepted == refused = {}

\* What is made was permitted, and what is shown is what became of it.
RequestsInvariant == TypeOK /\ AttachmentAgrees /\ MadeWithPermission
=============================================================================
