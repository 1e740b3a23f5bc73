---------------------------- MODULE TurnFollowups ----------------------------
(* What follows a reply: the title, the planning of pictures and the reading  *)
(* of memories are jobs of their own.  Their rows are written in the reply's  *)
(* transaction, they are submitted one by one after it, and the chat's        *)
(* ordering key lets one of them run at a time.  A picture planned for an     *)
(* explicit request gets a job in the planning's transaction, submitted after *)
(* it in the same way.                                                        *)
(* (turn_pipeline.py, capability_service.py, memory_service.py)               *)
EXTENDS Naturals, FiniteSets

CONSTANTS Turns,        \* the turns a user may take, and in which chats
          MaxPlanned,   \* how many capabilities a planner answers with
          MaxStops   \* how often the process stops

ASSUME FollowupsAssumption ==
    /\ Turns \subseteq [says : {"image", "video", "edit", "story", "literal"},
                        sends : BOOLEAN, saved : BOOLEAN, untitled : BOOLEAN]
    /\ MaxPlanned \in Nat /\ MaxStops \in Nat

VARIABLES context,      \* what the turn resolved before its transaction committed
          catalog,   \* "ready" when a picture could be made, else "none"
          stale,     \* a resource of the plan still to submit was edited since
          pictures,  \* the chat holds a picture that can be edited
          title,     \* whose title the chat bears
          job,       \* the status of each job row
          queue,     \* the jobs the process has in its queue
          after,     \* what the worker of a job has still to submit
          work,      \* the follow-up being run, and what it has in hand
          answer,    \* what the planner's answer came to
          request,   \* the status of each planned capability request
          process, stops

contextVars == <<context, catalog, stale, pictures, title>>
jobVars == <<job, queue, after, work>>
requestVars == <<answer, request>>
processVars == <<process, stops>>
pipelineVars == <<contextVars, jobVars, requestVars, processVars>>

Followups == {"title", "planning", "extraction"}
PipelineJobs == Followups \cup {"chat", "picture"}
Ended == {"completed", "failed", "cancelled"}

\* TurnContext has what the words ask for, whether pictures may be sent, whether
\* memories are saved and whether the chat still needs a title.
ExplicitImage == context.sends /\ context.says = "image"

\* A planned capability: which one, and whether it makes or changes a picture.
Capabilities == {"generate", "edit", "video"}
Planned == [key : Capabilities, op : {"generate", "change"}]
DeterministicPlan == [key |-> "generate", op |-> "generate"]

Idle == [kind |-> "none", at |-> "none", plan |-> {}]

\* _enabled_keys: what the catalog has a ready resource for.
Enabled == IF catalog = "ready" THEN Capabilities ELSE {}

\* planning_attachments: changing a picture is offered while the chat holds one.
Offered == pictures

\* planning_definitions: what the planner may choose from.
Definitions(edits) ==
    {k \in Enabled : (k = "edit" => edits) /\ (k = "generate" => context.sends)}

Operations == {"generate"} \cup (IF Offered THEN {"change"} ELSE {})

\* _parse_capabilities: every field is checked, the key apart from the operation.
Accepts(plan) ==
    /\ Cardinality(plan) <= Cardinality(Definitions(Offered))
    /\ \A r \in plan : r.key \in Definitions(Offered) /\ r.op \in Operations

\* run_planning: an explicit request is planned even when the planner leaves it out.
WithExplicit(plan) ==
    IF ExplicitImage /\ ~\E r \in plan : r.key = "generate"
    THEN plan \cup {DeterministicPlan}
    ELSE plan

\* Mutant: a planner that fails has planned nothing.
NothingPlanned == {}

\* _explicit_image_only: the request in the user's own words.
ExplicitOnly == IF ExplicitImage THEN {DeterministicPlan} ELSE {}

\* _resolve_attachments: what a request changes must still be there.
Resolves(r) == r.op = "change" => pictures

\* prepare_planned_requests: the words must ask for it.
Asked(r) == context.says \in IF r.op = "change" THEN {"edit"} ELSE {"image", "video"}

Admitted(r) == Asked(r) /\ Resolves(r)

Automatic(r) == r.key = "generate"
-----------------------------------------------------------------------------
(* The reply *)

Running(k) == work.kind = k
Set(k, s) == job' = [job EXCEPT ![k] = s]

\* generate decides whether planning follows; the worker takes the turn's job.
Generate ==
    /\ process # "down" /\ work = Idle /\ job["chat"] = "queued"
    /\ Set("chat", "running")
    /\ work' = [Idle EXCEPT !.kind = "chat",
                            !.at = IF /\ context.says # "literal"
                                      /\ Definitions(TRUE) # {} \/ ExplicitImage
                                   THEN "plan" ELSE "reply"]
    /\ UNCHANGED <<contextVars, queue, after, requestVars, processVars>>

Follow ==
    {k \in Followups : /\ k = "title" => context.untitled
                       /\ k = "planning" => work.at = "plan"
                       /\ k = "extraction" => context.saved}

\* on_generated: the reply and the rows of what follows it, in one transaction.
ReplyCommits ==
    /\ Running("chat") /\ job["chat"] = "running"
    /\ job' = [k \in PipelineJobs |-> IF k = "chat" THEN "completed"
                              ELSE IF k \in Follow THEN "queued" ELSE job[k]]
    /\ after' = [after EXCEPT !["chat"] = Follow]
    /\ work' = Idle
    /\ UNCHANGED <<contextVars, queue, requestVars, processVars>>

\* Whatever ran after the owner cancelled it is discarded; a failure fails the job.
WorkEnds ==
    /\ work # Idle
    /\ job' = IF job[work.kind] = "running" THEN [job EXCEPT ![work.kind] = "failed"] ELSE job
    /\ work' = Idle
    /\ UNCHANGED <<contextVars, queue, after, requestVars, processVars>>
-----------------------------------------------------------------------------
(* Submission *)

\* Mutant: a submission that failed is only logged.
SubmitFailsQuietly(k) == [job EXCEPT ![k] = "queued"]

\* _submit_followup and submit_extraction: a job that cannot be submitted fails.
SubmitFails(k) == [job EXCEPT ![k] = "failed"]

\* after_generated, one follow-up at a time.
SubmittedAs == [title |-> 1, planning |-> 2, extraction |-> 3]

SubmitNext ==
    /\ process # "down"
    /\ \E k \in after["chat"] :
         /\ \A j \in after["chat"] : SubmittedAs[k] <= SubmittedAs[j]
         /\ \/ /\ process = "up"
               /\ queue' = queue \cup {k}
               /\ UNCHANGED job
            \/ /\ job' = IF job[k] = "queued" THEN SubmitFails(k) ELSE job
               /\ UNCHANGED queue
         /\ after' = [after EXCEPT !["chat"] = @ \ {k}]
    /\ UNCHANGED <<contextVars, work, requestVars, processVars>>

\* A worker takes a follow-up; one whose row was cancelled is not run (_begin).
StartFollowup(k) ==
    /\ process # "down" /\ work = Idle /\ k \in queue
    /\ queue' = queue \ {k}
    /\ IF job[k] = "queued"
       THEN Set(k, "running") /\ work' = [Idle EXCEPT !.kind = k, !.at = "run"]
       ELSE UNCHANGED <<job, work>>
    /\ UNCHANGED <<contextVars, after, requestVars, processVars>>
-----------------------------------------------------------------------------
(* The title and the memories *)

\* run_title, then on_title's look at the chat: it only replaces its own title.
ReadTitle ==
    /\ Running("title") /\ work.at = "run"
    /\ \E named \in BOOLEAN :
         work' = [work EXCEPT !.at = IF named /\ title = "words" THEN "write" ELSE "done"]
    /\ UNCHANGED <<contextVars, job, queue, after, requestVars, processVars>>

CommitTitle ==
    /\ Running("title") /\ work.at \in {"write", "done"} /\ job["title"] = "running"
    /\ title' = IF work.at = "write" THEN "task" ELSE title
    /\ Set("title", "completed")
    /\ work' = Idle
    /\ UNCHANGED <<context, catalog, stale, pictures, queue, after, requestVars, processVars>>

\* submit_extraction's execute and on_success; MemoryLifecycle has the memories.
CommitExtraction ==
    /\ Running("extraction") /\ job["extraction"] = "running"
    /\ Set("extraction", "completed")
    /\ work' = Idle
    /\ UNCHANGED <<contextVars, queue, after, requestVars, processVars>>
-----------------------------------------------------------------------------
(* Planning *)

\* run_planning: nothing is asked for a literal reply, or without a capability;
\* a planner that fails leaves the explicit request.
RunPlanning ==
    /\ Running("planning") /\ work.at = "run"
    /\ \/ /\ context.says = "literal"
          /\ work' = [work EXCEPT !.at = "commit"] /\ answer' = "none"
       \/ /\ context.says # "literal"
          /\ work' = [work EXCEPT !.at = "commit", !.plan = ExplicitOnly] /\ answer' = "failed"
       \/ /\ context.says # "literal" /\ Definitions(Offered) # {}
          /\ \E plan \in SUBSET Planned :
               /\ Cardinality(plan) <= MaxPlanned /\ Accepts(plan)
               /\ work' = [work EXCEPT !.at = "commit", !.plan = WithExplicit(plan)]
               /\ answer' = IF \E r \in plan : r.key = "generate" /\ r.op = "change"
                            THEN "crossed" ELSE "planned"
    /\ UNCHANGED <<contextVars, job, queue, after, request, processVars>>

\* What a new request starts as: an automatic one waits for its job, or fails
\* because nothing can make it; the others wait for the owner.
Opened(r) ==
    IF ~Automatic(r) THEN "pending_confirmation"
    ELSE IF catalog = "ready" THEN "queued" ELSE "failed"

\* on_planning and prepare_planned_requests, in the transaction that completes
\* the planning.
CommitPlanning ==
    /\ Running("planning") /\ work.at = "commit" /\ job["planning"] = "running"
    /\ LET kept == {r \in work.plan : Admitted(r)}
           owed == {r \in kept : Opened(r) = "queued"} IN
         /\ \A r \in kept : r.op = "change" => catalog = "ready"
         /\ request' = [r \in Planned |-> IF r \in kept THEN Opened(r) ELSE request[r]]
         /\ job' = [job EXCEPT !["planning"] = "completed",
                               !["picture"] = IF owed # {} THEN "queued" ELSE @]
         /\ after' = [after EXCEPT !["planning"] = IF owed # {} THEN {"picture"} ELSE {}]
    /\ work' = Idle
    /\ UNCHANGED <<contextVars, queue, answer, processVars>>

Settled(from, to) == [r \in Planned |-> IF Automatic(r) /\ request[r] \in from THEN to ELSE request[r]]

\* execution_values and _bind_edit_inputs: the saved plan is looked at again.
Outdated == stale \/ \E r \in Planned : Automatic(r) /\ r.op = "change" /\ request[r] = "queued" /\ ~pictures

\* after_planning and submit_queued: a plan that no longer holds fails the request
\* (fail_queued_submission).
SubmitPicture ==
    /\ process # "down" /\ after["planning"] # {}
    /\ after' = [after EXCEPT !["planning"] = {}]
    /\ \/ /\ job["picture"] = "queued" /\ Outdated
          /\ request' = Settled({"queued"}, "failed")
          /\ UNCHANGED <<job, queue>>
       \/ /\ job["picture"] = "queued" /\ ~Outdated /\ process = "up"
          /\ queue' = queue \cup {"picture"}
          /\ UNCHANGED <<job, request>>
       \/ /\ job["picture"] = "queued" /\ ~Outdated
          /\ job' = SubmitFails("picture")
          /\ request' = Settled({"queued", "running"}, "failed")
          /\ UNCHANGED queue
       \/ /\ job["picture"] # "queued"
          /\ UNCHANGED <<job, queue, request>>
    /\ stale' = FALSE
    /\ UNCHANGED <<context, catalog, pictures, title, work, answer, processVars>>

\* The picture's own job, on a worker of its own (_submit's callbacks).
StartPicture ==
    /\ process # "down" /\ "picture" \in queue /\ job["picture"] = "queued"
    /\ Set("picture", "running")
    /\ request' = Settled({"queued"}, "running")
    /\ UNCHANGED <<contextVars, queue, after, work, answer, processVars>>

EndPicture ==
    /\ process # "down" /\ "picture" \in queue /\ job["picture"] = "running"
    /\ queue' = queue \ {"picture"}
    /\ \E end \in {"completed", "failed"} :
         Set("picture", end) /\ request' = Settled({"running"}, end)
    /\ UNCHANGED <<contextVars, after, work, answer, processVars>>
-----------------------------------------------------------------------------
(* The owner and the process *)

Rename == title' = "owner" /\ title # "owner"
          /\ UNCHANGED <<context, catalog, stale, pictures, jobVars, requestVars, processVars>>

\* A resource is edited, disabled or deleted; an edited picture is removed.
EditResource ==
    /\ stale' = (after["planning"] # {}) /\ catalog' \in {catalog, "none"}
    /\ stale' # stale \/ catalog' # catalog
    /\ UNCHANGED <<context, pictures, title, jobVars, requestVars, processVars>>

RemovePicture ==
    /\ pictures /\ pictures' = FALSE
    /\ UNCHANGED <<context, catalog, stale, title, jobVars, requestVars, processVars>>

\* JobService.cancel: the callbacks of a job are known once it is submitted.
CancelPipelineJob(k) ==
    /\ process # "down" /\ job[k] \in {"queued", "running"}
    /\ Set(k, "cancelled")
    /\ queue' = queue \ {k}
    /\ request' = IF k = "picture" /\ k \in queue
                  THEN Settled({"queued", "running"}, "cancelled") ELSE request
    /\ UNCHANGED <<contextVars, after, work, answer, processVars>>

BeginShutdown ==
    /\ process = "up" /\ stops < MaxStops
    /\ process' = "stopping"
    /\ UNCHANGED <<contextVars, jobVars, requestVars, stops>>

Stop ==
    /\ process # "down" /\ stops < MaxStops
    /\ process' = "down" /\ stops' = stops + 1
    /\ queue' = {} /\ after' = [p \in DOMAIN after |-> {}] /\ work' = Idle
    /\ stale' = FALSE
    /\ UNCHANGED <<context, catalog, pictures, title, job, requestVars>>

\* initialize_database: what was unfinished becomes failed.
StartAgain ==
    /\ process = "down"
    /\ process' = "up"
    /\ job' = [k \in PipelineJobs |-> IF job[k] \in {"queued", "running"} THEN "failed" ELSE job[k]]
    /\ request' = [r \in Planned |-> IF request[r] \in {"queued", "running"} THEN "failed"
                                     ELSE request[r]]
    /\ UNCHANGED <<contextVars, queue, after, work, answer, stops>>
-----------------------------------------------------------------------------
FollowupsInit ==
    /\ context \in Turns
    /\ catalog \in {"ready", "none"} /\ stale = FALSE /\ pictures \in BOOLEAN
    /\ title = IF context.untitled THEN "words" ELSE "owner"
    /\ job = [k \in PipelineJobs |-> IF k = "chat" THEN "queued" ELSE "none"]
    /\ queue = {} /\ after = [p \in {"chat", "planning"} |-> {}] /\ work = Idle
    /\ answer = "none" /\ request = [r \in Planned |-> "none"]
    /\ process = "up" /\ stops = 0

Work == Generate \/ ReplyCommits \/ ReadTitle \/ CommitTitle \/ CommitExtraction
        \/ RunPlanning \/ CommitPlanning \/ WorkEnds

FollowupsNext ==
    \/ Work
    \/ SubmitNext \/ SubmitPicture \/ StartPicture \/ EndPicture
    \/ \E k \in Followups : StartFollowup(k)
    \/ Rename \/ EditResource \/ RemovePicture
    \/ \E k \in PipelineJobs : CancelPipelineJob(k)
    \/ BeginShutdown \/ Stop \/ StartAgain

\* Every worker runs on and a stopped process is started again (asgi.py); what
\* its owner does is up to the owner.
FollowupsFairness ==
    /\ WF_pipelineVars(Work) /\ WF_pipelineVars(SubmitNext) /\ WF_pipelineVars(SubmitPicture)
    /\ WF_pipelineVars(EndPicture) /\ WF_pipelineVars(StartPicture)
    /\ \A k \in Followups : WF_pipelineVars(StartFollowup(k))
    /\ WF_pipelineVars(Stop /\ process = "stopping") /\ WF_pipelineVars(StartAgain)

FollowupsSpec == FollowupsInit /\ [][FollowupsNext]_pipelineVars /\ FollowupsFairness
-----------------------------------------------------------------------------
(* Properties *)

Statuses == {"none", "pending_confirmation", "queued", "running"} \cup Ended

FollowupsTypeOK ==
    /\ context \in Turns /\ catalog \in {"ready", "none"}
    /\ stale \in BOOLEAN /\ pictures \in BOOLEAN /\ title \in {"words", "task", "owner"}
    /\ job \in [PipelineJobs -> Statuses \ {"pending_confirmation"}]
    /\ queue \subseteq PipelineJobs \ {"chat"}
    /\ after["chat"] \subseteq Followups /\ after["planning"] \subseteq {"picture"}
    /\ work.plan \subseteq Planned /\ answer \in {"none", "failed", "planned", "crossed"}
    /\ request \in [Planned -> Statuses]
    /\ process \in {"up", "stopping", "down"} /\ stops \in 0..MaxStops

\* A follow-up whose row a reply wrote ends, whatever becomes of its submission
\* and of the process in between.
\* (after_generated, _submit_followup, fail_unsubmitted, initialize_database)
FollowupsEnd ==
    \A k \in Followups : job[k] \in {"queued", "running"} ~> job[k] \in Ended

\* Once its planning is over, an explicit request for a picture has something to
\* show for it, whether the planner failed, left it out or had no capability to
\* plan with; unless the planner called changing a picture generating one.
\* (run_planning, _explicit_image_only, prepare_planned_requests)
ExplicitImageIsShown ==
    /\ ExplicitImage /\ job["planning"] = "completed" /\ answer # "crossed" =>
         \E r \in Planned : r.key = "generate" /\ request[r] # "none"
    /\ ExplicitImage /\ job["chat"] = "completed" => job["planning"] # "none"

\* "A planned edit always requires confirmation before it runs" (task_contracts.py).
EditsWaitForConfirmation ==
    \A r \in Planned : r.op = "change" => request[r] \in {"none", "pending_confirmation"}

\* A request that ended has no job that still waits (docs/architecture.md).
RequestAndJobAgree ==
    (\E r \in Planned : Automatic(r) /\ request[r] \in Ended)
        => job["picture"] \notin {"queued", "running"}

\* A title its owner chose is not replaced (on_title's comment).
OwnersTitleWins == [][title = "owner" => title' = "owner"]_title

\* An explicit picture over all states of the type.
FollowupsInvariant == FollowupsTypeOK /\ ExplicitImageIsShown
=============================================================================
