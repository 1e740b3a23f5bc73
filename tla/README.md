# Verification of Nice Assistant

Nice Assistant is a self-hosted chat and image server: one Python process, one SQLite
database, a handful of threads, and provider services (Ollama, ComfyUI, Automatic1111,
OpenAI, ...) on the network. This directory holds TLA+ modules of the program, the TLC
configurations that check them, and theorems TLAPS proves about most of them. Paths
below are relative to `src/`.

    tlc -config JobQueue_safety.cfg MC_JobQueue     # a run
    tlapm JobQueue_proofs.tla                       # the proofs

## 1. The system

| Component | State | Operations | Talks to |
|---|---|---|---|
| `app/job_queue.py` | pending list, active counts and ordering keys, loaded model per lane, stop flag; one condition variable | `submit`, `cancel_pending_for_metadata`, `close_and_detach_pending`, `acknowledge_stopped_pending`, worker loop `_run` | asks `admission_check`, `serialize_resources`, tells `on_selected`, inside its lock |
| `app/job_service.py` | rows of `async_jobs`; `_tokens`, `_executions`, `_done` | `submit`, `cancel`, `wait`, `_run`/`_begin`/`_complete`/`_fail`/`_cancel_terminal`, `_admission_reject`, `stop`, `start` | queue, coordinator, event broker, callbacks of its callers, database |
| `app/resource_coordination.py` | policy, admission records, lease, control flag; a reentrant lock and a polling thread | `register`, `can_start`, `reserve`, `execution_started`, `complete`, `cancel`, `update`, `_process`, `_attempt_release` | providers over HTTP, the queue (`wake`), the job service (`on_reject`) |
| `app/turn_events.py` | per turn: bounded event buffer, accumulated text and its sequence, end mark | `publish`, `snapshot_state`, `subscribe` | worker and canceller publish; HTTP generators read |
| `app/conversation_service.py`, `app/turn_pipeline.py` | chats, messages, `conversation_turns` | `create_turn`, `get_turn`, `generate`, `on_generated`, follow-ups | job service, broker, context, memory |
| `app/capability_service.py` | `capability_requests`, attachments | propose, approve, deny, retry, cancel, background requests, callbacks of `_submit` | job service, media |
| `app/database.py`, `app/repositories.py` | SQLite in WAL mode | `UnitOfWork`, startup sweep | everyone |
| `app/scene_backlog_service.py`, `app/photo_set_service.py`, `app/scene_production.py`, `app/pregeneration.py` | backlog entries, photo sets | claim, settle, release, nightly runner, operator transitions | capability service, queue snapshot |
| `app/media_service.py`, `app/media_clients.py`, `app/media_journal_service.py` | media rows and files, attempts, scratch files, journal | one generation with attempts and passes; recovery at start | ComfyUI and other providers, identity service |
| `app/media_catalog_service.py`, `app/media_planner.py`, `app/preset_bundle.py`, `app/provider_service.py` | models, LoRAs, workflows, presets, saved plans | edit, import, install, plan, re-plan, submit; inspect a workflow | capability service, identity service |
| `app/media_library_service.py` | pictures kept to be sent again | keep, find, send, drop | capability service |
| `app/identity_service.py` | visual profile, consent, reference photos | edit, grant, withdraw, upload, approve, compare | job service, files |
| `app/memory_service.py`, `app/context_service.py`, `app/persona_output.py`, `app/task_model_service.py` | memories and their history; checkpoints; stream filter; task runs | review, undo, extraction; compaction, prompt assembly; filtering; task with fallback | conversation service, Ollama and OpenAI |
| `app/resource_service.py` | workspaces, personas, avatars, links | create, edit, delete | conversation service, memory |
| `app/speech_service.py`, `app/storage.py`, `app/operations_service.py` | recordings, snapshots, dated copies | synthesize, rotate; archive, prune; maintenance loop | speech providers, volumes |
| providers, security, frontend views, migrations | see `PROJECT.json` | | |

What is hard about it:

* **Threads and two locks.** A worker holds the queue's lock while it asks the
  coordinator, which answers under its own. Each answer may be out of date when the next
  question is asked, and the eligibility of jobs is evaluated twice per choice.
* **Units of work.** SQLAlchemy sessions over SQLite take no lock for a `SELECT`. A unit
  of work decides from the job row it read and writes later; cancellation, completion,
  failure, rejection and shutdown all do.
* **Durable state and memory.** A database commit and the in-memory step that follows it
  (submit, publish, set an event) are separate; threads act between them, and a crash
  forgets the second.
* **Streams.** A follower combines a database row, a text snapshot and events that are
  read at three moments, over a connection that may break. A reply is filtered while its
  pieces arrive.
* **Handlers that overlap.** Every handler reads its rows before it holds the write
  lock; what it commits may rest on rows another handler has changed since.
* **Files beside rows.** Pictures, photos, recordings and archives are files that are
  written before, and unlinked after, the transaction that names them.
* **Work that is found again.** Scenes, photo sets, plans and kept pictures are stored,
  picked up much later and matched with what the catalog and the consent say then.

What should be true, per component: a chat's turns never run side by side and start in
order, nothing starts after shutdown began, no waiting job starves (queue); a turn ends
once, with a message exactly if it completed, its waiters wake up and its followers are
told (job service); one local GPU job at a time, no provider is asked to free memory
under a job, a capacity wait ends (coordinator); a reader sees every piece of the reply
once (events); what is made was permitted, was planned so, is shown for what it is, and
was sent nowhere without consent (pictures); a fact is remembered once and reviewed, a
prompt fits, a filter does not depend on where the text was cut (chats); what is
archived is whole (storage). `PROJECT.json` lists the hazards line by line with the
properties that cover them.

## 2. The modules

### Jobs, turns and streams

**`JobQueue`** - `app/job_queue.py`. `where` follows a `Job` object from `new_job`
("made") through the pending list to a worker and its result. A worker's `pc` is its
place in `_run`: `Acquire` (the lock), `Look` (the wait loop), `Pick` (the second
evaluation and the choice), `Settle` (`execute` and `mark_done`, without the lock),
`Release` (the `finally` clause). Because the callbacks answer for another component,
`Look` and `Pick` take an *answer* (which jobs are admitted, whether media must yield)
as a parameter and nothing relates the two answers. Arrival times are kept as `earlier`,
the waiting jobs that came before; passing `max_wait_seconds` is the action `Age`, in an
order that respects the class limits. `Recycle` lets an identity be used again so that
arrivals need not end. `submit_group` and the text-image grouping have no caller and are
left out.

**`JobService`** - `app/job_service.py` with its creating callers and the startup sweep.
A job is a turn or a capability request (`kind`). Five actors - submitter, worker,
user's cancellation, rejection by the coordinator, `stop()` - have a place each in `pc`.
A unit of work is a `Read` of the job row and a commit that writes from what was read;
the turn and the capability are read inside the transaction, except in `_complete`,
whose `on_success` looks at the capability first (`SuccessRead`). The variable
`isolated`, chosen once in `Init`, says whether units of work of one job may overlap:
FALSE is the program as it is, TRUE its behaviours without that one race, which
separates the consequences of the race from everything else. `Restart` loses all memory
and applies the sweep of `initialize_database`.

**`TurnContract`** - what a turn promises, without threads, jobs or memory. `JobService`
implements it with `status <- turn` (`KeepsContract`).

**`ResourceCoordinator`** - `app/resource_coordination.py`. One action per critical
section. `poll` is the place of the polling thread; snapshots, authorizations and
provider calls are nondeterministic outcomes. `reclaimed` remembers which kind of
release nothing has executed since.

**`CoordinatedQueue`** - extends the coordinator and instantiates the queue as `Q`, as
`JobService.start()` connects them. `AskSerialize` and `AskAdmission` are the single
questions of one evaluation; `Conclude` applies `Q!Look` or `Q!Pick` to the answers
collected; `ReserveLease` is `on_selected` when `reserve` applies. `Begin`, `End`,
`Reclaim`, `UserCancel`...`CancelQueued`, `Reject`, `FailRejected` are the job service's
calls in their order. `undisturbed` is history: workers whose evaluation and job saw no
switch to disabled. Aging and shutdown are left to `JobQueue`.

**`TurnEvents`** - `app/turn_events.py`, its publishers and one subscriber: `ReadTurn`
(row), `TakeSnapshot` (text and sequence), `Open`, `Fetch` (under the stream's lock),
`Deliver` (without it), `Disconnect`. An event carries its sequence number, so the buffer
and what a subscriber took from it are sets of events; a delta is its number and the
accumulated text the number of deltas in it. The oldest events leave when there are too
many, or earlier because of the byte limit. Retention of finished streams, `stop()` and
`replace_accumulated_text` are left out.

**`TurnFollowups`** - `app/turn_pipeline.py` and the parts of the capability and memory
services it calls. What follows a reply: the rows of the title, planning and memory jobs
are written in the reply's transaction (`ReplyCommits`), submitted afterwards one by one
in the order `SubmittedAs`, and run one at a time because they share the chat's key. A planner may fail,
answer with nothing, with what was asked, or with a change under the key of a generation
("crossed"). The process stops and starts again. One turn.

**`ConversationContext`** - `app/context_service.py` and `app/context_policy.py`: a
chat's completed turns, the checkpoints that stand for its beginning, the sections of a
prompt and what is dropped to make it fit. Text is its cost in tokens. A compaction
makes several passes, each one a task that may fail.

**`PersonaOutput`** - `app/persona_output.py` inside `app/ollama_provider.py` and
`turn_pipeline.generate`. Frames cut a text at any letter; markers are scanned and may
nest; a cancellation closes the response. A letter stands for a run of characters and
the markers are two letters and three. Stripping of white space is left out.

**`TaskRuns`** - `app/task_model_service.py`: one task, its candidates, its fallback and
its row, against an owner who changes the profile and cancels. The runs of a task are a
set of rows: their order is in no property.

### Pictures

**`CapabilityRequests`** - `app/capability_service.py`: requests, attachments, jobs and
permissions. A handler of a user (`session`) reads and later commits; `isolated` is as
in `JobService`. A request's job is one step from submission to each callback, because
`JobService` models it in full; jobs are numbered in the order of their creation
(`AddJob`). A submission may raise before it comes to `_submit`, because the settings it was
planned with were edited: the turn fails its own automatic request then (`AutomaticFails`).
Replays of one idempotency key answer what is stored and are left out.

**`BackgroundPictures`** extends it with scenes, photo sets and the nightly runner; the
idempotency key is the identity of a request, so a scene and a frame have one each. A pass
takes the oldest approved scenes (`Oldest`).
`operator` is a handler of `set_state` between its read and its commit. A submission raises
before `_submit` (`CheckRaises`: the request and its job stay queued, a scene is given
back, a set goes on with its next frame) or in it (`SubmitBackgroundFails`). `RemoveFrame`
takes a picture of a set out of the library, and `removed` remembers it. The branch of
`_claim` that retires a scene without a summary and a second `produce()` of the same set
are left out.

**`MediaGeneration`** - `app/media_service.py` for one picture, with files, rows,
attempts, comparison and policy, a cancellation at every step, and the recovery in
`app/database.py` after a crash. **`StagedGeneration`** - the passes within an attempt:
which graph gets which bindings, the scratch file a pass leaves for the next, the prompt
and history of ComfyUI, and the journal's status. The two meet in "an attempt has a
picture, fails or is cancelled". Mask images, videos and other providers are left out:
their calls have the same outcomes.

**`MediaCatalog`** - models, LoRAs and presets under overlapping calls, each a read and,
later, a commit. **`MediaPlanning`** extends `IdentityProfiles`: a plan is chosen from
what the catalog has, pins revisions, is stored, and is submitted after edits. Its
choice of a preset stays nondeterministic where the code ranks. An edit of a resource or a
preset takes the revision it read and adds one; `lateEdit` is an edit between its read and
its commit, which others overtake, and a commit writes only what the edit changed of the row
it read. **`IdentityProfiles`** - profile, consent, photos, comparison; `slow` is the one
handler that has read and not committed, and every other handler overtakes it. The deletion
of a persona lists files and jobs (`ListErasure`), cancels (`CancelListed`), deletes
(`ErasePersona`) and unlinks (`CleanUp`), with everything else in between. **`MediaLibrary`**
- which kept picture answers a request, and which other frames of its set go with it
(`Siblings`, the lowest indices first, up to `SiblingLimit`), with the lookup and the mark as
separate steps; one media worker is assumed, the default. A picture and its entry are two
things: the owner removes an entry, and may add the picture again as one made in no chat
(`AddExisting`).

**`WorkflowInspection`** - `_inspect_comfyui_object_info` of `app/provider_service.py`:
the pass over the nodes, the cycle test, the two nested searches and the verdict. The
order of a set is nondeterministic, which is what the proof is about. Links to missing
nodes count in `complete` and `typed`.

### Chats, places and storage

**`MemoryLifecycle`** - a memory's row and its undoable events, with one handler between
read and write (`reviewing`), extraction, and the deletion of chat and persona.
Embedding and recall are left out. **`WorkspacesPersonas`** - workspaces, one persona
with its links and avatar, one chat; `pending` is a handler between read and commit.
**`SpeechRecordings`** - reading a synthesis, its file and row, rotation by callers that
listed the directory before, on one volume or two, where a move, the row's write and the move
back may each fail. **`BackupSnapshots`** - snapshots
while files come and go, and their pruning; equal modification times are left out.
**`Maintenance`** - the loop of dated copies and retention, a process that dies
anywhere, and a volume that fills; other failures of a copy are `archiveFull` as well.

### Theorems

The theorems about a module are in a module that extends it: `JobQueue_proofs`,
`JobService_proofs` and `CoordinatedQueue_proofs` (with the coordinator) each for one
module, and four for modules that answer one kind of question: `Turns_proofs`
(`TurnEvents`, `TurnFollowups`), `Generation_proofs` (`MediaGeneration`,
`StagedGeneration`, `Maintenance`), `Pictures_proofs` (`CapabilityRequests`,
`MediaLibrary`, `WorkflowInspection`, `IdentityProfiles`, `MediaPlanning`,
`MediaCatalog`) and `Chats_proofs` (`MemoryLifecycle`, `TaskRuns`,
`ConversationContext`, `PersonaOutput`, `WorkspacesPersonas`, `SpeechRecordings`,
`BackupSnapshots`). `Background_proofs` extends `Pictures_proofs` as
`BackgroundPictures` extends `CapabilityRequests`.

### Instances

`MC_Turns`, `MC_Progress`, `MC_Pictures` and `MC_Chats` put modules that answer one kind
of question into one instance. The variable `part`, chosen in the initial state, says
which module a behaviour is about, and the others' variables do not change: states add
up and do not multiply. Where components do interact, the modules themselves do:
`CoordinatedQueue` composes queue and coordinator, `BackgroundPictures` extends
`CapabilityRequests`, and `MediaPlanning` extends `IdentityProfiles`.

Operators marked *Variant* in the modules are mutations, used to confirm that a property
can fail; no behaviour specification uses them. A property named `...Invariant`,
`...Holds` or `...Hold` is the conjunction of a type invariant and the module's named
properties, checked together.

## 3. The runs

| Run | Instance | Shows |
|---|---|---|
| `queue_safety` | 2 interactive workers, 2 turns of one chat and a task job, any answers; 30,840 states | key exclusion, truthful idleness, nothing starts after the close, one result per job |
| `queue_progress` | 1 worker, the same jobs used again without end, fixed answer; 9,074 states | arrival order per key, no starvation, workers exit |
| `coordination` | 1 worker per lane, a chat reply and a picture of known demand, every mode; 875,540 states | lease exclusion, no job admitted under coordination executes during a release after a job (while the flag is not also the polling thread's), rejected jobs do not execute, media yields |
| `capacity_wait` | 1 media worker and 1 picture; 11,768 states | the capacity wait ends and the job leaves the queue |
| `turns` | 1 job of either kind with 5 actors and 1 restart, overlapping or not; a stream of 3 deltas with a buffer of 4; 1 turn with its follow-ups and 1 stop; 115,686 states | a message exactly for completed turns, `TurnContract` implemented, endings announced and final, nothing shown twice or passed over, an explicit request for a picture has something to show, follow-ups end |
| `progress` | 2 scenes or 1 set of 2 frames; 1 generation of up to 3 attempts; recipes of 2 passes over 3 graphs; 3 days with 2 copies; 142,763 states | scenes and sets agree with their requests, pictures shown honestly and none lost, bindings fit their graph, generations end, copies whole and retention resumed |
| `pictures` | 2 overlapping handlers and 3 requests, 2 photos, 2 models and a LoRA with 3 calls, a plan and 2 edits that may overlap, a persona deleted, every workflow of 3 nodes, a library of 3 entries for 3 pictures; 892,080 states | permission before making, nothing made twice, photos sent under consent, submitted as planned, imports all or nothing, search and verdict exact, kept pictures sent once while they stay in the library |
| `chats` | 2 memories of 2 texts, 4 turns, replies of 5 letters, 2 tasks, 2 workspaces, 2 recordings, 2 snapshots of 2 files; 602,720 states | a text live once, nothing learned unreviewed, prompts fit and checkpoints move on, filtering independent of the cuts, task rows true, chats stay where they are, recordings and archives whole |

Four more runs are expected to find a violation; each is a statement of a document or
comment that the code does not keep:

| Run | The code | The statement |
|---|---|---|
| `two_endings` | a cancellation that read `running` before the completion committed cancels the completed job and publishes a second terminal event | `docs/architecture.md:297-299` |
| `worker_lost` | admission withdrawn between two evaluations makes `min()` raise and ends the worker thread | `docs/operations.md:389-390` |
| `edits_unconfirmed` | a planner that names a change under the key of a generation gets it queued without a confirmation | `app/task_contracts.py:242-243` |
| `context_boundary` | a compaction whose chunk ends with a capability result stores a boundary that is no message; the insert fails and the turn with it | `docs/conversation-context.md` |

The modules state more sentences of documents that TLC refutes in the same instances.
They are definitions of the modules, have no run of their own, and explain the form of
the properties that do hold:

| Property | Module | The code | The statement |
|---|---|---|---|
| `CapabilityCannotDisagree` | `JobService` | a cancellation between creation and submission of a media job leaves its capability queued | `docs/architecture.md:176-177` |
| `RequestAndJobAgree` | `TurnFollowups` | the same of a picture planned after a reply | `docs/architecture.md:176-177` |
| `PreAdmissionReleaseAlone` | `CoordinatedQueue` | a release for a waiting picture starts between a chat job's admission and its reservation | `app/resource_coordination.py:193-194` |
| `LeaseClosedUntilReclaimed` | `CoordinatedQueue` | a release for a waiting job that began before lowers the flag of both, so that a chat starts while the release after a job is still owed; it takes three jobs | `app/resource_coordination.py:223-226` |
| `NoRunningJobIsRejected` | `CoordinatedQueue` | disabling the coordination during a rejection lets the job start and then fails it | `app/resource_coordination.py:293-295` |
| `OwnersTitleWins` | `TurnFollowups` | a title is replaced by a task that read the chat before its owner named it | `app/turn_pipeline.py:333-334` |
| `ApprovedIsAttempted` | `BackgroundPictures` | a scene whose only request ended is never attempted again, and blocks later scenes | `app/capability_service.py:850-853` |
| `ConfirmationAccepted` | `CapabilityRequests` | the approval of a proposed change may be refused (`capability_service.py:1361`) | `docs/decisions/0029-conversational-image-editing-attachment-references.md:46` |
| `CorrectionFitsItsGraph` | `StagedGeneration` | a correction keeps the prompt bindings of the first workflow | `docs/media-catalog.md:773-775` |
| `WithdrawalDeletesAll` | `IdentityProfiles` | an upload that read the consent before its withdrawal leaves a photo | `docs/persona-visual-identity.md:84-85` |
| `FallbackKeepsGenerating` | `MediaPlanning` | a plan is blocked although an unconditioned picture is allowed and could be made | `docs/persona-visual-identity.md:132` |
| `NeverTwiceInAConversation` | `MediaLibrary` | a frame of a set may come back after another chat had it | `docs/media-catalog.md:515-516` |
| `ImportedRecipesAreWhole` | `MediaCatalog` | a LoRA that is installed and not paired is left out in silence | `docs/media-catalog.md:329` |
| `UndoRespectsScope` | `MemoryLifecycle` | undo makes a memory live whose persona or chat is gone | `docs/memory.md:51-54` |
| `LiveMemoriesHaveOwners` | `WorkspacesPersonas` | a memory written after its persona was deleted stays live | `docs/memory.md:53` |
| `IllustrationNeverFails` | `TaskRuns` | a failed scene task makes the request for a picture fail | `docs/task-models.md:221` |
| `CopyIsOfThePasted` | `WorkspacesPersonas` | a late copy of an avatar replaces a newer address | `app/resource_service.py:338-345` |
| `ReplayRemains` | `SpeechRecordings` | two callers that rotate at once leave a row that names neither place | `docs/operations.md:627-628` |
| `RetentionIsApplied` | `Maintenance` | while no copy can be made, retention does not run | `app/operations_service.py:46-53` |

`LeaseClosedUntilReclaimed` was found by a proof that failed: the invariant of the
release after a job was not inductive, and the state in the way is reachable, with more
jobs than the run has. `SiblingLimit` is a disagreement in one definition: with
`MEDIA_SET_FRAMES_PER_REPLY` at 1 a second frame is sent, because the loop tests the limit
after it took one (`app/media_library_service.py:209-211`), where `docs/operations.md:601-603`
counts the first.

Five properties have the shape they have because of these findings. `QueuedJobsLeave`
carries the disjunct "or a worker was lost" because of `worker_lost`. `LeaseExclusive`
speaks of `undisturbed` workers because disabling coordination is meant to let jobs
start without a lease, `PostJobReleaseAlone` of the times when the polling thread does not
share the flag. `CapabilityFollowsJob` is one-sided for cancelled jobs because of
`CapabilityCannotDisagree`. What is conditioned by `isolated`, `overlapped` or
`disturbed` is refuted where handlers overlap, and holds where they do not.

Five invariants name what the code leaves open, which TLC reaches in the same instances:

* `SingleSentOnce`: a picture whose entry was removed and which was added again by hand is
  sent once per entry, and may go to the chat that had it made, because the new entry knows
  neither (`media_library_service.py:238-266`); and one that could not be marked is sent
  again, because `mark_served` only logs (`:227-229`). `docs/media-catalog.md:515-518` makes
  neither exception.
* `SentUnderConsent`: a photo that is added, approved and compared while its persona is
  being deleted is on none of the lists the deletion made before
  (`identity_service.py:759-776`, `resource_service.py:616-622`): its file stays, and its
  comparison is not cancelled (`overlooked`).
* `SubmittedAsPlanned`: two edits of a row that overlap both count on from the revision they
  read (`repositories.py:488-494`, `1861-1866`), so one revision has two contents. A plan that
  pinned the first is submitted with the second (`overtaken`).
* `RowsReplay` and `RecordingsSurvive`: the error of a move back is swallowed
  (`speech_service.py:436-439`), so a row may name the hot directory while the file is in
  the archive, or there is a copy in both of which one may be cut short (`stranded`).
* `SetTellsTruth`: a submission that raises in `execution_spec` (`capability_service.py:945`)
  leaves a request queued that nobody makes, and the set says planned or partial, or, when
  another frame settles, generating; and the removal of a picture does not work the set out anew.

**Bounds.** Two jobs of one key and one without it are what the leading-job rule can
confuse; a third worker adds no kind of conflict. Jobs interact in `JobService` only through the queue, so one job suffices there;
one restart is enough because a job is created once and everything in memory is lost
each time. The coordinator serializes pairs: a lease holder and a contender, one per
lane, is the default deployment (`DEFAULT_WORKER_COUNTS`); unknown demand differs from
known demand only in being admitted at once. A buffer of four evicts up to two of the
six events of the modelled turn, so snapshots have to cover evicted deltas and followers
can lose them.

Of the newer modules: `MaxPerRun` is 1, so a second scene waits for the next night,
which is when an older one can block it. Two handlers that overlap are what a lost
update takes, and a third request occurs only where the second retries, which is when
something could be replaced twice. `MaxRevision` (edits of a profile) leaves one edit after the plan pinned what it uses,
`MaxEdits` (edits of the catalog) is two, which may be of one row and overlap, with the plan
made before, between or after them. `MC_Pictures` narrows its parts where they would grow
without meeting anything new, each in a named scope: a late edit is about a plan without photos,
a persona that is deleted has one photo, and a library sends three pictures. `MaxEvents` is one undoable
event per memory in `chats` (the stack a second one makes is refused before it changes
anything), `MaxTurns` four, so that two checkpoints follow each other. Replies of five
letters hold an opening and a closing marker in every cut with a letter of text. Three
nodes allow every shape of a path through an identity node, cycles included. A library
limit of two is exceeded by three entries, and three entries are one picture removed and added
again with another beside it. `MaxPolls`, `MaxScore`, `MaxPasses`,
`MaxPlanned`, `MaxStops`, `MaxJobs`, `MaxCalls`, `MaxProfiles`, `MaxRestarts` and `Days`
bound counters only.

A theorem of section 4 has none of these bounds: it holds of any number of jobs,
requests, events, attempts, nodes and so on, and the bound that remains in an action
(`MaxRestarts`, `MaxJobs`, ...) is any number. The instances matter for what is not proved,
and because TLC would refute an invariant before a proof of it is tried.

**Symmetry** is used where identities differ in nothing but their names: sessions in
`pictures`, texts and administrators in `chats`. Neither run checks liveness.

**Fairness.** Threads that wait for a mutex are not passed over for ever (strong
fairness of `Acquire`, `Release` and what needs the queue's lock, because the mutex is
taken and given back meanwhile); a thread inside a call proceeds (weak fairness);
executions end because provider calls have timeouts; time passes (`Age`, `Expire`); the
polling thread comes back to every waiting record. In `progress` the nightly runner
comes back, the media workers go on while any of them has a job (each picture has
finitely many steps), and a pass of a generation proceeds, because polling is bounded.
The maintenance loop goes on and the container's restart policy starts the process
again, so `ProcessStep` is fair and `Dies`, `VolumeFills`, `NextDay` are not. Follow-ups
run because their worker does, and a process that stops is started again. Users,
administrators and crashes have no fairness: nobody must submit, cancel, reconfigure,
subscribe or stop. `CHECK_DEADLOCK FALSE` is set where jobs are used once and the system
really comes to rest.

## 4. The proofs

Every theorem is of a specification as the runs check it, for every value of the
constants that the module's named assumptions allow. These are types and the finiteness
of what the program counts (`QueueAssumption`, `CoordinationAssumption`,
`CapabilityAssumption`, ...); limits are natural numbers, positive where the
configuration clamps them. Three say more. `NowhereAssumption`: the marker for "no
node" is not a node. `KeysAssumption`: the requests of `BackgroundPictures` are those of
its scenes and sets. `MaintenanceAssumption`: days are numbered from one. Each is
evaluated by TLC in a run, so none is contradictory.

A property is seldom inductive. Each proof therefore has an invariant (`...Inv`) whose
parts are named and say what its author has to know of the other actors; a lemma for
the initial states; a lemma for each action, or for each part that an action disturbs;
and a theorem that combines them. Every invariant was checked by TLC on the instances
before it was proved.

### The queue and the coordinator

| `JobQueue_proofs` | Statement |
|---|---|
| `TypeCorrect` | `Spec => []TypeOK` |
| `KeysExclude` | `Spec => []KeyExclusion` |
| `IdleIsSettled` | `Spec => []IdleMeansSettled` |
| `NothingStartsAfterClose` | `Spec => NoStartAfterClose` |
| `SettlesOnce` | `Spec => SettledOnce` |
| `KeysInOrder` | `Spec => CausalOrder`, if every answer admits every job |

Key exclusion is not inductive: it must be known that a key in execution is in
`activeKeys` (`KeysActive`), that the job a worker holds is its own (`RunsAlone`), that
exactly the lock holder is at `look` or `pick` (`LockHeld`), and that a job in state
"running" has a worker (`RunningIsRun`). Their conjunction with `TypeOK` and
`CountsBusy` (the active count of a lane is the number of its busy workers, by
cardinality) is `QueueInv`. `NothingStartsAfterClose` needs the part
`NoChoiceAfterClose`: a worker that is choosing holds the lock the close has to take.
The hypothesis of `KeysInOrder` is the program without a coordinator; with one, the
coordinator may hold back a job that came first.

| `CoordinatedQueue_proofs` | Statement |
|---|---|
| `CoordinationKeepsQueue` | `Spec => QP!Spec`, the queue's specification for the same variables |
| `CoordinatedKeysExclude` | `Spec => []QP!KeyExclusion` |
| `LeaseAdmitsOne` | `Spec => []LeaseIsSound` |
| `ReleasesMeetNobody` | `Spec => []PostJobReleaseAlone` |
| `RejectionsMeetNobody` | `Spec => []RejectedNeverExecutes` |
| `WorkersKeepTheOrder` | `Spec => WorkersKeepOrder` |

The first is the refinement: `QP` is `JobQueue_proofs` with any answer and without reuse
of identities, and every step of workers, coordinator and polling thread is a step of the
queue or leaves it alone. So the queue's theorems hold under coordination;
`CoordinatedKeysExclude` is the one a run states. The rest follows from `CoordInv`, which
adds three parts to the queue's invariant. `PlaceInv`: the place of a worker in the queue
agrees with its place in its job, and one worker is in the lock. `LeaseInv`: the lease
belongs to a job that a worker holds, and a worker that was told it may go on
(`Promised`), or whose answers come from an enabled coordinator, finds the lease still
free and the flag still down when it reserves. Nothing in the code states that; it holds
because the queue's lock is kept from the question to the reservation. `RecordInv`: a
record follows its job, and one the polling thread gives up has no lease.

### Turns

| `JobService_proofs` | Statement |
|---|---|
| `RepliesAreOfCompletedTurns` | `Spec => []ReplyIffCompleted` |
| `ServiceKeepsContract` | `Spec => KeepsContract`, the refinement of `TurnContract` |
| `OneStory` | `Spec => []StoriesAgree` |
| `EndedJobsStay` | `Spec => JobEndingIsFinal` |

`ServiceInv` is what overlapping units of work cannot disturb: a worker takes a job once
and completes it last, and a job nobody created has left no trace. It suffices for the
first two theorems. `StoryInv` adds, where units of work do not overlap (`isolated`), that
what an actor has read is still so (`ReadsHold`), that job, turn and capability are kept
together, and that exactly one actor owes the stream an ending it has not published
(`OneAnnouncer`). The second pair of theorems needs it; `two_endings` shows that without
isolation `JobEndingIsFinal` is false.

| `Turns_proofs` | Statement |
|---|---|
| `FollowersSeeTheReply` | `StreamSafety => []StreamIsFaithful` |
| `ExplicitPicturesAreShown` | `FollowupsSpec => []FollowupsInvariant` |

The first follows three numberings: of events, of pieces of the reply, and of what the
follower appended. The first two agree (`Numbered`), a snapshot cuts both at the same
place (`CutTogether`), what a follower has moved beyond it has shown (`PassedIsShown`), and
what was appended is new and in order (`Appended`). The second carries the plan and the
process: while a follow-up is at work its job has not completed (`AtWork`), and a plan
about to be committed has the picture that was asked for (`PlanHasPicture`).

### Pictures

| `Pictures_proofs` | Statement |
|---|---|
| `RequestsAreHonoured` | `Spec => []RequestsInvariant` |
| `PicturesAreReplacedOnce` | `Spec => []ReplacedOnce` |
| `LibraryPicturesAreSentOnce` | `LibrarySpec => []LibraryInvariant` |
| `SearchTheorem` | `InspectionSpec => []SearchIsExact` |
| `VerdictsAreProofs` | `InspectionSpec => []VerdictIsProof` |
| `PhotosAreSentUnderConsent` | `IdentitySpec => ConsentHolds` |
| `RequestsAreSubmittedAsPlanned` | `PlanningSpec => PlansHold` |
| `FilesAreImportedWhole` | `CatalogSpec => ImportsHold` |

For requests, `SessionInv` says what a handler between its read and its commit holds,
and `IsolatedInv` what is true where handlers exclude each other: what was read is still
so (`StillSo`), a request has one job (`OneJob`), and one that was retried offers no
further retry (`RetriedInv`). For the library, `ServingInv` ties the picture a worker is
sending to the entry it found, which is still to be sent (`StillToSend`); `SentInv` says that
an entry whose picture was sent is not ready again, unless it could not be marked; and
`RowsInv` that a picture has one entry at a time, so that only one that was removed and
added again has a second.

`SearchIsExact` says that a search with nothing pending has found exactly what its start
leads to, "leads to" being membership in every set that contains the start and is closed
under the edges. Its invariant is that of every graph search, in whatever order nodes are
taken, which is the order of a Python set in the code. The verdict needs the rest of the
pass: `PassInv` (what was looked at), `FlawInv` (a flaw noted is there, and one that is
there was noted or is still ahead), `CycleInv` and `CandidateInv`. The cycle test removes
nodes without incoming links until none is left: `CycleInv` says that the counts are of the
links from nodes that remain and that no node removed is on a cycle. What remains when
nothing can be removed is a finite set in which every node is fed by another, and a
finite set of that kind has a cycle (by well-founded induction on its size).

Consent is about what may still be sent (`ToSend`): the photos of a comparison that waits
or runs, and those that a handler about to queue one has read. `PhotosInv` says that each of
them whose file is there is held under consent with its file, or is `Stopped`: about to be
unlinked, or part of a comparison about to be cancelled. It survives a late handler because
of `PathHeld`: what has a file is a photo that was added and not deleted, and whoever is
about to review or delete it has read that it has one, so a deletion never forgets a file.
The deletion of the persona does forget one, when a photo was added and compared after it made
its list: the commit sees which (`overlooked`), and the theorem excepts those photos and no
others.

A plan pins the revisions of its resources and of its preset. `PinnedRow` and `PinnedPreset`
say when an equal revision is enough: a row that was not overtaken has grown its revision with
every edit since, so with the revision it has the content that was pinned. Deleting the model
unpairs the others without a new revision; but then the model, which every plan pins, is
gone. A row is overtaken when a late edit commits a revision that is not above the one
the row has; `LateInv` says what such an edit has read. Persona and
policy are read again by `Revalidated` in the same unit of work.

For imports, `NumberedCalls` says that a call under way has a number no other call under way
and no preset has, and `WritesOwn` that what it is about to write carries that number and,
of a file, is all of it. The number stands for the identity that the code gives a new row;
attaching a pass writes back only rows whose identity is still there (`WritesBack`).

| `Background_proofs` | Statement |
|---|---|
| `ScenesAndSetsTellTruth` | `BackgroundSpec => []BackgroundInvariant` |

The rows of a request and its job move together (`RowsAgree`), a scene in the making has
a request that lives (`SceneAndRequestAgree`), and a set is worked out anew by whatever
ends one of its frames (`SetFollows`), except while its producer is still handing them in
(`HandedIn`). A frame is being made when its job has not ended and this process goes on with
it (`Making`); a request that stays queued after a submission that raised is not, and keeps
its set from being settled. `KeysApart` says that the keys of scenes and frames are never the same.

| `Generation_proofs` | Statement |
|---|---|
| `PicturesAreHonest` | `MediaSpec => []MediaInvariant` |
| `PassesAreInOrder` | `StagedSpec => []StagedInvariant` |
| `NamedCopiesAreWhole` | `MaintenanceSpec => [](MaintenanceTypeOK /\ CopiesAreWhole)` |
| `TheNewestCopyStays` | `MaintenanceSpec => NewestCopyStays` |

`MediaInv` follows one attempt through its steps (`AttemptInv`), the files and rows it
leaves (`StoreInv`) and what recovery finds (`FoundInv`); the best attempt exists because
a set of scores has a greatest (`HasGreatest`, by well-foundedness of the naturals).
`StagedInv` follows the values bound, the scratch file of the previous pass and the
artifact.

### Chats

| `Chats_proofs` | Statement |
|---|---|
| `NothingLearnedByItself` | `MemorySpec => []MemoryInvariant` |
| `HistoryIsTrue` | `TaskSpec => []TaskInvariant` |
| `RepliesAreAsTold` | `OutputSpec => []OutputInvariant` |
| `ChatsStayBound` | `WorkspaceSpec => PlacesHold` |
| `RecordingsAreKept` | `SpeechSpec => []SpeechInvariant` |
| `CheckpointsStandForWhatWasRead` | `ContextSpec => []ContextInvariant` |
| `SummariesNeverReturn` | `ContextSpec => CheckpointsAdvance` |
| `ArchivesAreWhole` | `BackupSpec => []BackupInvariant` |
| `ChatsKeepMoving` | `ChatsSpec => ChatsMoveOn` |

That filtering does not depend on the cuts (`CutsDoNotMatter`) compares the filter with
`Clean`, what is left of the whole text. `FilterInv` generalises it in two directions. It
speaks of every text that may still come: for each `rest`, what is left of `raw \o rest`
is what was kept followed by what is left of it from where the filter stands, at the depth
it has counted (`Promised`, `KeptAhead`). And it says what the filter holds back
(`Waiting`): the end of the text, in which no marker is complete between two frames. A
step then needs three facts: letters outside markers are kept or dropped by the depth
alone (`LettersAreKept`), markers do not overlap and the first one found is the first
there is (`FirstMarkIsFirst`), and nothing let go can begin a marker, whatever follows
(`RestBeginsNothing`). `LeftFrom` is a recursive function that looks ahead in the text, so its equation is proved first, by
counting down from the end of the text (`SolutionExists`, `LeftFromRecursion`).

The instance `ChatsSpec` of TLC interleaves nothing: a behaviour is about one part.
`PartsBehave` says that it implements the specification of each part, so every theorem
of a part holds of the instance; `ChatsKeepMoving` follows from two of them.

`MemoryInv`: whatever an undo may put back in use was vouched for when the event was
written (`Traceable`), and so was what a handler has read as in use. `TaskInv`: a call has
a place, and its row tells what happened up to it (`Told`). `SpeechInv`: a file is written
once, none that a row names is lost (`NothingLost`), and as long as callers have not
overlapped one of them at most is moving files, which are where it believes (`Calm`). A
recording whose move back failed is `stranded`: what its row names is excepted then, and,
where a copy was left behind that a later rotation would put in its place, whether it is whole.
`ContextInv`: turns are in order, checkpoints stand at boundaries their summaries have
read, and the sections kept are those that fit. `BackupInv`: what an archive has copied
covers what its database names, except what was removed since.

### Only model-checked

* Liveness: `QueueMovesOn`, `HeldJobsLeave`, `EverybodyIsAnswered`, `FollowersReturn`,
  `FollowupsEnd`, `PicturesEnd`, and the resumption of retention in `MaintenanceHolds`, whose
  other parts are `NamedCopiesAreWhole` and `TheNewestCopyStays`. Fairness and ENABLED are
  out of the prover's reach.

Every other property of the passing runs is proved. Induction over data is out of reach
only as a schema (the library's theorems take an operator, which no installed prover
can instantiate); the places that need one use an instance that speaks of sets: a
non-empty set of naturals has a least element.

## 5. Not modelled, and why

Provider clients, transcription, authentication, request limits, migrations and most
views are input and output or data processing: to the modelled core they are a call that
returns, raises, or takes long. Prompt wording, scene similarity, ranking of presets,
thresholds of a face comparison and search over memories are pure functions that tests
reach; where a decision rests on one, it is a nondeterministic choice.

Of the modelled components, besides what section 2 names: the coordinator's thread start
and stop and its endpoint settings; failures of the database during `stop()`; retention
of finished streams; journal stage entries; manual and edit plans; an avatar that an
operator places on disk by hand; renaming and verifying a snapshot; login
sessions; the length of a persona's texts and cards; queries that only list rows.

## 6. Plan

What remains, most important first.

1. Abstract specifications: a lease (one holder, released before the next) that
   `CoordinatedQueue` implements for undisturbed workers; a reliable reader (prefix of
   the reply) that `TurnEvents` implements when nothing is evicted.
2. Models: retention of finished streams in `TurnEvents`; a second chat in
   `TurnFollowups`; the passes of `StagedGeneration` inside the attempts of
   `MediaGeneration`.
