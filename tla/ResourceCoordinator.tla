------------------------- MODULE ResourceCoordinator -------------------------
(***************************************************************************)
(* src/app/resource_coordination.py: admission records of local image jobs, *)
(* the lease one coordinated job holds while it executes, and the thread    *)
(* that measures provider capacity, admits, rejects, and asks providers to  *)
(* release their memory.                                                    *)
(*                                                                          *)
(* Every action below is what the code does between taking and releasing    *)
(* the coordinator's lock.  The module is the coordinator's half of a       *)
(* system: CoordinatedQueue adds the queue that calls it.                   *)
(***************************************************************************)
EXTENDS Naturals, FiniteSets

CONSTANTS
    Jobs,
    Coordinated,    \* jobs with metadata["coordinated_resource"]
    Demand,         \* the job's resource request: none, unknown or known VRAM
    NoJob

Modes == {"disabled", "observe", "managed"}

ASSUME CoordinatorAssumption ==
    /\ Coordinated \subseteq Jobs
    /\ Demand \in [Jobs -> {"none", "unknown", "known"}]
    /\ \A j \in Jobs : Demand[j] # "none" => j \in Coordinated
    /\ NoJob \notin Jobs

VARIABLES
    mode,           \* _policy["mode"]
    record,         \* the state of the job's admission record, or none
    started,        \* records with execution_started
    attempted,      \* records with control_attempted
    expired,        \* records that waited max_wait_seconds
    lease,          \* _active_job_id
    control,        \* _control_in_progress
    poll,           \* the polling thread: where it is, and its record
    reclaimed       \* the trigger of the last release nothing executed since

coordinatorVars ==
    <<mode, record, started, attempted, expired, lease, control, poll, reclaimed>>

RecordStates == {"none", "checking", "admitted", "rejected"}
PollPlaces == {"idle", "probe", "admit", "expire", "reject", "fail", "drop", "attempt",
               "release", "releaseOllama", "unlock"}

CoordinatorTypeOK ==
    /\ mode \in Modes
    /\ record \in [Jobs -> RecordStates]
    /\ started \subseteq Jobs /\ attempted \subseteq Jobs /\ expired \subseteq Jobs
    /\ lease \in Jobs \cup {NoJob}
    /\ control \in BOOLEAN
    /\ poll \in [at : PollPlaces, job : Jobs \cup {NoJob}]
    /\ reclaimed \in {"no", "post_job", "pre_admission"}

CoordinatorInit ==
    /\ mode \in Modes
    /\ record = [j \in Jobs |-> "none"]
    /\ started = {} /\ attempted = {} /\ expired = {}
    /\ lease = NoJob /\ control = FALSE
    /\ poll = [at |-> "idle", job |-> NoJob]
    /\ reclaimed = "no"

enabled == mode # "disabled"

-----------------------------------------------------------------------------
(* What the queue and the job service call.                                 *)

SetRecord(j, state) == record' = [record EXCEPT ![j] = state]

PopRecord(j) ==
    /\ SetRecord(j, "none")
    /\ started' = started \ {j}
    /\ attempted' = attempted \ {j}
    /\ expired' = expired \ {j}

\* Unknown demand is admitted without a measurement.
Register(j) ==
    /\ IF Demand[j] # "none" /\ enabled
       THEN SetRecord(j, IF Demand[j] = "known" THEN "checking" ELSE "admitted")
       ELSE UNCHANGED record
    /\ UNCHANGED <<mode, started, attempted, expired, lease, control, poll, reclaimed>>

\* Variant: the lease is not consulted.
CanStartUnleased(j) ==
    j \in Coordinated => ~control /\ (enabled => record[j] \in {"none", "admitted"})

\* Variant: a release under way is not a reason to wait.
CanStartDuringRelease(j) ==
    j \in Coordinated /\ enabled => lease \in {j, NoJob} /\ record[j] \in {"none", "admitted"}

\* A release under way excludes a start in every mode.
CanStart(j) ==
    j \in Coordinated =>
        /\ ~control
        /\ enabled => /\ lease \in {j, NoJob}
                      /\ record[j] \in {"none", "admitted"}

\* reserve() in two steps: it asks whether it applies, then takes the lock.
Reserves(j) == j \in Coordinated /\ enabled
Reserve(j) ==
    /\ lease' = j
    /\ UNCHANGED <<mode, record, started, attempted, expired, control, poll, reclaimed>>

\* execution_started: providers load their models again.
ExecutionStarted(j) ==
    /\ started' = IF record[j] # "none" THEN started \cup {j} ELSE started
    /\ reclaimed' = IF j \in Coordinated THEN "no" ELSE reclaimed
    /\ UNCHANGED <<mode, record, attempted, expired, lease, control, poll>>

\* complete() keeps the lease closed for the release after a job that ran.
Reclaims(j) == lease = j /\ record[j] # "none" /\ j \in started /\ mode = "managed"

Complete(j) ==
    /\ lease' = IF lease = j THEN NoJob ELSE lease
    /\ control' = (control \/ Reclaims(j))
    /\ PopRecord(j)
    /\ UNCHANGED <<mode, poll, reclaimed>>

\* _release_provider after the job: its last test and the provider's call
\* are one critical section.  The endpoint may lack the authorization, and
\* the provider may fail.
PostJobRelease ==
    /\ \/ mode = "managed" /\ control /\ reclaimed' = "post_job"
       \/ UNCHANGED reclaimed
    /\ UNCHANGED <<mode, record, started, attempted, expired, lease, control, poll>>

EndControl ==
    /\ control' = FALSE
    /\ UNCHANGED <<mode, record, started, attempted, expired, lease, poll, reclaimed>>

\* cancel(): a job that executes keeps its record for the reclamation.
CancelRecord(j) ==
    /\ IF j \in started THEN UNCHANGED <<record, started, attempted, expired>> ELSE PopRecord(j)
    /\ UNCHANGED <<mode, lease, control, poll, reclaimed>>

\* update(): disabling admits whatever waits.
SetMode(to) ==
    /\ to # mode /\ mode' = to
    /\ record' = [j \in Jobs |-> IF to = "disabled" /\ record[j] # "none"
                                 THEN "admitted" ELSE record[j]]
    /\ UNCHANGED <<started, attempted, expired, lease, control, poll, reclaimed>>

\* max_wait_seconds pass for a record.
Expire(j) ==
    /\ record[j] = "checking" /\ j \notin expired
    /\ expired' = expired \cup {j}
    /\ UNCHANGED <<mode, record, started, attempted, lease, control, poll, reclaimed>>

-----------------------------------------------------------------------------
(* The polling thread: _process, _attempt_release and _release_provider.    *)

PollGoto(at, j) == poll' = [at |-> at, job |-> IF at = "idle" THEN NoJob ELSE j]

PollBegin(j) ==
    /\ poll.at = "idle"
    /\ record[j] = "checking"
    /\ PollGoto("probe", j)
    /\ UNCHANGED <<mode, record, started, attempted, expired, lease, control, reclaimed>>

\* The snapshot came back: enough free memory, or not (or unknown).
PollDecide(j) ==
    /\ poll = [at |-> "probe", job |-> j]
    /\ IF record[j] # "checking" \/ ~enabled THEN PollGoto("idle", j) /\ UNCHANGED attempted
       ELSE \/ PollGoto("admit", j) /\ UNCHANGED attempted
            \/ j \in expired /\ PollGoto("expire", j) /\ UNCHANGED attempted
            \/ j \notin expired /\ mode = "managed" /\ j \notin attempted
               /\ PollGoto("attempt", j) /\ attempted' = attempted \cup {j}
            \/ j \notin expired /\ (mode # "managed" \/ j \in attempted)
               /\ PollGoto("idle", j) /\ UNCHANGED attempted
    /\ UNCHANGED <<mode, record, started, expired, lease, control, reclaimed>>

PollAdmit(j) ==
    /\ poll = [at |-> "admit", job |-> j]
    /\ IF record[j] # "none" THEN SetRecord(j, "admitted") ELSE UNCHANGED record
    /\ PollGoto("idle", j)
    /\ UNCHANGED <<mode, started, attempted, expired, lease, control, reclaimed>>

\* Variant: the record is dropped before the queue has given the job up.
PollExpireDropping(j) ==
    /\ poll = [at |-> "expire", job |-> j]
    /\ IF record[j] = "checking" /\ enabled
       THEN PopRecord(j) /\ PollGoto("reject", j)
       ELSE UNCHANGED <<record, started, attempted, expired>> /\ PollGoto("idle", j)
    /\ UNCHANGED <<mode, lease, control, reclaimed>>

\* Variant: an expired record starts to wait anew.
PollExpireSoftly(j) ==
    /\ poll = [at |-> "expire", job |-> j]
    /\ expired' = expired \ {j} /\ PollGoto("idle", j)
    /\ UNCHANGED <<mode, record, started, attempted, lease, control, reclaimed>>

\* The record stays, rejected, until the queue has given the job up.
PollExpire(j) ==
    /\ poll = [at |-> "expire", job |-> j]
    /\ IF record[j] = "checking" /\ enabled
       THEN SetRecord(j, "rejected") /\ PollGoto("reject", j)
       ELSE UNCHANGED record /\ PollGoto("idle", j)
    /\ UNCHANGED <<mode, started, attempted, expired, lease, control, reclaimed>>

PollDrop(j) ==
    /\ poll = [at |-> "drop", job |-> j]
    /\ PopRecord(j)
    /\ PollGoto("idle", j)
    /\ UNCHANGED <<mode, lease, control, reclaimed>>

PollAttempt(j) ==
    /\ poll = [at |-> "attempt", job |-> j]
    /\ IF mode # "managed" \/ record[j] # "checking"
       THEN PollGoto("idle", j) /\ UNCHANGED <<attempted, control>>
       ELSE IF lease # NoJob \/ control
            THEN PollGoto("idle", j) /\ attempted' = attempted \ {j} /\ UNCHANGED control
            ELSE PollGoto("release", j) /\ control' = TRUE /\ UNCHANGED attempted
    /\ UNCHANGED <<mode, record, started, expired, lease, reclaimed>>

\* The target service and then Ollama: each if it is authorized and if, under
\* the lock, the policy and the record still ask for it.
PollRelease(j) ==
    /\ poll \in [at : {"release", "releaseOllama"}, job : {j}]
    /\ \/ mode = "managed" /\ control /\ record[j] = "checking" /\ reclaimed' = "pre_admission"
       \/ UNCHANGED reclaimed
    /\ PollGoto(IF poll.at = "release" THEN "releaseOllama" ELSE "unlock", j)
    /\ UNCHANGED <<mode, record, started, attempted, expired, lease, control>>

PollUnlock(j) ==
    /\ poll = [at |-> "unlock", job |-> j]
    /\ control' = FALSE
    /\ PollGoto("idle", j)
    /\ UNCHANGED <<mode, record, started, attempted, expired, lease, reclaimed>>

PollStep(j) ==
    \/ PollDecide(j) \/ PollAdmit(j) \/ PollExpire(j) \/ PollDrop(j)
    \/ PollAttempt(j) \/ PollRelease(j) \/ PollUnlock(j)
=============================================================================
