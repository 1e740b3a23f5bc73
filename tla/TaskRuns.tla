------------------------------ MODULE TaskRuns ------------------------------
(***************************************************************************)
(* app/task_model_service.py: a platform task (a title, a summary, memory    *)
(* candidates, a picture plan) is put to the model its role names, then to   *)
(* a second one, and ends in the role's fallback.  Every task has a row that *)
(* says what was asked and how it ended.  The owner changes the profile of   *)
(* the role meanwhile; a task works on the profile as it was when its row    *)
(* was added.  What a model answers is valid, over the output budget or not  *)
(* what was asked for; a provider may fail, or its process may die.          *)
(***************************************************************************)
EXTENDS Naturals, Sequences, FiniteSets

CONSTANTS
    Tasks,             \* runs of one role
    Providers,         \* installed task providers
    Modelless,         \* those with no model to offer
    MaxProfiles        \* bound: changes of the profile

ASSUME TaskAssumption ==
    IsFiniteSet(Tasks) /\ MaxProfiles \in Nat /\ Modelless \subseteq Providers

VARIABLES
    taskProfile,       \* row of task_model_profiles, "none" until it is ensured
    taskRun,           \* taskRun[t]: row of task_model_runs
    caller,            \* caller[t]: the call of run() for t
    taskCancelled,     \* tasks whose cancellation was asked for
    asked,             \* asked[t]: providers that were called
    picture,           \* picture[t]: the picture of a message that t is to describe
    changes            \* counter for MaxProfiles

taskVars == <<taskProfile, taskRun, caller, taskCancelled, asked, picture, changes>>

Nobody == "nobody"
Policies == {"deterministic", "skip", "fail"}
DefaultProfile == [enabled |-> TRUE, roomy |-> TRUE, primary |-> CHOOSE p \in Providers : TRUE,
                   second |-> Nobody, policy |-> "skip"]
Codes == {"none", "cancelled", "interrupted", "task_disabled", "task_input_budget_exceeded", "task_model_unavailable",
          "provider_failed", "task_output_budget_exceeded", "invalid_task_output"}
TaskRow(status, by, fallback, code) == [status |-> status, by |-> by, fallback |-> fallback, code |-> code]
NoTaskRun == TaskRow("none", Nobody, FALSE, "none")
NoCaller == [at |-> "none", profile |-> DefaultProfile, queue |-> <<>>, index |-> 0, code |-> "none"]

TaskTypeOK ==
    /\ taskRun \in [Tasks -> [status : {"none", "running", "completed", "fallback", "failed"},
                              by : Providers \cup {Nobody}, fallback : BOOLEAN, code : Codes]]
    /\ taskCancelled \subseteq Tasks
    /\ asked \in [Tasks -> Seq(Providers)]
    /\ picture \in [Tasks -> {"none", "of_scene", "of_passage", "lost", "dropped"}]

TaskInit ==
    /\ taskProfile = DefaultProfile
    /\ taskRun = [t \in Tasks |-> NoTaskRun]
    /\ caller = [t \in Tasks |-> NoCaller]
    /\ taskCancelled = {}
    /\ asked = [t \in Tasks |-> <<>>]
    /\ picture = [t \in Tasks |-> "none"]
    /\ changes = 0

-----------------------------------------------------------------------------

\* update_profile: any field, on any later task.
UpdateTaskProfile ==
    /\ changes < MaxProfiles /\ changes' = changes + 1
    /\ \E enabled, roomy \in BOOLEAN, primary \in Providers, second \in Providers \cup {Nobody},
          policy \in Policies :
         taskProfile' = [enabled |-> enabled, roomy |-> roomy, primary |-> primary,
                         second |-> second, policy |-> policy]
    /\ UNCHANGED <<taskRun, caller, taskCancelled, asked, picture>>

\* _resolved_attempts: those with a model, the second one if it is another.
Attempts(p) ==
    LET usable(x) == IF x \in Providers \ Modelless THEN <<x>> ELSE <<>>
    IN usable(p.primary) \o (IF p.second = p.primary THEN <<>> ELSE usable(p.second))

At(t, step) == caller' = [caller EXCEPT ![t] = step]

\* run: the row, with the profile it was added under.
BeginTask(t) ==
    /\ taskRun[t] = NoTaskRun
    /\ taskRun' = [taskRun EXCEPT ![t] = TaskRow("running", Nobody, FALSE, "none")]
    /\ At(t, [NoCaller EXCEPT !.at = "added", !.profile = taskProfile])
    /\ UNCHANGED <<taskProfile, taskCancelled, asked, picture, changes>>

\* _finish_run: a row that ended is left as it is.
Finished(t, row) ==
    taskRun' = IF taskRun[t].status = "running" THEN [taskRun EXCEPT ![t] = row] ELSE taskRun

\* Variant: a cancelled call leaves its row to the restart.
CancelledUnrecorded(t) == UNCHANGED taskRun

\* A cancelled call records that it was; its caller gets the error it met.
Cancelled(t) == Finished(t, TaskRow("failed", Nobody, FALSE, "cancelled"))

GiveUpCancelled(t, code) ==
    /\ Cancelled(t)
    /\ At(t, [caller[t] EXCEPT !.at = "raised", !.code = code])

\* _fallback_or_raise
FallBack(t, code) ==
    IF caller[t].profile.policy = "fail"
    THEN /\ Finished(t, TaskRow("failed", Nobody, caller[t].index > 1, code))
         /\ At(t, [caller[t] EXCEPT !.at = "raised", !.code = code])
    ELSE /\ Finished(t, TaskRow("fallback", Nobody, TRUE, code))
         /\ At(t, [caller[t] EXCEPT !.at = "returned", !.code = code])

\* What run checks before it calls anyone.
CheckTask(t) ==
    LET p == caller[t].profile
    IN /\ caller[t].at = "added"
       /\ \/ t \in taskCancelled /\ GiveUpCancelled(t, "cancelled")
          \/ t \notin taskCancelled /\ ~p.enabled /\ FallBack(t, "task_disabled")
          \/ t \notin taskCancelled /\ p.enabled /\ ~p.roomy /\ FallBack(t, "task_input_budget_exceeded")
          \/ /\ t \notin taskCancelled /\ p.enabled /\ p.roomy
             /\ At(t, [caller[t] EXCEPT !.at = "next", !.queue = Attempts(p)])
             /\ UNCHANGED taskRun
       /\ UNCHANGED <<taskProfile, taskCancelled, asked, picture, changes>>

\* The next attempt; none left falls back, with the code of the last one.
NextAttempt(t) ==
    LET c == caller[t]
    IN /\ c.at = "next"
       /\ \/ /\ c.index = Len(c.queue)
             /\ FallBack(t, IF c.queue = <<>> THEN "task_model_unavailable" ELSE c.code)
             /\ UNCHANGED asked
          \/ c.index < Len(c.queue) /\ t \in taskCancelled /\ GiveUpCancelled(t, "cancelled") /\ UNCHANGED asked
          \/ /\ c.index < Len(c.queue) /\ t \notin taskCancelled
             /\ At(t, [c EXCEPT !.at = "calling", !.index = @ + 1])
             /\ asked' = [asked EXCEPT ![t] = Append(@, c.queue[c.index + 1])]
             /\ UNCHANGED taskRun
       /\ UNCHANGED <<taskProfile, taskCancelled, picture, changes>>

\* A valid answer within its budget.
Completed(t) ==
    Finished(t, TaskRow("completed", caller[t].queue[caller[t].index], caller[t].index > 1, "none"))

\* The provider answers, fails, or is stopped by the cancellation.
TaskAnswers(t) ==
    /\ caller[t].at = "calling"
    /\ \/ /\ Completed(t)
          /\ At(t, [caller[t] EXCEPT !.at = "returned", !.code = "none"])
       \/ \E code \in {"provider_failed", "task_output_budget_exceeded"} :
            IF t \in taskCancelled
            THEN GiveUpCancelled(t, code)
            ELSE At(t, [caller[t] EXCEPT !.at = "next", !.code = code]) /\ UNCHANGED taskRun
       \/ \* TaskContractError and any other exception do not look at the token
          /\ At(t, [caller[t] EXCEPT !.at = "next", !.code = "invalid_task_output"])
          /\ UNCHANGED taskRun
    /\ UNCHANGED <<taskProfile, taskCancelled, asked, picture, changes>>

CancelTask(t) ==
    /\ taskRun[t].status # "none" /\ t \notin taskCancelled
    /\ taskCancelled' = taskCancelled \cup {t}
    /\ UNCHANGED <<taskProfile, taskRun, caller, asked, picture, changes>>

\* _scene_for_passage, for a task that describes a message: an error and a
\* fallback leave the passage to be drawn, an answer is read from an attribute
\* that results do not have, and its request ends there.
IllustratePassage(t) ==
    /\ caller[t].at \in {"raised", "returned"} /\ picture[t] = "none"
    /\ picture' = [picture EXCEPT ![t] =
                      IF caller[t].at = "raised" \/ taskRun[t].fallback THEN "of_passage" ELSE "lost"]
    /\ UNCHANGED <<taskProfile, taskRun, caller, taskCancelled, asked, changes>>

\* The process dies with its calls; the next start closes their rows.
RestartTasks ==
    /\ taskRun' = [t \in Tasks |-> IF taskRun[t].status = "running"
                                   THEN TaskRow("failed", Nobody, FALSE, "interrupted")
                                   ELSE taskRun[t]]
    /\ caller' = [t \in Tasks |-> IF caller[t].at \in {"added", "next", "calling"}
                                  THEN [caller[t] EXCEPT !.at = "dead"] ELSE caller[t]]
    /\ picture' = [t \in Tasks |-> IF caller[t].at \in {"raised", "returned"} /\ picture[t] = "none"
                                   THEN "dropped" ELSE picture[t]]
    /\ UNCHANGED <<taskProfile, taskCancelled, asked, changes>>

TaskStep(t) == CheckTask(t) \/ NextAttempt(t) \/ TaskAnswers(t) \/ IllustratePassage(t)

TaskNext ==
    \/ UpdateTaskProfile \/ RestartTasks
    \/ \E t \in Tasks : BeginTask(t) \/ CancelTask(t) \/ TaskStep(t)

TaskSpec == TaskInit /\ [][TaskNext]_taskVars

-----------------------------------------------------------------------------

\* The history of task runs tells what the callers got: who answered and
\* whether that was the fallback, a default result, or an error with its code;
\* whatever the owner changed, cancelled or restarted meanwhile.
HistoryTellsTruth ==
    \A t \in Tasks :
        LET row == taskRun[t]
            c == caller[t]
        IN /\ c.at \in {"none", "added", "next", "calling"} =>
                row.status = (IF c.at = "none" THEN "none" ELSE "running")
           /\ c.at = "raised" => row.status = "failed" /\ row.code \in {c.code} \cup (IF t \in taskCancelled THEN {"cancelled"} ELSE {})
           /\ c.at = "returned" =>
                IF c.code = "none"
                THEN row.status = "completed" /\ row.by = asked[t][Len(asked[t])]
                     /\ (row.fallback <=> Len(asked[t]) > 1)
                ELSE row.status = "fallback" /\ row.by = Nobody
           /\ c.at = "dead" => row.code = "interrupted"

\* docs/task-models.md: "A failure here is not a failure of the picture": a
\* picture of a message is requested however its scene task ends.
IllustrationNeverFails == \A t \in Tasks : picture[t] # "lost"

\* The history over all states of the type.
TaskInvariant == TaskTypeOK /\ HistoryTellsTruth
=============================================================================
