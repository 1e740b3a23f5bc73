------------------------------ MODULE MC_Turns ------------------------------
(***************************************************************************)
(* One instance for the life of a turn: its job (JobService), the stream of *)
(* its events (TurnEvents) and what follows its reply (TurnFollowups).  A   *)
(* behaviour is about one of them: `part' says which, and the variables of  *)
(* the others stay as they are.                                             *)
(***************************************************************************)
EXTENDS JobService, TurnEvents, TurnFollowups

VARIABLE part

followupsUnused == /\ context = CHOOSE t \in Turns : TRUE
                   /\ catalog = "none" /\ pictures = FALSE

turnsVars == <<vars, streamAllVars, pipelineVars, part>>

TurnsInit ==
    /\ part \in {"job", "stream", "followups"}
    /\ Init /\ StreamInit /\ FollowupsInit
    /\ part # "job" => isolated
    /\ part # "followups" => followupsUnused

OfJob(step) == part = "job" /\ step /\ UNCHANGED <<streamAllVars, pipelineVars, part>>
OfStream(step) == part = "stream" /\ step /\ UNCHANGED <<vars, pipelineVars, part>>
OfFollowups(step) == part = "followups" /\ step /\ UNCHANGED <<vars, streamAllVars, part>>

TurnsNext == OfJob(Next) \/ OfStream(StreamNext) \/ OfFollowups(FollowupsNext)

\* The fairness of the three modules, each for the part a behaviour is about.
TurnsSpec ==
    /\ TurnsInit /\ [][TurnsNext]_turnsVars
    /\ WF_turnsVars(OfJob(StopStep))
    /\ \A j \in Jobs :
         /\ WF_turnsVars(OfJob(SubmitterStep(j))) /\ WF_turnsVars(OfJob(WorkerStep(j)))
         /\ WF_turnsVars(OfJob(UserCancelStep(j))) /\ WF_turnsVars(OfJob(RejectEnd(j)))
         /\ \A a \in Failers : WF_turnsVars(OfJob(FailStep(a, j)))
         /\ \A a \in Cancellers : WF_turnsVars(OfJob(CancelStep(a, j)))
    /\ WF_turnsVars(OfStream(GeneratorStep)) /\ WF_turnsVars(OfStream(PublishCancelled))
    /\ WF_turnsVars(OfStream(SubscriberStep))
    /\ WF_turnsVars(OfFollowups(Work)) /\ WF_turnsVars(OfFollowups(SubmitNext))
    /\ WF_turnsVars(OfFollowups(SubmitPicture)) /\ WF_turnsVars(OfFollowups(StartPicture))
    /\ WF_turnsVars(OfFollowups(EndPicture)) /\ WF_turnsVars(OfFollowups(StartAgain))
    /\ \A k \in Followups : WF_turnsVars(OfFollowups(StartFollowup(k)))
    /\ WF_turnsVars(OfFollowups(Stop /\ process = "stopping"))

T(says, sends, saved, untitled) == [says |-> says, sends |-> sends, saved |-> saved, untitled |-> untitled]
MCTurns ==
    {T("image", TRUE, TRUE, FALSE), T("image", FALSE, FALSE, TRUE), T("edit", TRUE, FALSE, FALSE),
     T("literal", TRUE, TRUE, TRUE)}
=============================================================================
