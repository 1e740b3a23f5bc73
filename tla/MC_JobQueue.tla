---------------------------- MODULE MC_JobQueue ----------------------------
(* Two turns of one chat share an ordering key and use different models; a   *)
(* task job has no key; a picture waits in the media lane.  Two workers serve *)
(* the interactive lane, one the media lane.  Configurations choose which of *)
(* the jobs and workers exist.                                               *)
EXTENDS JobQueue

CONSTANTS turn1, turn2, task, image, i1, i2, m1, chatKey, chatModel, taskModel, imageModel

MCWorkerLane == [w \in Workers |-> IF w = m1 THEN "media" ELSE "interactive"]
MCLaneOf == [j \in Jobs |-> IF j = image THEN "media" ELSE "interactive"]
MCOrderingKey == [j \in Jobs |-> IF j \in {turn1, turn2} THEN chatKey ELSE NoKey]
MCModelKey == [j \in Jobs |-> IF j = image THEN imageModel
                              ELSE IF j = turn1 THEN chatModel ELSE taskModel]
MCLatency == [j \in Jobs |-> IF j = image THEN 1 ELSE 0]
MCCoordinated == Jobs

\* admission_check and serialize_resources may answer anything at all.
AnyAnswer == Answer
\* The answers while nothing is withheld: every job is admitted.
FixedAnswer == {[admits |-> Jobs, serialize |-> TRUE]}
=============================================================================
