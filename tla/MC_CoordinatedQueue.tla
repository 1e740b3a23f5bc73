------------------------ MODULE MC_CoordinatedQueue ------------------------
(* A chat reply in the interactive lane and pictures in the media lane that  *)
(* all want the local GPU; known says which pictures have a known demand.    *)
EXTENDS CoordinatedQueue

CONSTANTS chat, image, picture, i1, m1

MCWorkerLane == [w \in Workers |-> IF w = i1 THEN "interactive" ELSE "media"]
MCLaneOf == [j \in Jobs |-> IF j = chat THEN "interactive" ELSE "media"]
MCOrderingKey == [j \in Jobs |-> NoKey]
MCModelKey == [j \in Jobs |-> NoModel]
MCLatency == [j \in Jobs |-> IF j = chat THEN 0 ELSE 1]
MCCoordinated == Jobs
MCDemand == [j \in Jobs |-> IF j = chat THEN "none"
                            ELSE IF j = image THEN "known" ELSE "unknown"]
=============================================================================
