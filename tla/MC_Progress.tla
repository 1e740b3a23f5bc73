----------------------------- MODULE MC_Progress -----------------------------
(***************************************************************************)
(* One instance for what is made without anybody waiting for it: scenes and *)
(* photo sets (BackgroundPictures), one generation (MediaGeneration), one   *)
(* generation in passes (StagedGeneration) and the daily copies of the      *)
(* database (Maintenance).  A behaviour is about one of them: `part' says   *)
(* which, and the variables of the others stay as they are.                 *)
(***************************************************************************)
EXTENDS BackgroundPictures, MediaGeneration, StagedGeneration, Maintenance

CONSTANT Set1
VARIABLE part

MCScenes == {1, 2}
MCRequests == {SceneKey(e) : e \in Scenes} \cup UNION {Frames(p) : p \in Sets}

\* Three workflows, by which of their nodes take the prompt, a picture, a face.
G(p, s, i) == [role \in {"prompt", "source", "identity"} |->
    CASE role = "prompt" -> p [] role = "source" -> s [] OTHER -> i]
MCGraphs == {G(1, 0, 3), G(0, 2, 0), G(2, 1, 4)}

everything == <<allVars, mediaVars, stagedVars, maintenanceVars, part>>
aRecipe == CHOOSE r \in Recipes : TRUE

ProgressInit ==
    /\ part \in {"scenes", "sets", "generation", "passes", "copies"}
    /\ BackgroundInit /\ MediaInit /\ StagedInit /\ MaintenanceInit
    /\ part # "generation" =>
        wanted = [planned |-> FALSE, conditioning |-> "none", policy |-> "block_claim", attempts |-> 1]
    /\ part # "passes" => recipe = aRecipe

ScenesNext == part = "scenes" /\ BackgroundNext /\ UNCHANGED <<setVars, mediaVars, stagedVars, maintenanceVars, part>>
SetsNext == part = "sets" /\ BackgroundNext /\ UNCHANGED <<sceneVars, mediaVars, stagedVars, maintenanceVars, part>>
MediaPart(step) == part = "generation" /\ step /\ UNCHANGED <<allVars, stagedVars, maintenanceVars, part>>
StagedPart(step) == part = "passes" /\ step /\ UNCHANGED <<allVars, mediaVars, maintenanceVars, part>>
CopiesPart(step) == part = "copies" /\ step /\ UNCHANGED <<allVars, mediaVars, stagedVars, part>>

ProgressNext ==
    \/ ScenesNext \/ SetsNext
    \/ MediaPart(MediaNext) \/ StagedPart(StagedNext) \/ CopiesPart(MaintenanceNext)

\* The runner comes back, and the workers go on while any of them has a job:
\* a picture has finitely many steps, so none is passed over for ever.  The
\* loop of the maintenance and the container's restart policy go on.
ProgressSpec ==
    /\ ProgressInit /\ [][ProgressNext]_everything
    /\ WF_allVars(Runner) /\ WF_allVars(\E r \in Requests : PictureStep(r))
    /\ WF_everything(StagedPart(StagedStep))
    /\ WF_everything(CopiesPart(ProcessStep))

\* A generation in passes ends, whatever ComfyUI answers, and so does a picture
\* that was started for a scene.
PicturesEnd == GeneratingEnds /\ (part = "passes" => GenerationEnds)
=============================================================================
