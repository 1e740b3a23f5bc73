-------------------------- MODULE StagedGeneration --------------------------
(***************************************************************************)
(* app/media_service.py runs the passes of a recipe one after the other on  *)
(* ComfyUI through app/media_clients.py: each pass has a graph of its own,   *)
(* declares which inputs of it receive the prompt, the previous picture and *)
(* the persona's photos, and is handed the previous pass's picture in a      *)
(* scratch file.  A failed comparison is followed by a second attempt: a     *)
(* correction graph over the picture, or the same recipe again.  The journal *)
(* of app/media_journal_service.py says how the generation ended.            *)
(***************************************************************************)
EXTENDS Naturals, Sequences, FiniteSets

CONSTANTS
    Graphs,      \* the workflows: each says which node takes a role, 0 for none
    MaxPasses,   \* bound: passes of a recipe
    Photos,      \* number of approved photos a conditioned plan pinned
    MaxPolls     \* the 120 looks at the history of a prompt

ASSUME StagedAssumption ==
    /\ Graphs # {} /\ Graphs \subseteq [{"prompt", "source", "identity"} -> Nat]
    /\ MaxPasses \in Nat \ {0} /\ Photos \in Nat \ {0} /\ MaxPolls \in Nat \ {0}

VARIABLES
    recipe,     \* the plan: [passes, owner, correction]; owner 0: not conditioned
    tries,      \* number of the attempt
    stage,       \* number of the pass
    at,         \* where the generation is
    values,     \* settings of this call: [graph, bound, source]
    sent,       \* photos uploaded for this call
    polls,      \* looks at the history so far
    artifact,   \* the graphs the picture in hand went through, in order
    scratch,    \* scratch files on disk
    photo,      \* content of each approved photo's file
    token,      \* whether the generation was cancelled
    outcome,    \* how it ended
    journal     \* status of its journal, "none" if it could not be opened

callVars == <<values, sent, polls>>
stagedVars == <<recipe, tries, stage, at, callVars, artifact, scratch, photo, token, outcome, journal>>

Roles == {"prompt", "source", "identity"}
NoNode == 0
Unbound == [role \in Roles |-> NoNode]
NoGraph == Unbound
Nothing == <<>>

\* _resolve_stages: a later pass receives a picture.
TakesPictures(passes) ==
    \A n \in 1..Len(passes) : passes[n]["source"] # NoNode <=> n > 1

\* _identity_correction_workflow: a graph that takes a picture and photos.
MayCorrect(graph) == graph["source"] # NoNode /\ graph["identity"] # NoNode

Recipes ==
    {r \in [passes : UNION {[1..n -> Graphs] : n \in 1..MaxPasses}, owner : 0..MaxPasses,
            correction : Graphs \cup {NoGraph}] :
        /\ TakesPictures(r.passes)
        /\ r.owner <= Len(r.passes)
        /\ r.owner # 0 => r.passes[r.owner]["identity"] # NoNode
        /\ r.correction # NoGraph =>
               r.owner # 0 /\ MayCorrect(r.correction)}

Conditioned == recipe.owner # 0
Corrected == tries = 2 /\ recipe.correction # NoGraph
MaxTries == IF Conditioned THEN 2 ELSE 1

\* _place_identity_bindings: the first pass has photos only if it is the owner.
Placed(n) ==
    IF n = 1 /\ Conditioned /\ recipe.owner # 1 THEN NoNode
    ELSE recipe.passes[n]["identity"]

\* The settings of the first pass ...
BaseValues ==
    [graph |-> recipe.passes[1],
     bound |-> [recipe.passes[1] EXCEPT !["identity"] = Placed(1)],
     source |-> Nothing]

\* ... which a correction takes over, but for its graph and its images.
CorrectedValues ==
    [graph |-> recipe.correction,
     bound |-> [BaseValues.bound EXCEPT !["source"] = recipe.correction["source"],
                                        !["identity"] = recipe.correction["identity"]],
     source |-> artifact]

\* Variant: a pass keeps the bindings it does not declare.
StageValuesMerged(n) ==
    [graph |-> recipe.passes[n],
     bound |-> [role \in Roles |-> IF recipe.passes[n][role] # NoNode THEN recipe.passes[n][role]
                                   ELSE BaseValues.bound[role]],
     source |-> artifact]

\* _run_stages: the bindings of a pass are assigned, never merged.
StageValues(n) ==
    [graph |-> recipe.passes[n],
     bound |-> [recipe.passes[n] EXCEPT !["identity"] = Placed(n)],
     source |-> artifact]

\* _inject_comfyui_value: a binding names a node the graph has.
Exists(role) == values.graph[role] = values.bound[role]
Binds(role) == values.bound[role] # NoNode

\* _comfyui_upload_image: what is sent has the digest the plan pinned.
Intact(n) == photo[n] = "reviewed"

\* _finish: only a running journal ends.
Finished == IF journal = "running" THEN outcome ELSE journal

StagedTypeOK ==
    /\ recipe \in Recipes /\ tries \in 1..2 /\ stage \in 1..MaxPasses
    /\ at \in {"open", "pass", "build", "photos", "source", "submit", "poll", "fetch",
               "made", "judge", "closing", "ended"}
    /\ values.graph \in Graphs \cup {NoGraph}
    /\ sent \in 0..Photos /\ polls \in 0..MaxPolls
    /\ scratch \subseteq {<<n, k>> : n \in 1..2, k \in 2..MaxPasses}
    /\ photo \in [1..Photos -> {"reviewed", "changed", "gone"}]
    /\ token \in BOOLEAN
    /\ outcome \in {"none", "completed", "failed", "cancelled", "crashed"}
    /\ journal \in {"none", "running", "completed", "failed", "cancelled"}

StagedInit ==
    /\ recipe \in Recipes
    /\ tries = 1 /\ stage = 1 /\ at = "open"
    /\ values = [graph |-> NoGraph, bound |-> Unbound, source |-> Nothing]
    /\ sent = 0 /\ polls = 0 /\ artifact = Nothing /\ scratch = {}
    /\ photo = [n \in 1..Photos |-> "reviewed"]
    /\ token = FALSE /\ outcome = "none" /\ journal = "none"

-----------------------------------------------------------------------------
(* One pass: the picture of the last one, then the calls of ComfyUI. *)

\* An exception leaves the pass, whose finally unlinks the scratch file.
Fails(end) ==
    /\ at' = "closing" /\ outcome' = end
    /\ scratch' = {}

Returns == at' = "closing" /\ outcome' = "completed" /\ UNCHANGED scratch

Stops == token /\ Fails("cancelled")

\* A step that goes on; any call may also fail, or find the token set.
Proceed(step) == at' = step /\ UNCHANGED <<outcome, scratch>>

\* _open_journal: the picture is made even when the journal cannot be.
OpenJournal ==
    /\ at = "open"
    /\ journal' \in {"running", "none"}
    /\ Proceed("pass")
    /\ UNCHANGED <<recipe, tries, stage, callVars, artifact, photo, token>>

BeginPass ==
    /\ at = "pass"
    /\ \/ Stops /\ UNCHANGED values
       \/ Fails("failed") /\ UNCHANGED values
       \/ /\ ~token /\ at' = "build" /\ UNCHANGED outcome
          /\ values' = IF stage > 1 THEN StageValues(stage)
                       ELSE IF Corrected THEN CorrectedValues ELSE BaseValues
          /\ scratch' = IF stage > 1 THEN scratch \cup {<<tries, stage>>} ELSE scratch
    /\ sent' = 0 /\ polls' = 0
    /\ UNCHANGED <<recipe, tries, stage, artifact, photo, token, journal>>

\* _comfyui_bound_workflow; without a prompt binding a default graph is patched.
BuildWorkflow ==
    /\ at = "build"
    /\ \/ Stops
       \/ Binds("prompt") /\ ~Exists("prompt") /\ Fails("failed")
       \/ (Binds("prompt") => Exists("prompt"))
          /\ Proceed(IF Conditioned /\ Binds("identity") THEN "photos" ELSE "source")
    /\ UNCHANGED <<recipe, tries, stage, callVars, artifact, photo, token, journal>>

\* _comfyui_upload_identity_references, one photo at a time, then the injection.
UploadPhoto ==
    /\ at = "photos"
    /\ \/ Stops /\ UNCHANGED sent
       \/ Fails("failed") /\ UNCHANGED sent
       \/ /\ sent < Photos /\ Intact(sent + 1)
          /\ sent' = sent + 1
          /\ Proceed("photos")
       \/ sent = Photos /\ Exists("identity") /\ Proceed("source") /\ UNCHANGED sent
    /\ UNCHANGED <<recipe, tries, stage, values, polls, artifact, photo, token, journal>>

\* _comfyui_upload_bound_image, for a graph that takes a picture.
UploadSource ==
    /\ at = "source"
    /\ \/ Stops
       \/ Fails("failed")
       \/ (Binds("source") => values.source # Nothing /\ Exists("source")) /\ Proceed("submit")
    /\ UNCHANGED <<recipe, tries, stage, callVars, artifact, photo, token, journal>>

SubmitPrompt ==
    /\ at = "submit"
    /\ Stops \/ Fails("failed") \/ (~token /\ Proceed("poll"))
    /\ UNCHANGED <<recipe, tries, stage, callVars, artifact, photo, token, journal>>

\* The prompt itself is never interrupted: only the looking stops.
PollHistory ==
    /\ at = "poll"
    /\ \/ (Stops \/ Fails("failed") \/ (~token /\ Proceed("fetch"))) /\ UNCHANGED polls
       \/ ~token /\ polls + 1 < MaxPolls /\ polls' = polls + 1 /\ Proceed("poll")
       \/ ~token /\ polls + 1 = MaxPolls /\ polls' = MaxPolls /\ Fails("failed")
    /\ UNCHANGED <<recipe, tries, stage, values, sent, artifact, photo, token, journal>>

\* The bytes come back, and the token is looked at once more.
FetchPicture ==
    /\ at = "fetch"
    /\ \/ (Stops \/ Fails("failed")) /\ UNCHANGED artifact
       \/ /\ ~token /\ Proceed("made")
          /\ artifact' = Append(IF Binds("source") THEN values.source ELSE Nothing, values.graph)
    /\ UNCHANGED <<recipe, tries, stage, callVars, photo, token, journal>>

\* The scratch file goes, and the next pass or the comparison follows.
EndPass ==
    /\ at = "made"
    /\ scratch' = {}
    /\ IF stage < Len(recipe.passes)
       THEN stage' = stage + 1 /\ at' = "pass"
       ELSE at' = "judge" /\ UNCHANGED stage
    /\ UNCHANGED <<recipe, tries, callVars, artifact, photo, token, outcome, journal>>

\* A picture that failed its comparison is followed by another attempt; what
\* may go wrong until then (the file, its row, the comparison) is a failure.
JudgePicture ==
    /\ at = "judge"
    /\ \/ (Stops \/ Fails("failed")) /\ UNCHANGED <<tries, stage>>
       \/ Returns /\ UNCHANGED <<tries, stage>>
       \/ /\ tries < MaxTries /\ tries' = tries + 1 /\ stage' = 1
          /\ Proceed("pass")
    /\ UNCHANGED <<recipe, callVars, artifact, photo, token, journal>>

\* generate: whatever happened, its end is written to the journal that is open.
FinishJournal ==
    /\ at = "closing"
    /\ journal' = Finished
    /\ at' = "ended"
    /\ UNCHANGED <<recipe, tries, stage, callVars, artifact, scratch, photo, token, outcome>>

StagedStep ==
    \/ OpenJournal \/ BeginPass \/ BuildWorkflow \/ UploadPhoto \/ UploadSource
    \/ SubmitPrompt \/ PollHistory \/ FetchPicture \/ EndPass \/ JudgePicture \/ FinishJournal

-----------------------------------------------------------------------------
(* What happens meanwhile. *)

CancelGeneration ==
    /\ ~token /\ at # "ended"
    /\ token' = TRUE
    /\ UNCHANGED <<recipe, tries, stage, at, callVars, artifact, scratch, photo, outcome, journal>>

\* A photo is deleted or withdrawn, or its file is written over.
PhotoChanges(n) ==
    /\ Conditioned /\ at # "ended" /\ photo[n] = "reviewed"
    /\ \E content \in {"changed", "gone"} : photo' = [photo EXCEPT ![n] = content]
    /\ UNCHANGED <<recipe, tries, stage, at, callVars, artifact, scratch, token, outcome, journal>>

\* The process dies: the journal stays running and a scratch file stays.
Crash ==
    /\ at # "ended"
    /\ at' = "ended" /\ outcome' = "crashed"
    /\ UNCHANGED <<recipe, tries, stage, callVars, artifact, scratch, photo, token, journal>>

StagedNext ==
    \/ StagedStep
    \/ CancelGeneration
    \/ \E n \in 1..Photos : PhotoChanges(n)
    \/ Crash

\* The worker's thread runs on; nothing obliges the provider to answer.
StagedSpec == StagedInit /\ [][StagedNext]_stagedVars /\ WF_stagedVars(StagedStep)

-----------------------------------------------------------------------------
(* Properties *)

\* The picture that is returned went through every pass of the recipe in
\* order, each on the picture of the one before; a correction comes first and
\* works on the candidate the first attempt made (_run_stages).
EveryPassInOrder ==
    at \in {"judge"} \/ outcome = "completed" =>
        artifact = IF Corrected
                   THEN recipe.passes \o <<recipe.correction>> \o Tail(recipe.passes)
                   ELSE recipe.passes

\* No pass of a recipe is sent bindings of another pass's graph.
BindingsFitTheirGraph ==
    at = "build" /\ ~(Corrected /\ stage = 1) => \A role \in Roles : Binds(role) => Exists(role)

\* The same of a correction, which docs/media-catalog.md says "receives the
\* previous candidate through its source binding": its prompt binding is the
\* first workflow's.
CorrectionFitsItsGraph ==
    at = "build" /\ Corrected /\ stage = 1 => \A role \in Roles : Binds(role) => Exists(role)

\* At most one scratch file is ever on disk, and none when the generation has
\* ended without a crash.
ScratchIsWorkingState ==
    /\ Cardinality(scratch) <= 1
    /\ at \in {"closing", "ended"} /\ outcome # "crashed" => scratch = {}

\* A journal that was opened says how the generation ended.
JournalTellsTheEnd ==
    at = "ended" /\ outcome # "crashed" /\ journal # "none" => journal = outcome

\* A generation ends, whatever ComfyUI answers.
GenerationEnds == <>(at = "ended")

\* The passes of a generation: their order, their bindings, their scratch files
\* and their journal.
StagedInvariant ==
    StagedTypeOK /\ EveryPassInOrder /\ BindingsFitTheirGraph /\ ScratchIsWorkingState /\ JournalTellsTheEnd
=============================================================================
