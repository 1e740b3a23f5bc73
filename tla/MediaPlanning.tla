--------------------------- MODULE MediaPlanning ---------------------------
(***************************************************************************)
(* app/media_planner.py and app/media_catalog_service.py: the owner's        *)
(* catalog of models, workflows and LoRAs, the presets made of them, the     *)
(* plan of one picture request, and the check made of that plan when the     *)
(* request is submitted.  A persona picture binds the photos of              *)
(* IdentityProfiles.  One base model and one provider are enough here; tags  *)
(* other than identity_control, ranking and wording are left out.            *)
(*                                                                         *)
(* An edit of the catalog reads its row and makes its checks before it holds *)
(* the write lock, and counts the revision it read on: `lateEdit' is an edit *)
(* that others may overtake, while every other one reads and commits in one  *)
(* step.                                                                   *)
(***************************************************************************)
EXTENDS IdentityProfiles, Sequences

CONSTANTS
    Resources,         \* the base model "model", and workflows and LoRAs for it
    Recipe,            \* preset -> [workflow, slot, loras, pass, declares]
    AutoPreset,        \* the preset _ensure_presets makes of the base model
    Generates,         \* workflows that declare the operation generate
    Loras,
    Estimate,          \* resource -> estimated_vram_mb
    Budget,            \* vram_budget_mb, 0 for none
    Mechanism,         \* conditioning_mechanism of the persona
    MaxEdits           \* bound on the edits of the catalog

PresetIds == DOMAIN Recipe

ASSUME PlanningAssumption ==
    /\ "model" \in Resources /\ Loras \subseteq Resources /\ Generates \subseteq Resources
    /\ AutoPreset \in PresetIds /\ PresetIds \cap Resources = {}
    /\ "none" \notin Resources \cup PresetIds /\ Estimate \in [Resources -> Nat] /\ Budget \in Nat
    /\ Mechanism \in {"reference_adapter", "identity_pass"} /\ MaxEdits \in Nat

VARIABLES
    resource,          \* resource[x]: [state, revision, identity, paired]
    preset,            \* preset[p]: [state, revision, settings]
    savedPlan,         \* row of media_execution_plans of the request
    run,               \* what was submitted with the job, or NoRun
    edits,             \* counter for MaxEdits
    lateEdit,          \* the edit that has read its row and not committed yet
    overtaken          \* rows given, since the plan was made, a revision they had reached already

planningVars == <<resource, preset, savedPlan, run, edits, lateEdit, overtaken>>
allPlanningVars == <<planningVars, identityVars>>

PlanWorkflows == (Resources \ Loras) \ {"model"}
NoStart == [state |-> "gone", revision |-> 0, settings |-> FALSE]
NoPlan == [status |-> "none", mode |-> "plain", preset |-> "none", presetRow |-> NoStart,
           pinned |-> <<>>, photos |-> {}, profileRevision |-> 0, persona |-> FALSE]
NoRun == [mode |-> "none", photos |-> {}]
NoEdit == [id |-> "none", seen |-> NoStart, wanted |-> NoStart]

PlanningTypeOK ==
    /\ resource \in [Resources -> [state: {"enabled", "disabled", "gone"}, revision: 1..MaxEdits + 1,
                                   identity: BOOLEAN, paired: BOOLEAN]]
    /\ preset \in [PresetIds -> [state: {"enabled", "disabled", "gone"}, revision: 0..MaxEdits + 1,
                                  settings: BOOLEAN]]
    /\ savedPlan.status \in {"none", "ready", "blocked"} /\ run.photos \subseteq savedPlan.photos
    /\ edits \in 0..MaxEdits
    /\ lateEdit.id \in Resources \cup PresetIds \cup {"none"} /\ overtaken \subseteq Resources \cup PresetIds

PlanningInit ==
    /\ resource = [x \in Resources |-> [state |-> "enabled", revision |-> 1, paired |-> x # "model",
                                        identity |-> x \in PlanWorkflows]]
    /\ preset = [p \in PresetIds |-> IF p = AutoPreset THEN NoStart ELSE [NoStart EXCEPT !.state = "enabled", !.revision = 1]]
    /\ savedPlan = NoPlan /\ run = NoRun
    /\ edits = 0 /\ lateEdit = NoEdit /\ overtaken = {}

-----------------------------------------------------------------------------
(* build_media_plan *)

Enabled(x) == x \in Resources /\ resource[x].state = "enabled"
Paired(x) == Enabled(x) /\ resource[x].paired

\* workflow_mechanisms: what a graph demonstrably does with a reference.
Proves(x) ==
    IF ~Enabled(x) \/ ~resource[x].identity THEN {}
    ELSE IF x \in Generates THEN {"reference_adapter"} ELSE {"identity_pass"}

\* _select_workflow: what may fill an open slot; identity counts when it is wanted.
SlotWorkflows(persona) ==
    LET fit == {x \in PlanWorkflows \cap Generates : Paired(x)}
        best == {x \in fit : persona /\ resource[x].identity}
    IN IF best # {} THEN best ELSE IF fit # {} THEN fit ELSE {"none"}

\* _resolve_preset_resources and _resolve_stages.
WorkflowsOf(p, persona) ==
    IF Recipe[p].workflow # "none" THEN {Recipe[p].workflow}
    ELSE IF Recipe[p].slot THEN SlotWorkflows(persona) ELSE {"none"}

Selected(p, w) == ({"model", w, Recipe[p].pass} \cup Recipe[p].loras) \ {"none"}

Covers(p, w) == "identity_control" \in Recipe[p].declares \/ \E x \in Selected(p, w) : resource[x].identity

Cost(p) ==
    Estimate["model"] + (IF Recipe[p].pass = "none" THEN 0 ELSE Estimate[Recipe[p].pass])
        + (IF Recipe[p].loras = {} THEN 0 ELSE Estimate[CHOOSE x \in Recipe[p].loras : TRUE])

Provides(p, w) == Recipe[p].declares \cup Proves(w) \cup Proves(Recipe[p].pass)

\* _evaluate_preset: the recipe has what the request needs.
Suits(p, w, persona) ==
    /\ Enabled("model")
    /\ \A x \in Selected(p, w) : Enabled(x)
    /\ persona => Covers(p, w)
    /\ persona /\ profile.revision > 0 => Mechanism \in Provides(p, w)
    /\ Budget = 0 \/ Cost(p) <= Budget

\* The ways to make the picture; a preference only chooses among them.
PlanChoices(persona) ==
    {c \in PresetIds \X (PlanWorkflows \cup {"none"}) :
        /\ preset'[c[1]].state = "enabled"
        /\ c[2] \in WorkflowsOf(c[1], persona)
        /\ Suits(c[1], c[2], persona)}

\* _identity_configuration_missing: some enabled preset lacks identity_control.
IdentityMissing ==
    Enabled("model") /\ \E p \in PresetIds : \E w \in WorkflowsOf(p, TRUE) :
        preset'[p].state = "enabled" /\ \A x \in Selected(p, w) : Enabled(x) => ~resource[x].identity
        /\ "identity_control" \notin Recipe[p].declares

\* _ensure_presets: an enabled base model that no preset names gets one.  It is
\* a row of its own: the count goes on where that of the last one ended.
EnsurePresets ==
    preset' = IF Enabled("model") /\ \A p \in PresetIds : preset[p].state = "gone"
              THEN [preset EXCEPT ![AutoPreset] =
                       [@ EXCEPT !.state = "enabled", !.revision = preset[AutoPreset].revision + 1, !.settings = FALSE]]
              ELSE preset

Blocked(persona) == [NoPlan EXCEPT !.status = "blocked", !.persona = persona]

ReadyPlan(c, mode, photos) ==
    [status |-> "ready", mode |-> mode, preset |-> c[1], presetRow |-> preset'[c[1]],
     pinned |-> [x \in Selected(c[1], c[2]) |-> resource[x]], photos |-> photos,
     profileRevision |-> IF mode = "plain" THEN 0 ELSE profile.revision, persona |-> mode # "plain"]

\* _bind_identity: approved photos with a file, of an active, consented profile.
Bound(c) ==
    LET photos == {r \in ApprovedReferences(ref) : ref[r].path}
    IN IF /\ profile.status = "active" /\ profile.consent = "granted"
          /\ photos # {} /\ photos \subseteq files
          /\ \E x \in Selected(c[1], c[2]) \cap PlanWorkflows : resource[x].identity
       THEN photos ELSE {}

\* _build_unconditioned_fallback
Fallback ==
    IF profile.required \/ PlanChoices(FALSE) = {} THEN {Blocked(TRUE)}
    ELSE {ReadyPlan(c, "unconditioned", {}) : c \in PlanChoices(FALSE)}

Built(persona) ==
    IF ~persona
    THEN IF PlanChoices(FALSE) = {} THEN {Blocked(FALSE)} ELSE {ReadyPlan(c, "plain", {}) : c \in PlanChoices(FALSE)}
    ELSE IF PlanChoices(TRUE) # {}
    THEN UNION {IF Bound(c) # {} THEN {ReadyPlan(c, "conditioned", Bound(c))} ELSE Fallback : c \in PlanChoices(TRUE)}
    ELSE IF IdentityMissing THEN Fallback ELSE {Blocked(TRUE)}

CreatePlan(persona) ==
    /\ savedPlan = NoPlan /\ profile.status # "erased"
    /\ EnsurePresets
    /\ savedPlan' \in Built(persona) /\ overtaken' = {}
    /\ UNCHANGED <<resource, run, edits, lateEdit, identityVars>>

ReplanSaved ==
    /\ savedPlan.status = "blocked" /\ profile.status # "erased"
    /\ EnsurePresets
    /\ savedPlan' \in Built(savedPlan.persona) /\ overtaken' = {}
    /\ UNCHANGED <<resource, run, edits, lateEdit, identityVars>>

-----------------------------------------------------------------------------
(* The owner edits the catalog *)

Edit == edits < MaxEdits /\ edits' = edits + 1 /\ UNCHANGED <<savedPlan, run, identityVars>>

Row(id) == IF id \in Resources THEN resource[id] ELSE preset[id]

\* save_media_catalog_resource and update_media_preset: the revision read, plus one.
Saved(id, wanted) == [id |-> id, seen |-> Row(id), wanted |-> [wanted EXCEPT !.revision = Row(id).revision + 1]]

ResourceEdits(x) ==
    {Saved(x, [resource[x] EXCEPT !.state = c[1], !.identity = c[2]]) :
        c \in {c \in {"enabled", "disabled"} \X BOOLEAN :
                 /\ c[2] => x \in PlanWorkflows
                 /\ x # "model" /\ c[1] = "enabled" => resource[x].paired}}

\* _check_preset_references: what the recipe names is there and compatible.
PresetEdits(p) ==
    {Saved(p, [preset[p] EXCEPT !.state = c[1], !.settings = c[2]]) :
        c \in {c \in {"enabled", "disabled"} \X BOOLEAN :
                 /\ resource["model"].state # "gone"
                 /\ \A x \in Selected(p, Recipe[p].workflow) \ {"model"} :
                       resource[x].state # "gone" /\ resource[x].paired}}

RowEdits(id) ==
    IF Row(id).state = "gone" THEN {} ELSE IF id \in Resources THEN ResourceEdits(id) ELSE PresetEdits(id)

\* Only what the edit changed of the row it read is written to the row as it is now.
WriteRow(e) ==
    /\ resource' = IF e.id \in Resources THEN [resource EXCEPT ![e.id] = Merged(@, e.seen, e.wanted)] ELSE resource
    /\ preset' = IF e.id \in Resources THEN preset ELSE [preset EXCEPT ![e.id] = Merged(@, e.seen, e.wanted)]
    /\ overtaken' = overtaken \cup (IF e.wanted.revision > Row(e.id).revision THEN {} ELSE {e.id})

UpdateResource(x) == Edit /\ (\E e \in RowEdits(x) : WriteRow(e)) /\ UNCHANGED lateEdit
UpdatePreset(p) == Edit /\ (\E e \in RowEdits(p) : WriteRow(e)) /\ UNCHANGED lateEdit

BeginEdit(id) ==
    /\ Edit /\ lateEdit = NoEdit
    /\ lateEdit' \in RowEdits(id)
    /\ UNCHANGED <<resource, preset, overtaken>>

FinishEdit ==
    /\ lateEdit # NoEdit /\ WriteRow(lateEdit)
    /\ lateEdit' = NoEdit
    /\ UNCHANGED <<savedPlan, run, edits, identityVars>>

\* Its compatibility edges go with a model.  A late edit fails when its row is
\* gone, or the model that it would write the edge to.
DeleteResource(x) ==
    /\ Edit /\ resource[x].state # "gone"
    /\ resource' = [y \in Resources |->
                      IF y = x THEN [resource[y] EXCEPT !.state = "gone"]
                      ELSE [resource[y] EXCEPT !.paired = @ /\ x # "model"]]
    /\ lateEdit' = IF lateEdit.id = x \/ (x = "model" /\ lateEdit.id \in Resources) THEN NoEdit ELSE lateEdit
    /\ UNCHANGED <<preset, overtaken>>

DeletePreset(p) ==
    /\ Edit /\ preset[p].state # "gone"
    /\ preset' = [preset EXCEPT ![p].state = "gone"]
    /\ lateEdit' = IF lateEdit.id = p THEN NoEdit ELSE lateEdit
    /\ UNCHANGED <<resource, overtaken>>

-----------------------------------------------------------------------------
(* Submitting the request *)

\* execution_values: every resource and the preset are as they were planned.
Unchanged(p) ==
    /\ \A x \in DOMAIN p.pinned : Enabled(x) /\ resource[x].revision = p.pinned[x].revision
    /\ preset[p.preset].state = "enabled" /\ preset[p.preset].revision = p.presetRow.revision

\* Variant: an equal revision stands for an unchanged profile.
RevalidatedByRevision(p) ==
    CASE p.mode = "plain" -> TRUE
      [] p.mode = "unconditioned" -> profile.revision = p.profileRevision
      [] p.mode = "conditioned" ->
            profile.revision = p.profileRevision
            /\ \A r \in p.photos : ref[r].review = "approved" /\ ref[r].path /\ r \in files

\* _revalidate_identity and _verified_reference_files.
Revalidated(p) ==
    CASE p.mode = "plain" -> TRUE
      [] p.mode = "unconditioned" -> profile.revision = p.profileRevision /\ ~profile.required
      [] p.mode = "conditioned" ->
            /\ profile.revision = p.profileRevision
            /\ profile.status = "active" /\ profile.consent = "granted"
            /\ \A r \in p.photos : ref[r].review = "approved" /\ ref[r].path /\ r \in files

SubmitPlan ==
    /\ savedPlan.status = "ready" /\ run = NoRun /\ profile.status # "erased"
    /\ Unchanged(savedPlan) /\ Revalidated(savedPlan)
    /\ run' = [mode |-> savedPlan.mode, photos |-> savedPlan.photos]
    /\ UNCHANGED <<resource, preset, savedPlan, edits, lateEdit, overtaken, identityVars>>

\* The job uploads the photos that are still there, and ends.
UploadPhotos ==
    /\ run.mode = "conditioned" /\ run.photos # {}
    /\ \E r \in run.photos :
         IF r \in files THEN sent' = sent \cup {r} /\ run' = [run EXCEPT !.photos = @ \ {r}]
         ELSE run' = [run EXCEPT !.photos = {}] /\ UNCHANGED sent
    /\ UNCHANGED <<resource, preset, savedPlan, edits, lateEdit, overtaken>>
    /\ UNCHANGED <<profile, ref, files, slow, cleanup, comparison, erasureVars>>

RestartPlanning ==
    /\ RestartIdentity
    /\ run' = [run EXCEPT !.photos = {}]
    /\ lateEdit' = NoEdit
    /\ UNCHANGED <<resource, preset, savedPlan, edits, overtaken>>

PlanningNext ==
    \/ ProfileStep /\ UNCHANGED planningVars
    \/ RestartPlanning
    \/ \E persona \in BOOLEAN : CreatePlan(persona)
    \/ ReplanSaved \/ SubmitPlan \/ UploadPhotos
    \/ \E x \in Resources : UpdateResource(x) \/ DeleteResource(x)
    \/ \E p \in PresetIds : UpdatePreset(p) \/ DeletePreset(p)
    \/ \E id \in Resources \cup PresetIds : BeginEdit(id)
    \/ FinishEdit

PlanningSpec == IdentityInit /\ PlanningInit /\ [][PlanningNext]_allPlanningVars

-----------------------------------------------------------------------------

\* What is submitted is what was planned: the content of the preset and of every
\* resource the picture is made with, the profile's consent and policy, and
\* photos that are approved, whatever was edited and however profile handlers
\* overlapped.  The one exception is a row that two overlapping edits gave the
\* same revision, or a lower one, after the plan was made: its revision says
\* nothing of its content.
SubmittedAsPlanned ==
    [][run = NoRun /\ run' # NoRun =>
         /\ \A x \in DOMAIN savedPlan.pinned \ overtaken : resource[x] = savedPlan.pinned[x]
         /\ savedPlan.preset \notin overtaken => preset[savedPlan.preset] = savedPlan.presetRow
         /\ run'.mode = "conditioned" =>
              profile.consent = "granted" /\ \A r \in run'.photos : ref[r].review = "approved"
         /\ run'.mode = "unconditioned" => ~profile.required]_allPlanningVars

\* docs/persona-visual-identity.md: allow_unconditioned "keeps image generation
\* available when no compatible identity workflow is configured".
FallbackKeepsGenerating ==
    [][savedPlan' # savedPlan /\ savedPlan'.status = "blocked" /\ ~profile.required => PlanChoices(FALSE) = {}]_allPlanningVars

\* Plans over all states of the type.
PlansHold == []PlanningTypeOK /\ SubmittedAsPlanned
=============================================================================
