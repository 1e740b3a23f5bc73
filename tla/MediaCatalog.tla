---------------------------- MODULE MediaCatalog ----------------------------
(***************************************************************************)
(* app/media_catalog_service.py keeps one owner's catalog of models, LoRAs  *)
(* and workflows and the generation presets made of them.  A call reads     *)
(* first and begins a write transaction only with its first statement that  *)
(* writes, so a call is a read and, some steps of other calls later, one     *)
(* commit; what a commit adds is checked by the unique constraints.          *)
(***************************************************************************)
EXTENDS Naturals, Sequences, FiniteSets, FiniteSetsExt

CONSTANTS
    Callers,     \* requests of the owner that overlap
    Models,      \* checkpoints, each with its own preset name
    CatalogLoras, \* LoRAs the files name
    File,        \* a preset file: a sequence of [name, base, loras]
    Starters,    \* the shipped bundle, likewise
    Legacy,      \* models the old provider settings named
    MaxCalls     \* bound on the calls made

BundleNames == {File[i].name : i \in DOMAIN File} \cup {Starters[i].name : i \in DOMAIN Starters}

ASSUME CatalogAssumption ==
    /\ IsFiniteSet(Models) /\ Legacy \subseteq Models /\ MaxCalls \in Nat
    /\ {File, Starters} \subseteq Seq([name : BundleNames, base : Models, loras : SUBSET CatalogLoras])

VARIABLES
    rows,        \* rows of media_catalog_resources: the models, LoRAs and passes
    enabled,     \* rows that are enabled
    paired,      \* rows of media_resource_compatibility: <<add-on, model>>
    presets,     \* rows of media_generation_presets
    imported,    \* legacy_imported
    call,        \* call[c]: [op, step, read, id]
    calls        \* counter for MaxCalls

catalogVars == <<rows, enabled, paired, presets, imported, call, calls>>

Assets == Models \cup CatalogLoras
\* A workflow installed from a template, told apart by its pass.
Pass == "pass"
\* add_media_preset: the row of a preset; the call that made it and its name
\* stand for its id.
Preset(c, name, base, loras, origin) ==
    [name |-> name, made |-> call[c].id, base |-> base, loras |-> loras, passes |-> {}, origin |-> origin]
Same(p, q) == p.name = q.name /\ p.made = q.made
Names(s) == {p.name : p \in s}
NoCall == [op |-> "none", step |-> "done", read |-> {}, id |-> 0]
CatalogCalls == {"list", "create", "delete", "attach", "import", "starters", "legacy", "seed"}

CatalogTypeOK ==
    /\ rows \subseteq Assets \cup {Pass} /\ enabled \subseteq rows
    /\ paired \subseteq CatalogLoras \X Models
    /\ Cardinality(Names(presets)) = Cardinality(presets)
    /\ imported \in BOOLEAN /\ calls \in 0..MaxCalls
    /\ \A c \in Callers : call[c].step \in {"read", "again", "write", "done", "refused"}

CatalogInit ==
    /\ rows \in {Assets, Assets \ Legacy} /\ enabled = rows
    /\ paired \in SUBSET (CatalogLoras \X Models)
    /\ presets = {}
    /\ imported = (Legacy \subseteq rows)
    /\ call = [c \in Callers |-> NoCall] /\ calls = 0

-----------------------------------------------------------------------------
(* What a call reads, and what it would write. *)

\* resolve_entry: every asset an entry names is in the catalog, and enabled.
Resolves(entry) == entry.base \in enabled /\ entry.loras \subseteq enabled

\* preview_import: every preset of the file can be installed here.
Installable(bundle) ==
    \A i \in 1..Len(bundle) : Resolves(bundle[i]) /\ bundle[i].name \notin Names(presets)

\* import_bundle: a LoRA that is not paired with the base model is left out.
Installed(c, entry, origin) ==
    Preset(c, entry.name, entry.base, {l \in entry.loras : <<l, entry.base>> \in paired}, origin)

\* _ensure_presets: an enabled model no preset is made of gets one of its name.
Uncovered ==
    {m \in Models \cap enabled : \A p \in presets : p.base # m}

AutoRecipe(c, m, taken) ==
    Preset(c, IF <<m, 1>> \notin taken THEN <<m, 1>> ELSE <<m, 2>>, m, {}, "auto")

\* install_starter_presets: what is missing, or there already, is skipped.
StartersToInstall(c) ==
    {Installed(c, Starters[i], "starter") : i \in
        {j \in 1..Len(Starters) : Resolves(Starters[j]) /\ Starters[j].name \notin Names(presets)}}

\* _check_preset_references: the base is a model, the LoRAs are paired with it.
ReferencesHold(p) ==
    p.base \in rows /\ \A l \in p.loras : l \in rows /\ <<l, p.base>> \in paired

-----------------------------------------------------------------------------
(* The calls. *)

Answer(c, step) == call' = [call EXCEPT ![c] = [@ EXCEPT !.step = step, !.read = {}]]
Continue(c, step, found) == call' = [call EXCEPT ![c].step = step, ![c].read = found]
Refuse(c) == Answer(c, "refused") /\ UNCHANGED <<rows, enabled, paired, presets, imported>>

BeginCall(c) ==
    /\ call[c].step \in {"done", "refused"} /\ calls < MaxCalls
    /\ calls' = calls + 1
    /\ \E op \in CatalogCalls :
           call' = [call EXCEPT ![c] = [op |-> op, step |-> "read", read |-> {}, id |-> calls']]
    /\ UNCHANGED <<rows, enabled, paired, presets, imported>>

\* The presets a call adds, unless a name is taken or a reference is gone: then
\* the whole transaction is rolled back and the call refused.
Commit(c, new) ==
    IF Names(new) \cap Names(presets) = {} /\ Cardinality(Names(new)) = Cardinality(new)
    THEN /\ presets' = presets \cup new
         /\ Answer(c, "done") /\ UNCHANGED <<rows, enabled, paired, imported>>
    ELSE Refuse(c)

\* Variant: each preset is committed by itself.
CommitWhatFits(c, new) ==
    /\ presets' = presets \cup {p \in new : ReferencesHold(p) /\ p.name \notin Names(presets)}
    /\ Answer(c, "done") /\ UNCHANGED <<rows, enabled, paired, imported>>

CommitChecked(c, new) ==
    IF \A p \in new : ReferencesHold(p) THEN Commit(c, new) ELSE Refuse(c)

\* presets(), which makes the presets that are missing.
ListPresets(c) ==
    /\ call[c].op = "list"
    /\ \/ /\ call[c].step = "read"
          /\ Continue(c, "write", {AutoRecipe(c, m, Names(presets)) : m \in Uncovered})
          /\ UNCHANGED <<rows, enabled, paired, presets, imported>>
       \/ call[c].step = "write" /\ Commit(c, call[c].read)
    /\ UNCHANGED calls

CreatePreset(c) ==
    /\ call[c].op = "create" /\ call[c].step = "read"
    /\ \E m \in Models : \E name \in {<<m, 1>>, File[1].name} :
           CommitChecked(c, {Preset(c, name, m, {}, "owner")})
    /\ UNCHANGED calls

RemovePreset(c) ==
    /\ call[c].op = "delete" /\ call[c].step = "read" /\ presets # {}
    /\ \E p \in presets : presets' = presets \ {p}
    /\ Answer(c, "done")
    /\ UNCHANGED <<rows, enabled, paired, imported, calls>>

\* install_workflow_template with a preset: the definition it read is written
\* back with one more pass; a preset deleted meanwhile makes it fail.
AttachPass(c) ==
    /\ call[c].op = "attach"
    /\ \/ /\ call[c].step = "read"
          /\ \/ \E p \in presets : p.base \in rows /\ Continue(c, "write", {p})
             \/ presets = {} /\ Answer(c, "refused")
          /\ UNCHANGED <<rows, enabled, paired, presets, imported>>
       \/ /\ call[c].step = "write"
          /\ \E old \in call[c].read :
                 IF (\E p \in presets : Same(p, old)) /\ old.base \in rows
                 THEN /\ presets' = {p \in presets : ~Same(p, old)}
                                        \cup {[old EXCEPT !.passes = @ \cup {Pass}]}
                      /\ rows' = rows \cup {Pass} /\ enabled' = enabled \cup {Pass}
                      /\ Answer(c, "done") /\ UNCHANGED <<paired, imported>>
                 ELSE Refuse(c)
    /\ UNCHANGED calls

\* import_bundle: previewed in one unit of work, resolved and written in another.
ImportFile(c) ==
    /\ call[c].op = "import"
    /\ \/ /\ call[c].step = "read"
          /\ IF Installable(File) THEN Continue(c, "again", {}) ELSE Answer(c, "refused")
          /\ UNCHANGED <<rows, enabled, paired, presets, imported>>
       \/ /\ call[c].step = "again"
          /\ IF \A i \in 1..Len(File) : Resolves(File[i])
             THEN Continue(c, "write", {Installed(c, File[i], "file") : i \in 1..Len(File)})
             ELSE Answer(c, "refused")
          /\ UNCHANGED <<rows, enabled, paired, presets, imported>>
       \/ call[c].step = "write" /\ CommitChecked(c, call[c].read)
    /\ UNCHANGED calls

InstallStarters(c) ==
    /\ call[c].op = "starters"
    /\ \/ /\ call[c].step = "read"
          /\ Continue(c, "write", StartersToInstall(c))
          /\ UNCHANGED <<rows, enabled, paired, presets, imported>>
       \/ call[c].step = "write" /\ CommitChecked(c, call[c].read)
    /\ UNCHANGED calls

\* _ensure_imported: rows of models cataloged meanwhile refuse the call.
ImportLegacy(c) ==
    /\ call[c].op = "legacy"
    /\ \/ /\ call[c].step = "read"
          /\ IF imported THEN Answer(c, "done") ELSE Continue(c, "write", {})
          /\ UNCHANGED <<rows, enabled, paired, presets, imported>>
       \/ /\ call[c].step = "write"
          /\ IF Legacy \cap rows = {}
             THEN /\ rows' = rows \cup Legacy /\ enabled' = enabled \cup Legacy /\ imported' = TRUE
                  /\ Answer(c, "done") /\ UNCHANGED <<paired, presets>>
             ELSE Refuse(c)
    /\ UNCHANGED calls

\* seed_newly_enabled_defaults: only a kind that has no resource is seeded.
SeedDefaults(c) ==
    /\ call[c].op = "seed" /\ call[c].step = "read"
    /\ IF rows = {}
       THEN rows' = Legacy /\ enabled' = Legacy /\ imported' = TRUE
       ELSE UNCHANGED <<rows, enabled, imported>>
    /\ Answer(c, "done")
    /\ UNCHANGED <<paired, presets, calls>>

-----------------------------------------------------------------------------
(* What the owner does to the resources meanwhile, each in one commit. *)

\* create_resource, for a model that is not there: also from a checkpoint.
CatalogAsset(a) ==
    /\ calls < MaxCalls /\ calls' = calls + 1
    /\ a \notin rows
    /\ rows' = rows \cup {a} /\ enabled' = enabled \cup {a}
    /\ UNCHANGED <<paired, presets, imported, call>>

\* update_resource, which may turn it off, or off and on, or unpair it.
UpdateAsset(a) ==
    /\ calls < MaxCalls /\ calls' = calls + 1
    /\ a \in rows
    /\ enabled' \in {enabled \cup {a}, enabled \ {a}}
    /\ paired' \in {paired, {e \in paired : e[1] # a}}
    /\ enabled' # enabled \/ paired' # paired
    /\ UNCHANGED <<rows, presets, imported, call>>

\* delete_media_catalog_resource: its pairs go with it, its presets stay.
DeleteAsset(a) ==
    /\ calls < MaxCalls /\ calls' = calls + 1
    /\ a \in rows
    /\ rows' = rows \ {a} /\ enabled' = enabled \ {a}
    /\ paired' = {e \in paired : a \notin {e[1], e[2]}}
    /\ UNCHANGED <<presets, imported, call>>

CatalogNext ==
    \/ \E c \in Callers :
           \/ BeginCall(c) \/ ListPresets(c) \/ CreatePreset(c) \/ RemovePreset(c) \/ AttachPass(c)
           \/ ImportFile(c) \/ InstallStarters(c) \/ ImportLegacy(c) \/ SeedDefaults(c)
    \/ \E a \in Assets : CatalogAsset(a) \/ UpdateAsset(a) \/ DeleteAsset(a)

CatalogSpec == CatalogInit /\ [][CatalogNext]_catalogVars

-----------------------------------------------------------------------------
(* Properties *)

FromFile(s) == {p \in s : p.origin = "file"}

\* "All or nothing. If any preset in a file cannot be installed, none of it is"
\* (docs/media-catalog.md), whatever other calls commit between the preview and
\* the installation.
ImportAllOrNothing ==
    [][LET new == Names(FromFile(presets')) \ Names(FromFile(presets))
       IN new = {} \/ new = {File[i].name : i \in 1..Len(File)}]_catalogVars

\* The preset a file installs has the pieces the file names; violated: a LoRA
\* that is installed but not paired with the model is left out in silence.
ImportedRecipesAreWhole ==
    \A p \in FromFile(presets), i \in 1..Len(File) :
        p.name = File[i].name => p.loras = File[i].loras

\* Imports over all states of the type.
ImportsHold == []CatalogTypeOK /\ ImportAllOrNothing
=============================================================================
