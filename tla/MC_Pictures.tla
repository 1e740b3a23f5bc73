----------------------------- MODULE MC_Pictures -----------------------------
(***************************************************************************)
(* One instance for what a picture is made from and asked with: capability  *)
(* requests (CapabilityRequests), the persona's photos (IdentityProfiles),  *)
(* the plan of a request (MediaPlanning), the catalog's presets             *)
(* (MediaCatalog), the inspection of a workflow (WorkflowInspection) and the *)
(* pictures kept to be sent again (MediaLibrary).  A behaviour is about one *)
(* of them: `part' says which, and the variables of the others stay.        *)
(***************************************************************************)
EXTENDS CapabilityRequests, MediaPlanning, MediaCatalog, WorkflowInspection, MediaLibrary, TLC

CONSTANTS Request1, Request2, Request3, n1, n2, n3, s1, s2, c1, c2
VARIABLE part

\* Handlers differ only in their names.
SessionsAlike == Permutations(Sessions)

\* Where handlers overlap the second request is not used, which keeps the
\* instance small: overlapping handlers are about one request, a retry without
\* overlap is about two.  The third only retries when the first two have ended.
RequestScope ==
    /\ isolated \/ status'[Request2] = "none"
    /\ \/ status'[Request3] = "none"
       \/ replaces'[Request3] # {} /\ {status[Request1], status[Request2]} \subseteq Ended

\* A persona that is deleted has one photo, which may be added meanwhile.
IdentityScope ==
    erasing' # NoErasure \/ profile'.status = "erased" => ref'[2] = NoRef /\ 2 \notin files'

\* One photo, and the handlers of it that bear upon a plan.  A late edit of
\* the catalog is about a plan without photos; a second one is made meanwhile.
PlanningScope ==
    /\ ref'[2] = NoRef /\ 2 \notin files'
    /\ slow'.op \in {"none", "put", "reject", "withdraw"}
    /\ edits' = 2 \/ lateEdit' # NoEdit => profile' = NoProfile /\ files' = {} /\ slow' = NoHandler
    /\ edits' = 2 /\ edits = 1 => lateEdit # NoEdit

\* Pictures enter in their order and few are sent, which keeps the instance small.
InLibrary(p) == \E e \in Entries : entry'[e].picture = p
LibraryScope ==
    /\ \A p, q \in Pictures : p < q /\ InLibrary(q) => InLibrary(p)
    /\ Cardinality(unmarked') <= 1
    /\ \A c, d \in Chats : c # d => Len(sentTo'[c]) <= 2 /\ Len(sentTo'[c]) + Len(sentTo'[d]) <= 3

\* One model with a workflow that generates and one that applies a face to a
\* finished picture; a two-pass recipe and the automatic one.
MCResources == {"model", "adapter", "pass"}
MCRecipe ==
    [named |-> [workflow |-> "none", slot |-> FALSE, loras |-> {}, pass |-> "pass", declares |-> {}],
     auto |-> [workflow |-> "none", slot |-> TRUE, loras |-> {}, pass |-> "none", declares |-> {}]]
MCEstimate == [x \in Resources |-> IF x = "model" THEN 4 ELSE 1]

\* A file of two presets, and the starter bundle, which has one.
Entry(name, base, loras) == [name |-> <<name, 1>>, base |-> base, loras |-> loras]
MCFile == <<Entry("A", "m1", {"l1"}), Entry("B", "m2", {})>>
MCStarters == <<Entry("S", "m1", {})>>

\* Every way to link three different nodes, cycles included: an upload, an
\* identity node and a third one, with at most one thing wrong with them.
Graph(identity, outputs, photos, texts, links) ==
    [reported |-> Nodes, complete |-> Nodes, identity |-> identity, outputs |-> outputs,
     uploads |-> photos, texts |-> texts, links |-> links, typed |-> links, conditioned |-> TRUE]
MCWorkflows ==
    {[Graph({n2}, outputs, {n1}, {n1}, links) EXCEPT !.reported = Nodes \ unreported, !.conditioned = conditioned] :
        unreported \in {{}, {n2}}, outputs \in {{n3}, {n2}, {}}, links \in SUBSET {l \in Nodes \X Nodes : l[1] # l[2]},
        conditioned \in BOOLEAN}
    \cup
    {[Graph({n2, n3}, {n1, n3}, {n1, n2}, {}, links) EXCEPT !.complete = complete, !.typed = typed] :
        complete \in {Nodes, {n1, n3}},
        links \in {{<<n1, n2>>, <<n2, n3>>}, {<<n1, n2>>, <<n1, n3>>}, {<<n2, n3>>}},
        typed \in {{<<n1, n2>>, <<n1, n3>>, <<n2, n3>>}, {<<n1, n2>>, <<n1, n3>>}}}

picturesVars == <<vars, allPlanningVars, catalogVars, inspectionVars, libraryVars, part>>

aWorkflow == Graph({n2}, {n3}, {n1}, {n1}, {})

PicturesInit ==
    /\ part \in {"requests", "identity", "planning", "catalog", "inspection", "library"}
    /\ part = "inspection" \/ workflow = aWorkflow
    /\ Init /\ IdentityInit /\ PlanningInit /\ CatalogInit /\ InspectionInit /\ LibraryInit
    /\ part # "requests" => isolated
    /\ part # "catalog" => paired = {} /\ rows = Assets

PicturesNext ==
    \/ /\ part = "requests" /\ Next /\ RequestScope
       /\ UNCHANGED <<allPlanningVars, catalogVars, inspectionVars, libraryVars, part>>
    \/ /\ part = "identity" /\ IdentityNext /\ IdentityScope
       /\ UNCHANGED <<vars, planningVars, catalogVars, inspectionVars, libraryVars, part>>
    \/ /\ part = "planning" /\ PlanningNext /\ PlanningScope
       /\ UNCHANGED <<vars, catalogVars, inspectionVars, libraryVars, part>>
    \/ /\ part = "catalog" /\ CatalogNext
       /\ UNCHANGED <<vars, allPlanningVars, inspectionVars, libraryVars, part>>
    \/ /\ part = "inspection" /\ InspectionNext
       /\ UNCHANGED <<vars, allPlanningVars, catalogVars, libraryVars, part>>
    \/ /\ part = "library" /\ LibraryNext /\ LibraryScope
       /\ UNCHANGED <<vars, allPlanningVars, catalogVars, inspectionVars, part>>

PicturesSpec == PicturesInit /\ [][PicturesNext]_picturesVars
=============================================================================
