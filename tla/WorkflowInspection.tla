------------------------- MODULE WorkflowInspection -------------------------
(***************************************************************************)
(* app/provider_service.py, _inspect_comfyui_object_info: whether what the   *)
(* provider reports about its nodes proves that an imported graph can be     *)
(* saved.  The nodes are looked at one by one; the links whose types agree   *)
(* become the edges of a graph, which is sorted to find a cycle and searched *)
(* from every image upload for a path through an identity node to an output. *)
(* Sorting and searching take any of the nodes that are pending: their order *)
(* is that of a set.                                                         *)
(***************************************************************************)
EXTENDS Naturals, FiniteSets

CONSTANTS
    Nodes,
    Workflows          \* what is imported, with what the provider reports of it

\* A workflow: the nodes whose type is reported, with all their inputs, that
\* apply an identity, that are outputs, that take an upload, whose text can be
\* written; its links, and those whose types agree; and whether it is imported
\* to be conditioned on a reference.
ASSUME WorkflowAssumption ==
    /\ IsFiniteSet(Nodes)
    /\ Workflows \subseteq
         [reported : SUBSET Nodes, complete : SUBSET Nodes, identity : SUBSET Nodes,
          outputs : SUBSET Nodes, uploads : SUBSET Nodes, texts : SUBSET Nodes,
          links : SUBSET (Nodes \X Nodes), typed : SUBSET (Nodes \X Nodes), conditioned : BOOLEAN]

Nowhere == "nowhere"
ASSUME NowhereAssumption == Nowhere \notin Nodes

VARIABLES
    workflow,          \* workflow_patch and object_info
    phase,
    unseen,            \* nodes the pass has not come to
    adjacency,         \* adjacency[n]: nodes that n feeds
    flawed,            \* structural_issues is not empty
    outputNodes, identityNodes, uploads,
    indegree, pending, visited,     \* _has_cycle; pending also of _reachable
    upload, through,   \* raw candidate looked at; identity nodes left to try for it
    start, found,      \* _reachable
    candidates,
    verdict

inspectionVars == <<workflow, phase, unseen, adjacency, flawed, outputNodes, identityNodes, uploads,
                    indegree, pending, visited, upload, through, start, found, candidates, verdict>>

InspectionInit ==
    /\ workflow \in Workflows
    /\ phase = "nodes" /\ unseen = Nodes
    /\ adjacency = [n \in Nodes |-> {}]
    /\ flawed = FALSE
    /\ outputNodes = {} /\ identityNodes = {} /\ uploads = {}
    /\ indegree = [n \in Nodes |-> 0] /\ pending = {} /\ visited = 0
    /\ upload = Nowhere /\ through = {} /\ start = Nowhere /\ found = {}
    /\ candidates = {}
    /\ verdict = "none"

-----------------------------------------------------------------------------
(* The pass over the nodes *)

\* Links into n, from nodes whose outputs are reported.
LinksInto(n) == {link \in workflow.links : link[2] = n /\ link[1] \in workflow.reported}

LookAtNode(n) ==
    /\ phase = "nodes" /\ n \in unseen
    /\ unseen' = unseen \ {n}
    /\ IF n \in workflow.reported
       THEN /\ adjacency' = [m \in Nodes |-> IF <<m, n>> \in LinksInto(n) \cap workflow.typed
                                             THEN adjacency[m] \cup {n} ELSE adjacency[m]]
            /\ flawed' = (flawed \/ n \notin workflow.complete \/ ~(LinksInto(n) \subseteq workflow.typed))
            /\ outputNodes' = outputNodes \cup ({n} \cap workflow.outputs)
            /\ identityNodes' = identityNodes \cup ({n} \cap workflow.identity)
            /\ uploads' = uploads \cup ({n} \cap workflow.uploads)
       ELSE UNCHANGED <<adjacency, flawed, outputNodes, identityNodes, uploads>>
    /\ UNCHANGED <<workflow, phase, indegree, pending, visited, upload, through, start, found, candidates, verdict>>

\* What the graph as a whole must have; then _has_cycle counts the edges.
CountEdges ==
    /\ phase = "nodes" /\ unseen = {}
    /\ flawed' = (flawed \/ outputNodes = {} \/ (workflow.conditioned /\ identityNodes = {}))
    /\ indegree' = [n \in Nodes |-> Cardinality({m \in Nodes : n \in adjacency[m]})]
    /\ pending' = {n \in Nodes : \A m \in Nodes : n \notin adjacency[m]}
    /\ phase' = "cycle"
    /\ UNCHANGED <<workflow, unseen, adjacency, outputNodes, identityNodes, uploads, visited,
                   upload, through, start, found, candidates, verdict>>

-----------------------------------------------------------------------------
(* _has_cycle *)

RemoveNode(n) ==
    /\ phase = "cycle" /\ n \in pending
    /\ visited' = visited + 1
    /\ indegree' = [m \in Nodes |-> IF m \in adjacency[n] THEN indegree[m] - 1 ELSE indegree[m]]
    /\ pending' = (pending \ {n}) \cup {m \in adjacency[n] : indegree[m] = 1}
    /\ UNCHANGED <<workflow, phase, unseen, adjacency, flawed, outputNodes, identityNodes, uploads,
                   upload, through, start, found, candidates, verdict>>

\* Variant: nothing is left to remove.
SortedAway == pending = {}

\* Every node was removed.
Sorted == visited = Cardinality(Nodes)

NothingToRemove ==
    /\ phase = "cycle" /\ pending = {}
    /\ flawed' = (flawed \/ ~Sorted)
    /\ phase' = "uploads"
    /\ UNCHANGED <<workflow, unseen, adjacency, outputNodes, identityNodes, uploads, indegree, pending,
                   visited, upload, through, start, found, candidates, verdict>>

-----------------------------------------------------------------------------
(* _reachable *)

SearchFrom(n) == start' = n /\ found' = {n} /\ pending' = {n}

\* Variant: a child is looked into if it was found before.
UnfoundFound(n) == adjacency[n] \cap found

\* The children that were not found before.
Unfound(n) == adjacency[n] \ found

Visit(n) ==
    /\ phase \in {"downstream", "through"} /\ n \in pending
    /\ found' = found \cup adjacency[n]
    /\ pending' = (pending \ {n}) \cup Unfound(n)
    /\ UNCHANGED <<workflow, phase, unseen, adjacency, flawed, outputNodes, identityNodes, uploads,
                   indegree, visited, upload, through, start, candidates, verdict>>

-----------------------------------------------------------------------------
(* The candidates *)

LookAtUpload(n) ==
    /\ phase = "uploads" /\ n \in uploads
    /\ upload' = n /\ uploads' = uploads \ {n}
    /\ SearchFrom(n)
    /\ phase' = "downstream"
    /\ UNCHANGED <<workflow, unseen, adjacency, flawed, outputNodes, identityNodes, indegree, visited,
                   through, candidates, verdict>>

\* The identity nodes below the upload are tried one by one.
IdentityBelow ==
    /\ phase = "downstream" /\ pending = {}
    /\ through' = found \cap identityNodes
    /\ start' = Nowhere /\ found' = {} /\ phase' = "through"
    /\ UNCHANGED <<workflow, unseen, adjacency, flawed, outputNodes, identityNodes, uploads, indegree,
                   pending, visited, upload, candidates, verdict>>

TryIdentity(n) ==
    /\ phase = "through" /\ pending = {} /\ start = Nowhere /\ n \in through
    /\ through' = through \ {n}
    /\ SearchFrom(n)
    /\ UNCHANGED <<workflow, phase, unseen, adjacency, flawed, outputNodes, identityNodes, uploads,
                   indegree, visited, upload, candidates, verdict>>

\* What the search from an identity node came to is an output.
LeadsOut == outputNodes \cap found # {}

\* any(...): the first that leads to an output settles it.
TriedIdentity ==
    /\ phase = "through" /\ pending = {} /\ start # Nowhere
    /\ IF LeadsOut
       THEN candidates' = candidates \cup {upload} /\ phase' = "uploads"
       ELSE UNCHANGED <<candidates, phase>>
    /\ start' = Nowhere /\ found' = {}
    /\ UNCHANGED <<workflow, unseen, adjacency, flawed, outputNodes, identityNodes, uploads, indegree,
                   pending, visited, upload, through, verdict>>

NoIdentityLeft ==
    /\ phase = "through" /\ pending = {} /\ start = Nowhere /\ through = {}
    /\ phase' = "uploads"
    /\ UNCHANGED <<workflow, unseen, adjacency, flawed, outputNodes, identityNodes, uploads, indegree,
                   pending, visited, upload, through, start, found, candidates, verdict>>

FitForRole ==
    IF workflow.conditioned THEN candidates # {} ELSE workflow.texts \cap workflow.reported # {}

Conclude ==
    /\ phase = "uploads" /\ uploads = {} /\ verdict = "none"
    /\ verdict' = IF Nodes \subseteq workflow.reported /\ ~flawed /\ FitForRole
                  THEN "provider_compatible" ELSE "incompatible"
    /\ phase' = "done"
    /\ UNCHANGED <<workflow, unseen, adjacency, flawed, outputNodes, identityNodes, uploads, indegree,
                   pending, visited, upload, through, start, found, candidates>>

InspectionNext ==
    \/ \E n \in Nodes : LookAtNode(n) \/ RemoveNode(n) \/ Visit(n) \/ LookAtUpload(n) \/ TryIdentity(n)
    \/ CountEdges \/ NothingToRemove \/ IdentityBelow \/ TriedIdentity \/ NoIdentityLeft \/ Conclude

InspectionSpec == InspectionInit /\ [][InspectionNext]_inspectionVars

-----------------------------------------------------------------------------

\* What n leads to: every set of nodes that has n and is closed under feeds.
Closed(C, feeds) == \A m \in C : feeds[m] \subseteq C
LeadsTo(n, feeds) == {m \in Nodes : \A C \in SUBSET Nodes : n \in C /\ Closed(C, feeds) => m \in C}

\* A search that has nothing pending has found what the start leads to, in
\* whatever order it went: no node too many, which would prove a path that is
\* not there, and none too few.
SearchIsExact ==
    phase \in {"downstream", "through"} /\ start # Nowhere /\ pending = {} => found = LeadsTo(start, adjacency)

\* What the workflow itself says.
Feeds == [m \in Nodes |-> {n \in Nodes : <<m, n>> \in workflow.links}]
Proven ==
    /\ workflow.reported = Nodes /\ workflow.complete = Nodes /\ workflow.links \subseteq workflow.typed
    /\ workflow.outputs # {}
    /\ \A n \in Nodes, m \in Nodes : m \in Feeds[n] => n \notin LeadsTo(m, Feeds)
    /\ IF workflow.conditioned
       THEN \E u \in workflow.uploads : \E i \in workflow.identity \cap LeadsTo(u, Feeds) :
               workflow.outputs \cap LeadsTo(i, Feeds) # {}
       ELSE workflow.texts # {}

\* docs/media-catalog.md: a workflow is accepted exactly when its inputs are
\* complete, its links typed, it has no cycle and, if it is conditioned, a
\* reference has a path through an identity node to an output.
VerdictIsProof == verdict # "none" => (verdict = "provider_compatible" <=> Proven)
=============================================================================
