-------------------------- MODULE MemoryLifecycle --------------------------
(***************************************************************************)
(* app/memory_service.py with the memory part of app/repositories.py: what  *)
(* an owner does to the saved facts of one chat and its persona, and the    *)
(* extraction job that proposes facts after a turn.  A memory is a row; an  *)
(* edit makes a new row and keeps the old one as superseded.  A handler     *)
(* reads its row and writes it in separate statements, so another handler   *)
(* may commit in between.  The audit history is kept as far as undo reads   *)
(* it: the undoable events of a row that have not been undone, in order.    *)
(***************************************************************************)
EXTENDS Naturals, Sequences, FiniteSets

CONSTANTS
    Memories,      \* row identities, taken in the order of creation
    Texts,         \* normalized contents
    MaxEvents,     \* bound: undoable events of a row
    Scopes         \* scopes in use, of "global", "persona" and "chat"

ASSUME MemoryAssumption == Memories \subseteq Nat /\ IsFiniteSet(Memories)
ASSUME ScopesAssumption == Scopes \subseteq {"global", "persona", "chat"}

VARIABLES
    memory,        \* memory[m]: the row
    undoable,      \* undoable[m]: its undoable events, the latest last
    personaLives,  \* whether the chat's persona still exists
    chatLives,     \* whether the chat still exists
    extraction,    \* the chat's memory extraction job, if one is at work
    reviewing,     \* the handler that has read its row and not yet written it
    vouched        \* memories the owner saved, approved or edited while active

memoryVars == <<memory, undoable, personaLives, chatLives, extraction, reviewing, vouched>>

Live == {"pending", "active"}
MemoryStatuses == {"none", "gone", "pending", "active", "rejected", "forgotten", "superseded"}
Row(status, text, scope, supersedes) ==
    [status |-> status, text |-> text, scope |-> scope, supersedes |-> supersedes]
NoRow == Row("none", "-", "global", 0)
Event(action, from, related) == [action |-> action, from |-> from, related |-> related]
NoReview == [action |-> "none", memory |-> 0, seen |-> "none"]

MemoryTypeOK ==
    /\ memory \in [Memories -> [status : MemoryStatuses, text : Texts \cup {"-"},
                                scope : Scopes \cup {"global", "persona", "chat"}, supersedes : Memories \cup {0}]]
    /\ \A m \in Memories : undoable[m] \in Seq([action : {"approved", "rejected", "forgotten", "edited"},
                                                from : MemoryStatuses, related : Memories \cup {0}])
    /\ personaLives \in BOOLEAN /\ chatLives \in BOOLEAN
    /\ extraction \in {"none", "queued", "running"}
    /\ vouched \subseteq Memories

MemoryInit ==
    /\ memory = [m \in Memories |-> NoRow]
    /\ undoable = [m \in Memories |-> <<>>]
    /\ personaLives = TRUE /\ chatLives = TRUE
    /\ extraction = "none"
    /\ reviewing = NoReview
    /\ vouched = {}

-----------------------------------------------------------------------------
(* Rows *)

Exists(m) == memory[m].status \notin {"none", "gone"}
Unused(m) == memory[m].status = "none" /\ \A k \in Memories : memory[k].status = "none" => m <= k

\* live_memory_duplicate
Duplicate(scope, text, besides) ==
    \E m \in Memories \ besides :
        memory[m].status \in Live /\ memory[m].scope = scope /\ memory[m].text = text

\* Variant: the index covers active memories only.
IndexAdmitsPending(rows) ==
    \A m, k \in Memories :
        m # k /\ rows[m].status = "active" /\ rows[k].status = "active"
            => rows[m].scope # rows[k].scope \/ rows[m].text # rows[k].text

\* The unique index of live memories: a write that breaks it is rolled back.
IndexAdmits(rows) ==
    \A m, k \in Memories :
        m # k /\ rows[m].status \in Live /\ rows[k].status \in Live
            => rows[m].scope # rows[k].scope \/ rows[m].text # rows[k].text

\* validate_memory_scope
ValidScope(scope) ==
    /\ scope = "persona" => personaLives
    /\ scope = "chat" => chatLives

Writes(rows) == IndexAdmits(rows) /\ memory' = rows
Logs(m, e) ==
    /\ Len(undoable[m]) < MaxEvents
    /\ undoable' = [undoable EXCEPT ![m] = Append(@, e)]

\* create and propose: saved deliberately, or proposed for review.
Create(m, text, scope, status) ==
    /\ Unused(m) /\ ValidScope(scope) /\ ~Duplicate(scope, text, {})
    /\ Writes([memory EXCEPT ![m] = Row(status, text, scope, 0)])
    /\ vouched' = IF status = "active" THEN vouched \cup {m} ELSE vouched
    /\ UNCHANGED <<undoable, personaLives, chatLives, extraction, reviewing>>

-----------------------------------------------------------------------------
(* Review *)

Target == [approved |-> "active", rejected |-> "rejected", forgotten |-> "forgotten"]
Allowed == [approved |-> {"pending"}, rejected |-> {"pending"}, forgotten |-> Live]

\* _transition: what it reads.
Review(m, action) ==
    /\ reviewing = NoReview
    /\ Exists(m)
    /\ memory[m].status \in Allowed[action]
    /\ reviewing' = [action |-> action, memory |-> m, seen |-> memory[m].status]
    /\ UNCHANGED <<memory, undoable, personaLives, chatLives, extraction, vouched>>

\* _transition: what it writes.  The row may be gone, or the index refuse it.
ReviewWrites ==
    LET m == reviewing.memory
        rows == [memory EXCEPT ![m].status = Target[reviewing.action]]
    IN /\ reviewing # NoReview
       /\ reviewing' = NoReview
       /\ \/ /\ Exists(m)
             /\ Writes(rows)
             /\ Logs(m, Event(reviewing.action, reviewing.seen, 0))
             /\ vouched' = IF reviewing.action = "approved" THEN vouched \cup {m} ELSE vouched
          \/ /\ ~Exists(m) \/ ~IndexAdmits(rows)
             /\ UNCHANGED <<memory, undoable, vouched>>
       /\ UNCHANGED <<personaLives, chatLives, extraction>>

\* An edit of a memory in use stays in use; any other edit waits for review.
RevisedStatus(previous) == IF previous = "active" THEN "active" ELSE "pending"

\* revise: the old row is superseded by a new one.
Revise(m, n, text, scope) ==
    LET previous == memory[m].status
        status == RevisedStatus(previous)
    IN /\ Exists(m) /\ previous # "superseded" /\ Unused(n)
       /\ ValidScope(scope) /\ ~Duplicate(scope, text, {m})
       /\ Writes([memory EXCEPT ![m].status = "superseded", ![n] = Row(status, text, scope, m)])
       /\ Logs(n, Event("edited", previous, m))
       /\ vouched' = IF status = "active" /\ m \in vouched THEN vouched \cup {n} ELSE vouched
       /\ UNCHANGED <<personaLives, chatLives, extraction, reviewing>>

\* latest_undoable_memory_event
LatestUndoable(m) == undoable[m][Len(undoable[m])]

\* undo: the status the event started from comes back, whatever happened since.
Undone(m, e) ==
    IF e.action = "edited"
    THEN [memory EXCEPT ![m].status = "superseded", ![e.related].status = e.from]
    ELSE [memory EXCEPT ![m].status = e.from]

Undo(m) ==
    /\ Exists(m) /\ undoable[m] # <<>>
    /\ LatestUndoable(m).action = "edited" => LatestUndoable(m).related # 0
    /\ Writes(Undone(m, LatestUndoable(m)))
    /\ undoable' = [undoable EXCEPT ![m] = SubSeq(@, 1, Len(@) - 1)]
    /\ UNCHANGED <<personaLives, chatLives, extraction, reviewing, vouched>>

\* The rows and their histories go; what pointed at them points nowhere.
Deleted(gone) ==
    /\ memory' = [m \in Memories |->
                    IF m \in gone THEN [NoRow EXCEPT !.status = "gone"]
                    ELSE [memory[m] EXCEPT !.supersedes = IF @ \in gone THEN 0 ELSE @]]
    /\ undoable' = [m \in Memories |->
                      IF m \in gone THEN <<>>
                      ELSE [i \in 1..Len(undoable[m]) |->
                              [undoable[m][i] EXCEPT !.related = IF @ \in gone THEN 0 ELSE @]]]
    /\ vouched' = vouched \ gone
    /\ UNCHANGED <<personaLives, chatLives, extraction, reviewing>>

\* delete, and the deletion of several.
Delete(gone) == gone # {} /\ (\A m \in gone : Exists(m)) /\ Deleted(gone)

\* bulk_action "forget": all of them or none.
ForgetSeveral(chosen) ==
    LET changed == {m \in chosen : memory[m].status # "forgotten"}
    IN /\ changed # {}
       /\ \A m \in chosen : memory[m].status \in Live \cup {"forgotten"} /\ Len(undoable[m]) < MaxEvents
       /\ memory' = [m \in Memories |->
                       IF m \in changed THEN [memory[m] EXCEPT !.status = "forgotten"] ELSE memory[m]]
       /\ undoable' = [m \in Memories |->
                         IF m \in changed THEN Append(undoable[m], Event("forgotten", memory[m].status, 0))
                         ELSE undoable[m]]
       /\ UNCHANGED <<personaLives, chatLives, extraction, reviewing, vouched>>

\* prune_discarded, for the rows old enough.
PruneDiscarded ==
    LET discarded == {m \in Memories : memory[m].status \in {"rejected", "forgotten"}}
    IN \E old \in SUBSET discarded : old # {} /\ Deleted(old)

-----------------------------------------------------------------------------
(* The persona, the chat and the extraction job *)

\* delete_persona archives what its scope holds; archiving is not undoable.
DeletePersona ==
    /\ personaLives
    /\ personaLives' = FALSE
    /\ memory' = [m \in Memories |->
                    IF memory[m].scope = "persona" /\ memory[m].status \in Live
                    THEN [memory[m] EXCEPT !.status = "forgotten"] ELSE memory[m]]
    /\ UNCHANGED <<undoable, chatLives, extraction, reviewing, vouched>>

\* delete_chat: refused while the chat has a job at work.
DeleteChat ==
    /\ chatLives /\ extraction = "none"
    /\ chatLives' = FALSE
    /\ UNCHANGED <<memory, undoable, personaLives, extraction, reviewing, vouched>>

\* on_generated with memory "saved" adds the job with the reply.
PrepareExtraction ==
    /\ chatLives /\ extraction = "none"
    /\ extraction' = "queued"
    /\ UNCHANGED <<memory, undoable, personaLives, chatLives, reviewing, vouched>>

\* The task model is called, or the job ends without an answer.
RunExtraction ==
    /\ \/ extraction = "queued" /\ extraction' \in {"running", "none"}
       \/ extraction = "running" /\ extraction' = "none"
    /\ UNCHANGED <<memory, undoable, personaLives, chatLives, reviewing, vouched>>

\* The scope of a learned fact is not the model's to choose.
LearnedScope == IF personaLives THEN "persona" ELSE "chat"

\* on_success: a candidate that is no live duplicate waits for review.
ExtractionCommits(m, text) ==
    /\ extraction = "running"
    /\ extraction' = "none"
    /\ \/ /\ Unused(m) /\ ~Duplicate(LearnedScope, text, {})
          /\ Writes([memory EXCEPT ![m] = Row("pending", text, LearnedScope, 0)])
       \/ Duplicate(LearnedScope, text, {}) /\ UNCHANGED memory
    /\ UNCHANGED <<undoable, personaLives, chatLives, reviewing, vouched>>

MemoryNext ==
    \/ \E m \in Memories, t \in Texts, s \in Scopes, status \in Live : Create(m, t, s, status)
    \/ \E m \in Memories, a \in DOMAIN Target : Review(m, a)
    \/ ReviewWrites
    \/ \E m, n \in Memories, t \in Texts, s \in Scopes : Revise(m, n, t, s)
    \/ \E m \in Memories : Undo(m)
    \/ \E gone \in SUBSET Memories : Delete(gone)
    \/ \E chosen \in SUBSET Memories : ForgetSeveral(chosen)
    \/ PruneDiscarded
    \/ DeletePersona
    \/ DeleteChat
    \/ PrepareExtraction
    \/ RunExtraction
    \/ \E m \in Memories, t \in Texts : ExtractionCommits(m, t)

MemorySpec == MemoryInit /\ [][MemoryNext]_memoryVars

-----------------------------------------------------------------------------

\* A fact reaches prompts only if its owner saved it, approved it, or edited
\* one that was in use: no path of edits, undos and late writes promotes a
\* proposed fact by itself ("Candidates never enter context automatically").
NothingLearnedUnreviewed ==
    \A m \in Memories : memory[m].status = "active" => m \in vouched

\* Undo, late writes and revisions never leave the same text live twice in a
\* scope, though each checks for duplicates before it writes, or not at all.
LiveTextOnce ==
    \A m, k \in Memories :
        m # k /\ memory[m].status \in Live /\ memory[k].status \in Live /\ memory[m].text = memory[k].text
            => memory[m].scope # memory[k].scope

\* docs/memory.md: undo reverses an action "when doing so does not violate
\* scope ownership": what undo makes live again belongs to a scope that exists.
UndoRespectsScope ==
    [][(\E m \in Memories : Undo(m))
        => \A m \in Memories :
             memory'[m].status \in Live /\ memory[m].status \notin Live => ValidScope(memory[m].scope)]_memoryVars

\* What is remembered: nothing twice, and nothing its owner did not see.
MemoryInvariant == MemoryTypeOK /\ LiveTextOnce /\ NothingLearnedUnreviewed
=============================================================================
