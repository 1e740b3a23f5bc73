------------------------ MODULE ConversationContext ------------------------
(***************************************************************************)
(* app/context_service.py and app/context_policy.py, as a turn of one chat  *)
(* uses them through app/conversation_service.py and app/turn_pipeline.py:  *)
(* the history of completed turns is folded into summary checkpoints, and   *)
(* what is left is fitted into the prompt.  Text is known by its cost in    *)
(* tokens; a turn is short or long.  Turns of a chat run one at a time, in  *)
(* the order they were asked; the pictures a turn asked for are planned     *)
(* after its reply and add tool results to its history.                     *)
(***************************************************************************)
EXTENDS Naturals, Sequences, FiniteSets

CONSTANTS
    MaxTurns,          \* bound: turns of the chat
    Budget,            \* prompt_budget_tokens
    Threshold,         \* the share of it that triggers compaction
    ChunkBudget,       \* the share of it that one summary may read
    Floor,             \* the share of it that history keeps
    Preserve,          \* recent_messages_to_preserve
    MaxPasses,         \* max_compaction_passes
    Instructions       \* cost of the protected sections

ASSUME ContextAssumption ==
    /\ {MaxTurns, Budget, Threshold, ChunkBudget, Floor, Preserve, MaxPasses, Instructions} \subseteq Nat
    /\ Threshold <= Budget /\ Floor <= Budget /\ Preserve > 0

VARIABLES
    turn,              \* turn[k]: status of the k-th turn
    long,              \* long[k]: whether its messages are long
    pictured,          \* pictured[k]: whether its planning made a capability request
    checkpoint,        \* latest_summary: the last item it covers
    folded,            \* items some checkpoint has read
    work,              \* what the running turn has prepared
    prompt             \* what the latest planned turn sends

contextVars == <<turn, long, pictured, checkpoint, folded, work, prompt>>

Item(k, role) == [turn |-> k, role |-> role]
NoItem == Item(0, "none")
NoWork == [turn |-> 0, history |-> {}, summary |-> NoItem, passes |-> 0, degraded |-> FALSE]
NoPrompt == [turn |-> 0, items |-> {}, sections |-> {}, cost |-> 0]

TurnStatuses == {"queued", "compacting", "streaming", "completed", "failed", "cancelled", "broken"}
Over == {"completed", "failed", "cancelled", "broken"}

ContextTypeOK ==
    /\ turn \in Seq(TurnStatuses) /\ Len(turn) <= MaxTurns
    /\ long \in Seq(BOOLEAN) /\ Len(long) = Len(turn)
    /\ pictured \in Seq(BOOLEAN) /\ Len(pictured) = Len(turn)
    /\ work.passes \in 0..MaxPasses

ContextInit ==
    /\ turn = <<>> /\ long = <<>> /\ pictured = <<>>
    /\ checkpoint = NoItem /\ folded = {}
    /\ work = NoWork /\ prompt = NoPrompt

-----------------------------------------------------------------------------
(* Costs and the history *)

\* TokenEstimator: a message has a cost of its own, a list of them one more.
MessageCost(item) == IF item.role # "tool" /\ long[item.turn] THEN 2 ELSE 1
Cost(items) == Cardinality(items) + Cardinality({x \in items : MessageCost(x) = 2})
ListOverhead == 1
SectionCost == 1

\* Items of a chat are in the order of their turns, and in a turn of their roles.
RoleOrder == [none |-> 0, user |-> 1, assistant |-> 2, tool |-> 3]
Before(a, b) == a.turn < b.turn \/ (a.turn = b.turn /\ RoleOrder[a.role] < RoleOrder[b.role])
Upto(items, x) == {y \in items : ~Before(x, y)}
From(items, x) == {y \in items : ~Before(y, x)}
Earliest(items) == CHOOSE x \in items : Upto(items, x) = {x}
Latest(items) == CHOOSE x \in items : From(items, x) = {x}

\* The messages of a completed turn and the results of its capabilities.
Exchange(k) ==
    {Item(k, role) : role \in {"user", "assistant"} \cup (IF pictured[k] THEN {"tool"} ELSE {})}

\* _load_context: completed earlier turns, in the order of the chat.
History(k) == UNION {Exchange(j) : j \in {j \in 1..(k - 1) : turn[j] = "completed"}}

\* _history_after_summary: all of it when the boundary is not there.
HistoryAfter(history, boundary) ==
    IF boundary \in history THEN {x \in history : Before(boundary, x)} ELSE history

-----------------------------------------------------------------------------
(* A turn is asked, starts and is compacted *)

\* _open_turn
Ask(lengthy) ==
    /\ Len(turn) < MaxTurns
    /\ turn' = Append(turn, "queued")
    /\ long' = Append(long, lengthy)
    /\ pictured' = Append(pictured, FALSE)
    /\ UNCHANGED <<checkpoint, folded, work, prompt>>

IsNext(k) ==
    /\ turn[k] = "queued"
    /\ \A j \in 1..(k - 1) : turn[j] \in Over

\* generate begins: the context is loaded.
Start(k) ==
    /\ IsNext(k)
    /\ turn' = [turn EXCEPT ![k] = "compacting"]
    /\ work' = [NoWork EXCEPT !.turn = k, !.history = History(k), !.summary = checkpoint]
    /\ UNCHANGED <<long, pictured, checkpoint, folded, prompt>>

Remaining == HistoryAfter(work.history, work.summary)
NeedsCompaction ==
    /\ ListOverhead + Cost(Remaining) > Threshold
    /\ Cardinality(Remaining) > Preserve

\* Those that are not among the latest, which are kept as they are.
Eligible == {x \in Remaining : Cardinality({y \in Remaining : Before(x, y)}) >= Preserve}

\* How far one summary reads, the first message whatever it costs.
Boundary ==
    LET start == IF work.summary = NoItem THEN 0 ELSE SectionCost
    IN Latest({x \in Eligible : \/ Upto(Eligible, x) = {x}
                               \/ start + Cost(Upto(Eligible, x)) <= ChunkBudget})
Chunk == Upto(Eligible, Boundary)

\* A checkpoint names the message it reaches: a key of the messages table.
IsMessage(item) == item.role \in {"user", "assistant"}

Ends(k, status) ==
    /\ turn' = [turn EXCEPT ![k] = status]
    /\ work' = NoWork
    /\ UNCHANGED <<long, pictured, checkpoint, folded, prompt>>

\* _summarize_chunk: a pass of _compact_if_needed that got its summary.  The
\* row is refused when its boundary is no message, and the turn fails with it.
Summarize(k) ==
    /\ turn[k] = "compacting" /\ NeedsCompaction
    /\ work.passes < MaxPasses /\ ~work.degraded
    /\ \/ /\ IsMessage(Boundary)
          /\ checkpoint' = Boundary
          /\ folded' = folded \cup Chunk
          /\ work' = [work EXCEPT !.summary = Boundary, !.passes = @ + 1]
          /\ UNCHANGED <<turn, long, pictured, prompt>>
       \/ ~IsMessage(Boundary) /\ Ends(k, "broken")

\* The task model gave no usable summary: the turn goes on without it.
SummaryFails(k) ==
    /\ turn[k] = "compacting" /\ NeedsCompaction
    /\ work.passes < MaxPasses /\ ~work.degraded
    /\ work' = [work EXCEPT !.degraded = TRUE]
    /\ UNCHANGED <<turn, long, pictured, checkpoint, folded, prompt>>

-----------------------------------------------------------------------------
(* The prompt *)

\* _DROPPABLE_ORDER
Yields == [summary |-> 1, memory |-> 2, lore |-> 3]

\* _optional_sections: what memory and lore have to say, and the summary.
OptionalSections ==
    {found \cup (IF work.summary = NoItem THEN {} ELSE {"summary"}) : found \in SUBSET {"memory", "lore"}}

\* What a prompt costs before its history.
Fixed(k, sections) ==
    ListOverhead + Instructions + MessageCost(Item(k, "user")) + SectionCost * Cardinality(sections)
Room(k, sections) == IF Fixed(k, sections) > Budget THEN 0 ELSE Budget - Fixed(k, sections)

\* _protect_history_floor: sections yield in order until history has its floor.
FloorSections(k, sections, history) ==
    LET kept(n) == {s \in sections : Yields[s] > n}
        enough == {kept(n) : n \in {n \in 0..3 : kept(n) = {} \/ history = {}
                                                \/ Budget >= Fixed(k, kept(n)) + Floor}}
    IN UNION enough

\* _select_history: whole exchanges, the newest first; if not even the newest
\* fits it is clipped.
SelectHistory(history, room) ==
    LET starts == {x \in history : x.role = "user" \/ Upto(history, x) = {x}}
        fits == {x \in starts : ListOverhead * Cardinality(From(starts, x)) + Cost(From(history, x)) <= room}
        newest == From(history, Latest(starts))
    IN IF history = {} \/ room = 0 THEN [items |-> {}, cost |-> 0]
       ELSE IF fits # {} THEN LET items == From(history, Earliest(fits)) IN [items |-> items, cost |-> Cost(items)]
       ELSE IF ListOverhead + Cardinality(newest) <= room THEN [items |-> newest, cost |-> Cardinality(newest)]
       ELSE [items |-> {}, cost |-> 0]

\* Variant: trusts the selection to be exact.
FitsTrusting(k, sections, selected) == TRUE

\* _fit_messages: with its sections the prompt fits, or the turn is refused.
Fits(k, sections, selected) == Fixed(k, sections) + selected.cost <= Budget

\* plan, after compaction.  Protected material that does not fit fails the turn.
Plan(k) ==
    /\ turn[k] = "compacting"
    /\ ~NeedsCompaction \/ work.passes = MaxPasses \/ work.degraded
    /\ \E wanted \in OptionalSections :
         LET sections == FloorSections(k, wanted, Remaining)
             selected == SelectHistory(Remaining, Room(k, sections))
         IN \/ /\ Fixed(k, {}) <= Budget
               /\ Fits(k, sections, selected)
               /\ prompt' = [turn |-> k, items |-> selected.items, sections |-> sections,
                             cost |-> Fixed(k, sections) + selected.cost]
               /\ turn' = [turn EXCEPT ![k] = "streaming"]
               /\ work' = NoWork
               /\ UNCHANGED <<long, pictured, checkpoint, folded>>
            \/ /\ Fixed(k, {}) > Budget \/ ~Fits(k, sections, selected)
               /\ Ends(k, "failed")

-----------------------------------------------------------------------------
(* The reply and what follows it *)

\* on_generated commits the reply; the provider may also fail.
Reply(k) ==
    /\ turn[k] = "streaming"
    /\ \E status \in {"completed", "failed"} : Ends(k, status)

CancelTurn(k) ==
    /\ turn[k] \in {"queued", "compacting", "streaming"}
    /\ turn' = [turn EXCEPT ![k] = "cancelled"]
    /\ work' = IF work.turn = k THEN NoWork ELSE work
    /\ UNCHANGED <<long, pictured, checkpoint, folded, prompt>>

\* on_planning of a completed turn, at any later time, adds a request to it.
PlanningEnds(k) ==
    /\ turn[k] = "completed" /\ ~pictured[k]
    /\ pictured' = [pictured EXCEPT ![k] = TRUE]
    /\ UNCHANGED <<turn, long, checkpoint, folded, work, prompt>>

TurnStep(k) ==
    \/ Start(k) \/ Summarize(k) \/ SummaryFails(k) \/ Plan(k) \/ Reply(k) \/ CancelTurn(k) \/ PlanningEnds(k)

ContextNext ==
    \/ \E lengthy \in BOOLEAN : Ask(lengthy)
    \/ \E k \in 1..Len(turn) : TurnStep(k)

ContextSpec == ContextInit /\ [][ContextNext]_contextVars

-----------------------------------------------------------------------------

\* What is sent never exceeds the prompt budget, whichever sections stayed and
\* however much history was left.
PromptFits == prompt.cost <= Budget

\* A checkpoint stands for everything said up to its boundary: no message of a
\* completed turn at or before it was left unread, over all passes and turns.
CheckpointReadsEverything ==
    \A k \in 1..Len(turn) : turn[k] = "completed" =>
        \A role \in {"user", "assistant"} :
            (Item(k, role) = checkpoint \/ Before(Item(k, role), checkpoint)) => Item(k, role) \in folded

\* Each checkpoint reaches further than the one before: compaction never
\* summarises the same messages again.
CheckpointsAdvance ==
    [][checkpoint' # checkpoint => Before(checkpoint, checkpoint')]_contextVars

\* docs/conversation-context.md: a turn whose compaction does not work out is
\* "marked degraded rather than failed".
CompactionNeverFailsATurn == \A k \in 1..Len(turn) : turn[k] # "broken"

\* Prompts that fit, and checkpoints that read what they stand for.
ContextInvariant == ContextTypeOK /\ PromptFits /\ CheckpointReadsEverything
=============================================================================
