---------------------------- MODULE MediaLibrary ----------------------------
(***************************************************************************)
(* app/media_library_service.py: pictures kept with the scene that made     *)
(* them, so that a later request is answered with one at once.  The one     *)
(* media worker serves a request in separate units of work (find a picture, *)
(* then mark each picture it will send), while the owner adds and removes   *)
(* entries and new pictures push the oldest out.  An entry that is removed   *)
(* takes its history with it: the picture may be added by hand again, as one *)
(* nobody was sent and no chat made.  Which entry matches a scene best is    *)
(* left open.                                                               *)
(***************************************************************************)
EXTENDS Naturals, FiniteSets, Sequences

CONSTANTS
    Pictures,          \* media identities, numbered
    SetFrames,         \* those that are frames of one photo set, by frame index
    Entries,           \* library entries, numbered in the order they are added
    Chats,
    EntryLimit,        \* entry_limit
    SetFrameLimit      \* set_frame_limit

ASSUME LibraryAssumption ==
    /\ Pictures \subseteq Nat \ {0} /\ SetFrames \subseteq Pictures
    /\ Entries \subseteq Nat /\ IsFiniteSet(Entries)
    /\ EntryLimit \in Nat \ {0} /\ SetFrameLimit \in Nat \ {0}

VARIABLES
    entry,             \* entry[e]: the entry; what was removed is still to be seen here
    serving,           \* the request the media worker is answering
    sentTo,            \* sentTo[c]: entries whose pictures were sent into the chat, in order
    unmarked           \* entries that were sent once and could not be marked

libraryVars == <<entry, serving, sentTo, unmarked>>

NoServing == [chat |-> "none", found |-> <<>>]
NoRow == [state |-> "none", picture |-> 0, frame |-> FALSE, madeIn |-> "none", lastServed |-> "none"]

LibraryTypeOK ==
    /\ entry \in [Entries -> [state : {"none", "ready", "served", "retired", "removed"},
                              picture : Pictures \cup {0}, frame : BOOLEAN,
                              madeIn : Chats \cup {"none"}, lastServed : Chats \cup {"none"}]]
    /\ sentTo \in [Chats -> Seq(Entries)]
    /\ unmarked \subseteq Entries

LibraryInit ==
    /\ entry = [e \in Entries |-> NoRow]
    /\ serving = NoServing
    /\ sentTo = [c \in Chats |-> <<>>]
    /\ unmarked = {}

-----------------------------------------------------------------------------

Kept(e) == entry[e].state \in {"ready", "served", "retired"}
InUse(rows, e) == rows[e].state \in {"ready", "served"}

\* The newest entries up to the limit.
Newest(rows) ==
    {e \in Entries : InUse(rows, e) /\ Cardinality({f \in Entries : f > e /\ InUse(rows, f)}) < EntryLimit}

\* _enforce_limit: the others that were not retired are.
WithinLimit(rows) ==
    [e \in Entries |->
        IF InUse(rows, e) /\ e \notin Newest(rows) THEN [rows[e] EXCEPT !.state = "retired"] ELSE rows[e]]

IsNewEntry(e) == entry[e] = NoRow /\ \A f \in Entries : entry[f] = NoRow => e <= f

\* add_library_entry: a picture that is in the library gets no other row.
AddEntry(e, p, chat, frame) ==
    /\ IsNewEntry(e)
    /\ \A f \in Entries : Kept(f) => entry[f].picture # p
    /\ entry' = WithinLimit([entry EXCEPT ![e] =
                 [state |-> "ready", picture |-> p, frame |-> frame, madeIn |-> chat, lastServed |-> "none"]])
    /\ UNCHANGED <<serving, sentTo, unmarked>>

\* retain: once, when the picture has been made, by a chat or by nobody's request.
Retain(e, p, chat) ==
    /\ \A f \in Entries : entry[f].picture # p
    /\ p \in SetFrames => chat = "none"
    /\ AddEntry(e, p, chat, p \in SetFrames)

\* add_existing: any picture that is not in the library, as one of no chat and no set.
AddExisting(e, p) == AddEntry(e, p, "none", FALSE)

\* remove deletes the entry, with the chats it was made in and sent to.
RemoveFromLibrary(e) ==
    /\ Kept(e)
    /\ entry' = [entry EXCEPT ![e].state = "removed"]
    /\ UNCHANGED <<serving, sentTo, unmarked>>

-----------------------------------------------------------------------------
(* Serving *)

\* Neither a picture this chat saw last nor one it had made.
NewTo(chat, e) == chat \notin {entry[e].lastServed, entry[e].madeIn}

\* Variant: a picture that was served before may be found again.
ReadyAgain == {e \in Entries : InUse(entry, e)}

\* library_entries(state="ready")
Ready == {e \in Entries : entry[e].state = "ready"}

\* The loop ends when it has one frame less than the limit, but only after it
\* took one: with a limit of one a sibling is sent all the same.
SiblingLimit == IF SetFrameLimit > 1 THEN SetFrameLimit - 1 ELSE 1

\* The frames of the lowest indices, in their order.
FirstOf(frames) ==
    LET n == IF Cardinality(frames) < SiblingLimit THEN Cardinality(frames) ELSE SiblingLimit
        Before(e, f) == entry[e].picture < entry[f].picture
    IN {s \in [1..n -> frames] :
          /\ \A i, j \in 1..n : i < j => Before(s[i], s[j])
          /\ \A f \in frames : \A i \in 1..n : Before(f, s[i]) => \E j \in 1..n : s[j] = f}

\* _set_siblings: the other frames, whether they were served or not.
Siblings(best, chat) ==
    IF ~entry[best].frame THEN {<<>>}
    ELSE FirstOf({e \in Entries \ {best} : InUse(entry, e) /\ entry[e].frame /\ NewTo(chat, e)})

\* find_ready, with any eligible entry the best match.
FindReady(chat) ==
    /\ serving = NoServing
    /\ \E best \in Ready : \E siblings \in Siblings(best, chat) :
         /\ NewTo(chat, best)
         /\ serving' = [chat |-> chat, found |-> <<best>> \o siblings]
    /\ UNCHANGED <<entry, sentTo, unmarked>>

\* mark_served of the next entry found, which may have gone or cannot be marked;
\* its picture is sent all the same.
MarkServed ==
    /\ serving.found # <<>>
    /\ LET e == Head(serving.found)
           c == serving.chat
       IN /\ \/ /\ entry' = IF Kept(e) THEN [entry EXCEPT ![e].state = "served", ![e].lastServed = c] ELSE entry
                /\ UNCHANGED unmarked
             \/ unmarked' = unmarked \cup {e} /\ UNCHANGED entry
          /\ sentTo' = [sentTo EXCEPT ![c] = Append(@, e)]
          /\ serving' = IF Tail(serving.found) = <<>> THEN NoServing
                        ELSE [serving EXCEPT !.found = Tail(@)]

LibraryNext ==
    \/ \E e \in Entries, p \in Pictures :
         \/ \E chat \in Chats \cup {"none"} : Retain(e, p, chat)
         \/ AddExisting(e, p)
    \/ \E e \in Entries : RemoveFromLibrary(e)
    \/ \E c \in Chats : FindReady(c)
    \/ MarkServed

LibrarySpec == LibraryInit /\ [][LibraryNext]_libraryVars

-----------------------------------------------------------------------------

\* What may answer a request stays within the limit, though an entry can be
\* pushed out between being found and being marked.
ReadyWithinLimit == Cardinality({e \in Entries : entry[e].state = "ready"}) <= EntryLimit

\* A picture outside a set goes at most once over all the chats, and never to
\* the chat its entry was made in, whatever was added or removed in between:
\* unless the owner removed it and added it by hand again, or the library could
\* not note that it was sent.
SingleSentOnce ==
    \A c, d \in Chats : \A i \in 1..Len(sentTo[c]), j \in 1..Len(sentTo[d]) :
        LET e == sentTo[c][i]  f == sentTo[d][j]
        IN entry[e].picture = entry[f].picture /\ entry[e].picture \notin SetFrames =>
             /\ entry[e].madeIn # c
             /\ \/ c = d /\ i = j
                \/ e = f /\ e \in unmarked
                \/ e # f /\ ~(Kept(e) /\ Kept(f))

\* docs/media-catalog.md: "A picture is never served twice into the same
\* conversation".
NeverTwiceInAConversation ==
    \A c \in Chats : \A i, j \in 1..Len(sentTo[c]) :
        i # j => entry[sentTo[c][i]].picture # entry[sentTo[c][j]].picture

\* What the library keeps and sends.
LibraryInvariant == LibraryTypeOK /\ ReadyWithinLimit /\ SingleSentOnce
=============================================================================
