------------------------- MODULE WorkspacesPersonas -------------------------
(***************************************************************************)
(* app/resource_service.py and app/conversation_service.py over              *)
(* app/repositories.py: the workspaces of an owner, a persona and the        *)
(* workspaces it is in, its avatar and its live memory, and a chat bound to   *)
(* both.  As in IdentityProfiles, a handler reads before it holds the write   *)
(* lock and writes the columns it changed: `pending' is a handler that has    *)
(* read and not committed; deleting a row takes along what refers to it.      *)
(***************************************************************************)
EXTENDS Naturals, FiniteSets

CONSTANTS
    Workspaces,
    Images             \* pictures behind the avatar addresses

ASSUME WorkspaceAssumption == IsFiniteSet(Workspaces) /\ "none" \notin Workspaces \cup Images

VARIABLES
    workspace,         \* workspaces that exist
    persona,           \* row of personas with its workspace links
    avatar,            \* [kind, image]: avatar_url, an outside address or the stored copy
    stored,            \* the image in the avatar directory
    pasted,            \* the image behind the address that was pasted last
    remembered,        \* whether a live memory is in the persona's scope
    chat,              \* row of chats
    pending,           \* the handler that has read its rows
    overlapped         \* whether a handler committed on rows another had changed

workspaceVars == <<workspace, persona, avatar, stored, pasted, remembered, chat, pending, overlapped>>

NoPersona == [state |-> "none", home |-> "none", links |-> {}]
NoChat == [state |-> "none", workspace |-> "none", persona |-> FALSE]
NoAvatar == [kind |-> "none", image |-> "none"]
NotPending == [op |-> "none", home |-> "none", links |-> {}, workspace |-> "none", persona |-> NoPersona]

WorkspaceTypeOK ==
    /\ workspace \subseteq Workspaces
    /\ persona \in [state : {"none", "live", "gone"}, home : Workspaces \cup {"none"}, links : SUBSET Workspaces]
    /\ chat \in [state : {"none", "live", "gone"}, workspace : Workspaces \cup {"none"}, persona : BOOLEAN]
    /\ avatar \in [kind : {"none", "address", "copy"}, image : Images \cup {"none"}]

WorkspaceInit ==
    /\ workspace = Workspaces
    /\ persona = NoPersona /\ chat = NoChat
    /\ avatar = NoAvatar /\ stored = "none" /\ pasted = "none"
    /\ remembered = FALSE
    /\ pending = NotPending /\ overlapped = FALSE

Alive == persona.state = "live"

-----------------------------------------------------------------------------
(* Workspaces *)

\* Deleting the row of w cascades to its links, and to the persona at home there.
WorkspaceGone(w) ==
    /\ workspace' = workspace \ {w}
    /\ persona' = IF Alive /\ persona.home = w
                  THEN [NoPersona EXCEPT !.state = "gone"] ELSE [persona EXCEPT !.links = @ \ {w}]
    /\ chat' = [chat EXCEPT !.workspace = IF @ = w THEN "none" ELSE @,
                            !.persona = @ /\ persona'.state = "live"]

\* Variant: chats are not counted.
EmptyOfPersonas(w) == w \notin persona.links

\* delete_workspace counts links and chats.
Empty(w) == w \notin persona.links /\ chat.workspace # w

DeleteWorkspace(w) ==
    /\ w \in workspace
    /\ \/ pending.op = "delete" /\ pending.workspace = w /\ pending' = NotPending
          /\ overlapped' = (overlapped \/ pending.persona # persona \/ ~Empty(w))
       \/ Empty(w) /\ UNCHANGED <<pending, overlapped>>
    /\ WorkspaceGone(w)
    /\ UNCHANGED <<avatar, stored, pasted, remembered>>

BeginDelete(w) ==
    /\ pending = NotPending /\ w \in workspace /\ Empty(w)
    /\ pending' = [NotPending EXCEPT !.op = "delete", !.workspace = w, !.persona = persona]
    /\ UNCHANGED <<workspace, persona, avatar, stored, pasted, remembered, chat, overlapped>>

-----------------------------------------------------------------------------
(* The persona *)

\* save_persona puts the primary workspace among the persona's.
WithHome(home, links) == links \cup {home}

BeginSave(home, links) ==
    /\ pending = NotPending
    /\ persona.state # "gone" /\ (Alive => persona.links # {}) /\ links \cup {home} \subseteq workspace
    /\ pending' = [op |-> "save", home |-> home, links |-> WithHome(home, links),
                   workspace |-> "none", persona |-> persona]
    /\ UNCHANGED <<workspace, persona, avatar, stored, pasted, remembered, chat, overlapped>>

\* A home that is the one read is not written; the links always are.
Saved(seen, home, links) ==
    persona' = [state |-> "live", home |-> IF home = seen.home THEN persona.home ELSE home, links |-> links]

\* A link to a workspace that went, or a persona that did, undoes the save.
SavePersona(home, links) ==
    /\ persona.state # "gone" /\ links \cup {home} \subseteq workspace
    /\ \/ /\ pending.op = "save" /\ pending.home = home /\ pending.links = links
          /\ pending.persona.state = persona.state
          /\ Saved(pending.persona, home, links)
          /\ overlapped' = (overlapped \/ pending.persona # persona)
          /\ pending' = NotPending
       \/ (Alive => persona.links # {}) /\ Saved(persona, home, WithHome(home, links)) /\ UNCHANGED <<pending, overlapped>>
    /\ UNCHANGED <<workspace, avatar, stored, pasted, remembered, chat>>

SaveUndone ==
    /\ pending.op = "save"
    /\ ~(pending.links \subseteq workspace) \/ pending.persona.state # persona.state
    /\ pending' = NotPending
    /\ UNCHANGED <<workspace, persona, avatar, stored, pasted, remembered, chat, overlapped>>

\* delete_persona archives the memories of its scope and unbinds its chats.
DeleteThePersona ==
    /\ Alive /\ persona.links # {}
    /\ persona' = [NoPersona EXCEPT !.state = "gone"]
    /\ remembered' = FALSE
    /\ chat' = [chat EXCEPT !.persona = FALSE]
    /\ UNCHANGED <<workspace, avatar, stored, pasted, pending, overlapped>>

\* create, propose or extraction put a memory in the persona's scope.
Remember ==
    /\ Alive /\ persona.links # {} /\ ~remembered
    /\ remembered' = TRUE
    /\ UNCHANGED <<workspace, persona, avatar, stored, pasted, chat, pending, overlapped>>

-----------------------------------------------------------------------------
(* Its avatar *)

\* The stored copy and its address.
Copied(image) == avatar' = [kind |-> "copy", image |-> image] /\ stored' = image

\* _adopt_avatar: the image is copied now, or its address is kept.
PasteAvatar(image) ==
    /\ Alive /\ persona.links # {}
    /\ pasted' = image
    /\ \/ Copied(image)
       \/ avatar' = [kind |-> "address", image |-> image] /\ UNCHANGED stored
    /\ UNCHANGED <<workspace, persona, remembered, chat, pending, overlapped>>

\* snapshot_pending_avatars: a stored file comes before a fetch.
SnapshotAvatar ==
    /\ Alive /\ avatar.kind = "address"
    /\ Copied(IF stored # "none" THEN stored ELSE avatar.image)
    /\ UNCHANGED <<workspace, persona, pasted, remembered, chat, pending, overlapped>>

-----------------------------------------------------------------------------
(* Chats *)

\* resolve_chat_binding: the workspace named, or the persona's own.
Binding(w, withPersona) ==
    LET bound == IF w = "none" /\ withPersona THEN persona.home ELSE w
    IN [state |-> "live", workspace |-> bound, persona |-> withPersona]

MayBind(b) ==
    /\ b.workspace \in workspace \cup {"none"}
    /\ b.persona => Alive /\ b.workspace \in persona.links

CreateChat(w, withPersona) ==
    /\ chat = NoChat
    /\ MayBind(Binding(w, withPersona))
    /\ chat' = Binding(w, withPersona)
    /\ UNCHANGED <<workspace, persona, avatar, stored, pasted, remembered, pending, overlapped>>

\* update_chat and create_turn: _reject_rebinding.
Rebinds(w) == (w = "none" \/ w = chat.workspace) /\ UNCHANGED chat

UpdateChat(w) ==
    /\ chat.state = "live" /\ Rebinds(w)
    /\ UNCHANGED <<workspace, persona, avatar, stored, pasted, remembered, pending, overlapped>>

DeleteTheChat ==
    /\ chat.state = "live"
    /\ chat' = [NoChat EXCEPT !.state = "gone"]
    /\ UNCHANGED <<workspace, persona, avatar, stored, pasted, remembered, pending, overlapped>>

WorkspaceNext ==
    \/ \E w \in Workspaces : DeleteWorkspace(w) \/ BeginDelete(w) \/ UpdateChat(w)
    \/ \E home \in Workspaces, links \in SUBSET Workspaces : BeginSave(home, links) \/ SavePersona(home, links)
    \/ SaveUndone \/ DeleteThePersona \/ Remember \/ SnapshotAvatar
    \/ \E image \in Images : PasteAvatar(image)
    \/ \E w \in Workspaces \cup {"none"}, withPersona \in BOOLEAN : CreateChat(w, withPersona)
    \/ DeleteTheChat

WorkspaceSpec == WorkspaceInit /\ [][WorkspaceNext]_workspaceVars

-----------------------------------------------------------------------------

\* While handlers do not overlap, a persona is at home in a workspace that is
\* one of its own, so that no workspace takes it along when it is deleted.
HomeIsLinked == Alive /\ ~overlapped => persona.home \in persona.links

\* ADR 0032, "A chat is bound to its workspace and persona at creation": no
\* handler, overlapped or not, moves a chat somewhere else.
ChatStaysBound ==
    [][chat.state = "live" /\ chat'.state = "live" =>
         /\ chat'.workspace \in {chat.workspace, "none"} /\ (chat'.persona => chat.persona)
         /\ (chat'.workspace # chat.workspace => overlapped')]_workspaceVars

\* docs/memory.md: "Deleting a workspace or persona archives its live memories".
LiveMemoriesHaveOwners == remembered => Alive

\* _adopt_avatar: "the pasted URL is kept so the background pass can keep
\* trying": the copy that is shown is of what was pasted last.
CopyIsOfThePasted == avatar.kind = "copy" => avatar.image = pasted

\* A persona at home in a place of its own, and a chat that stays where it is.
PlacesHold == [](WorkspaceTypeOK /\ HomeIsLinked) /\ ChatStaysBound
=============================================================================
