------------------------------ MODULE MC_Chats ------------------------------
(***************************************************************************)
(* One instance for what a chat is made of and leaves behind: memories       *)
(* (MemoryLifecycle), the prompt and its checkpoints (ConversationContext),  *)
(* what a persona says (PersonaOutput), the tasks run for it (TaskRuns), the *)
(* persona's places (WorkspacesPersonas), the recordings of replies          *)
(* (SpeechRecordings) and the archives of all this (BackupSnapshots).  A     *)
(* behaviour is about one of them: `part' says which, and the variables of   *)
(* the others stay as they are.                                              *)
(***************************************************************************)
EXTENDS MemoryLifecycle, ConversationContext, PersonaOutput, TaskRuns, WorkspacesPersonas,
        SpeechRecordings, BackupSnapshots, TLC

CONSTANTS t1, t2, r1, r2, s1, s2, a1, a2, w1, w2
VARIABLE part

\* Texts and calls of create_backup differ only in their names.
Alike == Permutations(Texts) \cup Permutations(Admins)

\* A recording and a picture, in directories that are walked in this order.
MCDirs == <<"audio", "images">>
MCDirOf == [f \in Artifacts |-> IF f = 1 THEN "audio" ELSE "images"]

chatsVars == <<memoryVars, contextVars, outputVars, taskVars, workspaceVars, speechVars, backupVars, part>>

ChatsInit ==
    /\ part \in {"memory", "context", "output", "tasks", "places", "speech", "backup"}
    /\ MemoryInit /\ ContextInit /\ OutputInit /\ TaskInit /\ WorkspaceInit /\ SpeechInit /\ BackupInit
    /\ part # "output" => guard = "none"
    /\ part # "speech" => ~twoVolumes

Rest(others) == UNCHANGED <<others, part>>

ChatsNext ==
    \/ /\ part = "memory" /\ MemoryNext
       /\ Rest(<<contextVars, outputVars, taskVars, workspaceVars, speechVars, backupVars>>)
    \/ /\ part = "context" /\ ContextNext
       /\ Rest(<<memoryVars, outputVars, taskVars, workspaceVars, speechVars, backupVars>>)
    \/ /\ part = "output" /\ OutputNext
       /\ Rest(<<memoryVars, contextVars, taskVars, workspaceVars, speechVars, backupVars>>)
    \/ /\ part = "tasks" /\ TaskNext
       /\ Rest(<<memoryVars, contextVars, outputVars, workspaceVars, speechVars, backupVars>>)
    \/ /\ part = "places" /\ WorkspaceNext
       /\ Rest(<<memoryVars, contextVars, outputVars, taskVars, speechVars, backupVars>>)
    \/ /\ part = "speech" /\ SpeechNext
       /\ Rest(<<memoryVars, contextVars, outputVars, taskVars, workspaceVars, backupVars>>)
    \/ /\ part = "backup" /\ BackupNext
       /\ Rest(<<memoryVars, contextVars, outputVars, taskVars, workspaceVars, speechVars>>)

ChatsSpec == ChatsInit /\ [][ChatsNext]_chatsVars

\* A chat stays where it is and its checkpoints only move on.
ChatsMoveOn == PlacesHold /\ CheckpointsAdvance
=============================================================================
