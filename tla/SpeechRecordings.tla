-------------------------- MODULE SpeechRecordings --------------------------
(***************************************************************************)
(* app/speech_service.py: speech is read from a provider piece by piece, as  *)
(* long as somebody listens; a reading that ends becomes a file, then a row, *)
(* and the caller that stored it moves the oldest files of the hot directory *)
(* into the archive.  Every caller rotates on its own worker thread with     *)
(* the listing it made: two of them may move one file.  Where the two        *)
(* directories are two volumes, a move is a copy and then an unlink; any      *)
(* move may fail, the one that undoes another included, and leave a copy that *)
(* is cut short.                                                           *)
(***************************************************************************)
EXTENDS Naturals, Sequences, FiniteSets

CONSTANTS
    Speeches,          \* requests to speak
    HotLimit,          \* config.audio_hot_limit
    Crashes            \* whether the process may die

ASSUME SpeechAssumption == IsFiniteSet(Speeches) /\ HotLimit \in Nat /\ Crashes \in BOOLEAN

VARIABLES
    twoVolumes,        \* deployment: the archive is another volume
    speech,            \* speech[s]: where the call for s is, and its rotation
    abandoned,         \* tokens that were cancelled: nobody listens any more
    whole,             \* speeches whose audio was read to its end
    written,           \* files in the order of their modification times
    hot, archived,     \* files in either directory
    recordedIn,        \* recordedIn[s]: directory that local_path names
    expired,           \* archived files that retention removed
    stranded,          \* stranded[s]: what a move back that failed left of s in the hot directory
    disturbed          \* two callers stored or rotated at once, or the process died in one

speechVars == <<twoVolumes, speech, abandoned, whole, written, hot, archived, recordedIn, expired, stranded, disturbed>>

NoSpeech == [at |-> "none", files |-> {}]
Steps == {"none", "asked", "listening", "ended", "stored", "rotating", "copied", "moved", "undone", "done"}

SpeechTypeOK ==
    /\ speech \in [Speeches -> [at : Steps, files : SUBSET (DOMAIN written)]]
    /\ written \in Seq(Speeches)
    /\ abandoned \subseteq Speeches /\ whole \subseteq Speeches
    /\ hot \subseteq Speeches /\ archived \subseteq Speeches
    /\ recordedIn \in [Speeches -> {"none", "hot", "archive"}]
    /\ stranded \in [Speeches -> {"no", "nothing", "a copy"}]

SpeechInit ==
    /\ twoVolumes \in BOOLEAN
    /\ speech = [s \in Speeches |-> NoSpeech]
    /\ abandoned = {} /\ whole = {}
    /\ written = <<>> /\ hot = {} /\ archived = {}
    /\ recordedIn = [s \in Speeches |-> "none"]
    /\ expired = {} /\ stranded = [s \in Speeches |-> "no"] /\ disturbed = FALSE

Go(s, at) == speech' = [speech EXCEPT ![s].at = at]
UnchangedFiles == UNCHANGED <<twoVolumes, written, hot, archived, recordedIn, expired, stranded, disturbed>>

-----------------------------------------------------------------------------
(* Reading *)

\* _speech_plan: what the settings and the persona ask for.
Speak(s) ==
    /\ speech[s].at = "none"
    /\ Go(s, "asked")
    /\ UNCHANGED <<abandoned, whole>> /\ UnchangedFiles

\* _iter_cancellable looks whether somebody listens before every read.
LookForListener(s) ==
    /\ speech[s].at = "asked"
    /\ Go(s, IF s \in abandoned THEN "done" ELSE "listening")
    /\ UNCHANGED <<abandoned, whole>> /\ UnchangedFiles

\* The provider has no more pieces.
ReadToTheEnd(s) == whole' = whole \cup {s}

\* A piece, after which a suspended stream nobody pulls is gone; the end; or an error.
ReadPiece(s) ==
    /\ speech[s].at = "listening"
    /\ \/ (\E next \in {"asked", "done"} : Go(s, next)) /\ UNCHANGED whole
       \/ ReadToTheEnd(s) /\ Go(s, "ended")
    /\ UNCHANGED abandoned /\ UnchangedFiles

\* The browser goes away: the token is cancelled.
Abandon(s) ==
    /\ speech[s].at \notin {"none", "done"} /\ s \notin abandoned
    /\ abandoned' = abandoned \cup {s}
    /\ UNCHANGED <<speech, whole>> /\ UnchangedFiles

-----------------------------------------------------------------------------
(* Storing *)

\* write_artifact_atomic: the file is there whole, or it is not.
WriteFile(s) ==
    /\ speech[s].at = "ended"
    /\ \/ /\ hot' = hot \cup {s} /\ written' = Append(written, s)
          /\ Go(s, "stored")
       \/ Go(s, "done") /\ UNCHANGED <<hot, written>>
    /\ UNCHANGED <<twoVolumes, abandoned, whole, archived, recordedIn, expired, stranded, disturbed>>

Rotating(t) == speech[t].at \in {"stored", "rotating", "copied", "moved", "undone"}

\* add_audio names the path just written; then the files are listed.
AddRow(s) ==
    /\ speech[s].at = "stored"
    /\ recordedIn' = [recordedIn EXCEPT ![s] = "hot"]
    /\ speech' = [speech EXCEPT ![s] = [at |-> "rotating", files |-> {i \in DOMAIN written : written[i] \in hot}]]
    /\ disturbed' = (disturbed \/ \E t \in Speeches \ {s} : Rotating(t))
    /\ UNCHANGED <<twoVolumes, abandoned, whole, written, hot, archived, expired, stranded>>

-----------------------------------------------------------------------------
(* Rotation *)

OldestPlace(s) == CHOOSE i \in speech[s].files : \A j \in speech[s].files : i <= j
Oldest(s) == written[OldestPlace(s)]

\* The listing, not the directory, says whether there is more to move.  A move
\* that fails may leave the beginning of a copy.
MoveOldest(s) ==
    /\ speech[s].at = "rotating" /\ Cardinality(speech[s].files) > HotLimit
    /\ \/ /\ Oldest(s) \in hot /\ archived' = archived \cup {Oldest(s)}
          /\ \/ twoVolumes /\ Go(s, "copied") /\ UNCHANGED hot
             \/ ~twoVolumes /\ Go(s, "moved") /\ hot' = hot \ {Oldest(s)}
       \/ /\ Go(s, "undone") /\ UNCHANGED hot
          /\ archived' \in {archived, archived \cup ({Oldest(s)} \cap hot)}
    /\ UNCHANGED <<twoVolumes, abandoned, whole, written, recordedIn, expired, stranded, disturbed>>

UnlinkOldest(s) ==
    /\ speech[s].at = "copied"
    /\ \/ Oldest(s) \in hot /\ hot' = hot \ {Oldest(s)} /\ Go(s, "moved")
       \/ Go(s, "undone") /\ UNCHANGED hot
    /\ UNCHANGED <<twoVolumes, abandoned, whole, written, archived, recordedIn, expired, stranded, disturbed>>

\* audio_by_path: the row that still names the hot file.
Names(f) == recordedIn[f] = "hot"

\* The row follows the file; a write that fails undoes the move.
RepointRow(s) ==
    LET f == Oldest(s)
    IN /\ speech[s].at = "moved"
       /\ \/ /\ recordedIn' = IF Names(f) THEN [recordedIn EXCEPT ![f] = "archive"] ELSE recordedIn
             /\ speech' = [speech EXCEPT ![s] = [at |-> "rotating", files |-> @.files \ {OldestPlace(s)}]]
          \/ Go(s, "undone") /\ UNCHANGED recordedIn
       /\ UNCHANGED <<twoVolumes, abandoned, whole, written, hot, archived, expired, stranded, disturbed>>

\* Variant: what is in the archive is removed when a move fails.
MovedBackLosing(f) == archived' = archived \ {f} /\ UNCHANGED hot

\* A file that is in the archive only is moved back, and the rotation ends.
MovedBack(f) ==
    IF f \in archived \ hot
    THEN hot' = hot \cup {f} /\ archived' = archived \ {f}
    ELSE UNCHANGED <<hot, archived>>

\* The error of a move back is swallowed: the file stays in the archive, and
\* what was copied of it, all or a part, in the hot directory.
NotMovedBack(f) ==
    /\ f \in archived \ hot /\ UNCHANGED archived
    /\ \/ UNCHANGED hot /\ stranded' = [stranded EXCEPT ![f] = "nothing"]
       \/ hot' = hot \cup {f} /\ stranded' = [stranded EXCEPT ![f] = "a copy"]

UndoMove(s) ==
    /\ speech[s].at = "undone"
    /\ \/ MovedBack(Oldest(s)) /\ UNCHANGED stranded
       \/ NotMovedBack(Oldest(s))
    /\ Go(s, "done")
    /\ UNCHANGED <<twoVolumes, abandoned, whole, written, recordedIn, expired, disturbed>>

RotationEnds(s) ==
    /\ speech[s].at = "rotating" /\ Cardinality(speech[s].files) <= HotLimit
    /\ Go(s, "done")
    /\ UNCHANGED <<abandoned, whole>> /\ UnchangedFiles

-----------------------------------------------------------------------------

\* _prune_age, by the modification time of the recording.
Expire(f) ==
    /\ f \in archived /\ f \notin expired
    /\ archived' = archived \ {f} /\ expired' = expired \cup {f}
    /\ UNCHANGED <<twoVolumes, speech, abandoned, whole, written, hot, recordedIn, stranded, disturbed>>

\* The process dies; directories and rows stay as they are.
SpeechCrash ==
    /\ Crashes
    /\ \E s \in Speeches : speech[s].at \notin {"none", "done"}
    /\ speech' = [s \in Speeches |-> IF speech[s].at = "none" THEN speech[s] ELSE [NoSpeech EXCEPT !.at = "done"]]
    /\ disturbed' = (disturbed \/ \E s \in Speeches : Rotating(s))
    /\ UNCHANGED <<twoVolumes, abandoned, whole, written, hot, archived, recordedIn, expired, stranded>>

SpeechNext ==
    \/ \E s \in Speeches :
         \/ Speak(s) \/ LookForListener(s) \/ ReadPiece(s) \/ Abandon(s)
         \/ WriteFile(s) \/ AddRow(s)
         \/ MoveOldest(s) \/ UnlinkOldest(s) \/ RepointRow(s) \/ UndoMove(s) \/ RotationEnds(s)
         \/ Expire(s)
    \/ SpeechCrash

SpeechSpec == SpeechInit /\ [][SpeechNext]_speechVars

-----------------------------------------------------------------------------

InBetween(f) == \E s \in Speeches : speech[s].at \in {"moved", "undone"} /\ Oldest(s) = f

\* On one volume, rotation, its failures and overlaps, and a crash at any point
\* of them, lose no recording that a row names: it is in one of the directories
\* until retention removes it, and it is the whole of what the provider said.
\* On two volumes that takes rotations that do not overlap.  What a move back
\* that failed has copied may be cut short, and a later rotation would put it
\* in the place of the whole recording: of that one nothing is said.
RecordingsSurvive ==
    ~(twoVolumes /\ disturbed) =>
        \A s \in Speeches : recordedIn[s] # "none" /\ stranded[s] # "a copy" => s \in whole /\ s \in hot \cup archived \cup expired

\* A row whose rotation nothing disturbed names the directory its file is in,
\* whatever of a rotation fails but the move back.
RowsReplay ==
    ~disturbed => \A s \in Speeches : \/ recordedIn[s] = "none" \/ InBetween(s) \/ s \in expired
                                      \/ s \in (IF recordedIn[s] = "hot" THEN hot ELSE archived)
                                      \/ stranded[s] # "no"

\* docs/operations.md: moving a recording to the archive "updates its durable
\* protected replay path; replay remains available until retention expires it".
ReplayRemains == \A s \in Speeches : recordedIn[s] = "archive" => s \in archived \cup expired

\* Recordings that survive, in the directory their rows name.
SpeechInvariant == SpeechTypeOK /\ RecordingsSurvive /\ RowsReplay
=============================================================================
