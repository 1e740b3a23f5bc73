--------------------------- MODULE BackupSnapshots ---------------------------
(***************************************************************************)
(* app/storage.py, BackupStore.  Administrators make snapshots on worker      *)
(* threads of their own: each copies the database, walks the media           *)
(* directories one after the other while the program goes on writing and     *)
(* removing files, publishes its archive by a rename and prunes the oldest.   *)
(***************************************************************************)
EXTENDS Naturals, Sequences, FiniteSets, Functions

CONSTANTS
    Admins,            \* calls of create_backup
    Artifacts,         \* media files
    MediaDirs,         \* media_dirs, in the order they are walked
    DirOf,             \* DirOf[f]: the directory f is in
    SnapshotLimit      \* config.backup_snapshot_limit

ASSUME BackupAssumption ==
    /\ SnapshotLimit \in Nat
    /\ MediaDirs \in Seq(Range(MediaDirs)) /\ DirOf \in [Artifacts -> Range(MediaDirs)]

VARIABLES
    artifact,          \* artifact[f]: where f is in its life
    making,            \* making[a]: what the call of a has done
    closed,            \* archives in the order they were closed: their modification times
    fate               \* fate[a]: what became of the archive of a

backupVars == <<artifact, making, closed, fate>>

Lives == {"none", "file", "named", "unnamed", "gone"}
OnDisk(f) == artifact[f] \in {"file", "named", "unnamed"}

\* steady: what the copied database names and is still in its place.
NoSnapshot == [at |-> "none", media |-> FALSE, steady |-> {}, entries |-> {},
               dirs |-> <<>>, todo |-> {}, listing |-> {}]

BackupTypeOK ==
    /\ artifact \in [Artifacts -> Lives]
    /\ \A a \in Admins : /\ DOMAIN making[a] = DOMAIN NoSnapshot
                         /\ making[a].entries \subseteq Artifacts /\ making[a].listing \subseteq DOMAIN closed
    /\ closed \in Seq(Admins)
    /\ fate \in [Admins -> {"unmade", "published", "pruned", "deleted"}]

BackupInit ==
    /\ artifact = [f \in Artifacts |-> "none"]
    /\ making = [a \in Admins |-> NoSnapshot]
    /\ closed = <<>>
    /\ fate = [a \in Admins |-> "unmade"]

-----------------------------------------------------------------------------
(* The life of a media file *)

\* write_artifact_atomic, then the row; the row goes, then the file.
Matures(from, to) == <<from, to>> \in {<<"none", "file">>, <<"file", "named">>, <<"named", "unnamed">>}

ArtifactLives(f) ==
    /\ \E next \in Lives : Matures(artifact[f], next) /\ artifact' = [artifact EXCEPT ![f] = next]
    /\ UNCHANGED <<making, closed, fate>>

\* Unlinked after its row, or by retention, or moved out of the media directories.
Unlinked(f) ==
    /\ OnDisk(f)
    /\ artifact' = [artifact EXCEPT ![f] = "gone"]
    /\ making' = [a \in Admins |-> [making[a] EXCEPT !.steady = @ \ {f}]]
    /\ UNCHANGED <<closed, fate>>

-----------------------------------------------------------------------------
(* create_backup_snapshot *)

Doing(a, at) == making' = [making EXCEPT ![a].at = at]
EndCall(a, at) == making' = [making EXCEPT ![a] = [NoSnapshot EXCEPT !.at = at]]

\* Variant: the files are listed before the database is copied.
BeginSnapshotListing(a) ==
    /\ making[a].at = "none"
    /\ making' = [making EXCEPT ![a].at = "database", ![a].media = TRUE, ![a].todo = {f \in Artifacts : OnDisk(f)}]
    /\ UNCHANGED <<artifact, closed, fate>>

BeginSnapshot(a) ==
    /\ making[a].at = "none"
    /\ \E media \in BOOLEAN :
         making' = [making EXCEPT ![a].at = "database", ![a].media = media,
                                  ![a].dirs = IF media THEN MediaDirs ELSE <<>>]
    /\ UNCHANGED <<artifact, closed, fate>>

NamedFiles == {f \in Artifacts : artifact[f] = "named"}

\* sqlite_backup_to_path: what is committed now.
CopyDatabase(a) ==
    /\ making[a].at = "database"
    /\ making' = [making EXCEPT ![a].at = "walking", ![a].steady = NamedFiles]
    /\ UNCHANGED <<artifact, closed, fate>>

Listed(d) == {f \in Artifacts : DirOf[f] = d /\ OnDisk(f)}

\* rglob reads one directory at a time.
ReadDirectory(a) ==
    /\ making[a].at = "walking" /\ making[a].todo = {} /\ making[a].dirs # <<>>
    /\ making' = [making EXCEPT ![a].todo = Listed(Head(making[a].dirs)), ![a].dirs = Tail(@)]
    /\ UNCHANGED <<artifact, closed, fate>>

\* is_file() passes over a file that is gone; one that goes between that and
\* the write fails the whole snapshot, whose temporary archive is removed.
WriteEntry(a) ==
    /\ making[a].at = "walking"
    /\ \E f \in making[a].todo :
         \/ /\ OnDisk(f)
            /\ making' = [making EXCEPT ![a].todo = @ \ {f}, ![a].entries = @ \cup {f}]
         \/ /\ ~OnDisk(f)
            /\ \/ making' = [making EXCEPT ![a].todo = @ \ {f}]
               \/ EndCall(a, "failed")
    /\ UNCHANGED <<artifact, closed, fate>>

\* The manifest is the last entry; the archive keeps the time it was closed.
CloseArchive(a) ==
    /\ making[a].at = "walking" /\ making[a].todo = {} /\ making[a].dirs = <<>>
    /\ Doing(a, "closed")
    /\ closed' = Append(closed, a)
    /\ UNCHANGED <<artifact, fate>>

PublishArchive(a) ==
    /\ making[a].at = "closed"
    /\ Doing(a, "published")
    /\ fate' = [fate EXCEPT ![a] = "published"]
    /\ UNCHANGED <<artifact, closed>>

\* prune_backup_snapshots: what is there, the oldest first.  One that is deleted
\* before its time is read fails the call, whose own archive stays.
ListArchives(a) ==
    /\ making[a].at = "published"
    /\ \/ /\ making' = [making EXCEPT ![a].at = "pruning",
                                      ![a].listing = {i \in DOMAIN closed : fate[closed[i]] = "published"}]
          /\ UNCHANGED fate
       \/ /\ \E b \in Admins : fate[b] = "published" /\ fate' = [fate EXCEPT ![b] = "deleted"]
          /\ EndCall(a, "failed")
    /\ UNCHANGED <<artifact, closed>>

Surplus(listing) == Cardinality(listing) > SnapshotLimit
OldestArchive(listing) == CHOOSE i \in listing : \A j \in listing : i <= j

\* An archive that is gone already is only logged.
PruneArchive(a) ==
    LET i == OldestArchive(making[a].listing)
    IN /\ making[a].at = "pruning" /\ SnapshotLimit > 0 /\ Surplus(making[a].listing)
       /\ making' = [making EXCEPT ![a].listing = @ \ {i}]
       /\ fate' = IF fate[closed[i]] = "published" THEN [fate EXCEPT ![closed[i]] = "pruned"] ELSE fate
       /\ UNCHANGED <<artifact, closed>>

\* The metadata of the new archive: it may have been pruned by another call.
AnswerSnapshot(a) ==
    /\ making[a].at = "pruning"
    /\ SnapshotLimit = 0 \/ ~Surplus(making[a].listing)
    /\ EndCall(a, IF fate[a] = "published" THEN "made" ELSE "failed")
    /\ UNCHANGED <<artifact, closed, fate>>

\* A failed write or copy before the rename; the process dying: only temporary files are left.
FailSnapshot(a) ==
    /\ making[a].at \in {"database", "walking", "closed"}
    /\ EndCall(a, "failed")
    /\ UNCHANGED <<artifact, closed, fate>>

DeleteSnapshot(a) ==
    /\ fate[a] = "published"
    /\ fate' = [fate EXCEPT ![a] = "deleted"]
    /\ UNCHANGED <<artifact, making, closed>>

-----------------------------------------------------------------------------

BackupNext ==
    \/ \E f \in Artifacts : ArtifactLives(f) \/ Unlinked(f)
    \/ \E a \in Admins :
         \/ BeginSnapshot(a) \/ CopyDatabase(a) \/ ReadDirectory(a) \/ WriteEntry(a)
         \/ CloseArchive(a) \/ PublishArchive(a) \/ ListArchives(a) \/ PruneArchive(a)
         \/ AnswerSnapshot(a) \/ FailSnapshot(a) \/ DeleteSnapshot(a)

BackupSpec == BackupInit /\ [][BackupNext]_backupVars

-----------------------------------------------------------------------------

\* A published snapshot with media has every file that its own database names,
\* except those that were removed while it was made: what the walk meets
\* changes under it, and the database was copied before it began.
SnapshotIsWhole ==
    \A a \in Admins : fate[a] = "published" /\ making[a].media /\ making[a].at \in {"published", "pruning"}
                      => making[a].steady \subseteq making[a].entries

\* However many snapshots are made at once, and whatever is deleted meanwhile,
\* pruning only takes one that has as many newer ones as are to be kept.
PrunedWasOld ==
    \A a \in Admins : fate[a] = "pruned" =>
        \E i \in DOMAIN closed : closed[i] = a
            /\ Cardinality({j \in DOMAIN closed : j > i /\ fate[closed[j]] # "unmade"}) >= SnapshotLimit

\* Snapshots that are whole while they are new enough to be kept.
BackupInvariant == BackupTypeOK /\ SnapshotIsWhole /\ PrunedWasOld
=============================================================================
