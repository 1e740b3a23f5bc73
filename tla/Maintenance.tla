----------------------------- MODULE Maintenance -----------------------------
(***************************************************************************)
(* app/operations_service.py with ApplicationServices.start and stop: a pass *)
(* of the maintenance makes the dated copy of the database, keeps the newest *)
(* of them, and removes what is older than its retention.  It runs before    *)
(* the application serves anything, and then again and again on a thread.    *)
(* The process may die at any step and is started again.                     *)
(***************************************************************************)
EXTENDS Naturals, FiniteSets

CONSTANTS
    Days,              \* bound: 1 .. the last day looked at
    DailyLimit         \* config.daily_database_backup_limit, at least 1

ASSUME MaintenanceAssumption ==
    /\ Days = 1..Cardinality(Days) /\ 1 \in Days
    /\ DailyLimit \in Nat /\ DailyLimit > 0

VARIABLES
    service,           \* the process: "down", "starting" or "up"
    pass,              \* what the pass under way does next
    today, target,     \* the date, and the date the pass works for
    temporary,         \* the unpublished copy: "none", "partial" or "whole"
    copies,            \* copies[d]: the copy named for day d
    archiveFull,       \* whether a copy cannot be made on the archive volume
    overdue            \* whether something is older than its retention

maintenanceVars == <<service, pass, today, target, temporary, copies, archiveFull, overdue>>

Copied == {"none", "partial", "whole"}

MaintenanceTypeOK ==
    /\ service \in {"down", "starting", "up"}
    /\ pass \in {"waits", "asks", "copies", "verifies", "counts", "ages", "gone"}
    /\ today \in Days /\ target \in Days
    /\ temporary \in Copied /\ copies \in [Days -> Copied]
    /\ archiveFull \in BOOLEAN /\ overdue \in BOOLEAN

MaintenanceInit ==
    /\ service = "down" /\ pass = "gone"
    /\ today = 1 /\ target = 1
    /\ temporary = "none" /\ copies = [d \in Days |-> "none"]
    /\ archiveFull = FALSE /\ overdue = FALSE

-----------------------------------------------------------------------------
(* The process *)

\* start(): the first pass belongs to it.
StartService ==
    /\ service = "down"
    /\ service' = "starting" /\ pass' = "asks" /\ target' = today
    /\ UNCHANGED <<today, temporary, copies, archiveFull, overdue>>

\* The process dies, or is stopped before the join of its thread ends.
Dies ==
    /\ service # "down"
    /\ service' = "down" /\ pass' = "gone"
    /\ UNCHANGED <<today, target, temporary, copies, archiveFull, overdue>>

\* _maintenance_loop, after it waited.
Repeat ==
    /\ service = "up" /\ pass = "waits"
    /\ pass' = "asks" /\ target' = today
    /\ UNCHANGED <<service, today, temporary, copies, archiveFull, overdue>>

\* Variant: the loop does not survive a pass that fails.
FailedUncaught == service' = service /\ pass' = "gone"

\* A pass that raises: the loop logs it and waits; a start does not succeed.
Failed ==
    IF service = "starting" THEN service' = "down" /\ pass' = "gone"
    ELSE service' = service /\ pass' = "waits"

-----------------------------------------------------------------------------
(* startup_maintenance *)

Ask ==
    /\ pass = "asks"
    /\ pass' = IF copies[target] = "none" THEN "copies" ELSE "counts"
    /\ UNCHANGED <<service, today, target, temporary, copies, archiveFull, overdue>>

\* create_verified_backup removes what an earlier process left and copies anew.
CopyDatabase ==
    /\ pass = "copies"
    /\ temporary' = "partial" /\ pass' = "verifies"
    /\ UNCHANGED <<service, today, target, copies, archiveFull, overdue>>

\* The check was "ok": the copy takes its name at once.
Verifies == ~archiveFull /\ copies' = [copies EXCEPT ![target] = "whole"]

VerifyCopy ==
    /\ pass = "verifies"
    /\ \/ Verifies /\ pass' = "counts" /\ service' = service
       \/ archiveFull /\ Failed /\ UNCHANGED copies
    /\ temporary' = "none"
    /\ UNCHANGED <<today, target, archiveFull, overdue>>

\* _prune_count: as many newer copies are there.
SurplusCopy(d) == Cardinality({e \in Days : e > d /\ copies[e] # "none"}) >= DailyLimit

CountCopies ==
    /\ pass = "counts"
    /\ copies' = [d \in Days |-> IF SurplusCopy(d) THEN "none" ELSE copies[d]]
    /\ pass' = "ages"
    /\ UNCHANGED <<service, today, target, temporary, archiveFull, overdue>>

\* _prune_age over each directory, and the memories that were discarded: what
\* cannot be removed is logged.  A first pass leaves the application serving.
RemoveOverdue ==
    /\ pass = "ages"
    /\ overdue' = FALSE
    /\ pass' = "waits" /\ service' = "up"
    /\ UNCHANGED <<today, target, temporary, copies, archiveFull>>

-----------------------------------------------------------------------------
(* Time and the volume *)

NextDay ==
    /\ today + 1 \in Days /\ today' = today + 1
    /\ UNCHANGED <<service, pass, target, temporary, copies, archiveFull, overdue>>

GrowsOld ==
    /\ ~overdue /\ overdue' = TRUE
    /\ UNCHANGED <<service, pass, today, target, temporary, copies, archiveFull>>

VolumeFills ==
    /\ archiveFull' = ~archiveFull
    /\ UNCHANGED <<service, pass, today, target, temporary, copies, overdue>>

\* What the process does of itself: it is started, waits, and makes its passes.
ProcessStep ==
    \/ StartService \/ Repeat
    \/ Ask \/ CopyDatabase \/ VerifyCopy \/ CountCopies \/ RemoveOverdue

MaintenanceNext == ProcessStep \/ Dies \/ NextDay \/ GrowsOld \/ VolumeFills

\* The loop and the container's restart policy go on; nothing else is promised.
MaintenanceSpec ==
    MaintenanceInit /\ [][MaintenanceNext]_maintenanceVars /\ WF_maintenanceVars(ProcessStep)

-----------------------------------------------------------------------------

\* docs/operations.md: a copy that has its name was checked, whenever the
\* process died; and the newest copy there ever was is still there, or one newer.
CopiesAreWhole == \A d \in Days : copies[d] # "partial"
NewestCopyStays ==
    [][\A d \in Days : copies[d] = "whole" /\ (\A e \in Days : e > d => copies[e] = "none") => copies'[d] = "whole"]_maintenanceVars

\* operations_service.py, start(): retention is applied while the process runs.
Serves == <>[](service = "up")
RetentionIsApplied == Serves => (overdue ~> ~overdue)
\* The same of an archive volume that has room in the end.
RetentionResumes == <>[](service = "up" /\ ~archiveFull) => (overdue ~> ~overdue)

\* Copies that can be relied on, and a retention that comes back to its work.
MaintenanceHolds == [](MaintenanceTypeOK /\ CopiesAreWhole) /\ NewestCopyStays /\ RetentionResumes
=============================================================================
