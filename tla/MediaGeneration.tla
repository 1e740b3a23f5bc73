--------------------------- MODULE MediaGeneration ---------------------------
(***************************************************************************)
(* app/media_service.py makes one picture for one capability request, in up *)
(* to MaxAttempts attempts when the comparison with a persona's reference   *)
(* may be repeated, and app/database.py recovers at startup what a crash    *)
(* interrupted.  Picture n is the one of attempt n; picture Retained came   *)
(* from the library.  The request, its attachment and its job change in one *)
(* transaction, so one status stands for the three.                         *)
(***************************************************************************)
EXTENDS Naturals, FiniteSets, FiniteSetsExt

CONSTANTS
    MaxAttempts,  \* max_generation_attempts of a plan with comparison retry
    MaxScore      \* bound: scores a comparison that fails may report

ASSUME MediaAssumption == MaxAttempts \in Nat \ {0} /\ MaxScore \in Nat \ {0}

VARIABLES
    wanted,       \* the plan: [planned, conditioning, policy, attempts]
    mediaStep,    \* where the generation is
    number,       \* number of the attempt
    attempt,      \* attempt[n]: [status, media, score]
    files,        \* pictures with a file in the image directory
    rows,         \* pictures with a row of media_files
    verdict,      \* history: verdict[n] of the comparison of picture n
    stop,         \* whether the cancellation token is set
    request,      \* status of the request, its attachment and its job
    shown,        \* [picture, claim] of the attachment
    found,        \* the picture and verdict the generation returns
    crashed       \* history: whether a crash ended the generation

attemptVars == <<number, attempt, verdict>>
storeVars == <<files, rows>>
outcomeVars == <<request, shown, crashed>>
mediaVars == <<wanted, mediaStep, attemptVars, storeVars, stop, outcomeVars, found>>

Attempts == 1..MaxAttempts
Retained == MaxAttempts + 1
NoPicture == 0
Pictures == Attempts \cup {Retained}
Verdicts == {"none", "passed", "failed", "unverified"}
AttemptStatuses == {"none", "running", "passed", "failed", "unverified", "error", "cancelled"}
NotShown == [picture |-> NoPicture, claim |-> "not_applicable"]

Plans ==
    [planned : BOOLEAN, conditioning : {"none", "unconditioned", "ready"},
     policy : {"block_claim", "show_unverified"}, attempts : Attempts]

\* A plan blocks a claim, and is compared and repeated, only if it is ready.
Compares == wanted.conditioning = "ready"
MayBeIncomplete == ~Compares \/ wanted.policy # "block_claim"
LastAttempt == IF Compares THEN wanted.attempts ELSE 1

MediaTypeOK ==
    /\ wanted \in Plans
    /\ mediaStep \in {"start", "attempt", "provider", "file", "row", "compare", "judge",
                      "result", "cancelled", "failed", "done"}
    /\ number \in Attempts
    /\ attempt \in [Attempts -> [status : AttemptStatuses, media : {NoPicture} \cup Attempts,
                                 score : 0..MaxScore]]
    /\ files \subseteq Pictures /\ rows \subseteq Pictures
    /\ verdict \in [Pictures -> Verdicts]
    /\ stop \in BOOLEAN /\ crashed \in BOOLEAN
    /\ request \in {"running", "completed", "failed", "cancelled"}
    /\ shown.picture \in {NoPicture} \cup Pictures
    /\ found.picture \in {NoPicture} \cup Pictures

MediaInit ==
    /\ wanted \in Plans
    /\ mediaStep = "start"
    /\ number = 1
    /\ attempt = [n \in Attempts |-> [status |-> "none", media |-> NoPicture, score |-> 0]]
    /\ files = {Retained} /\ rows = {Retained}
    /\ verdict = [n \in Pictures |-> "none"]
    /\ stop = FALSE
    /\ request = "running" /\ shown = NotShown /\ crashed = FALSE
    /\ found = [picture |-> NoPicture, verdict |-> "none"]

-----------------------------------------------------------------------------
(* The generation: each step ends with a commit or an effect on disk. *)

\* _finish_attempt: an attempt that has ended keeps its end.
FinishAttempt(n, status, media, score) ==
    attempt' = [attempt EXCEPT ![n] =
        IF @.status = "running" THEN [status |-> status, media |-> media, score |-> score] ELSE @]

\* The except clauses of _generate_image.
Raise(status) ==
    /\ FinishAttempt(number, status, NoPicture, 0)
    /\ mediaStep' = IF status = "cancelled" THEN "cancelled" ELSE "failed"

ReturnPicture(n, v) ==
    /\ found' = [picture |-> n, verdict |-> v]
    /\ mediaStep' = "result"

\* _serve_from_library, or the first attempt.
BeginGeneration ==
    /\ mediaStep = "start"
    /\ \/ ReturnPicture(Retained, "none")
       \/ mediaStep' = "attempt" /\ UNCHANGED found
    /\ UNCHANGED <<wanted, attemptVars, storeVars, stop, outcomeVars>>

\* The token is looked at before the attempt is recorded.
BeginAttempt ==
    /\ mediaStep = "attempt"
    /\ \/ stop /\ mediaStep' = "cancelled" /\ UNCHANGED attempt
       \/ /\ ~stop
          /\ mediaStep' = "provider"
          /\ attempt' = IF wanted.planned THEN [attempt EXCEPT ![number].status = "running"] ELSE attempt
    /\ UNCHANGED <<wanted, number, verdict, storeVars, stop, outcomeVars, found>>

\* _generate_image_artifact and _run_stages
CallProvider ==
    /\ mediaStep = "provider"
    /\ \/ mediaStep' = "file" /\ UNCHANGED attempt
       \/ Raise("error")
       \/ stop /\ Raise("cancelled")
    /\ UNCHANGED <<wanted, number, verdict, storeVars, stop, outcomeVars, found>>

\* _persist_image: the file first ...
WriteFile ==
    /\ mediaStep = "file"
    /\ \/ stop /\ Raise("cancelled") /\ UNCHANGED files
       \/ ~stop /\ Raise("error") /\ UNCHANGED files
       \/ ~stop /\ mediaStep' = "row" /\ files' = files \cup {number} /\ UNCHANGED attempt
    /\ UNCHANGED <<wanted, number, verdict, rows, stop, outcomeVars, found>>

\* ... then its row, unless it was cancelled meanwhile; what fails is unlinked.
AddRow ==
    /\ mediaStep = "row"
    /\ \/ /\ (stop /\ Raise("cancelled")) \/ (~stop /\ Raise("error"))
          /\ files' = files \ {number} /\ UNCHANGED rows
       \/ /\ ~stop
          /\ rows' = rows \cup {number}
          /\ mediaStep' = IF Compares THEN "compare" ELSE "judge"
          /\ UNCHANGED <<attempt, files>>
    /\ UNCHANGED <<wanted, number, verdict, stop, outcomeVars, found>>

\* validate_generated_media: whatever goes wrong but a cancellation is an
\* unverified picture.
Compare ==
    /\ mediaStep = "compare"
    /\ \/ stop /\ Raise("cancelled") /\ UNCHANGED verdict
       \/ /\ \E v \in {"passed", "failed", "unverified"} : verdict' = [verdict EXCEPT ![number] = v]
          /\ mediaStep' = "judge" /\ UNCHANGED attempt
    /\ UNCHANGED <<wanted, number, storeVars, stop, outcomeVars, found>>

Best(candidates, score) ==
    LET best == {n \in candidates : \A m \in candidates : score[n] >= score[m]} IN Min(best)

\* The attempt ends as the comparison says; a picture that failed is corrected
\* by a further attempt, or shown as unverified, or withheld.
Judge ==
    /\ mediaStep = "judge"
    /\ LET v == verdict[number] IN
        \E score \in IF v = "failed" THEN 1..MaxScore ELSE {MaxScore} :
            LET scores == [n \in Attempts |-> IF n = number THEN score ELSE attempt[n].score] IN
            /\ FinishAttempt(number, IF Compares THEN v ELSE "passed", number, score)
            /\ \/ v # "failed" /\ ReturnPicture(number, v) /\ UNCHANGED number
               \/ /\ v = "failed" /\ number < LastAttempt
                  /\ number' = number + 1 /\ mediaStep' = "attempt" /\ UNCHANGED found
               \/ /\ v = "failed" /\ number = LastAttempt /\ MayBeIncomplete
                  /\ LET n == Best(1..number, scores) IN ReturnPicture(n, verdict[n])
                  /\ UNCHANGED number
               \/ /\ v = "failed" /\ number = LastAttempt /\ ~MayBeIncomplete
                  /\ mediaStep' = "failed" /\ UNCHANGED <<number, found>>
    /\ UNCHANGED <<wanted, verdict, storeVars, stop, outcomeVars>>

-----------------------------------------------------------------------------
(* The end of the job *)

\* _identity_state of the result.
IdentityState(v) ==
    CASE wanted.conditioning = "none" -> "not_applicable"
      [] wanted.conditioning = "unconditioned" -> "unconditioned"
      [] OTHER -> IF v = "passed" THEN "verified" ELSE "unverified"

\* on_success, on_failure and on_cancel: nothing if the request has ended.
EndRequest ==
    /\ mediaStep \in {"result", "failed", "cancelled"}
    /\ mediaStep' = "done"
    /\ IF request # "running" THEN UNCHANGED <<request, shown>>
       ELSE /\ request' = IF mediaStep = "result" THEN "completed" ELSE mediaStep
            /\ shown' = IF mediaStep = "result"
                        THEN [picture |-> found.picture, claim |-> IdentityState(found.verdict)]
                        ELSE shown
    /\ UNCHANGED <<wanted, attemptVars, storeVars, stop, found, crashed>>

CancelRequest ==
    /\ request = "running"
    /\ request' = "cancelled" /\ stop' = TRUE
    /\ UNCHANGED <<wanted, mediaStep, attemptVars, storeVars, shown, crashed, found>>

-----------------------------------------------------------------------------
(* Startup after a crash *)

\* The attempts the query of _inflight_media_candidate accepts, best first.
Accepted(n) ==
    /\ attempt[n].media \in rows
    /\ \/ attempt[n].status \in {"passed", "unverified"}
       \/ MayBeIncomplete /\ attempt[n].status \in {"failed", "running"}

Rank(n) == CASE attempt[n].status = "passed" -> 3
             [] attempt[n].status = "unverified" -> 2
             [] attempt[n].status = "failed" -> 1
             [] OTHER -> 0

BestAttempt ==
    CHOOSE n \in {a \in Attempts : Accepted(a)} :
        \A m \in {a \in Attempts : Accepted(a)} \ {n} :
            \/ Rank(n) > Rank(m)
            \/ Rank(n) = Rank(m) /\ attempt[n].score > attempt[m].score
            \/ Rank(n) = Rank(m) /\ attempt[n].score = attempt[m].score /\ n > m

\* Without such an attempt, any picture of the plan may do, the newest first.
MayScan ==
    LET states == {attempt[n].status : n \in Attempts} \ {"none"} IN
    /\ MayBeIncomplete
    /\ states = {} \/ states \cap {"passed", "unverified", "running", "failed"} # {}

\* Variant: a picture whose attempt did not end is not looked for.
ScannedNever == {}

Scanned == {n \in rows \cap Attempts : n \in files}

\* [picture, claim] that is recovered, or NotShown.
Candidate ==
    IF ~wanted.planned THEN NotShown
    ELSE IF \E n \in Attempts : Accepted(n)
    THEN LET n == BestAttempt  s == attempt[n].status IN
         [picture |-> n,
          claim |-> CASE wanted.conditioning = "unconditioned" -> "unconditioned"
                      [] Compares /\ s = "passed" -> "verified"
                      [] Compares /\ s # "passed" -> "unverified"
                      [] OTHER -> "not_applicable"]
    ELSE IF MayScan /\ Scanned # {}
    THEN [picture |-> Max(Scanned),
          claim |-> CASE wanted.conditioning = "unconditioned" -> "unconditioned"
                      [] Compares -> "unverified"
                      [] OTHER -> "not_applicable"]
    ELSE NotShown

\* An attempt that still runs is closed with the recovered picture, or swept.
Closed(c, n) ==
    IF attempt[n].status # "running" THEN attempt[n]
    ELSE IF c # NotShown /\ ~\E a \in Attempts : Accepted(a)
    THEN [attempt[n] EXCEPT
            !.status = IF c.claim \in {"unverified", "unconditioned"} THEN "unverified" ELSE "passed",
            !.media = c.picture]
    ELSE [attempt[n] EXCEPT !.status = "error"]

CrashAndRecover ==
    /\ mediaStep # "done"
    /\ mediaStep' = "done" /\ stop' = FALSE
    /\ crashed' = TRUE
    /\ LET c == IF request = "running" THEN Candidate ELSE NotShown IN
        /\ request' = IF request # "running" THEN request
                      ELSE IF c = NotShown THEN "failed" ELSE "completed"
        /\ shown' = c
        /\ attempt' = [n \in Attempts |-> Closed(c, n)]
    /\ UNCHANGED <<wanted, number, verdict, storeVars, found>>

-----------------------------------------------------------------------------
GenerationStep ==
    \/ BeginGeneration \/ BeginAttempt \/ CallProvider \/ WriteFile \/ AddRow
    \/ Compare \/ Judge \/ EndRequest

MediaNext == GenerationStep \/ CancelRequest \/ CrashAndRecover
MediaSpec == MediaInit /\ [][MediaNext]_mediaVars
-----------------------------------------------------------------------------
(* Properties *)

\* The picture a chat shows exists on disk and in the table, what is said of
\* its resemblance is what the comparison found, and a picture that failed is
\* not shown where the policy withholds it, by the generation or by a recovery.
\* (_generate_image, _identity_state, _inflight_media_candidate)
ShownHonestly ==
    request = "completed" =>
        /\ shown.picture \in rows \cap files
        /\ shown.claim = "verified" => verdict[shown.picture] = "passed"
        /\ Compares /\ wanted.policy = "block_claim" => verdict[shown.picture] # "failed"
        /\ shown.claim = "unconditioned" <=> wanted.conditioning = "unconditioned"

\* A crash loses no picture the policy would have shown: a planned request it
\* failed has none, and no attempt is left running.  Nothing else leaves a
\* file without a row.
\* (_persist_image, _reconcile_inflight_generated_media, initialize_database)
NothingMadeIsLost ==
    mediaStep = "done" =>
        /\ \A n \in Attempts : attempt[n].status # "running"
        /\ crashed /\ request = "failed" /\ wanted.planned =>
                \A n \in rows \cap Attempts :
                    Compares /\ wanted.policy = "block_claim" /\ attempt[n].status \in {"failed", "error"}
        /\ rows \subseteq files
        /\ files # rows => crashed

\* What is kept of a generation and what is said of it.
MediaInvariant == MediaTypeOK /\ ShownHonestly /\ NothingMadeIsLost
=============================================================================
