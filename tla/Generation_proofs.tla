--------------------------- MODULE Generation_proofs ---------------------------
(***************************************************************************)
(* Theorems about what makes pictures without anybody waiting: one          *)
(* generation with its attempts and its recovery (MediaGeneration), its     *)
(* passes (StagedGeneration), and the daily copies (Maintenance), for every *)
(* number of attempts, photos, passes, workflows and days.                  *)
(***************************************************************************)
EXTENDS MediaGeneration, StagedGeneration, Maintenance, WellFoundedInduction, FiniteSetTheorems, SequenceTheorems, TLAPS

-----------------------------------------------------------------------------
(* Least and greatest numbers of a set, which choose a best attempt.        *)

Below(R, x, y) == <<x, y>> \in R

LEMMA LessThanIsWellFounded ==
    \E R : IsWellFoundedOn(R, Nat) /\ \A x, y \in Nat : Below(R, x, y) <=> x < y
<1>1. \A x, y \in Nat : <<x, y>> \in OpToRel(<, Nat) <=> x < y
  BY DEF OpToRel
<1> QED
  BY <1>1, NatLessThanWellFounded, Zenon DEF Below

LEMMA WellFoundedHasLeast ==
    ASSUME NEW R, NEW S, IsWellFoundedOn(R, S), NEW T, T \subseteq S, T # {}
    PROVE  \E x \in T : \A y \in T : ~Below(R, y, x)
BY WFMin, Zenon DEF Below

LEMMA HasLeast ==
    ASSUME NEW T, T \subseteq Nat, T # {}
    PROVE  \E x \in T : \A y \in T : x <= y
<1>1. PICK R : IsWellFoundedOn(R, Nat) /\ \A x, y \in Nat : Below(R, x, y) <=> x < y
  BY LessThanIsWellFounded
<1>2. \E x \in T : \A y \in T : ~Below(R, y, x)
  BY <1>1, WellFoundedHasLeast
<1> QED
  BY <1>1, <1>2

LEMMA HasGreatest ==
    ASSUME NEW bound \in Nat, NEW T, T \subseteq 0..bound, T # {}
    PROVE  \E x \in T : \A y \in T : y <= x
<1> DEFINE Rest == {bound - x : x \in T}
<1>0. ASSUME NEW x \in T PROVE bound - x \in Nat
  OBVIOUS
<1>1. Rest \subseteq Nat /\ Rest # {}
  BY <1>0
<1>2. PICK r \in Rest : \A y \in Rest : r <= y
  BY <1>1, HasLeast
<1>3. PICK x \in T : r = bound - x
  BY <1>2
<1>4. ASSUME NEW y \in T PROVE y <= x
  BY <1>2, <1>3
<1> QED
  BY <1>4

-----------------------------------------------------------------------------
(* One picture in several attempts.  The inductive invariant.               *)

\* The steps of an attempt that is recorded as running.
Working == {"provider", "file", "row", "compare", "judge"}

\* Attempts are made in order: the earlier ones have a picture that failed, the
\* later ones nothing.
AttemptsSoFar ==
    /\ number <= LastAttempt
    /\ \A n \in Attempts :
         /\ n < number => verdict[n] = "failed" /\ n \in rows
         /\ n > number => attempt[n].status = "none" /\ verdict[n] = "none" /\ n \notin rows

\* What the current attempt has, by its step.
StepInv ==
    /\ mediaStep \in {"start", "attempt"} => attempt[number].status = "none"
    /\ mediaStep \in {"start", "attempt", "provider", "file", "row"} => number \notin rows
    /\ mediaStep \in {"compare", "judge"} => number \in rows
    /\ mediaStep \in {"start", "attempt", "provider", "file", "row", "compare"} => verdict[number] = "none"
    /\ mediaStep = "compare" => Compares
    /\ mediaStep = "judge" => (Compares <=> verdict[number] # "none")
    /\ mediaStep \in Working => (wanted.planned <=> attempt[number].status = "running")

\* Only the picture being stored has a file without a row.
StoreInv ==
    /\ Retained \in rows /\ rows \subseteq files /\ verdict[Retained] = "none"
    /\ mediaStep # "done" => files = IF mediaStep = "row" THEN rows \cup {number} ELSE rows

\* What the row of an attempt says of its picture.
AttemptInv(n) ==
    LET a == attempt[n] IN
    /\ a.status = "running" => n = number /\ mediaStep \in Working
    /\ a.status \in {"none", "running", "error", "cancelled"} => a.media = NoPicture
    /\ a.status \in {"passed", "failed", "unverified"} =>
         a.media = n /\ n \in rows /\ (IF Compares THEN verdict[n] = a.status ELSE a.status = "passed")
    /\ a.status = "cancelled" => request = "cancelled"
    /\ a.status \in {"none", "error"} /\ wanted.planned => n \notin rows

AttemptsInv == mediaStep # "done" => \A n \in Attempts : AttemptInv(n)

\* The request ends with the generation, or was cancelled before.
RequestInv ==
    /\ mediaStep # "done" => request \in {"running", "cancelled"} /\ ~crashed
    /\ mediaStep = "done" => request # "running"
    /\ stop => request = "cancelled"
    /\ mediaStep = "cancelled" => request = "cancelled"

\* The picture the generation returns.
FoundInv ==
    mediaStep = "result" =>
        /\ found.picture \in rows /\ found.verdict = verdict[found.picture]
        /\ Compares /\ wanted.policy = "block_claim" => found.verdict # "failed"

MediaInv ==
    MediaTypeOK /\ AttemptsSoFar /\ StepInv /\ StoreInv /\ AttemptsInv /\ RequestInv /\ FoundInv
    /\ ShownHonestly /\ NothingMadeIsLost

\* Every part of the invariant, one per fact that an action may disturb.
PartsOfMedia == MediaTypeOK /\ AttemptsSoFar /\ StepInv /\ StoreInv /\ AttemptsInv /\ RequestInv /\ FoundInv

LEMMA FinishMoves ==
    ASSUME MediaTypeOK, NEW n \in Attempts, NEW status \in AttemptStatuses,
           NEW media \in {NoPicture} \cup Attempts, NEW score \in 0..MaxScore,
           FinishAttempt(n, status, media, score)
    PROVE  /\ attempt' \in [Attempts -> [status : AttemptStatuses, media : {NoPicture} \cup Attempts,
                                         score : 0..MaxScore]]
           /\ \A m \in Attempts : m # n => attempt'[m] = attempt[m]
           /\ attempt[n].status # "running" => attempt'[n] = attempt[n]
           /\ attempt[n].status = "running" =>
                attempt'[n].status = status /\ attempt'[n].media = media
BY DEF FinishAttempt, MediaTypeOK

LEMMA RaiseMoves ==
    ASSUME MediaTypeOK, NEW status \in {"error", "cancelled"}, Raise(status)
    PROVE  /\ attempt' \in [Attempts -> [status : AttemptStatuses, media : {NoPicture} \cup Attempts,
                                         score : 0..MaxScore]]
           /\ \A m \in Attempts : m # number => attempt'[m] = attempt[m]
           /\ attempt[number].status # "running" => attempt'[number] = attempt[number]
           /\ attempt[number].status = "running" =>
                attempt'[number].status = status /\ attempt'[number].media = NoPicture
           /\ mediaStep' = IF status = "cancelled" THEN "cancelled" ELSE "failed"
<1>1. number \in Attempts /\ status \in AttemptStatuses /\ 0 \in 0..MaxScore
  BY MediaAssumption DEF MediaTypeOK, AttemptStatuses
<1>3. FinishAttempt(number, status, NoPicture, 0)
  BY DEF Raise
<1>2. mediaStep' = IF status = "cancelled" THEN "cancelled" ELSE "failed"
  BY DEF Raise
<1> QED
  BY <1>1, <1>2, <1>3, FinishMoves

LEMMA MediaStart == MediaInit => MediaInv
<1> SUFFICES ASSUME MediaInit PROVE MediaInv
  OBVIOUS
<1> USE MediaAssumption
<1>1. MediaTypeOK
  <2>1. stop \in BOOLEAN /\ crashed \in BOOLEAN
    BY DEF MediaInit
  <2>2. attempt \in [Attempts -> [status : AttemptStatuses, media : {NoPicture} \cup Attempts,
                                 score : 0..MaxScore]]
    BY DEF MediaInit, AttemptStatuses
  <2>3. verdict \in [Pictures -> Verdicts] /\ files \subseteq Pictures /\ rows \subseteq Pictures
    BY DEF MediaInit, Verdicts, Pictures
  <2>4. number \in Attempts
    BY DEF MediaInit, Attempts
  <2>5. shown.picture \in {NoPicture} \cup Pictures /\ found.picture \in {NoPicture} \cup Pictures
    BY DEF MediaInit, NotShown
  <2>6. wanted \in Plans /\ mediaStep = "start" /\ request = "running"
    BY DEF MediaInit
  <2> QED
    BY <2>1, <2>2, <2>3, <2>4, <2>5, <2>6 DEF MediaTypeOK
<1>2. AttemptsSoFar /\ StepInv
  BY DEF MediaInit, AttemptsSoFar, StepInv, Attempts, LastAttempt, Plans, Retained, Working, Pictures
<1>3. StoreInv /\ AttemptsInv
  BY DEF MediaInit, StoreInv, AttemptsInv, AttemptInv, Attempts, Retained, Pictures
<1>4. RequestInv /\ FoundInv /\ ShownHonestly /\ NothingMadeIsLost
  BY DEF MediaInit, RequestInv, FoundInv, ShownHonestly, NothingMadeIsLost
<1> QED
  BY <1>1, <1>2, <1>3, <1>4 DEF MediaInv

\* What Judge may return is a picture that was made.
LEMMA BestIsOne ==
    ASSUME NEW last \in Attempts, NEW score \in [Attempts -> 0..MaxScore]
    PROVE  Best(1..last, score) \in 1..last
<1> USE MediaAssumption
<1> DEFINE Cands == 1..last
           Scores == {score[n] : n \in Cands}
           Bests == {n \in Cands : \A m \in Cands : score[n] >= score[m]}
<1>1. Cands \subseteq Attempts /\ 1 \in Cands
  BY DEF Attempts
<1>2. Scores \subseteq 0..MaxScore /\ Scores # {}
  BY <1>1
<1>3. PICK s \in Scores : \A y \in Scores : y <= s
  BY <1>2, HasGreatest
<1>4. PICK n \in Cands : s = score[n]
  BY <1>3
<1>5. n \in Bests
  BY <1>1, <1>3, <1>4
<1>6. Bests \subseteq Nat /\ Bests # {}
  BY <1>5
<1>7. PICK x \in Bests : \A y \in Bests : x <= y
  BY <1>6, HasLeast
<1>8. Min(Bests) \in Bests
  <2> HIDE DEF Bests
  <2> QED BY <1>7 DEF Min
<1>9. Best(Cands, score) = Min(Bests)
  BY DEF Best
<1> QED
  BY <1>8, <1>9

LEMMA BeginGenerationKeeps ==
    ASSUME MediaInv, BeginGeneration PROVE MediaInv'
<1> USE MediaAssumption DEF mediaVars, attemptVars, storeVars, outcomeVars
<1>1. MediaTypeOK'
  BY DEF MediaInv, BeginGeneration, MediaTypeOK, ReturnPicture, Attempts, Pictures, AttemptStatuses
<1>2. AttemptsSoFar'
  BY DEF MediaInv, BeginGeneration, AttemptsSoFar, ReturnPicture, LastAttempt, Compares, MediaTypeOK
<1>3. StepInv'
  BY DEF MediaInv, BeginGeneration, StepInv, ReturnPicture, Compares, Working, MediaTypeOK
<1>4. StoreInv'
  BY DEF MediaInv, BeginGeneration, StoreInv, ReturnPicture
<1>5. AttemptsInv'
  BY DEF MediaInv, BeginGeneration, AttemptsInv, AttemptInv, StepInv, ReturnPicture, Compares, Working, MediaTypeOK
<1>6. RequestInv' /\ ShownHonestly' /\ NothingMadeIsLost'
  BY DEF MediaInv, BeginGeneration, RequestInv, ReturnPicture, ShownHonestly, NothingMadeIsLost
<1>7. FoundInv'
  BY DEF MediaInv, BeginGeneration, FoundInv, StoreInv, ReturnPicture, Compares
<1> QED
  BY <1>1, <1>2, <1>3, <1>4, <1>5, <1>6, <1>7 DEF MediaInv

LEMMA CancelRequestKeeps ==
    ASSUME MediaInv, CancelRequest PROVE MediaInv'
<1> USE MediaAssumption DEF mediaVars, attemptVars, storeVars, outcomeVars
<1>1. MediaTypeOK'
  BY DEF MediaInv, CancelRequest, MediaTypeOK, ReturnPicture, Attempts, Pictures, AttemptStatuses
<1>2. AttemptsSoFar'
  BY DEF MediaInv, CancelRequest, AttemptsSoFar, ReturnPicture, LastAttempt, Compares, MediaTypeOK
<1>3. StepInv'
  BY DEF MediaInv, CancelRequest, StepInv, ReturnPicture, Compares, Working, MediaTypeOK
<1>4. StoreInv'
  BY DEF MediaInv, CancelRequest, StoreInv, ReturnPicture
<1>5. AttemptsInv'
  BY DEF MediaInv, CancelRequest, AttemptsInv, AttemptInv, StepInv, ReturnPicture, Compares, Working, MediaTypeOK
<1>6. RequestInv' /\ ShownHonestly' /\ NothingMadeIsLost'
  BY DEF MediaInv, CancelRequest, RequestInv, ReturnPicture, ShownHonestly, NothingMadeIsLost
<1>7. FoundInv'
  BY DEF MediaInv, CancelRequest, FoundInv, StoreInv, ReturnPicture, Compares
<1> QED
  BY <1>1, <1>2, <1>3, <1>4, <1>5, <1>6, <1>7 DEF MediaInv

LEMMA BeginAttemptKeeps ==
    ASSUME MediaInv, BeginAttempt PROVE MediaInv'
<1> USE MediaAssumption DEF mediaVars, attemptVars, storeVars, outcomeVars
<1>1. MediaTypeOK'
  <2>1. attempt' \in [Attempts -> [status : AttemptStatuses, media : {NoPicture} \cup Attempts,
                                  score : 0..MaxScore]]
    BY DEF MediaInv, BeginAttempt, MediaTypeOK, AttemptStatuses
  <2> QED
    BY <2>1 DEF MediaInv, BeginAttempt, MediaTypeOK
<1>2. AttemptsSoFar'
  BY DEF MediaInv, BeginAttempt, AttemptsSoFar, ReturnPicture, LastAttempt, Compares, MediaTypeOK
<1>3. StepInv'
  BY DEF MediaInv, BeginAttempt, StepInv, ReturnPicture, Compares, Working, MediaTypeOK
<1>4. StoreInv'
  BY DEF MediaInv, BeginAttempt, StoreInv, ReturnPicture
<1>5. AttemptsInv'
  BY DEF MediaInv, BeginAttempt, AttemptsInv, AttemptInv, StepInv, ReturnPicture, Compares, Working, MediaTypeOK
<1>6. RequestInv' /\ ShownHonestly' /\ NothingMadeIsLost'
  BY DEF MediaInv, BeginAttempt, RequestInv, ReturnPicture, ShownHonestly, NothingMadeIsLost
<1>7. FoundInv'
  BY DEF MediaInv, BeginAttempt, FoundInv, StoreInv, ReturnPicture, Compares
<1> QED
  BY <1>1, <1>2, <1>3, <1>4, <1>5, <1>6, <1>7 DEF MediaInv

LEMMA RaiseKeeps ==
    ASSUME MediaInv, NEW status \in {"error", "cancelled"}, Raise(status),
           mediaStep \in {"provider", "file", "row", "compare"},
           status = "cancelled" => stop, mediaStep = "compare" => status = "cancelled", files' = rows,
           UNCHANGED <<wanted, number, verdict, rows, stop, outcomeVars, found>>
    PROVE  MediaInv'
<1> USE MediaAssumption DEF mediaVars, attemptVars, storeVars, outcomeVars
<1>0. /\ attempt' \in [Attempts -> [status : AttemptStatuses, media : {NoPicture} \cup Attempts,
                                     score : 0..MaxScore]]
      /\ \A m \in Attempts : m # number => attempt'[m] = attempt[m]
      /\ attempt[number].status # "running" => attempt'[number] = attempt[number]
      /\ attempt[number].status = "running" =>
           attempt'[number].status = status /\ attempt'[number].media = NoPicture
      /\ mediaStep' = IF status = "cancelled" THEN "cancelled" ELSE "failed"
  BY RaiseMoves DEF MediaInv
<1>1. MediaTypeOK'
  BY <1>0 DEF MediaInv, MediaTypeOK
<1>2. AttemptsSoFar'
  BY <1>0 DEF MediaInv, AttemptsSoFar, ReturnPicture, LastAttempt, Compares, MediaTypeOK
<1>3. StepInv'
  BY <1>0 DEF MediaInv, StepInv, ReturnPicture, Compares, Working, MediaTypeOK
<1>4. StoreInv'
  BY <1>0 DEF MediaInv, StoreInv, ReturnPicture
<1>5. AttemptsInv'
  <2>1. SUFFICES ASSUME NEW n \in Attempts PROVE AttemptInv(n)'
    BY DEF AttemptsInv
  <2>2. AttemptInv(n) /\ mediaStep \in Working /\ Compares' = Compares
    BY DEF MediaInv, AttemptsInv, Working, Compares
  <2>3. CASE n # number
    BY <1>0, <2>2, <2>3 DEF AttemptInv, Working
  <2>4. CASE n = number
    <3>1. stop => request = "cancelled"
      BY DEF MediaInv, RequestInv
    <3>2. mediaStep # "compare" => n \notin rows
      BY <2>4 DEF MediaInv, StepInv
    <3> QED
      BY <1>0, <2>2, <2>4, <3>1, <3>2 DEF AttemptInv, Working
  <2> QED
    BY <2>3, <2>4
<1>6. RequestInv' /\ ShownHonestly' /\ NothingMadeIsLost'
  BY <1>0 DEF MediaInv, RequestInv, ReturnPicture, ShownHonestly, NothingMadeIsLost
<1>7. FoundInv'
  BY <1>0 DEF MediaInv, FoundInv, StoreInv, ReturnPicture, Compares
<1> QED
  BY <1>1, <1>2, <1>3, <1>4, <1>5, <1>6, <1>7 DEF MediaInv

LEMMA CallProviderKeeps ==
    ASSUME MediaInv, CallProvider PROVE MediaInv'
<1> USE MediaAssumption DEF mediaVars, attemptVars, storeVars, outcomeVars
<1>1. CASE mediaStep' \notin {"failed", "cancelled"}
  <2>1. MediaTypeOK'
    BY <1>1 DEF MediaInv, CallProvider, Raise, MediaTypeOK, ReturnPicture, Attempts, Pictures, AttemptStatuses
  <2>2. AttemptsSoFar'
    BY <1>1 DEF MediaInv, CallProvider, Raise, AttemptsSoFar, ReturnPicture, LastAttempt, Compares, MediaTypeOK
  <2>3. StepInv'
    BY <1>1 DEF MediaInv, CallProvider, Raise, StepInv, ReturnPicture, Compares, Working, MediaTypeOK
  <2>4. StoreInv'
    BY <1>1 DEF MediaInv, CallProvider, Raise, StoreInv, ReturnPicture
  <2>5. AttemptsInv'
    BY <1>1 DEF MediaInv, CallProvider, Raise, AttemptsInv, AttemptInv, StepInv, ReturnPicture, Compares, Working, MediaTypeOK
  <2>6. RequestInv' /\ ShownHonestly' /\ NothingMadeIsLost'
    BY <1>1 DEF MediaInv, CallProvider, Raise, RequestInv, ReturnPicture, ShownHonestly, NothingMadeIsLost
  <2>7. FoundInv'
    BY <1>1 DEF MediaInv, CallProvider, Raise, FoundInv, StoreInv, ReturnPicture, Compares
  <2> QED
    BY <2>1, <2>2, <2>3, <2>4, <2>5, <2>6, <2>7 DEF MediaInv
<1>2. CASE mediaStep' \in {"failed", "cancelled"}
  <2>1. PICK status \in {"error", "cancelled"} :
            Raise(status) /\ (status = "cancelled" => stop) /\ (mediaStep = "compare" => status = "cancelled")
    BY <1>2 DEF CallProvider
  <2>2. files' = rows
    BY <1>2 DEF CallProvider, MediaInv, StoreInv, StepInv
  <2>3. /\ mediaStep \in {"provider", "file", "row", "compare"}
        /\ UNCHANGED <<wanted, number, verdict, rows, stop, outcomeVars, found>>
    BY <1>2 DEF CallProvider
  <2> QED
    BY <2>1, <2>2, <2>3, RaiseKeeps
<1> QED
  BY <1>1, <1>2

LEMMA WriteFileKeeps ==
    ASSUME MediaInv, WriteFile PROVE MediaInv'
<1> USE MediaAssumption DEF mediaVars, attemptVars, storeVars, outcomeVars
<1>1. CASE mediaStep' \notin {"failed", "cancelled"}
  <2>1. MediaTypeOK'
    BY <1>1 DEF MediaInv, WriteFile, Raise, MediaTypeOK, ReturnPicture, Attempts, Pictures, AttemptStatuses
  <2>2. AttemptsSoFar'
    BY <1>1 DEF MediaInv, WriteFile, Raise, AttemptsSoFar, ReturnPicture, LastAttempt, Compares, MediaTypeOK
  <2>3. StepInv'
    BY <1>1 DEF MediaInv, WriteFile, Raise, StepInv, ReturnPicture, Compares, Working, MediaTypeOK
  <2>4. StoreInv'
    BY <1>1 DEF MediaInv, WriteFile, Raise, StoreInv, ReturnPicture
  <2>5. AttemptsInv'
    BY <1>1 DEF MediaInv, WriteFile, Raise, AttemptsInv, AttemptInv, StepInv, ReturnPicture, Compares, Working, MediaTypeOK
  <2>6. RequestInv' /\ ShownHonestly' /\ NothingMadeIsLost'
    BY <1>1 DEF MediaInv, WriteFile, Raise, RequestInv, ReturnPicture, ShownHonestly, NothingMadeIsLost
  <2>7. FoundInv'
    BY <1>1 DEF MediaInv, WriteFile, Raise, FoundInv, StoreInv, ReturnPicture, Compares
  <2> QED
    BY <2>1, <2>2, <2>3, <2>4, <2>5, <2>6, <2>7 DEF MediaInv
<1>2. CASE mediaStep' \in {"failed", "cancelled"}
  <2>1. PICK status \in {"error", "cancelled"} :
            Raise(status) /\ (status = "cancelled" => stop) /\ (mediaStep = "compare" => status = "cancelled")
    BY <1>2 DEF WriteFile
  <2>2. files' = rows
    BY <1>2 DEF WriteFile, MediaInv, StoreInv, StepInv
  <2>3. /\ mediaStep \in {"provider", "file", "row", "compare"}
        /\ UNCHANGED <<wanted, number, verdict, rows, stop, outcomeVars, found>>
    BY <1>2 DEF WriteFile
  <2> QED
    BY <2>1, <2>2, <2>3, RaiseKeeps
<1> QED
  BY <1>1, <1>2

LEMMA AddRowKeeps ==
    ASSUME MediaInv, AddRow PROVE MediaInv'
<1> USE MediaAssumption DEF mediaVars, attemptVars, storeVars, outcomeVars
<1>1. CASE mediaStep' \notin {"failed", "cancelled"}
  <2>1. MediaTypeOK'
    BY <1>1 DEF MediaInv, AddRow, Raise, MediaTypeOK, ReturnPicture, Attempts, Pictures, AttemptStatuses
  <2>2. AttemptsSoFar'
    BY <1>1 DEF MediaInv, AddRow, Raise, AttemptsSoFar, ReturnPicture, LastAttempt, Compares, MediaTypeOK
  <2>3. StepInv'
    BY <1>1 DEF MediaInv, AddRow, Raise, StepInv, ReturnPicture, Compares, Working, MediaTypeOK
  <2>4. StoreInv'
    BY <1>1 DEF MediaInv, AddRow, Raise, StoreInv, ReturnPicture
  <2>5. AttemptsInv'
    BY <1>1 DEF MediaInv, AddRow, Raise, AttemptsInv, AttemptInv, StepInv, ReturnPicture, Compares, Working, MediaTypeOK
  <2>6. RequestInv' /\ ShownHonestly' /\ NothingMadeIsLost'
    BY <1>1 DEF MediaInv, AddRow, Raise, RequestInv, ReturnPicture, ShownHonestly, NothingMadeIsLost
  <2>7. FoundInv'
    BY <1>1 DEF MediaInv, AddRow, Raise, FoundInv, StoreInv, ReturnPicture, Compares
  <2> QED
    BY <2>1, <2>2, <2>3, <2>4, <2>5, <2>6, <2>7 DEF MediaInv
<1>2. CASE mediaStep' \in {"failed", "cancelled"}
  <2>1. PICK status \in {"error", "cancelled"} :
            Raise(status) /\ (status = "cancelled" => stop) /\ (mediaStep = "compare" => status = "cancelled")
    BY <1>2 DEF AddRow
  <2>2. files' = rows
    BY <1>2 DEF AddRow, MediaInv, StoreInv, StepInv
  <2>3. /\ mediaStep \in {"provider", "file", "row", "compare"}
        /\ UNCHANGED <<wanted, number, verdict, rows, stop, outcomeVars, found>>
    BY <1>2 DEF AddRow
  <2> QED
    BY <2>1, <2>2, <2>3, RaiseKeeps
<1> QED
  BY <1>1, <1>2

LEMMA CompareKeeps ==
    ASSUME MediaInv, Compare PROVE MediaInv'
<1> USE MediaAssumption DEF mediaVars, attemptVars, storeVars, outcomeVars
<1>1. CASE mediaStep' \notin {"failed", "cancelled"}
  <2>0. /\ verdict' \in [Pictures -> Verdicts]
        /\ \A n \in Pictures : n # number => verdict'[n] = verdict[n]
        /\ verdict'[number] # "none"
        /\ \A n \in Attempts : n \in Pictures /\ n # Retained
        /\ Retained \in Pictures /\ number # Retained
    <3>1. PICK v \in {"passed", "failed", "unverified"} : verdict' = [verdict EXCEPT ![number] = v]
      BY <1>1 DEF Compare, Raise
    <3>2. verdict \in [Pictures -> Verdicts] /\ number \in Pictures /\ v \in Verdicts /\ v # "none"
      BY DEF MediaInv, MediaTypeOK, Verdicts, Pictures
    <3>4. number \in Attempts
      BY DEF MediaInv, MediaTypeOK
    <3>3. Retained \in Pictures /\ \A n \in Attempts : n \in Pictures /\ n # Retained
      BY DEF Attempts, Pictures, Retained
    <3> QED
      BY <3>1, <3>2, <3>3, <3>4
  <2>1. MediaTypeOK'
    BY <1>1, <2>0 DEF MediaInv, Compare, Raise, MediaTypeOK, ReturnPicture, Attempts, Pictures, AttemptStatuses
  <2>2. AttemptsSoFar'
    BY <1>1, <2>0 DEF MediaInv, Compare, Raise, AttemptsSoFar, ReturnPicture, LastAttempt, Compares, MediaTypeOK
  <2>3. StepInv'
    BY <1>1, <2>0 DEF MediaInv, Compare, Raise, StepInv, ReturnPicture, Compares, Working, MediaTypeOK
  <2>4. StoreInv'
    BY <1>1, <2>0 DEF MediaInv, Compare, Raise, StoreInv, ReturnPicture
  <2>5. AttemptsInv'
    BY <1>1, <2>0 DEF MediaInv, Compare, Raise, AttemptsInv, AttemptInv, StepInv, ReturnPicture, Compares, Working, MediaTypeOK
  <2>6. RequestInv' /\ ShownHonestly' /\ NothingMadeIsLost'
    BY <1>1, <2>0 DEF MediaInv, Compare, Raise, RequestInv, ReturnPicture, ShownHonestly, NothingMadeIsLost
  <2>7. FoundInv'
    BY <1>1, <2>0 DEF MediaInv, Compare, Raise, FoundInv, StoreInv, ReturnPicture, Compares
  <2> QED
    BY <2>1, <2>2, <2>3, <2>4, <2>5, <2>6, <2>7 DEF MediaInv
<1>2. CASE mediaStep' \in {"failed", "cancelled"}
  <2>1. PICK status \in {"error", "cancelled"} :
            Raise(status) /\ (status = "cancelled" => stop) /\ (mediaStep = "compare" => status = "cancelled")
    BY <1>2 DEF Compare
  <2>2. files' = rows
    BY <1>2 DEF Compare, MediaInv, StoreInv, StepInv
  <2>3. /\ mediaStep \in {"provider", "file", "row", "compare"}
        /\ UNCHANGED <<wanted, number, verdict, rows, stop, outcomeVars, found>>
    BY <1>2 DEF Compare
  <2> QED
    BY <2>1, <2>2, <2>3, RaiseKeeps
<1> QED
  BY <1>1, <1>2

LEMMA JudgeKeeps ==
    ASSUME MediaInv, Judge PROVE MediaInv'
<1> USE MediaAssumption DEF mediaVars, attemptVars, storeVars, outcomeVars
<1> DEFINE v == verdict[number]
           end == IF Compares THEN v ELSE "passed"
<1>1. PICK score \in 0..MaxScore :
          LET scores == [n \in Attempts |-> IF n = number THEN score ELSE attempt[n].score] IN
          /\ FinishAttempt(number, end, number, score)
          /\ \/ v # "failed" /\ ReturnPicture(number, v) /\ UNCHANGED number
             \/ /\ v = "failed" /\ number < LastAttempt
                /\ number' = number + 1 /\ mediaStep' = "attempt" /\ UNCHANGED found
             \/ /\ v = "failed" /\ number = LastAttempt /\ MayBeIncomplete
                /\ ReturnPicture(Best(1..number, scores), verdict[Best(1..number, scores)])
                /\ UNCHANGED number
             \/ /\ v = "failed" /\ number = LastAttempt /\ ~MayBeIncomplete
                /\ mediaStep' = "failed" /\ UNCHANGED <<number, found>>
  BY DEF Judge
<1>2. /\ number \in Attempts /\ number \in rows /\ v \in Verdicts /\ (v # "none" <=> Compares)
      /\ end \in {"passed", "failed", "unverified"}
      /\ wanted.planned <=> attempt[number].status = "running"
      /\ mediaStep = "judge" /\ UNCHANGED <<wanted, verdict, storeVars, stop, outcomeVars>>
  BY DEF Judge, MediaInv, MediaTypeOK, StepInv, Verdicts, Pictures, Working
<1>3. /\ attempt' \in [Attempts -> [status : AttemptStatuses, media : {NoPicture} \cup Attempts,
                                   score : 0..MaxScore]]
      /\ \A m \in Attempts : m # number => attempt'[m] = attempt[m]
      /\ attempt[number].status # "running" => attempt'[number] = attempt[number]
      /\ attempt[number].status = "running" =>
           attempt'[number].status = end /\ attempt'[number].media = number
  <2>1. MediaTypeOK /\ end \in AttemptStatuses /\ number \in {NoPicture} \cup Attempts
    BY <1>2 DEF MediaInv, AttemptStatuses
  <2> QED
    BY <1>1, <1>2, <2>1, FinishMoves
<1>4. Compares' = Compares /\ LastAttempt' = LastAttempt /\ LastAttempt \in Attempts
  BY <1>2 DEF Compares, LastAttempt, MediaInv, MediaTypeOK, Plans, Attempts
<1>5. \/ /\ mediaStep' = "result" /\ number' = number /\ found'.picture \in rows \cap Attempts
         /\ found'.verdict = verdict[found'.picture]
         /\ Compares /\ wanted.policy = "block_claim" => found'.verdict # "failed"
      \/ mediaStep' = "attempt" /\ number' = number + 1 /\ number < LastAttempt /\ v = "failed" /\ UNCHANGED found
      \/ mediaStep' = "failed" /\ UNCHANGED <<number, found>>
  <2> DEFINE scores == [n \in Attempts |-> IF n = number THEN score ELSE attempt[n].score]
             best == Best(1..number, scores)
  <2>1. scores \in [Attempts -> 0..MaxScore]
    BY DEF MediaInv, MediaTypeOK
  <2>2. best \in 1..number
    <3> HIDE DEF scores
    <3> QED BY <1>2, <2>1, BestIsOne
  <2>3. best \in Attempts /\ best <= number /\ best \in Nat /\ number \in Nat
    BY <1>2, <2>2 DEF Attempts
  <2>4. best \in rows
    BY <1>2, <2>3 DEF MediaInv, AttemptsSoFar
  <2> HIDE DEF best
  <2>5. CASE v # "failed" /\ ReturnPicture(number, v) /\ UNCHANGED number
    BY <1>2, <2>5 DEF ReturnPicture
  <2>6. CASE v = "failed" /\ MayBeIncomplete /\ ReturnPicture(best, verdict[best]) /\ UNCHANGED number
    BY <2>6, <2>3, <2>4 DEF ReturnPicture, MayBeIncomplete
  <2> QED
    BY <1>1, <2>5, <2>6 DEF best
<1> HIDE DEF end
<1>6. MediaTypeOK'
  <2>1. number' \in Attempts
    BY <1>2, <1>4, <1>5 DEF Attempts
  <2>2. found'.picture \in {NoPicture} \cup Pictures
    BY <1>5 DEF MediaInv, MediaTypeOK, Pictures
  <2> QED
    BY <1>2, <1>3, <1>5, <2>1, <2>2 DEF MediaInv, MediaTypeOK
<1>7. AttemptsSoFar'
  <2>1. CASE number' = number
    BY <1>2, <1>3, <1>4, <2>1 DEF MediaInv, AttemptsSoFar
  <2>2. CASE number' = number + 1 /\ number < LastAttempt /\ v = "failed"
    <3>1. number + 1 <= LastAttempt
      BY <1>2, <1>4, <2>2 DEF Attempts
    <3>2. ASSUME NEW n \in Attempts, n < number + 1 PROVE verdict[n] = "failed" /\ n \in rows
      <4>1. n < number \/ n = number
        BY <1>2, <3>2 DEF Attempts
      <4> QED
        BY <1>2, <2>2, <4>1 DEF MediaInv, AttemptsSoFar
    <3>3. ASSUME NEW n \in Attempts, n > number + 1
          PROVE  attempt'[n].status = "none" /\ verdict[n] = "none" /\ n \notin rows
      <4>1. n > number /\ n # number
        BY <1>2, <3>3 DEF Attempts
      <4> QED
        BY <1>3, <4>1 DEF MediaInv, AttemptsSoFar
    <3> QED
      BY <1>2, <1>4, <2>2, <3>1, <3>2, <3>3 DEF AttemptsSoFar
  <2> QED
    BY <1>5, <2>1, <2>2
<1>8. StepInv'
  <2>1. CASE mediaStep' \in {"result", "failed"}
    BY <2>1 DEF StepInv, Working
  <2>2. CASE mediaStep' = "attempt" /\ number' = number + 1 /\ number < LastAttempt
    <3>1. number + 1 \in Attempts /\ number + 1 > number
      BY <1>2, <1>4, <2>2 DEF Attempts
    <3>2. attempt[number + 1].status = "none" /\ verdict[number + 1] = "none" /\ number + 1 \notin rows
      BY <3>1 DEF MediaInv, AttemptsSoFar
    <3>3. attempt'[number + 1] = attempt[number + 1]
      BY <1>2, <1>3, <3>1 DEF Attempts
    <3> QED
      BY <1>2, <2>2, <3>2, <3>3 DEF StepInv, Working
  <2> QED
    BY <1>5, <2>1, <2>2
<1>9. StoreInv'
  BY <1>2, <1>5 DEF MediaInv, StoreInv
<1>10. AttemptsInv'
  <2>1. SUFFICES ASSUME NEW n \in Attempts PROVE AttemptInv(n)'
    BY DEF AttemptsInv
  <2>2. AttemptInv(n)
    BY <1>2 DEF MediaInv, AttemptsInv
  <2>3. mediaStep' \notin Working
    BY <1>5 DEF Working
  <2>4. attempt'[n].status # "running"
    BY <1>2, <1>3, <2>2 DEF AttemptInv
  <2>5. CASE n # number \/ attempt[number].status # "running"
    BY <1>2, <1>3, <1>4, <2>2, <2>4, <2>5 DEF AttemptInv
  <2>6. CASE n = number /\ attempt[number].status = "running"
    BY <1>2, <1>3, <1>4, <2>4, <2>6 DEF AttemptInv, end
  <2> QED
    BY <2>5, <2>6
<1>11. RequestInv' /\ ShownHonestly' /\ NothingMadeIsLost'
  BY <1>2, <1>5 DEF MediaInv, RequestInv, ShownHonestly, NothingMadeIsLost
<1>12. FoundInv'
  BY <1>2, <1>4, <1>5 DEF FoundInv
<1> QED
  BY <1>6, <1>7, <1>8, <1>9, <1>10, <1>11, <1>12 DEF MediaInv

LEMMA EndRequestKeeps ==
    ASSUME MediaInv, EndRequest PROVE MediaInv'
<1> USE MediaAssumption DEF mediaVars, attemptVars, storeVars, outcomeVars
<1>1. /\ mediaStep \in {"result", "failed", "cancelled"} /\ mediaStep' = "done"
      /\ UNCHANGED <<wanted, attemptVars, storeVars, stop, found, crashed>>
  BY DEF EndRequest
<1>2. MediaTypeOK' /\ AttemptsSoFar' /\ StepInv' /\ AttemptsInv' /\ RequestInv' /\ FoundInv'
  <2>1. MediaTypeOK'
    BY DEF EndRequest, MediaInv, MediaTypeOK
  <2>2. AttemptsSoFar' /\ StepInv' /\ AttemptsInv' /\ FoundInv'
    BY <1>1 DEF MediaInv, AttemptsSoFar, StepInv, AttemptsInv, FoundInv, LastAttempt, Compares, Working
  <2>3. RequestInv'
    BY DEF EndRequest, MediaInv, RequestInv
  <2> QED
    BY <2>1, <2>2, <2>3
<1>3. StoreInv'
  BY <1>1 DEF MediaInv, StoreInv
<1>4. ShownHonestly'
  <2>1. SUFFICES ASSUME request' = "completed" PROVE ShownHonestly'
    BY DEF ShownHonestly
  <2>2. /\ mediaStep = "result"
        /\ shown' = [picture |-> found.picture, claim |-> IdentityState(found.verdict)]
    BY <2>1 DEF EndRequest, MediaInv, RequestInv
  <2>3. /\ shown'.picture = found.picture /\ shown'.claim = IdentityState(found.verdict)
        /\ wanted.conditioning \in {"none", "unconditioned", "ready"}
    BY <2>2 DEF MediaInv, MediaTypeOK, Plans
  <2>4. /\ shown'.claim = "verified" => found.verdict = "passed"
        /\ shown'.claim = "unconditioned" <=> wanted.conditioning = "unconditioned"
    BY <2>3 DEF IdentityState
  <2> QED
    BY <1>1, <2>2, <2>3, <2>4 DEF ShownHonestly, MediaInv, FoundInv, StoreInv, Compares
<1>5. NothingMadeIsLost'
  BY <1>1 DEF MediaInv, StoreInv, NothingMadeIsLost, AttemptsInv, AttemptInv, RequestInv, Working
<1> QED
  BY <1>2, <1>3, <1>4, <1>5 DEF MediaInv

\* Where an attempt is accepted, the query of the recovery finds one.
LEMMA BestAttemptIsAccepted ==
    ASSUME MediaTypeOK, NEW some \in Attempts, Accepted(some)
    PROVE  BestAttempt \in Attempts /\ Accepted(BestAttempt)
<1> USE MediaAssumption
<1> DEFINE Cands == {a \in Attempts : Accepted(a)}
           Ranks == {Rank(n) : n \in Cands}
<1>1. \A n \in Attempts : Rank(n) \in 0..3 /\ attempt[n].score \in 0..MaxScore
  BY DEF Rank, MediaTypeOK
<1>2. Ranks \subseteq 0..3 /\ Ranks # {}
  BY <1>1
<1>3. PICK r \in Ranks : \A y \in Ranks : y <= r
  BY <1>2, HasGreatest
<1> DEFINE Ranked == {n \in Cands : Rank(n) = r}
           Scores == {attempt[n].score : n \in Ranked}
<1>4. Ranked # {} /\ Ranked \subseteq Attempts
  BY <1>3
<1>5. Scores \subseteq 0..MaxScore /\ Scores # {}
  BY <1>1, <1>4
<1>6. PICK s \in Scores : \A y \in Scores : y <= s
  BY <1>5, HasGreatest
<1> DEFINE Scored == {n \in Ranked : attempt[n].score = s}
<1>7. Scored # {} /\ Scored \subseteq 0..MaxAttempts
  BY <1>6 DEF Attempts
<1>8. PICK best \in Scored : \A y \in Scored : y <= best
  BY <1>7, HasGreatest
<1>9. best \in Cands /\ Rank(best) = r /\ attempt[best].score = s
  BY <1>8
<1>10. ASSUME NEW m \in Cands \ {best}
       PROVE  \/ Rank(best) > Rank(m)
              \/ Rank(best) = Rank(m) /\ attempt[best].score > attempt[m].score
              \/ Rank(best) = Rank(m) /\ attempt[best].score = attempt[m].score /\ best > m
  <2>1. Rank(m) \in Ranks /\ Rank(m) \in 0..3 /\ r \in 0..3 /\ attempt[m].score \in 0..MaxScore
    BY <1>1, <1>2, <1>3
  <2>2. Rank(m) <= r
    BY <1>3, <2>1
  <2>3. CASE Rank(m) = r
    <3>1. m \in Ranked /\ attempt[m].score \in Scores /\ s \in 0..MaxScore
      BY <1>5, <2>3
    <3>2. attempt[m].score <= s
      BY <1>6, <3>1
    <3>3. CASE attempt[m].score = s
      <4>1. m \in Scored /\ m <= best /\ m # best /\ m \in Nat /\ best \in Nat
        BY <1>7, <1>8, <3>1, <3>3
      <4> QED
        BY <1>9, <2>3, <3>3, <4>1
    <3> QED
      BY <1>9, <2>1, <2>3, <3>1, <3>2, <3>3
  <2> QED
    BY <1>9, <2>1, <2>2, <2>3
<1>11. BestAttempt \in Cands
  <2> HIDE DEF Cands
  <2>1. \E n \in Cands : \A m \in Cands \ {n} :
            \/ Rank(n) > Rank(m)
            \/ Rank(n) = Rank(m) /\ attempt[n].score > attempt[m].score
            \/ Rank(n) = Rank(m) /\ attempt[n].score = attempt[m].score /\ n > m
    BY <1>9, <1>10
  <2>2. BestAttempt = CHOOSE n \in Cands : \A m \in Cands \ {n} :
            \/ Rank(n) > Rank(m)
            \/ Rank(n) = Rank(m) /\ attempt[n].score > attempt[m].score
            \/ Rank(n) = Rank(m) /\ attempt[n].score = attempt[m].score /\ n > m
    BY DEF BestAttempt, Cands
  <2> QED
    BY <2>1, <2>2, Zenon
<1> QED
  BY <1>11

LEMMA ScanFindsOne ==
    ASSUME MediaTypeOK, Scanned # {}
    PROVE  Max(Scanned) \in Scanned
<1>1. Scanned \subseteq 0..MaxAttempts
  BY MediaAssumption DEF Scanned, Attempts
<1>2. \E x \in Scanned : \A y \in Scanned : y <= x
  BY <1>1, HasGreatest, MediaAssumption
<1>3. \E x \in Scanned : \A y \in Scanned : x >= y
  BY <1>1, <1>2
<1> QED
  BY <1>3, Zenon DEF Max

\* What the recovery attaches was made, was not found to fail where that must
\* not be shown, and is claimed to be what it is.
LEMMA CandidateIsHonest ==
    ASSUME MediaInv, mediaStep # "done", Candidate # NotShown
    PROVE  /\ Candidate.picture \in rows \cap files \cap Attempts
           /\ Candidate.claim = "verified" => verdict[Candidate.picture] = "passed"
           /\ Compares /\ wanted.policy = "block_claim" => verdict[Candidate.picture] # "failed"
           /\ Candidate.claim = "unconditioned" <=> wanted.conditioning = "unconditioned"
<1> USE MediaAssumption
<1>1. wanted.planned /\ rows \subseteq files /\ wanted.conditioning \in {"none", "unconditioned", "ready"}
  BY DEF Candidate, MediaInv, MediaTypeOK, StoreInv, Plans
<1>2. CASE \E n \in Attempts : Accepted(n)
  <2> DEFINE best == BestAttempt
  <2>1. best \in Attempts /\ Accepted(best)
    BY <1>2, BestAttemptIsAccepted DEF MediaInv
  <2>2. Candidate = [picture |-> best,
                     claim |-> CASE wanted.conditioning = "unconditioned" -> "unconditioned"
                                 [] Compares /\ attempt[best].status = "passed" -> "verified"
                                 [] Compares /\ attempt[best].status # "passed" -> "unverified"
                                 [] OTHER -> "not_applicable"]
    BY <1>1, <1>2 DEF Candidate
  <2> HIDE DEF best
  <2>3. AttemptInv(best) /\ NoPicture \notin rows
    BY <2>1 DEF MediaInv, AttemptsInv, MediaTypeOK, Pictures, Attempts, Retained, NoPicture
  <2>4. /\ best \in rows /\ attempt[best].status \in {"passed", "unverified", "failed"}
        /\ attempt[best].status = "failed" => MayBeIncomplete
        /\ Compares => verdict[best] = attempt[best].status
    BY <2>1, <2>3 DEF Accepted, AttemptInv
  <2>5. Candidate.picture = best
    BY <2>2
  <2>6. /\ Candidate.claim = "verified" => Compares /\ attempt[best].status = "passed"
        /\ Candidate.claim = "unconditioned" <=> wanted.conditioning = "unconditioned"
    BY <2>2 DEF Compares
  <2> QED
    BY <1>1, <2>1, <2>4, <2>5, <2>6 DEF MayBeIncomplete
<1>3. CASE ~\E n \in Attempts : Accepted(n)
  <2> DEFINE last == Max(Scanned)
  <2>1. MayScan /\ Scanned # {}
    BY <1>1, <1>3 DEF Candidate
  <2>2. last \in Scanned
    BY <2>1, ScanFindsOne DEF MediaInv
  <2>3. Candidate = [picture |-> last,
                     claim |-> CASE wanted.conditioning = "unconditioned" -> "unconditioned"
                                 [] Compares -> "unverified"
                                 [] OTHER -> "not_applicable"]
    BY <1>1, <1>3, <2>1 DEF Candidate
  <2> HIDE DEF last
  <2>4. Candidate.picture = last
    BY <2>3
  <2>5. /\ Candidate.claim # "verified"
        /\ Candidate.claim = "unconditioned" <=> wanted.conditioning = "unconditioned"
    BY <2>3 DEF Compares
  <2>6. MayBeIncomplete
    BY <2>1 DEF MayScan
  <2> QED
    BY <2>2, <2>4, <2>5, <2>6 DEF Scanned, MayBeIncomplete
<1> QED
  BY <1>2, <1>3

\* Without a candidate there is no picture but one that must not be shown.
LEMMA NoCandidateNoPicture ==
    ASSUME MediaInv, mediaStep # "done", Candidate = NotShown, wanted.planned, request = "running",
           NEW n \in rows \cap Attempts
    PROVE  ~MayBeIncomplete /\ attempt[n].status \in {"failed", "running"}
<1> USE MediaAssumption
<1>1. AttemptInv(n) /\ n \in files /\ attempt[n].status \in AttemptStatuses
  BY DEF MediaInv, AttemptsInv, StoreInv, MediaTypeOK
<1>2. ~\E a \in Attempts : Accepted(a)
  <2>1. SUFFICES ASSUME \E a \in Attempts : Accepted(a) PROVE FALSE
    OBVIOUS
  <2>2. BestAttempt \in Attempts
    BY <2>1, BestAttemptIsAccepted DEF MediaInv
  <2>3. Candidate.picture = BestAttempt
    BY <2>1 DEF Candidate
  <2> QED
    BY <2>2, <2>3 DEF NotShown, NoPicture, Attempts
<1>3. ~(MayScan /\ Scanned # {})
  <2>1. SUFFICES ASSUME MayScan, Scanned # {} PROVE FALSE
    OBVIOUS
  <2>2. Max(Scanned) \in Attempts
    BY <2>1, ScanFindsOne DEF MediaInv, Scanned
  <2>3. Candidate.picture = Max(Scanned)
    BY <1>2, <2>1 DEF Candidate
  <2> QED
    BY <2>2, <2>3 DEF NotShown, NoPicture, Attempts
<1>4. attempt[n].status \in {"failed", "running", "passed", "unverified"}
  BY <1>1 DEF AttemptInv, AttemptStatuses
<1>5. attempt[n].status \notin {"passed", "unverified"}
  BY <1>1, <1>2 DEF AttemptInv, Accepted
<1>6. MayBeIncomplete => FALSE
  <2>1. SUFFICES ASSUME MayBeIncomplete PROVE FALSE
    OBVIOUS
  <2>2. attempt[n].status # "failed"
    BY <1>1, <1>2, <2>1 DEF AttemptInv, Accepted
  <2>3. attempt[n].status = "running"
    BY <1>4, <1>5, <2>2
  <2>4. "running" \in {attempt[m].status : m \in Attempts} \ {"none"}
    BY <2>3
  <2>5. MayScan
    BY <2>1, <2>4 DEF MayScan
  <2> QED
    BY <1>1, <1>3, <2>5 DEF Scanned
<1> QED
  BY <1>4, <1>5, <1>6

LEMMA CrashKeeps ==
    ASSUME MediaInv, CrashAndRecover PROVE MediaInv'
<1> USE MediaAssumption DEF mediaVars, attemptVars, storeVars, outcomeVars
<1> DEFINE c == IF request = "running" THEN Candidate ELSE NotShown
<1>1. /\ mediaStep # "done" /\ mediaStep' = "done" /\ stop' = FALSE /\ crashed' = TRUE
      /\ request' = IF request # "running" THEN request ELSE IF c = NotShown THEN "failed" ELSE "completed"
      /\ shown' = c /\ attempt' = [n \in Attempts |-> Closed(c, n)]
      /\ UNCHANGED <<wanted, number, verdict, storeVars, found>>
  BY DEF CrashAndRecover
<1>2. c # NotShown =>
        /\ request = "running" /\ c.picture \in rows \cap files \cap Attempts
        /\ c.claim = "verified" => verdict[c.picture] = "passed"
        /\ Compares /\ wanted.policy = "block_claim" => verdict[c.picture] # "failed"
        /\ c.claim = "unconditioned" <=> wanted.conditioning = "unconditioned"
  BY <1>1, CandidateIsHonest
<1>3. ASSUME NEW n \in rows \cap Attempts, c = NotShown, request = "running", wanted.planned
      PROVE  ~MayBeIncomplete /\ attempt[n].status \in {"failed", "running"}
  BY <1>1, <1>3, NoCandidateNoPicture
<1> HIDE DEF c
<1>4. \A n \in Attempts :
        /\ attempt'[n] \in [status : AttemptStatuses, media : {NoPicture} \cup Attempts, score : 0..MaxScore]
        /\ attempt'[n].status # "running"
        /\ attempt[n].status # "running" => attempt'[n] = attempt[n]
        /\ attempt[n].status = "running" /\ c = NotShown => attempt'[n].status = "error"
  <2>1. SUFFICES ASSUME NEW n \in Attempts
                 PROVE  /\ Closed(c, n) \in [status : AttemptStatuses, media : {NoPicture} \cup Attempts,
                                            score : 0..MaxScore]
                        /\ Closed(c, n).status # "running"
                        /\ attempt[n].status # "running" => Closed(c, n) = attempt[n]
                        /\ attempt[n].status = "running" /\ c = NotShown => Closed(c, n).status = "error"
    BY <1>1
  <2>2. attempt[n] \in [status : AttemptStatuses, media : {NoPicture} \cup Attempts, score : 0..MaxScore]
    BY DEF MediaInv, MediaTypeOK
  <2> QED
    BY <1>2, <2>2 DEF Closed, AttemptStatuses
<1>5. MediaTypeOK'
  <2>1. shown'.picture \in {NoPicture} \cup Pictures
    BY <1>1, <1>2 DEF NotShown, Pictures
  <2>2. attempt' \in [Attempts -> [status : AttemptStatuses, media : {NoPicture} \cup Attempts,
                                  score : 0..MaxScore]]
    BY <1>1, <1>4
  <2> QED
    BY <1>1, <2>1, <2>2 DEF MediaInv, MediaTypeOK
<1>6. AttemptsSoFar'
  BY <1>1, <1>4 DEF MediaInv, AttemptsSoFar, LastAttempt, Compares
<1>7. StepInv' /\ AttemptsInv' /\ FoundInv'
  BY <1>1 DEF StepInv, AttemptsInv, FoundInv, Working
<1>8. StoreInv'
  BY <1>1 DEF MediaInv, StoreInv
<1>9. RequestInv'
  BY <1>1 DEF MediaInv, RequestInv
<1>10. ShownHonestly'
  BY <1>1, <1>2 DEF MediaInv, RequestInv, ShownHonestly, Compares
<1>11. NothingMadeIsLost'
  <2>1. ASSUME request' = "failed", wanted.planned, NEW n \in rows \cap Attempts
        PROVE  Compares /\ wanted.policy = "block_claim" /\ attempt'[n].status \in {"failed", "error"}
    <3>1. request = "running" /\ c = NotShown
      BY <1>1, <2>1 DEF MediaInv, RequestInv
    <3>2. ~MayBeIncomplete /\ attempt[n].status \in {"failed", "running"}
      BY <1>3, <2>1, <3>1
    <3> QED
      BY <1>4, <3>1, <3>2 DEF MayBeIncomplete
  <2>2. rows \subseteq files
    BY DEF MediaInv, StoreInv
  <2> QED
    BY <1>1, <1>4, <2>1, <2>2 DEF NothingMadeIsLost, Compares
<1> QED
  BY <1>5, <1>6, <1>7, <1>8, <1>9, <1>10, <1>11 DEF MediaInv

\* What is kept of a generation and what is said of it, in all its attempts,
\* after each failure and after a crash anywhere: the picture shown exists,
\* passed if it is said to be verified, and did not fail where that is
\* withheld; and a crash loses no picture that could be shown.
\* (_generate_image, _persist_image, _inflight_media_candidate)
THEOREM PicturesAreHonest == MediaSpec => []MediaInvariant
<1>1. ASSUME MediaInv, [MediaNext]_mediaVars PROVE MediaInv'
  <2>1. CASE UNCHANGED mediaVars
    <3> USE <2>1 DEF mediaVars, attemptVars, storeVars, outcomeVars
    <3>1. MediaTypeOK' /\ StoreInv' /\ RequestInv'
      BY <1>1 DEF MediaInv, MediaTypeOK, StoreInv, RequestInv
    <3>2. AttemptsSoFar' /\ FoundInv'
      BY <1>1 DEF MediaInv, AttemptsSoFar, FoundInv, LastAttempt, Compares
    <3>3. StepInv' /\ AttemptsInv'
      BY <1>1 DEF MediaInv, StepInv, AttemptsInv, AttemptInv, Compares, Working
    <3>4. ShownHonestly' /\ NothingMadeIsLost'
      BY <1>1 DEF MediaInv, ShownHonestly, NothingMadeIsLost, Compares
    <3> QED
      BY <3>1, <3>2, <3>3, <3>4 DEF MediaInv
  <2> QED
    BY <1>1, <2>1, BeginGenerationKeeps, BeginAttemptKeeps, CallProviderKeeps, WriteFileKeeps, AddRowKeeps,
       CompareKeeps, JudgeKeeps, EndRequestKeeps, CancelRequestKeeps, CrashKeeps DEF MediaNext, GenerationStep
<1>2. MediaInv => MediaInvariant
  BY DEF MediaInv, MediaInvariant
<1> QED
  BY <1>1, <1>2, MediaStart, PTL DEF MediaSpec

-----------------------------------------------------------------------------
(* One generation in passes.  The inductive invariant.                      *)

\* A pass is under way and its picture is not made yet.
Calling == {"build", "photos", "source", "submit", "poll", "fetch"}

\* The graphs behind the picture when k passes of the attempt are done.
Sofar(k) ==
    IF ~Corrected THEN SubSeq(recipe.passes, 1, k)
    ELSE IF k = 0 THEN recipe.passes
    ELSE recipe.passes \o <<recipe.correction>> \o SubSeq(recipe.passes, 2, k)

\* The first pass of an attempt without a correction starts from nothing.
StartsAnew == stage = 1 /\ ~Corrected

ArtifactInv ==
    /\ stage \in 1..Len(recipe.passes)
    /\ at \in Calling \cup {"open", "pass"} => StartsAnew \/ artifact = Sofar(stage - 1)
    /\ at = "made" => artifact = Sofar(stage)
    /\ at = "judge" => stage = Len(recipe.passes)
    /\ at = "judge" \/ outcome = "completed" => artifact = Sofar(Len(recipe.passes))

\* The settings of a call are those of its pass.
ValuesInv ==
    at \in Calling =>
        values = IF stage > 1 THEN StageValues(stage) ELSE IF Corrected THEN CorrectedValues ELSE BaseValues

\* The only scratch file is the one of the pass under way.
ScratchInv ==
    /\ scratch \subseteq {<<tries, stage>>}
    /\ at \notin Calling \cup {"made"} /\ outcome # "crashed" => scratch = {}
    /\ stage = 1 => scratch = {}

EndInv ==
    /\ at \in {"closing", "ended"} <=> outcome # "none"
    /\ tries = 2 => Conditioned
    /\ at # "ended" => journal \in {"none", "running"} /\ outcome # "crashed"

StagedInv ==
    StagedTypeOK /\ ArtifactInv /\ ValuesInv /\ ScratchInv /\ EndInv /\ JournalTellsTheEnd

\* A sequence of graphs is one of these, or the empty picture of a correction.
AnyGraph == Graphs \cup {NoGraph}

LEMMA RecipeFacts ==
    ASSUME recipe \in Recipes
    PROVE  /\ recipe.passes \in Seq(Graphs) /\ recipe.passes \in Seq(AnyGraph)
           /\ Len(recipe.passes) \in 1..MaxPasses /\ recipe.passes # <<>>
           /\ \A n \in 1..Len(recipe.passes) :
                /\ recipe.passes[n] \in [Roles -> Nat]
                /\ recipe.passes[n] \in Graphs
                /\ (recipe.passes[n]["source"] # NoNode <=> n > 1)
           /\ recipe.correction \in AnyGraph
           /\ recipe.correction # NoGraph => MayCorrect(recipe.correction)
<1> USE StagedAssumption
<1>1. PICK n \in 1..MaxPasses : recipe.passes \in [1..n -> Graphs]
  BY DEF Recipes
<1>2. recipe.passes \in Seq(Graphs) /\ Len(recipe.passes) = n
  BY <1>1
<1>3. recipe.passes \in Seq(AnyGraph)
  BY <1>2, SeqMonotonic DEF AnyGraph
<1>4. recipe.passes # <<>>
  BY <1>2, EmptySeq
<1>5. /\ TakesPictures(recipe.passes) /\ recipe.correction \in AnyGraph
      /\ recipe.correction # NoGraph => MayCorrect(recipe.correction)
  BY DEF Recipes, AnyGraph
<1>6. \A m \in 1..Len(recipe.passes) : recipe.passes[m] \in Graphs /\ recipe.passes[m] \in [Roles -> Nat]
  BY <1>1, <1>2 DEF Roles
<1>7. \A m \in 1..Len(recipe.passes) : recipe.passes[m]["source"] # NoNode <=> m > 1
  BY <1>5 DEF TakesPictures
<1>8. Len(recipe.passes) \in 1..MaxPasses
  BY <1>2
<1> QED
  BY <1>2, <1>3, <1>4, <1>5, <1>6, <1>7, <1>8

\* The graphs behind a picture grow by the graph of each pass.
LEMMA SofarGrows ==
    ASSUME recipe \in Recipes, NEW k \in 0..Len(recipe.passes) - 1
    PROVE  /\ ~Corrected \/ k > 0 => Append(Sofar(k), recipe.passes[k + 1]) = Sofar(k + 1)
           /\ Corrected => Append(Sofar(0), recipe.correction) = Sofar(1)
<1> DEFINE p == recipe.passes
           c == recipe.correction
           S == AnyGraph
<1>1. p \in Seq(S) /\ Len(p) \in Nat /\ k + 1 \in 1..Len(p) /\ p[k + 1] \in S /\ c \in S /\ k \in Nat
  <2>1. p \in Seq(S) /\ Len(p) \in Nat /\ c \in S
    BY RecipeFacts, StagedAssumption
  <2>2. k + 1 \in 1..Len(p) /\ k \in Nat
    BY <2>1
  <2> QED
    BY <2>1, <2>2, ElementOfSeq
<1> HIDE DEF p, c, S
<1>2. SubSeq(p, 1, k) \in Seq(S) /\ SubSeq(p, 2, k) \in Seq(S) /\ <<c>> \in Seq(S) /\ <<p[k + 1]>> \in Seq(S)
  <2>1. \A i \in 1..k : p[i] \in S
    BY <1>1, ElementOfSeq
  <2>2. \A i \in 2..k : p[i] \in S
    BY <1>1, <2>1
  <2>3. SubSeq(p, 1, k) \in Seq(S)
    BY <1>1, <2>1, SubSeqProperties
  <2>4. SubSeq(p, 2, k) \in Seq(S)
    BY <1>1, <2>2, SubSeqProperties
  <2> QED
    BY <1>1, <2>3, <2>4
<1>3. CASE ~Corrected
  <2>1. Append(SubSeq(p, 1, k), p[k + 1]) = SubSeq(p, 1, k) \o <<p[k + 1]>>
    BY <1>1, <1>2, AppendIsConcat
  <2>2. SubSeq(p, 1, k + 1) = SubSeq(p, 1, k + 1 - 1) \o <<p[k + 1]>>
    <3>1. 1 \in 1..Len(p) /\ k + 1 \in 1..Len(p)
      BY <1>1
    <3> QED
      BY <1>1, <3>1, SubSeqRecursiveSecond
  <2>3. k + 1 - 1 = k
    BY <1>1
  <2> QED
    BY <1>3, <2>1, <2>2, <2>3 DEF Sofar, p
<1>4. CASE Corrected
  <2>1. p \o <<c>> \in Seq(S)
    BY <1>1, <1>2, ConcatProperties
  <2>2. Append(Sofar(0), c) = Sofar(1)
    <3>1. SubSeq(p, 2, 1) = <<>>
      BY SubSeqEmpty
    <3>2. Append(p, c) = p \o <<c>>
      BY <1>1, AppendIsConcat
    <3>3. (p \o <<c>>) \o <<>> = p \o <<c>>
      BY <2>1, ConcatEmptySeq
    <3> QED
      BY <1>4, <3>1, <3>2, <3>3 DEF Sofar, p, c
  <2>3. ASSUME k > 0 PROVE Append(Sofar(k), p[k + 1]) = Sofar(k + 1)
    <3> DEFINE start == p \o <<c>>
               rest == SubSeq(p, 2, k)
    <3>1. Sofar(k) = start \o rest /\ Sofar(k + 1) = start \o SubSeq(p, 2, k + 1)
      <4>1. k # 0 /\ k + 1 # 0
        BY <1>1, <2>3
      <4> QED
        BY <1>4, <4>1, Zenon DEF Sofar, p, c
    <3>2. 2 \in 1..Len(p) /\ k + 1 \in 2..Len(p) /\ k + 1 - 1 = k
      BY <1>1, <2>3
    <3>3. SubSeq(p, 2, k + 1) = SubSeq(p, 2, k + 1 - 1) \o <<p[k + 1]>>
      BY <1>1, <3>2, SubSeqRecursiveSecond
    <3> HIDE DEF start
    <3>4. start \in Seq(S) /\ rest \in Seq(S)
      BY <1>2, <2>1 DEF start
    <3> HIDE DEF rest
    <3>5. (start \o rest) \o <<p[k + 1]>> = start \o (rest \o <<p[k + 1]>>)
      BY <1>2, <3>4, ConcatAssociative
    <3>6. Append(start \o rest, p[k + 1]) = (start \o rest) \o <<p[k + 1]>>
      <4>1. start \o rest \in Seq(S)
        BY <3>4, ConcatProperties
      <4> QED
        BY <1>1, <4>1, AppendIsConcat
    <3> QED
      BY <3>1, <3>2, <3>3, <3>5, <3>6 DEF rest
  <2> QED
    BY <1>4, <2>2, <2>3 DEF p, c
<1> QED
  BY <1>3, <1>4

LEMMA SofarEnds ==
    ASSUME recipe \in Recipes
    PROVE  Sofar(Len(recipe.passes)) = IF Corrected
                                       THEN recipe.passes \o <<recipe.correction>> \o Tail(recipe.passes)
                                       ELSE recipe.passes
<1>1. /\ recipe.passes \in Seq(Graphs) /\ recipe.passes # <<>> /\ Len(recipe.passes) # 0
  BY RecipeFacts
<1>2. Tail(recipe.passes) = SubSeq(recipe.passes, 2, Len(recipe.passes))
  BY <1>1, TailIsSubSeq
<1>3. SubSeq(recipe.passes, 1, Len(recipe.passes)) = recipe.passes
  BY <1>1, SubSeqFull
<1> QED
  BY <1>1, <1>2, <1>3 DEF Sofar

LEMMA SamePass ==
    ASSUME UNCHANGED <<recipe, tries>>
    PROVE  /\ Corrected' = Corrected /\ Conditioned' = Conditioned
           /\ \A k : Sofar(k)' = Sofar(k)
BY DEF Corrected, Conditioned, Sofar

LEMMA SameValues ==
    ASSUME UNCHANGED <<recipe, tries, artifact>>
    PROVE  /\ BaseValues' = BaseValues /\ CorrectedValues' = CorrectedValues
           /\ \A n : StageValues(n)' = StageValues(n)
<1>1. \A n : Placed(n)' = Placed(n)
  BY DEF Placed, Conditioned
<1>2. BaseValues' = BaseValues /\ \A n : StageValues(n)' = StageValues(n)
  BY <1>1 DEF BaseValues, StageValues
<1> QED
  BY <1>2 DEF CorrectedValues

LEMMA StagedStart == StagedInit => StagedInv
<1> SUFFICES ASSUME StagedInit PROVE StagedInv
  OBVIOUS
<1>1. /\ recipe \in Recipes /\ tries = 1 /\ stage = 1 /\ at = "open" /\ sent = 0 /\ polls = 0
      /\ scratch = {} /\ token = FALSE /\ outcome = "none" /\ journal = "none"
      /\ values.graph = NoGraph
  BY DEF StagedInit
<1>2. Len(recipe.passes) \in 1..MaxPasses
  BY <1>1, RecipeFacts
<1>3. StagedTypeOK
  <2>1. photo \in [1..Photos -> {"reviewed", "changed", "gone"}]
    BY DEF StagedInit
  <2>2. /\ sent \in 0..Photos /\ polls \in 0..MaxPolls /\ tries \in 1..2 /\ stage \in 1..MaxPasses
    BY <1>1, StagedAssumption
  <2>3. scratch \subseteq {<<n, k>> : n \in 1..2, k \in 2..MaxPasses}
    BY <1>1
  <2>4. at \in {"open", "pass", "build", "photos", "source", "submit", "poll", "fetch",
                "made", "judge", "closing", "ended"}
    BY <1>1
  <2>5. /\ outcome \in {"none", "completed", "failed", "cancelled", "crashed"}
        /\ journal \in {"none", "running", "completed", "failed", "cancelled"}
    BY <1>1
  <2>6. recipe \in Recipes /\ values.graph \in Graphs \cup {NoGraph}
    BY <1>1
  <2>7. token \in BOOLEAN
    BY DEF StagedInit
  <2> QED
    BY <2>1, <2>2, <2>3, <2>4, <2>5, <2>6, <2>7 DEF StagedTypeOK
<1>4. ArtifactInv /\ ValuesInv /\ ScratchInv /\ EndInv /\ JournalTellsTheEnd
  BY <1>1, <1>2, StagedAssumption
     DEF ArtifactInv, ValuesInv, ScratchInv, EndInv, JournalTellsTheEnd, Calling, StartsAnew, Corrected
<1> QED
  BY <1>3, <1>4 DEF StagedInv

\* A call goes on, or fails and leaves no scratch file.
LEMMA CallKeeps ==
    ASSUME StagedInv, at \in Calling,
           UNCHANGED <<recipe, tries, stage, values, artifact, photo, token, journal>>,
           sent' \in 0..Photos, polls' \in 0..MaxPolls,
           \/ at' \in Calling /\ UNCHANGED <<outcome, scratch>>
           \/ at' = "closing" /\ outcome' \in {"failed", "cancelled"} /\ scratch' = {}
    PROVE  StagedInv'
<1>1. /\ Corrected' = Corrected /\ Conditioned' = Conditioned
      /\ \A k : Sofar(k)' = Sofar(k)
      /\ BaseValues' = BaseValues /\ CorrectedValues' = CorrectedValues
      /\ \A n : StageValues(n)' = StageValues(n)
  BY SamePass, SameValues
<1>2. StagedTypeOK'
  BY DEF StagedInv, StagedTypeOK, Calling
<1>3. ArtifactInv'
  BY <1>1 DEF StagedInv, ArtifactInv, EndInv, StartsAnew, Calling
<1>4. ValuesInv'
  BY <1>1 DEF StagedInv, ValuesInv, Calling
<1>5. ScratchInv'
  BY DEF StagedInv, ScratchInv, Calling
<1>6. EndInv' /\ JournalTellsTheEnd'
  BY <1>1 DEF StagedInv, EndInv, JournalTellsTheEnd, Calling
<1> QED
  BY <1>2, <1>3, <1>4, <1>5, <1>6 DEF StagedInv

LEMMA CallsKeep ==
    ASSUME StagedInv, BuildWorkflow \/ UploadPhoto \/ UploadSource \/ SubmitPrompt \/ PollHistory
    PROVE  StagedInv'
<1> USE DEF callVars, Stops, Fails, Proceed, Calling
<1>1. /\ sent \in 0..Photos /\ polls \in 0..MaxPolls /\ Photos \in Nat /\ MaxPolls \in Nat
  BY StagedAssumption DEF StagedInv, StagedTypeOK
<1>2. CASE BuildWorkflow
  BY <1>1, <1>2, CallKeeps DEF BuildWorkflow
<1>3. CASE UploadPhoto
  <2>1. sent' \in 0..Photos
    BY <1>1, <1>3 DEF UploadPhoto
  <2> QED
    BY <1>1, <1>3, <2>1, CallKeeps DEF UploadPhoto
<1>4. CASE UploadSource
  BY <1>1, <1>4, CallKeeps DEF UploadSource
<1>5. CASE SubmitPrompt
  BY <1>1, <1>5, CallKeeps DEF SubmitPrompt
<1>6. CASE PollHistory
  <2>1. polls' \in 0..MaxPolls
    BY <1>1, <1>6 DEF PollHistory
  <2> QED
    BY <1>1, <1>6, <2>1, CallKeeps DEF PollHistory
<1> QED
  BY <1>2, <1>3, <1>4, <1>5, <1>6

\* Opening the journal, an end of the passes, the end of the generation and
\* what happens meanwhile: where no call is made and no picture changes.
LEMMA QuietKeeps ==
    ASSUME StagedInv, OpenJournal \/ FinishJournal \/ CancelGeneration \/ Crash \/ (\E n \in 1..Photos : PhotoChanges(n))
    PROVE  StagedInv'
<1> USE DEF callVars, Proceed
<1>0. UNCHANGED <<recipe, tries, stage, values, artifact, sent, polls, scratch>>
  BY DEF OpenJournal, FinishJournal, CancelGeneration, Crash, PhotoChanges
<1>1. /\ Corrected' = Corrected /\ Conditioned' = Conditioned
      /\ \A k : Sofar(k)' = Sofar(k)
      /\ BaseValues' = BaseValues /\ CorrectedValues' = CorrectedValues
      /\ \A n : StageValues(n)' = StageValues(n)
  BY <1>0, SamePass, SameValues
<1>2. photo' \in [1..Photos -> {"reviewed", "changed", "gone"}]
  BY DEF StagedInv, StagedTypeOK, OpenJournal, FinishJournal, CancelGeneration, Crash, PhotoChanges
<1>3. \/ UNCHANGED <<at, outcome, journal>>
      \/ at = "open" /\ at' = "pass" /\ outcome' = outcome /\ journal' \in {"running", "none"}
      \/ at = "closing" /\ at' = "ended" /\ outcome' = outcome /\ journal' = Finished
      \/ at # "ended" /\ at' = "ended" /\ outcome' = "crashed" /\ journal' = journal
  BY DEF OpenJournal, FinishJournal, CancelGeneration, Crash, PhotoChanges
<1>4. StagedTypeOK'
  <2>1. token' \in BOOLEAN
    <3>1. token \in BOOLEAN /\ (token' = token \/ token' = TRUE)
      BY DEF StagedInv, StagedTypeOK, OpenJournal, FinishJournal, CancelGeneration, Crash, PhotoChanges
    <3> QED
      BY <3>1
  <2>2. journal' \in {"none", "running", "completed", "failed", "cancelled"}
    BY <1>3 DEF StagedInv, StagedTypeOK, EndInv, Finished
  <2> QED
    BY <1>0, <1>2, <1>3, <2>1, <2>2 DEF StagedInv, StagedTypeOK
<1>5. ArtifactInv'
  BY <1>0, <1>1, <1>3 DEF StagedInv, ArtifactInv, EndInv, StartsAnew, Calling
<1>6. ValuesInv'
  BY <1>0, <1>1, <1>3 DEF StagedInv, ValuesInv, Calling
<1>7. ScratchInv'
  BY <1>0, <1>3 DEF StagedInv, ScratchInv, Calling
<1>8. EndInv' /\ JournalTellsTheEnd'
  BY <1>0, <1>1, <1>3 DEF StagedInv, EndInv, JournalTellsTheEnd, Finished
<1> QED
  BY <1>4, <1>5, <1>6, <1>7, <1>8 DEF StagedInv

LEMMA BeginPassKeeps ==
    ASSUME StagedInv, BeginPass PROVE StagedInv'
<1> USE DEF callVars
<1>1. /\ Corrected' = Corrected /\ Conditioned' = Conditioned
      /\ \A k : Sofar(k)' = Sofar(k)
      /\ BaseValues' = BaseValues /\ CorrectedValues' = CorrectedValues
      /\ \A n : StageValues(n)' = StageValues(n)
  BY SamePass, SameValues DEF BeginPass
<1>2. /\ at = "pass" /\ scratch = {} /\ outcome = "none" /\ sent' = 0 /\ polls' = 0
      /\ UNCHANGED <<recipe, tries, stage, artifact, photo, token, journal>>
  BY DEF StagedInv, ScratchInv, EndInv, BeginPass, Calling
<1>3. \/ at' = "closing" /\ outcome' \in {"failed", "cancelled"} /\ scratch' = {} /\ UNCHANGED values
      \/ /\ at' = "build" /\ outcome' = "none"
         /\ values' = IF stage > 1 THEN StageValues(stage)
                      ELSE IF Corrected THEN CorrectedValues ELSE BaseValues
         /\ scratch' = IF stage > 1 THEN {<<tries, stage>>} ELSE {}
  BY <1>2 DEF BeginPass, Stops, Fails
<1>4. /\ recipe \in Recipes /\ tries \in 1..2 /\ stage \in 1..Len(recipe.passes)
      /\ Len(recipe.passes) \in 1..MaxPasses /\ MaxPasses \in Nat
      /\ \A n \in 1..Len(recipe.passes) : recipe.passes[n] \in Graphs
      /\ recipe.correction \in Graphs \cup {NoGraph}
  BY RecipeFacts, StagedAssumption DEF StagedInv, StagedTypeOK, ArtifactInv, AnyGraph
<1>5. StagedTypeOK'
  <2>1. values'.graph \in Graphs \cup {NoGraph}
    <3>1. 1 \in 1..Len(recipe.passes)
      BY <1>4
    <3>2. StageValues(stage).graph = recipe.passes[stage] /\ CorrectedValues.graph = recipe.correction
          /\ BaseValues.graph = recipe.passes[1]
      BY DEF StageValues, CorrectedValues, BaseValues
    <3> QED
      BY <1>3, <1>4, <3>1, <3>2 DEF StagedInv, StagedTypeOK
  <2>2. scratch' \subseteq {<<n, k>> : n \in 1..2, k \in 2..MaxPasses}
    <3>1. stage > 1 => stage \in 2..MaxPasses
      BY <1>4
    <3> QED
      BY <1>3, <1>4, <3>1
  <2>3. sent' \in 0..Photos /\ polls' \in 0..MaxPolls
    BY <1>2, StagedAssumption
  <2>4. /\ recipe' \in Recipes /\ tries' \in 1..2 /\ stage' \in 1..MaxPasses
        /\ photo' \in [1..Photos -> {"reviewed", "changed", "gone"}]
        /\ journal' \in {"none", "running", "completed", "failed", "cancelled"}
    BY <1>2 DEF StagedInv, StagedTypeOK
  <2>5. token' \in BOOLEAN
    BY <1>2 DEF StagedInv, StagedTypeOK
  <2> QED
    BY <1>3, <2>1, <2>2, <2>3, <2>4, <2>5 DEF StagedTypeOK
<1>6. ArtifactInv'
  BY <1>1, <1>2, <1>3 DEF StagedInv, ArtifactInv, StartsAnew, Calling
<1>7. ValuesInv'
  BY <1>1, <1>2, <1>3 DEF StagedInv, ValuesInv, Calling
<1>8. ScratchInv'
  BY <1>2, <1>3, <1>4 DEF ScratchInv, Calling
<1>9. EndInv' /\ JournalTellsTheEnd'
  BY <1>1, <1>2, <1>3 DEF StagedInv, EndInv, JournalTellsTheEnd
<1> QED
  BY <1>5, <1>6, <1>7, <1>8, <1>9 DEF StagedInv

\* What comes back has gone through one more pass.
LEMMA FetchedPicture ==
    ASSUME StagedInv, FetchPicture, at' = "made"
    PROVE  artifact' = Sofar(stage)
<1>1. /\ at = "fetch" /\ recipe \in Recipes /\ stage \in 1..Len(recipe.passes)
      /\ StartsAnew \/ artifact = Sofar(stage - 1)
      /\ values = IF stage > 1 THEN StageValues(stage) ELSE IF Corrected THEN CorrectedValues ELSE BaseValues
  BY DEF StagedInv, StagedTypeOK, ArtifactInv, ValuesInv, Calling, FetchPicture
<1>2. artifact' = Append(IF Binds("source") THEN values.source ELSE Nothing, values.graph)
  BY <1>1 DEF FetchPicture, Fails, Stops
<1>3. /\ stage \in Nat /\ stage - 1 \in 0..Len(recipe.passes) - 1 /\ stage - 1 + 1 = stage
      /\ recipe.passes[stage] \in [Roles -> Nat] /\ recipe.passes[1] \in [Roles -> Nat]
      /\ recipe.passes[stage]["source"] # NoNode <=> stage > 1
      /\ 1 \in 1..Len(recipe.passes) /\ recipe.passes[1]["source"] = NoNode
      /\ recipe.correction # NoGraph => MayCorrect(recipe.correction)
  <2>1. Len(recipe.passes) \in Nat
    BY <1>1, RecipeFacts, StagedAssumption
  <2>2. stage \in Nat /\ stage - 1 \in 0..Len(recipe.passes) - 1 /\ stage - 1 + 1 = stage /\ 1 \in 1..Len(recipe.passes)
    BY <1>1, <2>1
  <2>3. \A n \in 1..Len(recipe.passes) :
          recipe.passes[n] \in [Roles -> Nat] /\ (recipe.passes[n]["source"] # NoNode <=> n > 1)
    BY <1>1, RecipeFacts
  <2>4. recipe.passes[1]["source"] = NoNode
    BY <2>2, <2>3
  <2>5. recipe.correction # NoGraph => MayCorrect(recipe.correction)
    BY <1>1, RecipeFacts
  <2> QED
    BY <1>1, <2>2, <2>3, <2>4, <2>5
<1>4. CASE stage > 1
  <2>1. values = StageValues(stage) /\ ~StartsAnew
    BY <1>1, <1>4 DEF StartsAnew
  <2>2. /\ values.graph = recipe.passes[stage] /\ values.source = artifact
        /\ values.bound["source"] = recipe.passes[stage]["source"]
    BY <1>3, <2>1 DEF StageValues, Roles
  <2>3. artifact' = Append(Sofar(stage - 1), recipe.passes[stage])
    BY <1>1, <1>2, <1>3, <1>4, <2>1, <2>2 DEF Binds
  <2>4. stage - 1 > 0
    BY <1>3, <1>4
  <2> QED
    BY <1>1, <1>3, <2>3, <2>4, SofarGrows
<1>5. CASE stage = 1 /\ Corrected
  <2>1. values = CorrectedValues /\ artifact = Sofar(0) /\ recipe.correction # NoGraph
    BY <1>1, <1>5 DEF StartsAnew, Corrected
  <2>2. /\ values.graph = recipe.correction /\ values.source = artifact
        /\ values.bound["source"] = recipe.correction["source"]
    <3>1. BaseValues.bound \in [Roles -> Nat \cup {recipe.passes[1]["identity"]}]
      BY <1>3 DEF BaseValues, Placed, NoNode, Roles
    <3> QED
      BY <2>1, <3>1 DEF CorrectedValues, Roles
  <2>3. artifact' = Append(Sofar(0), recipe.correction)
    BY <1>2, <1>3, <2>1, <2>2 DEF Binds, MayCorrect
  <2> QED
    BY <1>1, <1>3, <1>5, <2>3, SofarGrows
<1>6. CASE stage = 1 /\ ~Corrected
  <2>1. values.graph = recipe.passes[1] /\ values.bound["source"] = NoNode
    BY <1>1, <1>3, <1>6 DEF BaseValues, Roles
  <2>2. artifact' = Append(Nothing, recipe.passes[1])
    BY <1>2, <2>1 DEF Binds
  <2>3. Sofar(0) = Nothing
    <3>1. SubSeq(recipe.passes, 1, 0) = <<>>
      BY SubSeqEmpty
    <3> QED
      BY <1>6, <3>1 DEF Sofar, Nothing
  <2> QED
    BY <1>1, <1>3, <1>6, <2>2, <2>3, SofarGrows
<1> QED
  BY <1>3, <1>4, <1>5, <1>6

LEMMA FetchKeeps ==
    ASSUME StagedInv, FetchPicture PROVE StagedInv'
<1> USE DEF callVars
<1>1. CASE at' # "made"
  <2>1. sent' \in 0..Photos /\ polls' \in 0..MaxPolls
    BY DEF FetchPicture, StagedInv, StagedTypeOK
  <2> QED
    BY <1>1, <2>1, CallKeeps DEF FetchPicture, Stops, Fails, Proceed, Calling
<1>2. CASE at' = "made"
  <2>1. /\ Corrected' = Corrected /\ Conditioned' = Conditioned
        /\ \A k : Sofar(k)' = Sofar(k)
    BY SamePass DEF FetchPicture
  <2>2. artifact' = Sofar(stage)
    BY <1>2, FetchedPicture
  <2>3. /\ at = "fetch" /\ outcome = "none"
        /\ UNCHANGED <<recipe, tries, stage, callVars, photo, token, journal, outcome, scratch>>
    BY <1>2 DEF FetchPicture, Stops, Fails, Proceed, StagedInv, EndInv
  <2>4. StagedTypeOK'
    BY <1>2, <2>3 DEF StagedInv, StagedTypeOK
  <2>5. ArtifactInv' /\ ValuesInv'
    BY <1>2, <2>1, <2>2, <2>3 DEF StagedInv, ArtifactInv, ValuesInv, Calling
  <2>6. ScratchInv' /\ EndInv' /\ JournalTellsTheEnd'
    BY <1>2, <2>1, <2>3 DEF StagedInv, ScratchInv, EndInv, JournalTellsTheEnd, Calling
  <2> QED
    BY <2>4, <2>5, <2>6 DEF StagedInv
<1> QED
  BY <1>1, <1>2

LEMMA EndPassKeeps ==
    ASSUME StagedInv, EndPass PROVE StagedInv'
<1> USE DEF callVars
<1>1. /\ Corrected' = Corrected /\ Conditioned' = Conditioned
      /\ \A k : Sofar(k)' = Sofar(k)
  BY SamePass DEF EndPass
<1>2. /\ at = "made" /\ scratch' = {} /\ outcome = "none" /\ artifact = Sofar(stage)
      /\ UNCHANGED <<recipe, tries, callVars, artifact, photo, token, outcome, journal>>
  BY DEF EndPass, StagedInv, ArtifactInv, EndInv
<1>3. /\ stage \in 1..Len(recipe.passes) /\ Len(recipe.passes) \in 1..MaxPasses /\ MaxPasses \in Nat
  BY RecipeFacts, StagedAssumption DEF StagedInv, StagedTypeOK, ArtifactInv
<1>4. \/ /\ stage < Len(recipe.passes) /\ stage' = stage + 1 /\ at' = "pass"
         /\ stage' \in 1..Len(recipe.passes) /\ stage' - 1 = stage
      \/ stage = Len(recipe.passes) /\ stage' = stage /\ at' = "judge"
  BY <1>3 DEF EndPass
<1>5. StagedTypeOK'
  <2>1. stage' \in 1..MaxPasses
    BY <1>3, <1>4
  <2>2. at' \in {"pass", "judge"}
    BY <1>4
  <2>3. scratch' \subseteq {<<n, k>> : n \in 1..2, k \in 2..MaxPasses}
    BY <1>2
  <2> QED
    BY <1>2, <2>1, <2>2, <2>3 DEF StagedInv, StagedTypeOK
<1>6. ArtifactInv'
  BY <1>1, <1>2, <1>3, <1>4 DEF ArtifactInv, Calling
<1>7. ValuesInv' /\ ScratchInv' /\ EndInv' /\ JournalTellsTheEnd'
  BY <1>1, <1>2, <1>4 DEF StagedInv, ValuesInv, ScratchInv, EndInv, JournalTellsTheEnd, Calling
<1> QED
  BY <1>5, <1>6, <1>7 DEF StagedInv

\* A second attempt starts from the picture of the first.
LEMMA JudgeKeepsPasses ==
    ASSUME StagedInv, JudgePicture PROVE StagedInv'
<1> USE DEF callVars
<1>1. /\ at = "judge" /\ outcome = "none" /\ scratch = {} /\ recipe \in Recipes
      /\ stage \in 1..Len(recipe.passes) /\ artifact = Sofar(Len(recipe.passes))
      /\ Len(recipe.passes) \in 1..MaxPasses /\ MaxPasses \in Nat
      /\ UNCHANGED <<recipe, callVars, artifact, photo, token, journal>>
  BY RecipeFacts, StagedAssumption
     DEF JudgePicture, StagedInv, StagedTypeOK, ArtifactInv, ScratchInv, EndInv, Calling
<1>2. CASE at' = "closing"
  <2>1. /\ tries' = tries /\ stage' = stage /\ outcome' \in {"failed", "cancelled", "completed"} /\ scratch' = {}
    BY <1>1, <1>2 DEF JudgePicture, Stops, Fails, Returns, Proceed
  <2>2. /\ Corrected' = Corrected /\ Conditioned' = Conditioned
        /\ \A k : Sofar(k)' = Sofar(k)
    BY <1>1, <2>1, SamePass
  <2>3. StagedTypeOK'
    BY <1>1, <1>2, <2>1 DEF StagedInv, StagedTypeOK
  <2>4. ArtifactInv' /\ ValuesInv'
    BY <1>1, <1>2, <2>1, <2>2 DEF ArtifactInv, ValuesInv, Calling
  <2>5. ScratchInv' /\ EndInv' /\ JournalTellsTheEnd'
    BY <1>1, <1>2, <2>1, <2>2 DEF StagedInv, ScratchInv, EndInv, JournalTellsTheEnd, Calling
  <2> QED
    BY <2>3, <2>4, <2>5 DEF StagedInv
<1>3. CASE at' # "closing"
  <2>1. /\ tries < MaxTries /\ tries' = tries + 1 /\ stage' = 1 /\ at' = "pass"
        /\ UNCHANGED <<outcome, scratch>>
    BY <1>3 DEF JudgePicture, Stops, Fails, Returns, Proceed
  <2>2. /\ tries = 1 /\ tries' = 2 /\ Conditioned /\ Conditioned' = Conditioned
    BY <1>1, <2>1 DEF StagedInv, StagedTypeOK, MaxTries, Conditioned
  <2>3. ~Corrected /\ (Corrected' => Sofar(0)' = recipe.passes)
    BY <1>1, <2>2 DEF Corrected, Sofar
  <2>4. artifact = recipe.passes
    BY <1>1, <2>3, SofarEnds
  <2>5. StagedTypeOK'
    <3>1. stage' \in 1..MaxPasses /\ tries' \in 1..2
      BY <1>1, <2>1, <2>2
    <3> QED
      BY <1>1, <2>1, <3>1 DEF StagedInv, StagedTypeOK
  <2>6. ArtifactInv'
    <3>1. stage' \in 1..Len(recipe.passes) /\ stage' - 1 = 0
      BY <1>1, <2>1
    <3> QED
      BY <1>1, <2>1, <2>3, <2>4, <3>1 DEF ArtifactInv, StartsAnew, Calling
  <2>7. ValuesInv' /\ ScratchInv' /\ EndInv' /\ JournalTellsTheEnd'
    BY <1>1, <2>1, <2>2 DEF StagedInv, ValuesInv, ScratchInv, EndInv, JournalTellsTheEnd, Calling
  <2> QED
    BY <2>5, <2>6, <2>7 DEF StagedInv
<1> QED
  BY <1>2, <1>3

LEMMA StagedConsequences == StagedInv => StagedInvariant
<1> SUFFICES ASSUME StagedInv PROVE StagedInvariant
  OBVIOUS
<1>1. EveryPassInOrder
  <2>1. recipe \in Recipes
    BY DEF StagedInv, StagedTypeOK
  <2>2. at = "judge" \/ outcome = "completed" => artifact = Sofar(Len(recipe.passes))
    BY DEF StagedInv, ArtifactInv
  <2> QED
    BY <2>1, <2>2, SofarEnds DEF EveryPassInOrder
<1>2. BindingsFitTheirGraph
  <2>1. SUFFICES ASSUME at = "build", ~(Corrected /\ stage = 1), NEW role \in Roles, Binds(role)
                 PROVE  Exists(role)
    BY DEF BindingsFitTheirGraph
  <2>2. /\ recipe \in Recipes /\ stage \in 1..Len(recipe.passes)
        /\ Len(recipe.passes) \in 1..MaxPasses /\ MaxPasses \in Nat
    BY RecipeFacts, StagedAssumption DEF StagedInv, StagedTypeOK, ArtifactInv
  <2>3. 1 \in 1..Len(recipe.passes) /\ stage \in Nat
    BY <2>2
  <2>4. recipe.passes[stage] \in [Roles -> Nat] /\ recipe.passes[1] \in [Roles -> Nat]
    BY <2>2, <2>3, RecipeFacts
  <2>5. values = StageValues(stage) \/ (stage = 1 /\ values = BaseValues)
    BY <2>1, <2>2 DEF StagedInv, ValuesInv, Calling
  <2>6. CASE values = StageValues(stage)
    BY <2>1, <2>4, <2>6 DEF StageValues, Placed, Binds, Exists, Roles
  <2>7. CASE values = BaseValues
    BY <2>1, <2>4, <2>7 DEF BaseValues, Placed, Binds, Exists, Roles
  <2> QED
    BY <2>5, <2>6, <2>7
<1>3. ScratchIsWorkingState
  <2>1. scratch = {} \/ scratch = {<<tries, stage>>}
    BY DEF StagedInv, ScratchInv
  <2>2. Cardinality(scratch) <= 1
    BY <2>1, FS_EmptySet, FS_Singleton
  <2> QED
    BY <2>2 DEF StagedInv, ScratchInv, Calling, ScratchIsWorkingState
<1> QED
  BY <1>1, <1>2, <1>3 DEF StagedInv, StagedInvariant

\* A generation in passes, for every set of workflows and number of passes,
\* with an attempt that corrects or repeats the first, photos that change and
\* a crash anywhere: the picture that is returned went through every pass in
\* order, no pass is sent another graph's bindings, at most one scratch file is
\* on disk, and the journal tells the end.  (_run_stages, generate)
THEOREM PassesAreInOrder == StagedSpec => []StagedInvariant
<1>1. ASSUME StagedInv, [StagedNext]_stagedVars PROVE StagedInv'
  <2>1. CASE UNCHANGED stagedVars
    <3> USE <2>1 DEF stagedVars, callVars
    <3>1. /\ Corrected' = Corrected /\ Conditioned' = Conditioned
          /\ \A k : Sofar(k)' = Sofar(k)
          /\ BaseValues' = BaseValues /\ CorrectedValues' = CorrectedValues
          /\ \A n : StageValues(n)' = StageValues(n)
      BY SamePass, SameValues
    <3>2. StagedTypeOK' /\ ScratchInv' /\ JournalTellsTheEnd'
      BY <1>1 DEF StagedInv, StagedTypeOK, ScratchInv, JournalTellsTheEnd
    <3>3. ArtifactInv' /\ ValuesInv' /\ EndInv'
      BY <1>1, <3>1 DEF StagedInv, ArtifactInv, ValuesInv, EndInv, StartsAnew
    <3> QED
      BY <3>2, <3>3 DEF StagedInv
  <2> QED
    BY <1>1, <2>1, CallsKeep, QuietKeeps, BeginPassKeeps, FetchKeeps, EndPassKeeps, JudgeKeepsPasses
       DEF StagedNext, StagedStep
<1> QED
  BY <1>1, StagedStart, StagedConsequences, PTL DEF StagedSpec

-----------------------------------------------------------------------------
(* The daily copies.                                                        *)

\* No copy that has its name is half made, whenever the process died: a copy
\* takes its name when it was checked.  (create_verified_backup)
THEOREM NamedCopiesAreWhole == MaintenanceSpec => [](MaintenanceTypeOK /\ CopiesAreWhole)
<1> DEFINE Inv == MaintenanceTypeOK /\ CopiesAreWhole
<1>1. MaintenanceInit => Inv
  <2> SUFFICES ASSUME MaintenanceInit PROVE Inv
    OBVIOUS
  <2>2. archiveFull \in BOOLEAN /\ overdue \in BOOLEAN
    BY DEF MaintenanceInit
  <2>3. copies \in [Days -> Copied] /\ CopiesAreWhole
    BY DEF MaintenanceInit, CopiesAreWhole, Copied
  <2>4. service \in {"down", "starting", "up"} /\ temporary \in Copied
        /\ pass \in {"waits", "asks", "copies", "verifies", "counts", "ages", "gone"}
    BY DEF MaintenanceInit, Copied
  <2>5. today \in Days /\ target \in Days
    BY MaintenanceAssumption DEF MaintenanceInit
  <2> QED
    BY <2>2, <2>3, <2>4, <2>5 DEF MaintenanceTypeOK
<1>2. ASSUME Inv, [MaintenanceNext]_maintenanceVars PROVE Inv'
  <2> USE DEF MaintenanceNext, ProcessStep, StartService, Repeat, Ask, CopyDatabase, VerifyCopy, CountCopies,
       RemoveOverdue, Dies, NextDay, GrowsOld, VolumeFills, maintenanceVars
  <2>1. archiveFull' \in BOOLEAN
    BY <1>2 DEF MaintenanceTypeOK
  <2>2. overdue' \in BOOLEAN
    BY <1>2 DEF MaintenanceTypeOK
  <2>3. today' \in Days /\ target' \in Days
    BY <1>2 DEF MaintenanceTypeOK
  <2>4. service' \in {"down", "starting", "up"} /\ temporary' \in Copied
    BY <1>2 DEF MaintenanceTypeOK, Copied, Failed
  <2>5. pass' \in {"waits", "asks", "copies", "verifies", "counts", "ages", "gone"}
    BY <1>2 DEF MaintenanceTypeOK, Failed
  <2>6. copies' \in [Days -> Copied] /\ CopiesAreWhole'
    BY <1>2 DEF MaintenanceTypeOK, CopiesAreWhole, Verifies, Copied
  <2> QED
    BY <2>1, <2>2, <2>3, <2>4, <2>5, <2>6 DEF MaintenanceTypeOK
<1> QED
  BY <1>1, <1>2, PTL DEF MaintenanceSpec

\* The newest copy there is stays, for every number of days and copies kept:
\* a copy is removed only for as many newer ones as are kept.  (_prune_count)
THEOREM TheNewestCopyStays == MaintenanceSpec => NewestCopyStays
<1> DEFINE Stays == \A d \in Days :
                copies[d] = "whole" /\ (\A e \in Days : e > d => copies[e] = "none") => copies'[d] = "whole"
<1>1. ASSUME MaintenanceTypeOK, [MaintenanceNext]_maintenanceVars PROVE Stays
  <2>1. SUFFICES ASSUME NEW d \in Days, copies[d] = "whole", \A e \in Days : e > d => copies[e] = "none"
                 PROVE  copies'[d] = "whole"
    OBVIOUS
  <2>2. ~SurplusCopy(d)
    <3>1. {e \in Days : e > d /\ copies[e] # "none"} = {}
      BY <2>1
    <3> QED
      BY <3>1, FS_EmptySet, MaintenanceAssumption DEF SurplusCopy
  <2>3. CASE VerifyCopy
    BY <1>1, <2>1, <2>3 DEF VerifyCopy, Verifies, MaintenanceTypeOK
  <2>4. CASE CountCopies
    BY <2>1, <2>2, <2>4 DEF CountCopies
  <2>5. CASE ~VerifyCopy /\ ~CountCopies
    BY <1>1, <2>1, <2>5 DEF MaintenanceNext, ProcessStep, StartService, Repeat, Ask, CopyDatabase,
       RemoveOverdue, Dies, NextDay, GrowsOld, VolumeFills, maintenanceVars
  <2> QED
    BY <2>3, <2>4, <2>5
<1>2. MaintenanceSpec => []MaintenanceTypeOK
  BY NamedCopiesAreWhole, PTL
<1> QED
  BY <1>1, <1>2, PTL DEF MaintenanceSpec, NewestCopyStays
================================================================================
