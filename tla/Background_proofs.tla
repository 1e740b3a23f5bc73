--------------------------- MODULE Background_proofs ---------------------------
(***************************************************************************)
(* The theorem about pictures nobody has asked for yet (BackgroundPictures), *)
(* for every number of scenes, sets, frames and pictures of a pass.  The rows *)
(* of a request and its job go together (RowsAgree); a scene in the making    *)
(* has such a request; and a set is worked out anew by everything that ends   *)
(* one of its frames, except while its frames are still being handed in.      *)
(***************************************************************************)
EXTENDS BackgroundPictures, Pictures_proofs

RowsAgree(r) ==
    \/ status[r] = None /\ job[r][1] = None /\ work[r][1] = None
    \/ status[r] = "queued" /\ job[r][1] = "queued" /\ work[r][1] \in {None, "owed", "submitting", "waiting"}
    \/ status[r] = "queued" /\ job[r][1] = "cancelled" /\ work[r][1] \in {None, "owed", "submitting", "waiting"}
    \/ status[r] = "running" /\ job[r][1] = "running" /\ work[r][1] = "running"
    \/ status[r] = "cancelled" /\ job[r][1] = "cancelled" /\ work[r][1] \in {None, "waiting", "running"}
    \/ status[r] \in {"completed", "failed"} /\ job[r][1] \notin Live /\ work[r][1] = None

\* What handlers of set_state have decided is one of the operator's states.
Decided ==
    \/ operator = NoChange
    \/ operator.entry \in Scenes /\ operator.to \in {"proposed", "approved", "retired"}

\* The job of r has not ended, and this process goes on with it.
Making(r) == job[r][1] \in Live /\ work[r][1] # None

\* Pictures that are, or once were, in the library.
Shelf == kept \cup removed

SetFollows(p) ==
    set[p] # None =>
        /\ Frames(p) \subseteq kept => set[p] = "done"
        /\ set[p] = "done" => Frames(p) \subseteq Shelf
        /\ set[p] = "partial" => Frames(p) \cap Shelf # {}
        /\ set[p] \in {"planned", "partial"} => \A r \in Frames(p) : ~Making(r)
        /\ set[p] = "generating" /\ producing[p] # "submitting" =>
               restarts > 0 \/ \E r \in Frames(p) : status[r] \in Live

\* While nothing of a set was handed in, its jobs are those its producer holds.
HandedIn(p) ==
    producing[p] = "submitting" =>
        \A r \in Frames(p) : Making(r) => work[r][1] \in {"owed", "submitting"}

KeptWereMade == \A r \in kept : status[r] = "completed"

BackgroundInv ==
    /\ BackgroundTypeOK /\ Decided
    /\ \A r \in Requests : RowsAgree(r)
    /\ SceneAndRequestAgree
    /\ KeptWereMade
    /\ \A p \in Sets : SetFollows(p) /\ HandedIn(p)

\* The keys of scenes and frames are requests, and no two of them are the same.
LEMMA KeysApart ==
    /\ \A e \in Scenes : SceneKey(e) \in Requests
    /\ \A p \in Sets : Frames(p) \subseteq Requests
    /\ \A d, e \in Scenes : SceneKey(d) = SceneKey(e) => d = e
    /\ \A e \in Scenes, p \in Sets : SceneKey(e) \notin Frames(p)
    /\ \A p, q \in Sets : Frames(p) \cap Frames(q) # {} => p = q
    /\ \A r \in Requests : (\E e \in Scenes : r = SceneKey(e)) \/ (\E p \in Sets : r \in Frames(p))
<1>1. /\ \A e \in Scenes : SceneKey(e) \in Requests
      /\ \A p \in Sets : Frames(p) \subseteq Requests
      /\ \A r \in Requests : (\E e \in Scenes : r = SceneKey(e)) \/ (\E p \in Sets : r \in Frames(p))
  BY KeysAssumption
<1>2. \A d, e \in Scenes : SceneKey(d) = SceneKey(e) => d = e
  BY DEF SceneKey
<1>3. \A e \in Scenes, p \in Sets : SceneKey(e) \notin Frames(p)
  <2> SUFFICES ASSUME NEW e \in Scenes, NEW p \in Sets, NEW i \in 0 .. FrameCount - 1, SceneKey(e) = FrameKey(p, i)
               PROVE  FALSE
    BY DEF Frames
  <2>1. SceneKey(e)[1] = "scene" /\ FrameKey(p, i)[1] = "frame"
    BY DEF SceneKey, FrameKey
  <2> QED
    BY <2>1
<1>4. \A p, q \in Sets : Frames(p) \cap Frames(q) # {} => p = q
  <2> SUFFICES ASSUME NEW p \in Sets, NEW q \in Sets, NEW i, NEW j, FrameKey(p, i) = FrameKey(q, j)
               PROVE  p = q
    BY DEF Frames
  <2> QED
    BY DEF FrameKey
<1> QED
  BY <1>1, <1>2, <1>3, <1>4

\* The frames of a set that are in the library are all of them when there are as
\* many as the set has frames.
LEMMA FramesAreFew ==
    ASSUME NEW p \in Sets, NEW K, K \subseteq Frames(p)
    PROVE  /\ Cardinality(K) \in Nat
           /\ Cardinality(K) >= FrameCount <=> Frames(p) \subseteq K
           /\ Cardinality(K) > 0 => K # {}
<1> DEFINE I == 0 .. FrameCount - 1
           f == [i \in I |-> FrameKey(p, i)]
<1>1. FrameCount \in Nat
  BY BackgroundAssumption
<1>2. IsFiniteSet(I) /\ Cardinality(I) = FrameCount
  BY <1>1, FS_Interval
<1>3. f \in Injection(I, Frames(p)) /\ f \in Surjection(I, Frames(p))
  <2>1. \A i \in I : f[i] = FrameKey(p, i) /\ f[i] \in Frames(p)
    BY DEF Frames
  <2>2. ASSUME NEW i \in I, NEW j \in I, f[i] = f[j] PROVE i = j
    <3>1. FrameKey(p, i) = FrameKey(p, j)
      BY <2>1, <2>2
    <3> QED
      BY <3>1 DEF FrameKey
  <2>3. \A y \in Frames(p) : \E i \in I : f[i] = y
    BY <2>1 DEF Frames
  <2>4. f \in [I -> Frames(p)]
    BY <2>1
  <2> HIDE DEF f
  <2>5. f \in Injection(I, Frames(p))
    BY <2>2, <2>4 DEF Injection, IsInjective
  <2>6. f \in Surjection(I, Frames(p))
    BY <2>3, <2>4 DEF Surjection
  <2> QED
    BY <2>5, <2>6
<1> HIDE DEF f, I
<1>4. IsFiniteSet(Frames(p)) /\ Cardinality(Frames(p)) = FrameCount
  BY <1>2, <1>3, FS_Surjection
<1>5. /\ IsFiniteSet(K) /\ Cardinality(K) <= Cardinality(Frames(p))
      /\ Cardinality(K) = Cardinality(Frames(p)) => K = Frames(p)
  BY <1>4, FS_Subset
<1>6. Cardinality(K) \in Nat
  BY <1>5, FS_CardinalityType
<1>7. Frames(p) \subseteq K => Cardinality(K) = FrameCount
  BY <1>4
<1>8. K = {} => Cardinality(K) = 0
  BY FS_EmptySet
<1> QED
  BY <1>1, <1>4, <1>5, <1>6, <1>7, <1>8

\* A set has frames.
LEMMA FramesExist == ASSUME NEW p \in Sets PROVE Frames(p) # {}
<1>1. FrameKey(p, 0) \in Frames(p)
  BY BackgroundAssumption DEF Frames
<1> QED
  BY <1>1

LEMMA FirstNumber == 1 \in JobNumbers
BY CapabilityAssumption DEF JobNumbers

LEMMA BackgroundStarts == ASSUME BackgroundInit PROVE BackgroundInv
<1>1. TypeOK
  <2>1. /\ \A r \in Requests : status[r] = None /\ work[r] = NoJobs /\ job[r] = NoJobs
        /\ status \in [Requests -> Statuses]
        /\ job \in [Requests -> JobType] /\ work \in [Requests -> WorkType]
    BY DEF BackgroundInit, Init, NoJobs, JobType, WorkType, Statuses
  <2>2. attachment \in [Requests -> AttachmentType]
    BY DEF BackgroundInit, Init, NoAttachment, AttachmentType, None
  <2>3. restarts \in 0 .. MaxRestarts
    BY CapabilityAssumption DEF BackgroundInit, Init
  <2> QED
    BY <2>1, <2>2, <2>3 DEF BackgroundInit, Init, TypeOK, JobType, WorkType, AttachmentType
<1>2. BackgroundTypeOK
  BY <1>1, BackgroundAssumption DEF BackgroundInit, BackgroundTypeOK, SceneStates, SetStates, NoChange
<1>3. \A r \in Requests : status[r] = None /\ job[r][1] = None /\ work[r][1] = None
  BY FirstNumber DEF BackgroundInit, Init, NoJobs
<1> QED
  BY <1>2, <1>3, KeysApart DEF BackgroundInit, BackgroundInv, Decided, RowsAgree, SceneAndRequestAgree, KeptWereMade,
                               SetFollows, HandedIn, None

-----------------------------------------------------------------------------
\* Only r moves: its rows go on as a job's do, and no other row is touched.
OnlyMoves(r) ==
    /\ TypeOK'
    /\ \A q \in Requests \ {r} : status'[q] = status[q] /\ job'[q][1] = job[q][1] /\ work'[q][1] = work[q][1]
    /\ restarts' = restarts

\* Its request and its job end together.
Ends(r, out) ==
    /\ status[r] \in Live /\ job[r][1] \in Live
    /\ status'[r] = out /\ job'[r][1] = out
    /\ out = "completed" => work[r][1] = "running"

LEMMA TransitionMoves ==
    ASSUME TypeOK, NEW r \in Requests, NEW s \in {"running", "completed", "failed", "cancelled"}, Transition(r, s)
    PROVE  /\ status' \in [Requests -> Statuses] /\ attachment' \in [Requests -> AttachmentType]
           /\ status'[r] = s /\ \A q \in Requests \ {r} : status'[q] = status[q]
BY WritesShow DEF Transition, Writes, Statuses, Live, Ended, None

\* The types of a step on the first job of r that leaves the rest alone.
LEMMA MoveTypes ==
    ASSUME TypeOK, NEW r \in Requests,
           \/ UNCHANGED <<status, attachment>>
           \/ \E s \in {"running", "completed", "failed", "cancelled"} : Transition(r, s),
           NEW x \in {"running", "completed", "failed", "cancelled"},
           job' = job \/ job' = [job EXCEPT ![r][1] = x],
           NEW y \in {None, "submitting", "waiting", "running"},
           work' = work \/ work' = [work EXCEPT ![r][1] = y],
           UNCHANGED <<origin, kind, plan, replaces, permitted, session, isolated, refused, restarts>>
    PROVE  /\ OnlyMoves(r)
           /\ job' # job => job'[r][1] = x
           /\ work' # work => work'[r][1] = y
<1>1. /\ status' \in [Requests -> Statuses] /\ attachment' \in [Requests -> AttachmentType]
      /\ \A q \in Requests \ {r} : status'[q] = status[q]
  BY TransitionMoves DEF TypeOK, AttachmentType
<1>2. /\ job' \in [Requests -> JobType] /\ \A q \in Requests \ {r} : job'[q][1] = job[q][1]
      /\ job' # job => job'[r][1] = x
  <2>1. job \in [Requests -> JobType] /\ x \in {None} \cup Live \cup Ended
    BY DEF TypeOK, JobType, Live, Ended
  <2> QED
    BY <2>1, EntryWrites, FirstNumber DEF JobType
<1>3. /\ work' \in [Requests -> WorkType] /\ \A q \in Requests \ {r} : work'[q][1] = work[q][1]
      /\ work' # work => work'[r][1] = y
  <2>1. work \in [Requests -> WorkType]
    BY DEF TypeOK, WorkType
  <2> QED
    BY <2>1, EntryWrites, FirstNumber DEF WorkType
<1>4. TypeOK'
  BY <1>1, <1>2, <1>3 DEF TypeOK, AttachmentType, JobType, WorkType
<1> QED
  BY <1>1, <1>2, <1>3, <1>4 DEF OnlyMoves

\* The row of r goes on, and its request and its job end if they have ended.
GoesOn(r) ==
    /\ OnlyMoves(r) /\ RowsAgree(r)'
    /\ status'[r] \in Live <=> status[r] \in Live
    /\ status[r] = "completed" => status'[r] = "completed"
    /\ Making(r)' => Making(r)

\* It is not handed in by that.
StaysHeld(r) ==
    Making(r)' /\ work'[r][1] \notin {"owed", "submitting"} => work[r][1] \notin {"owed", "submitting"}

\* A step that ends nothing.
LEMMA QuietMoves ==
    ASSUME BackgroundInv, NEW r \in Requests,
           \/ CheckBackground(r) \/ StartPicture(r) \/ AbandonPicture(r) \/ Submit(r, 1)
           \/ SubmitFails(r, 1) /\ job[r][1] # "queued"
    PROVE  /\ GoesOn(r) /\ (~Submit(r, 1) => StaysHeld(r))
           /\ work[r][1] \in {"owed", "submitting"} => status[r] = "queued"
           /\ CheckBackground(r) => work'[r][1] = "submitting"
<1>1. TypeOK /\ RowsAgree(r) /\ 1 \in JobNumbers /\ job \in [Requests -> JobType] /\ work \in [Requests -> WorkType]
  BY FirstNumber DEF BackgroundInv, BackgroundTypeOK, TypeOK, JobType, WorkType
<1>2. work[r][1] \in {"owed", "submitting"} => status[r] = "queued"
  BY <1>1 DEF RowsAgree, None
<1>3. CASE CheckBackground(r)
  <2>1. work' = [work EXCEPT ![r][1] = "submitting"] /\ work[r][1] = "owed" /\ status[r] = "queued"
        /\ UNCHANGED <<requestVars, job, handlerVars, restarts>>
    BY <1>2, <1>3 DEF CheckBackground
  <2>2. work'[r][1] = "submitting"
    BY <1>1, <2>1, EntryWrites DEF WorkType
  <2>3. OnlyMoves(r)
    BY <1>1, <2>1, MoveTypes DEF requestVars, handlerVars
  <2> QED
    BY <1>1, <1>2, <2>1, <2>2, <2>3 DEF GoesOn, StaysHeld, Making, RowsAgree, requestVars, Live, None
<1>4. CASE StartPicture(r)
  <2>1. /\ job' = [job EXCEPT ![r][1] = "running"] /\ work' = [work EXCEPT ![r][1] = "running"]
        /\ work[r][1] = "waiting" /\ job[r][1] = "queued" /\ status[r] = "queued" /\ Transition(r, "running")
        /\ UNCHANGED <<origin, kind, plan, replaces, permitted, session, isolated, refused, restarts>>
    BY <1>1, <1>4 DEF StartPicture, StartJob, RowsAgree, jobFrame, handlerVars, Live
  <2>2. job'[r][1] = "running" /\ work'[r][1] = "running"
    BY <1>1, <2>1, EntryWrites DEF JobType, WorkType, Live
  <2>3. OnlyMoves(r) /\ status'[r] = "running"
    BY <1>1, <2>1, MoveTypes, TransitionMoves
  <2> QED
    BY <1>2, <1>4, <2>1, <2>2, <2>3 DEF GoesOn, StaysHeld, Making, RowsAgree, Live, None, StartPicture, StartJob, CheckBackground
<1>5. CASE AbandonPicture(r) \/ (SubmitFails(r, 1) /\ job[r][1] # "queued")
  <2>1. /\ work' = [work EXCEPT ![r][1] = None] /\ UNCHANGED <<status, attachment, job>>
        /\ UNCHANGED <<origin, kind, plan, replaces, permitted, session, isolated, refused, restarts>>
        /\ work[r][1] \in {"submitting", "waiting", "running"} /\ job[r][1] = "cancelled"
    BY <1>1, <1>5 DEF AbandonPicture, Abandon, SubmitFails, RowsAgree, requestVars, handlerVars, jobFrame, None
  <2>2. work'[r][1] = None
    BY <1>1, <2>1, EntryWrites DEF WorkType
  <2>3. OnlyMoves(r)
    BY <1>1, <2>1, MoveTypes
  <2>4. ~CheckBackground(r)
    BY <1>5, <2>1, <2>2 DEF AbandonPicture, Abandon, SubmitFails, CheckBackground
  <2> QED
    BY <1>1, <1>2, <2>1, <2>2, <2>3, <2>4 DEF GoesOn, StaysHeld, Making, RowsAgree, Live, None
<1>6. CASE Submit(r, 1)
  <2>1. /\ work' = [work EXCEPT ![r][1] = "waiting"] /\ work[r][1] = "submitting"
        /\ UNCHANGED <<requestVars, job, handlerVars, restarts>>
    BY <1>6 DEF Submit
  <2>2. work'[r][1] = "waiting"
    BY <1>1, <2>1, EntryWrites DEF WorkType
  <2>3. OnlyMoves(r)
    BY <1>1, <2>1, MoveTypes DEF requestVars, handlerVars
  <2> QED
    BY <1>1, <1>2, <1>6, <2>1, <2>2, <2>3 DEF GoesOn, Making, RowsAgree, requestVars, None, CheckBackground
<1> QED
  BY <1>3, <1>4, <1>5, <1>6

\* A step that ends the request with its job.
LEMMA EndMoves ==
    ASSUME BackgroundInv, NEW r \in Requests, NEW out,
           \/ out = "failed" /\ SubmitFails(r, 1) /\ job[r][1] = "queued"
           \/ out \in {"completed", "failed"} /\ EndJob(r, 1, out)
           \/ out = "cancelled" /\ CancelPicture(r) /\ work[r][1] \in {"waiting", "running"}
    PROVE  OnlyMoves(r) /\ RowsAgree(r)' /\ Ends(r, out) /\ out \in {"completed", "failed", "cancelled"}
<1>1. TypeOK /\ RowsAgree(r) /\ 1 \in JobNumbers /\ job \in [Requests -> JobType] /\ work \in [Requests -> WorkType]
  BY FirstNumber DEF BackgroundInv, BackgroundTypeOK, TypeOK, JobType, WorkType
<1>2. /\ job[r][1] \in Live /\ status[r] = job[r][1] /\ out \in {"completed", "failed", "cancelled"}
      /\ out = "completed" => work[r][1] = "running" /\ status[r] = "running"
      /\ out = "cancelled" => work[r][1] \in {"waiting", "running"}
  BY <1>1 DEF RowsAgree, SubmitFails, EndJob, CancelPicture, Live, None
<1>3. Finish(r, out)
  BY <1>2 DEF SubmitFails, EndJob, CancelPicture
<1>4. Transition(r, out)
  BY <1>2, <1>3 DEF Finish, Live, Ended
<1>5. /\ job' = [job EXCEPT ![r][1] = out]
      /\ work' = work \/ work' = [work EXCEPT ![r][1] = None]
      /\ out # "cancelled" => work' = [work EXCEPT ![r][1] = None]
      /\ out = "cancelled" => work' = work
      /\ UNCHANGED <<origin, kind, plan, replaces, permitted, session, isolated, refused, restarts>>
  BY DEF SubmitFails, EndJob, CancelPicture, JobEnds, jobFrame, handlerVars
<1>6. job'[r][1] = out
  BY <1>1, <1>2, <1>5, EntryWrites DEF JobType, Ended
<1>7. out # "cancelled" => work'[r][1] = None
  BY <1>1, <1>5, EntryWrites DEF WorkType
<1>8. OnlyMoves(r) /\ status'[r] = out
  BY <1>1, <1>2, <1>4, <1>5, MoveTypes, TransitionMoves
<1> QED
  BY <1>2, <1>5, <1>6, <1>7, <1>8 DEF RowsAgree, Ends, Live, None

-----------------------------------------------------------------------------
\* What a set is stays true while no frame of it ends or begins.
LEMMA SetStays ==
    ASSUME BackgroundInv, NEW p \in Sets, set'[p] = set[p], (kept \cap Frames(p))' \subseteq kept,
           Shelf \subseteq Shelf', restarts' = restarts,
           \A q \in Frames(p) : (status[q] \in Live => status'[q] \in Live) /\ (Making(q)' => Making(q)),
           producing'[p] # "submitting" => producing[p] # "submitting" \/ \E q \in Frames(p) : status[q] \in Live
    PROVE  SetFollows(p)'
<1>1. SetFollows(p)
  BY DEF BackgroundInv
<1>2. Frames(p)' = Frames(p)
  BY DEF Frames
<1>3. Frames(p) \subseteq kept' => Frames(p) \subseteq kept
  BY <1>2
<1> QED
  BY <1>1, <1>2, <1>3 DEF SetFollows

LEMMA HeldStays ==
    ASSUME BackgroundInv, NEW p \in Sets, producing'[p] = "submitting" => producing[p] = "submitting",
           producing'[p] = "submitting" => \A q \in Frames(p) : (Making(q)' => Making(q)) /\ StaysHeld(q)
    PROVE  HandedIn(p)'
BY DEF BackgroundInv, HandedIn, StaysHeld, Frames

LEMMA SceneStays ==
    ASSUME BackgroundInv, UNCHANGED <<scene, link>>,
           \A e \in Scenes : scene[e] = "generating" \/ scene[e] = "done" =>
               /\ status[SceneKey(e)] \in Live => status'[SceneKey(e)] \in Live
               /\ status[SceneKey(e)] = "completed" => status'[SceneKey(e)] = "completed"
    PROVE  SceneAndRequestAgree'
BY DEF BackgroundInv, SceneAndRequestAgree, SceneKey

\* The entry of a request that has ended is settled.
LEMMA SceneSettles ==
    ASSUME BackgroundInv, NEW e \in Scenes, NEW out \in {"completed", "failed", "cancelled"},
           OnlyMoves(SceneKey(e)), SettleScene(e, out),
           Ends(SceneKey(e), out) \/ (GoesOn(SceneKey(e)) /\ out = "failed")
    PROVE  scene' \in [Scenes -> SceneStates] /\ link' \in [Scenes -> BOOLEAN] /\ SceneAndRequestAgree'
<1>1. scene \in [Scenes -> SceneStates] /\ link \in [Scenes -> BOOLEAN]
  BY DEF BackgroundInv, BackgroundTypeOK
<1>2. \A d \in Scenes : d # e => status'[SceneKey(d)] = status[SceneKey(d)]
  BY KeysApart DEF OnlyMoves
<1>3. CASE link[e] /\ scene[e] = "generating"
  <2>1. /\ scene' = [scene EXCEPT ![e] = IF out = "completed" THEN "done" ELSE "approved"]
        /\ link' = [link EXCEPT ![e] = (out = "completed")]
    BY <1>3 DEF SettleScene
  <2>2. scene' \in [Scenes -> SceneStates] /\ link' \in [Scenes -> BOOLEAN]
    <3>1. (out = "completed") \in BOOLEAN
      OBVIOUS
    <3>2. link' \in [Scenes -> BOOLEAN]
      BY <1>1, <2>1, <3>1
    <3>3. scene' \in [Scenes -> SceneStates]
      BY <1>1, <2>1 DEF SceneStates
    <3> QED
      BY <3>2, <3>3
  <2>3. out = "completed" => status'[SceneKey(e)] = "completed"
    BY DEF Ends
  <2>4. scene'[e] = (IF out = "completed" THEN "done" ELSE "approved")
        /\ \A d \in Scenes \ {e} : scene'[d] = scene[d] /\ link'[d] = link[d]
    BY <1>1, <2>1
  <2> QED
    BY <1>2, <2>2, <2>3, <2>4 DEF BackgroundInv, SceneAndRequestAgree, SceneKey
<1>4. CASE ~(link[e] /\ scene[e] = "generating")
  <2>1. UNCHANGED <<scene, link>>
    BY <1>4 DEF SettleScene
  <2>2. scene[e] # "generating"
    BY <1>4 DEF BackgroundInv, SceneAndRequestAgree
  <2>3. scene[e] = "done" => status'[SceneKey(e)] = "completed"
    BY DEF BackgroundInv, SceneAndRequestAgree, Ends, GoesOn, Live
  <2> QED
    BY <1>1, <1>2, <2>1, <2>2, <2>3 DEF BackgroundInv, SceneAndRequestAgree, SceneKey
<1> QED
  BY <1>3, <1>4

\* A frame that has ended is settled: its set is worked out anew, from what is
\* in the library and from what is still being made.
LEMMA FrameSettles ==
    ASSUME BackgroundInv, NEW p \in Sets, NEW r \in Frames(p), NEW out,
           OnlyMoves(r), Ends(r, out), RowsAgree(r)', out \in {"completed", "failed", "cancelled"},
           SettleFrame(r, p, out), UNCHANGED <<producing, removed>>
    PROVE  /\ set' \in [Sets -> SetStates] /\ kept' \subseteq Requests /\ KeptWereMade'
           /\ \A q \in Sets : SetFollows(q)' /\ HandedIn(q)'
<1>1. /\ set \in [Sets -> SetStates] /\ kept \subseteq Requests /\ r \in Requests
      /\ \A q \in Frames(p) : q \in Requests
  BY KeysApart DEF BackgroundInv, BackgroundTypeOK
<1>2. /\ status'[r] \notin Live /\ ~Making(r)' /\ status[r] \in Live
      /\ \A q \in Requests : Making(q)' => Making(q)
  BY DEF Ends, Live, OnlyMoves, Making
<1>3. /\ kept' = kept \/ (kept' = kept \cup {r} /\ out = "completed")
      /\ set[p] = None => set' = set /\ kept' = kept
      /\ set[p] # None => set' = [set EXCEPT ![p] = SetState(Cardinality(kept' \cap Frames(p)),
                                                              Outstanding(p, {r}) = {})]
  BY DEF SettleFrame
<1>4. kept' \subseteq Requests /\ KeptWereMade'
  BY <1>1, <1>2, <1>3 DEF BackgroundInv, KeptWereMade, OnlyMoves, Ends, Live
<1>5. set' \in [Sets -> SetStates]
  BY <1>1, <1>3 DEF SetState, SetStates
<1>6. ASSUME NEW q \in Sets, q # p PROVE SetFollows(q)'
  <2>1. r \notin Frames(q) /\ (kept \cap Frames(q))' \subseteq kept /\ Shelf \subseteq Shelf'
    BY <1>3, <1>6, KeysApart DEF Frames, Shelf
  <2>2. set'[q] = set[q]
    BY <1>1, <1>3, <1>6
  <2> QED
    BY <1>2, <2>1, <2>2, SetStays, KeysApart DEF OnlyMoves
<1>7. SetFollows(p)'
  <2>1. CASE set[p] = None
    BY <2>1, <1>3 DEF SetFollows
  <2>2. CASE set[p] # None
    <3> DEFINE n == Cardinality(kept' \cap Frames(p))
    <3>1. /\ n \in Nat /\ FrameCount \in Nat /\ FrameCount >= 2
          /\ n >= FrameCount <=> Frames(p) \subseteq kept'
          /\ n > 0 => Frames(p) \cap kept' # {}
      <4>1. kept' \cap Frames(p) \subseteq Frames(p)
        OBVIOUS
      <4> HIDE DEF n
      <4>2. /\ n \in Nat
            /\ n >= FrameCount <=> Frames(p) \subseteq kept' \cap Frames(p)
            /\ n > 0 => kept' \cap Frames(p) # {}
        BY <4>1, FramesAreFew DEF n
      <4> QED
        BY <4>2, BackgroundAssumption
    <3>2. set'[p] = SetState(n, Outstanding(p, {r}) = {})
      BY <1>1, <1>3, <2>2
    <3>3. Outstanding(p, {r}) = {} <=> \A q \in Frames(p) : status'[q] \notin Live
      BY <1>1, <1>2 DEF Outstanding, OnlyMoves
    <3>4. \A q \in Frames(p) : Making(q)' => status'[q] \in Live
      BY <1>1, <1>2 DEF BackgroundInv, RowsAgree, OnlyMoves, Making, Live, None
    <3> HIDE DEF n
    <3>5. /\ set'[p] = "done" <=> n >= FrameCount
          /\ set'[p] = "partial" => n > 0
          /\ set'[p] \in {"planned", "partial"} => Outstanding(p, {r}) = {}
          /\ set'[p] = "generating" => Outstanding(p, {r}) # {}
      BY <3>1, <3>2 DEF SetState
    <3> QED
      BY <3>1, <3>3, <3>4, <3>5 DEF SetFollows, Shelf, Frames
  <2> QED
    BY <2>1, <2>2
<1>8. ASSUME NEW q \in Sets PROVE HandedIn(q)'
  BY <1>2, HeldStays, KeysApart DEF OnlyMoves, StaysHeld
<1> QED
  BY <1>4, <1>5, <1>6, <1>7, <1>8

-----------------------------------------------------------------------------
\* The invariant from what the lemmas above give.
LEMMA PutTogether ==
    ASSUME BackgroundInv, TypeOK', \A q \in Requests : RowsAgree(q)',
           scene' \in [Scenes -> SceneStates], link' \in [Scenes -> BOOLEAN], operator' \in {operator, NoChange},
           allowance' \in 0 .. MaxPerRun, set' \in [Sets -> SetStates],
           producing' \in [Sets -> {"idle", "submitting", "started"}],
           kept' \subseteq Requests, removed' \subseteq Requests, SceneAndRequestAgree', KeptWereMade',
           \A p \in Sets : SetFollows(p)' /\ HandedIn(p)'
    PROVE  BackgroundInv'
<1>1. operator'.entry \in Scenes \cup {0} /\ Decided'
  BY DEF BackgroundInv, BackgroundTypeOK, Decided, NoChange
<1> QED
  BY <1>1 DEF BackgroundInv, BackgroundTypeOK

LEMMA BackgroundShape ==
    ASSUME BackgroundInv
    PROVE  /\ TypeOK /\ \A q \in Requests : RowsAgree(q)
           /\ scene \in [Scenes -> SceneStates] /\ link \in [Scenes -> BOOLEAN]
           /\ allowance \in 0 .. MaxPerRun /\ 0 \in 0 .. MaxPerRun /\ MaxPerRun \in 0 .. MaxPerRun
           /\ set \in [Sets -> SetStates] /\ producing \in [Sets -> {"idle", "submitting", "started"}]
           /\ kept \subseteq Requests /\ removed \subseteq Requests /\ \A q \in kept : status[q] = "completed"
BY BackgroundAssumption DEF BackgroundInv, BackgroundTypeOK, KeptWereMade

LEMMA OthersAgree ==
    ASSUME BackgroundInv, NEW r \in Requests, OnlyMoves(r), RowsAgree(r)'
    PROVE  \A q \in Requests : RowsAgree(q)'
BY DEF BackgroundInv, OnlyMoves, RowsAgree

\* A row that goes on leaves scenes and the library as they are.
LEMMA GoesOnStays ==
    ASSUME BackgroundInv, NEW r \in Requests, GoesOn(r), UNCHANGED <<scene, link, set, kept, removed>>
    PROVE  /\ SceneAndRequestAgree' /\ KeptWereMade'
           /\ \A p \in Sets : \A q \in Frames(p) :
                /\ status[q] \in Live => status'[q] \in Live
                /\ Making(q)' => Making(q)
<1>1. \A q \in Requests : /\ status[q] \in Live => status'[q] \in Live
                          /\ status[q] = "completed" => status'[q] = "completed"
                          /\ Making(q)' => Making(q)
  BY DEF GoesOn, OnlyMoves, Making
<1>2. SceneAndRequestAgree'
  BY <1>1, SceneStays, KeysApart
<1>3. KeptWereMade'
  BY <1>1, BackgroundShape DEF KeptWereMade
<1> QED
  BY <1>1, <1>2, <1>3, KeysApart

\* Steps of a picture's job that end nothing.
LEMMA PictureGoesOn ==
    ASSUME BackgroundInv, NEW r \in Requests,
           \/ CheckBackground(r) \/ StartPicture(r) \/ AbandonPicture(r) \/ SubmitBackground(r)
    PROVE  BackgroundInv'
<1>1. CASE CheckBackground(r) \/ StartPicture(r) \/ AbandonPicture(r)
  <2>1. GoesOn(r) /\ (CheckBackground(r) => work'[r][1] = "submitting")
    BY <1>1, QuietMoves
  <2>2. StaysHeld(r)
    <3>1. CASE Submit(r, 1)
      <4>1. job[r][1] # "queued" \/ work[r][1] = "submitting"
        BY <3>1 DEF Submit
      <4> QED
        BY <1>1, <3>1 DEF Submit, CheckBackground, StartPicture, StartJob, AbandonPicture, Abandon
    <3>2. CASE ~Submit(r, 1)
      BY <1>1, <3>2, QuietMoves
    <3> QED
      BY <3>1, <3>2
  <2>3. producing' = producing
    <3>1. CASE CheckBackground(r)
      <4>1. producing' = [p \in Sets |-> producing[p]]
        BY <2>1, <3>1 DEF CheckBackground, None
      <4> QED
        BY <4>1, BackgroundShape
    <3> QED
      BY <1>1, <3>1 DEF StartPicture, AbandonPicture, backgroundVars, setVars
  <2>4. UNCHANGED <<scene, link, operator, allowance, set, kept, removed>>
    BY <1>1 DEF CheckBackground, StartPicture, AbandonPicture, backgroundVars, setVars, sceneVars
  <2>5. \A p \in Sets : SetFollows(p)' /\ HandedIn(p)'
    <3> SUFFICES ASSUME NEW p \in Sets PROVE SetFollows(p)' /\ HandedIn(p)'
      OBVIOUS
    <3>1. SetFollows(p)'
      BY <2>1, <2>3, <2>4, GoesOnStays, SetStays DEF GoesOn, OnlyMoves, Frames, Shelf
    <3>2. \A q \in Frames(p) : StaysHeld(q)
      BY <2>1, <2>2, KeysApart DEF GoesOn, OnlyMoves, StaysHeld
    <3>3. HandedIn(p)'
      BY <2>1, <2>3, <2>4, <3>2, GoesOnStays, HeldStays
    <3> QED
      BY <3>1, <3>3
  <2> QED
    BY <2>1, <2>3, <2>4, <2>5, GoesOnStays, BackgroundShape, OthersAgree, PutTogether DEF GoesOn, OnlyMoves
<1>2. CASE SubmitBackground(r)
  <2>1. /\ GoesOn(r) /\ status[r] = "queued" /\ UNCHANGED <<scene, link, operator, allowance, set, kept, removed>>
        /\ producing' = [p \in Sets |-> IF r \in Frames(p) /\ producing[p] # "idle" THEN "started" ELSE producing[p]]
    BY <1>2, QuietMoves DEF SubmitBackground, Submit, sceneVars
  <2>2. producing' \in [Sets -> {"idle", "submitting", "started"}]
    BY <2>1, BackgroundShape
  <2>3. \A p \in Sets : SetFollows(p)' /\ HandedIn(p)'
    <3> SUFFICES ASSUME NEW p \in Sets PROVE SetFollows(p)' /\ HandedIn(p)'
      OBVIOUS
    <3>1. producing'[p] = IF r \in Frames(p) /\ producing[p] # "idle" THEN "started" ELSE producing[p]
      BY <2>1
    <3>2. producing'[p] # "submitting" => producing[p] # "submitting" \/ \E q \in Frames(p) : status[q] \in Live
      BY <2>1, <3>1 DEF Live
    <3>3. SetFollows(p)'
      BY <2>1, <3>2, GoesOnStays, SetStays DEF GoesOn, OnlyMoves, Frames, Shelf
    <3>4. producing'[p] = "submitting" => producing[p] = "submitting" /\ \A q \in Frames(p) : StaysHeld(q)
      BY <2>1, <3>1, KeysApart DEF GoesOn, OnlyMoves, StaysHeld
    <3>5. HandedIn(p)'
      BY <2>1, <3>4, GoesOnStays, HeldStays
    <3> QED
      BY <3>3, <3>5
  <2> QED
    BY <2>1, <2>2, <2>3, GoesOnStays, BackgroundShape, OthersAgree, PutTogether DEF GoesOn, OnlyMoves
<1> QED
  BY <1>1, <1>2

\* Steps of a picture's job that end the request and settle what it was for.
LEMMA PictureSettles ==
    ASSUME BackgroundInv, NEW r \in Requests, NEW out \in {"completed", "failed", "cancelled"},
           OnlyMoves(r), RowsAgree(r)', Ends(r, out), Settle(r, out), UNCHANGED <<operator, producing, removed>>,
           allowance' \in 0 .. MaxPerRun
    PROVE  BackgroundInv'
<1>1. CASE \E e \in Scenes : r = SceneKey(e) /\ SettleScene(e, out) /\ UNCHANGED <<set, kept>>
  <2>1. PICK e \in Scenes : r = SceneKey(e) /\ SettleScene(e, out) /\ UNCHANGED <<set, kept>>
    BY <1>1
  <2>2. scene' \in [Scenes -> SceneStates] /\ link' \in [Scenes -> BOOLEAN] /\ SceneAndRequestAgree'
    BY <2>1, SceneSettles
  <2>3. \A p \in Sets : \A q \in Frames(p) : status'[q] = status[q] /\ job'[q][1] = job[q][1] /\ work'[q][1] = work[q][1]
    BY <2>1, KeysApart DEF OnlyMoves
  <2>4. \A p \in Sets : SetFollows(p)'
    BY <2>1, <2>3, SetStays DEF OnlyMoves, Frames, Shelf, Making
  <2>5. \A p \in Sets : HandedIn(p)'
    BY <2>3, HeldStays DEF StaysHeld, Making
  <2>6. KeptWereMade'
    BY <2>1, BackgroundShape DEF KeptWereMade, OnlyMoves, Ends, Live
  <2> QED
    BY <2>1, <2>2, <2>4, <2>5, <2>6, BackgroundShape, OthersAgree, PutTogether DEF OnlyMoves
<1>2. CASE \E p \in Sets : r \in Frames(p) /\ SettleFrame(r, p, out) /\ UNCHANGED <<scene, link>>
  <2>1. PICK p \in Sets : r \in Frames(p) /\ SettleFrame(r, p, out) /\ UNCHANGED <<scene, link>>
    BY <1>2
  <2>2. /\ set' \in [Sets -> SetStates] /\ kept' \subseteq Requests /\ KeptWereMade'
        /\ \A q \in Sets : SetFollows(q)' /\ HandedIn(q)'
    BY <2>1, FrameSettles
  <2>3. \A e \in Scenes : status'[SceneKey(e)] = status[SceneKey(e)]
    BY <2>1, KeysApart DEF OnlyMoves
  <2>4. SceneAndRequestAgree'
    BY <2>1, <2>3, SceneStays
  <2> QED
    BY <2>1, <2>2, <2>4, BackgroundShape, OthersAgree, PutTogether DEF OnlyMoves
<1> QED
  BY <1>1, <1>2 DEF Settle

\* An exception that ends nothing: the scene is released all the same.
LEMMA GiveBackKeeps ==
    ASSUME BackgroundInv, NEW r \in Requests, GoesOn(r), StaysHeld(r), GiveBack(r),
           UNCHANGED <<operator, producing, removed>>
    PROVE  BackgroundInv'
<1>1. allowance' \in 0 .. MaxPerRun /\ UNCHANGED <<set, kept>>
  BY BackgroundShape DEF GiveBack
<1>2. \A q \in Requests : /\ status[q] \in Live => status'[q] \in Live
                          /\ status[q] = "completed" => status'[q] = "completed"
                          /\ Making(q)' => Making(q)
                          /\ StaysHeld(q)
  BY DEF GoesOn, OnlyMoves, StaysHeld, Making
<1>3. scene' \in [Scenes -> SceneStates] /\ link' \in [Scenes -> BOOLEAN] /\ SceneAndRequestAgree'
  <2>1. CASE \E e \in Scenes : r = SceneKey(e) /\ SettleScene(e, "failed")
    BY <2>1, SceneSettles DEF GoesOn
  <2>2. CASE UNCHANGED <<scene, link>>
    BY <1>2, <2>2, SceneStays, KeysApart, BackgroundShape
  <2> QED
    BY <2>1, <2>2 DEF GiveBack
<1>4. KeptWereMade'
  BY <1>1, <1>2, BackgroundShape DEF KeptWereMade
<1>5. \A p \in Sets : SetFollows(p)' /\ HandedIn(p)'
  <2> SUFFICES ASSUME NEW p \in Sets PROVE SetFollows(p)' /\ HandedIn(p)'
    OBVIOUS
  <2>1. \A q \in Frames(p) : q \in Requests
    BY KeysApart
  <2>2. SetFollows(p)'
    BY <1>1, <1>2, <2>1, SetStays DEF GoesOn, OnlyMoves, Frames, Shelf
  <2>3. HandedIn(p)'
    BY <1>2, <2>1, HeldStays
  <2> QED
    BY <2>2, <2>3
<1> QED
  BY <1>1, <1>3, <1>4, <1>5, BackgroundShape, OthersAgree, PutTogether DEF GoesOn, OnlyMoves

\* A submission that fails after its job was cancelled ends nothing.
LEMMA SubmissionFailsKeeps ==
    ASSUME BackgroundInv, NEW r \in Requests, SubmitBackgroundFails(r)
    PROVE  BackgroundInv'
<1>1. UNCHANGED <<operator, producing, removed>> /\ SubmitFails(r, 1)
  BY DEF SubmitBackgroundFails
<1>2. CASE job[r][1] = "queued"
  <2>1. allowance' \in 0 .. MaxPerRun /\ Settle(r, "failed")
    BY <1>2, BackgroundShape DEF SubmitBackgroundFails
  <2> QED
    BY <1>1, <1>2, <2>1, EndMoves, PictureSettles
<1>3. CASE job[r][1] # "queued"
  <2>1. ~Submit(r, 1)
    <3>1. work'[r][1] = None
      BY <1>1, <1>3, FirstNumber, BackgroundShape, EntryWrites DEF SubmitFails, TypeOK, WorkType
    <3>2. Submit(r, 1) => work'[r][1] = "waiting"
      BY FirstNumber, BackgroundShape, EntryWrites DEF Submit, TypeOK, WorkType
    <3> QED
      BY <3>1, <3>2 DEF None
  <2>2. GoesOn(r) /\ StaysHeld(r) /\ GiveBack(r)
    BY <1>1, <1>3, <2>1, QuietMoves DEF SubmitBackgroundFails
  <2> QED
    BY <1>1, <2>2, GiveBackKeeps
<1> QED
  BY <1>2, <1>3

\* Settings that were edited: the request stays queued, with a job that nobody
\* will submit.
LEMMA CheckRaisesKeeps ==
    ASSUME BackgroundInv, NEW r \in Requests, CheckRaises(r)
    PROVE  BackgroundInv'
<1>1. TypeOK /\ RowsAgree(r) /\ work \in [Requests -> WorkType]
  BY BackgroundShape DEF TypeOK, WorkType
<1>2. /\ work' = [work EXCEPT ![r][1] = None] /\ work[r][1] = "owed" /\ status[r] = "queued"
      /\ UNCHANGED <<requestVars, job, handlerVars, restarts>>
      /\ GiveBack(r) /\ UNCHANGED <<operator, producing, removed>>
  BY DEF CheckRaises
<1>3. work'[r][1] = None
  BY <1>1, <1>2, FirstNumber, EntryWrites DEF WorkType
<1>4. OnlyMoves(r)
  BY <1>1, <1>2, MoveTypes DEF requestVars, handlerVars
<1>5. GoesOn(r) /\ StaysHeld(r)
  BY <1>1, <1>2, <1>3, <1>4 DEF GoesOn, StaysHeld, Making, RowsAgree, requestVars, None
<1> QED
  BY <1>2, <1>5, GiveBackKeeps

\* A cancellation settles only what was submitted.
LEMMA CancelKeeps ==
    ASSUME BackgroundInv, NEW r \in Requests, CancelPicture(r)
    PROVE  BackgroundInv'
<1>1. CASE work[r][1] \in {"waiting", "running"}
  <2>1. OnlyMoves(r) /\ RowsAgree(r)' /\ Ends(r, "cancelled")
    BY <1>1, EndMoves
  <2> QED
    BY <1>1, <2>1, BackgroundShape, PictureSettles DEF CancelPicture
<1>2. CASE work[r][1] \notin {"waiting", "running"}
  <2>1. /\ job' = [job EXCEPT ![r][1] = "cancelled"]
        /\ UNCHANGED <<status, attachment, scene, link, set, kept, removed, work, operator, allowance, producing>>
        /\ UNCHANGED <<origin, kind, plan, replaces, permitted, session, isolated, refused, restarts>>
        /\ status[r] \in Live /\ job[r][1] \in Live
    BY <1>2 DEF CancelPicture, jobFrame, handlerVars
  <2>2. job'[r][1] = "cancelled"
    BY <2>1, FirstNumber, BackgroundShape, EntryWrites DEF TypeOK, JobType, Live, Ended
  <2>3. OnlyMoves(r)
    BY <2>1, BackgroundShape, MoveTypes
  <2>4. RowsAgree(r)
    BY BackgroundShape
  <2>5. GoesOn(r)
    BY <1>2, <2>1, <2>2, <2>3, <2>4 DEF GoesOn, Making, RowsAgree, Live, None
  <2>6. \A p \in Sets : SetFollows(p)' /\ HandedIn(p)'
    <3> SUFFICES ASSUME NEW p \in Sets PROVE SetFollows(p)' /\ HandedIn(p)'
      OBVIOUS
    <3>1. SetFollows(p)'
      BY <2>1, <2>5, GoesOnStays, SetStays DEF Frames, Shelf
    <3>2. HandedIn(p)'
      BY <2>1, <2>5, GoesOnStays, HeldStays DEF StaysHeld
    <3> QED
      BY <3>1, <3>2
  <2> QED
    BY <2>1, <2>5, <2>6, GoesOnStays, BackgroundShape, OthersAgree, PutTogether DEF GoesOn, OnlyMoves
<1> QED
  BY <1>1, <1>2

\* Steps that leave the rows of requests and jobs alone.
LEMMA RowsRest ==
    ASSUME BackgroundInv, UNCHANGED vars
    PROVE  /\ UNCHANGED <<status, job, work, restarts>>
           /\ TypeOK' /\ \A q \in Requests : RowsAgree(q)'
<1>1. UNCHANGED <<status, origin, kind, plan, attachment, replaces, permitted, job, work, session, isolated,
                  refused, restarts>>
  BY DEF vars, requestVars, workVars, handlerVars
<1> QED
  BY <1>1, BackgroundShape DEF TypeOK, RowsAgree

LEMMA SetsRest ==
    ASSUME BackgroundInv, UNCHANGED <<status, job, work, restarts, setVars>>
    PROVE  KeptWereMade' /\ \A p \in Sets : SetFollows(p)' /\ HandedIn(p)'
BY DEF BackgroundInv, KeptWereMade, SetFollows, HandedIn, Shelf, Making, Frames, setVars

\* A picture that is taken out of the library leaves what was said of its set.
LEMMA RemoveFrameKeeps ==
    ASSUME BackgroundInv, NEW r \in Requests, RemoveFrame(r)
    PROVE  BackgroundInv'
<1>1. /\ UNCHANGED vars /\ UNCHANGED <<scene, link, operator, allowance, set, producing>>
      /\ kept' = kept \ {r} /\ removed' = removed \cup {r}
  BY DEF RemoveFrame, sceneVars
<1>2. UNCHANGED <<status, job, work, restarts>> /\ TypeOK' /\ \A q \in Requests : RowsAgree(q)'
  BY <1>1, RowsRest
<1>3. SceneAndRequestAgree'
  BY <1>1, <1>2 DEF BackgroundInv, SceneAndRequestAgree, SceneKey
<1>4. KeptWereMade' /\ kept' \subseteq Requests /\ removed' \subseteq Requests
  BY <1>1, <1>2, BackgroundShape DEF KeptWereMade
<1>5. \A p \in Sets : SetFollows(p)' /\ HandedIn(p)'
  <2> SUFFICES ASSUME NEW p \in Sets PROVE SetFollows(p)' /\ HandedIn(p)'
    OBVIOUS
  <2>1. (kept \cap Frames(p))' \subseteq kept /\ Shelf \subseteq Shelf'
    BY <1>1 DEF Shelf
  <2>2. \A q \in Frames(p) : (Making(q)' => Making(q)) /\ StaysHeld(q)
    BY <1>2 DEF Making, StaysHeld
  <2>3. SetFollows(p)'
    BY <1>1, <1>2, <2>1, <2>2, SetStays
  <2>4. HandedIn(p)'
    BY <1>1, <2>2, HeldStays
  <2> QED
    BY <2>3, <2>4
<1> QED
  BY <1>1, <1>2, <1>3, <1>4, <1>5, BackgroundShape, PutTogether

\* What the operator does to scenes, with whatever it read before.
LEMMA OperatorKeeps ==
    ASSUME BackgroundInv, (\E e \in Scenes : ProposeScene(e) \/ SetStateRead(e)) \/ SetStateCommit
    PROVE  BackgroundInv'
<1>1. UNCHANGED vars /\ UNCHANGED <<link, allowance, setVars>>
  BY DEF ProposeScene, SetStateRead, SetStateCommit
<1>2. /\ UNCHANGED <<status, job, work, restarts>> /\ TypeOK' /\ \A q \in Requests : RowsAgree(q)'
      /\ KeptWereMade' /\ \A p \in Sets : SetFollows(p)' /\ HandedIn(p)'
  BY <1>1, RowsRest, SetsRest
<1>3. /\ link' \in [Scenes -> BOOLEAN] /\ allowance' \in 0 .. MaxPerRun /\ set' \in [Sets -> SetStates]
      /\ producing' \in [Sets -> {"idle", "submitting", "started"}]
      /\ kept' \subseteq Requests /\ removed' \subseteq Requests
  BY <1>1, BackgroundShape DEF setVars
<1>4. CASE \E e \in Scenes : ProposeScene(e)
  <2>1. PICK e \in Scenes : scene' = [scene EXCEPT ![e] = "proposed"] /\ operator' = operator
    BY <1>4 DEF ProposeScene
  <2>2. scene' \in [Scenes -> SceneStates] /\ scene'[e] = "proposed"
        /\ \A d \in Scenes \ {e} : scene'[d] = scene[d]
    BY <2>1, BackgroundShape DEF SceneStates
  <2>3. SceneAndRequestAgree'
    BY <1>1, <1>2, <2>2 DEF BackgroundInv, SceneAndRequestAgree, SceneKey
  <2> QED
    BY <1>2, <1>3, <2>1, <2>2, <2>3, PutTogether
<1>5. CASE \E e \in Scenes : SetStateRead(e)
  <2>1. PICK e \in Scenes : \E to \in OperatorTransitions[scene[e]] :
            operator' = [entry |-> e, from |-> scene[e], to |-> to] /\ scene' = scene
    BY <1>5 DEF SetStateRead
  <2>2. OperatorTransitions[scene[e]] \subseteq {"proposed", "approved", "retired"}
    BY BackgroundShape DEF OperatorTransitions, SceneStates
  <2>3. Decided' /\ operator'.entry \in Scenes \cup {0}
    BY <2>1, <2>2 DEF Decided
  <2>4. SceneAndRequestAgree'
    BY <1>1, <1>2, <2>1 DEF BackgroundInv, SceneAndRequestAgree, SceneKey
  <2> QED
    BY <1>2, <1>3, <2>1, <2>3, <2>4, BackgroundShape DEF BackgroundInv, BackgroundTypeOK
<1>6. CASE SetStateCommit
  <2>1. scene' = [scene EXCEPT ![operator.entry] = operator.to] /\ operator' = NoChange
        /\ operator.entry \in Scenes /\ operator.to \in {"proposed", "approved", "retired"}
    BY <1>6 DEF SetStateCommit, BackgroundInv, Decided
  <2>2. scene' \in [Scenes -> SceneStates]
        /\ \A d \in Scenes : scene'[d] = scene[d] \/ scene'[d] \in {"proposed", "approved", "retired"}
    BY <2>1, BackgroundShape DEF SceneStates
  <2>3. SceneAndRequestAgree'
    BY <1>1, <1>2, <2>2 DEF BackgroundInv, SceneAndRequestAgree, SceneKey
  <2> QED
    BY <1>2, <1>3, <2>1, <2>2, <2>3, PutTogether
<1> QED
  BY <1>4, <1>5, <1>6

\* A step on one set.
LEMMA OneSetChanges ==
    ASSUME BackgroundInv, NEW p \in Sets, UNCHANGED vars, UNCHANGED <<scene, link, operator, allowance, kept, removed>>,
           set' \in [Sets -> SetStates], producing' \in [Sets -> {"idle", "submitting", "started"}],
           \A q \in Sets \ {p} : set'[q] = set[q] /\ producing'[q] = producing[q],
           SetFollows(p)', HandedIn(p)'
    PROVE  BackgroundInv'
<1>1. /\ UNCHANGED <<status, job, work, restarts>> /\ TypeOK' /\ \A q \in Requests : RowsAgree(q)'
      /\ kept' \subseteq Requests /\ removed' \subseteq Requests
  BY RowsRest, BackgroundShape
<1>2. SceneAndRequestAgree' /\ KeptWereMade'
  BY <1>1 DEF BackgroundInv, SceneAndRequestAgree, KeptWereMade, SceneKey
<1>3. ASSUME NEW q \in Sets \ {p} PROVE SetFollows(q)' /\ HandedIn(q)'
  <2>1. /\ (kept \cap Frames(q))' \subseteq kept /\ Shelf \subseteq Shelf'
        /\ \A r \in Frames(q) : (Making(r)' => Making(r)) /\ StaysHeld(r)
    BY <1>1 DEF Frames, Shelf, Making, StaysHeld
  <2>2. SetFollows(q)'
    BY <1>1, <2>1, SetStays
  <2>3. HandedIn(q)'
    BY <1>1, <2>1, HeldStays
  <2> QED
    BY <2>2, <2>3
<1> QED
  BY <1>1, <1>2, <1>3, BackgroundShape, PutTogether

\* A set is made and removed with nothing of it in the making.
LEMMA CreateSetKeeps ==
    ASSUME BackgroundInv, NEW p \in Sets, CreateSet(p) \/ RemoveSet(p)
    PROVE  BackgroundInv'
<1>1. /\ UNCHANGED vars /\ UNCHANGED <<scene, link, operator, allowance, kept, removed, producing>>
      /\ UNCHANGED <<status, job, work, restarts>>
  BY DEF CreateSet, RemoveSet, sceneVars, vars, requestVars, workVars
<1>2. CASE CreateSet(p)
  <2>1. set' = [set EXCEPT ![p] = "planned"] /\ \A r \in Frames(p) : status[r] = None
    BY <1>2 DEF CreateSet
  <2>2. set' \in [Sets -> SetStates] /\ set'[p] = "planned" /\ \A q \in Sets \ {p} : set'[q] = set[q]
    BY <2>1, BackgroundShape DEF SetStates
  <2>3. ~(Frames(p) \subseteq kept) /\ \A r \in Frames(p) : job[r][1] = None
    <3>1. \A r \in Frames(p) : r \in Requests /\ RowsAgree(r)
      BY BackgroundShape, KeysApart
    <3> QED
      BY <2>1, <3>1, BackgroundShape, FramesExist DEF RowsAgree, None
  <2>4. ~(Frames(p) \subseteq kept') /\ \A r \in Frames(p) : ~Making(r)'
    BY <1>1, <2>3 DEF Making, Live, None
  <2>5. SetFollows(p)'
    BY <2>2, <2>4 DEF SetFollows, Frames
  <2>6. HandedIn(p)'
    BY <2>4 DEF HandedIn, Frames
  <2> QED
    BY <1>1, <2>2, <2>5, <2>6, BackgroundShape, OneSetChanges
<1>3. CASE RemoveSet(p)
  <2>1. set' = [set EXCEPT ![p] = None] /\ producing[p] = "idle"
    BY <1>3 DEF RemoveSet
  <2>2. set' \in [Sets -> SetStates] /\ set'[p] = None /\ \A q \in Sets \ {p} : set'[q] = set[q]
    BY <2>1, BackgroundShape DEF SetStates
  <2>3. SetFollows(p)' /\ HandedIn(p)'
    BY <1>1, <2>1, <2>2 DEF SetFollows, HandedIn
  <2> QED
    BY <1>1, <2>2, <2>3, BackgroundShape, OneSetChanges
<1> QED
  BY <1>2, <1>3

\* A set that its producer gives up has no frame left to be made, and one that it
\* leaves to its jobs has a frame that they are still about.
LEMMA EndProduceKeeps ==
    ASSUME BackgroundInv, NEW p \in Sets, EndProduce(p)
    PROVE  BackgroundInv'
<1>1. /\ UNCHANGED vars /\ UNCHANGED <<scene, link, operator, allowance, kept, removed>>
      /\ UNCHANGED <<status, job, work, restarts>>
      /\ producing' = [producing EXCEPT ![p] = "idle"]
      /\ \A r \in Frames(p) : work[r][1] \notin {"owed", "submitting"}
  BY DEF EndProduce, sceneVars, vars, requestVars, workVars
<1>2. producing' \in [Sets -> {"idle", "submitting", "started"}] /\ producing'[p] = "idle"
      /\ \A q \in Sets \ {p} : producing'[q] = producing[q]
  BY <1>1, BackgroundShape
<1>3. HandedIn(p)'
  BY <1>2 DEF HandedIn
<1>4. SetFollows(p) /\ HandedIn(p)
  BY DEF BackgroundInv
<1>5. CASE producing[p] = "submitting" /\ set[p] = "generating"
  <2> DEFINE n == Cardinality(KeptOf(p))
  <2>1. /\ n \in Nat /\ FrameCount \in Nat /\ FrameCount >= 2
        /\ n >= FrameCount <=> Frames(p) \subseteq kept
        /\ n > 0 => Frames(p) \cap kept # {}
    <3>1. KeptOf(p) \subseteq Frames(p) /\ KeptOf(p) = kept \cap Frames(p)
      BY DEF KeptOf
    <3> HIDE DEF n
    <3>2. /\ n \in Nat
          /\ n >= FrameCount <=> Frames(p) \subseteq KeptOf(p)
          /\ n > 0 => KeptOf(p) # {}
      BY <3>1, FramesAreFew DEF n
    <3> QED
      BY <3>1, <3>2, BackgroundAssumption
  <2>2. set' = [set EXCEPT ![p] = SetState(n, TRUE)]
    BY <1>5 DEF EndProduce
  <2>3. UNCHANGED <<kept, removed>>
    BY <1>1
  <2>4. \A r \in Frames(p) : ~Making(r)'
    BY <1>1, <1>4, <1>5 DEF HandedIn, Making
  <2> HIDE DEF n
  <2>5. SetState(n, TRUE) \in SetStates
    BY DEF SetState, SetStates
  <2>6. set' \in [Sets -> SetStates] /\ set'[p] = SetState(n, TRUE) /\ \A q \in Sets \ {p} : set'[q] = set[q]
    BY <2>2, <2>5, BackgroundShape
  <2>7. /\ set'[p] = "done" <=> n >= FrameCount
        /\ set'[p] = "partial" => n > 0
        /\ set'[p] # "generating"
    BY <2>1, <2>6 DEF SetState
  <2>8. SetFollows(p)'
    BY <2>1, <2>3, <2>4, <2>7 DEF SetFollows, Shelf, Frames
  <2> QED
    BY <1>1, <1>2, <1>3, <2>6, <2>8, OneSetChanges
<1>6. CASE ~(producing[p] = "submitting" /\ set[p] = "generating")
  <2>1. set' = set
    BY <1>6 DEF EndProduce
  <2>2. SetFollows(p)'
    BY <1>1, <1>4, <1>6, <2>1 DEF SetFollows, Shelf, Making, Frames
  <2> QED
    BY <1>1, <1>2, <1>3, <2>1, <2>2, BackgroundShape, OneSetChanges
<1> QED
  BY <1>5, <1>6

\* A claim plans every frame that has no request, and holds those that are ready.
LEMMA ClaimSetKeeps ==
    ASSUME BackgroundInv, NEW p \in Sets, ClaimSet(p)
    PROVE  BackgroundInv'
<1> DEFINE new == {r \in Frames(p) : status[r] = None}
<1>1. PICK ready \in SUBSET new :
          /\ status' = [r \in Requests |-> IF r \in ready THEN "queued"
                                           ELSE IF r \in new THEN "failed" ELSE status[r]]
          /\ plan' = [r \in Requests |-> IF r \in ready THEN "ready" ELSE IF r \in new THEN "blocked" ELSE plan[r]]
          /\ origin' = [r \in Requests |-> IF r \in new THEN "background" ELSE origin[r]]
          /\ kind' = [r \in Requests |-> IF r \in new THEN "image" ELSE kind[r]]
          /\ job' = [r \in Requests |-> IF r \in ready THEN [job[r] EXCEPT ![1] = "queued"] ELSE job[r]]
          /\ work' = [r \in Requests |-> IF r \in ready THEN [work[r] EXCEPT ![1] = "owed"] ELSE work[r]]
  BY DEF ClaimSet
<1>2. /\ UNCHANGED <<attachment, replaces, permitted, session, isolated, refused, restarts>>
      /\ UNCHANGED <<scene, link, operator, allowance, kept, removed>>
      /\ set' = [set EXCEPT ![p] = "generating"] /\ producing' = [producing EXCEPT ![p] = "submitting"]
      /\ set[p] \in {"planned", "partial"}
  BY DEF ClaimSet, capabilityFrame, handlerVars, sceneVars
<1>3. /\ TypeOK /\ FrameCount \in Nat /\ \A r \in Frames(p) : r \in Requests
      /\ status \in [Requests -> Statuses] /\ job \in [Requests -> JobType] /\ work \in [Requests -> WorkType]
      /\ plan \in [Requests -> {None, "ready", "blocked"}]
      /\ origin \in [Requests -> {None, "planned", "explicit", "edit", "retry", "background"}]
      /\ kind \in [Requests -> {None, "image", "edit", "video"}]
  BY BackgroundShape, BackgroundAssumption, KeysApart DEF TypeOK, JobType, WorkType
<1> HIDE DEF new
<1>4. /\ ready \subseteq new /\ new \subseteq Frames(p)
      /\ \A r \in new : status[r] = None
      /\ \A r \in Frames(p) \ new : status[r] # None
  BY DEF new
<1>5. ASSUME NEW r \in Requests
      PROVE  /\ job'[r] \in JobType /\ work'[r] \in WorkType
             /\ r \in ready => status'[r] = "queued" /\ job'[r][1] = "queued" /\ work'[r][1] = "owed"
             /\ r \notin ready => job'[r] = job[r] /\ work'[r] = work[r]
                                  /\ status'[r] = IF r \in new THEN "failed" ELSE status[r]
  <2>1. /\ job'[r] = IF r \in ready THEN [job[r] EXCEPT ![1] = "queued"] ELSE job[r]
        /\ work'[r] = IF r \in ready THEN [work[r] EXCEPT ![1] = "owed"] ELSE work[r]
        /\ status'[r] = IF r \in ready THEN "queued" ELSE IF r \in new THEN "failed" ELSE status[r]
    BY <1>1
  <2>2. job[r] \in JobType /\ work[r] \in WorkType
    BY <1>3
  <2>3. r \in ready => job'[r] \in JobType /\ job'[r][1] = "queued"
    BY <2>1, <2>2, FirstNumber DEF JobType, Live
  <2>4. r \in ready => work'[r] \in WorkType /\ work'[r][1] = "owed"
    BY <2>1, <2>2, FirstNumber DEF WorkType
  <2> QED
    BY <2>1, <2>2, <2>3, <2>4
<1>6. TypeOK'
  <2>1. status' \in [Requests -> Statuses]
    BY <1>1, <1>3 DEF Statuses, Live, Ended
  <2>2. /\ plan' \in [Requests -> {None, "ready", "blocked"}]
        /\ origin' \in [Requests -> {None, "planned", "explicit", "edit", "retry", "background"}]
        /\ kind' \in [Requests -> {None, "image", "edit", "video"}]
    BY <1>1, <1>3
  <2>3. job' \in [Requests -> JobType] /\ work' \in [Requests -> WorkType]
    BY <1>1, <1>5
  <2> QED
    BY <1>2, <1>3, <2>1, <2>2, <2>3 DEF TypeOK, JobType, WorkType
<1>7. \A r \in Requests : RowsAgree(r)'
  <2> SUFFICES ASSUME NEW r \in Requests PROVE RowsAgree(r)'
    OBVIOUS
  <2>1. RowsAgree(r)
    BY BackgroundShape
  <2> QED
    BY <1>4, <1>5, <2>1 DEF RowsAgree, None, Live
<1>8. \A r \in Requests \ Frames(p) : status'[r] = status[r] /\ job'[r] = job[r] /\ work'[r] = work[r]
  BY <1>4, <1>5
<1>9. SceneAndRequestAgree'
  BY <1>2, <1>8, SceneStays, KeysApart
<1>10. KeptWereMade' /\ kept' \subseteq Requests
  BY <1>2, <1>4, <1>5, BackgroundShape DEF KeptWereMade, None
<1>11. /\ set' \in [Sets -> SetStates] /\ producing' \in [Sets -> {"idle", "submitting", "started"}]
       /\ set'[p] = "generating" /\ producing'[p] = "submitting"
       /\ \A q \in Sets \ {p} : set'[q] = set[q] /\ producing'[q] = producing[q]
  BY <1>2, BackgroundShape DEF SetStates
<1>12. ASSUME NEW q \in Sets \ {p} PROVE SetFollows(q)' /\ HandedIn(q)'
  <2>1. /\ (kept \cap Frames(q))' \subseteq kept /\ Shelf \subseteq Shelf'
        /\ \A r \in Frames(q) : status'[r] = status[r] /\ (Making(r)' => Making(r)) /\ StaysHeld(r)
    BY <1>2, <1>8, KeysApart DEF Frames, Shelf, Making, StaysHeld
  <2>2. SetFollows(q)'
    BY <1>2, <1>11, <2>1, SetStays
  <2>3. HandedIn(q)'
    BY <1>11, <2>1, HeldStays
  <2> QED
    BY <2>2, <2>3
<1>13. SetFollows(p)'
  <2>1. SetFollows(p)
    BY DEF BackgroundInv
  <2>2. ~(Frames(p) \subseteq kept)
    BY <1>2, <2>1 DEF SetFollows, None
  <2> QED
    BY <1>2, <1>11, <2>2 DEF SetFollows, Frames
<1>14. HandedIn(p)'
  <2>1. \A r \in Frames(p) : ~Making(r)
    BY <1>2 DEF BackgroundInv, SetFollows, None
  <2>2. \A r \in Frames(p) : Making(r)' => work'[r][1] \in {"owed", "submitting"}
    BY <1>3, <1>5, <2>1 DEF Making
  <2> QED
    BY <2>2 DEF HandedIn, Frames
<1> QED
  BY <1>2, <1>6, <1>7, <1>9, <1>10, <1>11, <1>12, <1>13, <1>14, BackgroundShape, PutTogether

-----------------------------------------------------------------------------
\* The runner takes a scene that has no request, so its job is the first.
LEMMA RunnerKeeps ==
    ASSUME BackgroundInv, Runner
    PROVE  BackgroundInv'
<1>1. CASE BeginNight \/ EndNight
  <2>1. UNCHANGED vars /\ UNCHANGED <<scene, link, operator, setVars>> /\ allowance' \in {0, MaxPerRun}
    BY <1>1 DEF BeginNight, EndNight, sceneVars
  <2>2. /\ UNCHANGED <<status, job, work, restarts>> /\ TypeOK' /\ \A q \in Requests : RowsAgree(q)'
        /\ KeptWereMade' /\ \A p \in Sets : SetFollows(p)' /\ HandedIn(p)'
    BY <2>1, RowsRest, SetsRest
  <2>3. SceneAndRequestAgree'
    BY <2>1, <2>2 DEF BackgroundInv, SceneAndRequestAgree, SceneKey
  <2> QED
    BY <2>1, <2>2, <2>3, BackgroundShape, PutTogether DEF setVars
<1>2. CASE ClaimNext
  <2>1. PICK e \in Oldest :
            /\ Prepare(SceneKey(e))
            /\ \/ /\ status'[SceneKey(e)] = "queued" /\ allowance' = allowance - 1
                  /\ scene' = [scene EXCEPT ![e] = "generating"] /\ link' = [link EXCEPT ![e] = TRUE]
               \/ status'[SceneKey(e)] # "queued" /\ allowance' = 0 /\ UNCHANGED <<scene, link>>
    BY <1>2 DEF ClaimNext
  <2> DEFINE r == SceneKey(e)
  <2>2. /\ e \in Scenes /\ r \in Requests /\ allowance > 0
        /\ UNCHANGED <<attachment, replaces, permitted, session, isolated, refused, restarts>>
        /\ UNCHANGED <<operator, set, producing, kept, removed>>
    BY <1>2, KeysApart DEF ClaimNext, capabilityFrame, handlerVars, setVars, Oldest, Approved
  <2> HIDE DEF r
  <2>3. allowance' \in 0 .. MaxPerRun
    BY <2>1, <2>2, BackgroundShape, BackgroundAssumption
  <2>4. status[r] = None /\ job[r][1] = None /\ work[r][1] = None
    <3>1. status[r] = None
      BY <2>1 DEF r, Prepare, Enqueue, AddRequest
    <3> QED
      BY <2>2, <3>1, BackgroundShape DEF RowsAgree, None
  <2>5. /\ status \in [Requests -> Statuses] /\ job \in [Requests -> JobType] /\ work \in [Requests -> WorkType]
        /\ plan \in [Requests -> {None, "ready", "blocked"}]
        /\ origin \in [Requests -> {None, "planned", "explicit", "edit", "retry", "background"}]
        /\ kind \in [Requests -> {None, "image", "edit", "video"}] /\ 1 \in JobNumbers /\ TypeOK
    BY BackgroundShape, FirstNumber DEF TypeOK, JobType, WorkType
  <2>6. PICK s \in {"queued", "failed"}, v \in {"ready", "blocked"} :
            /\ status' = [status EXCEPT ![r] = s] /\ plan' = [plan EXCEPT ![r] = v]
            /\ origin' = [origin EXCEPT ![r] = "background"] /\ kind' = [kind EXCEPT ![r] = "image"]
            /\ \/ /\ s = "queued" /\ job' = [job EXCEPT ![r][1] = "queued"]
                  /\ work' = [work EXCEPT ![r][1] = "owed"]
               \/ s = "failed" /\ UNCHANGED <<job, work>>
    <3>1. CASE AddRequest(r, "queued", "background", "image", "ready") /\ AddJob(r, "owed")
      <4>1. PICK n \in JobNumbers :
                /\ \A m \in 1 .. (n - 1) : job[r][m] # None
                /\ job' = [job EXCEPT ![r][n] = "queued"] /\ work' = [work EXCEPT ![r][n] = "owed"]
        BY <3>1 DEF AddJob
      <4>2. n = 1
        BY <2>4, <4>1, CapabilityAssumption DEF JobNumbers
      <4> QED
        BY <3>1, <4>1, <4>2 DEF AddRequest
    <3>2. CASE AddRequest(r, "failed", "background", "image", "blocked") /\ UNCHANGED workVars
      BY <3>2 DEF AddRequest, workVars
    <3> QED
      BY <2>1, <3>1, <3>2 DEF r, Prepare, Enqueue
  <2>7. /\ status' \in [Requests -> Statuses] /\ status'[r] = s
        /\ \A q \in Requests \ {r} : status'[q] = status[q]
    BY <2>2, <2>5, <2>6 DEF Statuses, Live, Ended
  <2>8. /\ plan' \in [Requests -> {None, "ready", "blocked"}]
        /\ origin' \in [Requests -> {None, "planned", "explicit", "edit", "retry", "background"}]
        /\ kind' \in [Requests -> {None, "image", "edit", "video"}]
    BY <2>5, <2>6
  <2>9. /\ job' \in [Requests -> JobType] /\ job'[r][1] = IF s = "queued" THEN "queued" ELSE None
        /\ \A q \in Requests \ {r} : job'[q][1] = job[q][1]
    <3>1. CASE s = "queued"
      <4>1. "queued" \in {None} \cup Live \cup Ended /\ job' = [job EXCEPT ![r][1] = "queued"]
        BY <2>6, <3>1 DEF Live
      <4> QED
        BY <2>2, <2>5, <3>1, <4>1, EntryWrites DEF JobType
    <3>2. CASE s # "queued"
      BY <2>4, <2>5, <2>6, <3>2
    <3> QED
      BY <3>1, <3>2
  <2>10. /\ work' \in [Requests -> WorkType] /\ work'[r][1] = IF s = "queued" THEN "owed" ELSE None
         /\ \A q \in Requests \ {r} : work'[q][1] = work[q][1]
    <3>1. CASE s = "queued"
      <4>1. work' = [work EXCEPT ![r][1] = "owed"]
        BY <2>6, <3>1
      <4> QED
        BY <2>2, <2>5, <3>1, <4>1, EntryWrites DEF WorkType
    <3>2. CASE s # "queued"
      BY <2>4, <2>5, <2>6, <3>2
    <3> QED
      BY <3>1, <3>2
  <2>11. TypeOK'
    BY <2>2, <2>5, <2>7, <2>8, <2>9, <2>10 DEF TypeOK, JobType, WorkType
  <2>12. \A q \in Requests : RowsAgree(q)'
    <3>1. RowsAgree(r)'
      BY <2>7, <2>9, <2>10 DEF RowsAgree, Live, None
    <3> QED
      BY <2>7, <2>9, <2>10, <3>1, BackgroundShape DEF RowsAgree
  <2>13. \A p \in Sets : \A q \in Frames(p) : status'[q] = status[q] /\ (Making(q)' => Making(q)) /\ StaysHeld(q)
    BY <2>2, <2>7, <2>9, <2>10, KeysApart DEF r, Making, StaysHeld
  <2>14. KeptWereMade'
    BY <2>2, <2>4, <2>7, BackgroundShape DEF KeptWereMade, None
  <2>15. ASSUME NEW p \in Sets PROVE SetFollows(p)' /\ HandedIn(p)'
    <3>1. (kept \cap Frames(p))' \subseteq kept /\ Shelf \subseteq Shelf'
      BY <2>2 DEF Frames, Shelf
    <3>2. SetFollows(p)'
      BY <2>2, <2>13, <3>1, SetStays
    <3>3. HandedIn(p)'
      BY <2>2, <2>13, HeldStays
    <3> QED
      BY <3>2, <3>3
  <2>16. /\ scene' \in [Scenes -> SceneStates] /\ link' \in [Scenes -> BOOLEAN]
         /\ \A d \in Scenes \ {e} : scene'[d] = scene[d] /\ link'[d] = link[d]
         /\ s = "queued" => scene'[e] = "generating" /\ link'[e]
         /\ s # "queued" => scene'[e] = scene[e]
    <3>1. TRUE \in BOOLEAN /\ scene \in [Scenes -> SceneStates] /\ link \in [Scenes -> BOOLEAN]
          /\ status'[SceneKey(e)] = s
      BY <2>7, BackgroundShape DEF r
    <3> QED
      BY <2>1, <2>2, <3>1 DEF SceneStates
  <2>17. SceneAndRequestAgree'
    <3> SUFFICES ASSUME NEW d \in Scenes
                 PROVE  /\ scene'[d] = "generating" => link'[d] /\ status'[SceneKey(d)] \in Live
                        /\ scene'[d] = "done" => status'[SceneKey(d)] = "completed"
      BY DEF SceneAndRequestAgree, SceneKey
    <3>1. /\ scene[d] = "generating" => link[d] /\ status[SceneKey(d)] \in Live
          /\ scene[d] = "done" => status[SceneKey(d)] = "completed"
      BY DEF BackgroundInv, SceneAndRequestAgree
    <3>2. CASE d = e
      <4>1. scene[e] = "approved"
        BY <2>1 DEF Oldest, Approved
      <4> QED
        BY <2>7, <2>16, <3>2, <4>1 DEF r, Live
    <3>3. CASE d # e
      BY <2>2, <2>7, <2>16, <3>1, <3>3, KeysApart DEF r
    <3> QED
      BY <3>2, <3>3
  <2> QED
    BY <2>2, <2>3, <2>11, <2>12, <2>14, <2>15, <2>16, <2>17, BackgroundShape, PutTogether
<1> QED
  BY <1>1, <1>2 DEF Runner

\* A restart ends every job that was live and gives its scene back.
LEMMA RestartBackgroundKeeps ==
    ASSUME BackgroundInv, RestartBackground
    PROVE  BackgroundInv'
<1>1. PICK made \in SUBSET {r \in Requests : Recoverable(r)} :
        /\ status' = [r \in Requests |->
                        IF r \in made THEN "completed"
                        ELSE IF status[r] \in Live THEN "failed" ELSE status[r]]
        /\ attachment' = [r \in Requests |->
                            IF r \in made THEN [shown |-> "completed", retry |-> FALSE]
                            ELSE SweptShown(attachment[r])]
        /\ job' = [r \in Requests |-> [n \in JobNumbers |->
                    IF job[r][n] \notin Live THEN job[r][n]
                    ELSE IF r \in made THEN "completed" ELSE "failed"]]
  BY DEF RestartBackground, Restart
<1>2. /\ UNCHANGED <<origin, kind, plan, replaces, permitted, isolated, refused, set, kept, removed>>
      /\ work' = [r \in Requests |-> NoJobs] /\ session' = [s \in Sessions |-> Idle]
      /\ restarts' \in 0 .. MaxRestarts /\ restarts' > 0
      /\ scene' = [e \in Scenes |-> SweptScene(scene[e])]
      /\ link' = [e \in Scenes |-> link[e] /\ scene[e] # "generating"]
      /\ operator' = NoChange /\ allowance' = 0 /\ producing' = [p \in Sets |-> "idle"]
  BY BackgroundShape, CapabilityAssumption DEF RestartBackground, Restart, TypeOK
<1>3. /\ status \in [Requests -> Statuses] /\ attachment \in [Requests -> AttachmentType]
      /\ job \in [Requests -> JobType] /\ TypeOK
  BY BackgroundShape DEF TypeOK, AttachmentType, JobType
<1>4. ASSUME NEW r \in Requests
      PROVE  /\ status'[r] \in Statuses /\ attachment'[r] \in AttachmentType /\ job'[r] \in JobType
             /\ work'[r][1] = None /\ status'[r] \notin Live /\ job'[r][1] \notin Live
             /\ job[r][1] = None => job'[r][1] = None
             /\ job[r][1] = "cancelled" => job'[r][1] = "cancelled"
             /\ status'[r] = IF r \in made THEN "completed"
                             ELSE IF status[r] \in Live THEN "failed" ELSE status[r]
             /\ r \in made => status[r] = "running"
  <2>1. SweptShown(attachment[r]) \in AttachmentType
    BY <1>3 DEF SweptShown, AttachmentType
  <2>2. [shown |-> "completed", retry |-> FALSE] \in AttachmentType
    BY DEF AttachmentType
  <2>3. /\ status'[r] = IF r \in made THEN "completed" ELSE IF status[r] \in Live THEN "failed" ELSE status[r]
        /\ attachment'[r] = IF r \in made THEN [shown |-> "completed", retry |-> FALSE] ELSE SweptShown(attachment[r])
        /\ r \in made => status[r] = "running"
    BY <1>1 DEF Recoverable
  <2>4. /\ job[r] \in JobType
        /\ job'[r] = [n \in JobNumbers |-> IF job[r][n] \notin Live THEN job[r][n]
                                           ELSE IF r \in made THEN "completed" ELSE "failed"]
    BY <1>1, <1>3
  <2>5. /\ job'[r] \in JobType /\ job'[r][1] \notin Live
        /\ job[r][1] = None => job'[r][1] = None
        /\ job[r][1] = "cancelled" => job'[r][1] = "cancelled"
    BY <2>4, FirstNumber DEF JobType, Live, Ended, None
  <2>6. status'[r] \in Statuses /\ status'[r] \notin Live
    BY <1>3, <2>3 DEF Statuses, Ended, Live
  <2>7. work'[r][1] = None
    BY <1>2, FirstNumber DEF NoJobs
  <2> QED
    BY <2>1, <2>2, <2>3, <2>5, <2>6, <2>7
<1>5. TypeOK'
  <2>1. /\ status' \in [Requests -> Statuses] /\ attachment' \in [Requests -> AttachmentType]
        /\ job' \in [Requests -> JobType]
    BY <1>1, <1>4
  <2>2. /\ work' \in [Requests -> [JobNumbers -> {None, "owed", "submitting", "waiting", "running"}]]
        /\ DOMAIN session' = Sessions
    BY <1>2 DEF NoJobs
  <2> QED
    BY <1>2, <1>3, <2>1, <2>2 DEF TypeOK, AttachmentType, JobType
<1>6. \A r \in Requests : RowsAgree(r)'
  <2> SUFFICES ASSUME NEW r \in Requests PROVE RowsAgree(r)'
    OBVIOUS
  <2>1. RowsAgree(r)
    BY BackgroundShape
  <2> QED
    BY <1>4, <2>1 DEF RowsAgree, Live, None
<1>7. KeptWereMade' /\ kept' \subseteq Requests
  BY <1>2, <1>4, BackgroundShape DEF KeptWereMade, Live
<1>8. scene' \in [Scenes -> SceneStates] /\ link' \in [Scenes -> BOOLEAN] /\ SceneAndRequestAgree'
  <2>1. \A e \in Scenes : /\ scene'[e] = (IF scene[e] = "generating" THEN "approved" ELSE scene[e])
                          /\ scene'[e] \in SceneStates
    BY <1>2, BackgroundShape DEF SweptScene, SceneStates
  <2>2. \A e \in Scenes : scene[e] = "done" => status'[SceneKey(e)] = "completed"
    BY <1>4, KeysApart DEF BackgroundInv, SceneAndRequestAgree, Live
  <2>3. SceneAndRequestAgree'
    BY <2>1, <2>2 DEF SceneAndRequestAgree, SceneKey
  <2>4. \A e \in Scenes : (link[e] /\ scene[e] # "generating") \in BOOLEAN
    OBVIOUS
  <2> QED
    BY <1>2, <2>1, <2>3, <2>4
<1>9. ASSUME NEW p \in Sets PROVE SetFollows(p)' /\ HandedIn(p)'
  <2>1. SetFollows(p) /\ Shelf' = Shelf
    BY <1>2 DEF BackgroundInv, Shelf
  <2>2. \A r \in Frames(p) : ~Making(r)'
    BY <1>4, KeysApart DEF Making
  <2>3. SetFollows(p)'
    BY <1>2, <2>1, <2>2 DEF SetFollows, Frames
  <2>4. HandedIn(p)'
    BY <2>2 DEF HandedIn, Frames
  <2> QED
    BY <2>3, <2>4
<1> QED
  BY <1>2, <1>5, <1>6, <1>7, <1>8, <1>9, BackgroundShape, PutTogether

LEMMA BackgroundStay == BackgroundInv /\ [BackgroundNext]_allVars => BackgroundInv'
<1> SUFFICES ASSUME BackgroundInv, [BackgroundNext]_allVars PROVE BackgroundInv'
  OBVIOUS
<1>1. CASE OperatorStep
  BY <1>1, OperatorKeeps, CreateSetKeeps, ClaimSetKeeps DEF OperatorStep
<1>2. CASE Runner
  BY <1>2, RunnerKeeps
<1>3. CASE \E p \in Sets : EndProduce(p)
  BY <1>3, EndProduceKeeps
<1>4. ASSUME NEW r \in Requests,
             PictureStep(r) \/ CheckRaises(r) \/ SubmitBackgroundFails(r) \/ CancelPicture(r) \/ RemoveFrame(r)
      PROVE  BackgroundInv'
  <2>1. CASE EndPicture(r, "completed") \/ EndPicture(r, "failed")
    <3>1. PICK out \in {"completed", "failed"} : EndPicture(r, out)
      BY <2>1
    <3>2. EndJob(r, 1, out) /\ Settle(r, out) /\ UNCHANGED <<operator, allowance, producing, removed>>
      BY <3>1 DEF EndPicture
    <3>3. OnlyMoves(r) /\ RowsAgree(r)' /\ Ends(r, out)
      BY <3>2, EndMoves
    <3> QED
      BY <3>2, <3>3, BackgroundShape, PictureSettles
  <2> QED
    BY <1>4, <2>1, PictureGoesOn, CheckRaisesKeeps, SubmissionFailsKeeps, CancelKeeps, RemoveFrameKeeps DEF PictureStep
<1>5. CASE RestartBackground
  BY <1>5, RestartBackgroundKeeps
<1>6. CASE UNCHANGED allVars
  <2>1. UNCHANGED vars /\ UNCHANGED <<scene, link, operator, allowance, set, producing, kept, removed>>
    BY <1>6 DEF allVars, backgroundVars, sceneVars, setVars
  <2>2. /\ UNCHANGED <<status, job, work, restarts>> /\ TypeOK' /\ \A q \in Requests : RowsAgree(q)'
        /\ KeptWereMade' /\ \A p \in Sets : SetFollows(p)' /\ HandedIn(p)'
    BY <2>1, RowsRest, SetsRest DEF setVars
  <2>3. SceneAndRequestAgree'
    BY <2>1, <2>2 DEF BackgroundInv, SceneAndRequestAgree, SceneKey
  <2> QED
    BY <2>1, <2>2, <2>3, BackgroundShape, PutTogether
<1> QED
  BY <1>1, <1>2, <1>3, <1>4, <1>5, <1>6 DEF BackgroundNext

\* What the rows of a set make it say is what its frames justify.
LEMMA SetSaysSo == ASSUME BackgroundInv PROVE SetTellsTruth
<1> SUFFICES ASSUME NEW p \in Sets, producing[p] = "idle", set[p] # None
             PROVE  /\ Frames(p) \subseteq kept => set[p] = "done"
                    /\ set[p] = "done" => Shelf \cap Frames(p) = Frames(p)
                    /\ set[p] = "partial" => Shelf \cap Frames(p) # {}
                    /\ set[p] \in {"planned", "partial"} => {r \in Frames(p) : Making(r)} = {}
                    /\ set[p] = "generating" =>
                         \/ {r \in Frames(p) : Making(r)} # {}
                         \/ {r \in Outstanding(p, {}) : job[r][1] = "cancelled" \/ work[r][1] = None} # {}
                         \/ restarts > 0
  BY DEF SetTellsTruth, Shelf, Making
<1>1. SetFollows(p) /\ \A r \in Frames(p) : RowsAgree(r)
  BY KeysApart DEF BackgroundInv
<1>2. ASSUME NEW r \in Frames(p), status[r] \in Live
      PROVE  Making(r) \/ (r \in Outstanding(p, {}) /\ (job[r][1] = "cancelled" \/ work[r][1] = None))
  BY <1>1, <1>2 DEF RowsAgree, Making, Outstanding, Live, None
<1> QED
  BY <1>1, <1>2 DEF SetFollows

\* Whatever the operator decides meanwhile, a picture cancelled early, a
\* submission that raises before or after it has a job to fail, or a restart: a
\* scene that says it is generating has a live request and one that says it is
\* done has a picture that was made; and once its producer has left it, a photo
\* set says what its frames justify, but for requests that stay queued and that
\* nobody makes, and for pictures taken out of the library after it was done.
\* (produce_due, submit_background, _settlement, set_state, initialize_database)
THEOREM ScenesAndSetsTellTruth == BackgroundSpec => []BackgroundInvariant
<1>1. BackgroundInit => BackgroundInv
  BY BackgroundStarts
<1>2. BackgroundInv => BackgroundInvariant
  BY SetSaysSo DEF BackgroundInv, BackgroundInvariant
<1> QED
  BY <1>1, <1>2, BackgroundStay, PTL DEF BackgroundSpec
==============================================================================
