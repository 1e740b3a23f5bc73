------------------------- MODULE BackgroundPictures -------------------------
(***************************************************************************)
(* Pictures nobody has asked for yet: app/scene_backlog_service.py,         *)
(* app/photo_set_service.py, app/scene_production.py and                    *)
(* app/pregeneration.py, on the requests and jobs of CapabilityRequests.    *)
(* The request of a scene or of a frame is named by its idempotency key, so *)
(* a scene and a frame each have one request in a lifetime.  There is one   *)
(* owner.                                                                   *)
(***************************************************************************)
EXTENDS CapabilityRequests

CONSTANTS
    Scenes,        \* numbers of backlog entries, in the order of creation
    Sets,          \* identities of photo sets
    FrameCount,    \* frames of a set
    MaxPerRun      \* pictures one pass may start

ASSUME BackgroundAssumption ==
    /\ Scenes \subseteq Nat \ {0} /\ IsFiniteSet(Scenes)
    /\ FrameCount \in Nat /\ FrameCount >= 2
    /\ MaxPerRun \in Nat \ {0}

SceneKey(e) == <<"scene", e>>
FrameKey(p, i) == <<"frame", p, i>>
Frames(p) == {FrameKey(p, i) : i \in 0..(FrameCount - 1)}

ASSUME KeysAssumption ==
    Requests = {SceneKey(e) : e \in Scenes} \cup UNION {Frames(p) : p \in Sets}

VARIABLES
    scene,         \* scene[e]: state of the entry
    link,          \* link[e]: whether it holds its capability request's id
    operator,      \* what a handler of set_state has read and will commit
    allowance,          \* the runner: pictures it may still start in this pass
    set,           \* set[p]: state of the photo set
    producing,     \* producing[p]: "idle", "submitting" or "started"
    kept,          \* frames whose picture is in the library, under their set
    removed        \* history: frames whose picture was kept and taken out again

sceneVars == <<scene, link, operator>>
setVars == <<set, producing, kept, removed>>
backgroundVars == <<sceneVars, allowance, setVars>>
allVars == <<vars, backgroundVars>>
capabilityFrame == <<attachment, replaces, permitted, handlerVars, restarts>>

SceneStates == {None, "proposed", "approved", "generating", "done", "retired"}
SetStates == {None, "planned", "generating", "partial", "done"}
NoChange == [entry |-> 0, from |-> None, to |-> None]

OperatorTransitions ==
    [s \in SceneStates |->
        CASE s = "proposed" -> {"approved", "retired"}
          [] s = "approved" -> {"proposed", "retired"}
          [] s = "done" -> {"retired"}
          [] s = "retired" -> {"proposed"}
          [] OTHER -> {}]

BackgroundTypeOK ==
    /\ TypeOK
    /\ scene \in [Scenes -> SceneStates]
    /\ link \in [Scenes -> BOOLEAN]
    /\ operator.entry \in Scenes \cup {0}
    /\ allowance \in 0..MaxPerRun
    /\ set \in [Sets -> SetStates]
    /\ producing \in [Sets -> {"idle", "submitting", "started"}]
    /\ kept \subseteq Requests /\ removed \subseteq Requests

BackgroundInit ==
    /\ Init /\ ~isolated
    /\ scene = [e \in Scenes |-> None]
    /\ link = [e \in Scenes |-> FALSE]
    /\ operator = NoChange
    /\ allowance = 0
    /\ set = [p \in Sets |-> None]
    /\ producing = [p \in Sets |-> "idle"]
    /\ kept = {} /\ removed = {}

-----------------------------------------------------------------------------
(* The operator *)

\* propose: entries are created in order.
ProposeScene(e) ==
    /\ scene[e] = None
    /\ \A d \in Scenes : d < e => scene[d] # None
    /\ scene' = [scene EXCEPT ![e] = "proposed"]
    /\ UNCHANGED <<vars, link, operator, allowance, setVars>>

\* set_state reads the entry and checks the transition ...
SetStateRead(e) ==
    /\ operator = NoChange
    /\ \E to \in OperatorTransitions[scene[e]] :
        operator' = [entry |-> e, from |-> scene[e], to |-> to]
    /\ UNCHANGED <<vars, scene, link, allowance, setVars>>

\* ... and commits what it decided, over whatever the state is by then.
SetStateCommit ==
    /\ operator # NoChange
    /\ scene' = [scene EXCEPT ![operator.entry] = operator.to]
    /\ operator' = NoChange
    /\ UNCHANGED <<vars, link, allowance, setVars>>

\* photo_set_service.create and remove
CreateSet(p) ==
    /\ set[p] = None /\ \A r \in Frames(p) : status[r] = None
    /\ set' = [set EXCEPT ![p] = "planned"]
    /\ UNCHANGED <<vars, sceneVars, allowance, producing, kept, removed>>

RemoveSet(p) ==
    /\ set[p] \notin {None, "generating"} /\ producing[p] = "idle"
    /\ set' = [set EXCEPT ![p] = None]
    /\ UNCHANGED <<vars, sceneVars, allowance, producing, kept, removed>>

\* media_library_service.remove: the library's row was all that made the picture
\* a frame of its set, and the set is not worked out anew.
RemoveFrame(r) ==
    /\ r \in kept
    /\ kept' = kept \ {r} /\ removed' = removed \cup {r}
    /\ UNCHANGED <<vars, sceneVars, allowance, set, producing>>

-----------------------------------------------------------------------------
(* Production of scenes *)

Approved == {e \in Scenes : scene[e] = "approved"}
Oldest == {e \in Approved : \A d \in Approved : e <= d}

Busy == \E r \in Requests : work[r][1] \in {"waiting", "running"}

\* prepare_background_request: the request is queued with its job, or fails at
\* once because its plan is blocked; a key that exists yields nothing.
Prepare(r) == Enqueue(r, "background", "image", "owed")

\* produce_due: quiet hours and an idle machine, read once for the whole pass.
BeginNight ==
    /\ allowance = 0
    /\ ~Busy
    /\ Approved # {}
    /\ allowance' = MaxPerRun
    /\ UNCHANGED <<vars, sceneVars, setVars>>

\* _claim_next_entry takes the oldest approved scene and plans it.
ClaimNext ==
    /\ allowance > 0
    /\ \A e \in Scenes : work[SceneKey(e)][1] # "owed"
    /\ \E e \in Oldest :
        /\ Prepare(SceneKey(e))
        /\ IF status'[SceneKey(e)] = "queued"
           THEN /\ scene' = [scene EXCEPT ![e] = "generating"]
                /\ link' = [link EXCEPT ![e] = TRUE]
                /\ allowance' = allowance - 1
           ELSE /\ allowance' = 0
                /\ UNCHANGED <<scene, link>>
    /\ UNCHANGED <<capabilityFrame, operator, setVars>>

\* The oldest scene was produced or attempted before, or none is left.
EndNight ==
    /\ allowance > 0
    /\ \A e \in Scenes : work[SceneKey(e)][1] # "owed"
    /\ \A e \in Oldest : status[SceneKey(e)] # None
    /\ allowance' = 0
    /\ UNCHANGED <<vars, sceneVars, setVars>>

\* Variant: only a picture that was made settles its scene.
SettleSceneMade(e, outcome) ==
    IF link[e] /\ scene[e] = "generating" /\ outcome = "completed"
    THEN scene' = [scene EXCEPT ![e] = "done"] /\ UNCHANGED link
    ELSE UNCHANGED <<scene, link>>

\* settle: the entry of the request, if it still says it is generating.
SettleScene(e, outcome) ==
    IF link[e] /\ scene[e] = "generating"
    THEN /\ scene' = [scene EXCEPT ![e] = IF outcome = "completed" THEN "done" ELSE "approved"]
         /\ link' = [link EXCEPT ![e] = outcome = "completed"]
    ELSE UNCHANGED <<scene, link>>

-----------------------------------------------------------------------------
(* Production of photo sets *)

Outstanding(p, except) == {r \in Frames(p) \ except : status[r] \in Live}

\* set_state of app/photo_set.py
SetState(done, finished) ==
    IF done >= FrameCount THEN "done"
    ELSE IF ~finished THEN "generating"
    ELSE IF done > 0 THEN "partial" ELSE "planned"

KeptOf(p) == kept \cap Frames(p)

\* _claim: every frame without a request is planned, in one transaction.
ClaimSet(p) ==
    /\ set[p] \in {"planned", "partial"} /\ producing[p] = "idle"
    /\ \E ready \in SUBSET {r \in Frames(p) : status[r] = None} :
        LET new == {r \in Frames(p) : status[r] = None}
            Of(f, value) == [r \in Requests |-> IF r \in new THEN value ELSE f[r]]
        IN  /\ status' = [r \in Requests |->
                            IF r \in ready THEN "queued"
                            ELSE IF r \in new THEN "failed" ELSE status[r]]
            /\ plan' = [r \in Requests |->
                            IF r \in ready THEN "ready"
                            ELSE IF r \in new THEN "blocked" ELSE plan[r]]
            /\ origin' = Of(origin, "background")
            /\ kind' = Of(kind, "image")
            /\ job' = [r \in Requests |-> IF r \in ready THEN [job[r] EXCEPT ![1] = "queued"] ELSE job[r]]
            /\ work' = [r \in Requests |-> IF r \in ready THEN [work[r] EXCEPT ![1] = "owed"] ELSE work[r]]
    /\ set' = [set EXCEPT ![p] = "generating"]
    /\ producing' = [producing EXCEPT ![p] = "submitting"]
    /\ UNCHANGED <<capabilityFrame, sceneVars, allowance, kept, removed>>

\* produce returns: if nothing was started, _finish says what the set now is.
EndProduce(p) ==
    /\ producing[p] # "idle"
    /\ \A r \in Frames(p) : work[r][1] \notin {"owed", "submitting"}
    /\ producing' = [producing EXCEPT ![p] = "idle"]
    /\ IF producing[p] = "submitting" /\ set[p] = "generating"
       THEN set' = [set EXCEPT ![p] = SetState(Cardinality(KeptOf(p)), TRUE)]
       ELSE UNCHANGED set
    /\ UNCHANGED <<vars, sceneVars, allowance, kept, removed>>

\* settle: record the frame if its picture was kept, then what the set is.
SettleFrame(r, p, outcome) ==
    IF set[p] = None
    THEN UNCHANGED <<set, kept>>
    ELSE /\ \/ kept' = kept
            \/ outcome = "completed" /\ kept' = kept \cup {r}
         /\ set' = [set EXCEPT ![p] = SetState(Cardinality(kept' \cap Frames(p)),
                                               Outstanding(p, {r}) = {})]

Settle(r, outcome) ==
    \/ \E e \in Scenes : r = SceneKey(e) /\ SettleScene(e, outcome) /\ UNCHANGED <<set, kept>>
    \/ \E p \in Sets : r \in Frames(p) /\ SettleFrame(r, p, outcome) /\ UNCHANGED <<scene, link>>

-----------------------------------------------------------------------------
(* Jobs, with the callback on_settled *)

\* submit_background looks at the request, not at its job; its caller counts
\* the picture as started also when it declines.
CheckBackground(r) ==
    /\ work[r][1] = "owed"
    /\ work' = [work EXCEPT ![r][1] = IF status[r] = "queued" THEN "submitting" ELSE None]
    /\ producing' = [p \in Sets |->
            IF r \in Frames(p) /\ producing[p] # "idle" /\ work'[r][1] = None
            THEN "started" ELSE producing[p]]
    /\ UNCHANGED <<requestVars, job, handlerVars, restarts, sceneVars, allowance, set, kept, removed>>

SubmitBackground(r) ==
    /\ Submit(r, 1)
    /\ producing' = [p \in Sets |->
            IF r \in Frames(p) /\ producing[p] # "idle" THEN "started" ELSE producing[p]]
    /\ UNCHANGED <<sceneVars, allowance, set, kept, removed>>

\* The producer of r meets an exception.  For a scene that ends the pass, and
\* the entry is released if nothing settled it; a set goes on with its next frame.
GiveBack(r) ==
    /\ IF \E e \in Scenes : r = SceneKey(e)
       THEN /\ \E e \in Scenes : r = SceneKey(e) /\ SettleScene(e, "failed")
            /\ allowance' = 0
       ELSE UNCHANGED <<scene, link, allowance>>
    /\ UNCHANGED <<set, kept>>

\* submit_background raises before it comes to _submit, because a resource or a
\* preset of the plan was edited: the request and its job stay queued.
CheckRaises(r) ==
    /\ work[r][1] = "owed" /\ status[r] = "queued"
    /\ work' = [work EXCEPT ![r][1] = None]
    /\ GiveBack(r)
    /\ UNCHANGED <<requestVars, job, handlerVars, restarts, operator, producing, removed>>

\* _submit raises.
SubmitBackgroundFails(r) ==
    /\ SubmitFails(r, 1)
    /\ IF job[r][1] = "queued"
       THEN /\ Settle(r, "failed")
            /\ allowance' = IF \E e \in Scenes : r = SceneKey(e) THEN 0 ELSE allowance
       ELSE GiveBack(r)
    /\ UNCHANGED <<operator, producing, removed>>

StartPicture(r) == StartJob(r, 1) /\ UNCHANGED backgroundVars

EndPicture(r, s) ==
    /\ EndJob(r, 1, s)
    /\ Settle(r, s)
    /\ UNCHANGED <<operator, allowance, producing, removed>>

AbandonPicture(r) == Abandon(r, 1) /\ UNCHANGED backgroundVars

\* capability_service.cancel and JobService.cancel: nothing is settled for a
\* job that has not been submitted.
CancelPicture(r) ==
    /\ status[r] \in Live /\ job[r][1] \in Live
    /\ job' = [job EXCEPT ![r][1] = "cancelled"]
    /\ IF work[r][1] \in {"waiting", "running"}
       THEN Finish(r, "cancelled") /\ Settle(r, "cancelled")
       ELSE UNCHANGED <<status, attachment, scene, link, set, kept>>
    /\ UNCHANGED <<jobFrame, work, handlerVars, operator, allowance, producing, removed>>

\* Variant: the sweep leaves the backlog alone.
SweptSceneKept(s) == s

-----------------------------------------------------------------------------
\* initialize_database returns generating scenes, and does nothing for sets.
SweptScene(s) == IF s = "generating" THEN "approved" ELSE s

RestartBackground ==
    /\ Restart
    /\ scene' = [e \in Scenes |-> SweptScene(scene[e])]
    /\ link' = [e \in Scenes |-> link[e] /\ scene[e] # "generating"]
    /\ operator' = NoChange
    /\ allowance' = 0
    /\ producing' = [p \in Sets |-> "idle"]
    /\ UNCHANGED <<set, kept, removed>>

-----------------------------------------------------------------------------
Runner == BeginNight \/ ClaimNext \/ EndNight
PictureStep(r) ==
    \/ CheckBackground(r) \/ SubmitBackground(r) \/ StartPicture(r) \/ AbandonPicture(r)
    \/ EndPicture(r, "completed") \/ EndPicture(r, "failed")
OperatorStep ==
    \/ \E e \in Scenes : ProposeScene(e) \/ SetStateRead(e)
    \/ SetStateCommit
    \/ \E p \in Sets : CreateSet(p) \/ RemoveSet(p) \/ ClaimSet(p)

BackgroundNext ==
    \/ OperatorStep
    \/ Runner
    \/ \E p \in Sets : EndProduce(p)
    \/ \E r \in Requests :
        \/ PictureStep(r) \/ CheckRaises(r) \/ SubmitBackgroundFails(r)
        \/ CancelPicture(r) \/ RemoveFrame(r)
    \/ RestartBackground

BackgroundSpec == BackgroundInit /\ [][BackgroundNext]_allVars

-----------------------------------------------------------------------------
(* Properties *)

\* A scene that claims to be generating has a live request, and a scene that
\* claims to be done has one that completed, also when a transition of the
\* operator, a cancellation, a failed submission or a crash came between.
\* (_claim_next_entry, _settlement, _release_entry, set_state, initialize_database)
SceneAndRequestAgree ==
    \A e \in Scenes :
        /\ scene[e] = "generating" => link[e] /\ status[SceneKey(e)] \in Live
        /\ scene[e] = "done" => status[SceneKey(e)] = "completed"

\* A photo set says what its frames justify: done once every frame was kept,
\* partial with some and none being made, and generating while one is being
\* made.  Three things leave a set behind: a request that stays queued although
\* nobody makes it, because its job was cancelled early or its settings were
\* edited before it was submitted; a crash; and, after the set was worked out,
\* the removal of a picture from the library.
\* (photo_set_service.produce, _settlement, _finish, photo_set.set_state)
SetTellsTruth ==
    \A p \in Sets : producing[p] = "idle" /\ set[p] # None =>
        LET ever == (kept \cup removed) \cap Frames(p)
            beingMade == {r \in Frames(p) : job[r][1] \in Live /\ work[r][1] # None}
            left == {r \in Outstanding(p, {}) : job[r][1] = "cancelled" \/ work[r][1] = None}
        IN  /\ Frames(p) \subseteq kept => set[p] = "done"
            /\ set[p] = "done" => ever = Frames(p)
            /\ set[p] = "partial" => ever # {}
            /\ set[p] \in {"planned", "partial"} => beingMade = {}
            /\ set[p] = "generating" => beingMade # {} \/ left # {} \/ restarts > 0

\* A picture that was started comes to an end, and its scene is given back or
\* done, unless its job was cancelled before it was submitted.
\* (produce_due, submit_background, _submit, _settlement)
GeneratingEnds ==
    \A e \in Scenes :
        scene[e] = "generating"
            ~> scene[e] # "generating" \/ job[SceneKey(e)][1] = "cancelled"

\* The scene of a picture that could not be made stays approved for another
\* attempt: an approved scene is attempted again in the end, or its operator
\* takes it back.
\* (prepare_background_request; app/capability_service.py:852)
ApprovedIsAttempted ==
    \A e \in Scenes : scene[e] = "approved" ~> scene[e] # "approved"

\* Scenes, photo sets and the requests that serve them agree.
BackgroundInvariant == BackgroundTypeOK /\ SceneAndRequestAgree /\ SetTellsTruth
=============================================================================
