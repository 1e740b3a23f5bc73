-------------------------- MODULE IdentityProfiles --------------------------
(***************************************************************************)
(* app/identity_service.py: the visual identity of one persona, the photos   *)
(* approved for it, the consent they are held under, and the comparison job. *)
(*                                                                         *)
(* A handler reads its rows before it holds the write lock and then commits  *)
(* what it changed of them.  Of two handlers that overlap, one is overtaken: *)
(* `slow' is a handler that has read its rows and not committed yet, while   *)
(* every other handler reads and commits in one step.  Deleting the persona  *)
(* takes several units of work by itself and overlaps with all of them.      *)
(***************************************************************************)
EXTENDS Naturals, FiniteSets

CONSTANTS
    References,        \* reference photos, numbered in the order they are added
    SlowOps,           \* handlers that a run lets others overtake
    MaxRevision        \* bound on the revisions a run looks at

ASSUME IdentityAssumption ==
    References \subseteq Nat \ {0} /\ IsFiniteSet(References) /\ MaxRevision \in Nat

VARIABLES
    profile,           \* row of persona_visual_identities
    ref,               \* ref[r]: row of persona_identity_references
    files,             \* reference files on disk
    slow,              \* the handler that has read its rows
    erasing,           \* the deletion of the persona: what it listed
    cleanup,           \* what a committed handler has still to cancel and unlink
    comparison,        \* row of persona_identity_validations, with its job
    sent,              \* photos sent to the comparison service so far
    overlooked         \* photos of a comparison that the deletion had not listed

identityVars == <<profile, ref, files, slow, erasing, cleanup, comparison, sent, overlooked>>
erasureVars == <<erasing, overlooked>>

NoProfile == [consent |-> "not_granted", status |-> "draft", revision |-> 0, required |-> FALSE]
NoRef == [review |-> "none", path |-> FALSE, primary |-> FALSE]
DeletedRef == [NoRef EXCEPT !.review = "deleted"]
NoHandler == [op |-> "none", ref |-> 0, profile |-> NoProfile, row |-> NoRef, photos |-> {}]
NoErasure == [step |-> "none", cancel |-> FALSE, photos |-> {}]
NoCleanup == [cancel |-> FALSE, unlink |-> {}]
NoComparison == [status |-> "none", photos |-> {}]

HeldReference(r) == ref[r].review \notin {"none", "deleted"}
Comparing == comparison.status \in {"queued", "running"}

IdentityTypeOK ==
    /\ profile \in [consent: {"not_granted", "granted", "withdrawn"},
                    status: {"draft", "active", "disabled", "erased"},
                    revision: 0..MaxRevision, required: BOOLEAN]
    /\ ref \in [References -> [review: {"none", "pending", "approved", "rejected", "deleted"},
                               path: BOOLEAN, primary: BOOLEAN]]
    /\ files \subseteq References /\ sent \subseteq References /\ overlooked \subseteq References
    /\ erasing \in [step: {"none", "listed", "cancelled"}, cancel: BOOLEAN, photos: SUBSET References]
    /\ cleanup \in [cancel: BOOLEAN, unlink: SUBSET References]
    /\ comparison \in [status: {"none", "queued", "running", "done", "error", "cancelled"},
                       photos: SUBSET References]

IdentityInit ==
    /\ profile = NoProfile
    /\ ref = [r \in References |-> NoRef]
    /\ files = {} /\ sent = {} /\ overlooked = {}
    /\ slow = NoHandler /\ erasing = NoErasure
    /\ cleanup = NoCleanup
    /\ comparison = NoComparison

-----------------------------------------------------------------------------
(* Reading and writing rows *)

\* Only what a handler changed of a row it read is written to the row as it is now.
Merged(now, seen, wanted) ==
    [f \in DOMAIN now |-> IF wanted[f] # seen[f] THEN wanted[f] ELSE now[f]]

Read(op, r) ==
    [op |-> op, ref |-> r, profile |-> profile,
     row |-> IF r \in References THEN ref[r] ELSE NoRef,
     photos |-> {q \in References : ref[q].path /\ (op = "compare" => ref[q].review = "approved")}]

\* What a handler finds that reads now, or found that is late to commit.
Handlers(op, r) ==
    (IF profile.status = "erased" THEN {} ELSE {Read(op, r)})
        \cup {h \in {slow} : h.op = op /\ h.ref = r}

\* Its checks: late handlers made them on what they read.
Allowed(h) ==
    /\ h.op = "withdraw" => h.profile.revision > 0
    /\ h.op \in {"add", "approve", "reject", "compare"} => h.profile.consent = "granted"
    /\ h.op \in {"approve", "reject", "delete"} => h.row.review \notin {"none", "deleted"}
    /\ h.op = "compare" => h.profile.status = "active" /\ h.photos # {}

Finished(h) == slow' = IF h = slow THEN NoHandler ELSE slow

\* _identity(create=True) gives a persona its first profile.
Profile(p) == IF p.revision = 0 THEN [p EXCEPT !.revision = 1] ELSE p

WriteProfile(h, wanted) ==
    /\ Profile(h.profile).revision < MaxRevision
    /\ profile' = Merged(profile, h.profile, [wanted EXCEPT !.revision = Profile(h.profile).revision + 1])

\* approved_identity_references: the primary one first, then in the order added.
ApprovedReferences(rows) == {r \in References : rows[r].review = "approved"}
First(rows) ==
    CHOOSE r \in ApprovedReferences(rows) : \A q \in ApprovedReferences(rows) \ {r} :
        \/ rows[r].primary /\ ~rows[q].primary
        \/ rows[r].primary = rows[q].primary /\ r < q

\* Another approved photo becomes the primary one when the row read was.
Succeeded(h, rows) ==
    IF h.row.primary /\ ApprovedReferences(rows) # {} THEN [rows EXCEPT ![First(rows)].primary = TRUE] ELSE rows

WithRow(h, wanted) == [ref EXCEPT ![h.ref] = Merged(@, h.row, wanted)]

-----------------------------------------------------------------------------
(* The handlers *)

BeginProfileCall(op, r) ==
    /\ op \in SlowOps /\ slow = NoHandler /\ profile.status # "erased"
    /\ Allowed(Read(op, r))
    /\ op = "add" => ref[r] = NoRef /\ r \in files
    /\ slow' = Read(op, r)
    /\ UNCHANGED <<profile, ref, files, cleanup, comparison, sent, erasureVars>>

SaveProfile(required) ==
    \E h \in Handlers("put", 0) :
        /\ WriteProfile(h, [h.profile EXCEPT !.required = required])
        /\ Finished(h) /\ UNCHANGED <<ref, files, cleanup, comparison, sent, erasureVars>>

GrantConsent ==
    \E h \in Handlers("grant", 0) :
        /\ WriteProfile(h, [h.profile EXCEPT !.consent = "granted",
                              !.status = IF ApprovedReferences(ref) = {} THEN "draft" ELSE "active"])
        /\ Finished(h) /\ UNCHANGED <<ref, files, cleanup, comparison, sent, erasureVars>>

\* The files of every reference that is not deleted.
WithdrawnFiles == {r \in References : HeldReference(r) /\ ref[r].path}

\* Withdrawing deletes the references there are and cancels the comparison.
WithdrawConsent ==
    \E h \in Handlers("withdraw", 0) :
        /\ Allowed(h) /\ cleanup = NoCleanup
        /\ WriteProfile(h, [h.profile EXCEPT !.consent = "withdrawn", !.status = "disabled"])
        /\ ref' = [r \in References |-> IF HeldReference(r) THEN DeletedRef ELSE ref[r]]
        /\ cleanup' = [cancel |-> Comparing, unlink |-> WithdrawnFiles]
        /\ Finished(h) /\ UNCHANGED <<files, comparison, sent, erasureVars>>

\* add_reference writes the file before it looks at the profile.
WriteReferenceFile(r) ==
    /\ ref[r] = NoRef /\ r \notin files /\ profile.status # "erased"
    /\ \A q \in References : q < r => ref[q] # NoRef
    /\ files' = files \cup {r}
    /\ UNCHANGED <<profile, ref, slow, cleanup, comparison, sent, erasureVars>>

AddReference(r) ==
    \E h \in Handlers("add", r) :
        /\ r \in files /\ ref[r] = NoRef
        /\ IF Allowed(h)
           THEN ref' = [ref EXCEPT ![r] = [NoRef EXCEPT !.review = "pending", !.path = TRUE]]
                /\ UNCHANGED files
           ELSE files' = files \ {r} /\ UNCHANGED ref
        /\ Finished(h) /\ UNCHANGED <<profile, cleanup, comparison, sent, erasureVars>>

ApproveReference(r) ==
    \E h \in Handlers("approve", r) :
        /\ Allowed(h)
        /\ LET rows == WithRow(h, [h.row EXCEPT !.review = "approved"])
           IN ref' = IF \E q \in ApprovedReferences(rows) : rows[q].primary THEN rows
                     ELSE [rows EXCEPT ![r].primary = TRUE]
        /\ WriteProfile(h, [h.profile EXCEPT !.status = "active"])
        /\ Finished(h) /\ UNCHANGED <<files, cleanup, comparison, sent, erasureVars>>

RejectReference(r) ==
    \E h \in Handlers("reject", r) :
        /\ Allowed(h)
        /\ ref' = Succeeded(h, WithRow(h, [h.row EXCEPT !.review = "rejected", !.primary = FALSE]))
        /\ WriteProfile(h, [h.profile EXCEPT !.status = IF ApprovedReferences(ref') = {} THEN "draft" ELSE @])
        /\ Finished(h) /\ UNCHANGED <<files, cleanup, comparison, sent, erasureVars>>

DeleteReference(r) ==
    \E h \in Handlers("delete", r) :
        /\ Allowed(h) /\ cleanup = NoCleanup
        /\ ref' = Succeeded(h, WithRow(h, DeletedRef))
        /\ WriteProfile(h, [h.profile EXCEPT !.status =
                              IF ApprovedReferences(ref') # {} THEN @
                              ELSE IF h.profile.consent = "granted" THEN "draft" ELSE "disabled"])
        /\ cleanup' = [cancel |-> FALSE, unlink |-> IF h.row.path THEN {r} ELSE {}]
        /\ Finished(h) /\ UNCHANGED <<files, comparison, sent, erasureVars>>

CancelComparison == IF Comparing THEN [comparison EXCEPT !.status = "cancelled"] ELSE comparison

\* prepare_persona_deletion lists the files and the comparison there are ...
ListErasure ==
    /\ profile.status # "erased" /\ erasing = NoErasure
    /\ erasing' = [step |-> "listed", cancel |-> Comparing, photos |-> {r \in References : ref[r].path}]
    /\ UNCHANGED <<profile, ref, files, slow, cleanup, comparison, sent, overlooked>>

\* ... cancels the comparison it listed ...
CancelListed ==
    /\ erasing.step = "listed"
    /\ erasing' = [erasing EXCEPT !.step = "cancelled"]
    /\ comparison' = IF erasing.cancel THEN CancelComparison ELSE comparison
    /\ UNCHANGED <<profile, ref, files, slow, cleanup, sent, overlooked>>

\* ... and the rows go in a unit of work of their own, with whatever was added
\* since: the files on the list are unlinked, and a comparison that is not on
\* it stays queued.  A late handler finds its rows gone and fails; one that
\* was adding a photo removes its file.
ErasePersona ==
    /\ erasing.step = "cancelled" /\ cleanup = NoCleanup
    /\ profile' = [NoProfile EXCEPT !.status = "erased"]
    /\ ref' = [r \in References |-> NoRef]
    /\ files' = {r \in files : ref[r] # NoRef}
    /\ cleanup' = [cancel |-> FALSE, unlink |-> erasing.photos]
    /\ overlooked' = IF Comparing THEN comparison.photos \ erasing.photos ELSE {}
    /\ slow' = NoHandler /\ erasing' = NoErasure
    /\ UNCHANGED <<comparison, sent>>

CleanUp ==
    /\ cleanup # NoCleanup
    /\ comparison' = IF cleanup.cancel THEN CancelComparison ELSE comparison
    /\ files' = files \ cleanup.unlink
    /\ cleanup' = NoCleanup
    /\ UNCHANGED <<profile, ref, slow, sent, erasureVars>>

-----------------------------------------------------------------------------
(* Comparing a picture with the approved photos *)

ValidateMedia ==
    \E h \in Handlers("compare", 0) :
        /\ Allowed(h) /\ comparison = NoComparison
        /\ comparison' = [status |-> "queued", photos |-> h.photos]
        /\ Finished(h) /\ UNCHANGED <<profile, ref, files, cleanup, sent, erasureVars>>

StartComparison ==
    /\ comparison.status = "queued"
    /\ comparison' = [comparison EXCEPT !.status = "running"]
    /\ UNCHANGED <<profile, ref, files, slow, cleanup, sent, erasureVars>>

\* Variant: the content is read when the comparison is asked for, not now.
ReadableEver(r) == r \in comparison.photos

\* The file is read when its turn comes; one that is gone is passed over.
Readable(r) == r \in comparison.photos /\ r \in files

ComparePhoto(r) ==
    /\ comparison.status = "running" /\ Readable(r)
    /\ sent' = sent \cup {r}
    /\ comparison' = [comparison EXCEPT !.photos = @ \ {r}]
    /\ UNCHANGED <<profile, ref, files, slow, cleanup, erasureVars>>

EndComparison(status) ==
    /\ comparison.status = "running" /\ \A r \in References : ~Readable(r)
    /\ comparison' = [status |-> status, photos |-> {}]
    /\ UNCHANGED <<profile, ref, files, slow, cleanup, sent, erasureVars>>

\* A restart: handlers and their cleanup are gone, the files stay.
RestartIdentity ==
    /\ slow' = NoHandler /\ erasing' = NoErasure /\ cleanup' = NoCleanup
    /\ comparison' = IF Comparing THEN [status |-> "error", photos |-> {}] ELSE comparison
    /\ UNCHANGED <<profile, ref, files, sent, overlooked>>

ProfileStep ==
    \/ \E r \in References, op \in {"add", "approve", "reject", "delete"} : BeginProfileCall(op, r)
    \/ \E op \in {"put", "grant", "withdraw"} : BeginProfileCall(op, 0)
    \/ \E required \in BOOLEAN : SaveProfile(required)
    \/ GrantConsent \/ WithdrawConsent \/ CleanUp
    \/ \E r \in References :
         \/ WriteReferenceFile(r) \/ AddReference(r) \/ ApproveReference(r)
         \/ RejectReference(r) \/ DeleteReference(r)

ComparisonStep ==
    \/ BeginProfileCall("compare", 0)
    \/ ListErasure \/ CancelListed \/ ErasePersona \/ ValidateMedia \/ StartComparison
    \/ \E r \in References : ComparePhoto(r)
    \/ \E status \in {"done", "error"} : EndComparison(status)

IdentityNext == ProfileStep \/ ComparisonStep \/ RestartIdentity

IdentitySpec == IdentityInit /\ [][IdentityNext]_identityVars

-----------------------------------------------------------------------------

\* A photo reaches the comparison service only while there is consent, or while
\* the handler that took it back has not cleaned up yet: overlapping handlers
\* and a queued comparison included.  The one exception is a photo that was
\* added, approved and compared while the persona was being deleted: it is on
\* no list of the deletion, and its comparison goes on without the persona.
SentUnderConsent ==
    [][sent' # sent =>
          \/ profile.consent = "granted" \/ cleanup # NoCleanup
          \/ sent' \ sent \subseteq overlooked]_identityVars

\* docs/persona-visual-identity.md: "Withdrawing consent deletes every
\* reference file".
WithdrawalDeletesAll ==
    profile.consent = "withdrawn" => \A r \in References : ref[r].review \in {"none", "deleted"}

\* Consent over all states of the type.
ConsentHolds == []IdentityTypeOK /\ SentUnderConsent
=============================================================================
