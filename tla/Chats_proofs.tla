----------------------------- MODULE Chats_proofs -----------------------------
(***************************************************************************)
(* Theorems about what a chat is made of and leaves behind: its memories     *)
(* (MemoryLifecycle), the tasks run for it (TaskRuns), its prompt and its    *)
(* checkpoints (ConversationContext), what its persona says (PersonaOutput)  *)
(* and where it is at home (WorkspacesPersonas), the recordings of its       *)
(* replies (SpeechRecordings) and the archives of all this                   *)
(* (BackupSnapshots).  Each part has the inductive invariant it needs, with  *)
(* one lemma per action where the action has more to say than the types.      *)
(* At the end, the instance that TLC checks (MC_Chats) behaves as each of    *)
(* its parts, so that what is proved of a part holds of it.                  *)
(***************************************************************************)
EXTENDS MC_Chats, WellFoundedInduction, FiniteSetTheorems, SequenceTheorems, TLAPS

-----------------------------------------------------------------------------
(* Memories.  Why nothing is in use that its owner has not seen: what an     *)
(* undoable event would put back in use was vouched for, and so was what a   *)
(* handler has read as in use, for as long as the row is there.             *)

Present == {"pending", "active", "rejected", "forgotten", "superseded"}
Events == [action : {"approved", "rejected", "forgotten", "edited"}, from : Present,
           related : Memories \cup {0}]

Rows == [status : MemoryStatuses, text : Texts \cup {"-"}, scope : Scopes \cup {"global", "persona", "chat"},
         supersedes : Memories \cup {0}]

MemoryTypes ==
    /\ memory \in [Memories -> Rows]
    /\ undoable \in [Memories -> Seq(Events)]
    /\ personaLives \in BOOLEAN
    /\ chatLives \in BOOLEAN
    /\ extraction \in {"none", "queued", "running"}
    /\ vouched \subseteq Memories
    /\ \/ reviewing = NoReview
       \/ reviewing \in [action : DOMAIN Target, memory : Memories, seen : Present]

\* The row an event puts back is there, and was vouched for if it comes back in use.
Traceable(e, m) ==
    /\ e.related # 0 => Exists(e.related)
    /\ e.from = "active" => IF e.action = "edited" THEN e.related \in vouched \cup {0} ELSE m \in vouched

HistoryVouched == \A m \in Memories : \A i \in 1..Len(undoable[m]) : Traceable(undoable[m][i], m)

ReviewVouched ==
    reviewing # NoReview =>
        /\ memory[reviewing.memory].status # "none"
        /\ reviewing.seen = "active" /\ Exists(reviewing.memory) => reviewing.memory \in vouched

MemoryInv ==
    /\ MemoryTypes
    /\ HistoryVouched
    /\ ReviewVouched
    /\ NothingLearnedUnreviewed
    /\ LiveTextOnce

LEMMA RowsStayRows ==
    /\ \A r \in Rows, s \in MemoryStatuses : [r EXCEPT !.status = s] \in Rows /\ [r EXCEPT !.status = s].status = s
    /\ \A r \in Rows : \A k \in Memories \cup {0} : [r EXCEPT !.supersedes = k] \in Rows
    /\ \A s \in MemoryStatuses, t \in Texts \cup {"-"}, c \in Scopes \cup {"global", "persona", "chat"},
          k \in Memories \cup {0} : Row(s, t, c, k) \in Rows
    /\ NoRow \in Rows /\ [NoRow EXCEPT !.status = "gone"] \in Rows
BY DEF Rows, Row, NoRow, MemoryStatuses

LEMMA RowShape ==
    ASSUME MemoryInv, NEW m \in Memories
    PROVE  memory[m] \in Rows /\ memory[m].status \in MemoryStatuses /\ memory[m].supersedes \in Memories \cup {0}
BY DEF MemoryInv, MemoryTypes, Rows

LEMMA MemoryInitially == MemoryInit => MemoryInv
<1> SUFFICES ASSUME MemoryInit PROVE MemoryInv
  OBVIOUS
<1>1. MemoryTypes
  BY DEF MemoryInit, MemoryTypes, Rows, NoRow, Row, NoReview, MemoryStatuses
<1>2. HistoryVouched /\ ReviewVouched /\ NothingLearnedUnreviewed /\ LiveTextOnce
  BY DEF MemoryInit, HistoryVouched, ReviewVouched, NothingLearnedUnreviewed, LiveTextOnce, NoRow, Row, NoReview, Live
<1> QED
  BY <1>1, <1>2 DEF MemoryInv

LEMMA ActionsAndTargets ==
    ASSUME NEW a \in DOMAIN Target
    PROVE  a \in {"approved", "rejected", "forgotten"} /\ Target[a] \in Present
           /\ Allowed[a] \subseteq Present
BY DEF Target, Allowed, Present, Live

\* The unique index: what it admits holds no text twice.
LEMMA AdmittedOnce == IndexAdmits(memory') => LiveTextOnce'
BY DEF IndexAdmits, LiveTextOnce

\* Histories stay traceable while rows stay and what is added is traceable.
LEMMA HistoryStays ==
    ASSUME MemoryInv, vouched \subseteq vouched', \A k \in Memories : Exists(k) => Exists(k)',
           MemoryTypes',
           \A k \in Memories, e \in Events : \A i \in 1..Len(undoable'[k]) :
              undoable'[k][i] = e => \/ i \in 1..Len(undoable[k]) /\ undoable[k][i] = e
                                     \/ Traceable(e, k)'
    PROVE  HistoryVouched'
<1>1. \A k \in Memories, e \in Events : Traceable(e, k) => Traceable(e, k)'
  BY DEF Traceable, Events
<1>2. \A k \in Memories, e \in Events : \A i \in 1..Len(undoable'[k]) : undoable'[k][i] = e => Traceable(e, k)'
  BY <1>1 DEF MemoryInv, HistoryVouched
<1>3. \A k \in Memories : \A i \in 1..Len(undoable'[k]) : undoable'[k][i] \in Events
  BY DEF MemoryTypes
<1>4. \A k \in Memories : \A i \in 1..Len(undoable'[k]) : \E e \in Events : undoable'[k][i] = e /\ Traceable(e, k)'
  BY <1>2, <1>3
<1> QED
  BY <1>4 DEF HistoryVouched, Traceable

LEMMA Appended ==
    ASSUME MemoryInv, NEW m \in Memories, NEW e \in Events, undoable' = [undoable EXCEPT ![m] = Append(@, e)],
           NEW k \in Memories, NEW i \in 1..Len(undoable'[k])
    PROVE  \/ i \in 1..Len(undoable[k]) /\ undoable'[k][i] = undoable[k][i]
           \/ k = m /\ undoable'[k][i] = e
BY DEF MemoryInv, MemoryTypes

LEMMA CreateKeeps == ASSUME MemoryInv, NEW m \in Memories, NEW t \in Texts, NEW s \in Scopes, NEW status \in Live, Create(m, t, s, status) PROVE MemoryInv'
<1>1. MemoryTypes'
  <2>1. Row(status, t, s, 0) \in Rows
    BY RowsStayRows DEF Live, MemoryStatuses
  <2>2. memory' \in [Memories -> Rows] /\ vouched' \subseteq Memories
    BY <2>1 DEF MemoryInv, MemoryTypes, Create, Writes
  <2> QED
    BY <2>2 DEF MemoryInv, MemoryTypes, Create
<1>2. HistoryVouched'
  BY SMTT(30) DEF MemoryInv, MemoryTypes, Rows, HistoryVouched, NothingLearnedUnreviewed, Traceable, Events, ReviewVouched, NoReview, Exists, Create, Unused, ValidScope, Writes, Row, Live
<1>3. ReviewVouched'
  <2>1. reviewing' = reviewing /\ vouched \subseteq vouched'
    BY DEF Create
  <2>2. \A k \in Memories : k # m => memory'[k] = memory[k]
    BY DEF MemoryInv, MemoryTypes, Create, Writes
  <2>3. memory[m].status = "none" /\ memory'[m].status # "none"
    BY DEF MemoryInv, MemoryTypes, Create, Unused, Writes, Row, Live
  <2> QED
    BY <2>1, <2>2, <2>3 DEF MemoryInv, MemoryTypes, Rows, ReviewVouched, Exists
<1>4. NothingLearnedUnreviewed'
  BY SMTT(30) DEF MemoryInv, MemoryTypes, Rows, NothingLearnedUnreviewed, HistoryVouched, Traceable, Events, Exists, MemoryStatuses, Create, Unused, ValidScope, Writes, Row, Live
<1>5. LiveTextOnce'
  BY SMTT(30) DEF MemoryInv, MemoryTypes, Rows, LiveTextOnce, Live, IndexAdmits, Exists, Create, Unused, ValidScope, Writes, Row
<1> QED
  BY <1>1, <1>2, <1>3, <1>4, <1>5 DEF MemoryInv

LEMMA ReviewKeeps == ASSUME MemoryInv, NEW m \in Memories, NEW a \in DOMAIN Target, Review(m, a) PROVE MemoryInv'
<1>1. MemoryTypes'
  <2>1. reviewing' \in [action : DOMAIN Target, memory : Memories, seen : Present]
    BY ActionsAndTargets DEF Review
  <2> QED
    BY <2>1 DEF MemoryInv, MemoryTypes, Review
<1>2. HistoryVouched'
  BY SMTT(30) DEF MemoryInv, MemoryTypes, Rows, HistoryVouched, NothingLearnedUnreviewed, Traceable, Events, ReviewVouched, NoReview, Exists, Review, Allowed, Target, Live
<1>3. ReviewVouched'
  BY SMTT(30) DEF MemoryInv, MemoryTypes, Rows, ReviewVouched, NothingLearnedUnreviewed, Exists, NoReview, MemoryStatuses, Review, Allowed, Target, Live
<1>4. NothingLearnedUnreviewed'
  BY SMTT(30) DEF MemoryInv, MemoryTypes, Rows, NothingLearnedUnreviewed, HistoryVouched, Traceable, Events, Exists, MemoryStatuses, Review, Allowed, Target, Live
<1>5. LiveTextOnce'
  BY SMTT(30) DEF MemoryInv, MemoryTypes, Rows, LiveTextOnce, Live, IndexAdmits, Exists, Review, Allowed, Target
<1> QED
  BY <1>1, <1>2, <1>3, <1>4, <1>5 DEF MemoryInv

LEMMA ReviewWritesKeeps == ASSUME MemoryInv, ReviewWrites PROVE MemoryInv'
<1>1. MemoryTypes'
  <2> DEFINE m == reviewing.memory
             a == reviewing.action
  <2>1. m \in Memories /\ a \in DOMAIN Target /\ reviewing.seen \in Present
    BY DEF MemoryInv, MemoryTypes, ReviewWrites
  <2>2. a \in {"approved", "rejected", "forgotten"} /\ Target[a] \in Present
    BY <2>1, ActionsAndTargets
  <2>3. CASE UNCHANGED <<memory, undoable, vouched>>
    BY <2>3 DEF MemoryInv, MemoryTypes, ReviewWrites
  <2>4. CASE memory' = [memory EXCEPT ![m].status = Target[a]]
             /\ undoable' = [undoable EXCEPT ![m] = Append(@, Event(a, reviewing.seen, 0))]
             /\ vouched' = IF a = "approved" THEN vouched \cup {m} ELSE vouched
    <3>1. memory' \in [Memories -> Rows]
      <4>1. [memory[m] EXCEPT !.status = Target[a]] \in Rows
        BY <2>1, <2>2, RowsStayRows DEF MemoryInv, MemoryTypes, Present, MemoryStatuses
      <4> QED
        BY <2>1, <2>4, <4>1 DEF MemoryInv, MemoryTypes
    <3>2. undoable' \in [Memories -> Seq(Events)]
      <4>1. Event(a, reviewing.seen, 0) \in Events
        BY <2>1, <2>2 DEF Event, Events
      <4> QED
        BY <2>1, <2>4, <4>1 DEF MemoryInv, MemoryTypes
    <3> QED
      BY <2>1, <2>4, <3>1, <3>2 DEF MemoryInv, MemoryTypes, ReviewWrites
  <2> QED
    BY <2>3, <2>4 DEF ReviewWrites, Writes, Logs
<1>2. HistoryVouched'
  <2>6. PICK m : m = reviewing.memory
    OBVIOUS
  <2>7. PICK e : e = Event(reviewing.action, reviewing.seen, 0)
    OBVIOUS
  <2>1. m \in Memories /\ reviewing.action \in {"approved", "rejected", "forgotten"} /\ reviewing.seen \in Present
    BY <2>6, ActionsAndTargets DEF MemoryInv, MemoryTypes, ReviewWrites
  <2>2. \A k \in Memories : Exists(k) => Exists(k)'
    <3>1. Target[reviewing.action] \in Present
      BY ActionsAndTargets DEF MemoryInv, MemoryTypes, ReviewWrites
    <3>2. [memory[m] EXCEPT !.status = Target[reviewing.action]].status = Target[reviewing.action]
      BY <2>1, <3>1, RowsStayRows, RowShape DEF Present, MemoryStatuses
    <3> QED
      BY <2>1, <2>6, <3>1, <3>2 DEF MemoryInv, MemoryTypes, ReviewWrites, Writes, Exists, Present
  <2>3. vouched \subseteq vouched'
    BY DEF ReviewWrites
  <2>4. CASE undoable' = undoable
    BY <1>1, <2>2, <2>3, <2>4, HistoryStays
  <2>5. CASE Exists(m) /\ undoable' = [undoable EXCEPT ![m] = Append(@, e)]
             /\ vouched' = IF reviewing.action = "approved" THEN vouched \cup {m} ELSE vouched
    <3>1. e \in Events
      BY <2>1, <2>7 DEF Event, Events
    <3>2. Traceable(e, m)'
      <4>1. e.related = 0 /\ e.action # "edited" /\ e.from = reviewing.seen
        BY <2>1, <2>7 DEF Event
      <4>2. reviewing.seen = "active" => m \in vouched
        BY <2>5, <2>6 DEF MemoryInv, ReviewVouched, ReviewWrites
      <4> QED
        BY <2>3, <4>1, <4>2 DEF Traceable
    <3>3. ASSUME NEW k \in Memories, NEW f \in Events, NEW i \in 1..Len(undoable'[k]), undoable'[k][i] = f
          PROVE  \/ i \in 1..Len(undoable[k]) /\ undoable[k][i] = f
                 \/ Traceable(f, k)'
      <4>1. \/ i \in 1..Len(undoable[k]) /\ undoable'[k][i] = undoable[k][i]
            \/ k = m /\ undoable'[k][i] = e
        BY <2>1, <2>5, <3>1, Appended
      <4>2. k = m /\ f = e => Traceable(f, k)'
        BY <3>2
      <4> QED
        BY <3>3, <4>1, <4>2
    <3> QED
      BY <1>1, <2>2, <2>3, <3>3, HistoryStays
  <2> QED
    BY <2>4, <2>5, <2>6, <2>7 DEF ReviewWrites, Logs
<1>3. ReviewVouched'
  BY SMTT(30) DEF MemoryInv, MemoryTypes, Rows, ReviewVouched, NothingLearnedUnreviewed, Exists, NoReview, MemoryStatuses, ReviewWrites, Writes, Logs, Event, Target
<1>4. NothingLearnedUnreviewed'
  BY SMTT(30) DEF MemoryInv, MemoryTypes, Rows, NothingLearnedUnreviewed, HistoryVouched, Traceable, Events, Exists, MemoryStatuses, ReviewWrites, Writes, Logs, Event, Target
<1>5. LiveTextOnce'
  BY AdmittedOnce DEF MemoryInv, ReviewWrites, Writes, LiveTextOnce
<1> QED
  BY <1>1, <1>2, <1>3, <1>4, <1>5 DEF MemoryInv

LEMMA ReviseKeeps == ASSUME MemoryInv, NEW m \in Memories, NEW n \in Memories, NEW t \in Texts, NEW s \in Scopes, Revise(m, n, t, s) PROVE MemoryInv'
<1>1. MemoryTypes'
  <2>1. memory[m].status \in Present /\ RevisedStatus(memory[m].status) \in Present
    BY RowShape DEF MemoryStatuses, Present, Revise, Exists, RevisedStatus
  <2>2. memory' \in [Memories -> Rows]
    <3>1. Row(RevisedStatus(memory[m].status), t, s, m) \in Rows /\ [memory[m] EXCEPT !.status = "superseded"] \in Rows
      BY <2>1, RowsStayRows DEF MemoryInv, MemoryTypes, Present, MemoryStatuses
    <3> QED
      BY <3>1 DEF MemoryInv, MemoryTypes, Revise, Writes
  <2>3. undoable' \in [Memories -> Seq(Events)]
    <3>1. Event("edited", memory[m].status, m) \in Events
      BY <2>1 DEF Event, Events
    <3> QED
      BY <3>1 DEF MemoryInv, MemoryTypes, Revise, Logs
  <2> QED
    BY <2>2, <2>3 DEF MemoryInv, MemoryTypes, Revise
<1>2. HistoryVouched'
  <2>8. PICK e : e = Event("edited", memory[m].status, m)
    OBVIOUS
  <2>1. memory[m].status \in Present /\ Exists(m) /\ m # n
    BY RowShape DEF MemoryStatuses, Present, Revise, Exists, Unused
  <2>2. \A k \in Memories : Exists(k) => Exists(k)'
    <3>1. [memory[m] EXCEPT !.status = "superseded"].status = "superseded"
      BY RowsStayRows, RowShape DEF MemoryStatuses
    <3>2. memory'[m].status = "superseded" /\ memory[n].status = "none"
      BY <2>1, <3>1 DEF MemoryInv, MemoryTypes, Revise, Writes, Unused
    <3>3. \A k \in Memories : k # m /\ k # n => memory'[k] = memory[k]
      BY DEF MemoryInv, MemoryTypes, Revise, Writes
    <3> QED
      BY <3>2, <3>3 DEF Exists
  <2>3. vouched \subseteq vouched'
    BY DEF Revise
  <2>4. e \in Events
    BY <2>1, <2>8 DEF Event, Events
  <2>5. Traceable(e, n)'
    <3>1. e.related = m /\ e.action = "edited" /\ e.from = memory[m].status
      BY <2>8 DEF Event
    <3>2. memory[m].status = "active" => m \in vouched
      BY DEF MemoryInv, NothingLearnedUnreviewed
    <3> QED
      BY <2>1, <2>2, <2>3, <3>1, <3>2 DEF Traceable
  <2>6. undoable' = [undoable EXCEPT ![n] = Append(@, e)]
    BY <2>8 DEF Revise, Logs
  <2>7. ASSUME NEW k \in Memories, NEW f \in Events, NEW i \in 1..Len(undoable'[k]), undoable'[k][i] = f
        PROVE  \/ i \in 1..Len(undoable[k]) /\ undoable[k][i] = f
               \/ Traceable(f, k)'
    <3>1. \/ i \in 1..Len(undoable[k]) /\ undoable'[k][i] = undoable[k][i]
          \/ k = n /\ undoable'[k][i] = e
      BY <2>4, <2>6, Appended
    <3>2. k = n /\ f = e => Traceable(f, k)'
      BY <2>5
    <3> QED
      BY <2>7, <3>1, <3>2
  <2> QED
    BY <1>1, <2>2, <2>3, <2>7, HistoryStays
<1>3. ReviewVouched'
  <2>1. reviewing' = reviewing /\ vouched \subseteq vouched'
    BY DEF Revise
  <2>2. \A k \in Memories : k # m /\ k # n => memory'[k] = memory[k]
    BY DEF MemoryInv, MemoryTypes, Revise, Writes
  <2>3. memory[n].status = "none" /\ Exists(m)
    BY DEF Revise, Unused
  <2>4. memory'[m].status # "none"
    <3>1. m # n /\ [memory[m] EXCEPT !.status = "superseded"].status = "superseded"
      BY <2>3, RowsStayRows, RowShape DEF Exists, MemoryStatuses
    <3> QED
      BY <3>1 DEF MemoryInv, MemoryTypes, Revise, Writes
  <2> QED
    BY <2>1, <2>2, <2>3, <2>4 DEF MemoryInv, MemoryTypes, Rows, ReviewVouched, Exists
<1>4. NothingLearnedUnreviewed'
  <2>1. \A k \in Memories : k # m /\ k # n => memory'[k] = memory[k]
    BY DEF MemoryInv, MemoryTypes, Revise, Writes
  <2>2. m # n
    BY DEF Revise, Unused, Exists
  <2>3. memory'[m].status = "superseded" /\ memory'[n].status = RevisedStatus(memory[m].status)
    <3>1. [memory[m] EXCEPT !.status = "superseded"].status = "superseded"
      BY RowsStayRows, RowShape DEF MemoryStatuses
    <3> QED
      BY <2>2, <3>1 DEF MemoryInv, MemoryTypes, Revise, Writes, Row
  <2> QED
    BY <2>1, <2>3 DEF MemoryInv, NothingLearnedUnreviewed, Revise, RevisedStatus
<1>5. LiveTextOnce'
  BY AdmittedOnce DEF MemoryInv, Revise, Writes, LiveTextOnce
<1> QED
  BY <1>1, <1>2, <1>3, <1>4, <1>5 DEF MemoryInv

\* What an undo puts back.
LEMMA UndoneRows ==
    ASSUME MemoryInv, NEW m \in Memories, Undo(m)
    PROVE  \A k \in Memories :
              \/ memory'[k].status = memory[k].status
              \/ /\ Exists(k) /\ memory'[k].status \in Present
                 /\ memory'[k].status = "active" => k \in vouched
<1> DEFINE e == LatestUndoable(m)
<1>1. e \in Events /\ Traceable(e, m)
  BY DEF MemoryInv, MemoryTypes, HistoryVouched, Undo, LatestUndoable
<1>2. memory' = Undone(m, e) /\ (e.action = "edited" => e.related # 0)
  BY DEF Undo, Writes
<1>5. Exists(m)
  BY DEF Undo
<1> HIDE DEF e
<1>3. CASE e.action = "edited"
  <2>1. e.related \in Memories /\ Exists(e.related) /\ e.from \in Present
        /\ (e.from = "active" => e.related \in vouched)
    BY <1>1, <1>2, <1>3 DEF Traceable, Events
  <2>2. memory' = [memory EXCEPT ![m].status = "superseded", ![e.related].status = e.from]
    BY <1>2, <1>3 DEF Undone
  <2> DEFINE rows == [memory EXCEPT ![m].status = "superseded"]
  <2>4. rows \in [Memories -> Rows]
        /\ \A k \in Memories : rows[k].status = memory[k].status \/ (k = m /\ rows[k].status = "superseded")
    <3>1. [memory[m] EXCEPT !.status = "superseded"] \in Rows /\ [memory[m] EXCEPT !.status = "superseded"].status = "superseded"
      BY RowsStayRows, RowShape DEF MemoryStatuses
    <3>4. \A k \in Memories : memory[k] \in Rows
      BY RowShape
    <3>2. \A k \in Memories : rows[k] = IF k = m THEN [memory[m] EXCEPT !.status = "superseded"] ELSE memory[k]
      BY DEF MemoryInv, MemoryTypes
    <3>3. rows = [k \in Memories |-> rows[k]]
      BY DEF MemoryInv, MemoryTypes
    <3> HIDE DEF rows
    <3>5. \A k \in Memories : rows[k] \in Rows /\ (rows[k].status = memory[k].status \/ (k = m /\ rows[k].status = "superseded"))
      BY <3>1, <3>2, <3>4
    <3> QED
      BY <3>3, <3>5
  <2>5. memory' = [rows EXCEPT ![e.related].status = e.from]
    BY <2>2
  <2> HIDE DEF rows
  <2>3. \A k \in Memories : \/ memory'[k].status = memory[k].status
                            \/ k = m /\ memory'[k].status = "superseded"
                            \/ k = e.related /\ memory'[k].status = e.from
    <3>1. e.from \in MemoryStatuses
      BY <2>1 DEF Present, MemoryStatuses
    <3>2. [rows[e.related] EXCEPT !.status = e.from].status = e.from
      BY <2>1, <2>4, <3>1, RowsStayRows
    <3>3. memory' = [rows EXCEPT ![e.related] = [rows[e.related] EXCEPT !.status = e.from]]
      BY <2>1, <2>4, <2>5
    <3>4. \A k \in Memories : memory'[k] = IF k = e.related THEN [rows[e.related] EXCEPT !.status = e.from] ELSE rows[k]
      BY <2>4, <3>3
    <3> QED
      BY <2>4, <3>2, <3>4
  <2> QED
    BY <1>5, <2>1, <2>3 DEF Present
<1>4. CASE e.action # "edited"
  <2>1. e.from \in Present /\ (e.from = "active" => m \in vouched)
    BY <1>1, <1>4 DEF Traceable, Events
  <2>2. memory' = [memory EXCEPT ![m].status = e.from]
    BY <1>2, <1>4 DEF Undone
  <2> QED
    BY <1>5, <2>1, <2>2 DEF MemoryInv, MemoryTypes
<1> QED
  BY <1>3, <1>4

LEMMA UndoKeeps == ASSUME MemoryInv, NEW m \in Memories, Undo(m) PROVE MemoryInv'
<1>1. MemoryTypes'
  <2> DEFINE e == LatestUndoable(m)
  <2>1. e \in Events
    BY DEF MemoryInv, MemoryTypes, Undo, LatestUndoable
  <2>2. e.from \in MemoryStatuses /\ (e.action = "edited" => e.related \in Memories)
    BY <2>1 DEF Events, Present, MemoryStatuses, Undo
  <2>3. memory' = Undone(m, e)
    BY DEF Undo, Writes
  <2>4. memory' \in [Memories -> Rows]
    <3> HIDE DEF e
    <3>1. \A rows \in [Memories -> Rows], k \in Memories, s \in MemoryStatuses : [rows EXCEPT ![k].status = s] \in [Memories -> Rows]
      BY RowsStayRows
    <3>2. "superseded" \in MemoryStatuses /\ memory \in [Memories -> Rows]
      BY DEF MemoryInv, MemoryTypes, MemoryStatuses
    <3>3. CASE e.action = "edited"
      <4>1. [memory EXCEPT ![m].status = "superseded"] \in [Memories -> Rows]
        BY <3>1, <3>2
      <4>2. memory' = [[memory EXCEPT ![m].status = "superseded"] EXCEPT ![e.related].status = e.from]
        BY <2>3, <3>3 DEF Undone
      <4> QED
        BY <2>2, <3>1, <3>3, <4>1, <4>2
    <3>4. CASE e.action # "edited"
      BY <2>2, <2>3, <3>1, <3>2, <3>4 DEF Undone
    <3> QED
      BY <3>3, <3>4
  <2>5. undoable' \in [Memories -> Seq(Events)]
    BY DEF MemoryInv, MemoryTypes, Undo
  <2> QED
    BY <2>4, <2>5 DEF MemoryInv, MemoryTypes, Undo
<1>2. HistoryVouched'
  <2>1. \A k \in Memories : Exists(k) => Exists(k)'
    BY UndoneRows DEF Exists, Present
  <2>2. \A k \in Memories : \A i \in 1..Len(undoable'[k]) :
           i \in 1..Len(undoable[k]) /\ undoable'[k][i] = undoable[k][i]
    <3>1. \A k \in Memories : undoable[k] \in Seq(Events)
      BY DEF MemoryInv, MemoryTypes
    <3>2. ASSUME NEW k \in Memories, k # m PROVE undoable'[k] = undoable[k]
      BY <3>2 DEF MemoryInv, MemoryTypes, Undo
    <3>3. undoable'[m] = SubSeq(undoable[m], 1, Len(undoable[m]) - 1)
      BY DEF MemoryInv, MemoryTypes, Undo
    <3>4. \A i \in 1..Len(undoable'[m]) : i \in 1..Len(undoable[m]) /\ undoable'[m][i] = undoable[m][i]
      BY <3>1, <3>3 DEF Undo
    <3> QED
      BY <3>1, <3>2, <3>4
  <2> QED
    BY <1>1, <2>1, <2>2, HistoryStays DEF Undo
<1>3. ReviewVouched'
  <2>1. reviewing' = reviewing /\ vouched' = vouched
    BY DEF Undo
  <2> QED
    <3>1. CASE reviewing = NoReview
      BY <2>1, <3>1 DEF ReviewVouched
    <3>2. CASE reviewing # NoReview
      <4>1. reviewing.memory \in Memories
        BY <3>2 DEF MemoryInv, MemoryTypes
      <4>2. \/ memory'[reviewing.memory].status = memory[reviewing.memory].status
            \/ memory'[reviewing.memory].status \in Present /\ Exists(reviewing.memory)
        BY <2>1, <4>1, UndoneRows DEF Present, Exists
      <4> QED
        BY <2>1, <3>2, <4>1, <4>2 DEF MemoryInv, ReviewVouched, Exists, Present
    <3> QED
      BY <3>1, <3>2
<1>4. NothingLearnedUnreviewed'
  BY UndoneRows DEF MemoryInv, NothingLearnedUnreviewed, Undo
<1>5. LiveTextOnce'
  <2>1. IndexAdmits(memory')
    BY DEF Undo, Writes
  <2> QED
    BY <2>1 DEF LiveTextOnce, IndexAdmits
<1> QED
  BY <1>1, <1>2, <1>3, <1>4, <1>5 DEF MemoryInv

LEMMA DeletedKeeps == ASSUME MemoryInv, NEW gone \in SUBSET Memories, Deleted(gone) PROVE MemoryInv'
<1>1. MemoryTypes'
  <2>1. memory' \in [Memories -> Rows]
    <3>1. \A k \in Memories : [memory[k] EXCEPT !.supersedes = IF @ \in gone THEN 0 ELSE @] \in Rows
      BY RowShape DEF Rows
    <3> QED
      BY <3>1, RowsStayRows DEF Deleted
  <2>2. undoable' \in [Memories -> Seq(Events)]
    <3>1. ASSUME NEW k \in Memories, NEW i \in 1..Len(undoable[k])
          PROVE  [undoable[k][i] EXCEPT !.related = IF @ \in gone THEN 0 ELSE @] \in Events
      <4>1. undoable[k][i] \in Events
        BY DEF MemoryInv, MemoryTypes
      <4> QED
        BY <4>1 DEF Events
    <3>2. \A k \in Memories : Len(undoable[k]) \in Nat
      BY DEF MemoryInv, MemoryTypes
    <3>3. ASSUME NEW k \in Memories PROVE undoable'[k] \in Seq(Events)
      BY <3>1, <3>2 DEF Deleted
    <3> QED
      BY <3>3 DEF Deleted
  <2> QED
    BY <2>1, <2>2 DEF MemoryInv, MemoryTypes, Deleted
<1>2. HistoryVouched'
  <2>1. \A j \in Memories \ gone : Exists(j) => Exists(j)'
    <3>1. \A j \in Memories \ gone : memory'[j].status = memory[j].status
      BY RowShape DEF Deleted, Rows
    <3> QED
      BY <3>1 DEF Exists
  <2>2. vouched' = vouched \ gone
    BY DEF Deleted
  <2>3. ASSUME NEW k \in Memories, NEW i \in 1..Len(undoable'[k])
        PROVE  \E f \in Events : undoable'[k][i] = f /\ Traceable(f, k)'
    <3>1. k \notin gone
      BY DEF Deleted
    <3>2. undoable'[k] = [j \in 1..Len(undoable[k]) |->
                           [undoable[k][j] EXCEPT !.related = IF @ \in gone THEN 0 ELSE @]]
      BY <3>1 DEF Deleted
    <3>3. i \in 1..Len(undoable[k])
      <4>1. Len(undoable[k]) \in Nat
        BY DEF MemoryInv, MemoryTypes
      <4> QED
        BY <3>2, <4>1
    <3>4. PICK e \in Events : e = undoable[k][i] /\ Traceable(e, k)
      BY <3>3 DEF MemoryInv, MemoryTypes, HistoryVouched
    <3>5. PICK f : f = [e EXCEPT !.related = IF @ \in gone THEN 0 ELSE @]
      OBVIOUS
    <3>6. undoable'[k][i] = f
      BY <3>2, <3>3, <3>4, <3>5
    <3>7. e.related \in Memories \cup {0}
      BY DEF Events
    <3>8. /\ f \in Events
          /\ f.action = e.action
          /\ f.from = e.from
          /\ f.related = IF e.related \in gone THEN 0 ELSE e.related
      BY <3>5 DEF Events
    <3>9. Traceable(f, k)'
      BY <2>1, <2>2, <3>1, <3>4, <3>7, <3>8 DEF Traceable
    <3> QED
      BY <3>6, <3>8, <3>9
  <2> QED
    BY <2>3 DEF HistoryVouched, Traceable
<1>3. ReviewVouched'
  BY SMTT(30) DEF MemoryInv, MemoryTypes, Rows, ReviewVouched, NothingLearnedUnreviewed, Exists, NoReview, MemoryStatuses, Deleted, NoRow, Row
<1>4. NothingLearnedUnreviewed'
  BY SMTT(30) DEF MemoryInv, MemoryTypes, Rows, NothingLearnedUnreviewed, HistoryVouched, Traceable, Events, Exists, MemoryStatuses, Deleted, NoRow, Row
<1>5. LiveTextOnce'
  BY SMTT(30) DEF MemoryInv, MemoryTypes, Rows, LiveTextOnce, Live, IndexAdmits, Exists, Deleted, NoRow, Row
<1> QED
  BY <1>1, <1>2, <1>3, <1>4, <1>5 DEF MemoryInv

LEMMA ForgetSeveralKeeps == ASSUME MemoryInv, NEW chosen \in SUBSET Memories, ForgetSeveral(chosen) PROVE MemoryInv'
<1>1. MemoryTypes'
  <2>1. memory' \in [Memories -> Rows]
    <3>1. \A k \in Memories : [memory[k] EXCEPT !.status = "forgotten"] \in Rows
      BY RowsStayRows DEF MemoryInv, MemoryTypes, MemoryStatuses
    <3> QED
      BY <3>1 DEF MemoryInv, MemoryTypes, ForgetSeveral
  <2>2. undoable' \in [Memories -> Seq(Events)]
    <3>1. ASSUME NEW k \in chosen PROVE Event("forgotten", memory[k].status, 0) \in Events
      BY DEF ForgetSeveral, Event, Events, Present, Live
    <3> QED
      BY <3>1 DEF MemoryInv, MemoryTypes, ForgetSeveral
  <2> QED
    BY <2>1, <2>2 DEF MemoryInv, MemoryTypes, ForgetSeveral
<1>2. HistoryVouched'
  <2>1. \A k \in Memories : Exists(k) => Exists(k)'
    <3>1. \A k \in Memories : memory'[k] \in {memory[k], [memory[k] EXCEPT !.status = "forgotten"]}
      BY DEF ForgetSeveral
    <3> QED
      BY <3>1, RowsStayRows, RowShape DEF Exists, MemoryStatuses
  <2>2. ASSUME NEW k \in Memories, NEW f \in Events, NEW i \in 1..Len(undoable'[k]), undoable'[k][i] = f
        PROVE  \/ i \in 1..Len(undoable[k]) /\ undoable[k][i] = f
               \/ Traceable(f, k)'
    <3>1. CASE undoable'[k] = undoable[k]
      BY <2>2, <3>1
    <3>2. CASE undoable'[k] = Append(undoable[k], Event("forgotten", memory[k].status, 0))
      <4>1. \/ i \in 1..Len(undoable[k]) /\ undoable'[k][i] = undoable[k][i]
            \/ f = Event("forgotten", memory[k].status, 0)
        BY <2>2, <3>2 DEF MemoryInv, MemoryTypes
      <4>2. f = Event("forgotten", memory[k].status, 0) => Traceable(f, k)'
        BY DEF MemoryInv, NothingLearnedUnreviewed, Traceable, Event, ForgetSeveral
      <4> QED
        BY <2>2, <4>1, <4>2
    <3> QED
      BY <3>1, <3>2 DEF ForgetSeveral
  <2> QED
    BY <1>1, <2>1, <2>2, HistoryStays DEF ForgetSeveral
<1>3. ReviewVouched'
  BY SMTT(30) DEF MemoryInv, MemoryTypes, Rows, ReviewVouched, NothingLearnedUnreviewed, Exists, NoReview, MemoryStatuses, ForgetSeveral, Event, Live
<1>4. NothingLearnedUnreviewed'
  BY SMTT(30) DEF MemoryInv, MemoryTypes, Rows, NothingLearnedUnreviewed, HistoryVouched, Traceable, Events, Exists, MemoryStatuses, ForgetSeveral, Event, Live
<1>5. LiveTextOnce'
  BY SMTT(30) DEF MemoryInv, MemoryTypes, Rows, LiveTextOnce, Live, IndexAdmits, Exists, ForgetSeveral, Event
<1> QED
  BY <1>1, <1>2, <1>3, <1>4, <1>5 DEF MemoryInv

LEMMA DeletePersonaKeeps == ASSUME MemoryInv, DeletePersona PROVE MemoryInv'
<1>1. MemoryTypes'
  <2>1. memory' \in [Memories -> Rows]
    <3>1. \A k \in Memories : [memory[k] EXCEPT !.status = "forgotten"] \in Rows
      BY RowsStayRows DEF MemoryInv, MemoryTypes, MemoryStatuses
    <3> QED
      BY <3>1 DEF MemoryInv, MemoryTypes, DeletePersona
  <2> QED
    BY <2>1 DEF MemoryInv, MemoryTypes, DeletePersona
<1>2. HistoryVouched'
  <2>1. \A k \in Memories : Exists(k) => Exists(k)'
    <3>1. \A k \in Memories : memory'[k] \in {memory[k], [memory[k] EXCEPT !.status = "forgotten"]}
      BY DEF DeletePersona
    <3> QED
      BY <3>1, RowsStayRows, RowShape DEF Exists, MemoryStatuses
  <2> QED
    BY <1>1, <2>1, HistoryStays DEF DeletePersona
<1>3. ReviewVouched'
  BY SMTT(30) DEF MemoryInv, MemoryTypes, Rows, ReviewVouched, NothingLearnedUnreviewed, Exists, NoReview, MemoryStatuses, DeletePersona, Live
<1>4. NothingLearnedUnreviewed'
  BY SMTT(30) DEF MemoryInv, MemoryTypes, Rows, NothingLearnedUnreviewed, HistoryVouched, Traceable, Events, Exists, MemoryStatuses, DeletePersona, Live
<1>5. LiveTextOnce'
  BY SMTT(30) DEF MemoryInv, MemoryTypes, Rows, LiveTextOnce, Live, IndexAdmits, Exists, DeletePersona
<1> QED
  BY <1>1, <1>2, <1>3, <1>4, <1>5 DEF MemoryInv

LEMMA ExtractionCommitsKeeps == ASSUME MemoryInv, NEW m \in Memories, NEW t \in Texts, ExtractionCommits(m, t) PROVE MemoryInv'
<1>1. MemoryTypes'
  <2>1. memory' \in [Memories -> Rows]
    <3>1. Row("pending", t, LearnedScope, 0) \in Rows
      BY RowsStayRows DEF MemoryStatuses, LearnedScope
    <3> QED
      BY <3>1 DEF MemoryInv, MemoryTypes, ExtractionCommits, Writes
  <2> QED
    BY <2>1 DEF MemoryInv, MemoryTypes, ExtractionCommits
<1>2. HistoryVouched'
  <2>1. ASSUME NEW k \in Memories, Exists(k) PROVE Exists(k)'
    <3>1. CASE UNCHANGED memory
      BY <2>1, <3>1 DEF Exists
    <3>2. CASE Writes([memory EXCEPT ![m] = Row("pending", t, LearnedScope, 0)])
      BY <2>1, <3>2 DEF MemoryInv, MemoryTypes, Writes, Row, Exists
    <3> QED
      BY <3>1, <3>2 DEF ExtractionCommits
  <2> QED
    BY <1>1, <2>1, HistoryStays DEF ExtractionCommits
<1>3. ReviewVouched'
  <2>1. reviewing' = reviewing /\ vouched \subseteq vouched'
    BY DEF ExtractionCommits
  <2>2. \A k \in Memories : \/ memory'[k] = memory[k]
                            \/ k = m /\ memory[m].status = "none" /\ memory'[m].status = "pending"
    BY DEF MemoryInv, MemoryTypes, ExtractionCommits, Writes, Unused, Row
  <2> QED
    BY <2>1, <2>2 DEF MemoryInv, MemoryTypes, Rows, ReviewVouched, Exists
<1>4. NothingLearnedUnreviewed'
  <2>1. \A k \in Memories : memory'[k] = memory[k] \/ memory'[k].status = "pending"
    BY DEF MemoryInv, MemoryTypes, ExtractionCommits, Writes, Row
  <2> QED
    BY <2>1 DEF MemoryInv, NothingLearnedUnreviewed, ExtractionCommits
<1>5. LiveTextOnce'
  BY AdmittedOnce DEF MemoryInv, ExtractionCommits, Writes, LiveTextOnce
<1> QED
  BY <1>1, <1>2, <1>3, <1>4, <1>5 DEF MemoryInv

LEMMA OtherMemoryStepsKeeps == ASSUME MemoryInv, DeleteChat \/ PrepareExtraction \/ RunExtraction \/ UNCHANGED memoryVars PROVE MemoryInv'
<1>1. MemoryTypes'
  <2>1. UNCHANGED <<memory, undoable, reviewing, vouched>>
    BY DEF DeleteChat, PrepareExtraction, RunExtraction, memoryVars
  <2>2. personaLives' \in BOOLEAN /\ chatLives' \in BOOLEAN /\ extraction' \in {"none", "queued", "running"}
    BY DEF MemoryInv, MemoryTypes, DeleteChat, PrepareExtraction, RunExtraction, memoryVars
  <2> QED
    BY <2>1, <2>2 DEF MemoryInv, MemoryTypes
<1>2. HistoryVouched'
  BY SMTT(30) DEF MemoryInv, MemoryTypes, Rows, HistoryVouched, NothingLearnedUnreviewed, Traceable, Events, ReviewVouched, NoReview, Exists, DeleteChat, PrepareExtraction, RunExtraction, memoryVars
<1>3. ReviewVouched'
  BY SMTT(30) DEF MemoryInv, MemoryTypes, Rows, ReviewVouched, NothingLearnedUnreviewed, Exists, NoReview, MemoryStatuses, DeleteChat, PrepareExtraction, RunExtraction, memoryVars
<1>4. NothingLearnedUnreviewed'
  BY SMTT(30) DEF MemoryInv, MemoryTypes, Rows, NothingLearnedUnreviewed, HistoryVouched, Traceable, Events, Exists, MemoryStatuses, DeleteChat, PrepareExtraction, RunExtraction, memoryVars
<1>5. LiveTextOnce'
  BY SMTT(30) DEF MemoryInv, MemoryTypes, Rows, LiveTextOnce, Live, IndexAdmits, Exists, DeleteChat, PrepareExtraction, RunExtraction, memoryVars
<1> QED
  BY <1>1, <1>2, <1>3, <1>4, <1>5 DEF MemoryInv

-----------------------------------------------------------------------------

LEMMA MemoryStays == ASSUME MemoryInv, [MemoryNext]_memoryVars PROVE MemoryInv'
<1>1. ASSUME NEW gone \in SUBSET Memories, Delete(gone) PROVE MemoryInv'
  BY <1>1, DeletedKeeps DEF Delete
<1>2. ASSUME PruneDiscarded PROVE MemoryInv'
  <2>1. PICK old \in SUBSET {m \in Memories : memory[m].status \in {"rejected", "forgotten"}} : Deleted(old)
    BY <1>2 DEF PruneDiscarded
  <2>2. old \in SUBSET Memories
    OBVIOUS
  <2> QED
    BY <2>1, <2>2, DeletedKeeps
<1> QED
  BY <1>1, <1>2, CreateKeeps, ReviewKeeps, ReviewWritesKeeps, ReviseKeeps, UndoKeeps, ForgetSeveralKeeps,
     DeletePersonaKeeps, ExtractionCommitsKeeps, OtherMemoryStepsKeeps DEF MemoryNext

LEMMA MemoryInvHolds == MemorySpec => []MemoryInv
BY MemoryInitially, MemoryStays, PTL DEF MemorySpec

\* Whatever is edited, undone, reviewed late, deleted or extracted meanwhile,
\* no text is live twice in a scope, and nothing is in use that its owner did
\* not save, approve or edit while it was in use
\* (MemoryService, MemoryRepository; the unique index of live memories).
THEOREM NothingLearnedByItself == MemorySpec => []MemoryInvariant
<1>1. MemoryInv => MemoryInvariant
  <2>1. ASSUME MemoryInv PROVE MemoryTypeOK
    <3>1. Events \subseteq [action : {"approved", "rejected", "forgotten", "edited"},
                          from : MemoryStatuses, related : Memories \cup {0}]
      BY DEF Events, Present, MemoryStatuses
    <3> QED
      <4> DEFINE Wide == [action : {"approved", "rejected", "forgotten", "edited"},
                          from : MemoryStatuses, related : Memories \cup {0}]
      <4>1. \A m \in Memories : undoable[m] \in Seq(Events)
        BY <2>1 DEF MemoryInv, MemoryTypes
      <4>2. \A m \in Memories : undoable[m] \in Seq(Wide)
        <5>1. Events \subseteq Wide
          BY <3>1
        <5> HIDE DEF Wide
        <5> QED
          BY <4>1, <5>1, SeqMonotonic
      <4> QED
        BY <2>1, <4>2 DEF MemoryInv, MemoryTypes, MemoryTypeOK, Rows
  <2> QED
    BY <2>1 DEF MemoryInv, MemoryInvariant
<1> QED
  BY <1>1, MemoryInvHolds, PTL
-----------------------------------------------------------------------------
(* Tasks.  A call keeps the profile it began with, asks the providers of its *)
(* queue one after the other, and its row is running exactly as long as it   *)
(* has not ended.                                                            *)

Profiles == [enabled : BOOLEAN, roomy : BOOLEAN, primary : Providers \cup {DefaultProfile.primary},
             second : Providers \cup {Nobody}, policy : Policies]
CallSteps == {"none", "added", "next", "calling", "raised", "returned", "dead"}
Callers == [at : CallSteps, profile : Profiles, queue : Seq(Providers), index : Nat, code : Codes]
RowStatuses == {"none", "running", "completed", "fallback", "failed"}
TaskRows == [status : RowStatuses, by : Providers \cup {Nobody}, fallback : BOOLEAN, code : Codes]

TaskTypes ==
    /\ taskRun \in [Tasks -> TaskRows]
    /\ taskCancelled \subseteq Tasks
    /\ asked \in [Tasks -> Seq(Providers)]
    /\ picture \in [Tasks -> {"none", "of_scene", "of_passage", "lost", "dropped"}]
    /\ taskProfile \in Profiles
    /\ caller \in [Tasks -> Callers]

\* A call, its row and the providers it asked belong together.
CallInv(t) ==
    /\ caller[t].index <= Len(caller[t].queue)
    /\ Len(asked[t]) = caller[t].index
    /\ \A i \in 1..caller[t].index : asked[t][i] = caller[t].queue[i]
    /\ caller[t].at \in {"none", "added"} => caller[t].index = 0 /\ caller[t].queue = <<>>
    /\ caller[t].at = "next" /\ caller[t].index > 0 => caller[t].code # "none"
    /\ caller[t].at = "calling" => caller[t].index > 0
    /\ caller[t].at = "none" <=> taskRun[t] = NoTaskRun
    /\ taskRun[t].status = "none" => taskRun[t] = NoTaskRun
    /\ caller[t].at \in {"added", "next", "calling"} <=> taskRun[t].status = "running"

\* What the history tells of one call.
Told(t) ==
    /\ caller[t].at = "raised" =>
          taskRun[t].status = "failed"
          /\ taskRun[t].code \in {caller[t].code} \cup (IF t \in taskCancelled THEN {"cancelled"} ELSE {})
    /\ caller[t].at = "returned" =>
          IF caller[t].code = "none"
          THEN /\ taskRun[t].status = "completed" /\ taskRun[t].by = asked[t][Len(asked[t])]
               /\ taskRun[t].fallback <=> Len(asked[t]) > 1
          ELSE taskRun[t].status = "fallback" /\ taskRun[t].by = Nobody
    /\ caller[t].at = "dead" => taskRun[t].code = "interrupted"

TaskInv == TaskTypes /\ \A t \in Tasks : CallInv(t) /\ Told(t)

LEMMA CodesThere ==
    /\ {"none", "cancelled", "interrupted", "task_disabled", "task_input_budget_exceeded"} \subseteq Codes
    /\ {"task_model_unavailable", "provider_failed", "task_output_budget_exceeded", "invalid_task_output"} \subseteq Codes
BY DEF Codes

LEMMA CallShape ==
    ASSUME NEW c \in Callers, NEW at \in CallSteps, NEW code \in Codes, NEW queue \in Seq(Providers), NEW n \in Nat
    PROVE  /\ c.index \in Nat /\ c.queue \in Seq(Providers) /\ c.code \in Codes
           /\ [c EXCEPT !.at = at] \in Callers
           /\ [c EXCEPT !.at = at, !.code = code] \in Callers
           /\ [c EXCEPT !.at = at, !.queue = queue] \in Callers
           /\ [c EXCEPT !.at = at, !.index = n] \in Callers
BY DEF Callers

LEMMA CallerThere == DefaultProfile \in Profiles /\ NoCaller \in Callers /\ NoTaskRun \in TaskRows
<1>1. DefaultProfile \in Profiles
  BY DEF DefaultProfile, Profiles, Policies
<1>2. NoCaller \in Callers
  BY <1>1 DEF NoCaller, Callers, CallSteps, Codes
<1>3. NoTaskRun \in TaskRows
  BY DEF NoTaskRun, TaskRow, TaskRows, RowStatuses, Codes
<1> QED
  BY <1>1, <1>2, <1>3

LEMMA TaskInitially == TaskInit => TaskInv
<1> SUFFICES ASSUME TaskInit PROVE TaskInv
  OBVIOUS
<1>4. TaskTypes
  BY CallerThere DEF TaskInit, TaskTypes
<1>5. ASSUME NEW t \in Tasks PROVE CallInv(t) /\ Told(t)
  BY DEF TaskInit, CallInv, Told, NoCaller, NoTaskRun, TaskRow
<1> QED
  BY <1>4, <1>5 DEF TaskInv

\* A step of one call leaves the others as they are.
LEMMA OthersStay ==
    ASSUME TaskInv, NEW t \in Tasks, TaskTypes',
           \A u \in Tasks \ {t} : taskRun'[u] = taskRun[u] /\ caller'[u] = caller[u] /\ asked'[u] = asked[u],
           taskCancelled' = taskCancelled, CallInv(t)', Told(t)'
    PROVE  TaskInv'
<1>1. ASSUME NEW u \in Tasks \ {t} PROVE CallInv(u)' /\ Told(u)'
  BY <1>1 DEF TaskInv, CallInv, Told
<1> QED
  BY <1>1 DEF TaskInv

LEMMA AttemptsAreProviders == ASSUME NEW p \in Profiles PROVE Attempts(p) \in Seq(Providers)
BY DEF Attempts, Profiles

\* How a call ends: its row is written once, and with it what the caller gets.
LEMMA GiveUpKeeps ==
    ASSUME TaskInv, NEW t \in Tasks, NEW code \in Codes, caller[t].at \in {"added", "next", "calling"},
           t \in taskCancelled, GiveUpCancelled(t, code),
           taskProfile' = taskProfile, taskCancelled' = taskCancelled, asked' = asked, picture' = picture
    PROVE  TaskInv'
<1> DEFINE row == TaskRow("failed", Nobody, FALSE, "cancelled")
           call == [caller[t] EXCEPT !.at = "raised", !.code = code]
<1>1. taskRun' = [taskRun EXCEPT ![t] = row] /\ caller' = [caller EXCEPT ![t] = call]
  BY DEF TaskInv, CallInv, GiveUpCancelled, Cancelled, Finished, At
<1>2. row \in TaskRows /\ call \in Callers
  BY DEF TaskInv, TaskTypes, NoTaskRun, TaskRow, TaskRows, RowStatuses, Callers, CallSteps, Codes
<1>3. TaskTypes'
  BY <1>1, <1>2 DEF TaskInv, TaskTypes, TaskRows
<1>4. taskRun'[t] = row /\ caller'[t] = call
  BY <1>1 DEF TaskInv, TaskTypes
<1>5. CallInv(t)'
  BY <1>4 DEF TaskInv, TaskTypes, CallInv, NoTaskRun, TaskRow, Callers
<1>6. Told(t)'
  BY <1>4 DEF TaskInv, TaskTypes, Told, NoTaskRun, TaskRow, Callers
<1> QED
  BY <1>1, <1>3, <1>5, <1>6, OthersStay DEF TaskInv, TaskTypes

LEMMA FallBackKeeps ==
    ASSUME TaskInv, NEW t \in Tasks, NEW code \in Codes, code # "none", caller[t].at \in {"added", "next"},
           FallBack(t, code),
           taskProfile' = taskProfile, taskCancelled' = taskCancelled, asked' = asked, picture' = picture
    PROVE  TaskInv'
<1> DEFINE c == caller[t]
<1>0. c \in Callers /\ (c.index > 1) \in BOOLEAN /\ taskRun[t].status = "running"
  BY DEF TaskInv, TaskTypes, CallInv
<1>1. CASE \E s \in {"raised", "returned"}, f \in BOOLEAN :
              /\ taskRun' = [taskRun EXCEPT ![t] = TaskRow(IF s = "raised" THEN "failed" ELSE "fallback", Nobody, f, code)]
              /\ caller' = [caller EXCEPT ![t] = [c EXCEPT !.at = s, !.code = code]]
  <2> PICK s \in {"raised", "returned"}, f \in BOOLEAN :
              /\ taskRun' = [taskRun EXCEPT ![t] = TaskRow(IF s = "raised" THEN "failed" ELSE "fallback", Nobody, f, code)]
              /\ caller' = [caller EXCEPT ![t] = [c EXCEPT !.at = s, !.code = code]]
    BY <1>1
  <2> DEFINE row == TaskRow(IF s = "raised" THEN "failed" ELSE "fallback", Nobody, f, code)
             call == [c EXCEPT !.at = s, !.code = code]
  <2>1. row \in TaskRows
    BY DEF TaskRow, TaskRows, RowStatuses
  <2>2. call \in Callers /\ call.at = s /\ call.code = code /\ call.index = c.index /\ call.queue = c.queue
    BY <1>0 DEF Callers, CallSteps
  <2>3. taskRun' = [taskRun EXCEPT ![t] = row] /\ caller' = [caller EXCEPT ![t] = call]
    OBVIOUS
  <2> HIDE DEF row, call
  <2>4. TaskTypes'
    BY <2>1, <2>2, <2>3 DEF TaskInv, TaskTypes
  <2>5. taskRun'[t] = row /\ caller'[t] = call
    BY <2>3 DEF TaskInv, TaskTypes
  <2>6. /\ row.status = IF s = "raised" THEN "failed" ELSE "fallback"
        /\ row.by = Nobody /\ row.code = code
    BY DEF row, TaskRow
  <2>7. CallInv(t)'
    BY <1>0, <2>2, <2>5, <2>6 DEF TaskInv, CallInv, NoTaskRun, TaskRow
  <2>8. Told(t)'
    BY <2>2, <2>5, <2>6 DEF Told
  <2> QED
    BY <2>3, <2>4, <2>7, <2>8, OthersStay DEF TaskInv, TaskTypes
<1>2. CASE c.profile.policy = "fail"
  <2>1. taskRun' = [taskRun EXCEPT ![t] = TaskRow("failed", Nobody, c.index > 1, code)]
        /\ caller' = [caller EXCEPT ![t] = [c EXCEPT !.at = "raised", !.code = code]]
    BY <1>0, <1>2 DEF FallBack, Finished, At
  <2> QED
    BY <1>0, <1>1, <2>1
<1>3. CASE c.profile.policy # "fail"
  <2>1. taskRun' = [taskRun EXCEPT ![t] = TaskRow("fallback", Nobody, TRUE, code)]
        /\ caller' = [caller EXCEPT ![t] = [c EXCEPT !.at = "returned", !.code = code]]
    BY <1>0, <1>3 DEF FallBack, Finished, At
  <2> QED
    BY <1>0, <1>1, <2>1
<1> QED
  BY <1>2, <1>3

\* A call that goes on: its row stays.
LEMMA GoesOnKeeps ==
    ASSUME TaskInv, NEW t \in Tasks, NEW call \in Callers, At(t, call), UNCHANGED taskRun,
           call.at \in {"added", "next", "calling"}, caller[t].at \in {"added", "next", "calling"},
           \A u \in Tasks \ {t} : asked'[u] = asked[u], asked' \in [Tasks -> Seq(Providers)],
           call.index <= Len(call.queue), Len(asked'[t]) = call.index,
           \A i \in 1..call.index : asked'[t][i] = call.queue[i],
           call.at = "added" => call.index = 0 /\ call.queue = <<>>,
           call.at = "next" /\ call.index > 0 => call.code # "none",
           call.at = "calling" => call.index > 0,
           taskProfile' = taskProfile, taskCancelled' = taskCancelled, picture' = picture
    PROVE  TaskInv'
<1>1. caller' = [caller EXCEPT ![t] = call]
  BY DEF At
<1>2. TaskTypes'
  BY <1>1 DEF TaskInv, TaskTypes
<1>3. caller'[t] = call
  BY <1>1 DEF TaskInv, TaskTypes
<1>4. CallInv(t)' /\ Told(t)'
  BY <1>3 DEF TaskInv, CallInv, Told
<1> QED
  BY <1>1, <1>2, <1>4, OthersStay DEF TaskInv, TaskTypes

LEMMA BeginKeeps == ASSUME TaskInv, NEW t \in Tasks, BeginTask(t) PROVE TaskInv'
<1> DEFINE row == TaskRow("running", Nobody, FALSE, "none")
           call == [NoCaller EXCEPT !.at = "added", !.profile = taskProfile]
<1>1. taskRun' = [taskRun EXCEPT ![t] = row] /\ caller' = [caller EXCEPT ![t] = call]
      /\ taskProfile' = taskProfile /\ taskCancelled' = taskCancelled /\ picture' = picture /\ asked' = asked
  BY DEF BeginTask, At
<1>2. row \in TaskRows /\ row.status = "running"
  BY CodesThere DEF TaskRow, TaskRows, RowStatuses
<1>3. call \in Callers /\ call.at = "added" /\ call.index = NoCaller.index /\ call.queue = NoCaller.queue
  <2>1. taskProfile \in Profiles
    BY DEF TaskInv, TaskTypes
  <2> QED
    BY <2>1, CallerThere DEF Callers, CallSteps
<1>4. NoCaller.index = 0 /\ NoCaller.queue = <<>>
  BY DEF NoCaller
<1>5. asked[t] = <<>> \/ Len(asked[t]) = 0
  <2>1. caller[t].at = "none" /\ caller[t].index = 0
    BY DEF TaskInv, CallInv, BeginTask
  <2> QED
    BY <2>1 DEF TaskInv, CallInv
<1> HIDE DEF row, call
<1>6. TaskTypes'
  BY <1>1, <1>2, <1>3 DEF TaskInv, TaskTypes
<1>7. taskRun'[t] = row /\ caller'[t] = call
  BY <1>1 DEF TaskInv, TaskTypes
<1>8. NoTaskRun.status = "none" /\ Len(<<>>) = 0
  BY DEF NoTaskRun, TaskRow
<1>9. CallInv(t)'
  BY <1>1, <1>2, <1>3, <1>4, <1>5, <1>7, <1>8 DEF CallInv
<1>10. Told(t)'
  BY <1>3, <1>7 DEF Told
<1> QED
  BY <1>1, <1>6, <1>9, <1>10, OthersStay DEF TaskInv, TaskTypes

LEMMA CheckKeeps == ASSUME TaskInv, NEW t \in Tasks, CheckTask(t) PROVE TaskInv'
<1>1. CASE t \in taskCancelled /\ GiveUpCancelled(t, "cancelled")
  BY <1>1, GiveUpKeeps, CodesThere DEF CheckTask
<1>2. CASE \E code \in {"task_disabled", "task_input_budget_exceeded"} : FallBack(t, code)
  BY <1>2, FallBackKeeps, CodesThere DEF CheckTask
<1>3. CASE At(t, [caller[t] EXCEPT !.at = "next", !.queue = Attempts(caller[t].profile)]) /\ UNCHANGED taskRun
  <2> DEFINE call == [caller[t] EXCEPT !.at = "next", !.queue = Attempts(caller[t].profile)]
  <2>1. Attempts(caller[t].profile) \in Seq(Providers)
    BY AttemptsAreProviders DEF TaskInv, TaskTypes, Callers
  <2>2. call \in Callers
    BY <2>1, CallShape, CodesThere DEF TaskInv, TaskTypes, CallSteps
  <2>3. call.at = "next" /\ call.index = caller[t].index /\ call.queue = Attempts(caller[t].profile)
    BY DEF TaskInv, TaskTypes, Callers
  <2>4. call.index = 0
    BY <2>3 DEF TaskInv, CallInv, CheckTask
  <2>5. Len(asked[t]) = 0 /\ asked \in [Tasks -> Seq(Providers)] /\ asked' = asked
    BY <2>3, <2>4 DEF TaskInv, TaskTypes, CallInv, CheckTask
  <2> HIDE DEF call
  <2>6. At(t, call) /\ UNCHANGED taskRun /\ caller[t].at = "added" /\ taskProfile' = taskProfile /\ taskCancelled' = taskCancelled /\ picture' = picture
    BY <1>3 DEF call, CheckTask
  <2> QED
    BY <2>1, <2>2, <2>3, <2>4, <2>5, <2>6, GoesOnKeeps
<1> QED
  BY <1>1, <1>2, <1>3 DEF CheckTask

LEMMA NextKeeps == ASSUME TaskInv, NEW t \in Tasks, NextAttempt(t) PROVE TaskInv'
<1> DEFINE c == caller[t]
<1>0. c \in Callers /\ c.at = "next" /\ c.index \in Nat /\ c.queue \in Seq(Providers) /\ c.code \in Codes
  BY DEF TaskInv, TaskTypes, Callers, NextAttempt
<1>1. CASE t \in taskCancelled /\ GiveUpCancelled(t, "cancelled") /\ UNCHANGED asked
  BY <1>0, <1>1, GiveUpKeeps, CodesThere DEF NextAttempt
<1>2. CASE c.index = Len(c.queue) /\ FallBack(t, IF c.queue = <<>> THEN "task_model_unavailable" ELSE c.code)
           /\ UNCHANGED asked
  <2>1. PICK code \in Codes : code = IF c.queue = <<>> THEN "task_model_unavailable" ELSE c.code
    BY <1>0, CodesThere
  <2>2. c.queue # <<>> => c.index > 0
    BY <1>0, <1>2, EmptySeq
  <2>3. code # "none"
    BY <1>0, <2>1, <2>2 DEF TaskInv, CallInv
  <2> QED
    BY <1>0, <1>2, <2>1, <2>3, FallBackKeeps, CodesThere DEF NextAttempt
<1>3. CASE /\ c.index < Len(c.queue)
           /\ At(t, [c EXCEPT !.at = "calling", !.index = @ + 1])
           /\ asked' = [asked EXCEPT ![t] = Append(@, c.queue[c.index + 1])]
           /\ UNCHANGED taskRun
  <2> DEFINE call == [c EXCEPT !.at = "calling", !.index = @ + 1]
  <2>1. call \in Callers /\ call.at = "calling" /\ call.index = c.index + 1 /\ call.queue = c.queue
    <3>1. c.index + 1 \in Nat
      BY <1>0
    <3> QED
      BY <1>0, <3>1 DEF Callers, CallSteps
  <2>2. c.queue[c.index + 1] \in Providers
    BY <1>0, <1>3
  <2>3. asked \in [Tasks -> Seq(Providers)]
    BY DEF TaskInv, TaskTypes
  <2>4. asked' \in [Tasks -> Seq(Providers)] /\ asked'[t] = Append(asked[t], c.queue[c.index + 1])
        /\ \A u \in Tasks \ {t} : asked'[u] = asked[u]
    BY <1>3, <2>2, <2>3
  <2>5. Len(asked[t]) = c.index /\ \A i \in 1..c.index : asked[t][i] = c.queue[i]
    BY DEF TaskInv, CallInv
  <2>6. Len(asked'[t]) = c.index + 1 /\ \A i \in 1..(c.index + 1) : asked'[t][i] = c.queue[i]
    BY <1>0, <2>2, <2>3, <2>4, <2>5
  <2>7. c.index + 1 <= Len(c.queue) /\ c.index + 1 > 0 /\ Len(c.queue) \in Nat
    BY <1>0, <1>3
  <2> HIDE DEF call
  <2>8. At(t, call) /\ UNCHANGED taskRun /\ taskProfile' = taskProfile /\ taskCancelled' = taskCancelled /\ picture' = picture
    BY <1>3 DEF call, NextAttempt
  <2> QED
    BY <1>0, <2>1, <2>4, <2>6, <2>7, <2>8, GoesOnKeeps
<1> QED
  BY <1>1, <1>2, <1>3 DEF NextAttempt

LEMMA AnswersKeeps == ASSUME TaskInv, NEW t \in Tasks, TaskAnswers(t) PROVE TaskInv'
<1> DEFINE c == caller[t]
<1>0. c \in Callers /\ c.at = "calling" /\ c.index \in Nat /\ c.queue \in Seq(Providers) /\ c.code \in Codes
      /\ c.index > 0 /\ c.index <= Len(c.queue)
  BY DEF TaskInv, TaskTypes, Callers, TaskAnswers, CallInv
<1>1. CASE Completed(t) /\ At(t, [c EXCEPT !.at = "returned", !.code = "none"])
  <2> DEFINE row == TaskRow("completed", c.queue[c.index], c.index > 1, "none")
             call == [c EXCEPT !.at = "returned", !.code = "none"]
  <2>1. taskRun' = [taskRun EXCEPT ![t] = row] /\ caller' = [caller EXCEPT ![t] = call]
        /\ taskProfile' = taskProfile /\ taskCancelled' = taskCancelled /\ picture' = picture /\ asked' = asked
    BY <1>0, <1>1 DEF TaskInv, CallInv, TaskAnswers, Completed, Finished, At
  <2>2. c.queue[c.index] \in Providers
    BY <1>0
  <2>3. row \in TaskRows /\ row.status = "completed" /\ row.by = c.queue[c.index] /\ row.fallback = (c.index > 1)
    BY <1>0, <2>2, CodesThere DEF TaskRow, TaskRows, RowStatuses
  <2>4. call \in Callers /\ call.at = "returned" /\ call.code = "none" /\ call.index = c.index /\ call.queue = c.queue
    BY <1>0, CodesThere DEF Callers, CallSteps
  <2> HIDE DEF row, call
  <2>5. TaskTypes'
    BY <2>1, <2>3, <2>4 DEF TaskInv, TaskTypes
  <2>6. taskRun'[t] = row /\ caller'[t] = call
    BY <2>1 DEF TaskInv, TaskTypes
  <2>7. NoTaskRun.status = "none"
    BY DEF NoTaskRun, TaskRow
  <2>8. CallInv(t)'
    BY <1>0, <2>1, <2>3, <2>4, <2>6, <2>7 DEF TaskInv, CallInv
  <2>9. Len(asked[t]) = c.index /\ asked[t][c.index] = c.queue[c.index]
    BY <1>0 DEF TaskInv, CallInv
  <2>10. Told(t)'
    BY <1>0, <2>1, <2>3, <2>4, <2>6, <2>9 DEF Told
  <2> QED
    BY <2>1, <2>5, <2>8, <2>10, OthersStay DEF TaskInv, TaskTypes
<1>2. CASE t \in taskCancelled /\ \E code \in {"provider_failed", "task_output_budget_exceeded"} : GiveUpCancelled(t, code)
  BY <1>0, <1>2, GiveUpKeeps, CodesThere DEF TaskAnswers
<1>3. CASE \E code \in {"provider_failed", "task_output_budget_exceeded", "invalid_task_output"} :
              At(t, [c EXCEPT !.at = "next", !.code = code]) /\ UNCHANGED taskRun
  <2>1. PICK code \in {"provider_failed", "task_output_budget_exceeded", "invalid_task_output"} :
              At(t, [c EXCEPT !.at = "next", !.code = code]) /\ UNCHANGED taskRun
    BY <1>3
  <2> DEFINE call == [c EXCEPT !.at = "next", !.code = code]
  <2>2. call \in Callers /\ call.at = "next" /\ call.index = c.index /\ call.queue = c.queue /\ call.code # "none"
    BY <1>0 DEF Callers, CallSteps, Codes
  <2>3. Len(asked[t]) = c.index /\ (\A i \in 1..c.index : asked[t][i] = c.queue[i])
        /\ asked \in [Tasks -> Seq(Providers)]
    BY DEF TaskInv, TaskTypes, CallInv
  <2> HIDE DEF call
  <2>4. At(t, call) /\ UNCHANGED taskRun /\ taskProfile' = taskProfile /\ taskCancelled' = taskCancelled /\ picture' = picture /\ asked' = asked
    BY <2>1 DEF call, TaskAnswers
  <2> QED
    BY <1>0, <2>2, <2>3, <2>4, GoesOnKeeps
<1> QED
  BY <1>1, <1>2, <1>3 DEF TaskAnswers

\* Steps that write neither a row nor a call.
LEMMA OtherTaskStepsKeep ==
    ASSUME TaskInv,
           \/ UpdateTaskProfile \/ UNCHANGED taskVars
           \/ \E t \in Tasks : CancelTask(t) \/ IllustratePassage(t)
    PROVE  TaskInv'
<1>1. UNCHANGED <<taskRun, caller, asked>> /\ taskCancelled \subseteq taskCancelled'
  BY DEF UpdateTaskProfile, taskVars, CancelTask, IllustratePassage
<1>2. taskProfile' \in Profiles /\ taskCancelled' \subseteq Tasks
  BY DEF TaskInv, TaskTypes, UpdateTaskProfile, taskVars, CancelTask, IllustratePassage, Profiles
<1>3. picture' \in [Tasks -> {"none", "of_scene", "of_passage", "lost", "dropped"}]
  BY DEF TaskInv, TaskTypes, UpdateTaskProfile, taskVars, CancelTask, IllustratePassage
<1>4. TaskTypes'
  BY <1>1, <1>2, <1>3 DEF TaskInv, TaskTypes
<1>5. ASSUME NEW u \in Tasks PROVE CallInv(u)' /\ Told(u)'
  BY <1>1 DEF TaskInv, CallInv, Told
<1> QED
  BY <1>4, <1>5 DEF TaskInv

LEMMA RestartKeeps == ASSUME TaskInv, RestartTasks PROVE TaskInv'
<1>1. ASSUME NEW t \in Tasks
      PROVE  /\ taskRun'[t] \in TaskRows /\ caller'[t] \in Callers
             /\ picture'[t] \in {"none", "of_scene", "of_passage", "lost", "dropped"}
             /\ CallInv(t)' /\ Told(t)'
  <2>1. taskRun[t] \in TaskRows /\ caller[t] \in Callers /\ CallInv(t) /\ Told(t)
        /\ picture[t] \in {"none", "of_scene", "of_passage", "lost", "dropped"}
    BY DEF TaskInv, TaskTypes, TaskRows
  <2>2. CASE taskRun[t].status = "running"
    <3>1. taskRun'[t] = TaskRow("failed", Nobody, FALSE, "interrupted")
          /\ caller'[t] = [caller[t] EXCEPT !.at = "dead"]
      BY <2>1, <2>2 DEF RestartTasks, CallInv
    <3>2. taskRun'[t] \in TaskRows /\ caller'[t] \in Callers
      BY <2>1, <3>1 DEF TaskRow, TaskRows, RowStatuses, Callers, CallSteps, Codes
    <3>3. CallInv(t)' /\ Told(t)'
      BY <2>1, <3>1 DEF RestartTasks, CallInv, Told, NoTaskRun, TaskRow, Callers
    <3> QED
      BY <2>1, <3>2, <3>3 DEF RestartTasks
  <2>3. CASE taskRun[t].status # "running"
    <3>1. taskRun'[t] = taskRun[t] /\ caller'[t] = caller[t]
      BY <2>1, <2>3 DEF RestartTasks, CallInv
    <3>2. CallInv(t)' /\ Told(t)'
      BY <2>1, <3>1 DEF RestartTasks, CallInv, Told
    <3> QED
      BY <2>1, <3>1, <3>2 DEF RestartTasks
  <2> QED
    BY <2>2, <2>3
<1>2. TaskTypes'
  BY <1>1 DEF TaskInv, TaskTypes, TaskRows, RestartTasks
<1> QED
  BY <1>1, <1>2 DEF TaskInv

LEMMA TaskStays == ASSUME TaskInv, [TaskNext]_taskVars PROVE TaskInv'
BY BeginKeeps, CheckKeeps, NextKeeps, AnswersKeeps, OtherTaskStepsKeep, RestartKeeps DEF TaskNext, TaskStep

LEMMA TaskInvHolds == TaskSpec => []TaskInv
BY TaskInitially, TaskStays, PTL DEF TaskSpec

\* Whatever the owner changes, cancels or restarts meanwhile, the row of a task
\* says what its caller got: the provider that answered and whether it was the
\* second one, a default result, or an error with its code
\* (TaskModelService.run, _fallback_or_raise, _finish_run).
THEOREM HistoryIsTrue == TaskSpec => []TaskInvariant
<1>1. TaskInv => TaskInvariant
  <2> SUFFICES ASSUME TaskInv PROVE TaskTypeOK /\ HistoryTellsTruth
    BY DEF TaskInvariant
  <2>1. TaskTypeOK
    BY DEF TaskInv, TaskTypes, TaskTypeOK, TaskRows, RowStatuses
  <2>2. ASSUME NEW t \in Tasks
        PROVE  caller[t].at \in {"none", "added", "next", "calling"} =>
                  taskRun[t].status = (IF caller[t].at = "none" THEN "none" ELSE "running")
    BY DEF TaskInv, CallInv, NoTaskRun, TaskRow
  <2> QED
    BY <2>1, <2>2 DEF TaskInv, Told, HistoryTellsTruth
<1> QED
  BY <1>1, TaskInvHolds, PTL
-----------------------------------------------------------------------------
(* The least number of a set, which an oldest file and a last message have. *)

Below(R, x, y) == <<x, y>> \in R

LEMMA LessThanIsWellFounded ==
    \E R : IsWellFoundedOn(R, Nat) /\ \A x, y \in Nat : Below(R, x, y) <=> x < y
<1>1. \A x, y \in Nat : <<x, y>> \in OpToRel(<, Nat) <=> x < y
  BY DEF OpToRel
<1> QED
  BY <1>1, NatLessThanWellFounded, Zenon DEF Below

LEMMA WellFoundedHasLeast ==
    ASSUME NEW R, NEW S, IsWellFoundedOn(R, S), NEW T, T \subseteq S, T # {}
    PROVE  \E x \in T : \A y \in T : ~Below(R, y, x)
BY WFMin, Zenon DEF Below

LEMMA HasLeast ==
    ASSUME NEW T, T \subseteq Nat, T # {}
    PROVE  \E x \in T : \A y \in T : x <= y
<1>1. PICK R : IsWellFoundedOn(R, Nat) /\ \A x, y \in Nat : Below(R, x, y) <=> x < y
  BY LessThanIsWellFounded
<1>2. \E x \in T : \A y \in T : ~Below(R, y, x)
  BY <1>1, WellFoundedHasLeast
<1> QED
  BY <1>1, <1>2

LEMMA HasGreatest ==
    ASSUME NEW bound \in Nat, NEW T, T \subseteq 0..bound, T # {}
    PROVE  \E x \in T : \A y \in T : y <= x
<1> DEFINE Distances == {bound - x : x \in T}
<1>0. ASSUME NEW x \in T PROVE bound - x \in Nat
  OBVIOUS
<1>1. Distances \subseteq Nat /\ Distances # {}
  BY <1>0
<1>2. PICK r \in Distances : \A y \in Distances : r <= y
  BY <1>1, HasLeast
<1>3. PICK x \in T : r = bound - x
  BY <1>2
<1>4. ASSUME NEW y \in T PROVE y <= x
  BY <1>2, <1>3
<1> QED
  BY <1>4

\* What holds of 0 and of the successor of each number it holds of, of all numbers.
LEMMA Counting ==
    ASSUME NEW S, 0 \in S, \A n \in Nat : n \in S => n + 1 \in S
    PROVE  \A n \in Nat : n \in S
<1>1. CASE Nat \ S = {}
  BY <1>1
<1>2. CASE Nat \ S # {}
  <2>1. PICK n \in Nat \ S : \A k \in Nat \ S : n <= k
    BY <1>2, HasLeast
  <2>2. n # 0 /\ n - 1 \in Nat /\ n - 1 \in S
    BY <2>1
  <2> QED
    BY <2>1, <2>2
<1> QED
  BY <1>1, <1>2
-----------------------------------------------------------------------------
(* What is left of a text: the recursion has a solution, which goes from the *)
(* end of the text to its beginning.                                         *)

\* What is left from place i on, when f says it of the places that follow.
LeftAt(t, f, i) ==
    [d \in Nat |->
       IF i > Len(t) THEN <<>>
       ELSE IF Starts(t, i, Open) THEN f[i + Len(Open)][d + 1]
       ELSE IF Starts(t, i, Close) THEN f[i + Len(Close)][IF d = 0 THEN 0 ELSE d - 1]
       ELSE (IF d = 0 THEN <<t[i]>> ELSE <<>>) \o f[i + 1][d]]

LEMMA MarkerLengths == Len(Open) = 2 /\ Len(Close) = 3
BY DEF Open, Close

LEMMA LeftAtLooksAhead ==
    ASSUME NEW t \in Seq(Letters), NEW f, NEW g, NEW i \in 1..(Len(t) + 1),
           \A j \in (i + 1)..(Len(t) + 1) : f[j] = g[j]
    PROVE  LeftAt(t, f, i) = LeftAt(t, g, i)
<1>1. Len(t) \in Nat
  BY LenProperties
<1> SUFFICES ASSUME NEW d \in Nat PROVE LeftAt(t, f, i)[d] = LeftAt(t, g, i)[d]
  BY DEF LeftAt
<1>2. Starts(t, i, Open) => f[i + Len(Open)] = g[i + Len(Open)]
  BY <1>1, MarkerLengths DEF Starts
<1>3. Starts(t, i, Close) => f[i + Len(Close)] = g[i + Len(Close)]
  BY <1>1, MarkerLengths DEF Starts
<1>4. i <= Len(t) => f[i + 1] = g[i + 1]
  BY <1>1
<1> QED
  BY <1>1, <1>2, <1>3, <1>4 DEF LeftAt

Solves(t, f, k) == \A i \in k..(Len(t) + 1) : f[i] = LeftAt(t, f, i)

LEMMA SolutionGrows ==
    ASSUME NEW t \in Seq(Letters), NEW f, NEW k \in 1..Len(t), Solves(t, f, k + 1)
    PROVE  \E g : Solves(t, g, k)
<1>1. Len(t) \in Nat
  BY LenProperties
<1> DEFINE g == [i \in 1..(Len(t) + 1) |-> IF i = k THEN LeftAt(t, f, k) ELSE f[i]]
<1>2. g[k] = LeftAt(t, f, k) /\ \A i \in (k + 1)..(Len(t) + 1) : g[i] = f[i]
  BY <1>1
<1> HIDE DEF g
<1>3. ASSUME NEW i \in k..(Len(t) + 1) PROVE g[i] = LeftAt(t, g, i)
  <2>1. LeftAt(t, f, i) = LeftAt(t, g, i)
    <3>1. i \in 1..(Len(t) + 1) /\ \A j \in (i + 1)..(Len(t) + 1) : f[j] = g[j]
      BY <1>1, <1>2
    <3> QED
      BY <3>1, LeftAtLooksAhead
  <2> QED
    BY <1>1, <1>2, <2>1 DEF Solves
<1> QED
  BY <1>3 DEF Solves

LEMMA SolutionExists ==
    ASSUME NEW t \in Seq(Letters) PROVE \E f : Solves(t, f, 1)
<1>1. Len(t) \in Nat
  BY LenProperties
<1> DEFINE S == {k \in Nat : k <= Len(t) => \E f : Solves(t, f, Len(t) + 1 - k)}
<1>2. 0 \in S
  <2> DEFINE f == [i \in {Len(t) + 1} |-> LeftAt(t, t, Len(t) + 1)]
  <2>1. f[Len(t) + 1] = LeftAt(t, t, Len(t) + 1)
    OBVIOUS
  <2> HIDE DEF f
  <2>2. LeftAt(t, t, Len(t) + 1) = LeftAt(t, f, Len(t) + 1)
    BY <1>1, LeftAtLooksAhead
  <2>3. Solves(t, f, Len(t) + 1)
    BY <1>1, <2>1, <2>2 DEF Solves
  <2> QED
    BY <1>1, <2>3
<1>3. ASSUME NEW k \in Nat, k \in S PROVE k + 1 \in S
  <2>1. CASE k + 1 <= Len(t)
    <3>1. PICK f : Solves(t, f, Len(t) + 1 - k)
      BY <1>1, <1>3, <2>1
    <3>2. Len(t) - k \in 1..Len(t) /\ Len(t) - k + 1 = Len(t) + 1 - k /\ Len(t) + 1 - (k + 1) = Len(t) - k
      BY <1>1, <2>1
    <3>3. \E g : Solves(t, g, Len(t) - k)
      BY <3>1, <3>2, SolutionGrows
    <3> QED
      BY <3>2, <3>3
  <2> QED
    BY <1>1, <2>1
<1> HIDE DEF S
<1>4. Len(t) \in S
  BY <1>1, <1>2, <1>3, Counting
<1>5. Len(t) + 1 - Len(t) = 1
  BY <1>1
<1> QED
  BY <1>1, <1>4, <1>5 DEF S

\* LeftFrom is what its recursion says (sanitize_persona_output).
LEMMA LeftFromRecursion ==
    ASSUME NEW t \in Seq(Letters), NEW i \in 1..(Len(t) + 1)
    PROVE  LeftFrom(t)[i] = LeftAt(t, LeftFrom(t), i)
<1> DEFINE Solution(f) == f = [j \in 1..(Len(t) + 1) |-> LeftAt(t, f, j)]
<1>1. Len(t) \in Nat
  BY LenProperties
<1>2. PICK f : Solves(t, f, 1)
  BY SolutionExists
<1> DEFINE g == [j \in 1..(Len(t) + 1) |-> f[j]]
<1>3. \A j \in 1..(Len(t) + 1) : g[j] = f[j]
  OBVIOUS
<1> HIDE DEF g
<1>4. ASSUME NEW j \in 1..(Len(t) + 1) PROVE f[j] = LeftAt(t, g, j)
  <2>1. LeftAt(t, f, j) = LeftAt(t, g, j)
    BY <1>1, <1>3, LeftAtLooksAhead
  <2> QED
    BY <1>1, <1>2, <2>1 DEF Solves
<1>5. Solution(g)
  BY <1>4 DEF g
<1>6. LeftFrom(t) = CHOOSE h : Solution(h)
  BY DEF LeftFrom, LeftAt
<1> HIDE DEF Solution
<1>7. Solution(LeftFrom(t))
  BY <1>5, <1>6
<1> QED
  BY <1>7 DEF Solution
-----------------------------------------------------------------------------
(* Markers in a text.  A marker has its bracket only at its beginning, so no *)
(* two of them overlap.                                                      *)

LEMMA LettersBetween ==
    ASSUME NEW t \in Seq(Letters), NEW m \in Nat \ {0}, NEW n \in Nat, n <= Len(t), m <= n + 1
    PROVE  /\ SubSeq(t, m, n) \in Seq(Letters)
           /\ Len(SubSeq(t, m, n)) = n + 1 - m
           /\ \A k \in 1..(n + 1 - m) : SubSeq(t, m, n)[k] = t[m + k - 1]
<1>1. Len(t) \in Nat
  BY LenProperties
<1>2. m \in Int /\ n \in Int /\ \A i \in m..n : t[i] \in Letters
  BY <1>1, ElementOfSeq
<1> DEFINE u == SubSeq(t, m, n)
<1>3. /\ u \in Seq(Letters)
      /\ Len(u) = IF m <= n THEN n - m + 1 ELSE 0
      /\ \A i \in 1..(n - m + 1) : u[i] = t[m + i - 1]
  BY <1>2, SubSeqProperties
<1> HIDE DEF u
<1>4. n - m + 1 = n + 1 - m /\ (~(m <= n) => n + 1 - m = 0)
  OBVIOUS
<1> QED
  BY <1>3, <1>4 DEF u

\* The first letters from a place on.
LEMMA FirstLetters ==
    ASSUME NEW t \in Seq(Letters), NEW m \in Nat \ {0}, NEW last \in m..(m + 2), last <= Len(t)
    PROVE  /\ SubSeq(t, m, last) \in Seq(Letters)
           /\ Len(SubSeq(t, m, last)) = last - m + 1
           /\ SubSeq(t, m, last)[1] = t[m]
           /\ last >= m + 1 => SubSeq(t, m, last)[2] = t[m + 1]
           /\ last = m + 2 => SubSeq(t, m, last)[3] = t[m + 2]
<1> DEFINE u == SubSeq(t, m, last)
<1>1. last \in Nat /\ m <= last + 1 /\ last + 1 - m = last - m + 1
  OBVIOUS
<1>2. u \in Seq(Letters) /\ Len(u) = last + 1 - m /\ \A k \in 1..(last + 1 - m) : u[k] = t[m + k - 1]
  BY <1>1, LettersBetween
<1> HIDE DEF u
<1>3. m + 1 - 1 = m /\ m + 2 - 1 = m + 1 /\ m + 3 - 1 = m + 2
  OBVIOUS
<1> QED
  BY <1>1, <1>2, <1>3 DEF u

LEMMA StartsByLetters ==
    ASSUME NEW t \in Seq(Letters), NEW i \in Nat \ {0}
    PROVE  /\ Starts(t, i, Open) <=> i + 1 <= Len(t) /\ t[i] = "[" /\ t[i + 1] = "]"
           /\ Starts(t, i, Close) <=> i + 2 <= Len(t) /\ t[i] = "[" /\ t[i + 1] = "/" /\ t[i + 2] = "]"
<1>1. Len(t) \in Nat /\ \A j \in 1..Len(t) : t[j] \in Letters
  BY LenProperties, ElementOfSeq
<1>2. ASSUME i + 1 <= Len(t) PROVE SubSeq(t, i, i + 1) = Open <=> t[i] = "[" /\ t[i + 1] = "]"
  <2> DEFINE u == SubSeq(t, i, i + 1)
  <2>1. u \in Seq(Letters) /\ Len(u) = 2 /\ u[1] = t[i] /\ u[2] = t[i + 1]
    <3>1. i + 1 \in i..(i + 2) /\ i + 1 - i + 1 = 2
      OBVIOUS
    <3> QED
      BY <1>2, <3>1, FirstLetters
  <2>2. Open \in Seq(Letters) /\ Len(Open) = 2 /\ Open[1] = "[" /\ Open[2] = "]"
    BY DEF Open, Letters
  <2> HIDE DEF u
  <2>3. u = Open <=> u[1] = Open[1] /\ u[2] = Open[2]
    <3>1. ASSUME u[1] = Open[1], u[2] = Open[2] PROVE u = Open
      BY <2>1, <2>2, <3>1, SeqEqual
    <3> QED
      BY <3>1
  <2> QED
    BY <2>1, <2>2, <2>3 DEF u
<1>3. ASSUME i + 2 <= Len(t)
      PROVE  SubSeq(t, i, i + 2) = Close <=> t[i] = "[" /\ t[i + 1] = "/" /\ t[i + 2] = "]"
  <2> DEFINE u == SubSeq(t, i, i + 2)
  <2>1. u \in Seq(Letters) /\ Len(u) = 3 /\ u[1] = t[i] /\ u[2] = t[i + 1] /\ u[3] = t[i + 2]
    <3>1. i + 2 \in i..(i + 2) /\ i + 2 - i + 1 = 3
      OBVIOUS
    <3> QED
      BY <1>3, <3>1, FirstLetters
  <2>2. Close \in Seq(Letters) /\ Len(Close) = 3 /\ Close[1] = "[" /\ Close[2] = "/" /\ Close[3] = "]"
    BY DEF Close, Letters
  <2> HIDE DEF u
  <2>3. u = Close <=> u[1] = Close[1] /\ u[2] = Close[2] /\ u[3] = Close[3]
    <3>1. ASSUME u[1] = Close[1], u[2] = Close[2], u[3] = Close[3] PROVE u = Close
      BY <2>1, <2>2, <3>1, SeqEqual
    <3> QED
      BY <3>1
  <2> QED
    BY <2>1, <2>2, <2>3 DEF u
<1>4. i + Len(Open) - 1 = i + 1 /\ i + Len(Close) - 1 = i + 2
  BY MarkerLengths
<1> QED
  BY <1>2, <1>3, <1>4 DEF Starts

LEMMA MarksByLetters ==
    ASSUME NEW t \in Seq(Letters), NEW i \in Nat \ {0}
    PROVE  i \in Marks(t) <=> Starts(t, i, Open) \/ Starts(t, i, Close)
<1>1. Len(t) \in Nat
  BY LenProperties
<1>2. Starts(t, i, Open) \/ Starts(t, i, Close) => i \in 1..Len(t)
  BY <1>1, StartsByLetters
<1> QED
  BY <1>2 DEF Marks

LEMMA TextsAssociate ==
    ASSUME NEW s \in Seq(Letters), NEW t \in Seq(Letters), NEW u \in Seq(Letters)
    PROVE  s \o (t \o u) = (s \o t) \o u
BY ConcatAssociative, SMTT(30)

Outside(d, letters) == IF d = 0 THEN letters ELSE <<>>

Deeper(d, opens) == IF opens THEN d + 1 ELSE IF d = 0 THEN 0 ELSE d - 1

\* What is left from a place on, by what stands there.
LEMMA LeftFromCases ==
    ASSUME NEW t \in Seq(Letters), NEW i \in 1..(Len(t) + 1), NEW d \in Nat
    PROVE  /\ i = Len(t) + 1 => LeftFrom(t)[i][d] = <<>>
           /\ Starts(t, i, Open) => LeftFrom(t)[i][d] = LeftFrom(t)[i + 2][Deeper(d, TRUE)]
           /\ Starts(t, i, Close) => LeftFrom(t)[i][d] = LeftFrom(t)[i + 3][Deeper(d, FALSE)]
           /\ i \in 1..Len(t) \ Marks(t) => LeftFrom(t)[i][d] = Outside(d, <<t[i]>>) \o LeftFrom(t)[i + 1][d]
<1> DEFINE left == LeftFrom(t)
<1>1. Len(t) \in Nat
  BY LenProperties
<1>2. left[i] = LeftAt(t, left, i)
  BY LeftFromRecursion
<1> HIDE DEF left
<1>3. left[i][d] = IF i > Len(t) THEN <<>>
                   ELSE IF Starts(t, i, Open) THEN left[i + Len(Open)][d + 1]
                   ELSE IF Starts(t, i, Close) THEN left[i + Len(Close)][IF d = 0 THEN 0 ELSE d - 1]
                   ELSE (IF d = 0 THEN <<t[i]>> ELSE <<>>) \o left[i + 1][d]
  BY <1>2 DEF LeftAt
<1>4. Starts(t, i, Open) => i <= Len(t) /\ left[i][d] = left[i + 2][Deeper(d, TRUE)]
  BY <1>1, <1>3, MarkerLengths, StartsByLetters DEF Deeper
<1>5. Starts(t, i, Close) => ~Starts(t, i, Open) /\ i <= Len(t)
  BY <1>1, StartsByLetters
<1>6. Starts(t, i, Close) => left[i][d] = left[i + 3][Deeper(d, FALSE)]
  BY <1>1, <1>3, <1>5, MarkerLengths DEF Deeper
<1>7. i \in 1..Len(t) \ Marks(t) => left[i][d] = Outside(d, <<t[i]>>) \o left[i + 1][d]
  <2> SUFFICES ASSUME i \in 1..Len(t) \ Marks(t) PROVE left[i][d] = Outside(d, <<t[i]>>) \o left[i + 1][d]
    OBVIOUS
  <2>1. ~Starts(t, i, Open) /\ ~Starts(t, i, Close) /\ ~(i > Len(t))
    BY <1>1, MarksByLetters
  <2> QED
    BY <1>1, <1>3, <2>1, Zenon DEF Outside
<1>8. i = Len(t) + 1 => left[i][d] = <<>>
  BY <1>1, <1>3
<1> QED
  BY <1>4, <1>6, <1>7, <1>8 DEF left

\* It is a text.
LEMMA LeftIsText ==
    ASSUME NEW t \in Seq(Letters)
    PROVE  \A i \in 1..(Len(t) + 1), d \in Nat : LeftFrom(t)[i][d] \in Seq(Letters)
<1>1. Len(t) \in Nat
  BY LenProperties
<1> DEFINE Text(k) == \A i \in 1..(Len(t) + 1), d \in Nat : Len(t) + 1 - i <= k => LeftFrom(t)[i][d] \in Seq(Letters)
<1> DEFINE S == {k \in Nat : Text(k)}
<1>2. 0 \in S
  <2> SUFFICES ASSUME NEW i \in 1..(Len(t) + 1), NEW d \in Nat, Len(t) + 1 - i <= 0
               PROVE  LeftFrom(t)[i][d] \in Seq(Letters)
    OBVIOUS
  <2>1. i = Len(t) + 1
    BY <1>1
  <2> QED
    BY <2>1, LeftFromCases, EmptySeq
<1>3. ASSUME NEW k \in Nat, k \in S PROVE k + 1 \in S
  <2>1. Text(k)
    BY <1>3
  <2> SUFFICES ASSUME NEW i \in 1..(Len(t) + 1), NEW d \in Nat, Len(t) + 1 - i <= k + 1
               PROVE  LeftFrom(t)[i][d] \in Seq(Letters)
    OBVIOUS
  <2>2. \A j \in (i + 1)..(Len(t) + 1), e \in Nat : LeftFrom(t)[j][e] \in Seq(Letters)
    BY <1>1, <2>1
  <2>3. Deeper(d, TRUE) \in Nat /\ Deeper(d, FALSE) \in Nat
    BY DEF Deeper
  <2> HIDE DEF S, Text
  <2>4. CASE i = Len(t) + 1
    BY <2>4, LeftFromCases, EmptySeq
  <2>5. CASE Starts(t, i, Open)
    <3>1. LeftFrom(t)[i][d] = LeftFrom(t)[i + 2][Deeper(d, TRUE)]
      BY <2>5, LeftFromCases
    <3>2. i + 2 \in (i + 1)..(Len(t) + 1)
      BY <1>1, <2>5, StartsByLetters
    <3> QED
      BY <2>2, <2>3, <3>1, <3>2
  <2>6. CASE Starts(t, i, Close)
    <3>1. LeftFrom(t)[i][d] = LeftFrom(t)[i + 3][Deeper(d, FALSE)]
      BY <2>6, LeftFromCases
    <3>2. i + 3 \in (i + 1)..(Len(t) + 1)
      BY <1>1, <2>6, StartsByLetters
    <3> QED
      BY <2>2, <2>3, <3>1, <3>2
  <2>7. CASE i # Len(t) + 1 /\ i \notin Marks(t)
    <3>1. i \in 1..Len(t) /\ i + 1 \in (i + 1)..(Len(t) + 1)
      BY <1>1, <2>7
    <3>2. Outside(d, <<t[i]>>) \in Seq(Letters) /\ LeftFrom(t)[i + 1][d] \in Seq(Letters)
      BY <3>1, <2>2, ElementOfSeq DEF Outside
    <3> QED
      BY <3>1, <3>2, <2>7, LeftFromCases, ConcatProperties
  <2> QED
    BY <1>1, <2>4, <2>5, <2>6, <2>7, MarksByLetters
<1> HIDE DEF S
<1>4. Len(t) \in S
  BY <1>1, <1>2, <1>3, Counting
<1> QED
  BY <1>1, <1>4 DEF S

\* Where no marker starts, the letters are kept outside of an envelope.
LEMMA LettersAreKept ==
    ASSUME NEW t \in Seq(Letters), NEW q \in 1..(Len(t) + 1), NEW r \in q..(Len(t) + 1), NEW d \in Nat,
           \A j \in q..(r - 1) : j \notin Marks(t)
    PROVE  LeftFrom(t)[q][d] = Outside(d, SubSeq(t, q, r - 1)) \o LeftFrom(t)[r][d]
<1>1. Len(t) \in Nat /\ q \in Nat /\ r \in Nat /\ q <= r /\ r <= Len(t) + 1
  BY LenProperties
<1> DEFINE Skip(k) == LeftFrom(t)[r - k][d] = Outside(d, SubSeq(t, r - k, r - 1)) \o LeftFrom(t)[r][d]
<1> DEFINE S == {k \in Nat : k <= r - q => Skip(k)}
<1>2. 0 \in S
  <2>1. SubSeq(t, r, r - 1) = <<>>
    BY <1>1, SubSeqEmpty
  <2>2. LeftFrom(t)[r][d] \in Seq(Letters)
    BY <1>1, LeftIsText
  <2>3. r - 0 = r /\ Outside(d, SubSeq(t, r, r - 1)) = <<>>
    BY <1>1, <2>1 DEF Outside
  <2>4. Skip(0)
    BY <2>2, <2>3, ConcatEmptySeq
  <2> HIDE DEF Skip
  <2> QED
    BY <2>4
<1>3. ASSUME NEW k \in Nat, k \in S PROVE k + 1 \in S
  <2> SUFFICES ASSUME k + 1 <= r - q PROVE Skip(k + 1)
    <3> HIDE DEF Skip
    <3> QED
      OBVIOUS
  <2> DEFINE p == r - (k + 1)
  <2>1. /\ p \in 1..Len(t) \ Marks(t) /\ p + 1 = r - k
        /\ r - 1 \in p..Len(t) /\ r \in 1..(Len(t) + 1) /\ p \in 1..(Len(t) + 1)
    BY <1>1
  <2>2. LeftFrom(t)[p + 1][d] = Outside(d, SubSeq(t, p + 1, r - 1)) \o LeftFrom(t)[r][d]
    <3>1. Skip(k)
      <4> HIDE DEF Skip
      <4> QED
        BY <1>1, <1>3
    <3> QED
      BY <2>1, <3>1
  <2> HIDE DEF p, S
  <2> DEFINE rest == SubSeq(t, p + 1, r - 1)
  <2>0. LeftFrom(t)[p][d] = Outside(d, <<t[p]>>) \o LeftFrom(t)[p + 1][d]
    BY <2>1, LeftFromCases
  <2>3. LeftFrom(t)[p][d] = Outside(d, <<t[p]>>) \o (Outside(d, rest) \o LeftFrom(t)[r][d])
    BY <2>0, <2>2
  <2>4. <<t[p]>> \o rest = SubSeq(t, p, r - 1)
    BY <2>1, SubSeqRecursiveFirst
  <2>5. LeftFrom(t)[r][d] \in Seq(Letters)
    BY <2>1, LeftIsText
  <2>6. rest \in Seq(Letters) /\ <<t[p]>> \in Seq(Letters)
    <3>1. p + 1 \in Nat \ {0} /\ r - 1 \in Nat /\ r - 1 <= Len(t) /\ p + 1 <= r - 1 + 1
      BY <1>1, <2>1
    <3>2. rest \in Seq(Letters)
      BY <3>1, LettersBetween
    <3>3. t[p] \in Letters
      BY <1>1, <2>1, ElementOfSeq
    <3> QED
      BY <3>2, <3>3
  <2> HIDE DEF rest
  <2>7. CASE d = 0
    <3>1. LeftFrom(t)[p][d] = <<t[p]>> \o (rest \o LeftFrom(t)[r][d])
      BY <2>3, <2>7 DEF Outside
    <3>2. <<t[p]>> \o (rest \o LeftFrom(t)[r][d]) = (<<t[p]>> \o rest) \o LeftFrom(t)[r][d]
      BY <2>5, <2>6, TextsAssociate
    <3> QED
      BY <2>4, <2>7, <3>1, <3>2, Zenon DEF Outside, p
  <2>8. CASE d # 0
    BY <2>3, <2>5, <2>8, ConcatEmptySeq, EmptySeq DEF Outside, p
  <2> QED
    BY <2>7, <2>8
<1> HIDE DEF S
<1>4. r - q \in S
  BY <1>1, <1>2, <1>3, Counting
<1>5. Skip(r - q) /\ r - (r - q) = q
  <2> HIDE DEF Skip
  <2> QED
    BY <1>1, <1>4 DEF S
<1> QED
  BY <1>5
-----------------------------------------------------------------------------
(* Text that is waited for: the end u of what has arrived of a text t, after *)
(* its first p letters.                                                      *)

Window(t, p, u) ==
    /\ t \in Seq(Letters) /\ u \in Seq(Letters) /\ p \in Nat
    /\ p + Len(u) <= Len(t)
    /\ \A k \in 1..Len(u) : t[p + k] = u[k]

LEMMA WindowPart ==
    ASSUME NEW t, NEW p, NEW u, Window(t, p, u), NEW n \in 0..Len(u)
    PROVE  /\ SubSeq(u, 1, n) \in Seq(Letters)
           /\ SubSeq(t, p + 1, p + n) = SubSeq(u, 1, n)
<1>1. /\ Len(t) \in Nat /\ Len(u) \in Nat /\ p \in Nat /\ p + Len(u) <= Len(t)
      /\ t \in Seq(Letters) /\ u \in Seq(Letters)
      /\ \A k \in 1..Len(u) : t[p + k] = u[k]
  BY LenProperties DEF Window
<1> DEFINE v == SubSeq(t, p + 1, p + n)
<1> DEFINE w == SubSeq(u, 1, n)
<1>3. v \in Seq(Letters) /\ Len(v) = n /\ \A k \in 1..n : v[k] = t[p + k]
  <2>1. /\ p + 1 \in Nat \ {0} /\ p + n \in Nat /\ p + n <= Len(t) /\ p + 1 <= p + n + 1
        /\ p + n + 1 - (p + 1) = n
    BY <1>1
  <2>2. v \in Seq(Letters) /\ Len(v) = n /\ \A k \in 1..n : v[k] = t[p + 1 + k - 1]
    BY <1>1, <2>1, LettersBetween
  <2>3. ASSUME NEW k \in 1..n PROVE p + 1 + k - 1 = p + k
    BY <1>1
  <2> HIDE DEF v
  <2> QED
    BY <2>2, <2>3
<1>4. w \in Seq(Letters) /\ Len(w) = n /\ \A k \in 1..n : w[k] = u[k]
  <2>1. n \in Nat /\ n <= Len(u) /\ 1 <= n + 1 /\ n + 1 - 1 = n
    BY <1>1
  <2>2. w \in Seq(Letters) /\ Len(w) = n /\ \A k \in 1..n : w[k] = u[1 + k - 1]
    BY <1>1, <2>1, LettersBetween
  <2>3. ASSUME NEW k \in 1..n PROVE 1 + k - 1 = k
    BY <2>1
  <2> HIDE DEF w
  <2> QED
    BY <2>2, <2>3
<1> HIDE DEF v, w
<1>5. v = w
  <2>1. Len(v) = n /\ Len(w) = n
    BY <1>3, <1>4
  <2>2. ASSUME NEW k \in 1..n PROVE v[k] = w[k]
    <3>1. k \in 1..Len(u)
      BY <1>1
    <3>2. v[k] = t[p + k] /\ w[k] = u[k]
      BY <1>3, <1>4
    <3> QED
      BY <1>1, <3>1, <3>2, Zenon
  <2>3. v \in Seq(Letters) /\ w \in Seq(Letters)
    BY <1>3, <1>4
  <2>4. Len(v) = Len(w) /\ \A k \in 1..Len(v) : v[k] = w[k]
    BY <2>1, <2>2, Zenon
  <2> QED
    BY <2>3, <2>4, SeqEqual, Zenon
<1> QED
  BY <1>4, <1>5 DEF v, w

\* The letters of a window are kept as those of the text are.
LEMMA WindowIsKept ==
    ASSUME NEW t, NEW p \in Nat, NEW u, Window(t, p, u), NEW n \in 0..Len(u), NEW d \in Nat,
           \A j \in (p + 1)..(p + n) : j \notin Marks(t)
    PROVE  /\ LeftFrom(t)[p + 1][d] = Outside(d, SubSeq(u, 1, n)) \o LeftFrom(t)[p + n + 1][d]
           /\ LeftFrom(t)[p + n + 1][d] \in Seq(Letters)
           /\ Outside(d, SubSeq(u, 1, n)) \in Seq(Letters)
<1>1. Len(t) \in Nat /\ Len(u) \in Nat /\ t \in Seq(Letters) /\ p + Len(u) <= Len(t)
  BY LenProperties DEF Window
<1>2. SubSeq(u, 1, n) \in Seq(Letters) /\ SubSeq(t, p + 1, p + n) = SubSeq(u, 1, n)
  BY WindowPart
<1> DEFINE r == p + n + 1
<1>3. p + 1 \in 1..(Len(t) + 1) /\ r \in (p + 1)..(Len(t) + 1) /\ r - 1 = p + n /\ r \in 1..(Len(t) + 1)
  BY <1>1
<1> HIDE DEF r
<1>4. LeftFrom(t)[p + 1][d] = Outside(d, SubSeq(t, p + 1, r - 1)) \o LeftFrom(t)[r][d]
  BY <1>1, <1>3, LettersAreKept
<1>5. LeftFrom(t)[r][d] \in Seq(Letters)
  BY <1>1, <1>3, LeftIsText
<1>6. Outside(d, SubSeq(u, 1, n)) \in Seq(Letters)
  BY <1>2, EmptySeq DEF Outside
<1> QED
  BY <1>2, <1>3, <1>4, <1>5, <1>6 DEF r

\* u is what follows the first p letters of s.
EndOf(s, p, u) == p + Len(u) = Len(s) /\ u = SubSeq(s, p + 1, Len(s))

\* What is left of a window is one.
LEMMA WindowShrinks ==
    ASSUME NEW s \in Seq(Letters), NEW u \in Seq(Letters), NEW p \in Nat, EndOf(s, p, u), NEW n \in 0..Len(u)
    PROVE  /\ SubSeq(u, n + 1, Len(u)) \in Seq(Letters) /\ EndOf(s, p + n, SubSeq(u, n + 1, Len(u)))
           /\ Len(SubSeq(u, n + 1, Len(u))) = Len(u) - n
           /\ \A k \in 1..Len(u) : s[p + k] = u[k]
           /\ \A k \in 1..(Len(u) - n) : u[n + k] = SubSeq(u, n + 1, Len(u))[k]
<1> DEFINE v == SubSeq(u, n + 1, Len(u))
<1>0. p + Len(u) = Len(s) /\ u = SubSeq(s, p + 1, Len(s))
  BY DEF EndOf
<1>1. Len(s) \in Nat /\ Len(u) \in Nat /\ n \in Nat /\ n <= Len(u) /\ p + Len(u) = Len(s) /\ Len(u) <= Len(s)
  BY <1>0, LenProperties
<1>2. \A k \in 1..Len(u) : s[p + k] = u[k]
  <2>1. p + 1 \in Nat \ {0} /\ p + 1 <= Len(s) + 1 /\ Len(s) + 1 - (p + 1) = Len(u)
    BY <1>1
  <2>2. \A k \in 1..Len(u) : SubSeq(s, p + 1, Len(s))[k] = s[p + 1 + k - 1]
    BY <1>1, <2>1, LettersBetween
  <2>3. ASSUME NEW k \in 1..Len(u) PROVE p + 1 + k - 1 = p + k
    BY <1>1
  <2> QED
    BY <1>0, <2>2, <2>3
<1>3. v \in Seq(Letters) /\ Len(v) = Len(u) - n /\ \A k \in 1..(Len(u) - n) : v[k] = u[n + k]
  <2>1. n + 1 \in Nat \ {0} /\ n + 1 <= Len(u) + 1 /\ Len(u) + 1 - (n + 1) = Len(u) - n
    BY <1>1
  <2>2. v \in Seq(Letters) /\ Len(v) = Len(u) - n /\ \A k \in 1..(Len(u) - n) : v[k] = u[n + 1 + k - 1]
    BY <1>1, <2>1, LettersBetween
  <2>3. ASSUME NEW k \in 1..(Len(u) - n) PROVE n + 1 + k - 1 = n + k
    BY <1>1
  <2> QED
    BY <2>2, <2>3
<1> HIDE DEF v
<1>4. v = SubSeq(s, p + n + 1, Len(s))
  <2> DEFINE w == SubSeq(s, p + n + 1, Len(s))
  <2>1. /\ p + n + 1 \in Nat \ {0} /\ p + n + 1 <= Len(s) + 1
        /\ Len(s) + 1 - (p + n + 1) = Len(u) - n
    <3> DEFINE ls == Len(s)
    <3> DEFINE lu == Len(u)
    <3>1. ls \in Nat /\ lu \in Nat /\ p + lu = ls /\ n <= lu /\ n \in Nat
      BY <1>1
    <3> HIDE DEF ls, lu
    <3>2. p + n + 1 \in Nat \ {0} /\ p + n + 1 <= ls + 1 /\ ls + 1 - (p + n + 1) = lu - n
      BY <3>1
    <3> QED
      BY <3>2 DEF ls, lu
  <2>2. w \in Seq(Letters) /\ Len(w) = Len(u) - n /\ \A k \in 1..(Len(u) - n) : w[k] = s[p + n + 1 + k - 1]
    BY <1>1, <2>1, LettersBetween
  <2> HIDE DEF w
  <2>3. ASSUME NEW k \in 1..Len(v) PROVE w[k] = v[k]
    <3>1. k \in 1..(Len(u) - n) /\ p + n + 1 + k - 1 = p + (n + k) /\ n + k \in 1..Len(u)
      BY <1>1, <1>3
    <3> QED
      BY <1>2, <1>3, <2>2, <3>1
  <2>4. w = v
    BY <1>3, <2>2, <2>3, SeqEqual
  <2> QED
    BY <2>4 DEF w
<1>5. p + n + Len(v) = Len(s)
  <2> DEFINE ls == Len(s)
  <2> DEFINE lu == Len(u)
  <2> DEFINE lv == Len(v)
  <2>1. ls \in Nat /\ lu \in Nat /\ p + lu = ls /\ n \in Nat /\ lv = lu - n
    BY <1>1, <1>3
  <2> HIDE DEF ls, lu, lv
  <2>2. p + n + lv = ls
    BY <2>1
  <2> QED
    BY <2>2 DEF ls, lv
<1>6. EndOf(s, p + n, v)
  BY <1>4, <1>5, Zenon DEF EndOf
<1>7. \A k \in 1..(Len(u) - n) : u[n + k] = v[k]
  BY <1>3, Zenon
<1> QED
  BY <1>2, <1>3, <1>6, <1>7, Zenon DEF v

LEMMA WindowGrows ==
    ASSUME NEW s \in Seq(Letters), NEW u \in Seq(Letters), NEW p \in Nat, EndOf(s, p, u), NEW c \in Seq(Letters)
    PROVE  s \o c \in Seq(Letters) /\ u \o c \in Seq(Letters) /\ EndOf(s \o c, p, u \o c)
<1>0. p + Len(u) = Len(s) /\ u = SubSeq(s, p + 1, Len(s))
  BY DEF EndOf
<1>1. Len(s) \in Nat /\ Len(u) \in Nat /\ Len(c) \in Nat
  BY LenProperties
<1>2. \A k \in 1..Len(u) : s[p + k] = u[k]
  <2>1. 0 \in 0..Len(u)
    BY <1>1
  <2> QED
    BY <2>1, WindowShrinks
<1> DEFINE sc == s \o c
<1> DEFINE uc == u \o c
<1>3. /\ sc \in Seq(Letters) /\ Len(sc) = Len(s) + Len(c)
      /\ \A k \in 1..(Len(s) + Len(c)) : sc[k] = IF k <= Len(s) THEN s[k] ELSE c[k - Len(s)]
  BY ConcatProperties
<1>4. /\ uc \in Seq(Letters) /\ Len(uc) = Len(u) + Len(c)
      /\ \A k \in 1..(Len(u) + Len(c)) : uc[k] = IF k <= Len(u) THEN u[k] ELSE c[k - Len(u)]
  BY ConcatProperties
<1> DEFINE w == SubSeq(sc, p + 1, Len(sc))
<1> HIDE DEF sc, uc
<1>5. /\ w \in Seq(Letters)
      /\ Len(w) = IF p + 1 <= Len(sc) THEN Len(sc) - (p + 1) + 1 ELSE 0
      /\ \A k \in 1..(Len(sc) - (p + 1) + 1) : w[k] = sc[p + 1 + k - 1]
  <2>1. Len(sc) \in Nat /\ \A j \in (p + 1)..Len(sc) : sc[j] \in Letters
    BY <1>1, <1>3, ElementOfSeq
  <2> QED
    BY <2>1, SubSeqProperties
<1> HIDE DEF w
<1>6. /\ Len(w) = Len(uc) /\ p + Len(uc) = Len(sc)
      /\ Len(sc) - (p + 1) + 1 = Len(u) + Len(c)
  <2> DEFINE ls == Len(s)
  <2> DEFINE lu == Len(u)
  <2> DEFINE lc == Len(c)
  <2>1. ls \in Nat /\ lu \in Nat /\ lc \in Nat /\ p + lu = ls /\ Len(sc) = ls + lc /\ Len(uc) = lu + lc
    BY <1>0, <1>1, <1>3, <1>4
  <2> HIDE DEF ls, lu, lc
  <2> DEFINE lsc == Len(sc)
  <2> DEFINE luc == Len(uc)
  <2> DEFINE lw == Len(w)
  <2>2. lsc = ls + lc /\ luc = lu + lc /\ lw = IF p + 1 <= lsc THEN lsc - (p + 1) + 1 ELSE 0
    BY <1>5, <2>1
  <2> HIDE DEF lsc, luc, lw
  <2>3. lw = luc /\ p + luc = lsc /\ lsc - (p + 1) + 1 = lu + lc
    BY <2>1, <2>2
  <2> QED
    BY <2>3 DEF lu, lc, lsc, luc, lw
<1>7. ASSUME NEW k \in 1..Len(uc) PROVE w[k] = uc[k]
  <2>0. k \in 1..(Len(u) + Len(c)) /\ k \in 1..(Len(sc) - (p + 1) + 1) /\ p + 1 + k - 1 = p + k
    BY <1>1, <1>4, <1>6
  <2>1. p + k \in 1..(Len(s) + Len(c)) /\ (p + k <= Len(s) <=> k <= Len(u)) /\ p + k - Len(s) = k - Len(u)
    <3> DEFINE ls == Len(s)
    <3> DEFINE lu == Len(u)
    <3> DEFINE lc == Len(c)
    <3>1. ls \in Nat /\ lu \in Nat /\ lc \in Nat /\ p + lu = ls /\ k \in 1..(lu + lc)
      BY <1>0, <1>1, <2>0
    <3> HIDE DEF ls, lu, lc
    <3>2. p + k \in 1..(ls + lc) /\ (p + k <= ls <=> k <= lu) /\ p + k - ls = k - lu
      BY <3>1
    <3> QED
      BY <3>2 DEF ls, lu, lc
  <2>2. w[k] = sc[p + k]
    BY <1>5, <2>0
  <2>3. CASE k <= Len(u)
    <3>1. k \in 1..Len(u)
      BY <1>1, <2>3
    <3> QED
      BY <1>2, <1>3, <1>4, <2>0, <2>1, <2>2, <2>3, <3>1
  <2>4. CASE ~(k <= Len(u))
    <3>1. uc[k] = c[k - Len(u)]
      BY <1>4, <2>0, <2>4
    <3>2. sc[p + k] = c[p + k - Len(s)]
      BY <1>3, <2>1, <2>4
    <3> QED
      BY <2>1, <2>2, <3>1, <3>2, Zenon
  <2> QED
    BY <2>3, <2>4
<1>8. w = uc
  BY <1>4, <1>5, <1>6, <1>7, SeqEqual
<1> QED
  BY <1>3, <1>4, <1>6, <1>8 DEF w, sc, uc, EndOf

\* A marker of the text that ends where the window does is a marker of the window.
LEMMA MarksInWindow ==
    ASSUME NEW t, NEW p, NEW u, Window(t, p, u), NEW k \in 1..Len(u)
    PROVE  /\ Starts(u, k, Open) => Starts(t, p + k, Open)
           /\ Starts(u, k, Close) => Starts(t, p + k, Close)
           /\ Starts(t, p + k, Open) => Starts(u, k, Open) \/ (k = Len(u) /\ u[k] = "[")
           /\ Starts(t, p + k, Close) =>
                  \/ Starts(u, k, Close)
                  \/ k = Len(u) /\ u[k] = "["
                  \/ k = Len(u) - 1 /\ u[k] = "[" /\ u[k + 1] = "/"
<1>1. /\ Len(t) \in Nat /\ Len(u) \in Nat /\ p \in Nat /\ p + Len(u) <= Len(t)
      /\ t \in Seq(Letters) /\ u \in Seq(Letters)
      /\ \A j \in 1..Len(u) : t[p + j] = u[j]
  BY LenProperties DEF Window
<1>2. /\ t[p + k] = u[k]
      /\ k + 1 <= Len(u) => t[p + k + 1] = u[k + 1]
      /\ k + 2 <= Len(u) => t[p + k + 2] = u[k + 2]
  <2>1. p + (k + 1) = p + k + 1 /\ p + (k + 2) = p + k + 2
    BY <1>1
  <2>2. k + 1 <= Len(u) => t[p + (k + 1)] = u[k + 1]
    BY <1>1
  <2>3. k + 2 <= Len(u) => t[p + (k + 2)] = u[k + 2]
    BY <1>1
  <2> QED
    BY <1>1, <2>1, <2>2, <2>3
<1>3. /\ Starts(u, k, Open) <=> k + 1 <= Len(u) /\ u[k] = "[" /\ u[k + 1] = "]"
      /\ Starts(u, k, Close) <=> k + 2 <= Len(u) /\ u[k] = "[" /\ u[k + 1] = "/" /\ u[k + 2] = "]"
  BY <1>1, StartsByLetters
<1>4. /\ Starts(t, p + k, Open) <=> p + k + 1 <= Len(t) /\ t[p + k] = "[" /\ t[p + k + 1] = "]"
      /\ Starts(t, p + k, Close) <=>
            p + k + 2 <= Len(t) /\ t[p + k] = "[" /\ t[p + k + 1] = "/" /\ t[p + k + 2] = "]"
  <2>1. p + k \in Nat \ {0}
    BY <1>1
  <2> QED
    BY <1>1, <2>1, StartsByLetters
<1>5. /\ Starts(u, k, Open) => Starts(t, p + k, Open)
      /\ Starts(t, p + k, Open) => Starts(u, k, Open) \/ (k = Len(u) /\ u[k] = "[")
  BY <1>1, <1>2, <1>3, <1>4
<1>6. Starts(u, k, Close) => Starts(t, p + k, Close)
  <2> SUFFICES ASSUME Starts(u, k, Close) PROVE Starts(t, p + k, Close)
    OBVIOUS
  <2>1. k + 2 <= Len(u) /\ u[k] = "[" /\ u[k + 1] = "/" /\ u[k + 2] = "]"
    BY <1>3
  <2>2. p + k + 2 <= Len(t) /\ k + 1 <= Len(u)
    BY <1>1, <2>1
  <2>3. t[p + k] = "[" /\ t[p + k + 1] = "/" /\ t[p + k + 2] = "]"
    BY <1>2, <2>1, <2>2
  <2> QED
    BY <1>4, <2>2, <2>3
<1>7. ASSUME Starts(t, p + k, Close)
      PROVE  \/ Starts(u, k, Close)
             \/ k = Len(u) /\ u[k] = "["
             \/ k = Len(u) - 1 /\ u[k] = "[" /\ u[k + 1] = "/"
  <2>1. t[p + k] = "[" /\ t[p + k + 1] = "/" /\ t[p + k + 2] = "]"
    BY <1>4, <1>7
  <2>2. k = Len(u) \/ k = Len(u) - 1 \/ k + 2 <= Len(u)
    BY <1>1
  <2>3. CASE k + 2 <= Len(u)
    <3>1. k + 1 <= Len(u)
      BY <1>1, <2>3
    <3> QED
      BY <1>2, <1>3, <2>1, <2>3, <3>1
  <2>4. CASE k = Len(u) - 1
    <3>1. k + 1 <= Len(u)
      BY <1>1, <2>4
    <3> QED
      BY <1>2, <2>1, <2>4, <3>1
  <2> QED
    BY <1>2, <2>1, <2>2, <2>3, <2>4
<1> QED
  BY <1>5, <1>6, <1>7

\* No marker of the text starts before the first one of the window.
LEMMA FirstMarkIsFirst ==
    ASSUME NEW t, NEW p, NEW u, Window(t, p, u), NEW i \in Marks(u), \A k \in Marks(u) : i <= k
    PROVE  \A j \in (p + 1)..(p + i - 1) : j \notin Marks(t)
<1>1. /\ Len(t) \in Nat /\ Len(u) \in Nat /\ p \in Nat /\ p + Len(u) <= Len(t)
      /\ t \in Seq(Letters) /\ u \in Seq(Letters) /\ i \in 1..Len(u)
  BY LenProperties DEF Window, Marks
<1>2. u[i] = "[" /\ i + 1 <= Len(u)
  BY <1>1, MarksByLetters, StartsByLetters
<1> SUFFICES ASSUME NEW k \in 1..(i - 1) PROVE p + k \notin Marks(t)
  <2>1. ASSUME NEW j \in (p + 1)..(p + i - 1) PROVE j - p \in 1..(i - 1) /\ p + (j - p) = j
    BY <1>1
  <2> QED
    BY <2>1
<1>3. k \in 1..Len(u) /\ k \notin Marks(u) /\ p + k \in Nat \ {0}
  BY <1>1
<1>4. ~Starts(u, k, Open) /\ ~Starts(u, k, Close)
  BY <1>1, <1>3, MarksByLetters
<1>5. ~(k = Len(u)) /\ ~(k = Len(u) - 1 /\ u[k] = "[" /\ u[k + 1] = "/")
  BY <1>1, <1>2
<1>6. ~Starts(t, p + k, Open) /\ ~Starts(t, p + k, Close)
  BY <1>3, <1>4, <1>5, MarksInWindow
<1> QED
  BY <1>1, <1>3, <1>6, MarksByLetters

\* _longest_marker_prefix_suffix: what is waited for is long enough.
LEMMA KeepIsLongest ==
    ASSUME NEW t \in Seq(Letters)
    PROVE  Keep(t) \in 0..Len(t) /\ \A k \in (Keep(t) + 1)..Len(t) : ~MayBegin(t, k)
<1>1. Len(t) \in Nat
  BY LenProperties
<1> DEFINE Beginnings == {n \in 0..Len(t) : n = 0 \/ MayBegin(t, n)}
<1> DEFINE Longest(n) == /\ n = 0 \/ MayBegin(t, n)
                         /\ \A k \in (n + 1)..Len(t) : ~MayBegin(t, k)
<1>2. Beginnings \subseteq 0..Len(t) /\ Beginnings # {}
  BY <1>1
<1>3. PICK n \in Beginnings : \A k \in Beginnings : k <= n
  BY <1>1, <1>2, HasGreatest
<1>4. n \in 0..Len(t) /\ Longest(n)
  BY <1>1, <1>3
<1>5. Keep(t) = CHOOSE k \in 0..Len(t) : Longest(k)
  BY DEF Keep
<1> HIDE DEF Longest
<1>6. Keep(t) \in 0..Len(t) /\ Longest(Keep(t))
  BY <1>4, <1>5
<1> QED
  BY <1>6 DEF Longest

LEMMA BeginningsByLetters ==
    ASSUME NEW t \in Seq(Letters), NEW k \in 1..Len(t)
    PROVE  /\ k = Len(t) /\ t[k] = "[" => MayBegin(t, 1)
           /\ k = Len(t) - 1 /\ t[k] = "[" /\ t[k + 1] = "/" => MayBegin(t, 2)
<1>1. Len(t) \in Nat /\ \A j \in 1..Len(t) : t[j] \in Letters
  BY LenProperties, ElementOfSeq
<1>2. ASSUME k = Len(t), t[k] = "[" PROVE MayBegin(t, 1)
  <2> DEFINE v == SubSeq(t, k, k)
  <2> DEFINE w == SubSeq(Open, 1, 1)
  <2>1. v \in Seq(Letters) /\ Len(v) = 1 /\ v[1] = "["
    <3>1. k \in k..(k + 2) /\ k - k + 1 = 1 /\ k \in Nat \ {0}
      BY <1>1
    <3> QED
      BY <1>1, <1>2, <3>1, FirstLetters
  <2>2. Open \in Seq(Letters) /\ Len(Open) = 2 /\ Open[1] = "["
    BY DEF Open, Letters
  <2>3. w \in Seq(Letters) /\ Len(w) = 1 /\ w[1] = "["
    <3>1. PICK m \in Nat \ {0} : m = 1
      OBVIOUS
    <3>2. m \in m..(m + 2) /\ m <= Len(Open) /\ m - m + 1 = 1
      BY <2>2, <3>1
    <3>3. SubSeq(Open, m, m) \in Seq(Letters) /\ Len(SubSeq(Open, m, m)) = 1 /\ SubSeq(Open, m, m)[1] = Open[m]
      BY <2>2, <3>2, FirstLetters
    <3> QED
      BY <2>2, <3>1, <3>3
  <2> HIDE DEF v, w
  <2>4. v = w
    BY <2>1, <2>3, SeqEqual
  <2>5. Len(t) - 1 + 1 = k /\ k = Len(t) /\ 1 < Len(Open)
    BY <1>1, <1>2, MarkerLengths
  <2> QED
    BY <2>4, <2>5 DEF MayBegin, v, w
<1>3. ASSUME k = Len(t) - 1, t[k] = "[", t[k + 1] = "/" PROVE MayBegin(t, 2)
  <2> DEFINE v == SubSeq(t, k, k + 1)
  <2> DEFINE w == SubSeq(Close, 1, 2)
  <2>1. v \in Seq(Letters) /\ Len(v) = 2 /\ v[1] = "[" /\ v[2] = "/"
    <3>1. k + 1 \in k..(k + 2) /\ k + 1 - k + 1 = 2 /\ k \in Nat \ {0} /\ k + 1 <= Len(t)
      BY <1>1, <1>3
    <3> QED
      BY <1>1, <1>3, <3>1, FirstLetters
  <2>2. Close \in Seq(Letters) /\ Len(Close) = 3 /\ Close[1] = "[" /\ Close[2] = "/"
    BY DEF Close, Letters
  <2>3. w \in Seq(Letters) /\ Len(w) = 2 /\ w[1] = "[" /\ w[2] = "/"
    <3>1. PICK m \in Nat \ {0} : m = 1
      OBVIOUS
    <3>2. PICK n \in m..(m + 2) : n = m + 1
      BY <3>1
    <3>3. n = 2 /\ n >= m + 1 /\ n <= Len(Close) /\ n - m + 1 = 2
      BY <2>2, <3>1, <3>2
    <3> DEFINE x == SubSeq(Close, m, n)
    <3>4. x \in Seq(Letters) /\ Len(x) = n - m + 1 /\ x[1] = Close[m] /\ x[2] = Close[m + 1]
      BY <2>2, <3>3, FirstLetters
    <3>5. x = w
      BY <3>1, <3>3, Zenon
    <3>6. Close[m] = "["
      BY <2>2, <3>1, Zenon
    <3>7. Close[m + 1] = "/"
      BY <2>2, <3>2, <3>3, Zenon
    <3> HIDE DEF x, w
    <3> QED
      BY <3>3, <3>4, <3>5, <3>6, <3>7
  <2> HIDE DEF v, w
  <2>4. v = w
    BY <2>1, <2>3, SeqEqual
  <2>5. Len(t) - 2 + 1 = k /\ k + 1 = Len(t) /\ 2 < Len(Close)
    BY <1>1, <1>3, MarkerLengths
  <2> QED
    BY <2>4, <2>5 DEF MayBegin, v, w
<1> QED
  BY <1>2, <1>3

\* Where no marker stands, none will stand in what is not waited for.
LEMMA RestBeginsNothing ==
    ASSUME NEW t, NEW p, NEW u, Window(t, p, u), Marks(u) = {}
    PROVE  \A j \in (p + 1)..(p + (Len(u) - Keep(u))) : j \notin Marks(t)
<1>1. /\ Len(t) \in Nat /\ Len(u) \in Nat /\ p \in Nat /\ p + Len(u) <= Len(t)
      /\ t \in Seq(Letters) /\ u \in Seq(Letters)
  BY LenProperties DEF Window
<1>2. Keep(u) \in 0..Len(u) /\ \A k \in (Keep(u) + 1)..Len(u) : ~MayBegin(u, k)
  BY <1>1, KeepIsLongest
<1> SUFFICES ASSUME NEW k \in 1..(Len(u) - Keep(u)) PROVE p + k \notin Marks(t)
  <2>1. ASSUME NEW j \in (p + 1)..(p + (Len(u) - Keep(u)))
        PROVE  j - p \in 1..(Len(u) - Keep(u)) /\ p + (j - p) = j
    BY <1>1, <1>2
  <2> QED
    BY <2>1
<1>3. k \in 1..Len(u) /\ p + k \in Nat \ {0}
  BY <1>1, <1>2
<1>4. ~Starts(u, k, Open) /\ ~Starts(u, k, Close)
  BY <1>1, <1>3, MarksByLetters
<1>5. ~(k = Len(u) /\ u[k] = "[")
  <2>1. k = Len(u) => 1 \in (Keep(u) + 1)..Len(u)
    BY <1>1, <1>2
  <2> QED
    BY <1>1, <1>2, <1>3, <2>1, BeginningsByLetters
<1>6. ~(k = Len(u) - 1 /\ u[k] = "[" /\ u[k + 1] = "/")
  <2>1. k = Len(u) - 1 => 2 \in (Keep(u) + 1)..Len(u)
    BY <1>1, <1>2
  <2> QED
    BY <1>1, <1>2, <1>3, <2>1, BeginningsByLetters
<1>7. ~Starts(t, p + k, Open) /\ ~Starts(t, p + k, Close)
  BY <1>3, <1>4, <1>5, <1>6, MarksInWindow
<1> QED
  BY <1>1, <1>3, <1>7, MarksByLetters
-----------------------------------------------------------------------------
(* The invariant of the filter: whatever comes after the text that arrived,  *)
(* what is left of the whole is what was kept and what is left of it from    *)
(* the place where the filter is, at the depth it has counted.               *)

Filtered == Len(raw) - Len(unfiltered)

FilterTypes ==
    /\ raw \in Seq(Letters) /\ unfiltered \in Seq(Letters) /\ depth \in Nat
    /\ step \in {"read", "scan", "finish", "reply"} => kept \in Seq(Letters)
    /\ removed => raw # <<>>

Waiting ==
    /\ Len(unfiltered) <= Len(raw)
    /\ unfiltered = SubSeq(raw, Filtered + 1, Len(raw))
    /\ step \in {"read", "finish"} => Marks(unfiltered) = {}

KeptAhead(rest) == Clean(raw \o rest) = kept \o LeftFrom(raw \o rest)[Filtered + 1][depth]

Promised ==
    /\ step \in {"read", "scan", "finish"} => \A rest \in Seq(Letters) : KeptAhead(rest)
    /\ step = "reply" => kept = Clean(raw)

FilterInv == FilterTypes /\ Waiting /\ Promised /\ CutsDoNotMatter

LEMMA FilterInitially == ASSUME OutputInit PROVE FilterInv
<1>1. raw = <<>> /\ unfiltered = <<>> /\ depth = 0 /\ kept = <<>> /\ step = "read" /\ removed = FALSE
  BY DEF OutputInit
<1>2. FilterTypes
  BY <1>1, EmptySeq DEF FilterTypes
<1>3. Waiting
  <2>1. Len(<<>>) = 0 /\ SubSeq(<<>>, 1, 0) = <<>> /\ Marks(<<>>) = {}
    BY SubSeqEmpty DEF Marks
  <2>2. Filtered = 0
    BY <1>1, <2>1 DEF Filtered
  <2> QED
    BY <1>1, <2>1, <2>2 DEF Waiting
<1>4. Promised
  <2>1. ASSUME NEW rest \in Seq(Letters) PROVE KeptAhead(rest)
    <3>1. <<>> \o rest = rest
      BY ConcatEmptySeq
    <3>2. LeftFrom(rest)[1][0] \in Seq(Letters)
      <4>1. 1 \in 1..(Len(rest) + 1)
        BY LenProperties
      <4> QED
        BY <4>1, LeftIsText
    <3>3. Filtered + 1 = 1
      BY <1>1 DEF Filtered
    <3> QED
      BY <1>1, <3>1, <3>2, <3>3, ConcatEmptySeq DEF KeptAhead, Clean
  <2> QED
    BY <1>1, <2>1 DEF Promised
<1>5. CutsDoNotMatter
  BY <1>1 DEF CutsDoNotMatter
<1> QED
  BY <1>2, <1>3, <1>4, <1>5 DEF FilterInv

\* What waits, in any text that begins with what arrived.
LEMMA WaitingIsWindow ==
    ASSUME FilterTypes, Waiting, NEW rest \in Seq(Letters)
    PROVE  /\ Window(raw \o rest, Filtered, unfiltered)
           /\ Filtered + Len(unfiltered) = Len(raw)
           /\ Len(raw \o rest) = Len(raw) + Len(rest)
<1>1. /\ raw \in Seq(Letters) /\ unfiltered \in Seq(Letters) /\ Len(raw) \in Nat /\ Len(unfiltered) \in Nat
      /\ Len(rest) \in Nat /\ Len(unfiltered) <= Len(raw)
  BY LenProperties DEF FilterTypes, Waiting
<1>2. /\ raw \o rest \in Seq(Letters)
      /\ Len(raw \o rest) = Len(raw) + Len(rest)
      /\ \A k \in 1..Len(raw) : (raw \o rest)[k] = raw[k]
  BY <1>1, ConcatProperties
<1>3. Filtered \in Nat /\ Filtered + Len(unfiltered) = Len(raw)
  BY <1>1 DEF Filtered
<1>4. ASSUME NEW k \in 1..Len(unfiltered) PROVE raw[Filtered + k] = unfiltered[k]
  <2>1. PICK p \in Nat : p = Filtered
    BY <1>3
  <2>2. unfiltered = SubSeq(raw, p + 1, Len(raw)) /\ p + Len(unfiltered) = Len(raw)
    BY <1>3, <2>1 DEF Waiting
  <2>3. 0 \in 0..Len(unfiltered) /\ EndOf(raw, p, unfiltered)
    BY <1>1, <2>2 DEF EndOf
  <2>4. \A j \in 1..Len(unfiltered) : raw[p + j] = unfiltered[j]
    BY <1>1, <2>3, WindowShrinks
  <2> QED
    BY <2>1, <2>4
<1>5. ASSUME NEW k \in 1..Len(unfiltered) PROVE (raw \o rest)[Filtered + k] = unfiltered[k]
  <2>1. Filtered + k \in 1..Len(raw)
    BY <1>1, <1>3
  <2> QED
    BY <1>2, <1>4, <2>1
<1> QED
  BY <1>1, <1>2, <1>3, <1>5 DEF Window

\* What the filter lets pass: letters among which no marker starts.
LEMMA PassingLetters ==
    ASSUME FilterTypes, Waiting, Promised, step \in {"scan", "finish"}, NEW rest \in Seq(Letters),
           NEW n \in 0..Len(unfiltered),
           \A j \in (Filtered + 1)..(Filtered + n) : j \notin Marks(raw \o rest)
    PROVE  /\ kept \o Outside(depth, SubSeq(unfiltered, 1, n)) \in Seq(Letters)
           /\ Clean(raw \o rest) = (kept \o Outside(depth, SubSeq(unfiltered, 1, n)))
                                       \o LeftFrom(raw \o rest)[Filtered + n + 1][depth]
<1> DEFINE t == raw \o rest
<1>1. /\ Window(t, Filtered, unfiltered) /\ Filtered + Len(unfiltered) = Len(raw)
      /\ Len(t) = Len(raw) + Len(rest)
  BY WaitingIsWindow
<1>2. /\ t \in Seq(Letters) /\ Len(raw) \in Nat /\ Len(rest) \in Nat /\ Len(unfiltered) \in Nat
      /\ Filtered \in Nat /\ depth \in Nat /\ kept \in Seq(Letters)
  BY <1>1, LenProperties DEF FilterTypes, Window
<1>3. Clean(t) = kept \o LeftFrom(t)[Filtered + 1][depth]
  BY DEF Promised, KeptAhead
<1> HIDE DEF t
<1> DEFINE p == Filtered
<1> DEFINE passing == Outside(depth, SubSeq(unfiltered, 1, n))
<1> DEFINE left == LeftFrom(t)[p + n + 1][depth]
<1>4. /\ LeftFrom(t)[p + 1][depth] = passing \o left
      /\ left \in Seq(Letters) /\ passing \in Seq(Letters)
  <2>1. \A j \in (p + 1)..(p + n) : j \notin Marks(t)
    BY DEF t
  <2> HIDE DEF p
  <2>2. p \in Nat /\ depth \in Nat /\ Window(t, p, unfiltered)
    BY <1>1, <1>2 DEF p
  <2> QED
    BY <2>1, <2>2, WindowIsKept
<1>5. Clean(t) = kept \o LeftFrom(t)[p + 1][depth]
  BY <1>3
<1> HIDE DEF passing, left, p
<1>6. kept \o passing \in Seq(Letters)
  BY <1>2, <1>4, ConcatProperties
<1>7. kept \o (passing \o left) = (kept \o passing) \o left
  BY <1>2, <1>4, TextsAssociate
<1>8. Clean(t) = (kept \o passing) \o left
  BY <1>4, <1>5, <1>7, Zenon
<1> QED
  BY <1>6, <1>8 DEF t, passing, left, p

LEMMA Difference ==
    ASSUME NEW a \in Nat, NEW b \in Nat, NEW c \in Nat, NEW n \in Nat, NEW p \in Nat, p + a = b, c = a - n
    PROVE  b - c = p + n /\ c <= b
OBVIOUS

\* What waits still, when n letters of it are dealt with.
LEMMA WaitsStill ==
    ASSUME FilterTypes, Waiting, NEW n \in 0..Len(unfiltered), raw' = raw,
           unfiltered' = SubSeq(unfiltered, n + 1, Len(unfiltered))
    PROVE  /\ unfiltered' \in Seq(Letters) /\ Len(unfiltered') <= Len(raw')
           /\ Filtered' = Filtered + n
           /\ unfiltered' = SubSeq(raw', Filtered' + 1, Len(raw'))
           /\ Marks(unfiltered) = {} => Marks(unfiltered') = {}
<1>1. PICK v : v = unfiltered'
  OBVIOUS
<1>2. Filtered \in Nat /\ Filtered + Len(unfiltered) = Len(raw)
  <2>1. Window(raw \o <<>>, Filtered, unfiltered) /\ Filtered + Len(unfiltered) = Len(raw)
    BY WaitingIsWindow, EmptySeq
  <2> QED
    BY <2>1 DEF Window
<1>0. PICK p \in Nat : p = Filtered
  BY <1>2
<1>3. /\ raw \in Seq(Letters) /\ unfiltered \in Seq(Letters) /\ p + Len(unfiltered) = Len(raw)
      /\ unfiltered = SubSeq(raw, p + 1, Len(raw)) /\ v = SubSeq(unfiltered, n + 1, Len(unfiltered))
  BY <1>0, <1>1, <1>2 DEF FilterTypes, Waiting
<1>4. /\ v \in Seq(Letters) /\ Len(v) = Len(unfiltered) - n
      /\ v = SubSeq(raw, p + n + 1, Len(raw))
      /\ \A k \in 1..Len(v) : unfiltered[n + k] = v[k]
  <2>1. EndOf(raw, p, unfiltered)
    BY <1>3 DEF EndOf
  <2> DEFINE x == SubSeq(unfiltered, n + 1, Len(unfiltered))
  <2>2. /\ x \in Seq(Letters) /\ EndOf(raw, p + n, x) /\ Len(x) = Len(unfiltered) - n
        /\ \A k \in 1..(Len(unfiltered) - n) : unfiltered[n + k] = x[k]
    <3>1. raw \in Seq(Letters) /\ unfiltered \in Seq(Letters)
      BY <1>3
    <3> QED
      BY <2>1, <3>1, WindowShrinks
  <2>3. x = v
    BY <1>3
  <2> HIDE DEF x
  <2> QED
    BY <2>2, <2>3 DEF EndOf
<1>5. Len(raw) \in Nat /\ Len(unfiltered) \in Nat /\ Len(v) \in Nat /\ n \in Nat /\ n <= Len(unfiltered)
  BY <1>3, <1>4, LenProperties
<1>6. Filtered' = p + n /\ Len(v) <= Len(raw)
  <2>1. Filtered' = Len(raw) - Len(v)
    BY <1>1 DEF Filtered
  <2> DEFINE a == Len(unfiltered)
  <2> DEFINE b == Len(raw)
  <2> DEFINE c == Len(v)
  <2>2. a \in Nat /\ b \in Nat /\ c \in Nat /\ p + a = b /\ c = a - n /\ n \in Nat
    BY <1>3, <1>4, <1>5
  <2> HIDE DEF a, b, c
  <2>3. b - c = p + n /\ c <= b
    BY <2>2, Difference
  <2> QED
    BY <2>1, <2>3 DEF b, c
<1>7. ASSUME Marks(unfiltered) = {} PROVE Marks(v) = {}
  <2> SUFFICES ASSUME NEW k \in Marks(v) PROVE FALSE
    OBVIOUS
  <2>1. Window(unfiltered, n, v)
    <3>1. n + Len(v) <= Len(unfiltered)
      BY <1>4, <1>5
    <3>2. /\ unfiltered \in Seq(Letters) /\ v \in Seq(Letters) /\ n \in Nat
          /\ \A j \in 1..Len(v) : unfiltered[n + j] = v[j]
      BY <1>3, <1>4, <1>5
    <3> QED
      BY <3>1, <3>2, Zenon DEF Window
  <2>2. k \in 1..Len(v) /\ k \in Nat \ {0} /\ n + k \in Nat \ {0}
    BY <1>5 DEF Marks
  <2>3. Starts(v, k, Open) \/ Starts(v, k, Close)
    BY DEF Marks
  <2>4. Starts(unfiltered, n + k, Open) \/ Starts(unfiltered, n + k, Close)
    BY <2>1, <2>2, <2>3, MarksInWindow
  <2> QED
    BY <1>3, <1>7, <2>2, <2>4, MarksByLetters
<1> QED
  BY <1>0, <1>1, <1>4, <1>6, <1>7

LEMMA HearKeeps ==
    ASSUME FilterInv, step \in {"scan", "finish"}, NEW text \in Seq(Letters),
           IF depth = 0 THEN Hear(text) ELSE UNCHANGED <<kept, said>>
    PROVE  kept' = kept \o Outside(depth, text)
<1>1. kept \in Seq(Letters)
  BY DEF FilterInv, FilterTypes
<1>2. kept \o <<>> = kept
  BY <1>1, ConcatEmptySeq
<1> QED
  BY <1>2 DEF Hear, Outside

LEMMA ScanMarkerFilters == ASSUME FilterInv, ScanMarker PROVE FilterInv'
<1> USE DEF FilterInv
<1> DEFINE i == CHOOSE j \in Marks(unfiltered) : \A k \in Marks(unfiltered) : j <= k
<1> DEFINE opens == Starts(unfiltered, i, Open)
<1> DEFINE n == IF opens THEN i + 1 ELSE i + 2
<1>1. /\ step = "scan" /\ Marks(unfiltered) # {} /\ raw' = raw /\ step' = "scan"
      /\ unfiltered \in Seq(Letters) /\ raw \in Seq(Letters) /\ depth \in Nat /\ kept \in Seq(Letters)
      /\ Len(unfiltered) \in Nat /\ Len(raw) \in Nat /\ Len(unfiltered) <= Len(raw)
  BY LenProperties DEF ScanMarker, FilterTypes, Waiting
<1>2. i \in Marks(unfiltered) /\ \A k \in Marks(unfiltered) : i <= k
  <2>1. Marks(unfiltered) \subseteq Nat
    BY <1>1 DEF Marks
  <2>2. \E j \in Marks(unfiltered) : \A k \in Marks(unfiltered) : j <= k
    BY <1>1, <2>1, HasLeast
  <2> QED
    BY <2>2
<1>3. /\ unfiltered' = After(unfiltered, i)
      /\ IF depth = 0 THEN Hear(SubSeq(unfiltered, 1, i - 1)) ELSE UNCHANGED <<kept, said>>
      /\ depth' = IF opens THEN depth + 1 ELSE IF depth = 0 THEN 0 ELSE depth - 1
  BY DEF ScanMarker
<1> HIDE DEF i
<1>4. /\ i \in 1..Len(unfiltered)
      /\ opens \/ Starts(unfiltered, i, Close)
      /\ n \in 0..Len(unfiltered) /\ i \in Nat \ {0} /\ i - 1 \in 0..Len(unfiltered)
  <2>1. i \in 1..Len(unfiltered) /\ (opens \/ Starts(unfiltered, i, Close)) /\ i \in Nat \ {0}
    BY <1>1, <1>2, MarksByLetters DEF Marks
  <2>2. opens => i + 1 <= Len(unfiltered)
    BY <1>1, <2>1, StartsByLetters
  <2>3. Starts(unfiltered, i, Close) => i + 2 <= Len(unfiltered)
    BY <1>1, <2>1, StartsByLetters
  <2> HIDE DEF opens
  <2> QED
    BY <1>1, <2>1, <2>2, <2>3
<1>5. unfiltered' = SubSeq(unfiltered, n + 1, Len(unfiltered))
  <2>1. i + (IF opens THEN Len(Open) ELSE Len(Close)) = n + 1
    BY <1>4, MarkerLengths
  <2> QED
    BY <1>3, <2>1 DEF After
<1>6. /\ opens => depth' = Deeper(depth, TRUE)
      /\ ~opens => depth' = Deeper(depth, FALSE)
      /\ depth' \in Nat
  BY <1>1, <1>3 DEF Deeper
<1>7. /\ unfiltered' \in Seq(Letters) /\ Len(unfiltered') <= Len(raw') /\ Filtered' = Filtered + n
      /\ unfiltered' = SubSeq(raw', Filtered' + 1, Len(raw'))
  BY <1>1, <1>4, <1>5, WaitsStill
<1>8. SubSeq(unfiltered, 1, i - 1) \in Seq(Letters)
  <2>1. Window(unfiltered, 0, unfiltered)
    BY <1>1 DEF Window
  <2> QED
    BY <1>4, <2>1, WindowPart
<1>9. kept' = kept \o Outside(depth, SubSeq(unfiltered, 1, i - 1))
  BY <1>1, <1>3, <1>8, HearKeeps
<1>10. ASSUME NEW rest \in Seq(Letters)
       PROVE  kept' \in Seq(Letters) /\ Clean(raw \o rest) = kept' \o LeftFrom(raw \o rest)[Filtered + n + 1][depth']
  <2>1. PICK t : t = raw \o rest
    OBVIOUS
  <2>2. Window(t, Filtered, unfiltered) /\ Filtered + Len(unfiltered) = Len(raw)
    BY <2>1, WaitingIsWindow
  <2>3. PICK p \in Nat : p = Filtered
    BY <2>2 DEF Window
  <2>4. Window(t, p, unfiltered) /\ t \in Seq(Letters) /\ Len(t) \in Nat /\ p + Len(unfiltered) <= Len(t)
    BY <2>2, <2>3, LenProperties DEF Window
  <2>5. \A j \in (p + 1)..(p + i - 1) : j \notin Marks(t)
    BY <1>2, <2>4, FirstMarkIsFirst
  <2>6. p + (i - 1) = p + i - 1 /\ p + (i - 1) + 1 = p + i /\ p + i \in 1..(Len(t) + 1)
    BY <1>1, <1>4, <2>4
  <2>7. /\ kept \o Outside(depth, SubSeq(unfiltered, 1, i - 1)) \in Seq(Letters)
        /\ Clean(t) = (kept \o Outside(depth, SubSeq(unfiltered, 1, i - 1))) \o LeftFrom(t)[p + (i - 1) + 1][depth]
    BY <1>1, <1>4, <2>1, <2>3, <2>5, <2>6, PassingLetters
  <2>8. LeftFrom(t)[p + i][depth] = LeftFrom(t)[p + n + 1][depth']
    <3> DEFINE q == p + i
    <3>0. q \in 1..(Len(t) + 1) /\ t \in Seq(Letters) /\ depth \in Nat
      BY <1>1, <2>4, <2>6
    <3>1. CASE opens
      <4>1. Starts(t, q, Open)
        BY <1>4, <2>4, <3>1, MarksInWindow
      <4>2. p + n + 1 = q + 2 /\ depth' = Deeper(depth, TRUE)
        BY <1>4, <1>6, <3>1
      <4> HIDE DEF q
      <4>3. LeftFrom(t)[q][depth] = LeftFrom(t)[q + 2][Deeper(depth, TRUE)]
        BY <3>0, <4>1, LeftFromCases
      <4> QED
        BY <4>2, <4>3 DEF q
    <3>2. CASE ~opens
      <4>1. Starts(t, q, Close)
        BY <1>4, <2>4, <3>2, MarksInWindow
      <4>2. p + n + 1 = q + 3 /\ depth' = Deeper(depth, FALSE)
        <5>1. n = i + 2 /\ depth' = Deeper(depth, FALSE)
          BY <1>6, <3>2
        <5>2. p + (i + 2) + 1 = p + i + 3
          BY <1>4
        <5> QED
          BY <5>1, <5>2, Zenon
      <4> HIDE DEF q
      <4>3. LeftFrom(t)[q][depth] = LeftFrom(t)[q + 3][Deeper(depth, FALSE)]
        BY <3>0, <4>1, LeftFromCases
      <4> QED
        BY <4>2, <4>3 DEF q
    <3> QED
      BY <3>1, <3>2
  <2> QED
    BY <1>9, <2>1, <2>3, <2>6, <2>7, <2>8
<1>11. FilterTypes'
  <2>1. <<>> \in Seq(Letters)
    BY EmptySeq
  <2>2. kept' \in Seq(Letters)
    BY <1>10, <2>1
  <2>3. raw # <<>>
    BY <1>1, <1>4, EmptySeq
  <2> QED
    BY <1>1, <1>6, <1>7, <2>2, <2>3 DEF FilterTypes
<1>12. Waiting'
  BY <1>1, <1>7 DEF Waiting
<1>13. Promised'
  <2>1. ASSUME NEW rest \in Seq(Letters) PROVE KeptAhead(rest)'
    BY <1>1, <1>7, <1>10 DEF KeptAhead
  <2> QED
    BY <1>1, <2>1 DEF Promised
<1>14. CutsDoNotMatter'
  BY <1>1 DEF CutsDoNotMatter
<1> QED
  BY <1>11, <1>12, <1>13, <1>14

LEMMA ScanRestFilters == ASSUME FilterInv, ScanRest PROVE FilterInv'
<1> USE DEF FilterInv
<1> DEFINE safe == Len(unfiltered) - Keep(unfiltered)
<1>1. /\ step = "scan" /\ Marks(unfiltered) = {} /\ raw' = raw /\ depth' = depth /\ step' \in {"read", "finish"}
      /\ unfiltered \in Seq(Letters) /\ raw \in Seq(Letters) /\ depth \in Nat /\ kept \in Seq(Letters)
      /\ Len(unfiltered) \in Nat /\ Len(raw) \in Nat /\ Len(unfiltered) <= Len(raw)
  BY LenProperties DEF ScanRest, FilterTypes, Waiting
<1>2. /\ unfiltered' = SubSeq(unfiltered, safe + 1, Len(unfiltered))
      /\ IF depth = 0 THEN Hear(SubSeq(unfiltered, 1, safe)) ELSE UNCHANGED <<kept, said>>
      /\ removed' = (removed \/ (depth > 0 /\ safe > 0))
  BY DEF ScanRest
<1>3. safe \in 0..Len(unfiltered)
  <2>1. Keep(unfiltered) \in 0..Len(unfiltered)
    BY <1>1, KeepIsLongest
  <2> QED
    BY <1>1, <2>1
<1>4. /\ unfiltered' \in Seq(Letters) /\ Len(unfiltered') <= Len(raw') /\ Filtered' = Filtered + safe
      /\ unfiltered' = SubSeq(raw', Filtered' + 1, Len(raw')) /\ Marks(unfiltered') = {}
  BY <1>1, <1>2, <1>3, WaitsStill
<1>5. SubSeq(unfiltered, 1, safe) \in Seq(Letters)
  <2>1. Window(unfiltered, 0, unfiltered)
    BY <1>1 DEF Window
  <2> QED
    BY <1>3, <2>1, WindowPart
<1>6. kept' = kept \o Outside(depth, SubSeq(unfiltered, 1, safe))
  BY <1>1, <1>2, <1>5, HearKeeps
<1>7. ASSUME NEW rest \in Seq(Letters)
      PROVE  kept' \in Seq(Letters) /\ Clean(raw \o rest) = kept' \o LeftFrom(raw \o rest)[Filtered + safe + 1][depth]
  <2>1. Window(raw \o rest, Filtered, unfiltered)
    BY WaitingIsWindow
  <2>2. \A j \in (Filtered + 1)..(Filtered + safe) : j \notin Marks(raw \o rest)
    BY <1>1, <2>1, RestBeginsNothing
  <2> HIDE DEF safe
  <2> QED
    BY <1>1, <1>3, <1>6, <2>2, PassingLetters
<1>8. FilterTypes'
  <2>1. <<>> \in Seq(Letters)
    BY EmptySeq
  <2>2. kept' \in Seq(Letters)
    BY <1>7, <2>1
  <2>3. removed' => raw # <<>>
    <3>1. safe > 0 => raw # <<>>
      BY <1>1, <1>3, EmptySeq
    <3> QED
      BY <1>2, <3>1 DEF FilterTypes
  <2> QED
    BY <1>1, <1>4, <2>2, <2>3 DEF FilterTypes
<1>9. Waiting'
  BY <1>1, <1>4 DEF Waiting
<1>10. Promised'
  <2>1. ASSUME NEW rest \in Seq(Letters) PROVE KeptAhead(rest)'
    BY <1>1, <1>4, <1>7 DEF KeptAhead
  <2> QED
    BY <1>1, <2>1 DEF Promised
<1>11. CutsDoNotMatter'
  BY <1>1 DEF CutsDoNotMatter
<1> QED
  BY <1>8, <1>9, <1>10, <1>11

LEMMA PassingOfAll ==
    ASSUME FilterInv, step = "finish", \A j \in (Filtered + 1)..(Filtered + Len(unfiltered)) : j \notin Marks(raw)
    PROVE  /\ kept \o Outside(depth, unfiltered) \in Seq(Letters)
           /\ Clean(raw) = (kept \o Outside(depth, unfiltered)) \o LeftFrom(raw)[Filtered + Len(unfiltered) + 1][depth]
<1>1. raw \in Seq(Letters) /\ unfiltered \in Seq(Letters) /\ raw \o <<>> = raw /\ <<>> \in Seq(Letters)
  BY ConcatEmptySeq, EmptySeq DEF FilterInv, FilterTypes
<1>2. PICK n \in 0..Len(unfiltered) : n = Len(unfiltered) /\ SubSeq(unfiltered, 1, n) = unfiltered
  BY <1>1, LenProperties, SubSeqFull
<1>3. PICK rest \in Seq(Letters) : rest = <<>> /\ raw \o rest = raw
  BY <1>1
<1>4. \A j \in (Filtered + 1)..(Filtered + n) : j \notin Marks(raw \o rest)
  BY <1>2, <1>3
<1>5. /\ kept \o Outside(depth, SubSeq(unfiltered, 1, n)) \in Seq(Letters)
      /\ Clean(raw \o rest) = (kept \o Outside(depth, SubSeq(unfiltered, 1, n)))
                                  \o LeftFrom(raw \o rest)[Filtered + n + 1][depth]
  BY <1>4, PassingLetters DEF FilterInv
<1> QED
  BY <1>2, <1>3, <1>5

LEMMA FinishFilters == ASSUME FilterInv, Finish PROVE FilterInv'
<1> USE DEF FilterInv
<1> DEFINE n == Len(unfiltered)
<1>1. /\ step = "finish" /\ Marks(unfiltered) = {} /\ raw' = raw /\ depth' = depth /\ step' = "reply"
      /\ unfiltered \in Seq(Letters) /\ raw \in Seq(Letters) /\ depth \in Nat /\ kept \in Seq(Letters)
      /\ n \in Nat /\ Len(raw) \in Nat /\ n <= Len(raw)
  BY LenProperties DEF Finish, FilterTypes, Waiting
<1>2. /\ unfiltered' = <<>>
      /\ IF depth = 0 THEN Hear(unfiltered) ELSE UNCHANGED <<kept, said>>
      /\ removed' = (removed \/ (depth > 0 /\ unfiltered # <<>>))
  BY DEF Finish
<1>3. kept' = kept \o Outside(depth, unfiltered)
  BY <1>1, <1>2, HearKeeps
<1>4. SubSeq(unfiltered, 1, n) = unfiltered /\ <<>> \in Seq(Letters) /\ raw \o <<>> = raw /\ Len(<<>>) = 0
  BY <1>1, SubSeqFull, ConcatEmptySeq, EmptySeq
<1>5. Window(raw, Filtered, unfiltered) /\ Filtered + n = Len(raw) /\ Filtered \in Nat
  <2>1. Window(raw \o <<>>, Filtered, unfiltered) /\ Filtered + n = Len(raw)
    BY <1>4, WaitingIsWindow
  <2> QED
    BY <1>4, <2>1 DEF Window
<1>6. \A j \in (Filtered + 1)..(Filtered + n) : j \notin Marks(raw)
  <2> SUFFICES ASSUME NEW p \in Nat, p = Filtered, NEW k \in 1..n PROVE p + k \notin Marks(raw)
    <3>1. PICK p \in Nat : p = Filtered
      BY <1>5
    <3>2. ASSUME NEW j \in (p + 1)..(p + n) PROVE j - p \in 1..n /\ p + (j - p) = j
      BY <1>1
    <3> QED
      BY <3>1, <3>2
  <2>1. Window(raw, p, unfiltered) /\ p + n = Len(raw) /\ p + k \in Nat \ {0} /\ k \in Nat \ {0}
    BY <1>1, <1>5
  <2>2. ~Starts(unfiltered, k, Open) /\ ~Starts(unfiltered, k, Close)
    BY <1>1, <2>1, MarksByLetters
  <2>3. k = n => ~Starts(raw, p + k, Open) /\ ~Starts(raw, p + k, Close)
    BY <1>1, <2>1, StartsByLetters
  <2>4. k = n - 1 => ~Starts(raw, p + k, Close)
    BY <1>1, <2>1, StartsByLetters
  <2>5. ~Starts(raw, p + k, Open) /\ ~Starts(raw, p + k, Close)
    BY <2>1, <2>2, <2>3, <2>4, MarksInWindow
  <2> QED
    BY <1>1, <2>1, <2>5, MarksByLetters
<1>7. kept' \in Seq(Letters) /\ Clean(raw) = kept' \o LeftFrom(raw)[Filtered + n + 1][depth]
  BY <1>1, <1>3, <1>6, PassingOfAll
<1>8. kept' = Clean(raw)
  <2>1. LeftFrom(raw)[Len(raw) + 1][depth] = <<>>
    <3>1. Len(raw) + 1 \in 1..(Len(raw) + 1)
      BY <1>1
    <3> QED
      BY <1>1, <3>1, LeftFromCases
  <2> QED
    BY <1>5, <1>7, <2>1, ConcatEmptySeq
<1>9. FilterTypes'
  <2>1. removed' => raw # <<>>
    <3>1. unfiltered # <<>> => raw # <<>>
      BY <1>1, <1>4, EmptySeq
    <3> QED
      BY <1>2, <3>1 DEF FilterTypes
  <2> QED
    BY <1>1, <1>2, <1>4, <1>7, <2>1 DEF FilterTypes
<1>10. Waiting'
  <2>1. Len(unfiltered') = 0 /\ Filtered' = Len(raw)
    BY <1>1, <1>2, <1>4 DEF Filtered
  <2>2. SubSeq(raw, Len(raw) + 1, Len(raw)) = <<>>
    BY <1>1, SubSeqEmpty
  <2> QED
    BY <1>1, <1>2, <2>1, <2>2 DEF Waiting
<1>11. Promised' /\ CutsDoNotMatter'
  BY <1>1, <1>8 DEF Promised, CutsDoNotMatter
<1> QED
  BY <1>9, <1>10, <1>11

\* A frame: what it carries was the beginning of what comes after.
LEMMA ReadFrameFilters == ASSUME FilterInv, ReadFrame PROVE FilterInv'
<1> USE DEF FilterInv
<1>1. PICK n \in 0..MaxChunk : \E chunk \in [1..n -> Letters] : raw' = raw \o chunk /\ unfiltered' = unfiltered \o chunk
  BY DEF ReadFrame
<1>2. PICK chunk \in [1..n -> Letters] : raw' = raw \o chunk /\ unfiltered' = unfiltered \o chunk
  BY <1>1
<1>3. chunk \in Seq(Letters)
  <2>1. n \in Nat
    BY OutputAssumption
  <2> QED
    BY <2>1
<1>4. /\ step = "read" /\ step' = "scan" /\ depth' = depth /\ kept' = kept /\ removed' = removed
      /\ unfiltered \in Seq(Letters) /\ raw \in Seq(Letters) /\ depth \in Nat /\ kept \in Seq(Letters)
      /\ Len(unfiltered) \in Nat /\ Len(raw) \in Nat /\ Len(unfiltered) <= Len(raw)
  BY LenProperties DEF ReadFrame, FilterTypes, Waiting, replyVars
<1>5. Filtered \in Nat /\ Filtered + Len(unfiltered) = Len(raw)
  <2>1. Window(raw \o <<>>, Filtered, unfiltered) /\ Filtered + Len(unfiltered) = Len(raw)
    BY WaitingIsWindow, EmptySeq
  <2> QED
    BY <2>1 DEF Window
<1>6. PICK p \in Nat : p = Filtered
  BY <1>5
<1>7. EndOf(raw, p, unfiltered)
  BY <1>5, <1>6 DEF Waiting, EndOf
<1>8. /\ raw \o chunk \in Seq(Letters) /\ unfiltered \o chunk \in Seq(Letters)
      /\ EndOf(raw \o chunk, p, unfiltered \o chunk)
  <2>1. PICK c \in Seq(Letters) : c = chunk
    BY <1>3
  <2>2. raw \o c \in Seq(Letters) /\ unfiltered \o c \in Seq(Letters) /\ EndOf(raw \o c, p, unfiltered \o c)
    BY <1>4, <1>7, WindowGrows
  <2> QED
    BY <2>1, <2>2
<1>9. Filtered' = p /\ Len(unfiltered') <= Len(raw')
  <2> DEFINE lr == Len(raw')
  <2> DEFINE lu == Len(unfiltered')
  <2>1. lr \in Nat /\ lu \in Nat /\ p + lu = lr
    BY <1>2, <1>8, LenProperties DEF EndOf
  <2>2. Filtered' = lr - lu
    BY DEF Filtered
  <2> HIDE DEF lr, lu
  <2>3. lr - lu = p /\ lu <= lr
    BY <2>1
  <2> QED
    BY <2>2, <2>3 DEF lr, lu
<1>10. FilterTypes'
  <2>1. raw # <<>> => raw' # <<>>
    BY <1>2, <1>3, <1>4, ConcatEqualIffEmpty
  <2> QED
    BY <1>2, <1>4, <1>8, <2>1 DEF FilterTypes
<1>11. Waiting'
  BY <1>2, <1>4, <1>8, <1>9 DEF Waiting, EndOf
<1>12. Promised'
  <2>1. ASSUME NEW rest \in Seq(Letters) PROVE KeptAhead(rest)'
    <3>a. raw \in Seq(Letters) /\ chunk \in Seq(Letters)
      BY <1>3, <1>4
    <3>b. raw \o (chunk \o rest) = (raw \o chunk) \o rest
      BY <3>a, TextsAssociate, Zenon
    <3>1. chunk \o rest \in Seq(Letters) /\ raw \o (chunk \o rest) = (raw \o chunk) \o rest
      BY <3>a, <3>b, ConcatProperties, Zenon
    <3>2. KeptAhead(chunk \o rest)
      BY <1>4, <3>1 DEF Promised
    <3> QED
      BY <1>2, <1>4, <1>6, <1>9, <3>1, <3>2 DEF KeptAhead
  <2> QED
    BY <1>4, <2>1 DEF Promised
<1>13. CutsDoNotMatter'
  BY <1>4 DEF CutsDoNotMatter
<1> QED
  BY <1>10, <1>11, <1>12, <1>13

LEMMA ReplyFiltersFilters == ASSUME FilterInv, ReplyFilters PROVE FilterInv'
<1>1. /\ step = "reply" /\ step' = "complete" /\ UNCHANGED <<raw, unfiltered, depth, removed, guard>>
      /\ kept' = IF guard = "replaced" /\ Left # <<>> THEN Acknowledgement ELSE Left
      /\ kept \in Seq(Letters) /\ kept = Clean(raw)
      /\ removed => raw # <<>>
  BY DEF ReplyFilters, filterVars, FilterInv, FilterTypes, Promised
<1>2. kept # Fallback /\ Acknowledgement # Fallback /\ Fallback # <<>>
  <2>1. Fallback[1] = "sorry" /\ Len(Fallback) = 1
    BY DEF Fallback
  <2>3. Acknowledgement[1] = "I'll see what I can make for you"
    BY DEF Acknowledgement
  <2>4. "I'll see what I can make for you" # "sorry"
    OBVIOUS
  <2>5. "sorry" \notin Letters
    BY DEF Letters
  <2>2. ASSUME Len(kept) = 1 PROVE kept[1] \in Letters
    <3>1. kept \in Seq(Letters)
      BY <1>1
    <3>2. 1 \in 1..Len(kept)
      BY <2>2
    <3> QED
      BY <3>1, <3>2, ElementOfSeq
  <2>6. Fallback # <<>>
    BY DEF Fallback
  <2> QED
    BY <2>1, <2>2, <2>3, <2>4, <2>5, <2>6
<1>3. CutsDoNotMatter'
  BY <1>1, <1>2 DEF CutsDoNotMatter, Left
<1>4. FilterTypes'
  BY <1>1 DEF FilterInv, FilterTypes
<1>5. Waiting'
  BY <1>1 DEF FilterInv, Waiting, Filtered
<1>6. Promised'
  BY <1>1 DEF Promised
<1> QED
  BY <1>3, <1>4, <1>5, <1>6 DEF FilterInv

\* The other steps leave the filter and the reply alone.
LEMMA OtherStepsFilter ==
    ASSUME FilterInv, UNCHANGED <<raw, unfiltered, depth, removed, kept, guard>>,
           \/ step' = step
           \/ step' \in {"failed", "discarded"}
           \/ step = "read" /\ step' = "finish"
           \/ step = "complete" /\ step' = "completed"
    PROVE  FilterInv'
<1>1. Filtered' = Filtered
  BY DEF Filtered
<1>2. FilterTypes'
  BY DEF FilterInv, FilterTypes
<1>3. Waiting'
  BY <1>1 DEF FilterInv, Waiting
<1>4. ASSUME NEW rest \in Seq(Letters), KeptAhead(rest) PROVE KeptAhead(rest)'
  BY <1>1, <1>4 DEF KeptAhead
<1>5. Promised'
  BY <1>4 DEF FilterInv, Promised
<1>6. CutsDoNotMatter'
  BY DEF FilterInv, CutsDoNotMatter
<1> QED
  BY <1>2, <1>3, <1>5, <1>6 DEF FilterInv

LEMMA FilterStays == ASSUME FilterInv, [OutputNext]_outputVars PROVE FilterInv'
<1>1. CASE StreamFails \/ ResponseEnds \/ Complete
  BY <1>1, OtherStepsFilter DEF StreamFails, ResponseEnds, EndsEarly, Complete, GoTo, filterVars, replyVars
<1>2. CASE CancelRow \/ CancelToken \/ UNCHANGED outputVars
  BY <1>2, OtherStepsFilter DEF CancelRow, CancelToken, outputVars, filterVars, replyVars
<1> QED
  BY <1>1, <1>2, ScanMarkerFilters, ScanRestFilters, FinishFilters, ReadFrameFilters, ReplyFiltersFilters
  DEF OutputNext

-----------------------------------------------------------------------------
(* What is said.  Until the reply is filtered, a reply that is not held back *)
(* says what it keeps; and it is finished by its provider, or was cancelled. *)

Telling ==
    guard = "none" /\ step \in {"read", "scan", "finish", "reply"} => said = kept

Provided ==
    /\ token => cancelRow
    /\ step \in {"finish", "reply", "complete"} => sawDone \/ cancelRow

OutputInv == Telling /\ SaidIsKept /\ Provided /\ KeptIsWhole

LEMMA OutputInitially == ASSUME OutputInit PROVE OutputInv
BY DEF OutputInit, OutputInv, Telling, SaidIsKept, Provided, KeptIsWhole

\* The steps that write down what is kept.
LEMMA FilterSteps == ASSUME OutputInv, ScanMarker \/ ScanRest \/ Finish PROVE OutputInv'
<1>1. Telling'
  <2>1. (\E heard : Hear(heard)) \/ UNCHANGED <<kept, said>>
    BY DEF ScanMarker, ScanRest, Finish
  <2>2. guard' = guard /\ step \in {"scan", "finish"}
    BY DEF ScanMarker, ScanRest, Finish
  <2> QED
    BY <2>1, <2>2 DEF OutputInv, Telling, Hear
<1>2. SaidIsKept'
  BY DEF ScanMarker, ScanRest, Finish, SaidIsKept
<1>3. Provided' /\ KeptIsWhole'
  BY DEF OutputInv, Provided, KeptIsWhole, ScanMarker, ScanRest, Finish, cancelVars
<1> QED
  BY <1>1, <1>2, <1>3 DEF OutputInv

LEMMA ReplySteps == ASSUME OutputInv, ReplyFilters \/ Complete PROVE OutputInv'
<1>1. CASE ReplyFilters
  <2>1. SaidIsKept'
    <3>1. said' = kept'
      <4>1. CASE guard # "none" \/ said = <<>>
        BY <4>1, <1>1 DEF ReplyFilters
      <4>2. CASE guard = "none" /\ said # <<>>
        <5>1. said = kept
          BY <4>2, <1>1 DEF OutputInv, Telling, ReplyFilters
        <5> QED
          BY <5>1, <4>2, <1>1 DEF ReplyFilters, Left
      <4> QED
        BY <4>1, <4>2
    <3>2. guard' = "replaced" => kept' \in {Acknowledgement, <<>>}
      BY <1>1 DEF ReplyFilters
    <3> QED
      BY <3>1, <3>2 DEF SaidIsKept
  <2> QED
    BY <2>1, <1>1 DEF OutputInv, Telling, Provided, KeptIsWhole, ReplyFilters, cancelVars
<1>2. CASE Complete
  BY <1>2 DEF OutputInv, Telling, SaidIsKept, Provided, KeptIsWhole, Complete, GoTo, replyVars, cancelVars
<1> QED
  BY <1>1, <1>2

LEMMA OutputStays == ASSUME OutputInv, [OutputNext]_outputVars PROVE OutputInv'
<1>1. CASE ReadFrame \/ StreamFails \/ ResponseEnds
  BY <1>1 DEF OutputInv, Telling, SaidIsKept, Provided, KeptIsWhole, ReadFrame, StreamFails, ResponseEnds, EndsEarly,
              GoTo, replyVars, cancelVars
<1>2. CASE CancelRow \/ CancelToken
  BY <1>2 DEF OutputInv, Telling, SaidIsKept, Provided, KeptIsWhole, CancelRow, CancelToken, replyVars
<1>3. CASE UNCHANGED outputVars
  BY <1>3 DEF OutputInv, Telling, SaidIsKept, Provided, KeptIsWhole, outputVars, replyVars, cancelVars
<1> QED
  BY <1>1, <1>2, <1>3, FilterSteps, ReplySteps DEF OutputNext

\* Whatever the model writes, however it is cut into frames and whenever the
\* owner cancels: the reply is what is left of the whole text, and is said to be
\* gone only when nothing is left; what was said of it before its end is the
\* reply; and a reply that is kept was finished by its provider
\* (PersonaOutputStreamFilter, OllamaChatProvider.stream, TurnPipeline.generate,
\* JobService._complete).
THEOREM RepliesAreAsTold == OutputSpec => []OutputInvariant
<1>1. OutputInv /\ FilterInv => OutputInvariant
  BY DEF OutputInv, FilterInv, OutputInvariant
<1>2. OutputSpec => []OutputInv
  BY OutputInitially, OutputStays, PTL DEF OutputSpec
<1>3. OutputSpec => []FilterInv
  BY FilterInitially, FilterStays, PTL DEF OutputSpec
<1> QED
  BY <1>1, <1>2, <1>3, PTL

-----------------------------------------------------------------------------
(* Places.  What a handler has read to save has its home among its links, so *)
(* that what it writes over rows nobody changed has it too.                  *)

Places == Workspaces \cup {"none"}
Personas == [state : {"none", "live", "gone"}, home : Places, links : SUBSET Workspaces]
Bindings == [state : {"none", "live", "gone"}, workspace : Places, persona : BOOLEAN]

PlacesTypes ==
    /\ workspace \subseteq Workspaces
    /\ persona \in Personas
    /\ chat \in Bindings
    /\ avatar \in [kind : {"none", "address", "copy"}, image : Images \cup {"none"}]
    /\ stored \in Images \cup {"none"}
    /\ pending.op = "save" => pending.home \in pending.links

PlacesInv == PlacesTypes /\ HomeIsLinked

LEMMA PlacesInitially == ASSUME WorkspaceInit PROVE PlacesInv
<1>1. persona \in Personas /\ chat \in Bindings /\ persona.state = "none"
  BY DEF WorkspaceInit, NoPersona, NoChat, Personas, Bindings, Places
<1> QED
  BY <1>1 DEF WorkspaceInit, PlacesInv, PlacesTypes, HomeIsLinked, NoAvatar, NotPending, Alive

\* Deleting a workspace takes along the persona at home there, and no other one
\* loses its home.
LEMMA GoneKeepsPlaces ==
    ASSUME PlacesInv, NEW w \in Workspaces, WorkspaceGone(w)
    PROVE  /\ workspace' \subseteq Workspaces /\ persona' \in Personas /\ chat' \in Bindings
           /\ Alive' => Alive /\ persona'.home = persona.home /\ (persona.home \in persona.links => persona'.home \in persona'.links)
           /\ chat'.workspace \in {chat.workspace, "none"} /\ (chat'.persona => chat.persona)
           /\ chat'.workspace # chat.workspace => chat.workspace = w
<1> USE DEF PlacesInv, PlacesTypes
<1>1. CASE Alive /\ persona.home = w
  <2>1. persona' \in Personas /\ persona'.state = "gone"
    BY <1>1 DEF WorkspaceGone, NoPersona, Personas, Places
  <2> QED
    BY <1>1, <2>1 DEF WorkspaceGone, Alive, Bindings, Places
<1>2. CASE ~(Alive /\ persona.home = w)
  <2>1. persona' \in Personas /\ persona'.state = persona.state /\ persona'.home = persona.home
        /\ persona'.links = persona.links \ {w}
    BY <1>2 DEF WorkspaceGone, Personas
  <2> QED
    BY <1>2, <2>1 DEF WorkspaceGone, Alive, Bindings, Places
<1> QED
  BY <1>1, <1>2

LEMMA DeleteKeepsPlaces ==
    ASSUME PlacesInv, NEW w \in Workspaces, DeleteWorkspace(w)
    PROVE  PlacesInv' /\ (chat'.workspace # chat.workspace => overlapped')
<1>1. WorkspaceGone(w)
  BY DEF DeleteWorkspace
<1>2. overlapped => overlapped'
  BY DEF DeleteWorkspace
<1>3. PlacesTypes'
  BY <1>1, GoneKeepsPlaces DEF PlacesInv, PlacesTypes, DeleteWorkspace, NotPending
<1>4. HomeIsLinked'
  BY <1>1, <1>2, GoneKeepsPlaces DEF PlacesInv, HomeIsLinked
<1>5. chat'.workspace # chat.workspace => overlapped'
  BY <1>1, GoneKeepsPlaces DEF DeleteWorkspace, Empty
<1> QED
  BY <1>3, <1>4, <1>5 DEF PlacesInv

LEMMA SaveKeepsPlaces ==
    ASSUME PlacesInv, NEW home \in Workspaces, NEW links \in SUBSET Workspaces, SavePersona(home, links)
    PROVE  PlacesInv'
<1> USE DEF PlacesInv, PlacesTypes
<1>1. CASE pending.op = "save" /\ pending' = NotPending
  <2>1. Saved(pending.persona, home, links) /\ pending.links = links /\ pending.home = home
        /\ overlapped' = (overlapped \/ pending.persona # persona)
    BY <1>1 DEF SavePersona, NotPending
  <2>2. persona' \in Personas
    BY <2>1 DEF Saved, Personas, Places
  <2>3. HomeIsLinked'
    BY <1>1, <2>1 DEF Saved, HomeIsLinked
  <2> QED
    BY <1>1, <2>2, <2>3 DEF SavePersona, NotPending
<1>2. CASE Saved(persona, home, WithHome(home, links)) /\ UNCHANGED <<pending, overlapped>>
  BY <1>2 DEF SavePersona, Saved, WithHome, HomeIsLinked, Personas, Places
<1> QED
  BY <1>1, <1>2 DEF SavePersona

\* What the other handlers leave as it was.
LEMMA OthersKeepPlaces ==
    ASSUME PlacesInv,
           \/ \E w \in Workspaces : BeginDelete(w) \/ UpdateChat(w)
           \/ \E home \in Workspaces, links \in SUBSET Workspaces : BeginSave(home, links)
           \/ SaveUndone \/ DeleteThePersona \/ Remember \/ SnapshotAvatar
           \/ \E image \in Images : PasteAvatar(image)
           \/ \E w \in Workspaces \cup {"none"}, withPersona \in BOOLEAN : CreateChat(w, withPersona)
           \/ DeleteTheChat
           \/ UNCHANGED workspaceVars
    PROVE  /\ PlacesInv'
           /\ chat.state = "live" /\ chat'.state = "live" =>
                /\ chat'.workspace = chat.workspace
                /\ chat'.persona => chat.persona
<1> USE DEF PlacesInv, PlacesTypes, HomeIsLinked
<1>1. ASSUME NEW w \in Workspaces, BeginDelete(w) \/ UpdateChat(w)
      PROVE  PlacesInv' /\ chat' = chat
  BY <1>1 DEF BeginDelete, UpdateChat, Rebinds, NotPending, Alive
<1>2. ASSUME NEW home \in Workspaces, NEW links \in SUBSET Workspaces, BeginSave(home, links)
      PROVE  PlacesInv' /\ chat' = chat
  BY <1>2 DEF BeginSave, WithHome, Alive
<1>3. ASSUME SaveUndone \/ Remember \/ UNCHANGED workspaceVars PROVE PlacesInv' /\ chat' = chat
  BY <1>3 DEF SaveUndone, Remember, workspaceVars, NotPending, Alive
<1>4. ASSUME DeleteThePersona
      PROVE  PlacesInv' /\ chat'.workspace = chat.workspace /\ ~chat'.persona
  <2>1. persona' \in Personas /\ persona'.state = "gone"
    BY <1>4 DEF DeleteThePersona, NoPersona, Personas, Places
  <2>2. chat' \in Bindings /\ chat'.workspace = chat.workspace /\ ~chat'.persona
    BY <1>4 DEF DeleteThePersona, Bindings
  <2> QED
    BY <1>4, <2>1, <2>2 DEF DeleteThePersona, Alive
<1>5. ASSUME SnapshotAvatar \/ \E image \in Images : PasteAvatar(image)
      PROVE  PlacesInv' /\ chat' = chat
  <2>1. avatar.image \in Images \cup {"none"}
    OBVIOUS
  <2> QED
    BY <1>5, <2>1 DEF SnapshotAvatar, PasteAvatar, Copied, Alive
<1>6. ASSUME NEW w \in Workspaces \cup {"none"}, NEW withPersona \in BOOLEAN, CreateChat(w, withPersona)
      PROVE  PlacesInv' /\ chat.state = "none"
  BY <1>6 DEF CreateChat, Binding, MayBind, NoChat, Alive, Bindings, Personas, Places
<1>7. ASSUME DeleteTheChat PROVE PlacesInv' /\ chat'.state = "gone"
  <2>1. chat' \in Bindings /\ chat'.state = "gone"
    BY <1>7 DEF DeleteTheChat, NoChat, Bindings, Places
  <2> QED
    BY <1>7, <2>1 DEF DeleteTheChat, Alive
<1> QED
  BY <1>1, <1>2, <1>3, <1>4, <1>5, <1>6, <1>7

\* A chat is moved by nothing but the deletion of its workspace.
ChatMoves ==
    chat.state = "live" /\ chat'.state = "live" =>
        /\ chat'.workspace \in {chat.workspace, "none"} /\ (chat'.persona => chat.persona)
        /\ chat'.workspace # chat.workspace => overlapped'

LEMMA PlacesStay == ASSUME PlacesInv, [WorkspaceNext]_workspaceVars PROVE PlacesInv' /\ ChatMoves
<1>1. ASSUME NEW w \in Workspaces, DeleteWorkspace(w) PROVE PlacesInv' /\ ChatMoves
  <2>1. WorkspaceGone(w)
    BY <1>1 DEF DeleteWorkspace
  <2> QED
    BY <1>1, <2>1, DeleteKeepsPlaces, GoneKeepsPlaces DEF ChatMoves
<1>2. ASSUME NEW home \in Workspaces, NEW links \in SUBSET Workspaces, SavePersona(home, links)
      PROVE  PlacesInv' /\ ChatMoves
  BY <1>2, SaveKeepsPlaces DEF SavePersona, ChatMoves
<1> QED
  BY <1>1, <1>2, OthersKeepPlaces DEF WorkspaceNext, ChatMoves

\* For any workspaces: a persona is at home in a workspace of its own while its
\* handlers do not overlap, and no handler, overlapped or not, moves a chat to
\* another workspace or persona (resource_service.py, conversation_service.py).
THEOREM ChatsStayBound == WorkspaceSpec => PlacesHold
<1>1. PlacesInv => WorkspaceTypeOK /\ HomeIsLinked
  BY DEF PlacesInv, PlacesTypes, WorkspaceTypeOK, Personas, Bindings, Places
<1>2. PlacesInv /\ [WorkspaceNext]_workspaceVars => ChatMoves
  BY PlacesStay
<1>3. WorkspaceSpec => []PlacesInv
  BY PlacesInitially, PlacesStay, PTL DEF WorkspaceSpec
<1>4. WorkspaceSpec => [][ChatMoves]_workspaceVars
  BY <1>2, <1>3, PTL DEF WorkspaceSpec
<1> QED
  BY <1>1, <1>3, <1>4, PTL DEF PlacesHold, ChatStaysBound, ChatMoves

-----------------------------------------------------------------------------
(* Recordings.  As long as no two callers overlap and no crash cuts one off, *)
(* one caller moves files; what it has listed is in the hot directory until  *)
(* it moves it, and the file of a caller that has not listed is not listed.  *)

Moving(s) == speech[s].at \in {"rotating", "copied", "moved", "undone"}
Unwritten(s) == speech[s].at \in {"none", "asked", "listening", "ended"}
IsWritten(f) == \E i \in 1..Len(written) : written[i] = f
Kept(f) == f \in hot \cup archived \cup expired

SpeechTypes ==
    /\ SpeechTypeOK
    /\ expired \subseteq Speeches /\ twoVolumes \in BOOLEAN /\ disturbed \in BOOLEAN

\* A speech is written once, when all of it was read, and not before.
WrittenOnce ==
    /\ \A s \in Speeches : Unwritten(s) => ~IsWritten(s) /\ recordedIn[s] = "none" /\ ~Kept(s)
    /\ \A s \in Speeches : speech[s].at = "ended" => s \in whole
    /\ \A s \in Speeches : speech[s].at = "stored" \/ recordedIn[s] # "none" => IsWritten(s)
    /\ \A i, j \in 1..Len(written) : written[i] = written[j] => i = j
    /\ \A i \in 1..Len(written) : written[i] \in whole
    /\ \A s \in Speeches : speech[s].at = "copied" => twoVolumes

\* Nothing that was written is lost.
NothingLost == ~(twoVolumes /\ disturbed) => \A f \in Speeches : IsWritten(f) => Kept(f)

\* Where the file is that a caller is moving.
Underway(s) ==
    /\ speech[s].at \in {"copied", "moved", "undone"} => speech[s].files # {} /\ Oldest(s) \in hot \cup archived \cup expired
    /\ speech[s].at \in {"copied", "moved"} => Oldest(s) \in archived \cup expired
    /\ speech[s].at = "moved" => Oldest(s) \notin hot
    /\ speech[s].at \in {"moved", "undone"} => recordedIn[Oldest(s)] # "archive"
    /\ \A i \in speech[s].files :
          \/ written[i] \in hot
          \/ speech[s].at \in {"moved", "undone"} /\ i = OldestPlace(s)

Calm ==
    ~disturbed =>
        /\ \A s, t \in Speeches : Moving(s) /\ Moving(t) => s = t
        /\ \A s \in Speeches : Moving(s) => Underway(s)
        /\ \A s \in Speeches : speech[s].at = "stored" =>
              s \in hot /\ \A t \in Speeches : Moving(t) => \A i \in speech[t].files : written[i] # s
        /\ \A f \in Speeches : recordedIn[f] = "archive" => f \notin hot

SpeechInv == SpeechTypes /\ WrittenOnce /\ NothingLost /\ Calm /\ RowsReplay

LEMMA SpeechShape ==
    ASSUME SpeechInv, NEW s \in Speeches
    PROVE  /\ speech[s] \in [at : Steps, files : SUBSET (1..Len(written))]
           /\ speech[s].at \in Steps /\ speech[s].files \subseteq 1..Len(written)
           /\ \A a \in Steps : [speech[s] EXCEPT !.at = a] \in [at : Steps, files : SUBSET (1..Len(written))]
<1>1. written \in Seq(Speeches)
  BY DEF SpeechInv, SpeechTypes, SpeechTypeOK
<1>2. DOMAIN written = 1..Len(written)
  BY <1>1
<1> QED
  BY <1>2 DEF SpeechInv, SpeechTypes, SpeechTypeOK

LEMMA OldestIs ==
    ASSUME SpeechInv, NEW s \in Speeches, speech[s].files # {}
    PROVE  /\ OldestPlace(s) \in speech[s].files /\ OldestPlace(s) \in 1..Len(written)
           /\ Oldest(s) = written[OldestPlace(s)] /\ Oldest(s) \in Speeches /\ IsWritten(Oldest(s))
<1>1. speech[s].files \subseteq 1..Len(written) /\ written \in Seq(Speeches)
  BY SpeechShape DEF SpeechInv, SpeechTypes, SpeechTypeOK
<1>2. PICK i \in speech[s].files : \A j \in speech[s].files : i <= j
  <2> DEFINE files == speech[s].files
  <2>1. 1..Len(written) \subseteq Nat
    BY <1>1
  <2>2. files \subseteq Nat /\ files # {}
    BY <1>1, <2>1
  <2> HIDE DEF files
  <2>3. \E i \in files : \A j \in files : i <= j
    BY <2>2, HasLeast
  <2> QED
    BY <2>3 DEF files
<1>3. OldestPlace(s) \in speech[s].files
  BY <1>2, Zenon DEF OldestPlace
<1> QED
  BY <1>1, <1>3 DEF Oldest, IsWritten

\* As long as the files do not change, nor the listing, the oldest does not.
LEMMA SameOldest ==
    ASSUME NEW s \in Speeches, speech'[s].files = speech[s].files
    PROVE  OldestPlace(s)' = OldestPlace(s)
BY Zenon DEF OldestPlace

\* A move is of one file that was listed.
LEMMA ListedIsThere ==
    ASSUME SpeechInv, NEW s \in Speeches, Cardinality(speech[s].files) > HotLimit
    PROVE  speech[s].files # {}
<1>1. Cardinality({}) = 0
  BY FS_EmptySet
<1> QED
  BY <1>1, SpeechAssumption

\* What a step leaves where it was, when it writes nothing.
LEMMA SpeechFrame ==
    ASSUME SpeechInv, written' = written, NEW s \in Speeches, speech'[s].files = speech[s].files
    PROVE  OldestPlace(s)' = OldestPlace(s) /\ Oldest(s)' = Oldest(s)
BY SameOldest DEF Oldest

LEMMA SpeechInitially == SpeechInit => SpeechInv
<1> SUFFICES ASSUME SpeechInit PROVE SpeechInv
  OBVIOUS
<1>1. written = <<>> /\ Len(written) = 0 /\ written \in Seq(Speeches) /\ DOMAIN written = {}
  BY EmptySeq DEF SpeechInit
<1>2. \A s \in Speeches : speech[s] = NoSpeech /\ speech[s].at = "none" /\ speech[s].files = {}
  BY DEF SpeechInit, NoSpeech
<1>3. SpeechTypes
  BY <1>1, <1>2 DEF SpeechTypes, SpeechTypeOK, SpeechInit, NoSpeech, Steps
<1>4. WrittenOnce /\ NothingLost
  BY <1>1, <1>2 DEF WrittenOnce, NothingLost, Unwritten, IsWritten, Kept, SpeechInit
<1>5. Calm
  BY <1>1, <1>2 DEF Calm, Moving, Underway, SpeechInit
<1>6. RowsReplay
  BY DEF RowsReplay, SpeechInit
<1> QED
  BY <1>3, <1>4, <1>5, <1>6 DEF SpeechInv

\* A step of a reading, or the end of a rotation: no file is touched.
LEMMA ReadingKeeps ==
    ASSUME SpeechInv, NEW s \in Speeches,
           \/ Speak(s) \/ LookForListener(s) \/ ReadPiece(s) \/ Abandon(s) \/ RotationEnds(s)
    PROVE  SpeechInv'
<1>1. /\ written' = written /\ hot' = hot /\ archived' = archived /\ expired' = expired
      /\ recordedIn' = recordedIn /\ disturbed' = disturbed /\ twoVolumes' = twoVolumes /\ stranded' = stranded
  BY DEF Speak, LookForListener, ReadPiece, Abandon, RotationEnds, UnchangedFiles
<1>2. /\ abandoned' \subseteq Speeches
      /\ whole \subseteq whole' /\ whole' \subseteq Speeches
  BY DEF Speak, LookForListener, ReadPiece, Abandon, RotationEnds, UnchangedFiles, ReadToTheEnd, SpeechInv, SpeechTypes, SpeechTypeOK
<1>3. PICK a \in Steps :
         /\ speech' = [speech EXCEPT ![s].at = a]
         /\ \/ a = speech[s].at
            \/ a = "done" /\ speech[s].at \in {"asked", "listening", "rotating"}
            \/ a \in {"asked", "listening", "ended"} /\ Unwritten(s)
         /\ a = "ended" => s \in whole'
  <2>1. ASSUME Abandon(s) PROVE speech' = [speech EXCEPT ![s].at = speech[s].at] /\ (speech[s].at = "ended" => s \in whole')
    BY <2>1 DEF Abandon, SpeechInv, SpeechTypes, SpeechTypeOK, WrittenOnce
  <2>2. speech[s].at \in Steps
    BY SpeechShape
  <2> QED
    BY <2>1, <2>2 DEF Speak, LookForListener, ReadPiece, RotationEnds, ReadToTheEnd, Go, Unwritten, Steps
<1>4. /\ speech' \in [Speeches -> [at : Steps, files : SUBSET (DOMAIN written')]]
      /\ speech'[s].at = a
      /\ \A t \in Speeches : speech'[t].files = speech[t].files /\ (t # s => speech'[t].at = speech[t].at)
  BY <1>1, <1>3, SpeechShape DEF SpeechInv, SpeechTypes, SpeechTypeOK
<1>5. \A t \in Speeches : OldestPlace(t)' = OldestPlace(t) /\ Oldest(t)' = Oldest(t)
  BY <1>1, <1>4, SpeechFrame
<1>6. \A t \in Speeches : (Unwritten(t)' => Unwritten(t)) /\ (Moving(t)' => Moving(t) /\ speech'[t].at = speech[t].at)
                         /\ (speech'[t].at \in {"stored", "copied"} => speech[t].at = speech'[t].at)
                         /\ (speech[t].at \in {"moved", "undone"} => speech'[t].at = speech[t].at)
  BY <1>3, <1>4 DEF Unwritten, Moving
<1>7. SpeechTypes'
  BY <1>1, <1>2, <1>4 DEF SpeechInv, SpeechTypes, SpeechTypeOK
<1>8. WrittenOnce'
  BY <1>1, <1>2, <1>3, <1>4, <1>6 DEF SpeechInv, WrittenOnce, IsWritten, Kept
<1>9. NothingLost'
  BY <1>1 DEF SpeechInv, NothingLost, IsWritten, Kept
<1>10. Calm'
  BY <1>1, <1>4, <1>5, <1>6 DEF SpeechInv, Calm, Underway
<1>11. RowsReplay'
  BY <1>1, <1>4, <1>5, <1>6 DEF SpeechInv, RowsReplay, InBetween
<1> QED
  BY <1>7, <1>8, <1>9, <1>10, <1>11 DEF SpeechInv

LEMMA OneMore ==
    ASSUME NEW S, NEW q \in Seq(S), NEW x \in S, NEW r, r = Append(q, x)
    PROVE  /\ r \in Seq(S) /\ Len(r) = Len(q) + 1 /\ r[Len(q) + 1] = x /\ Len(q) \in Nat
           /\ \A i \in 1..Len(q) : r[i] = q[i]
BY AppendProperties, LenProperties

LEMMA WriteKeeps == ASSUME SpeechInv, NEW s \in Speeches, WriteFile(s) PROVE SpeechInv'
<1>1. /\ archived' = archived /\ expired' = expired /\ whole' = whole /\ abandoned' = abandoned
      /\ recordedIn' = recordedIn /\ disturbed' = disturbed /\ twoVolumes' = twoVolumes /\ stranded' = stranded
      /\ speech[s].at = "ended" /\ ~IsWritten(s) /\ s \in whole
  BY DEF WriteFile, SpeechInv, WrittenOnce, Unwritten
<1>2. PICK a \in {"stored", "done"} :
         /\ speech' = [speech EXCEPT ![s].at = a]
         /\ IF a = "stored" THEN hot' = hot \cup {s} /\ written' = Append(written, s)
                            ELSE hot' = hot /\ written' = written
  BY DEF WriteFile, Go
<1>3. /\ written \in Seq(Speeches) /\ Len(written) \in Nat /\ written' \in Seq(Speeches)
      /\ \A i \in 1..Len(written) : i \in 1..Len(written') /\ written'[i] = written[i]
      /\ \A i \in 1..Len(written') : i \in 1..Len(written) \/ (a = "stored" /\ written'[i] = s /\ i = Len(written) + 1)
      /\ a = "stored" => Len(written') \in 1..Len(written') /\ written'[Len(written')] = s
      /\ DOMAIN written = 1..Len(written) /\ DOMAIN written' = 1..Len(written')
  <2>0. written \in Seq(Speeches)
    BY DEF SpeechInv, SpeechTypes, SpeechTypeOK
  <2>1. written \in Seq(Speeches) /\ Len(written) \in Nat /\ DOMAIN written = 1..Len(written)
    BY <2>0
  <2>2. CASE a = "stored"
    <3>1. /\ written' \in Seq(Speeches) /\ Len(written') = Len(written) + 1 /\ written'[Len(written) + 1] = s
          /\ \A i \in 1..Len(written) : written'[i] = written[i]
      BY <1>2, <2>1, <2>2, OneMore
    <3>2. DOMAIN written' = 1..Len(written')
      BY <3>1
    <3> QED
      BY <2>1, <2>2, <3>1, <3>2
  <2>3. CASE a = "done"
    BY <1>2, <2>1, <2>3
  <2> QED
    BY <2>2, <2>3
<1>4. /\ speech' \in [Speeches -> [at : Steps, files : SUBSET (DOMAIN written')]]
      /\ speech'[s].at = a
      /\ \A t \in Speeches : speech'[t].files = speech[t].files /\ (t # s => speech'[t].at = speech[t].at)
  <2>1. \A t \in Speeches : speech[t] \in [at : Steps, files : SUBSET (DOMAIN written')]
    BY <1>3, SpeechShape
  <2>2. a \in Steps
    BY DEF Steps
  <2>3. DOMAIN speech = Speeches
    BY DEF SpeechInv, SpeechTypes, SpeechTypeOK
  <2>4. speech = [t \in Speeches |-> speech[t]]
    BY DEF SpeechInv, SpeechTypes, SpeechTypeOK
  <2> QED
    BY <1>2, <2>1, <2>2, <2>3, <2>4
<1>5. \A t \in Speeches : OldestPlace(t)' = OldestPlace(t)
  BY <1>4, SameOldest
<1>6. \A t \in Speeches : speech[t].files # {} => Oldest(t)' = Oldest(t)
  BY <1>3, <1>5, OldestIs DEF Oldest
<1>7. \A t \in Speeches : t # s => (Unwritten(t)' <=> Unwritten(t)) /\ (Moving(t)' <=> Moving(t))
  BY <1>4 DEF Unwritten, Moving
<1>8. ~Unwritten(s)' /\ ~Moving(s)' /\ ~Moving(s) /\ Unwritten(s)
  BY <1>1, <1>4 DEF Unwritten, Moving
<1>9. \A f \in Speeches : /\ Kept(f) => Kept(f)'
                          /\ Kept(f)' => Kept(f) \/ f = s
                          /\ IsWritten(f) => IsWritten(f)'
                          /\ IsWritten(f)' => IsWritten(f) \/ (f = s /\ a = "stored")
                          /\ a = "stored" => IsWritten(s)' /\ Kept(s)'
  <2>1. \A f \in Speeches : (Kept(f) => Kept(f)') /\ (Kept(f)' => Kept(f) \/ f = s) /\ (a = "stored" => Kept(s)')
    BY <1>1, <1>2 DEF Kept
  <2>2. ASSUME NEW f \in Speeches, IsWritten(f) PROVE IsWritten(f)'
    BY <1>3, <2>2 DEF IsWritten
  <2>3. ASSUME NEW f \in Speeches, IsWritten(f)' PROVE IsWritten(f) \/ (f = s /\ a = "stored")
    BY <1>3, <2>3 DEF IsWritten
  <2>4. ASSUME a = "stored" PROVE IsWritten(s)'
    BY <1>3, <2>4 DEF IsWritten
  <2> QED
    BY <2>1, <2>2, <2>3, <2>4
<1>10. SpeechTypes'
  <2>1. hot' \subseteq Speeches
    BY <1>2 DEF SpeechInv, SpeechTypes, SpeechTypeOK
  <2>2. SpeechTypes
    BY DEF SpeechInv
  <2> QED
    BY <1>1, <1>3, <1>4, <2>1, <2>2 DEF SpeechTypes, SpeechTypeOK
<1>11. WrittenOnce'
  <2>1. \A t \in Speeches : Unwritten(t)' => ~IsWritten(t)' /\ recordedIn'[t] = "none" /\ ~Kept(t)'
    BY <1>1, <1>7, <1>8, <1>9 DEF SpeechInv, WrittenOnce
  <2>2. \A t \in Speeches : speech'[t].at = "stored" \/ recordedIn'[t] # "none" => IsWritten(t)'
    BY <1>1, <1>4, <1>9 DEF SpeechInv, WrittenOnce, Unwritten
  <2>3. \A i, j \in 1..Len(written') : written'[i] = written'[j] => i = j
    <3>1. \A i, j \in 1..Len(written) : written[i] = written[j] => i = j
      BY DEF SpeechInv, WrittenOnce
    <3>2. \A i \in 1..Len(written) : written[i] # s
      BY <1>1 DEF IsWritten
    <3> QED
      BY <1>3, <3>1, <3>2
  <2>4. \A i \in 1..Len(written') : written'[i] \in whole'
    BY <1>1, <1>3 DEF SpeechInv, WrittenOnce
  <2>5. \A t \in Speeches : (speech'[t].at = "ended" => t \in whole') /\ (speech'[t].at = "copied" => twoVolumes')
    BY <1>1, <1>4 DEF SpeechInv, WrittenOnce
  <2> QED
    BY <2>1, <2>2, <2>3, <2>4, <2>5 DEF WrittenOnce
<1>12. NothingLost'
  BY <1>1, <1>9 DEF SpeechInv, NothingLost
<1>13. Calm'
  <2> SUFFICES ASSUME ~disturbed
               PROVE  Calm'
    BY <1>1 DEF Calm
  <2>0. Calm /\ WrittenOnce /\ NothingLost
    BY DEF SpeechInv
  <2>1. \A t \in Speeches : Moving(t)' => Underway(t)'
    <3> SUFFICES ASSUME NEW t \in Speeches, Moving(t)' PROVE Underway(t)'
      OBVIOUS
    <3>1. t # s /\ Moving(t) /\ Underway(t)
      BY <1>1, <1>7, <1>8, <2>0 DEF Calm
    <3>2. \A i \in speech[t].files : written'[i] = written[i] /\ i \in 1..Len(written)
      BY <1>3, SpeechShape
    <3>3. hot \subseteq hot'
      BY <1>2
    <3>4. speech[t].files # {} => Oldest(t)' = Oldest(t) /\ Oldest(t) # s
      BY <1>1, <1>6, OldestIs
    <3>5. /\ speech[t].at = "moved" => Oldest(t)' \notin hot'
          /\ speech[t].at \in {"copied", "moved", "undone"} => Oldest(t)' \in hot' \cup archived \cup expired
      BY <1>2, <3>1, <3>4 DEF Underway
    <3> QED
      BY <1>1, <1>4, <1>5, <3>1, <3>2, <3>3, <3>4, <3>5 DEF Underway
  <2>2. ASSUME NEW t \in Speeches, speech'[t].at = "stored"
        PROVE  t \in hot' /\ \A u \in Speeches : Moving(u)' => \A i \in speech'[u].files : written'[i] # t
    <3>1. t # s => t \in hot /\ \A u \in Speeches : Moving(u) => \A i \in speech[u].files : written[i] # t
      BY <1>1, <1>4, <2>0, <2>2 DEF Calm
    <3>2. \A u \in Speeches : \A i \in speech[u].files : written'[i] = written[i] /\ i \in 1..Len(written)
      BY <1>3, SpeechShape
    <3>3. t \in hot'
      BY <1>2, <1>4, <2>2, <3>1
    <3> QED
      BY <1>1, <1>4, <1>7, <1>8, <3>1, <3>2, <3>3 DEF IsWritten
  <2>3. ASSUME NEW f \in Speeches, recordedIn'[f] = "archive" PROVE f \notin hot'
    BY <1>1, <1>2, <2>0, <2>3 DEF Calm, WrittenOnce
  <2>4. \A t, u \in Speeches : Moving(t)' /\ Moving(u)' => t = u
    BY <1>1, <1>7, <1>8, <2>0 DEF Calm
  <2> QED
    BY <2>1, <2>2, <2>3, <2>4 DEF Calm
<1>14. RowsReplay'
  <2> SUFFICES ASSUME ~disturbed, NEW f \in Speeches, recordedIn[f] # "none", stranded[f] = "no"
               PROVE  InBetween(f)' \/ f \in expired' \/ f \in (IF recordedIn[f] = "hot" THEN hot' ELSE archived')
    BY <1>1 DEF RowsReplay
  <2>1. f # s
    BY <1>1 DEF SpeechInv, WrittenOnce
  <2>2. ASSUME InBetween(f) PROVE InBetween(f)'
    <3>1. PICK t \in Speeches : speech[t].at \in {"moved", "undone"} /\ Oldest(t) = f
      BY <2>2 DEF InBetween
    <3>2. speech[t].files # {} /\ t # s
      BY <1>1, <3>1 DEF SpeechInv, Calm, Underway, Moving
    <3> QED
      BY <1>4, <1>6, <3>1, <3>2 DEF InBetween
  <2> QED
    BY <1>1, <1>2, <2>1, <2>2 DEF SpeechInv, RowsReplay
<1> QED
  BY <1>10, <1>11, <1>12, <1>13, <1>14 DEF SpeechInv

LEMMA RowKeeps == ASSUME SpeechInv, NEW s \in Speeches, AddRow(s) PROVE SpeechInv'
<1> DEFINE listed == {i \in DOMAIN written : written[i] \in hot}
           first == [at |-> "rotating", files |-> listed]
<1>1. /\ archived' = archived /\ expired' = expired /\ whole' = whole /\ abandoned' = abandoned
      /\ written' = written /\ hot' = hot /\ twoVolumes' = twoVolumes
      /\ stranded' = stranded /\ speech[s].at = "stored" /\ recordedIn' = [recordedIn EXCEPT ![s] = "hot"]
      /\ speech' = [speech EXCEPT ![s] = first]
      /\ disturbed' = (disturbed \/ \E t \in Speeches \ {s} : Rotating(t))
  BY DEF AddRow
<1>2. /\ speech' \in [Speeches -> [at : Steps, files : SUBSET (DOMAIN written')]]
      /\ speech'[s].at = "rotating" /\ speech'[s].files = listed
      /\ \A t \in Speeches : t # s => speech'[t] = speech[t]
  BY <1>1 DEF SpeechInv, SpeechTypes, SpeechTypeOK, Steps
<1>3. SpeechTypes'
  BY <1>1, <1>2 DEF SpeechInv, SpeechTypes, SpeechTypeOK
<1>4. /\ recordedIn'[s] = "hot" /\ \A t \in Speeches : t # s => recordedIn'[t] = recordedIn[t]
      /\ IsWritten(s)
  BY <1>1 DEF SpeechInv, SpeechTypes, SpeechTypeOK, WrittenOnce
<1>5. WrittenOnce'
  BY <1>1, <1>2, <1>4 DEF SpeechInv, WrittenOnce, IsWritten, Kept, Unwritten
<1>6. NothingLost'
  BY <1>1 DEF SpeechInv, NothingLost, IsWritten, Kept
<1>7. ASSUME ~disturbed'
      PROVE  ~disturbed /\ \A t \in Speeches : t # s => ~Moving(t) /\ ~Moving(t)' /\ speech[t].at # "stored"
  BY <1>1, <1>2, <1>7 DEF Rotating, Moving
<1>8. Calm'
  <2> SUFFICES ASSUME ~disturbed' PROVE Calm'
    BY DEF Calm
  <2>1. Calm /\ s \in hot
    BY <1>1, <1>7 DEF SpeechInv, Calm
  <2>2. Underway(s)'
    BY <1>1, <1>2 DEF Underway
  <2>3. \A t, u \in Speeches : Moving(t)' /\ Moving(u)' => t = u
    BY <1>7
  <2>4. \A t \in Speeches : Moving(t)' => Underway(t)'
    BY <1>7, <2>2
  <2>5. \A t \in Speeches : speech'[t].at # "stored"
    BY <1>2, <1>7
  <2>6. \A f \in Speeches : recordedIn'[f] = "archive" => f \notin hot'
    BY <1>1, <1>4, <1>7, <2>1 DEF Calm
  <2> QED
    BY <2>3, <2>4, <2>5, <2>6 DEF Calm
<1>9. RowsReplay'
  <2> SUFFICES ASSUME ~disturbed', NEW f \in Speeches, recordedIn'[f] # "none", stranded[f] = "no"
               PROVE  f \in expired' \/ f \in (IF recordedIn'[f] = "hot" THEN hot' ELSE archived')
    BY <1>1 DEF RowsReplay
  <2>1. ~InBetween(f)
    BY <1>1, <1>7 DEF InBetween, Moving
  <2>2. s \in hot
    BY <1>1, <1>7 DEF SpeechInv, Calm
  <2> QED
    BY <1>1, <1>4, <1>7, <2>1, <2>2 DEF SpeechInv, RowsReplay
<1> QED
  BY <1>3, <1>5, <1>6, <1>8, <1>9 DEF SpeechInv

\* What moving a file changes: where the caller is, and where one file is.
LEMMA StepsOfOne ==
    ASSUME SpeechInv, NEW s \in Speeches, NEW a \in Steps, Go(s, a), written' = written
    PROVE  /\ speech' \in [Speeches -> [at : Steps, files : SUBSET (DOMAIN written')]]
           /\ speech'[s].at = a
           /\ \A t \in Speeches : /\ speech'[t].files = speech[t].files /\ (t # s => speech'[t].at = speech[t].at)
                                  /\ OldestPlace(t)' = OldestPlace(t) /\ Oldest(t)' = Oldest(t)
<1>1. /\ speech' \in [Speeches -> [at : Steps, files : SUBSET (DOMAIN written')]]
      /\ speech'[s].at = a
      /\ \A t \in Speeches : speech'[t].files = speech[t].files /\ (t # s => speech'[t].at = speech[t].at)
  BY SpeechShape DEF Go, SpeechInv, SpeechTypes, SpeechTypeOK
<1> QED
  BY <1>1, SpeechFrame

\* As long as no file is written, a step of a caller that moves files keeps
\* what is known of every file if none is lost by it.
LEMMA MovingKeeps ==
    ASSUME SpeechInv, NEW s \in Speeches, Moving(s), Moving(s)' \/ speech'[s].at = "done",
           written' = written, whole' = whole, twoVolumes' = twoVolumes, disturbed' = disturbed,
           \A t \in Speeches : t # s => speech'[t].at = speech[t].at,
           speech'[s].at = "copied" => twoVolumes,
           recordedIn' = recordedIn \/ \E f \in Speeches : recordedIn[f] = "hot" /\ recordedIn' = [recordedIn EXCEPT ![f] = "archive"],
           \A f \in Speeches : Kept(f)' => Kept(f),
           ~(twoVolumes /\ disturbed) => \A f \in Speeches : Kept(f) => Kept(f)'
    PROVE  WrittenOnce' /\ NothingLost' /\ \A t \in Speeches : (recordedIn[t] = "none") <=> (recordedIn'[t] = "none")
<1>1. \A t \in Speeches : (recordedIn[t] = "none") <=> (recordedIn'[t] = "none")
  BY DEF SpeechInv, SpeechTypes, SpeechTypeOK
<1>2. \A t \in Speeches : IsWritten(t)' <=> IsWritten(t)
  BY DEF IsWritten
<1>3. \A t \in Speeches : (Unwritten(t)' => Unwritten(t)) /\ (speech'[t].at \in {"ended", "stored"} => speech'[t].at = speech[t].at)
                       /\ (speech'[t].at = "copied" => twoVolumes)
  BY DEF Unwritten, Moving, SpeechInv, WrittenOnce
<1>4. NothingLost'
  BY <1>2 DEF SpeechInv, NothingLost
<1>5. WrittenOnce'
  <2>1. \A t \in Speeches : Unwritten(t)' => ~IsWritten(t)' /\ recordedIn'[t] = "none" /\ ~Kept(t)'
    BY <1>1, <1>2, <1>3 DEF SpeechInv, WrittenOnce
  <2>2. \A t \in Speeches : speech'[t].at = "stored" \/ recordedIn'[t] # "none" => IsWritten(t)'
    BY <1>1, <1>2, <1>3 DEF SpeechInv, WrittenOnce
  <2>3. \A t \in Speeches : (speech'[t].at = "ended" => t \in whole') /\ (speech'[t].at = "copied" => twoVolumes')
    BY <1>3 DEF SpeechInv, WrittenOnce
  <2> QED
    BY <2>1, <2>2, <2>3 DEF SpeechInv, WrittenOnce
<1> QED
  BY <1>1, <1>4, <1>5

LEMMA MoveKeeps == ASSUME SpeechInv, NEW s \in Speeches, MoveOldest(s) PROVE SpeechInv'
<1> DEFINE f == Oldest(s)
<1>1. /\ expired' = expired /\ whole' = whole /\ abandoned' = abandoned /\ disturbed' = disturbed
      /\ written' = written /\ recordedIn' = recordedIn /\ twoVolumes' = twoVolumes
      /\ stranded' = stranded /\ speech[s].at = "rotating" /\ speech[s].files # {}
  BY ListedIsThere DEF MoveOldest
<1>2. f \in Speeches /\ OldestPlace(s) \in speech[s].files /\ OldestPlace(s) \in 1..Len(written) /\ f = written[OldestPlace(s)]
  BY <1>1, OldestIs
<1>3. PICK a \in {"copied", "moved", "undone"} :
         /\ Go(s, a)
         /\ a = "copied" => f \in hot /\ twoVolumes /\ hot' = hot /\ archived' = archived \cup {f}
         /\ a = "moved"  => f \in hot /\ hot' = hot \ {f} /\ archived' = archived \cup {f}
         /\ a = "undone" => hot' = hot /\ archived \subseteq archived' /\ archived' \subseteq archived \cup ({f} \cap hot)
  BY DEF MoveOldest
<1> HIDE DEF f
<1>4. /\ speech' \in [Speeches -> [at : Steps, files : SUBSET (DOMAIN written')]]
      /\ speech'[s].at = a
      /\ \A t \in Speeches : /\ speech'[t].files = speech[t].files /\ (t # s => speech'[t].at = speech[t].at)
                             /\ OldestPlace(t)' = OldestPlace(t) /\ Oldest(t)' = Oldest(t)
  BY <1>1, <1>3, StepsOfOne DEF Steps
<1>5. SpeechTypes'
  <2>1. hot' \subseteq Speeches /\ archived' \subseteq Speeches
    BY <1>2, <1>3 DEF SpeechInv, SpeechTypes, SpeechTypeOK
  <2> QED
    BY <1>1, <1>4, <2>1 DEF SpeechInv, SpeechTypes, SpeechTypeOK
<1>6. \A g \in Speeches : Kept(g)' <=> Kept(g)
  BY <1>1, <1>2, <1>3 DEF Kept
<1>7. Moving(s) /\ Moving(s)' /\ speech'[s].at = a /\ (a = "copied" => twoVolumes)
  BY <1>1, <1>3, <1>4 DEF Moving
<1>8. WrittenOnce' /\ NothingLost'
  BY <1>1, <1>4, <1>6, <1>7, MovingKeeps
<1>9. ASSUME ~disturbed
      PROVE  Calm' /\ RowsReplay'
  <2>1. /\ Calm /\ RowsReplay /\ Underway(s)
        /\ \A t \in Speeches : t # s => ~Moving(t) /\ ~Moving(t)'
    BY <1>4, <1>7, <1>9 DEF SpeechInv, Calm, Moving
  <2>2. f \in hot /\ recordedIn[f] # "archive"
    BY <1>1, <1>2, <1>9, <2>1 DEF Underway, Calm
  <2>3. \A i \in speech[s].files : i # OldestPlace(s) => written[i] \in hot'
    <3>1. \A i \in speech[s].files : i \in 1..Len(written) /\ written[i] \in hot
      BY <1>1, <2>1, SpeechShape DEF Underway
    <3>2. \A i, j \in 1..Len(written) : written[i] = written[j] => i = j
      BY DEF SpeechInv, WrittenOnce
    <3> QED
      BY <1>2, <1>3, <3>1, <3>2
  <2>4. written[OldestPlace(s)] \in hot' \/ a = "moved"
    BY <1>2, <1>3, <2>2
  <2>5. Underway(s)'
    <3>1. speech'[s].files = speech[s].files /\ OldestPlace(s)' = OldestPlace(s) /\ Oldest(s)' = f
      BY <1>4 DEF f
    <3>2. f \in hot' \cup archived' /\ (a \in {"copied", "moved"} => f \in archived') /\ (a = "moved" => f \notin hot')
      BY <1>3, <2>2
    <3> QED
      BY <1>1, <1>4, <2>2, <2>3, <2>4, <3>1, <3>2 DEF Underway
  <2>6. ASSUME NEW t \in Speeches, speech'[t].at = "stored"
        PROVE  t \in hot' /\ \A u \in Speeches : Moving(u)' => \A i \in speech'[u].files : written'[i] # t
    <3>1. t # s /\ speech[t].at = "stored"
      BY <1>4, <1>7, <2>6 DEF Moving
    <3>2. t \in hot /\ \A i \in speech[s].files : written[i] # t
      BY <1>7, <1>9, <2>1, <3>1 DEF Calm
    <3> QED
      BY <1>1, <1>2, <1>3, <1>4, <2>1, <3>2
  <2>7. \A g \in Speeches : recordedIn'[g] = "archive" => g \notin hot'
    BY <1>1, <1>3, <1>9, <2>1 DEF Calm
  <2>8. Calm'
    BY <1>7, <2>1, <2>5, <2>6, <2>7 DEF Calm
  <2>9. RowsReplay'
    <3> SUFFICES ASSUME NEW g \in Speeches, recordedIn[g] # "none", stranded[g] = "no"
                 PROVE  InBetween(g)' \/ g \in expired' \/ g \in (IF recordedIn[g] = "hot" THEN hot' ELSE archived')
      BY <1>1 DEF RowsReplay
    <3>1. ~InBetween(g)
      BY <1>1, <2>1 DEF InBetween, Moving
    <3>2. g \in expired \/ g \in (IF recordedIn[g] = "hot" THEN hot ELSE archived)
      BY <1>9, <2>1, <3>1 DEF RowsReplay
    <3>3. ASSUME g = f, a = "moved" PROVE InBetween(g)'
      BY <1>4, <3>3 DEF InBetween, f
    <3> QED
      BY <1>1, <1>3, <3>2, <3>3
  <2> QED
    BY <2>8, <2>9
<1>10. disturbed => Calm' /\ RowsReplay'
  BY <1>1 DEF Calm, RowsReplay
<1> QED
  BY <1>5, <1>8, <1>9, <1>10 DEF SpeechInv

LEMMA UnlinkKeeps == ASSUME SpeechInv, NEW s \in Speeches, UnlinkOldest(s) PROVE SpeechInv'
<1> DEFINE f == Oldest(s)
<1>1. /\ expired' = expired /\ whole' = whole /\ abandoned' = abandoned /\ disturbed' = disturbed
      /\ written' = written /\ recordedIn' = recordedIn /\ twoVolumes' = twoVolumes /\ archived' = archived
      /\ stranded' = stranded /\ speech[s].at = "copied" /\ Moving(s) /\ twoVolumes
  BY DEF UnlinkOldest, Moving, SpeechInv, WrittenOnce
<1>2. PICK a \in {"moved", "undone"} :
         /\ Go(s, a)
         /\ a = "moved"  => f \in hot /\ hot' = hot \ {f}
         /\ a = "undone" => hot' = hot
  BY DEF UnlinkOldest
<1>3. /\ speech' \in [Speeches -> [at : Steps, files : SUBSET (DOMAIN written')]]
      /\ speech'[s].at = a
      /\ \A t \in Speeches : /\ speech'[t].files = speech[t].files /\ (t # s => speech'[t].at = speech[t].at)
                             /\ OldestPlace(t)' = OldestPlace(t) /\ Oldest(t)' = Oldest(t)
  BY <1>1, <1>2, StepsOfOne DEF Steps
<1>4. /\ hot' \subseteq hot
      /\ SpeechTypes'
  <2>1. hot' \subseteq hot
    BY <1>2
  <2> QED
    BY <1>1, <1>3, <2>1 DEF SpeechInv, SpeechTypes, SpeechTypeOK
<1>5. ASSUME ~disturbed
      PROVE  /\ Calm /\ RowsReplay /\ Underway(s) /\ WrittenOnce
             /\ \A t \in Speeches : t # s => ~Moving(t) /\ ~Moving(t)'
             /\ OldestPlace(s) \in speech[s].files /\ f = written[OldestPlace(s)] /\ f \in Speeches
             /\ f \in hot /\ f \in archived \cup expired
             /\ \A i \in speech[s].files : i \in 1..Len(written) /\ written[i] \in hot
  <2>1. Calm /\ RowsReplay /\ Underway(s) /\ WrittenOnce
    BY <1>1, <1>5 DEF SpeechInv, Calm
  <2>2. \A t \in Speeches : t # s => ~Moving(t) /\ ~Moving(t)'
    BY <1>1, <1>3, <1>5, <2>1 DEF Calm, Moving
  <2>3. speech[s].files # {} /\ f \in archived \cup expired /\ \A i \in speech[s].files : written[i] \in hot
    BY <1>1, <2>1 DEF Underway
  <2>4. OldestPlace(s) \in speech[s].files /\ f = written[OldestPlace(s)] /\ f \in Speeches
    BY <2>3, OldestIs
  <2> QED
    BY <2>1, <2>2, <2>3, <2>4, SpeechShape
<1> HIDE DEF f
<1>6. \A g \in Speeches : (Kept(g)' => Kept(g)) /\ (~disturbed /\ Kept(g) => Kept(g)')
  BY <1>1, <1>2, <1>4, <1>5 DEF Kept
<1>7. WrittenOnce' /\ NothingLost'
  <2>1. Moving(s)' /\ speech'[s].at # "copied"
    BY <1>2, <1>3 DEF Moving
  <2> QED
    BY <1>1, <1>3, <1>6, <2>1, MovingKeeps
<1>8. ASSUME ~disturbed
      PROVE  Calm' /\ RowsReplay'
  <2>1. f \notin hot' \/ a = "undone"
    BY <1>2
  <2>2. \A i \in speech[s].files : i # OldestPlace(s) => written[i] \in hot'
    <3>1. \A i, j \in 1..Len(written) : written[i] = written[j] => i = j
      BY DEF SpeechInv, WrittenOnce
    <3> QED
      BY <1>2, <1>5, <1>8, <3>1
  <2>3. Underway(s)'
    <3>1. speech'[s].files = speech[s].files /\ OldestPlace(s)' = OldestPlace(s) /\ Oldest(s)' = f
      BY <1>3 DEF f
    <3>2. recordedIn[f] # "archive" /\ f \in archived' \cup expired'
      BY <1>1, <1>5, <1>8 DEF Calm
    <3> QED
      BY <1>1, <1>2, <1>3, <1>5, <1>8, <2>1, <2>2, <3>1, <3>2 DEF Underway
  <2>4. ASSUME NEW t \in Speeches, speech'[t].at = "stored"
        PROVE  t \in hot' /\ \A u \in Speeches : Moving(u)' => \A i \in speech'[u].files : written'[i] # t
    <3>1. t # s /\ speech[t].at = "stored"
      BY <1>2, <1>3, <2>4
    <3>2. t \in hot /\ \A i \in speech[s].files : written[i] # t
      BY <1>1, <1>5, <1>8, <3>1 DEF Calm
    <3> QED
      BY <1>1, <1>2, <1>3, <1>5, <1>8, <3>2
  <2>5. \A g \in Speeches : recordedIn'[g] = "archive" => g \notin hot'
    BY <1>1, <1>4, <1>5, <1>8 DEF Calm
  <2>6. Calm'
    BY <1>5, <1>8, <2>3, <2>4, <2>5 DEF Calm
  <2>7. RowsReplay'
    <3> SUFFICES ASSUME NEW g \in Speeches, recordedIn[g] # "none", stranded[g] = "no"
                 PROVE  InBetween(g)' \/ g \in expired' \/ g \in (IF recordedIn[g] = "hot" THEN hot' ELSE archived')
      BY <1>1 DEF RowsReplay
    <3>1. ~InBetween(g)
      BY <1>1, <1>5, <1>8 DEF InBetween, Moving
    <3>2. g \in expired \/ g \in (IF recordedIn[g] = "hot" THEN hot ELSE archived)
      BY <1>5, <1>8, <3>1 DEF RowsReplay
    <3>3. ASSUME g = f PROVE InBetween(g)'
      BY <1>2, <1>3, <3>3 DEF InBetween, f
    <3> QED
      BY <1>1, <1>2, <3>2, <3>3
  <2> QED
    BY <2>6, <2>7
<1>9. disturbed => Calm' /\ RowsReplay'
  BY <1>1 DEF Calm, RowsReplay
<1> QED
  BY <1>4, <1>7, <1>8, <1>9 DEF SpeechInv

LEMMA RepointKeeps == ASSUME SpeechInv, NEW s \in Speeches, RepointRow(s) PROVE SpeechInv'
<1> DEFINE f == Oldest(s)
           place == OldestPlace(s)
           rest == speech[s].files \ {place}
           next == [at |-> "rotating", files |-> rest]
<1>1. /\ expired' = expired /\ whole' = whole /\ abandoned' = abandoned /\ disturbed' = disturbed
      /\ written' = written /\ hot' = hot /\ twoVolumes' = twoVolumes /\ archived' = archived
      /\ stranded' = stranded /\ speech[s].at = "moved" /\ Moving(s)
  BY DEF RepointRow, Moving
<1>2. /\ \/ /\ recordedIn' = IF Names(f) THEN [recordedIn EXCEPT ![f] = "archive"] ELSE recordedIn
            /\ speech' = [speech EXCEPT ![s] = next]
         \/ Go(s, "undone") /\ recordedIn' = recordedIn
  BY DEF RepointRow
<1>3. speech[s].files \subseteq 1..Len(written)
  BY SpeechShape
<1>4. /\ speech' \in [Speeches -> [at : Steps, files : SUBSET (DOMAIN written')]]
      /\ speech'[s].at \in {"rotating", "undone"}
      /\ \A t \in Speeches : t # s => speech'[t] = speech[t] /\ OldestPlace(t)' = OldestPlace(t) /\ Oldest(t)' = Oldest(t)
      /\ speech'[s].at = "rotating" => /\ speech'[s].files = rest
                                       /\ recordedIn' = IF Names(f) THEN [recordedIn EXCEPT ![f] = "archive"] ELSE recordedIn
      /\ speech'[s].at = "undone" => /\ recordedIn' = recordedIn /\ speech'[s].files = speech[s].files
                                     /\ OldestPlace(s)' = OldestPlace(s) /\ Oldest(s)' = Oldest(s)
  <2>1. CASE speech' = [speech EXCEPT ![s] = next] /\ recordedIn' = IF Names(f) THEN [recordedIn EXCEPT ![f] = "archive"] ELSE recordedIn
    <3>1. next \in [at : Steps, files : SUBSET (DOMAIN written')] /\ next.at = "rotating" /\ next.files = rest
      <4>2. written \in Seq(Speeches)
        BY DEF SpeechInv, SpeechTypes, SpeechTypeOK
      <4>1. DOMAIN written' = 1..Len(written)
        BY <1>1, <4>2
      <4> QED
        BY <1>3, <4>1 DEF Steps
    <3> HIDE DEF next
    <3>2. /\ speech' \in [Speeches -> [at : Steps, files : SUBSET (DOMAIN written')]]
          /\ speech'[s] = next /\ \A t \in Speeches : t # s => speech'[t] = speech[t]
      BY <1>1, <2>1, <3>1 DEF SpeechInv, SpeechTypes, SpeechTypeOK
    <3>3. \A t \in Speeches : t # s => OldestPlace(t)' = OldestPlace(t) /\ Oldest(t)' = Oldest(t)
      BY <1>1, <3>2, SpeechFrame
    <3> QED
      BY <2>1, <3>1, <3>2, <3>3
  <2>2. CASE Go(s, "undone") /\ recordedIn' = recordedIn
    <3>1. /\ speech' \in [Speeches -> [at : Steps, files : SUBSET (DOMAIN written')]]
          /\ speech'[s].at = "undone"
          /\ \A t \in Speeches : /\ speech'[t].files = speech[t].files
                                 /\ OldestPlace(t)' = OldestPlace(t) /\ Oldest(t)' = Oldest(t)
      BY <1>1, <2>2, StepsOfOne DEF Steps
    <3>2. \A t \in Speeches : t # s => speech'[t] = speech[t]
      BY <2>2 DEF Go, SpeechInv, SpeechTypes, SpeechTypeOK
    <3> QED
      BY <2>2, <3>1, <3>2
  <2> QED
    BY <1>2, <2>1, <2>2
<1> HIDE DEF f, next
<1>5. \/ recordedIn' = recordedIn
      \/ \E g \in Speeches : recordedIn[g] = "hot" /\ recordedIn' = [recordedIn EXCEPT ![g] = "archive"]
  <2>1. recordedIn \in [Speeches -> {"none", "hot", "archive"}]
    BY DEF SpeechInv, SpeechTypes, SpeechTypeOK
  <2>2. recordedIn' = recordedIn \/ (recordedIn[f] = "hot" /\ recordedIn' = [recordedIn EXCEPT ![f] = "archive"])
    BY <1>4 DEF Names
  <2>3. f \notin Speeches => [recordedIn EXCEPT ![f] = "archive"] = recordedIn
    BY <2>1
  <2> QED
    BY <2>2, <2>3
<1>6. SpeechTypes'
  <2>1. recordedIn' \in [Speeches -> {"none", "hot", "archive"}]
    BY <1>5 DEF SpeechInv, SpeechTypes, SpeechTypeOK
  <2> QED
    BY <1>1, <1>4, <2>1 DEF SpeechInv, SpeechTypes, SpeechTypeOK
<1>7. WrittenOnce' /\ NothingLost'
  <2>1. \A g \in Speeches : Kept(g)' <=> Kept(g)
    BY <1>1 DEF Kept
  <2>2. Moving(s)' /\ speech'[s].at # "copied" /\ \A t \in Speeches : t # s => speech'[t].at = speech[t].at
    BY <1>4 DEF Moving
  <2> QED
    BY <1>1, <1>5, <2>1, <2>2, MovingKeeps
<1>8. ASSUME ~disturbed
      PROVE  Calm' /\ RowsReplay'
  <2>1. Calm /\ RowsReplay /\ Underway(s) /\ WrittenOnce
    BY <1>1, <1>8 DEF SpeechInv, Calm
  <2>2. \A t \in Speeches : t # s => ~Moving(t) /\ ~Moving(t)'
    BY <1>1, <1>4, <1>8, <2>1 DEF Calm, Moving
  <2>3. speech[s].files # {} /\ f \in archived \cup expired /\ f \notin hot /\ recordedIn[f] # "archive"
    BY <1>1, <2>1 DEF Underway, f
  <2>4. place \in speech[s].files /\ f = written[place] /\ f \in Speeches
    BY <2>3, OldestIs DEF f
  <2>5. \A i \in rest : written[i] \in hot
    BY <1>1, <2>1 DEF Underway
  <2>6. Underway(s)'
    <3>1. CASE speech'[s].at = "rotating"
      BY <1>1, <1>4, <2>5, <3>1 DEF Underway
    <3>2. CASE speech'[s].at = "undone"
      BY <1>1, <1>4, <2>1, <3>2 DEF Underway
    <3> QED
      BY <1>4, <3>1, <3>2
  <2>7. ASSUME NEW t \in Speeches, speech'[t].at = "stored"
        PROVE  t \in hot' /\ \A u \in Speeches : Moving(u)' => \A i \in speech'[u].files : written'[i] # t
    <3>1. t # s /\ speech[t].at = "stored"
      BY <1>4, <2>7
    <3>2. t \in hot /\ \A i \in speech[s].files : written[i] # t
      BY <1>1, <1>8, <2>1, <3>1 DEF Calm
    <3>3. speech'[s].files \subseteq speech[s].files
      BY <1>4
    <3> QED
      BY <1>1, <2>2, <3>2, <3>3
  <2>8. ASSUME NEW g \in Speeches PROVE (recordedIn'[g] = recordedIn[g]) \/ (g = f /\ recordedIn'[g] = "archive" /\ recordedIn[g] = "hot")
    BY <1>4, <2>4 DEF Names, SpeechInv, SpeechTypes, SpeechTypeOK
  <2>9. \A g \in Speeches : recordedIn'[g] = "archive" => g \notin hot'
    BY <1>1, <1>8, <2>1, <2>3, <2>8 DEF Calm
  <2>10. Calm'
    BY <2>2, <2>6, <2>7, <2>9 DEF Calm
  <2>11. RowsReplay'
    <3> SUFFICES ASSUME NEW g \in Speeches, recordedIn'[g] # "none", stranded[g] = "no"
                 PROVE  InBetween(g)' \/ g \in expired' \/ g \in (IF recordedIn'[g] = "hot" THEN hot' ELSE archived')
      BY <1>1 DEF RowsReplay
    <3>1. CASE g = f /\ speech'[s].at = "undone"
      BY <1>4, <3>1 DEF InBetween, f
    <3>2. CASE g = f /\ speech'[s].at = "rotating"
      <4>1. recordedIn'[f] = "archive"
        BY <1>4, <2>3, <2>4, <3>2 DEF Names, SpeechInv, SpeechTypes, SpeechTypeOK
      <4> QED
        BY <1>1, <2>3, <3>2, <4>1
    <3>3. CASE g # f
      <4>1. ~InBetween(g)
        BY <2>2, <3>3 DEF InBetween, Moving, f
      <4> QED
        BY <1>1, <1>8, <2>1, <2>8, <3>3, <4>1 DEF RowsReplay
    <3> QED
      BY <1>4, <3>1, <3>2, <3>3
  <2> QED
    BY <2>10, <2>11
<1>9. disturbed => Calm' /\ RowsReplay'
  BY <1>1 DEF Calm, RowsReplay
<1> QED
  BY <1>6, <1>7, <1>8, <1>9 DEF SpeechInv

LEMMA MoveBackKeeps == ASSUME SpeechInv, NEW s \in Speeches, UndoMove(s) PROVE SpeechInv'
<1> DEFINE f == Oldest(s)
<1>1. /\ expired' = expired /\ whole' = whole /\ abandoned' = abandoned /\ disturbed' = disturbed
      /\ written' = written /\ recordedIn' = recordedIn /\ twoVolumes' = twoVolumes
      /\ speech[s].at = "undone" /\ Moving(s)
  BY DEF UndoMove, Moving
<1>2. /\ Go(s, "done")
      /\ \/ f \in archived \ hot /\ hot' = hot \cup {f} /\ archived' = archived \ {f} /\ stranded' = stranded
         \/ f \notin archived \ hot /\ hot' = hot /\ archived' = archived /\ stranded' = stranded
         \/ /\ f \in archived \ hot /\ hot' \in {hot, hot \cup {f}} /\ archived' = archived
            /\ \E how \in {"nothing", "a copy"} : stranded' = [stranded EXCEPT ![f] = how]
  BY DEF UndoMove, MovedBack, NotMovedBack
<1>3. /\ speech' \in [Speeches -> [at : Steps, files : SUBSET (DOMAIN written')]]
      /\ speech'[s].at = "done"
      /\ \A t \in Speeches : speech'[t].files = speech[t].files /\ (t # s => speech'[t].at = speech[t].at)
  BY <1>1, <1>2, StepsOfOne DEF Steps
<1> HIDE DEF f
<1>4. SpeechTypes'
  <2>1. hot' \subseteq Speeches /\ archived' \subseteq Speeches
    BY <1>2 DEF SpeechInv, SpeechTypes, SpeechTypeOK
  <2>2. stranded' \in [Speeches -> {"no", "nothing", "a copy"}]
    BY <1>2 DEF SpeechInv, SpeechTypes, SpeechTypeOK
  <2> QED
    BY <1>1, <1>3, <2>1, <2>2 DEF SpeechInv, SpeechTypes, SpeechTypeOK
<1>5. \A g \in Speeches : Kept(g)' <=> Kept(g)
  BY <1>1, <1>2 DEF Kept
<1>6. WrittenOnce' /\ NothingLost'
  BY <1>1, <1>3, <1>5, MovingKeeps
<1>7. ASSUME ~disturbed
      PROVE  Calm' /\ RowsReplay'
  <2>1. Calm /\ RowsReplay /\ Underway(s)
    BY <1>1, <1>7 DEF SpeechInv, Calm
  <2>2. \A t \in Speeches : ~Moving(t)' /\ (t # s => ~Moving(t))
    BY <1>1, <1>3, <1>7, <2>1 DEF Calm, Moving
  <2>3. f \in hot \cup archived \cup expired /\ recordedIn[f] # "archive"
    BY <1>1, <2>1 DEF Underway, f
  <2>4. \A t \in Speeches : speech'[t].at = "stored" => t \in hot'
    BY <1>2, <1>3, <1>7, <2>1 DEF Calm
  <2>5. \A g \in Speeches : recordedIn'[g] = "archive" => g \notin hot'
    BY <1>1, <1>2, <1>7, <2>1, <2>3 DEF Calm
  <2>6. Calm'
    BY <2>2, <2>4, <2>5 DEF Calm
  <2>7. RowsReplay'
    <3> SUFFICES ASSUME NEW g \in Speeches, recordedIn[g] # "none", stranded'[g] = "no"
                 PROVE  g \in expired' \/ g \in (IF recordedIn[g] = "hot" THEN hot' ELSE archived')
      BY <1>1 DEF RowsReplay
    <3>3. /\ stranded' = stranded \/ \E how \in {"nothing", "a copy"} : stranded' = [stranded EXCEPT ![f] = how]
          /\ g = f => stranded' = stranded
      BY <1>2 DEF SpeechInv, SpeechTypes, SpeechTypeOK
    <3>1. CASE g = f
      <4>1. recordedIn[f] = "hot"
        BY <2>3, <3>1 DEF SpeechInv, SpeechTypes, SpeechTypeOK
      <4>2. f \in expired' \/ f \in hot'
        <5>1. f \in archived \ hot => hot' = hot \cup {f} \/ stranded' # stranded \/ stranded'[f] # "no"
          BY <1>2, <3>1 DEF SpeechInv, SpeechTypes, SpeechTypeOK
        <5> QED
          BY <1>1, <1>2, <2>3, <3>1, <3>3, <5>1
      <4> QED
        BY <3>1, <4>1, <4>2
    <3>2. CASE g # f
      <4>1. ~InBetween(g)
        BY <2>2, <3>2 DEF InBetween, Moving, f
      <4>2. stranded[g] = "no"
        BY <3>2, <3>3 DEF SpeechInv, SpeechTypes, SpeechTypeOK
      <4> QED
        BY <1>1, <1>2, <1>7, <2>1, <3>2, <3>3, <4>1, <4>2 DEF RowsReplay
    <3> QED
      BY <3>1, <3>2
  <2> QED
    BY <2>6, <2>7
<1>8. disturbed => Calm' /\ RowsReplay'
  BY <1>1 DEF Calm, RowsReplay
<1> QED
  BY <1>4, <1>6, <1>7, <1>8 DEF SpeechInv

LEMMA ExpireKeeps == ASSUME SpeechInv, NEW f \in Speeches, Expire(f) PROVE SpeechInv'
<1>1. /\ whole' = whole /\ abandoned' = abandoned /\ disturbed' = disturbed /\ hot' = hot /\ speech' = speech
      /\ written' = written /\ recordedIn' = recordedIn /\ twoVolumes' = twoVolumes
      /\ archived' = archived \ {f} /\ expired' = expired \cup {f} /\ f \in archived /\ stranded' = stranded
  BY DEF Expire
<1>2. SpeechTypes'
  BY <1>1 DEF SpeechInv, SpeechTypes, SpeechTypeOK
<1>3. \A g \in Speeches : /\ Kept(g)' <=> Kept(g)
                          /\ IsWritten(g)' <=> IsWritten(g)
                          /\ Unwritten(g)' <=> Unwritten(g)
                          /\ Moving(g)' <=> Moving(g)
                          /\ OldestPlace(g)' = OldestPlace(g) /\ Oldest(g)' = Oldest(g)
  <2>1. \A g \in Speeches : OldestPlace(g)' = OldestPlace(g) /\ Oldest(g)' = Oldest(g)
    BY <1>1, SpeechFrame
  <2> QED
    BY <1>1, <2>1 DEF Kept, IsWritten, Unwritten, Moving
<1>4. WrittenOnce' /\ NothingLost'
  BY <1>1, <1>3 DEF SpeechInv, WrittenOnce, NothingLost
<1>5. \A g \in Speeches : Underway(g) => Underway(g)'
  BY <1>1, <1>3 DEF Underway
<1>6. Calm'
  BY <1>1, <1>3, <1>5 DEF SpeechInv, Calm
<1>7. RowsReplay'
  BY <1>1, <1>3 DEF SpeechInv, RowsReplay, InBetween
<1> QED
  BY <1>2, <1>4, <1>6, <1>7 DEF SpeechInv

LEMMA SpeechCrashKeeps == ASSUME SpeechInv, SpeechCrash PROVE SpeechInv'
<1>1. /\ whole' = whole /\ abandoned' = abandoned /\ hot' = hot /\ archived' = archived /\ expired' = expired
      /\ written' = written /\ recordedIn' = recordedIn /\ twoVolumes' = twoVolumes /\ stranded' = stranded
      /\ disturbed' = (disturbed \/ \E s \in Speeches : Rotating(s))
  BY DEF SpeechCrash
<1>2. /\ speech' \in [Speeches -> [at : Steps, files : SUBSET (DOMAIN written')]]
      /\ \A s \in Speeches : speech'[s].at = (IF speech[s].at = "none" THEN "none" ELSE "done")
  <2>1. [NoSpeech EXCEPT !.at = "done"] \in [at : Steps, files : SUBSET (DOMAIN written')] /\ [NoSpeech EXCEPT !.at = "done"].at = "done"
    BY DEF NoSpeech, Steps
  <2>2. speech' = [s \in Speeches |-> IF speech[s].at = "none" THEN speech[s] ELSE [NoSpeech EXCEPT !.at = "done"]]
    BY DEF SpeechCrash
  <2> QED
    BY <1>1, <2>1, <2>2 DEF SpeechInv, SpeechTypes, SpeechTypeOK
<1>3. \A s \in Speeches : ~Moving(s)' /\ (Unwritten(s)' => Unwritten(s)) /\ (Kept(s)' <=> Kept(s)) /\ (IsWritten(s)' <=> IsWritten(s))
  BY <1>1, <1>2 DEF Moving, Unwritten, Kept, IsWritten
<1>4. SpeechTypes'
  BY <1>1, <1>2 DEF SpeechInv, SpeechTypes, SpeechTypeOK
<1>5. WrittenOnce' /\ NothingLost'
  BY <1>1, <1>2, <1>3 DEF SpeechInv, WrittenOnce, NothingLost
<1>6. Calm'
  BY <1>1, <1>2, <1>3 DEF SpeechInv, Calm
<1>7. RowsReplay'
  BY <1>1, <1>2 DEF SpeechInv, RowsReplay, InBetween, Rotating
<1> QED
  BY <1>4, <1>5, <1>6, <1>7 DEF SpeechInv

LEMMA SpeechStays == ASSUME SpeechInv, [SpeechNext]_speechVars PROVE SpeechInv'
<1>1. ASSUME UNCHANGED speechVars PROVE SpeechInv'
  <2>1. /\ whole' = whole /\ abandoned' = abandoned /\ disturbed' = disturbed /\ hot' = hot /\ archived' = archived
        /\ written' = written /\ recordedIn' = recordedIn /\ twoVolumes' = twoVolumes /\ expired' = expired /\ speech' = speech
        /\ stranded' = stranded
    BY <1>1 DEF speechVars
  <2>2. \A g \in Speeches : OldestPlace(g)' = OldestPlace(g) /\ Oldest(g)' = Oldest(g)
    BY <2>1, SpeechFrame
  <2>3. SpeechTypes' /\ WrittenOnce' /\ NothingLost'
    BY <2>1 DEF SpeechInv, SpeechTypes, SpeechTypeOK, WrittenOnce, NothingLost, Kept, IsWritten, Unwritten
  <2>4. Calm' /\ RowsReplay'
    BY <2>1, <2>2 DEF SpeechInv, Calm, RowsReplay, InBetween, Moving, Underway
  <2> QED
    BY <2>3, <2>4 DEF SpeechInv
<1> QED
  BY <1>1, ReadingKeeps, WriteKeeps, RowKeeps, MoveKeeps, UnlinkKeeps, RepointKeeps, MoveBackKeeps, ExpireKeeps, SpeechCrashKeeps
     DEF SpeechNext

LEMMA SpeechInvHolds == SpeechSpec => []SpeechInv
BY SpeechInitially, SpeechStays, PTL DEF SpeechSpec

\* Whatever callers overlap, fail or are cut off, no recording that a row names
\* is lost on one volume, nor on two as long as nothing overlaps; and a row that
\* nothing disturbed names the directory its recording is in
\* (SpeechService._store_audio, write_artifact_atomic, _rotate_audio).
THEOREM RecordingsAreKept == SpeechSpec => []SpeechInvariant
<1>1. SpeechInv => SpeechInvariant
  <2> SUFFICES ASSUME SpeechInv PROVE SpeechTypeOK /\ RecordingsSurvive /\ RowsReplay
    BY DEF SpeechInvariant
  <2>1. ASSUME NEW s \in Speeches, recordedIn[s] # "none" PROVE s \in whole
    BY <2>1 DEF SpeechInv, WrittenOnce, IsWritten
  <2>2. RecordingsSurvive
    BY <2>1 DEF SpeechInv, RecordingsSurvive, NothingLost, WrittenOnce, Kept
  <2> QED
    BY <2>2 DEF SpeechInv, SpeechTypes
<1> QED
  BY <1>1, SpeechInvHolds, PTL

-----------------------------------------------------------------------------
(* Checkpoints.  Turns run in the order they were asked, so that everything  *)
(* said at or before a checkpoint was said when the checkpoint was made, and *)
(* the turn that makes one has read all of it.                               *)

Said == [turn : Nat, role : {"user", "assistant", "tool"}]

Works == [turn : Nat, history : SUBSET Said, summary : Said \cup {NoItem}, passes : 0..MaxPasses, degraded : BOOLEAN]

ContextTypes == ContextTypeOK /\ work \in Works /\ checkpoint \in Said \cup {NoItem}

InOrder ==
    \A k \in 1..Len(turn) : turn[k] \in {"compacting", "streaming", "completed"} => \A j \in 1..(k - 1) : turn[j] \in Over

\* A checkpoint is a message of a completed turn.
CheckpointStands ==
    checkpoint = NoItem \/ (IsMessage(checkpoint) /\ checkpoint.turn \in 1..Len(turn) /\ turn[checkpoint.turn] = "completed")

\* A turn that compacts has every message of the completed turns before it.
Prepared ==
    \A k \in 1..Len(turn) : turn[k] = "compacting" =>
        /\ work.turn = k /\ work.summary = checkpoint
        /\ \A x \in work.history : x.turn \in 1..(k - 1) /\ turn[x.turn] = "completed"
        /\ \A j \in 1..(k - 1) : turn[j] = "completed" => Item(j, "user") \in work.history /\ Item(j, "assistant") \in work.history

ContextInv == ContextTypes /\ InOrder /\ CheckpointStands /\ Prepared /\ PromptFits /\ CheckpointReadsEverything

\* The place of an item in its chat.
Rank(x) == 4 * x.turn + RoleOrder[x.role]

LEMMA RanksOrder ==
    /\ \A x \in Said \cup {NoItem} : Rank(x) \in Nat
    /\ \A x, y \in Said \cup {NoItem} : Before(x, y) <=> Rank(x) < Rank(y)
    /\ \A x, y \in Said \cup {NoItem} : Rank(x) = Rank(y) => x = y
<1>1. RoleOrder["none"] = 0 /\ RoleOrder["user"] = 1 /\ RoleOrder["assistant"] = 2 /\ RoleOrder["tool"] = 3
  BY DEF RoleOrder
<1>2. ASSUME NEW x \in Said \cup {NoItem}
      PROVE  /\ x.turn \in Nat /\ x.role \in {"none", "user", "assistant", "tool"} /\ x = [turn |-> x.turn, role |-> x.role]
             /\ RoleOrder[x.role] \in 0..3
             /\ Rank(x) = 4 * x.turn + RoleOrder[x.role]
  <2>1. x.turn \in Nat /\ x.role \in {"none", "user", "assistant", "tool"} /\ x = [turn |-> x.turn, role |-> x.role]
    BY DEF Said, NoItem, Item
  <2>2. RoleOrder[x.role] \in 0..3
    BY <1>1, <2>1
  <2>3. Rank(x) = 4 * x.turn + RoleOrder[x.role]
    BY Zenon DEF Rank
  <2> QED
    BY <2>1, <2>2, <2>3
<1>3. \A x \in Said \cup {NoItem} : Rank(x) \in Nat
  BY <1>2
<1>5. ASSUME NEW x \in Said \cup {NoItem}, NEW y \in Said \cup {NoItem}
      PROVE  Before(x, y) <=> Rank(x) < Rank(y)
  BY <1>2 DEF Before
<1>6. ASSUME NEW x \in Said \cup {NoItem}, NEW y \in Said \cup {NoItem}, Rank(x) = Rank(y)
      PROVE  x = y
  <2>1. x.turn = y.turn /\ RoleOrder[x.role] = RoleOrder[y.role]
    BY <1>2, <1>6
  <2>2. x.role = y.role
    BY <1>1, <1>2, <2>1
  <2> QED
    BY <1>2, <2>1, <2>2
<1> QED
  BY <1>3, <1>5, <1>6

\* Among finitely many items there is a first one and a last one.
LEMMA ItemsHaveEnds ==
    ASSUME NEW n \in Nat, NEW T, T \subseteq Said, T # {}, \A x \in T : x.turn <= n
    PROVE  /\ Latest(T) \in T /\ \A y \in T : y = Latest(T) \/ Before(y, Latest(T))
           /\ \E x \in T : Upto(T, x) = {x} /\ \A y \in T : y = x \/ Before(x, y)
<1> DEFINE ranks == {Rank(x) : x \in T}
<1>1. \A x \in T : Rank(x) \in Nat /\ Rank(x) \in 0..(4 * n + 3)
  <2>1. ASSUME NEW x \in T PROVE Rank(x) \in 0..(4 * n + 3)
    <3>1. x.turn \in Nat /\ x.turn <= n /\ RoleOrder[x.role] \in 0..3
      BY DEF Said, RoleOrder
    <3> QED
      BY <3>1 DEF Rank
  <2> QED
    BY <2>1
<1>2. ranks \subseteq 0..(4 * n + 3) /\ ranks \subseteq Nat /\ ranks # {}
  BY <1>1
<1> HIDE DEF ranks
<1>3. PICK g \in ranks : \A r \in ranks : r <= g
  <2>1. 4 * n + 3 \in Nat
    OBVIOUS
  <2> QED
    BY <1>2, <2>1, HasGreatest
<1>4. PICK l \in ranks : \A r \in ranks : l <= r
  BY <1>2, HasLeast
<1>5. PICK last \in T : Rank(last) = g
  BY <1>3 DEF ranks
<1>6. PICK first \in T : Rank(first) = l
  BY <1>4 DEF ranks
<1>7. \A x \in T : Rank(first) <= Rank(x) /\ Rank(x) <= Rank(last)
  BY <1>3, <1>4, <1>5, <1>6 DEF ranks
<1>8. \A x, y \in T : (Before(x, y) <=> Rank(x) < Rank(y)) /\ (Rank(x) = Rank(y) => x = y)
  BY RanksOrder
<1>9. /\ \A y \in T : y = last \/ Before(y, last)
      /\ \A y \in T : y = first \/ Before(first, y)
      /\ \A y \in T : ~Before(last, y) /\ ~Before(y, first)
  BY <1>1, <1>7, <1>8
<1>10. From(T, last) = {last} /\ Upto(T, first) = {first}
  <2>1. \A x, y \in T : Before(x, y) => ~Before(y, x)
    BY <1>1, <1>8
  <2> QED
    BY <1>8, <1>9, <2>1 DEF From, Upto
<1>11. Latest(T) \in T /\ From(T, Latest(T)) = {Latest(T)}
  BY <1>10, Zenon DEF Latest
<1>12. Latest(T) = last
  <2>1. \A x \in T : From(T, x) = {x} => x = last
    BY <1>9 DEF From
  <2> QED
    BY <1>11, <2>1
<1> QED
  BY <1>9, <1>10, <1>11, <1>12

LEMMA SomeItemsAreFinite == ASSUME NEW n \in Nat, NEW T, T \subseteq Said, \A x \in T : x.turn <= n PROVE IsFiniteSet(T)
<1> DEFINE rank == [x \in T |-> Rank(x)]
<1>1. \A x \in T : Rank(x) \in 0..(4 * n + 3)
  <2>1. ASSUME NEW x \in T PROVE Rank(x) \in 0..(4 * n + 3)
    <3>1. x.turn \in Nat /\ x.turn <= n /\ RoleOrder[x.role] \in 0..3
      BY DEF Said, RoleOrder
    <3> QED
      BY <3>1 DEF Rank
  <2> QED
    BY <2>1
<1>2. rank \in Injection(T, 0..(4 * n + 3))
  BY <1>1, RanksOrder DEF Injection, IsInjective
<1>3. IsFiniteSet(0..(4 * n + 3))
  BY FS_Interval
<1> QED
  BY <1>2, <1>3, FS_Injection

\* What is left of the history, and that a pass has something to read.
LEMMA RemainingIs ==
    ASSUME ContextInv, NEW k \in 1..Len(turn), turn[k] = "compacting"
    PROVE  /\ Len(turn) \in Nat /\ checkpoint.turn < k
           /\ Remaining = {x \in work.history : Before(checkpoint, x)}
           /\ Remaining \subseteq Said /\ \A x \in Remaining : x.turn \in 1..(k - 1) /\ turn[x.turn] = "completed"
           /\ \A x \in Remaining : x.turn <= k
<1>1. /\ Len(turn) \in Nat /\ work.history \subseteq Said /\ work.summary = checkpoint /\ checkpoint \in Said \cup {NoItem}
      /\ \A x \in work.history : x.turn \in 1..(k - 1) /\ turn[x.turn] = "completed"
  BY DEF ContextInv, ContextTypes, ContextTypeOK, Works, Prepared
<1>2. checkpoint = NoItem => checkpoint \notin work.history /\ checkpoint.turn = 0 /\ \A x \in work.history : Before(checkpoint, x)
  BY <1>1 DEF NoItem, Item, Before
<1>3. ASSUME checkpoint # NoItem
      PROVE  checkpoint.turn \in 1..(k - 1) /\ checkpoint \in work.history
  <2>1. IsMessage(checkpoint) /\ checkpoint.turn \in 1..Len(turn) /\ turn[checkpoint.turn] = "completed" /\ checkpoint \in Said
    BY <1>1, <1>3 DEF ContextInv, CheckpointStands
  <2>2. checkpoint.turn < k
    <3>1. checkpoint.turn # k
      BY <2>1
    <3>2. ~(k \in 1..(checkpoint.turn - 1))
      BY <2>1 DEF ContextInv, InOrder, Over
    <3> QED
      BY <1>1, <2>1, <3>1, <3>2
  <2>3. checkpoint.turn \in 1..(k - 1)
    BY <1>1, <2>1, <2>2
  <2>4. checkpoint = Item(checkpoint.turn, "user") \/ checkpoint = Item(checkpoint.turn, "assistant")
    BY <2>1 DEF Said, IsMessage, Item
  <2> QED
    BY <2>1, <2>3, <2>4 DEF ContextInv, Prepared
<1>4. Remaining = {x \in work.history : Before(checkpoint, x)}
  BY <1>1, <1>2, <1>3 DEF Remaining, HistoryAfter
<1> QED
  BY <1>1, <1>2, <1>3, <1>4

LEMMA BoundaryIs ==
    ASSUME ContextInv, NEW k \in 1..Len(turn), turn[k] = "compacting", NeedsCompaction
    PROVE  /\ Boundary \in Remaining /\ Before(checkpoint, Boundary)
           /\ \A x \in Remaining : x = Boundary \/ Before(x, Boundary) => x \in Chunk
<1>1. /\ Remaining \subseteq Said /\ k \in Nat /\ \A x \in Remaining : x.turn <= k
      /\ Remaining = {x \in work.history : Before(checkpoint, x)}
  BY RemainingIs
<1>2. IsFiniteSet(Remaining)
  BY <1>1, SomeItemsAreFinite
<1>3. Cardinality(Remaining) \in Nat /\ Cardinality(Remaining) > Preserve /\ Preserve \in Nat
  BY <1>2, FS_CardinalityType, ContextAssumption DEF NeedsCompaction
<1>4. Remaining # {}
  <2>1. Cardinality({}) = 0
    BY FS_EmptySet
  <2> DEFINE size == Cardinality(Remaining)
  <2>2. size # 0
    <3>1. size \in Nat /\ size > Preserve /\ Preserve \in Nat
      BY <1>3
    <3> HIDE DEF size
    <3> QED
      BY <3>1
  <2> QED
    BY <2>1, <2>2
<1> DEFINE T == {x \in Eligible : \/ Upto(Eligible, x) = {x}
                                 \/ (IF work.summary = NoItem THEN 0 ELSE SectionCost) + Cost(Upto(Eligible, x)) <= ChunkBudget}
<1>5. Eligible \subseteq Remaining
  BY DEF Eligible
<1>6. Eligible # {}
  <2>1. PICK e \in Remaining : \A y \in Remaining : y = e \/ Before(e, y)
    BY <1>1, <1>4, ItemsHaveEnds
  <2>2. Remaining \ {e} \subseteq {y \in Remaining : Before(e, y)}
    BY <2>1
  <2>3. Cardinality(Remaining \ {e}) = Cardinality(Remaining) - 1 /\ IsFiniteSet({y \in Remaining : Before(e, y)})
    BY <1>2, FS_RemoveElement, FS_Subset
  <2>4. Cardinality(Remaining \ {e}) <= Cardinality({y \in Remaining : Before(e, y)})
    BY <2>2, <2>3, FS_Subset
  <2>5. Cardinality({y \in Remaining : Before(e, y)}) \in Nat
    BY <2>3, FS_CardinalityType
  <2>6. Cardinality({y \in Remaining : Before(e, y)}) >= Preserve
    BY <1>3, <2>3, <2>4, <2>5
  <2> QED
    BY <2>6 DEF Eligible
<1>7. T # {} /\ T \subseteq Eligible
  <2>1. \E x \in Eligible : Upto(Eligible, x) = {x}
    BY <1>1, <1>5, <1>6, ItemsHaveEnds
  <2> QED
    BY <2>1
<1>8. Boundary = Latest(T)
  BY Zenon DEF Boundary
<1> HIDE DEF T
<1>9. Boundary \in T
  <2>1. Latest(T) \in T
    BY <1>1, <1>5, <1>7, ItemsHaveEnds
  <2> QED
    BY <1>8, <2>1
<1>10. Boundary \in Eligible /\ Boundary \in Remaining /\ Before(checkpoint, Boundary)
  BY <1>1, <1>5, <1>7, <1>9
<1>11. ASSUME NEW x \in Remaining, x = Boundary \/ Before(x, Boundary)
       PROVE  x \in Eligible
  <2>1. {y \in Remaining : Before(Boundary, y)} \subseteq {y \in Remaining : Before(x, y)}
    BY <1>1, <1>10, <1>11, RanksOrder
  <2>2. IsFiniteSet({y \in Remaining : Before(x, y)}) /\ IsFiniteSet({y \in Remaining : Before(Boundary, y)})
    BY <1>2, FS_Subset
  <2>3. Cardinality({y \in Remaining : Before(Boundary, y)}) <= Cardinality({y \in Remaining : Before(x, y)})
    BY <2>1, <2>2, FS_Subset
  <2>4. Cardinality({y \in Remaining : Before(Boundary, y)}) \in Nat /\ Cardinality({y \in Remaining : Before(x, y)}) \in Nat
    BY <2>2, FS_CardinalityType
  <2>5. Cardinality({y \in Remaining : Before(Boundary, y)}) >= Preserve
    BY <1>10 DEF Eligible
  <2> QED
    BY <1>3, <2>3, <2>4, <2>5 DEF Eligible
<1>12. ASSUME NEW x \in Remaining, x = Boundary \/ Before(x, Boundary)
       PROVE  x \in Chunk
  <2>1. ~Before(Boundary, x)
    BY <1>1, <1>10, <1>12, RanksOrder
  <2> QED
    BY <1>11, <1>12, <2>1 DEF Chunk, Upto
<1> QED
  BY <1>10, <1>12

LEMMA ContextInitially == ContextInit => ContextInv
<1> SUFFICES ASSUME ContextInit PROVE ContextInv
  OBVIOUS
<1>1. turn = <<>> /\ Len(turn) = 0 /\ turn \in Seq(TurnStatuses) /\ long \in Seq(BOOLEAN) /\ pictured \in Seq(BOOLEAN)
      /\ Len(long) = 0 /\ Len(pictured) = 0
  BY EmptySeq DEF ContextInit
<1>2. MaxPasses \in Nat /\ MaxTurns \in Nat /\ Budget \in Nat
  BY ContextAssumption
<1>3. work \in Works /\ work.passes \in 0..MaxPasses
  BY <1>2 DEF ContextInit, Works, NoWork
<1>4. ContextTypes
  BY <1>1, <1>2, <1>3 DEF ContextTypes, ContextTypeOK, ContextInit
<1> QED
  BY <1>1, <1>2, <1>4 DEF ContextInv, ContextInit, InOrder, CheckpointStands, Prepared, PromptFits, NoPrompt, CheckpointReadsEverything

LEMMA ContextShape ==
    ASSUME ContextInv
    PROVE  /\ turn \in Seq(TurnStatuses) /\ Len(turn) \in Nat /\ DOMAIN turn = 1..Len(turn)
           /\ \A k \in 1..Len(turn) : turn[k] \in TurnStatuses
           /\ work \in Works /\ work.history \subseteq Said /\ checkpoint \in Said \cup {NoItem}
BY DEF ContextInv, ContextTypes, ContextTypeOK, Works

LEMMA TurnChanges ==
    ASSUME ContextInv, NEW k \in 1..Len(turn), NEW st \in TurnStatuses, turn' = [turn EXCEPT ![k] = st]
    PROVE  /\ turn' \in Seq(TurnStatuses) /\ Len(turn') = Len(turn) /\ turn'[k] = st
           /\ \A j \in 1..Len(turn) : j # k => turn'[j] = turn[j]
BY ContextShape

LEMMA OneTurnRuns ==
    ASSUME ContextInv, NEW j \in 1..Len(turn), NEW k \in 1..Len(turn),
           turn[j] \in {"compacting", "streaming"}, turn[k] \in {"compacting", "streaming"}
    PROVE  j = k
<1>1. ~(j < k) /\ ~(k < j)
  BY ContextShape DEF ContextInv, InOrder, Over
<1> QED
  BY <1>1

LEMMA CheckpointIsBehind ==
    ASSUME ContextInv, NEW k \in 1..Len(turn), turn[k] \in {"compacting", "streaming"}
    PROVE  checkpoint.turn \in Nat /\ checkpoint.turn < k
<1>1. CASE checkpoint = NoItem
  BY <1>1 DEF NoItem, Item
<1>2. CASE checkpoint # NoItem
  <2>1. checkpoint.turn \in 1..Len(turn) /\ turn[checkpoint.turn] = "completed"
    BY <1>2 DEF ContextInv, CheckpointStands
  <2>2. checkpoint.turn # k /\ ~(k < checkpoint.turn)
    BY <2>1, ContextShape DEF ContextInv, InOrder, Over
  <2> QED
    BY <2>1, <2>2
<1> QED
  BY <1>1, <1>2

\* A turn that stops compacting, replies, fails or is cancelled.
LEMMA TurnGoesOn ==
    ASSUME ContextInv, NEW k \in 1..Len(turn), NEW st \in TurnStatuses, turn' = [turn EXCEPT ![k] = st],
           long' = long, pictured' = pictured, checkpoint' = checkpoint, folded' = folded,
           turn[k] \in {"queued", "compacting", "streaming"},
           st \in Over \cup {"streaming"},
           st = "completed" => turn[k] = "streaming",
           st = "streaming" => turn[k] = "compacting",
           \/ work' = NoWork /\ (turn[k] \in {"compacting", "streaming"} \/ work.turn = k)
           \/ work' = work,
           PromptFits'
    PROVE  ContextInv'
<1>1. /\ turn' \in Seq(TurnStatuses) /\ Len(turn') = Len(turn) /\ turn'[k] = st
      /\ \A j \in 1..Len(turn) : j # k => turn'[j] = turn[j]
  BY TurnChanges
<1>2. ContextTypes'
  <2>1. work' \in Works /\ work'.passes \in 0..MaxPasses
    <3>1. MaxPasses \in Nat /\ 0 \in 0..MaxPasses
      BY ContextAssumption
    <3>2. NoWork \in Works
      BY <3>1 DEF Works, NoWork
    <3>3. \A w \in Works : w.passes \in 0..MaxPasses
      BY DEF Works
    <3>4. work' \in Works
      BY <3>2, ContextShape
    <3> QED
      BY <3>3, <3>4
  <2> QED
    BY <1>1, <2>1 DEF ContextInv, ContextTypes, ContextTypeOK
<1>3. InOrder'
  BY <1>1, ContextShape DEF ContextInv, InOrder, Over
<1>4. CheckpointStands'
  BY <1>1 DEF ContextInv, CheckpointStands
<1>5. Prepared'
  <2> SUFFICES ASSUME NEW j \in 1..Len(turn), turn'[j] = "compacting"
               PROVE  /\ work'.turn = j /\ work'.summary = checkpoint
                      /\ \A x \in work'.history : x.turn \in 1..(j - 1) /\ turn'[x.turn] = "completed"
                      /\ \A i \in 1..(j - 1) : turn'[i] = "completed" => Item(i, "user") \in work'.history /\ Item(i, "assistant") \in work'.history
    BY <1>1 DEF Prepared
  <2>1. j # k /\ turn[j] = "compacting"
    BY <1>1 DEF Over
  <2>2. turn[k] = "queued" /\ st # "completed"
    BY <2>1, OneTurnRuns
  <2>3. /\ work.turn = j /\ work.summary = checkpoint
        /\ \A x \in work.history : x.turn \in 1..(j - 1) /\ turn[x.turn] = "completed"
        /\ \A i \in 1..(j - 1) : turn[i] = "completed" => Item(i, "user") \in work.history /\ Item(i, "assistant") \in work.history
    BY <2>1 DEF ContextInv, Prepared
  <2>4. work' = work
    BY <2>1, <2>2, <2>3
  <2>5. \A i \in 1..(j - 1) : i \in 1..Len(turn) /\ (turn'[i] = "completed" <=> turn[i] = "completed")
    BY <1>1, <2>2, ContextShape
  <2> QED
    BY <2>3, <2>4, <2>5
<1>6. CheckpointReadsEverything'
  <2> SUFFICES ASSUME NEW j \in 1..Len(turn), turn'[j] = "completed", NEW role \in {"user", "assistant"},
                      Item(j, role) = checkpoint \/ Before(Item(j, role), checkpoint)
               PROVE  Item(j, role) \in folded
    BY <1>1 DEF CheckpointReadsEverything
  <2>1. CASE j = k
    <3>1. turn[k] = "streaming"
      BY <1>1, <2>1
    <3>2. checkpoint.turn \in Nat /\ checkpoint.turn < k
      BY <3>1, CheckpointIsBehind
    <3> QED
      BY <2>1, <3>2, ContextShape DEF Item, Before
  <2>2. CASE j # k
    BY <1>1, <2>2 DEF ContextInv, CheckpointReadsEverything
  <2> QED
    BY <2>1, <2>2
<1> QED
  BY <1>2, <1>3, <1>4, <1>5, <1>6 DEF ContextInv

LEMMA EndsKeeps ==
    ASSUME ContextInv, NEW k \in 1..Len(turn), turn[k] \in {"compacting", "streaming"}, NEW st \in Over, Ends(k, st),
           st = "completed" => turn[k] = "streaming"
    PROVE  ContextInv' /\ checkpoint' = checkpoint
<1>1. /\ turn' = [turn EXCEPT ![k] = st] /\ work' = NoWork
      /\ long' = long /\ pictured' = pictured /\ checkpoint' = checkpoint /\ folded' = folded /\ prompt' = prompt
  BY DEF Ends
<1>2. PromptFits'
  BY <1>1 DEF ContextInv, PromptFits
<1>3. st \in TurnStatuses
  BY DEF Over, TurnStatuses
<1> QED
  BY <1>1, <1>2, <1>3, TurnGoesOn DEF Over

LEMMA AskKeeps == ASSUME ContextInv, NEW lengthy \in BOOLEAN, Ask(lengthy) PROVE ContextInv'
<1>1. /\ turn' = Append(turn, "queued") /\ long' = Append(long, lengthy) /\ pictured' = Append(pictured, FALSE)
      /\ checkpoint' = checkpoint /\ folded' = folded /\ work' = work /\ prompt' = prompt /\ Len(turn) < MaxTurns
  BY DEF Ask
<1>2. /\ turn' \in Seq(TurnStatuses) /\ Len(turn') = Len(turn) + 1 /\ turn'[Len(turn) + 1] = "queued"
      /\ \A j \in 1..Len(turn) : turn'[j] = turn[j]
  <2>1. "queued" \in TurnStatuses
    BY DEF TurnStatuses
  <2> QED
    BY <1>1, <2>1, ContextShape, OneMore
<1>3. long' \in Seq(BOOLEAN) /\ Len(long') = Len(turn') /\ pictured' \in Seq(BOOLEAN) /\ Len(pictured') = Len(turn')
  <2>1. long' \in Seq(BOOLEAN) /\ Len(long') = Len(long) + 1
    BY <1>1, OneMore DEF ContextInv, ContextTypes, ContextTypeOK
  <2>2. pictured' \in Seq(BOOLEAN) /\ Len(pictured') = Len(pictured) + 1
    BY <1>1, OneMore DEF ContextInv, ContextTypes, ContextTypeOK
  <2> QED
    BY <1>2, <2>1, <2>2 DEF ContextInv, ContextTypes, ContextTypeOK
<1>4. ContextTypes'
  <2>1. Len(turn') <= MaxTurns
    BY <1>1, <1>2, ContextShape, ContextAssumption
  <2> QED
    BY <1>1, <1>2, <1>3, <2>1 DEF ContextInv, ContextTypes, ContextTypeOK
<1>5. \A j \in 1..Len(turn') : j \in 1..Len(turn) \/ turn'[j] = "queued"
  BY <1>2, ContextShape
<1>6. \A j \in 1..Len(turn) : j \in 1..Len(turn') /\ \A i \in 1..(j - 1) : i \in 1..Len(turn)
  BY <1>2, ContextShape
<1>7. InOrder'
  BY <1>2, <1>5, <1>6 DEF ContextInv, InOrder
<1>8. CheckpointStands'
  BY <1>1, <1>2, <1>6 DEF ContextInv, CheckpointStands
<1>9. Prepared'
  <2> SUFFICES ASSUME NEW j \in 1..Len(turn'), turn'[j] = "compacting"
               PROVE  /\ work.turn = j /\ work.summary = checkpoint
                      /\ \A x \in work.history : x.turn \in 1..(j - 1) /\ turn'[x.turn] = "completed"
                      /\ \A i \in 1..(j - 1) : turn'[i] = "completed" => Item(i, "user") \in work.history /\ Item(i, "assistant") \in work.history
    BY <1>1 DEF Prepared
  <2>1. j \in 1..Len(turn) /\ turn[j] = "compacting"
    BY <1>2, <1>5
  <2> QED
    BY <1>2, <1>6, <2>1 DEF ContextInv, Prepared
<1>10. CheckpointReadsEverything'
  BY <1>1, <1>2, <1>5 DEF ContextInv, CheckpointReadsEverything
<1>11. PromptFits'
  BY <1>1 DEF ContextInv, PromptFits
<1> QED
  BY <1>4, <1>7, <1>8, <1>9, <1>10, <1>11 DEF ContextInv

LEMMA HistoryIs ==
    ASSUME ContextInv, NEW k \in 1..Len(turn)
    PROVE  /\ History(k) \subseteq Said
           /\ \A x \in History(k) : x.turn \in 1..(k - 1) /\ turn[x.turn] = "completed"
           /\ \A j \in 1..(k - 1) : turn[j] = "completed" => Item(j, "user") \in History(k) /\ Item(j, "assistant") \in History(k)
<1>1. ASSUME NEW x \in History(k)
      PROVE  x \in Said /\ x.turn \in 1..(k - 1) /\ turn[x.turn] = "completed"
  <2>1. PICK j \in 1..(k - 1) : turn[j] = "completed" /\ x \in Exchange(j)
    BY DEF History
  <2>2. PICK role \in {"user", "assistant", "tool"} : x = Item(j, role)
    BY <2>1 DEF Exchange
  <2> QED
    BY <2>1, <2>2 DEF Item, Said
<1>2. ASSUME NEW j \in 1..(k - 1), turn[j] = "completed"
      PROVE  Item(j, "user") \in History(k) /\ Item(j, "assistant") \in History(k)
  <2>1. Item(j, "user") \in Exchange(j) /\ Item(j, "assistant") \in Exchange(j)
    BY DEF Exchange
  <2> QED
    BY <1>2, <2>1 DEF History
<1> QED
  BY <1>1, <1>2

LEMMA StartKeeps == ASSUME ContextInv, NEW k \in 1..Len(turn), Start(k) PROVE ContextInv'
<1>1. /\ turn' = [turn EXCEPT ![k] = "compacting"] /\ turn[k] = "queued" /\ \A j \in 1..(k - 1) : turn[j] \in Over
      /\ work' = [NoWork EXCEPT !.turn = k, !.history = History(k), !.summary = checkpoint]
      /\ long' = long /\ pictured' = pictured /\ checkpoint' = checkpoint /\ folded' = folded /\ prompt' = prompt
  BY DEF Start, IsNext
<1>2. /\ turn' \in Seq(TurnStatuses) /\ Len(turn') = Len(turn) /\ turn'[k] = "compacting"
      /\ \A j \in 1..Len(turn) : j # k => turn'[j] = turn[j]
  <2>1. "compacting" \in TurnStatuses
    BY DEF TurnStatuses
  <2> QED
    BY <1>1, <2>1, TurnChanges
<1>3. work' = [turn |-> k, history |-> History(k), summary |-> checkpoint, passes |-> 0, degraded |-> FALSE]
  BY <1>1 DEF NoWork
<1>4. work' \in Works /\ work'.turn = k /\ work'.history = History(k) /\ work'.summary = checkpoint /\ work'.passes = 0
  <2>1. MaxPasses \in Nat /\ k \in Nat
    BY ContextAssumption, ContextShape
  <2> QED
    BY <1>3, <2>1, HistoryIs, ContextShape DEF Works
<1>5. ContextTypes'
  <2>1. work'.passes \in 0..MaxPasses
    BY <1>4, ContextAssumption
  <2> QED
    BY <1>1, <1>2, <1>4, <2>1 DEF ContextInv, ContextTypes, ContextTypeOK
<1>6. InOrder'
  BY <1>1, <1>2, ContextShape DEF ContextInv, InOrder, Over
<1>7. \A j \in 1..Len(turn) : turn'[j] = "completed" <=> turn[j] = "completed"
  BY <1>1, <1>2
<1>8. CheckpointStands'
  BY <1>1, <1>2, <1>7 DEF ContextInv, CheckpointStands
<1>9. Prepared'
  <2>1. ASSUME NEW j \in 1..Len(turn), turn'[j] = "compacting" PROVE j = k
    <3>1. j # k => turn[j] = "compacting"
      BY <1>2, <2>1
    <3>2. turn[j] = "compacting" => ~(k < j) /\ ~(j < k)
      BY <1>1, ContextShape DEF ContextInv, InOrder, Over
    <3> QED
      BY <3>1, <3>2
  <2>2. \A i \in 1..(k - 1) : i \in 1..Len(turn)
    BY ContextShape
  <2>3. /\ \A x \in work'.history : x.turn \in 1..(k - 1) /\ turn'[x.turn] = "completed"
        /\ \A i \in 1..(k - 1) : turn'[i] = "completed" => Item(i, "user") \in work'.history /\ Item(i, "assistant") \in work'.history
    BY <1>4, <1>7, <2>2, HistoryIs
  <2> QED
    BY <1>1, <1>2, <1>4, <2>1, <2>3 DEF Prepared
<1>10. CheckpointReadsEverything'
  BY <1>1, <1>2, <1>7 DEF ContextInv, CheckpointReadsEverything
<1>11. PromptFits'
  BY <1>1 DEF ContextInv, PromptFits
<1> QED
  BY <1>5, <1>6, <1>8, <1>9, <1>10, <1>11 DEF ContextInv

\* A summary reads everything between the checkpoint before it and its own.
LEMMA SummarizeKeeps ==
    ASSUME ContextInv, NEW k \in 1..Len(turn), Summarize(k)
    PROVE  ContextInv' /\ (checkpoint' # checkpoint => Before(checkpoint, checkpoint'))
<1>1. turn[k] = "compacting" /\ NeedsCompaction /\ work.passes < MaxPasses
  BY DEF Summarize
<1>2. CASE Ends(k, "broken")
  <2>1. ContextInv' /\ checkpoint' = checkpoint
    BY <1>1, <1>2, EndsKeeps DEF Over
  <2> QED
    BY <2>1
<1>3. CASE /\ IsMessage(Boundary)
           /\ checkpoint' = Boundary
           /\ folded' = folded \cup Chunk
           /\ work' = [work EXCEPT !.summary = Boundary, !.passes = @ + 1]
           /\ UNCHANGED <<turn, long, pictured, prompt>>
  <2>1. turn' = turn /\ long' = long /\ pictured' = pictured /\ prompt' = prompt
    BY <1>3
  <2>2. /\ Boundary \in Remaining /\ Before(checkpoint, Boundary)
        /\ \A x \in Remaining : x = Boundary \/ Before(x, Boundary) => x \in Chunk
    BY <1>1, BoundaryIs
  <2>3. /\ Remaining = {x \in work.history : Before(checkpoint, x)} /\ Remaining \subseteq Said
        /\ \A x \in Remaining : x.turn \in 1..(k - 1) /\ turn[x.turn] = "completed"
    BY <1>1, RemainingIs
  <2>4. Boundary \in Said /\ Boundary.turn \in 1..(k - 1) /\ Boundary.turn \in 1..Len(turn) /\ turn[Boundary.turn] = "completed"
    BY <2>2, <2>3, ContextShape
  <2> DEFINE next == Boundary
  <2>5. PICK b : b = Boundary
    OBVIOUS
  <2>6. /\ work' \in Works /\ work'.summary = b /\ work'.passes \in 0..MaxPasses
        /\ work'.turn = work.turn /\ work'.history = work.history
    <3>1. /\ work = [turn |-> work.turn, history |-> work.history, summary |-> work.summary,
                     passes |-> work.passes, degraded |-> work.degraded]
          /\ work.turn \in Nat /\ work.history \subseteq Said /\ work.passes \in 0..MaxPasses /\ work.degraded \in BOOLEAN
      BY ContextShape DEF Works
    <3>2. work' = [turn |-> work.turn, history |-> work.history, summary |-> b, passes |-> work.passes + 1, degraded |-> work.degraded]
      BY <1>3, <2>5, <3>1
    <3>3. work.passes + 1 \in 0..MaxPasses
      BY <1>1, <3>1, ContextAssumption
    <3> QED
      BY <2>4, <2>5, <3>1, <3>2, <3>3 DEF Works
  <2>7. checkpoint' = b /\ folded' = folded \cup Chunk
    BY <1>3, <2>5
  <2>8. ContextTypes'
    BY <2>1, <2>4, <2>5, <2>6, <2>7 DEF ContextInv, ContextTypes, ContextTypeOK
  <2>9. InOrder' /\ PromptFits'
    BY <2>1 DEF ContextInv, InOrder, PromptFits
  <2>10. CheckpointStands'
    BY <1>3, <2>1, <2>4, <2>5, <2>7 DEF CheckpointStands, IsMessage
  <2>11. Prepared'
    <3>1. \A j \in 1..Len(turn) : turn[j] = "compacting" => j = k
      BY <1>1, OneTurnRuns
    <3> QED
      BY <1>1, <2>1, <2>6, <2>7, <3>1 DEF ContextInv, Prepared
  <2>12. CheckpointReadsEverything'
    <3> SUFFICES ASSUME NEW j \in 1..Len(turn), turn[j] = "completed", NEW role \in {"user", "assistant"},
                        Item(j, role) = b \/ Before(Item(j, role), b)
                 PROVE  Item(j, role) \in folded'
      BY <2>1, <2>7 DEF CheckpointReadsEverything
    <3>1. Item(j, role) \in Said /\ Item(j, role).turn = j /\ b \in Said /\ j \in Nat
      BY <2>4, <2>5, ContextShape DEF Said, Item
    <3>2. j \in 1..(k - 1)
      BY <2>4, <2>5, <3>1, ContextShape DEF Before
    <3>3. Item(j, role) \in work.history
      BY <1>1, <3>2 DEF ContextInv, Prepared
    <3>4. CASE Before(checkpoint, Item(j, role))
      BY <2>2, <2>3, <2>5, <2>7, <3>3, <3>4
    <3>5. CASE ~Before(checkpoint, Item(j, role))
      <4>1. checkpoint \in Said \cup {NoItem}
        BY ContextShape
      <4>2. Item(j, role) = checkpoint \/ Before(Item(j, role), checkpoint)
        BY <3>1, <3>5, <4>1, RanksOrder
      <4>3. Item(j, role) \in folded
        BY <4>2 DEF ContextInv, CheckpointReadsEverything
      <4> QED
        BY <2>7, <4>3
    <3> QED
      BY <3>4, <3>5
  <2>13. Before(checkpoint, checkpoint')
    BY <2>2, <2>5, <2>7
  <2> QED
    BY <2>8, <2>9, <2>10, <2>11, <2>12, <2>13 DEF ContextInv
<1> QED
  BY <1>2, <1>3 DEF Summarize

LEMMA SummaryFailsKeeps == ASSUME ContextInv, NEW k \in 1..Len(turn), SummaryFails(k) PROVE ContextInv' /\ checkpoint' = checkpoint
<1>1. /\ work' = [work EXCEPT !.degraded = TRUE]
      /\ turn' = turn /\ long' = long /\ pictured' = pictured /\ checkpoint' = checkpoint /\ folded' = folded /\ prompt' = prompt
  BY DEF SummaryFails
<1>2. /\ work' \in Works /\ work'.summary = work.summary /\ work'.passes = work.passes
      /\ work'.turn = work.turn /\ work'.history = work.history
  BY <1>1, ContextShape DEF Works
<1>3. ContextTypes'
  BY <1>1, <1>2 DEF ContextInv, ContextTypes, ContextTypeOK
<1>4. Prepared'
  BY <1>1, <1>2 DEF ContextInv, Prepared
<1> QED
  BY <1>1, <1>3, <1>4 DEF ContextInv, InOrder, CheckpointStands, PromptFits, CheckpointReadsEverything

LEMMA PlanKeeps == ASSUME ContextInv, NEW k \in 1..Len(turn), Plan(k) PROVE ContextInv' /\ checkpoint' = checkpoint
<1>1. turn[k] = "compacting"
  BY DEF Plan
<1>2. CASE Ends(k, "failed")
  BY <1>1, <1>2, EndsKeeps DEF Over
<1>3. CASE ~Ends(k, "failed")
  <2>1. PICK wanted \in OptionalSections :
           LET sections == FloorSections(k, wanted, Remaining)
               selected == SelectHistory(Remaining, Room(k, sections))
           IN  /\ Fits(k, sections, selected)
               /\ prompt' = [turn |-> k, items |-> selected.items, sections |-> sections,
                             cost |-> Fixed(k, sections) + selected.cost]
               /\ turn' = [turn EXCEPT ![k] = "streaming"]
               /\ work' = NoWork
               /\ UNCHANGED <<long, pictured, checkpoint, folded>>
    BY <1>3, Zenon DEF Plan
  <2>2. /\ turn' = [turn EXCEPT ![k] = "streaming"] /\ work' = NoWork
        /\ long' = long /\ pictured' = pictured /\ checkpoint' = checkpoint /\ folded' = folded
    BY <2>1
  <2>3. PromptFits'
    BY <2>1 DEF PromptFits, Fits
  <2>4. "streaming" \in TurnStatuses
    BY DEF TurnStatuses
  <2>5. ContextInv'
    BY <1>1, <2>2, <2>3, <2>4, TurnGoesOn
  <2> QED
    BY <2>2, <2>5
<1> QED
  BY <1>2, <1>3

LEMMA ReplyKeeps == ASSUME ContextInv, NEW k \in 1..Len(turn), Reply(k) PROVE ContextInv' /\ checkpoint' = checkpoint
<1>1. turn[k] = "streaming" /\ \E st \in {"completed", "failed"} : Ends(k, st)
  BY DEF Reply
<1> QED
  BY <1>1, EndsKeeps DEF Over

LEMMA CancelKeeps == ASSUME ContextInv, NEW k \in 1..Len(turn), CancelTurn(k) PROVE ContextInv' /\ checkpoint' = checkpoint
<1>1. /\ turn[k] \in {"queued", "compacting", "streaming"} /\ turn' = [turn EXCEPT ![k] = "cancelled"]
      /\ work' = (IF work.turn = k THEN NoWork ELSE work)
      /\ long' = long /\ pictured' = pictured /\ checkpoint' = checkpoint /\ folded' = folded /\ prompt' = prompt
  BY DEF CancelTurn
<1>2. PromptFits'
  BY <1>1 DEF ContextInv, PromptFits
<1>3. "cancelled" \in TurnStatuses /\ "cancelled" \in Over
  BY DEF TurnStatuses, Over
<1> QED
  BY <1>1, <1>2, <1>3, TurnGoesOn

LEMMA PlanningEndKeeps == ASSUME ContextInv, NEW k \in 1..Len(turn), PlanningEnds(k) PROVE ContextInv' /\ checkpoint' = checkpoint
<1>1. /\ pictured' = [pictured EXCEPT ![k] = TRUE]
      /\ turn' = turn /\ long' = long /\ work' = work /\ checkpoint' = checkpoint /\ folded' = folded /\ prompt' = prompt
  BY DEF PlanningEnds
<1>2. ContextTypes'
  BY <1>1 DEF ContextInv, ContextTypes, ContextTypeOK
<1> QED
  BY <1>1, <1>2 DEF ContextInv, InOrder, CheckpointStands, Prepared, PromptFits, CheckpointReadsEverything

LEMMA ContextStays ==
    ASSUME ContextInv, [ContextNext]_contextVars
    PROVE  ContextInv' /\ (checkpoint' # checkpoint => Before(checkpoint, checkpoint'))
<1>1. CASE UNCHANGED contextVars
  BY <1>1 DEF contextVars, ContextInv, ContextTypes, ContextTypeOK, InOrder, CheckpointStands, Prepared, PromptFits, CheckpointReadsEverything
<1>2. ASSUME NEW lengthy \in BOOLEAN, Ask(lengthy) PROVE ContextInv' /\ checkpoint' = checkpoint
  BY <1>2, AskKeeps DEF Ask
<1>3. ASSUME NEW k \in 1..Len(turn), Start(k) PROVE ContextInv' /\ checkpoint' = checkpoint
  BY <1>3, StartKeeps DEF Start
<1>4. ASSUME NEW k \in 1..Len(turn), TurnStep(k)
      PROVE  ContextInv' /\ (checkpoint' # checkpoint => Before(checkpoint, checkpoint'))
  BY <1>3, <1>4, SummarizeKeeps, SummaryFailsKeeps, PlanKeeps, ReplyKeeps, CancelKeeps, PlanningEndKeeps DEF TurnStep
<1> QED
  BY <1>1, <1>2, <1>4 DEF ContextNext

LEMMA ContextInvHolds == ContextSpec => []ContextInv
BY ContextInitially, ContextStays, PTL DEF ContextSpec

\* Whatever is compacted, cancelled or planned in whatever turn, what is sent
\* fits its budget, and a checkpoint stands for what summaries have read
\* (ContextService.plan, _compact_if_needed, _summarize_chunk).
THEOREM CheckpointsStandForWhatWasRead == ContextSpec => []ContextInvariant
<1>1. ContextInv => ContextInvariant
  BY DEF ContextInv, ContextTypes, ContextInvariant
<1> QED
  BY <1>1, ContextInvHolds, PTL

\* Every summary reaches further than the one before: the boundary of a pass is
\* one of the messages that the last checkpoint left (_history_after_summary).
THEOREM SummariesNeverReturn == ContextSpec => CheckpointsAdvance
<1>1. ASSUME ContextInv, [ContextNext]_contextVars
      PROVE  [checkpoint' # checkpoint => Before(checkpoint, checkpoint')]_contextVars
  BY <1>1, ContextStays
<1> QED
  BY <1>1, ContextInvHolds, PTL DEF ContextSpec, CheckpointsAdvance

-----------------------------------------------------------------------------
(* Archives.  What the database names and is still in its place is in the    *)
(* archive, or read but not written, or in a directory still to be read;     *)
(* and what is pruned was listed with as many newer ones as are kept.        *)

Calling == {"none", "database", "walking", "closed", "published", "pruning", "made", "failed"}

Snapshots ==
    [at : Calling, media : BOOLEAN, steady : SUBSET Artifacts, entries : SUBSET Artifacts,
     dirs : Seq(Range(MediaDirs)), todo : SUBSET Artifacts, listing : SUBSET Nat]

BackupTypes ==
    /\ artifact \in [Artifacts -> Lives]
    /\ making \in [Admins -> Snapshots]
    /\ closed \in Seq(Admins)
    /\ fate \in [Admins -> {"unmade", "published", "pruned", "deleted"}]

IsClosed(a) == \E i \in 1..Len(closed) : closed[i] = a
StillToRead(a, f) == \E i \in 1..Len(making[a].dirs) : making[a].dirs[i] = DirOf[f]

\* How far a call has come, with its archive.
Progress(a) ==
    /\ making[a].at \in {"none", "database", "walking"} => ~IsClosed(a)
    /\ making[a].at \in {"none", "database", "walking", "closed"} => fate[a] = "unmade"
    /\ making[a].at = "closed" \/ fate[a] # "unmade" => IsClosed(a)
    /\ making[a].at \in {"published", "pruning"} => fate[a] # "unmade"

\* What a walk has still to do.
Walk(a) ==
    /\ making[a].at \in {"none", "database"} => making[a].steady = {}
    /\ making[a].at = "database" /\ making[a].media => making[a].dirs = MediaDirs
    /\ making[a].at = "walking" /\ making[a].media =>
          \A f \in making[a].steady :
             OnDisk(f) /\ (f \in making[a].entries \cup making[a].todo \/ StillToRead(a, f))
    /\ making[a].at \in {"closed", "published", "pruning"} /\ making[a].media => making[a].steady \subseteq making[a].entries

\* What was listed had been published.
ListedArchives(a) == \A i \in making[a].listing : i \in 1..Len(closed) /\ fate[closed[i]] # "unmade"

BackupInv ==
    /\ BackupTypes
    /\ \A i, j \in 1..Len(closed) : closed[i] = closed[j] => i = j
    /\ \A a \in Admins : Progress(a) /\ Walk(a) /\ ListedArchives(a)
    /\ PrunedWasOld

LEMMA BackupShape ==
    ASSUME BackupInv, NEW a \in Admins
    PROVE  /\ making[a] \in Snapshots /\ making[a].at \in Calling /\ making[a].media \in BOOLEAN
           /\ making[a].steady \subseteq Artifacts /\ making[a].entries \subseteq Artifacts
           /\ making[a].todo \subseteq Artifacts /\ making[a].dirs \in Seq(Range(MediaDirs))
           /\ making[a].listing \subseteq 1..Len(closed)
           /\ closed \in Seq(Admins) /\ Len(closed) \in Nat /\ DOMAIN closed = 1..Len(closed)
BY DEF BackupInv, BackupTypes, Snapshots, ListedArchives

LEMMA NoSnapshotIs ==
    /\ NoSnapshot \in Snapshots /\ NoSnapshot.at = "none" /\ NoSnapshot.listing = {} /\ NoSnapshot.steady = {}
    /\ \A at \in Calling : /\ [NoSnapshot EXCEPT !.at = at] \in Snapshots
                          /\ [NoSnapshot EXCEPT !.at = at].at = at /\ [NoSnapshot EXCEPT !.at = at].listing = {}
<1>1. <<>> \in Seq(Range(MediaDirs))
  OBVIOUS
<1>2. NoSnapshot \in Snapshots /\ NoSnapshot.at = "none" /\ NoSnapshot.listing = {} /\ NoSnapshot.steady = {}
  BY <1>1 DEF Snapshots, NoSnapshot, Calling
<1>3. \A r \in Snapshots : \A at \in Calling :
         [r EXCEPT !.at = at] \in Snapshots /\ [r EXCEPT !.at = at].at = at /\ [r EXCEPT !.at = at].listing = r.listing
  BY DEF Snapshots
<1> QED
  BY <1>2, <1>3

LEMMA BackupInitially == BackupInit => BackupInv
<1> SUFFICES ASSUME BackupInit PROVE BackupInv
  OBVIOUS
<1>1. closed = <<>> /\ Len(closed) = 0 /\ closed \in Seq(Admins) /\ DOMAIN closed = {}
  BY EmptySeq DEF BackupInit
<1>2. NoSnapshot \in Snapshots /\ NoSnapshot.at = "none" /\ NoSnapshot.listing = {} /\ NoSnapshot.steady = {}
  BY NoSnapshotIs
<1>3. \A a \in Admins : making[a] = NoSnapshot /\ fate[a] = "unmade"
  BY DEF BackupInit
<1>4. BackupTypes
  <2>1. artifact \in [Artifacts -> Lives]
    BY DEF BackupInit, Lives
  <2>2. making \in [Admins -> Snapshots]
    BY <1>2 DEF BackupInit
  <2>3. fate \in [Admins -> {"unmade", "published", "pruned", "deleted"}]
    BY DEF BackupInit
  <2> QED
    BY <1>1, <2>1, <2>2, <2>3 DEF BackupTypes
<1>5. \A a \in Admins : Progress(a) /\ Walk(a) /\ ListedArchives(a)
  BY <1>1, <1>2, <1>3 DEF Progress, Walk, ListedArchives, IsClosed
<1>6. PrunedWasOld
  BY <1>3 DEF PrunedWasOld
<1> QED
  BY <1>1, <1>4, <1>5, <1>6 DEF BackupInv

\* What was pruned stays old: archives are only added, and none becomes unmade.
LEMMA OldStaysOld ==
    ASSUME BackupInv, closed' \in Seq(Admins), Len(closed') >= Len(closed),
           \A i \in 1..Len(closed) : closed'[i] = closed[i],
           \A a \in Admins : fate[a] # "unmade" => fate'[a] # "unmade",
           NEW a \in Admins, NEW i \in 1..Len(closed), closed[i] = a,
           Cardinality({j \in DOMAIN closed : j > i /\ fate[closed[j]] # "unmade"}) >= SnapshotLimit
    PROVE  \E k \in DOMAIN closed' : closed'[k] = a
              /\ Cardinality({j \in DOMAIN closed' : j > k /\ fate'[closed'[j]] # "unmade"}) >= SnapshotLimit
<1> DEFINE old == {j \in DOMAIN closed : j > i /\ fate[closed[j]] # "unmade"}
           new == {j \in DOMAIN closed' : j > i /\ fate'[closed'[j]] # "unmade"}
<1>1. closed \in Seq(Admins) /\ Len(closed) \in Nat /\ DOMAIN closed = 1..Len(closed) /\ DOMAIN closed' = 1..Len(closed') /\ Len(closed') \in Nat
  <2>1. closed \in Seq(Admins)
    BY BackupShape
  <2> QED
    BY <2>1
<1>2. \A j \in 1..Len(closed) : j \in 1..Len(closed') /\ closed[j] \in Admins
  BY <1>1
<1>3. old \subseteq new /\ new \subseteq 1..Len(closed') /\ i \in DOMAIN closed'
  BY <1>1, <1>2
<1>4. IsFiniteSet(1..Len(closed'))
  BY <1>1, FS_Interval
<1> HIDE DEF old, new
<1>5. IsFiniteSet(new) /\ IsFiniteSet(old)
  BY <1>3, <1>4, FS_Subset
<1>6. Cardinality(old) <= Cardinality(new) /\ Cardinality(old) \in Nat /\ Cardinality(new) \in Nat
  BY <1>3, <1>5, FS_Subset, FS_CardinalityType
<1>7. Cardinality(new) >= SnapshotLimit
  BY <1>6, BackupAssumption DEF old
<1>8. closed'[i] = a
  OBVIOUS
<1> QED
  BY <1>3, <1>7, <1>8 DEF new

LEMMA NoneNewlyPruned ==
    ASSUME BackupInv, closed' \in Seq(Admins), Len(closed') >= Len(closed),
           \A i \in 1..Len(closed) : closed'[i] = closed[i],
           \A a \in Admins : fate[a] # "unmade" => fate'[a] # "unmade",
           \A a \in Admins : fate'[a] = "pruned" => fate[a] = "pruned"
    PROVE  PrunedWasOld'
<1> SUFFICES ASSUME NEW a \in Admins, fate[a] = "pruned"
             PROVE  \E k \in DOMAIN closed' : closed'[k] = a
                       /\ Cardinality({j \in DOMAIN closed' : j > k /\ fate'[closed'[j]] # "unmade"}) >= SnapshotLimit
  BY DEF PrunedWasOld
<1>1. PICK i \in DOMAIN closed : closed[i] = a
         /\ Cardinality({j \in DOMAIN closed : j > i /\ fate[closed[j]] # "unmade"}) >= SnapshotLimit
  BY DEF BackupInv, PrunedWasOld
<1>2. i \in 1..Len(closed)
  BY BackupShape
<1> QED
  BY <1>1, <1>2, OldStaysOld

LEMMA SamePruned == ASSUME BackupInv, closed' = closed, fate' = fate PROVE PrunedWasOld'
<1>1. closed \in Seq(Admins) /\ Len(closed) >= Len(closed)
  BY DEF BackupInv, BackupTypes
<1> QED
  BY <1>1, NoneNewlyPruned

LEMMA FileMaturesKeeps == ASSUME BackupInv, NEW f \in Artifacts, ArtifactLives(f) PROVE BackupInv'
<1>1. PICK next \in Lives : Matures(artifact[f], next) /\ artifact' = [artifact EXCEPT ![f] = next]
  BY DEF ArtifactLives
<1>2. making' = making /\ closed' = closed /\ fate' = fate
  BY DEF ArtifactLives
<1>3. next \in {"file", "named", "unnamed"}
  BY <1>1 DEF Matures
<1>4. artifact' \in [Artifacts -> Lives] /\ \A g \in Artifacts : OnDisk(g) => OnDisk(g)'
  BY <1>1, <1>3 DEF BackupInv, BackupTypes, OnDisk
<1>5. BackupTypes'
  BY <1>2, <1>4 DEF BackupInv, BackupTypes
<1>6. ASSUME NEW a \in Admins PROVE Walk(a)' /\ Progress(a)' /\ ListedArchives(a)'
  <2>1. making[a].steady \subseteq Artifacts /\ Walk(a) /\ Progress(a) /\ ListedArchives(a)
    BY BackupShape DEF BackupInv
  <2> QED
    BY <1>2, <1>4, <2>1 DEF Walk, Progress, ListedArchives, IsClosed, StillToRead
<1>7. PrunedWasOld'
  BY <1>2, SamePruned
<1> QED
  BY <1>2, <1>5, <1>6, <1>7 DEF BackupInv

LEMMA UnlinkFileKeeps == ASSUME BackupInv, NEW f \in Artifacts, Unlinked(f) PROVE BackupInv'
<1>1. /\ artifact' = [artifact EXCEPT ![f] = "gone"]
      /\ making' = [a \in Admins |-> [making[a] EXCEPT !.steady = @ \ {f}]]
      /\ closed' = closed /\ fate' = fate
  BY DEF Unlinked
<1>2. artifact' \in [Artifacts -> Lives] /\ \A g \in Artifacts : g # f /\ OnDisk(g) => OnDisk(g)'
  BY <1>1 DEF BackupInv, BackupTypes, OnDisk, Lives
<1>3. ASSUME NEW a \in Admins
      PROVE  /\ making'[a] \in Snapshots /\ making'[a].at = making[a].at /\ making'[a].media = making[a].media
             /\ making'[a].steady = making[a].steady \ {f} /\ making'[a].entries = making[a].entries
             /\ making'[a].dirs = making[a].dirs /\ making'[a].todo = making[a].todo /\ making'[a].listing = making[a].listing
  <2>1. making'[a] = [making[a] EXCEPT !.steady = @ \ {f}] /\ making[a] \in Snapshots
    BY <1>1, BackupShape
  <2> QED
    BY <2>1 DEF Snapshots
<1>4. BackupTypes'
  <2>1. making' \in [Admins -> Snapshots]
    BY <1>1, <1>3
  <2> QED
    BY <1>1, <1>2, <2>1 DEF BackupInv, BackupTypes
<1>5. ASSUME NEW a \in Admins PROVE Walk(a)' /\ Progress(a)' /\ ListedArchives(a)'
  <2>1. making[a].steady \subseteq Artifacts /\ Walk(a) /\ Progress(a) /\ ListedArchives(a)
    BY BackupShape DEF BackupInv
  <2>2. Walk(a)'
    BY <1>2, <1>3, <2>1 DEF Walk, StillToRead
  <2>3. Progress(a)' /\ ListedArchives(a)'
    BY <1>1, <1>3, <2>1 DEF Progress, ListedArchives, IsClosed
  <2> QED
    BY <2>2, <2>3
<1>6. PrunedWasOld'
  BY <1>1, SamePruned
<1> QED
  BY <1>1, <1>4, <1>5, <1>6 DEF BackupInv

\* A step of one call that closes no archive: what it needs to keep.
LEMMA CallKeeps ==
    ASSUME BackupInv, NEW a \in Admins, NEW s \in Snapshots, making' = [making EXCEPT ![a] = s],
           artifact' = artifact, closed' = closed, fate' \in [Admins -> {"unmade", "published", "pruned", "deleted"}],
           \A b \in Admins : fate[b] # "unmade" => fate'[b] # "unmade",
           \A b \in Admins : b # a => (fate'[b] = "unmade" <=> fate[b] = "unmade"),
           Progress(a)', Walk(a)', ListedArchives(a)', PrunedWasOld'
    PROVE  BackupInv'
<1>1. making' \in [Admins -> Snapshots] /\ \A b \in Admins : b # a => making'[b] = making[b]
  BY DEF BackupInv, BackupTypes
<1>2. BackupTypes'
  BY <1>1 DEF BackupInv, BackupTypes
<1>3. ASSUME NEW b \in Admins, b # a PROVE Walk(b)' /\ Progress(b)' /\ ListedArchives(b)'
  <2>1. Walk(b) /\ Progress(b) /\ ListedArchives(b) /\ making'[b] = making[b] /\ (fate'[b] = "unmade" <=> fate[b] = "unmade")
    BY <1>1, <1>3 DEF BackupInv
  <2>2. Walk(b)'
    BY <2>1 DEF Walk, StillToRead, OnDisk
  <2>3. Progress(b)'
    BY <2>1 DEF Progress, IsClosed
  <2>4. ListedArchives(b)'
    <3>1. closed \in Seq(Admins) /\ DOMAIN closed = 1..Len(closed) /\ closed' = closed
      BY BackupShape
    <3>2. ASSUME NEW i \in making[b].listing PROVE i \in 1..Len(closed) /\ fate'[closed[i]] # "unmade"
      <4>1. i \in 1..Len(closed) /\ fate[closed[i]] # "unmade"
        BY <2>1 DEF ListedArchives
      <4>2. closed[i] \in Admins
        BY <3>1, <4>1, ElementOfSeq
      <4> QED
        BY <4>1, <4>2
    <3> QED
      BY <2>1, <3>1, <3>2 DEF ListedArchives
  <2> QED
    BY <2>2, <2>3, <2>4
<1> QED
  BY <1>2, <1>3 DEF BackupInv

\* A step that changes the record of one call, and nothing else.
LEMMA OwnStepKeeps ==
    ASSUME BackupInv, NEW a \in Admins, NEW s \in Snapshots, making' = [making EXCEPT ![a] = s],
           artifact' = artifact, closed' = closed, fate' = fate,
           Progress(a)', Walk(a)', ListedArchives(a)'
    PROVE  BackupInv'
<1>1. PrunedWasOld'
  BY SamePruned
<1>2. fate' \in [Admins -> {"unmade", "published", "pruned", "deleted"}]
  BY DEF BackupInv, BackupTypes
<1> QED
  BY <1>1, <1>2, CallKeeps

\* A call that is over has nothing more to keep than where its archive is.
LEMMA CallEnds ==
    ASSUME BackupInv, NEW a \in Admins, NEW at \in {"made", "failed"}, EndCall(a, at),
           artifact' = artifact, closed' = closed, fate' \in [Admins -> {"unmade", "published", "pruned", "deleted"}],
           \A b \in Admins : fate'[b] = "unmade" <=> fate[b] = "unmade",
           PrunedWasOld'
    PROVE  BackupInv'
<1> DEFINE s == [NoSnapshot EXCEPT !.at = at]
<1>1. s \in Snapshots /\ s.at = at /\ s.listing = {}
  <2>1. at \in Calling
    BY DEF Calling
  <2> QED
    BY <2>1, NoSnapshotIs
<1>2. making' = [making EXCEPT ![a] = s]
  BY DEF EndCall
<1> HIDE DEF s
<1>3. making'[a] = s
  BY <1>2 DEF BackupInv, BackupTypes
<1>4. Progress(a)
  BY DEF BackupInv
<1>5. Progress(a)' /\ Walk(a)' /\ ListedArchives(a)'
  BY <1>1, <1>3, <1>4 DEF Progress, Walk, ListedArchives, IsClosed
<1> QED
  BY <1>1, <1>2, <1>5, CallKeeps

LEMMA BeginKeepsArchives == ASSUME BackupInv, NEW a \in Admins, BeginSnapshot(a) PROVE BackupInv'
<1>1. PICK media \in BOOLEAN :
         making' = [making EXCEPT ![a].at = "database", ![a].media = media, ![a].dirs = IF media THEN MediaDirs ELSE <<>>]
  BY DEF BeginSnapshot
<1>2. artifact' = artifact /\ closed' = closed /\ fate' = fate /\ making[a].at = "none"
  BY DEF BeginSnapshot
<1>3. PICK dirs : dirs = (IF media THEN MediaDirs ELSE <<>>)
  OBVIOUS
<1>4. dirs \in Seq(Range(MediaDirs))
  BY <1>3, BackupAssumption
<1>5. PICK s \in Snapshots :
       /\ s = [making[a] EXCEPT !.at = "database", !.media = media, !.dirs = dirs]
       /\ s.at = "database" /\ s.media = media /\ s.steady = making[a].steady
       /\ s.entries = making[a].entries /\ s.dirs = dirs /\ s.todo = making[a].todo
       /\ s.listing = making[a].listing
  <2>1. making[a] \in Snapshots
    BY BackupShape
  <2>2. PICK e : e = [making[a] EXCEPT !.at = "database", !.media = media, !.dirs = dirs]
    OBVIOUS
  <2>3. e \in Snapshots /\ e.at = "database" /\ e.media = media /\ e.steady = making[a].steady
     /\ e.entries = making[a].entries /\ e.dirs = dirs /\ e.todo = making[a].todo
     /\ e.listing = making[a].listing
    BY <2>1, <2>2, <1>4 DEF Snapshots, Calling
  <2> QED
    BY <2>2, <2>3
<1>6. s \in Snapshots /\ making' = [making EXCEPT ![a] = s]
  BY <1>1, <1>3, <1>5
<1>7. making'[a] = s
  BY <1>6 DEF BackupInv, BackupTypes
<1>8. Progress(a) /\ Walk(a) /\ ListedArchives(a)
  BY DEF BackupInv
<1>9. Progress(a)' /\ Walk(a)'
  BY <1>2, <1>3, <1>5, <1>7, <1>8 DEF Progress, Walk, IsClosed
<1>10. ListedArchives(a)'
  BY <1>2, <1>5, <1>7, <1>8 DEF ListedArchives
<1> QED
  BY <1>2, <1>6, <1>9, <1>10, OwnStepKeeps

LEMMA CopyKeeps == ASSUME BackupInv, NEW a \in Admins, CopyDatabase(a) PROVE BackupInv'
<1>1. /\ making[a].at = "database" /\ making' = [making EXCEPT ![a].at = "walking", ![a].steady = NamedFiles]
      /\ artifact' = artifact /\ closed' = closed /\ fate' = fate
  BY DEF CopyDatabase
<1>2. PICK named \in SUBSET Artifacts : named = NamedFiles
  BY DEF NamedFiles
<1>3. PICK s \in Snapshots :
       /\ s = [making[a] EXCEPT !.at = "walking", !.steady = named]
       /\ s.at = "walking" /\ s.media = making[a].media /\ s.steady = named
       /\ s.entries = making[a].entries /\ s.dirs = making[a].dirs /\ s.todo = making[a].todo
       /\ s.listing = making[a].listing
  <2>1. making[a] \in Snapshots
    BY BackupShape
  <2>2. PICK e : e = [making[a] EXCEPT !.at = "walking", !.steady = named]
    OBVIOUS
  <2>3. e \in Snapshots /\ e.at = "walking" /\ e.media = making[a].media /\ e.steady = named
     /\ e.entries = making[a].entries /\ e.dirs = making[a].dirs /\ e.todo = making[a].todo
     /\ e.listing = making[a].listing
    BY <2>1, <2>2, <1>2 DEF Snapshots, Calling
  <2> QED
    BY <2>2, <2>3
<1>4. s \in Snapshots /\ making' = [making EXCEPT ![a] = s]
  BY <1>1, <1>2, <1>3
<1>5. making'[a] = s
  BY <1>4 DEF BackupInv, BackupTypes
<1>6. Progress(a) /\ Walk(a) /\ ListedArchives(a)
  BY DEF BackupInv
<1>7. ASSUME making[a].media, NEW f \in named
      PROVE  OnDisk(f)' /\ \E i \in 1..Len(s.dirs) : s.dirs[i] = DirOf[f]
  <2>1. f \in Artifacts /\ OnDisk(f)'
    BY <1>1, <1>2 DEF NamedFiles, OnDisk
  <2>2. s.dirs = MediaDirs
    BY <1>1, <1>3, <1>6, <1>7 DEF Walk
  <2>3. DirOf[f] \in Range(MediaDirs) /\ DOMAIN MediaDirs = 1..Len(MediaDirs)
    BY <2>1, BackupAssumption
  <2> QED
    BY <2>1, <2>2, <2>3 DEF Range
<1>8. Walk(a)'
  BY <1>3, <1>5, <1>7 DEF Walk, StillToRead
<1>9. Progress(a)' /\ ListedArchives(a)'
  <2>1. making'[a].at = "walking" /\ making'[a].listing = making[a].listing
    BY <1>3, <1>5
  <2> QED
    BY <1>1, <1>6, <2>1 DEF Progress, ListedArchives, IsClosed
<1> QED
  BY <1>1, <1>4, <1>8, <1>9, OwnStepKeeps

LEMMA ReadKeeps == ASSUME BackupInv, NEW a \in Admins, ReadDirectory(a) PROVE BackupInv'
<1>1. /\ making[a].at = "walking" /\ making[a].todo = {} /\ making[a].dirs # <<>>
      /\ making' = [making EXCEPT ![a].todo = Listed(Head(making[a].dirs)), ![a].dirs = Tail(@)]
      /\ artifact' = artifact /\ closed' = closed /\ fate' = fate
  BY DEF ReadDirectory
<1>0. PICK rest : rest = Tail(making[a].dirs)
  OBVIOUS
<1>2. PICK read \in SUBSET Artifacts : read = Listed(Head(making[a].dirs))
  BY DEF Listed
<1>3. /\ rest \in Seq(Range(MediaDirs)) /\ Len(making[a].dirs) \in Nat
      /\ \A i \in 1..Len(making[a].dirs) : making[a].dirs[i] = Head(making[a].dirs) \/ \E j \in 1..Len(rest) : rest[j] = making[a].dirs[i]
  <2>1. making[a].dirs \in Seq(Range(MediaDirs)) /\ making[a].dirs # <<>>
    BY <1>1, BackupShape
  <2>2. rest \in Seq(Range(MediaDirs)) /\ Len(rest) = Len(making[a].dirs) - 1 /\ Len(making[a].dirs) \in Nat
        /\ Head(making[a].dirs) = making[a].dirs[1]
        /\ \A j \in 1..Len(rest) : rest[j] = making[a].dirs[j + 1]
    BY <1>0, <2>1, HeadTailProperties
  <2>3. ASSUME NEW i \in 1..Len(making[a].dirs), i # 1
        PROVE  \E j \in 1..Len(rest) : rest[j] = making[a].dirs[i]
    <3>1. i - 1 \in 1..Len(rest) /\ (i - 1) + 1 = i
      BY <2>2, <2>3
    <3> QED
      BY <2>2, <3>1
  <2> QED
    BY <2>2, <2>3
<1>4. PICK s \in Snapshots :
       /\ s = [making[a] EXCEPT !.todo = read, !.dirs = rest]
       /\ s.at = "walking" /\ s.media = making[a].media /\ s.steady = making[a].steady
       /\ s.entries = making[a].entries /\ s.dirs = rest /\ s.todo = read
       /\ s.listing = making[a].listing
  <2>1. making[a] \in Snapshots
    BY BackupShape
  <2>2. PICK e : e = [making[a] EXCEPT !.todo = read, !.dirs = rest]
    OBVIOUS
  <2>3. e \in Snapshots /\ e.at = "walking" /\ e.media = making[a].media /\ e.steady = making[a].steady
     /\ e.entries = making[a].entries /\ e.dirs = rest /\ e.todo = read
     /\ e.listing = making[a].listing
    BY <2>1, <2>2, <1>1, <1>3 DEF Snapshots, Calling
  <2> QED
    BY <2>2, <2>3
<1>5. s \in Snapshots /\ making' = [making EXCEPT ![a] = s]
  BY <1>0, <1>1, <1>2, <1>4
<1>6. making'[a] = s
  BY <1>5 DEF BackupInv, BackupTypes
<1>7. Progress(a) /\ Walk(a) /\ ListedArchives(a)
  BY DEF BackupInv
<1>8. ASSUME making[a].media, NEW f \in making[a].steady
      PROVE  OnDisk(f)' /\ (f \in s.entries \cup s.todo \/ \E i \in 1..Len(s.dirs) : s.dirs[i] = DirOf[f])
  <2>1. f \in Artifacts /\ OnDisk(f) /\ (f \in making[a].entries \/ StillToRead(a, f))
    BY <1>1, <1>7, <1>8, BackupShape DEF Walk
  <2>2. OnDisk(f)'
    BY <1>1, <2>1 DEF OnDisk
  <2>3. CASE f \in making[a].entries
    BY <1>4, <2>2, <2>3
  <2>4. CASE StillToRead(a, f)
    <3>1. PICK i \in 1..Len(making[a].dirs) : making[a].dirs[i] = DirOf[f]
      BY <2>4 DEF StillToRead
    <3>2. CASE making[a].dirs[i] = Head(making[a].dirs)
      BY <1>2, <1>4, <2>1, <2>2, <3>1, <3>2 DEF Listed
    <3>3. CASE \E j \in 1..Len(rest) : rest[j] = making[a].dirs[i]
      BY <1>4, <2>2, <3>1, <3>3
    <3> QED
      BY <1>3, <3>2, <3>3
  <2> QED
    BY <2>1, <2>3, <2>4
<1>9. Walk(a)'
  BY <1>4, <1>6, <1>8 DEF Walk, StillToRead
<1>10. Progress(a)' /\ ListedArchives(a)'
  <2>1. making'[a].at = "walking" /\ making'[a].listing = making[a].listing
    BY <1>4, <1>6
  <2> QED
    BY <1>1, <1>7, <2>1 DEF Progress, ListedArchives, IsClosed
<1> QED
  BY <1>1, <1>5, <1>9, <1>10, OwnStepKeeps

LEMMA EntryKeeps == ASSUME BackupInv, NEW a \in Admins, WriteEntry(a) PROVE BackupInv'
<1>1. making[a].at = "walking" /\ artifact' = artifact /\ closed' = closed /\ fate' = fate
  BY DEF WriteEntry
<1>2. CASE EndCall(a, "failed")
  <2>1. PrunedWasOld' /\ fate' \in [Admins -> {"unmade", "published", "pruned", "deleted"}]
    BY <1>1, SamePruned DEF BackupInv, BackupTypes
  <2> QED
    BY <1>1, <1>2, <2>1, CallEnds
<1>3. CASE ~EndCall(a, "failed")
  <2>1. PICK f \in making[a].todo :
           \/ OnDisk(f) /\ making' = [making EXCEPT ![a].todo = @ \ {f}, ![a].entries = @ \cup {f}]
           \/ ~OnDisk(f) /\ making' = [making EXCEPT ![a].todo = @ \ {f}]
    BY <1>3 DEF WriteEntry
  <2>2. PICK entries \in SUBSET Artifacts : entries = (IF OnDisk(f) THEN making[a].entries \cup {f} ELSE making[a].entries)
    BY BackupShape
  <2>3. PICK s \in Snapshots :
            /\ making' = [making EXCEPT ![a] = s]
            /\ s.at = "walking" /\ s.media = making[a].media /\ s.steady = making[a].steady
            /\ s.entries = entries /\ s.dirs = making[a].dirs /\ s.todo = making[a].todo \ {f}
            /\ s.listing = making[a].listing
    <3>1. making[a] \in Snapshots
      BY BackupShape
    <3>2. CASE OnDisk(f)
      <4>1. PICK e : e = [making[a] EXCEPT !.todo = @ \ {f}, !.entries = @ \cup {f}]
        OBVIOUS
      <4>2. making' = [making EXCEPT ![a] = e]
        BY <2>1, <3>2, <4>1
      <4>3. /\ e \in Snapshots /\ e.at = "walking" /\ e.media = making[a].media /\ e.steady = making[a].steady
            /\ e.entries = entries /\ e.dirs = making[a].dirs /\ e.todo = making[a].todo \ {f}
            /\ e.listing = making[a].listing
        BY <1>1, <2>2, <3>1, <3>2, <4>1 DEF Snapshots
      <4> QED
        BY <4>2, <4>3
    <3>3. CASE ~OnDisk(f)
      <4>1. PICK e : e = [making[a] EXCEPT !.todo = @ \ {f}]
        OBVIOUS
      <4>2. making' = [making EXCEPT ![a] = e]
        BY <2>1, <3>3, <4>1
      <4>3. /\ e \in Snapshots /\ e.at = "walking" /\ e.media = making[a].media /\ e.steady = making[a].steady
            /\ e.entries = entries /\ e.dirs = making[a].dirs /\ e.todo = making[a].todo \ {f}
            /\ e.listing = making[a].listing
        BY <1>1, <2>2, <3>1, <3>3, <4>1 DEF Snapshots
      <4> QED
        BY <4>2, <4>3
    <3> QED
      BY <3>2, <3>3
  <2>4. s \in Snapshots /\ making' = [making EXCEPT ![a] = s]
    BY <2>3
  <2>5. making'[a] = s
    BY <2>4 DEF BackupInv, BackupTypes
  <2>6. Progress(a) /\ Walk(a) /\ ListedArchives(a)
    BY DEF BackupInv
  <2>7. Walk(a)'
    BY <1>1, <2>2, <2>3, <2>5, <2>6 DEF Walk, StillToRead, OnDisk
  <2>8. Progress(a)' /\ ListedArchives(a)'
    BY <1>1, <2>3, <2>5, <2>6 DEF Progress, ListedArchives, IsClosed
  <2> QED
    BY <1>1, <2>4, <2>7, <2>8, OwnStepKeeps
<1> QED
  BY <1>2, <1>3

LEMMA DoingIs ==
    ASSUME BackupInv, NEW a \in Admins, NEW at \in Calling, Doing(a, at)
    PROVE  /\ making' \in [Admins -> Snapshots] /\ making' = [making EXCEPT ![a] = making'[a]]
           /\ making'[a].at = at /\ making'[a].media = making[a].media /\ making'[a].steady = making[a].steady
           /\ making'[a].entries = making[a].entries /\ making'[a].listing = making[a].listing
           /\ making'[a] \in Snapshots
           /\ \A b \in Admins : b # a => making'[b] = making[b]
<1>1. PICK s \in Snapshots :
       /\ s = [making[a] EXCEPT !.at = at]
       /\ s.at = at /\ s.media = making[a].media /\ s.steady = making[a].steady
       /\ s.entries = making[a].entries /\ s.dirs = making[a].dirs /\ s.todo = making[a].todo
       /\ s.listing = making[a].listing
  <2>1. making[a] \in Snapshots
    BY BackupShape
  <2>2. PICK e : e = [making[a] EXCEPT !.at = at]
    OBVIOUS
  <2>3. e \in Snapshots /\ e.at = at /\ e.media = making[a].media /\ e.steady = making[a].steady
     /\ e.entries = making[a].entries /\ e.dirs = making[a].dirs /\ e.todo = making[a].todo
     /\ e.listing = making[a].listing
    BY <2>1, <2>2 DEF Snapshots, Calling
  <2> QED
    BY <2>2, <2>3
<1>2. s \in Snapshots /\ making' = [making EXCEPT ![a] = s]
  BY <1>1 DEF Doing
<1> QED
  BY <1>1, <1>2 DEF BackupInv, BackupTypes

LEMMA CloseKeeps == ASSUME BackupInv, NEW a \in Admins, CloseArchive(a) PROVE BackupInv'
<1>1. /\ making[a].at = "walking" /\ making[a].todo = {} /\ making[a].dirs = <<>> /\ Doing(a, "closed")
      /\ closed' = Append(closed, a) /\ artifact' = artifact /\ fate' = fate
  BY DEF CloseArchive
<1>2. /\ making' \in [Admins -> Snapshots]
      /\ making'[a].at = "closed" /\ making'[a].media = making[a].media /\ making'[a].steady = making[a].steady
      /\ making'[a].entries = making[a].entries /\ making'[a].listing = making[a].listing
      /\ \A b \in Admins : b # a => making'[b] = making[b]
  BY <1>1, DoingIs DEF Calling
<1>3. /\ closed' \in Seq(Admins) /\ Len(closed') = Len(closed) + 1 /\ closed'[Len(closed) + 1] = a /\ Len(closed) \in Nat
      /\ \A i \in 1..Len(closed) : closed'[i] = closed[i]
  BY <1>1, BackupShape, OneMore
<1>4. BackupTypes'
  BY <1>1, <1>2, <1>3 DEF BackupInv, BackupTypes
<1>5. Progress(a) /\ Walk(a) /\ ListedArchives(a) /\ ~IsClosed(a) /\ fate[a] = "unmade"
  BY <1>1 DEF BackupInv, Progress
<1>6. \A i \in 1..Len(closed') : i \in 1..Len(closed) \/ i = Len(closed) + 1
  BY <1>3
<1>7. \A i, j \in 1..Len(closed') : closed'[i] = closed'[j] => i = j
  <2>1. \A i \in 1..Len(closed) : closed[i] # a
    BY <1>5 DEF IsClosed
  <2>2. \A i, j \in 1..Len(closed) : closed[i] = closed[j] => i = j
    BY DEF BackupInv
  <2> QED
    BY <1>3, <1>6, <2>1, <2>2
<1>8. \A b \in Admins : (IsClosed(b) => IsClosed(b)') /\ (IsClosed(b)' => IsClosed(b) \/ b = a) /\ IsClosed(a)'
  <2>1. ASSUME NEW b \in Admins, IsClosed(b) PROVE IsClosed(b)'
    BY <1>3, <2>1 DEF IsClosed
  <2>2. ASSUME NEW b \in Admins, IsClosed(b)' PROVE IsClosed(b) \/ b = a
    BY <1>3, <1>6, <2>2 DEF IsClosed
  <2>3. IsClosed(a)'
    BY <1>3 DEF IsClosed
  <2> QED
    BY <2>1, <2>2, <2>3
<1>9. making[a].media => making[a].steady \subseteq making[a].entries
  BY <1>1, <1>5 DEF Walk, StillToRead
<1>10. ASSUME NEW b \in Admins PROVE Progress(b)' /\ Walk(b)' /\ ListedArchives(b)'
  <2>1. Progress(b) /\ Walk(b) /\ ListedArchives(b)
    BY DEF BackupInv
  <2>2. ListedArchives(b)'
    BY <1>1, <1>2, <1>3, <2>1 DEF ListedArchives
  <2>3. CASE b = a
    BY <1>1, <1>2, <1>5, <1>8, <1>9, <2>2, <2>3 DEF Progress, Walk
  <2>4. CASE b # a
    BY <1>1, <1>2, <1>8, <2>1, <2>2, <2>4 DEF Progress, Walk, StillToRead, OnDisk
  <2> QED
    BY <2>3, <2>4
<1>11. PrunedWasOld'
  <2>1. Len(closed') >= Len(closed)
    BY <1>3
  <2> QED
    BY <1>1, <1>3, <2>1, NoneNewlyPruned
<1> QED
  BY <1>4, <1>7, <1>10, <1>11 DEF BackupInv

LEMMA PublishKeeps == ASSUME BackupInv, NEW a \in Admins, PublishArchive(a) PROVE BackupInv'
<1>1. /\ making[a].at = "closed" /\ Doing(a, "published") /\ fate' = [fate EXCEPT ![a] = "published"]
      /\ artifact' = artifact /\ closed' = closed
  BY DEF PublishArchive
<1>2. /\ making' = [making EXCEPT ![a] = making'[a]] /\ making'[a] \in Snapshots
      /\ making'[a].at = "published" /\ making'[a].media = making[a].media /\ making'[a].steady = making[a].steady
      /\ making'[a].entries = making[a].entries /\ making'[a].listing = making[a].listing
  BY <1>1, DoingIs DEF Calling
<1>3. /\ fate' \in [Admins -> {"unmade", "published", "pruned", "deleted"}]
      /\ fate'[a] = "published" /\ \A b \in Admins : b # a => fate'[b] = fate[b]
  BY <1>1 DEF BackupInv, BackupTypes
<1>4. closed' \in Seq(Admins) /\ Len(closed') >= Len(closed) /\ \A i \in 1..Len(closed) : closed[i] \in Admins
  BY <1>1, BackupShape
<1>5. Progress(a) /\ Walk(a) /\ ListedArchives(a)
  BY DEF BackupInv
<1>6. PrunedWasOld'
  BY <1>1, <1>3, <1>4, NoneNewlyPruned
<1>7. ListedArchives(a)'
  BY <1>1, <1>2, <1>3, <1>4, <1>5 DEF ListedArchives
<1>8. Progress(a)' /\ Walk(a)'
  BY <1>1, <1>2, <1>3, <1>5 DEF Progress, Walk, IsClosed
<1> QED
  BY <1>1, <1>2, <1>3, <1>6, <1>7, <1>8, CallKeeps

LEMMA ListKeeps == ASSUME BackupInv, NEW a \in Admins, ListArchives(a) PROVE BackupInv'
<1>1. making[a].at = "published" /\ artifact' = artifact /\ closed' = closed
  BY DEF ListArchives
<1>2. ASSUME NEW b \in Admins, fate[b] = "published", fate' = [fate EXCEPT ![b] = "deleted"], EndCall(a, "failed")
      PROVE  BackupInv'
  <2>1. /\ fate' \in [Admins -> {"unmade", "published", "pruned", "deleted"}]
        /\ \A c \in Admins : (fate'[c] = "unmade" <=> fate[c] = "unmade") /\ (fate'[c] = "pruned" => fate[c] = "pruned")
    BY <1>2 DEF BackupInv, BackupTypes
  <2>2. closed' \in Seq(Admins) /\ Len(closed') >= Len(closed)
    BY <1>1, BackupShape
  <2>3. PrunedWasOld'
    BY <1>1, <2>1, <2>2, NoneNewlyPruned
  <2> QED
    BY <1>1, <1>2, <2>1, <2>3, CallEnds
<1>3. ASSUME making' = [making EXCEPT ![a].at = "pruning",
                                      ![a].listing = {i \in DOMAIN closed : fate[closed[i]] = "published"}],
             fate' = fate
      PROVE  BackupInv'
  <2>1. PICK listing \in SUBSET Nat : listing = {i \in DOMAIN closed : fate[closed[i]] = "published"}
    <3>1. DOMAIN closed \subseteq Nat
      BY BackupShape
    <3> QED
      BY <3>1
  <2>2. PICK s \in Snapshots :
         /\ s = [making[a] EXCEPT !.at = "pruning", !.listing = listing]
         /\ s.at = "pruning" /\ s.media = making[a].media /\ s.steady = making[a].steady
         /\ s.entries = making[a].entries /\ s.dirs = making[a].dirs /\ s.todo = making[a].todo
         /\ s.listing = listing
    <3>1. making[a] \in Snapshots
      BY BackupShape
    <3>2. PICK e : e = [making[a] EXCEPT !.at = "pruning", !.listing = listing]
      OBVIOUS
    <3>3. e \in Snapshots /\ e.at = "pruning" /\ e.media = making[a].media /\ e.steady = making[a].steady
       /\ e.entries = making[a].entries /\ e.dirs = making[a].dirs /\ e.todo = making[a].todo
       /\ e.listing = listing
      BY <3>1, <3>2, <2>1 DEF Snapshots, Calling
    <3> QED
      BY <3>2, <3>3
  <2>3. s \in Snapshots /\ making' = [making EXCEPT ![a] = s]
    BY <1>3, <2>1, <2>2
  <2>4. making'[a] = s
    BY <2>3 DEF BackupInv, BackupTypes
  <2>5. Progress(a) /\ Walk(a)
    BY DEF BackupInv
  <2>6. Progress(a)' /\ Walk(a)'
    BY <1>1, <1>3, <2>2, <2>4, <2>5 DEF Progress, Walk, IsClosed
  <2>7. ListedArchives(a)'
    BY <1>1, <1>3, <2>1, <2>2, <2>4, BackupShape DEF ListedArchives
  <2> QED
    BY <1>1, <1>3, <2>3, <2>6, <2>7, OwnStepKeeps
<1> QED
  BY <1>2, <1>3 DEF ListArchives

\* The oldest of more archives than are to be kept has that many newer ones.
LEMMA PruneKeeps == ASSUME BackupInv, NEW a \in Admins, PruneArchive(a) PROVE BackupInv'
<1>1. PICK i : i = OldestArchive(making[a].listing)
  OBVIOUS
<1>2. /\ making[a].at = "pruning" /\ Cardinality(making[a].listing) > SnapshotLimit
      /\ making' = [making EXCEPT ![a].listing = @ \ {i}]
      /\ fate' = IF fate[closed[i]] = "published" THEN [fate EXCEPT ![closed[i]] = "pruned"] ELSE fate
      /\ artifact' = artifact /\ closed' = closed
  BY <1>1 DEF PruneArchive, Surplus
<1>3. PICK listing : listing = making[a].listing
  OBVIOUS
<1>4. /\ listing \subseteq 1..Len(closed) /\ Len(closed) \in Nat /\ closed \in Seq(Admins) /\ DOMAIN closed = 1..Len(closed)
      /\ IsFiniteSet(listing) /\ Cardinality(listing) \in Nat /\ SnapshotLimit \in Nat
  <2>1. listing \subseteq 1..Len(closed) /\ Len(closed) \in Nat /\ closed \in Seq(Admins) /\ DOMAIN closed = 1..Len(closed)
    BY <1>3, BackupShape
  <2>2. IsFiniteSet(1..Len(closed))
    BY <2>1, FS_Interval
  <2>3. IsFiniteSet(listing)
    BY <2>1, <2>2, FS_Subset
  <2> QED
    BY <2>1, <2>3, FS_CardinalityType, BackupAssumption
<1>5. i \in listing /\ \A j \in listing : i <= j
  <2>1. listing # {}
    <3>1. Cardinality({}) = 0
      BY FS_EmptySet
    <3>2. Cardinality(listing) > SnapshotLimit /\ SnapshotLimit \in Nat
      BY <1>2, <1>3, <1>4
    <3>3. ASSUME listing = {} PROVE Cardinality(listing) = 0
      BY <3>1, <3>3, Zenon
    <3>4. Cardinality(listing) # 0
      BY <3>2
    <3> QED
      BY <3>3, <3>4, Zenon
  <2>2. \E x \in listing : \A j \in listing : x <= j
    <3>1. listing \subseteq Nat
      BY <1>4
    <3> QED
      BY <2>1, <3>1, HasLeast, Zenon
  <2> QED
    BY <1>1, <1>3, <2>2, Zenon DEF OldestArchive
<1>6. closed[i] \in Admins /\ i \in 1..Len(closed)
  BY <1>4, <1>5
<1>7. /\ fate' \in [Admins -> {"unmade", "published", "pruned", "deleted"}]
      /\ \A b \in Admins : (fate'[b] = "unmade" <=> fate[b] = "unmade")
                        /\ (fate'[b] = "pruned" => fate[b] = "pruned" \/ b = closed[i])
  BY <1>2, <1>6 DEF BackupInv, BackupTypes
<1>8. Cardinality({j \in DOMAIN closed : j > i /\ fate[closed[j]] # "unmade"}) >= SnapshotLimit
  <2> DEFINE newer == {j \in DOMAIN closed : j > i /\ fate[closed[j]] # "unmade"}
  <2>1. ListedArchives(a)
    BY DEF BackupInv
  <2>2. listing \ {i} \subseteq newer /\ newer \subseteq 1..Len(closed)
    BY <1>3, <1>4, <1>5, <2>1 DEF ListedArchives
  <2> HIDE DEF newer
  <2>3. IsFiniteSet(1..Len(closed))
    BY <1>4, FS_Interval
  <2>4. IsFiniteSet(newer)
    BY <2>2, <2>3, FS_Subset
  <2>5. Cardinality(listing \ {i}) = Cardinality(listing) - 1
    BY <1>4, <1>5, FS_RemoveElement
  <2>6. Cardinality(listing \ {i}) <= Cardinality(newer) /\ Cardinality(newer) \in Nat
    BY <2>2, <2>4, FS_Subset, FS_CardinalityType
  <2>7. Cardinality(newer) >= SnapshotLimit
    BY <1>2, <1>3, <1>4, <2>5, <2>6
  <2> QED
    BY <2>7 DEF newer
<1>9. PrunedWasOld'
  <2>0. closed' \in Seq(Admins) /\ Len(closed') >= Len(closed) /\ \A j \in 1..Len(closed) : closed'[j] = closed[j]
    BY <1>2, <1>4
  <2> SUFFICES ASSUME NEW b \in Admins, fate'[b] = "pruned"
               PROVE  \E k \in DOMAIN closed' : closed'[k] = b
                         /\ Cardinality({j \in DOMAIN closed' : j > k /\ fate'[closed'[j]] # "unmade"}) >= SnapshotLimit
    BY DEF PrunedWasOld
  <2>1. PICK k \in 1..Len(closed) : closed[k] = b
           /\ Cardinality({j \in DOMAIN closed : j > k /\ fate[closed[j]] # "unmade"}) >= SnapshotLimit
    <3>1. CASE b = closed[i]
      BY <1>6, <1>8, <3>1
    <3>2. CASE b # closed[i]
      BY <1>4, <1>7, <3>2 DEF BackupInv, PrunedWasOld
    <3> QED
      BY <3>1, <3>2
  <2>2. \A c \in Admins : fate[c] # "unmade" => fate'[c] # "unmade"
    BY <1>7
  <2> QED
    BY <2>0, <2>1, <2>2, OldStaysOld
<1>10. PICK s \in Snapshots :
       /\ s = [making[a] EXCEPT !.listing = listing \ {i}]
       /\ s.at = making[a].at /\ s.media = making[a].media /\ s.steady = making[a].steady
       /\ s.entries = making[a].entries /\ s.dirs = making[a].dirs /\ s.todo = making[a].todo
       /\ s.listing = listing \ {i}
  <2>1. making[a] \in Snapshots
    BY BackupShape
  <2>2. PICK e : e = [making[a] EXCEPT !.listing = listing \ {i}]
    OBVIOUS
  <2>3. e \in Snapshots /\ e.at = making[a].at /\ e.media = making[a].media /\ e.steady = making[a].steady
     /\ e.entries = making[a].entries /\ e.dirs = making[a].dirs /\ e.todo = making[a].todo
     /\ e.listing = listing \ {i}
    <3>0. making[a].listing \in SUBSET Nat
      BY <2>1 DEF Snapshots
    <3>1. listing \ {i} \in SUBSET Nat
      BY <1>3, <3>0, Zenon
    <3> QED
      BY <2>1, <2>2, <3>1 DEF Snapshots
  <2> QED
    BY <2>2, <2>3
<1>11. s \in Snapshots /\ making' = [making EXCEPT ![a] = s]
  BY <1>2, <1>3, <1>10
<1>12. making'[a] = s
  BY <1>11 DEF BackupInv, BackupTypes
<1>13. Progress(a) /\ Walk(a) /\ ListedArchives(a)
  BY DEF BackupInv
<1>14. Progress(a)' /\ Walk(a)'
  BY <1>2, <1>7, <1>10, <1>12, <1>13 DEF Progress, Walk, IsClosed
<1>15. ListedArchives(a)'
  BY <1>2, <1>3, <1>4, <1>7, <1>10, <1>12, <1>13 DEF ListedArchives
<1> QED
  BY <1>2, <1>7, <1>9, <1>11, <1>14, <1>15, CallKeeps

LEMMA OtherCallStepsKeep ==
    ASSUME BackupInv, NEW a \in Admins, AnswerSnapshot(a) \/ FailSnapshot(a) \/ DeleteSnapshot(a)
    PROVE  BackupInv'
<1>1. ASSUME AnswerSnapshot(a) \/ FailSnapshot(a) PROVE BackupInv'
  <2>1. /\ \E at \in {"made", "failed"} : EndCall(a, at)
        /\ artifact' = artifact /\ closed' = closed /\ fate' = fate
    BY <1>1 DEF AnswerSnapshot, FailSnapshot
  <2>2. PrunedWasOld' /\ fate' \in [Admins -> {"unmade", "published", "pruned", "deleted"}]
    BY <2>1, SamePruned DEF BackupInv, BackupTypes
  <2> QED
    BY <2>1, <2>2, CallEnds
<1>2. ASSUME DeleteSnapshot(a) PROVE BackupInv'
  <2>1. /\ fate[a] = "published" /\ fate' = [fate EXCEPT ![a] = "deleted"]
        /\ artifact' = artifact /\ making' = making /\ closed' = closed
    BY <1>2 DEF DeleteSnapshot
  <2>2. /\ fate' \in [Admins -> {"unmade", "published", "pruned", "deleted"}]
        /\ \A b \in Admins : (fate'[b] = "unmade" <=> fate[b] = "unmade") /\ (fate'[b] = "pruned" => fate[b] = "pruned")
    BY <2>1 DEF BackupInv, BackupTypes
  <2>3. closed' \in Seq(Admins) /\ Len(closed') >= Len(closed) /\ \A i \in 1..Len(closed) : closed[i] \in Admins
    BY <2>1, BackupShape
  <2>4. PrunedWasOld'
    BY <2>1, <2>2, <2>3, NoneNewlyPruned
  <2>5. BackupTypes'
    BY <2>1, <2>2 DEF BackupInv, BackupTypes
  <2>6. ASSUME NEW b \in Admins PROVE Progress(b)' /\ Walk(b)' /\ ListedArchives(b)'
    <3>1. Progress(b) /\ Walk(b) /\ ListedArchives(b)
      BY DEF BackupInv
    <3>2. Progress(b)' /\ ListedArchives(b)'
      BY <2>1, <2>2, <2>3, <3>1 DEF Progress, ListedArchives, IsClosed
    <3>3. Walk(b)'
      BY <2>1, <3>1 DEF Walk, StillToRead, OnDisk
    <3> QED
      BY <3>2, <3>3
  <2> QED
    BY <2>1, <2>4, <2>5, <2>6 DEF BackupInv
<1> QED
  BY <1>1, <1>2

LEMMA BackupStays == ASSUME BackupInv, [BackupNext]_backupVars PROVE BackupInv'
<1>1. CASE UNCHANGED backupVars
  <2>1. artifact' = artifact /\ making' = making /\ closed' = closed /\ fate' = fate
    BY <1>1 DEF backupVars
  <2>2. BackupTypes' /\ PrunedWasOld'
    BY <2>1, SamePruned DEF BackupInv, BackupTypes
  <2>3. \A a \in Admins : Progress(a)' /\ Walk(a)' /\ ListedArchives(a)'
    BY <2>1 DEF BackupInv, Progress, Walk, ListedArchives, IsClosed, StillToRead, OnDisk
  <2> QED
    BY <2>1, <2>2, <2>3 DEF BackupInv
<1> QED
  BY <1>1, FileMaturesKeeps, UnlinkFileKeeps, BeginKeepsArchives, CopyKeeps, ReadKeeps, EntryKeeps, CloseKeeps, PublishKeeps,
     ListKeeps, PruneKeeps, OtherCallStepsKeep DEF BackupNext

LEMMA BackupInvHolds == BackupSpec => []BackupInv
BY BackupInitially, BackupStays, PTL DEF BackupSpec

\* Whatever the program writes and removes while archives are made, a published
\* one has what its database names and was not removed; and however many are made
\* or deleted at once, only an archive with enough newer ones is pruned
\* (BackupStore.create_backup_snapshot, prune_backup_snapshots).
THEOREM ArchivesAreWhole == BackupSpec => []BackupInvariant
<1>1. BackupInv => BackupInvariant
  <2> SUFFICES ASSUME BackupInv PROVE BackupTypeOK /\ SnapshotIsWhole /\ PrunedWasOld
    BY DEF BackupInvariant
  <2>1. \A a \in Admins : DOMAIN making[a] = DOMAIN NoSnapshot
    BY BackupShape DEF Snapshots, NoSnapshot
  <2>2. BackupTypeOK
    BY <2>1, BackupShape DEF BackupTypeOK, BackupInv, BackupTypes
  <2>3. SnapshotIsWhole
    BY DEF BackupInv, Walk, SnapshotIsWhole
  <2> QED
    BY <2>2, <2>3 DEF BackupInv
<1> QED
  BY <1>1, BackupInvHolds, PTL

-----------------------------------------------------------------------------
(* The instance.  Its behaviours are about one part each, so of every part   *)
(* they are behaviours, those that are about another part among them.        *)

LEMMA PartsBehave ==
    ChatsSpec => /\ MemorySpec /\ ContextSpec /\ OutputSpec /\ TaskSpec
                 /\ WorkspaceSpec /\ SpeechSpec /\ BackupSpec
<1>1. ASSUME ChatsInit
      PROVE  /\ MemoryInit /\ ContextInit /\ OutputInit /\ TaskInit
             /\ WorkspaceInit /\ SpeechInit /\ BackupInit
  BY <1>1 DEF ChatsInit
<1>2. ASSUME [ChatsNext]_chatsVars
      PROVE  /\ [MemoryNext]_memoryVars /\ [ContextNext]_contextVars /\ [OutputNext]_outputVars
             /\ [TaskNext]_taskVars /\ [WorkspaceNext]_workspaceVars /\ [SpeechNext]_speechVars
             /\ [BackupNext]_backupVars
  <2>1. CASE ChatsNext
    BY <2>1, Zenon DEF ChatsNext, Rest
  <2>2. CASE UNCHANGED chatsVars
    BY <2>2, Zenon DEF chatsVars
  <2> QED
    BY <1>2, <2>1, <2>2
<1> QED
  BY <1>1, <1>2, PTL DEF ChatsSpec, MemorySpec, ContextSpec, OutputSpec, TaskSpec, WorkspaceSpec, SpeechSpec, BackupSpec

\* A chat stays in its workspace and with its persona, and no message is
\* summarised twice (conversation_service.py, context_service.py).
THEOREM ChatsKeepMoving == ChatsSpec => ChatsMoveOn
BY PartsBehave, ChatsStayBound, SummariesNeverReturn, PTL DEF ChatsMoveOn
=============================================================================
