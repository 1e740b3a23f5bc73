-------------------------- MODULE Turns_proofs --------------------------
(***************************************************************************)
(* Proofs about what is seen of a turn and what follows it.                 *)
(*                                                                          *)
(* A follower of a turn's event stream sees the reply as it is: the         *)
(* invariant StreamIsFaithful of TurnEvents, for every size of the buffer   *)
(* and every length of the reply.  It follows three numberings: of the      *)
(* events (seq), of the pieces of the reply (delta) and of what the         *)
(* subscriber appended.  The first two agree (Numbered), a snapshot cuts    *)
(* both at the same place (CutTogether), and the third follows the second   *)
(* (Appended).                                                              *)
(*                                                                          *)
(* A picture that was asked for is shown: FollowupsInvariant of             *)
(* TurnFollowups, for every answer of the planner and every restart.        *)
(***************************************************************************)
EXTENDS TurnEvents, TurnFollowups, SequenceTheorems, TLAPS

\* The events that are still somewhere: in the buffer or in the hands of the
\* subscriber.
Held == events \cup batch
IsDelta(item) == item.event = "assistant.delta"
IsEnd(item) == item.event \in EndEvents

Typed ==
    /\ turnStatus \in Unfinished \cup Finished
    /\ stage \in {"queued", "begin", "started", "stream", "say", "over"}
    /\ cancelling \in BOOLEAN /\ ended \in BOOLEAN
    /\ next \in Nat \ {0} /\ text \in 0 .. MaxDeltas /\ textSeq \in 0 .. next - 1
    /\ events \subseteq Items /\ batch \subseteq Items
    /\ at \in {"away", "read", "given", "follow", "deliver", "over"}
    /\ snapStatus \in Unfinished \cup Finished
    /\ snapText \in 0 .. text
    /\ snapCursor \in 0 .. next - 1 /\ cursor \in 0 .. next - 1
    /\ rendered \in Seq(1 .. MaxDeltas)

\* The buffer is the end of the stream.
Buffered ==
    \E n \in 0 .. next - 1 : n >= next - 1 - MaxEvents /\ {item.seq : item \in events} = n + 1 .. next - 1

\* Events are numbered once, and the pieces of the reply in the same order.
Numbered ==
    /\ \A x \in Held : x.seq < next /\ x.seq > 0
    /\ \A x, y \in Held : x.seq = y.seq => x = y
    /\ \A x \in Held : IF IsDelta(x) THEN x.delta > 0 /\ x.delta <= text /\ x.seq <= textSeq ELSE x.delta = 0
    /\ \A x, y \in Held : (IsDelta(x) /\ IsDelta(y) /\ x.seq < y.seq) => x.delta < y.delta

\* A snapshot's cursor covers the pieces that its text holds, and no others.
CutTogether == \A x \in Held : IsDelta(x) => (x.seq <= snapCursor <=> x.delta <= snapText)

\* What was appended is new, in order, and before everything yet to come.
Appended ==
    /\ \A k \in DOMAIN rendered : rendered[k] > snapText /\ rendered[k] <= text
    /\ \A j, k \in DOMAIN rendered : j < k => rendered[j] < rendered[k]
    /\ \A x \in Held : (IsDelta(x) /\ IsAvailable(x)) => \A k \in DOMAIN rendered : rendered[k] < x.delta

\* Whatever the subscriber has moved beyond, it has shown.
PassedIsShown == \A x \in events : (IsDelta(x) /\ x.seq <= Passed) => Shown(x.delta)

\* What is left of a batch is all that comes before its last event.
BatchIsWhole ==
    at = "deliver" =>
        /\ batch # {}
        /\ \A b \in batch : IsAvailable(b) /\ \A x \in events : (IsAvailable(x) /\ x.seq < b.seq) => x \in batch

\* The row ends before the stream does, and a reply is whole before the row
\* says completed.
EndsInOrder ==
    /\ turnStatus \in Unfinished => ~ended /\ ~cancelling /\ \A x \in Held : ~IsEnd(x)
    /\ cancelling => turnStatus = "cancelled"
    /\ stage = "say" => turnStatus \in {"completed", "failed"}
    /\ turnStatus = "completed" => stage \in {"say", "over"} /\ \A x \in Held : IsEnd(x) => x.seq > textSeq
    /\ snapStatus \in Finished => turnStatus = snapStatus

\* Who is over has passed every piece of a completed reply.
OverIsWhole ==
    at = "over" =>
        /\ turnStatus \in Finished
        /\ turnStatus = "completed" => \A x \in events : IsDelta(x) => Shown(x.delta)

StreamInv ==
    /\ Typed /\ Buffered /\ Numbered /\ CutTogether /\ Appended
    /\ PassedIsShown /\ BatchIsWhole /\ EndsInOrder /\ OverIsWhole

-----------------------------------------------------------------------------
LEMMA StreamInitial == StreamInit => StreamInv
<1> USE StreamAssumption
<1> SUFFICES ASSUME StreamInit PROVE StreamInv
  OBVIOUS
<1>1. Typed
  <2>1. rendered \in Seq(1 .. MaxDeltas) /\ next = 1 /\ events = {} /\ batch = {}
    BY DEF StreamInit
  <2>2. textSeq \in 0 .. next - 1 /\ snapCursor \in 0 .. next - 1 /\ cursor \in 0 .. next - 1 /\ snapText \in 0 .. text
        /\ text \in 0 .. MaxDeltas
    BY DEF StreamInit
  <2>3. turnStatus \in Unfinished /\ snapStatus \in Unfinished
    BY DEF StreamInit, Unfinished
  <2>4. /\ stage \in {"queued", "begin", "started", "stream", "say", "over"}
        /\ at \in {"away", "read", "given", "follow", "deliver", "over"}
        /\ cancelling \in BOOLEAN /\ ended \in BOOLEAN
    BY DEF StreamInit
  <2> QED
    BY <2>1, <2>2, <2>3, <2>4 DEF Typed
<1>2. Buffered
  <2>1. {item.seq : item \in events} = 0 + 1 .. next - 1
    BY DEF StreamInit
  <2> QED
    BY <2>1 DEF StreamInit, Buffered
<1>3. Numbered /\ CutTogether /\ Appended /\ PassedIsShown /\ BatchIsWhole
  <2>1. Held = {} /\ events = {} /\ DOMAIN rendered = {} /\ at = "away"
    BY DEF StreamInit, Held
  <2> QED
    BY <2>1 DEF Numbered, CutTogether, Appended, PassedIsShown, BatchIsWhole
<1>4. EndsInOrder /\ OverIsWhole
  BY DEF StreamInit, EndsInOrder, OverIsWhole, Held, Unfinished, Finished
<1> QED
  BY <1>1, <1>2, <1>3, <1>4 DEF StreamInv

\* What a publication does to the buffer: one event with the next number comes
\* in, and perhaps the oldest go.
Publishable(e) ==
    /\ e.event \in Kinds
    /\ IF IsDelta(e) THEN e.delta = text + 1 /\ text < MaxDeltas ELSE e.delta = 0
    /\ IsEnd(e) => turnStatus \in Finished
    /\ IsDelta(e) => turnStatus # "completed"

NewItem(e) == [seq |-> next, event |-> e.event, delta |-> e.delta]

LEMMA PublishFacts ==
    ASSUME StreamInv, NEW e, PublishItem(e), Publishable(e)
    PROVE  /\ NewItem(e) \in Items
           /\ NewItem(e).seq = next /\ NewItem(e).event = e.event /\ NewItem(e).delta = e.delta
           /\ events' \subseteq events \cup {NewItem(e)}
           /\ next' = next + 1
           /\ IsDelta(e) => text' = text + 1 /\ textSeq' = next
           /\ ~IsDelta(e) => text' = text /\ textSeq' = textSeq
           /\ ended' = (ended \/ IsEnd(e))
<1>1. PICK dropped \in Drops(next) : events' = {item \in events \cup {NewItem(e)} : item.seq > dropped}
  BY DEF PublishItem, LastOf, NewItem
<1>2. NewItem(e) \in Items
  BY StreamAssumption DEF Items, NewItem, Publishable, StreamInv, Typed, IsDelta
<1>3. IsDelta(e) => text' = text + 1 /\ textSeq' = next
  BY DEF PublishItem, IsDelta, Covers, Publishable
<1> QED
  BY <1>1, <1>2, <1>3 DEF NewItem, PublishItem, IsDelta, IsEnd

LEMMA PublishBuffers ==
    ASSUME StreamInv, NEW e, PublishItem(e), Publishable(e)
    PROVE  Buffered'
<1> USE StreamAssumption
<1>1. PICK dropped \in Drops(next) : events' = {item \in events \cup {NewItem(e)} : item.seq > dropped}
  BY DEF PublishItem, LastOf, NewItem
<1>2. PICK n \in 0 .. next - 1 : n >= next - 1 - MaxEvents /\ {item.seq : item \in events} = n + 1 .. next - 1
  BY DEF StreamInv, Buffered
<1>3. dropped \in 0 .. next /\ dropped >= next - MaxEvents
  BY <1>1 DEF Drops
<1>4. next' = next + 1 /\ next \in Nat /\ NewItem(e).seq = next
  BY DEF PublishItem, NewItem, StreamInv, Typed
<1> DEFINE m == IF n > dropped THEN n ELSE dropped
<1>5. m \in 0 .. next' - 1 /\ m >= next' - 1 - MaxEvents
  BY <1>2, <1>3, <1>4
<1>6. ASSUME NEW s \in {item.seq : item \in events'} PROVE s \in m + 1 .. next' - 1
  <2>1. PICK item \in events \cup {NewItem(e)} : item.seq = s /\ s > dropped
    BY <1>1, <1>6
  <2>2. CASE item \in events
    <3>1. s \in n + 1 .. next - 1
      BY <1>2, <2>1, <2>2
    <3> QED
      BY <3>1, <2>1, <1>3, <1>4
  <2>3. CASE item = NewItem(e)
    BY <2>3, <2>1, <1>3, <1>4
  <2> QED
    BY <2>2, <2>3
<1>7. ASSUME NEW s \in m + 1 .. next' - 1 PROVE s \in {item.seq : item \in events'}
  <2>1. s > dropped /\ s > n
    BY <1>2, <1>3, <1>4
  <2>2. CASE s = next
    BY <2>1, <2>2, <1>1, <1>4
  <2>3. CASE s # next
    <3>1. s \in n + 1 .. next - 1
      BY <2>1, <2>3, <1>4, <1>2, <1>3
    <3>2. PICK item \in events : item.seq = s
      BY <3>1, <1>2
    <3> QED
      BY <3>2, <2>1, <1>1
  <2> QED
    BY <2>2, <2>3
<1>8. {item.seq : item \in events'} = m + 1 .. next' - 1
  BY <1>6, <1>7
<1> QED
  BY <1>5, <1>8 DEF Buffered

\* A publication keeps everything that does not depend on the worker's place.
LEMMA PublishKeeps ==
    ASSUME StreamInv, NEW e, PublishItem(e), Publishable(e), UNCHANGED <<turnStatus, subscriberVars>>,
           stage' \in {"queued", "begin", "started", "stream", "say", "over"}, cancelling' \in BOOLEAN
    PROVE  /\ Typed' /\ Buffered' /\ Numbered' /\ CutTogether' /\ Appended'
           /\ PassedIsShown' /\ BatchIsWhole' /\ OverIsWhole'
<1> USE StreamAssumption
<1> DEFINE new == NewItem(e)
<1>0. /\ new \in Items /\ new.seq = next /\ new.event = e.event /\ new.delta = e.delta
      /\ events' \subseteq events \cup {new}
      /\ next' = next + 1
      /\ IsDelta(e) => text' = text + 1 /\ textSeq' = next
      /\ ~IsDelta(e) => text' = text /\ textSeq' = textSeq
      /\ ended' = (ended \/ IsEnd(e))
  BY PublishFacts
<1>a. /\ IsDelta(e) => e.delta = text + 1 /\ text < MaxDeltas
      /\ ~IsDelta(e) => e.delta = 0
      /\ IsDelta(new) <=> IsDelta(e)
      /\ IsDelta(e) => turnStatus # "completed"
  BY <1>0 DEF Publishable, IsDelta
<1>b. Held' \subseteq Held \cup {new} /\ batch' = batch /\ cursor' = cursor /\ snapCursor' = snapCursor
      /\ snapText' = snapText /\ rendered' = rendered /\ at' = at /\ turnStatus' = turnStatus
      /\ snapStatus' = snapStatus
  BY <1>0 DEF Held, subscriberVars
<1> HIDE DEF new
<1>t. Typed
  BY DEF StreamInv
<1>c. /\ next \in Nat /\ text \in Nat /\ textSeq \in Nat /\ cursor \in Nat /\ snapCursor \in Nat /\ snapText \in Nat
      /\ textSeq < next /\ cursor < next /\ snapCursor < next /\ snapText <= text /\ text <= MaxDeltas /\ next > 0
  BY <1>t DEF Typed
<1>d. \A x \in Held : x.seq \in Nat /\ x.delta \in Nat
  BY <1>t DEF Typed, Held, Items
<1>1. Typed'
  <2>1. ended' \in BOOLEAN /\ next' \in Nat \ {0} /\ text' \in 0 .. MaxDeltas /\ textSeq' \in 0 .. next' - 1
    BY <1>t, <1>0, <1>a, <1>c DEF Typed
  <2>2. snapText' \in 0 .. text' /\ snapCursor' \in 0 .. next' - 1 /\ cursor' \in 0 .. next' - 1
    BY <1>b, <1>0, <1>a, <1>c
  <2>3. events' \subseteq Items /\ batch' \subseteq Items
    BY <1>t, <1>0, <1>b DEF Typed
  <2> QED
    BY <1>t, <2>1, <2>2, <2>3, <1>b DEF Typed
<1>2. Buffered'
  BY PublishBuffers
<1>3. Numbered'
  <2>1. Numbered
    BY DEF StreamInv
  <2>2. \A x \in Held' : x.seq < next' /\ x.seq > 0
    BY <2>1, <1>0, <1>b, <1>c, <1>d DEF Numbered
  <2>3. \A x, y \in Held' : x.seq = y.seq => x = y
    BY <2>1, <1>0, <1>b, <1>c, <1>d DEF Numbered
  <2>4. \A x \in Held' : IF IsDelta(x) THEN x.delta > 0 /\ x.delta <= text' /\ x.seq <= textSeq' ELSE x.delta = 0
    BY <2>1, <1>0, <1>a, <1>b, <1>c, <1>d DEF Numbered
  <2>5. \A x, y \in Held' : (IsDelta(x) /\ IsDelta(y) /\ x.seq < y.seq) => x.delta < y.delta
    BY <2>1, <1>0, <1>a, <1>b, <1>c, <1>d DEF Numbered
  <2> QED
    BY <2>2, <2>3, <2>4, <2>5 DEF Numbered, IsDelta
<1>4. CutTogether'
  <2>1. CutTogether
    BY DEF StreamInv
  <2>2. \A x \in Held' : IsDelta(x) => (x.seq <= snapCursor <=> x.delta <= snapText)
    BY <2>1, <1>0, <1>a, <1>b, <1>c, <1>d DEF CutTogether
  <2> QED
    BY <2>2, <1>b DEF CutTogether, IsDelta
<1>5. Appended'
  <2>1. Appended
    BY DEF StreamInv
  <2>2. \A k \in DOMAIN rendered : rendered[k] \in Nat
    BY <1>t DEF Typed
  <2>3. \A x \in Held' : (IsDelta(x) /\ IsAvailable(x)) => \A k \in DOMAIN rendered : rendered[k] < x.delta
    BY <2>1, <2>2, <1>0, <1>a, <1>b, <1>c, <1>d DEF Appended
  <2>4. \A x : IsAvailable(x)' <=> IsAvailable(x)
    BY <1>b DEF IsAvailable, Covered
  <2>5. \A k \in DOMAIN rendered : rendered[k] <= text'
    BY <2>1, <2>2, <1>0, <1>a, <1>c DEF Appended
  <2> QED
    BY <2>1, <2>3, <2>4, <2>5, <1>b DEF Appended, IsDelta, IsAvailable, Covered
<1>6. PassedIsShown'
  <2>1. PassedIsShown
    BY DEF StreamInv
  <2>2. Passed' = Passed /\ Passed < next /\ Passed \in Nat
    BY <1>b, <1>c DEF Passed
  <2>3. \A x \in events' : (IsDelta(x) /\ x.seq <= Passed) => Shown(x.delta)
    BY <2>1, <2>2, <1>0, <1>c DEF PassedIsShown
  <2> QED
    BY <2>2, <2>3, <1>b DEF PassedIsShown, IsDelta, Shown
<1>7. BatchIsWhole'
  <2>1. BatchIsWhole /\ Numbered
    BY DEF StreamInv
  <2>2. \A b \in batch : b.seq < next /\ b.seq \in Nat
    BY <2>1, <1>d DEF Numbered, Held
  <2>3. at = "deliver" => \A b \in batch : \A x \in events' : (IsAvailable(x) /\ x.seq < b.seq) => x \in batch
    BY <2>1, <2>2, <1>0, <1>c DEF BatchIsWhole
  <2> QED
    BY <2>1, <2>3, <1>b DEF BatchIsWhole, IsAvailable, Covered
<1>8. OverIsWhole'
  <2>1. OverIsWhole
    BY DEF StreamInv
  <2>2. (at = "over" /\ turnStatus = "completed") => \A x \in events' : IsDelta(x) => Shown(x.delta)
    BY <2>1, <1>0, <1>a DEF OverIsWhole
  <2> QED
    BY <2>1, <2>2, <1>b DEF OverIsWhole, IsDelta, Shown
<1> QED
  BY <1>1, <1>2, <1>3, <1>4, <1>5, <1>6, <1>7, <1>8

-----------------------------------------------------------------------------
(* The worker and the cancellation.                                         *)

\* A step of the row alone: Begin, End and Cancel.
LEMMA RowKeeps ==
    ASSUME StreamInv, UNCHANGED <<streamVars, subscriberVars>>,
           turnStatus' \in Unfinished \cup Finished,
           turnStatus \in Finished => turnStatus' = turnStatus,
           stage' \in {"queued", "begin", "started", "stream", "say", "over"}, cancelling' \in BOOLEAN
    PROVE  /\ Typed' /\ Buffered' /\ Numbered' /\ CutTogether' /\ Appended'
           /\ PassedIsShown' /\ BatchIsWhole' /\ OverIsWhole'
<1>0. /\ Held' = Held /\ events' = events /\ batch' = batch /\ cursor' = cursor /\ snapCursor' = snapCursor
      /\ snapText' = snapText /\ rendered' = rendered /\ at' = at /\ next' = next /\ text' = text
      /\ textSeq' = textSeq /\ ended' = ended /\ snapStatus' = snapStatus
  BY DEF Held, subscriberVars, streamVars
<1>1. Typed'
  BY <1>0 DEF Typed, StreamInv
<1>2. Buffered'
  BY <1>0 DEF Buffered, StreamInv
<1>3. Numbered' /\ CutTogether'
  BY <1>0 DEF Numbered, CutTogether, StreamInv, IsDelta
<1>4. Appended'
  BY <1>0 DEF Appended, StreamInv, IsDelta, IsAvailable, Covered
<1>5. PassedIsShown'
  BY <1>0 DEF PassedIsShown, StreamInv, IsDelta, Shown, Passed
<1>6. BatchIsWhole'
  BY <1>0 DEF BatchIsWhole, StreamInv, IsAvailable, Covered
<1>7. OverIsWhole'
  BY <1>0 DEF OverIsWhole, StreamInv, IsDelta, Shown
<1> QED
  BY <1>1, <1>2, <1>3, <1>4, <1>5, <1>6, <1>7

\* What is published of an ended turn comes after all of its reply.
LEMMA PublishKeepsTheEnd ==
    ASSUME StreamInv, NEW e, PublishItem(e), Publishable(e), UNCHANGED <<turnStatus, subscriberVars>>,
           turnStatus \in Unfinished => ~cancelling', cancelling' => turnStatus = "cancelled",
           stage' = "say" => turnStatus \in {"completed", "failed"},
           turnStatus = "completed" => stage' \in {"say", "over"}
    PROVE  EndsInOrder'
<1> DEFINE new == NewItem(e)
<1>1. /\ new.seq = next /\ new.event = e.event
      /\ events' \subseteq events \cup {new} /\ batch' = batch
      /\ ~IsDelta(e) => textSeq' = textSeq
      /\ ended' = (ended \/ IsEnd(e))
      /\ turnStatus' = turnStatus /\ snapStatus' = snapStatus
  BY PublishFacts DEF subscriberVars
<1>2. /\ IsEnd(new) <=> IsEnd(e)
      /\ IsEnd(e) => turnStatus \in Finished
      /\ IsDelta(e) => turnStatus # "completed"
  BY <1>1 DEF Publishable, IsEnd
<1> HIDE DEF new
<1>3. EndsInOrder /\ textSeq < next /\ Held' \subseteq Held \cup {new}
  BY <1>1 DEF StreamInv, Typed, Held
<1>4. ~(turnStatus \in Unfinished /\ turnStatus \in Finished)
  BY DEF Unfinished, Finished
<1>5. turnStatus' \in Unfinished => ~ended' /\ ~cancelling' /\ \A x \in Held' : ~IsEnd(x)
  BY <1>1, <1>2, <1>3, <1>4 DEF EndsInOrder
<1>6. turnStatus' = "completed" => stage' \in {"say", "over"} /\ \A x \in Held' : IsEnd(x) => x.seq > textSeq'
  BY <1>1, <1>2, <1>3 DEF EndsInOrder
<1>7. snapStatus' \in Finished => turnStatus' = snapStatus'
  BY <1>1, <1>3 DEF EndsInOrder
<1> QED
  BY <1>1, <1>5, <1>6, <1>7 DEF EndsInOrder, IsEnd

LEMMA PublishQueuedKeeps == StreamInv /\ PublishQueued => StreamInv'
<1> SUFFICES ASSUME StreamInv, PublishQueued PROVE StreamInv'
  OBVIOUS
<1> DEFINE e == State("turn.queued")
<1>1. Publishable(e)
  BY DEF Publishable, State, IsDelta, IsEnd, Kinds, EndEvents, EndOf, Finished
<1> HIDE DEF e
<1>2. PublishItem(e) /\ UNCHANGED <<turnStatus, subscriberVars>> /\ stage = "queued" /\ stage' = "begin"
      /\ cancelling' = cancelling /\ cancelling \in BOOLEAN
  BY DEF PublishQueued, e, StreamInv, Typed
<1>3. /\ turnStatus \in Unfinished => ~cancelling'
      /\ cancelling' => turnStatus = "cancelled"
      /\ turnStatus # "completed"
  BY <1>2 DEF StreamInv, EndsInOrder
<1>4. /\ Typed' /\ Buffered' /\ Numbered' /\ CutTogether' /\ Appended'
      /\ PassedIsShown' /\ BatchIsWhole' /\ OverIsWhole'
  BY <1>1, <1>2, PublishKeeps
<1>5. EndsInOrder'
  BY <1>1, <1>2, <1>3, PublishKeepsTheEnd
<1> QED
  BY <1>4, <1>5 DEF StreamInv

LEMMA PublishStartedKeeps == StreamInv /\ PublishStarted => StreamInv'
<1> SUFFICES ASSUME StreamInv, PublishStarted PROVE StreamInv'
  OBVIOUS
<1> DEFINE e == State("turn.started")
<1>1. Publishable(e)
  BY DEF Publishable, State, IsDelta, IsEnd, Kinds, EndEvents, EndOf, Finished
<1> HIDE DEF e
<1>2. PublishItem(e) /\ UNCHANGED <<turnStatus, subscriberVars>> /\ stage = "started" /\ stage' = "stream"
      /\ cancelling' = cancelling /\ cancelling \in BOOLEAN
  BY DEF PublishStarted, e, StreamInv, Typed
<1>3. /\ turnStatus \in Unfinished => ~cancelling'
      /\ cancelling' => turnStatus = "cancelled"
      /\ turnStatus # "completed"
  BY <1>2 DEF StreamInv, EndsInOrder
<1>4. /\ Typed' /\ Buffered' /\ Numbered' /\ CutTogether' /\ Appended'
      /\ PassedIsShown' /\ BatchIsWhole' /\ OverIsWhole'
  BY <1>1, <1>2, PublishKeeps
<1>5. EndsInOrder'
  BY <1>1, <1>2, <1>3, PublishKeepsTheEnd
<1> QED
  BY <1>4, <1>5 DEF StreamInv

LEMMA PublishDeltaKeeps == StreamInv /\ PublishDelta => StreamInv'
<1> SUFFICES ASSUME StreamInv, PublishDelta PROVE StreamInv'
  OBVIOUS
<1> DEFINE e == Delta(text + 1)
<1>0. turnStatus # "completed"
  BY DEF PublishDelta, StreamInv, EndsInOrder
<1>1. Publishable(e)
  BY <1>0 DEF Publishable, Delta, IsDelta, IsEnd, Kinds, EndEvents, EndOf, Finished, PublishDelta
<1> HIDE DEF e
<1>2. PublishItem(e) /\ UNCHANGED <<turnStatus, subscriberVars>> /\ stage = "stream" /\ stage' = "stream"
      /\ cancelling' = cancelling /\ cancelling \in BOOLEAN
  BY DEF PublishDelta, e, StreamInv, Typed, turnVars
<1>3. /\ turnStatus \in Unfinished => ~cancelling'
      /\ cancelling' => turnStatus = "cancelled"
  BY <1>2 DEF StreamInv, EndsInOrder
<1>4. /\ Typed' /\ Buffered' /\ Numbered' /\ CutTogether' /\ Appended'
      /\ PassedIsShown' /\ BatchIsWhole' /\ OverIsWhole'
  BY <1>1, <1>2, PublishKeeps
<1>5. EndsInOrder'
  BY <1>0, <1>1, <1>2, <1>3, PublishKeepsTheEnd
<1> QED
  BY <1>4, <1>5 DEF StreamInv

LEMMA PublishEndKeeps == StreamInv /\ PublishEnd => StreamInv'
<1> SUFFICES ASSUME StreamInv, PublishEnd PROVE StreamInv'
  OBVIOUS
<1> DEFINE e == State(EndOf[turnStatus])
<1>0. turnStatus \in {"completed", "failed"}
  BY DEF PublishEnd, StreamInv, EndsInOrder
<1>1. Publishable(e)
  BY <1>0 DEF Publishable, State, IsDelta, IsEnd, Kinds, EndEvents, EndOf, Finished
<1> HIDE DEF e
<1>2. PublishItem(e) /\ UNCHANGED <<turnStatus, subscriberVars>> /\ stage' = "over"
      /\ cancelling' = cancelling /\ cancelling \in BOOLEAN
  BY DEF PublishEnd, e, StreamInv, Typed
<1>3. /\ turnStatus \in Unfinished => ~cancelling'
      /\ cancelling' => turnStatus = "cancelled"
  BY <1>2 DEF StreamInv, EndsInOrder
<1>4. /\ Typed' /\ Buffered' /\ Numbered' /\ CutTogether' /\ Appended'
      /\ PassedIsShown' /\ BatchIsWhole' /\ OverIsWhole'
  BY <1>1, <1>2, PublishKeeps
<1>5. EndsInOrder'
  BY <1>1, <1>2, <1>3, PublishKeepsTheEnd
<1> QED
  BY <1>4, <1>5 DEF StreamInv

LEMMA PublishCancelledKeeps == StreamInv /\ PublishCancelled => StreamInv'
<1> SUFFICES ASSUME StreamInv, PublishCancelled PROVE StreamInv'
  OBVIOUS
<1> DEFINE e == State("turn.cancelled")
<1>0. turnStatus = "cancelled"
  BY DEF PublishCancelled, StreamInv, EndsInOrder
<1>1. Publishable(e)
  BY <1>0 DEF Publishable, State, IsDelta, IsEnd, Kinds, EndEvents, EndOf, Finished
<1> HIDE DEF e
<1>2. PublishItem(e) /\ UNCHANGED <<turnStatus, subscriberVars>> /\ stage' = stage /\ cancelling' = FALSE
      /\ stage \in {"queued", "begin", "started", "stream", "say", "over"}
  BY DEF PublishCancelled, e, StreamInv, Typed
<1>3. /\ stage' = "say" => turnStatus \in {"completed", "failed"}
      /\ turnStatus # "completed"
  BY <1>0, <1>2 DEF StreamInv, EndsInOrder
<1>4. /\ Typed' /\ Buffered' /\ Numbered' /\ CutTogether' /\ Appended'
      /\ PassedIsShown' /\ BatchIsWhole' /\ OverIsWhole'
  BY <1>1, <1>2, PublishKeeps
<1>5. EndsInOrder'
  BY <1>1, <1>2, <1>3, PublishKeepsTheEnd
<1> QED
  BY <1>4, <1>5 DEF StreamInv

\* The row may end at any time; the reply is then whole.
LEMMA RowStepsKeep ==
    ASSUME StreamInv, Begin \/ (\E result \in {"completed", "failed"} : End(result)) \/ Cancel
    PROVE  StreamInv'
<1>1. /\ UNCHANGED <<streamVars, subscriberVars>>
      /\ turnStatus' \in Unfinished \cup Finished
      /\ turnStatus \in Finished => turnStatus' = turnStatus
      /\ stage' \in {"queued", "begin", "started", "stream", "say", "over"} /\ cancelling' \in BOOLEAN
      /\ stage' = "say" => (stage = "say" /\ turnStatus \notin Unfinished) \/ turnStatus' \in {"completed", "failed"}
      /\ turnStatus' = "completed" => stage' \in {"say", "over"}
      /\ turnStatus' \in Unfinished => turnStatus \in Unfinished /\ cancelling' = cancelling
      /\ cancelling' => turnStatus' = "cancelled"
  <2>0. Typed /\ EndsInOrder
    BY DEF StreamInv
  <2>1. CASE Begin
    BY <2>0, <2>1 DEF Begin, Typed, EndsInOrder, Unfinished, Finished
  <2>2. CASE Cancel
    BY <2>0, <2>2 DEF Cancel, Typed, EndsInOrder, Unfinished, Finished
  <2>3. CASE \E result \in {"completed", "failed"} : End(result)
    BY <2>0, <2>3 DEF End, Typed, EndsInOrder, Unfinished, Finished
  <2> QED
    BY <2>1, <2>2, <2>3
<1>2. /\ Typed' /\ Buffered' /\ Numbered' /\ CutTogether' /\ Appended'
      /\ PassedIsShown' /\ BatchIsWhole' /\ OverIsWhole'
  BY <1>1, RowKeeps
<1>3. EndsInOrder'
  <2>1. /\ Held' = Held /\ ended' = ended /\ snapStatus' = snapStatus /\ textSeq' = textSeq
    BY <1>1 DEF Held, streamVars, subscriberVars
  <2>2. EndsInOrder /\ turnStatus \in Unfinished \cup Finished /\ Typed
    BY DEF StreamInv, Typed
  <2>3. snapStatus' \in Finished => turnStatus' = snapStatus'
    BY <1>1, <2>1, <2>2 DEF EndsInOrder
  <2>4. turnStatus' = "completed" => \A x \in Held' : IsEnd(x) => x.seq > textSeq'
    <3>1. CASE turnStatus \in Unfinished
      BY <3>1, <2>1, <2>2 DEF EndsInOrder
    <3>2. CASE turnStatus \in Finished
      BY <3>2, <1>1, <2>1, <2>2 DEF EndsInOrder
    <3> QED
      BY <3>1, <3>2, <2>2
  <2>5. stage' = "say" => turnStatus' \in {"completed", "failed"}
    BY <1>1, <2>2 DEF EndsInOrder
  <2>6. turnStatus' \in Unfinished => ~ended' /\ ~cancelling' /\ \A x \in Held' : ~IsEnd(x)
    BY <1>1, <2>1, <2>2 DEF EndsInOrder
  <2> QED
    BY <1>1, <2>3, <2>4, <2>5, <2>6 DEF EndsInOrder, IsEnd
<1> QED
  BY <1>2, <1>3 DEF StreamInv

-----------------------------------------------------------------------------
(* The subscriber.                                                          *)

\* What a step of the subscriber leaves alone.
LEMMA SubscriberFrame ==
    ASSUME StreamInv, UNCHANGED <<turnVars, streamVars>>, UNCHANGED batch
    PROVE  /\ Buffered' /\ Numbered'
           /\ Held' = Held
<1>1. /\ Held' = Held /\ events' = events /\ next' = next /\ text' = text /\ textSeq' = textSeq
  BY DEF Held, streamVars
<1>2. Buffered'
  BY <1>1 DEF Buffered, StreamInv
<1>3. Numbered'
  BY <1>1 DEF Numbered, StreamInv, IsDelta
<1> QED
  BY <1>1, <1>2, <1>3

\* Steps that only move the subscriber, to a place where nothing is expected
\* of it but what it has.
LEMMA MoveKeeps ==
    ASSUME StreamInv, UNCHANGED <<turnVars, streamVars, snapText, snapCursor, cursor, batch, rendered>>,
           at' \in {"away", "read", "given", "follow"},
           snapStatus' \in {snapStatus, turnStatus}
    PROVE  StreamInv'
<1>0. /\ Held' = Held /\ events' = events /\ batch' = batch /\ cursor' = cursor /\ snapCursor' = snapCursor
      /\ snapText' = snapText /\ rendered' = rendered /\ next' = next /\ text' = text
      /\ textSeq' = textSeq /\ ended' = ended /\ turnStatus' = turnStatus /\ stage' = stage /\ cancelling' = cancelling
  BY DEF Held, turnVars, streamVars
<1>1. Typed'
  BY <1>0 DEF Typed, StreamInv
<1>2. Buffered' /\ Numbered'
  BY <1>0, SubscriberFrame
<1>3. CutTogether'
  BY <1>0 DEF CutTogether, StreamInv, IsDelta
<1>4. Appended'
  BY <1>0 DEF Appended, StreamInv, IsDelta, IsAvailable, Covered
<1>5. PassedIsShown'
  BY <1>0 DEF PassedIsShown, StreamInv, IsDelta, Shown, Passed
<1>6. BatchIsWhole' /\ OverIsWhole'
  BY DEF BatchIsWhole, OverIsWhole
<1>7. EndsInOrder'
  BY <1>0 DEF EndsInOrder, StreamInv, IsEnd
<1> QED
  BY <1>1, <1>2, <1>3, <1>4, <1>5, <1>6, <1>7 DEF StreamInv

LEMMA TakeSnapshotKeeps == StreamInv /\ TakeSnapshot => StreamInv'
<1> SUFFICES ASSUME StreamInv, TakeSnapshot PROVE StreamInv'
  OBVIOUS
<1>0. /\ Held' \subseteq Held /\ events' = events /\ batch' = {} /\ snapCursor' = textSeq /\ cursor' \in {0, cursor}
      /\ snapText' = text /\ rendered' = <<>> /\ next' = next /\ text' = text /\ at' = "given"
      /\ textSeq' = textSeq /\ ended' = ended /\ turnStatus' = turnStatus /\ stage' = stage /\ cancelling' = cancelling
      /\ snapStatus' = snapStatus
  BY DEF Held, turnVars, streamVars, TakeSnapshot
<1>t. Typed /\ Numbered /\ Buffered /\ EndsInOrder
  BY DEF StreamInv
<1>d. \A x \in Held : x.seq \in Nat /\ x.delta \in Nat
  BY <1>t DEF Typed, Held, Items
<1>1. Typed'
  <2>1. rendered' \in Seq(1 .. MaxDeltas) /\ snapText' \in 0 .. text' /\ snapCursor' \in 0 .. next' - 1 /\ cursor' \in 0 .. next' - 1
    BY <1>0, <1>t, StreamAssumption DEF Typed
  <2> QED
    BY <2>1, <1>0, <1>t DEF Typed
<1>2. Buffered'
  BY <1>0, <1>t DEF Buffered
<1>3. Numbered'
  BY <1>0, <1>t DEF Numbered, IsDelta
<1>4. CutTogether'
  <2>1. \A x \in Held : IsDelta(x) => x.seq <= textSeq /\ x.delta <= text
    BY <1>t DEF Numbered
  <2> QED
    BY <2>1, <1>0 DEF CutTogether, IsDelta
<1>5. Appended'
  BY <1>0 DEF Appended
<1>6. PassedIsShown'
  <2>1. \A x \in events : IsDelta(x) => x.delta <= text
    BY <1>t DEF Numbered, Held
  <2> QED
    BY <2>1, <1>0 DEF PassedIsShown, IsDelta, Shown
<1>7. BatchIsWhole' /\ OverIsWhole'
  BY <1>0 DEF BatchIsWhole, OverIsWhole
<1>8. EndsInOrder'
  BY <1>0, <1>t DEF EndsInOrder, IsEnd
<1> QED
  BY <1>1, <1>2, <1>3, <1>4, <1>5, <1>6, <1>7, <1>8 DEF StreamInv

\* With nothing available, every piece in the buffer has been shown.
LEMMA NothingAvailable ==
    ASSUME StreamInv, Available = {}
    PROVE  \A x \in events : IsDelta(x) => Shown(x.delta)
<1> SUFFICES ASSUME NEW x \in events, IsDelta(x) PROVE Shown(x.delta)
  OBVIOUS
<1>1. ~IsAvailable(x)
  BY DEF Available
<1>2. x.seq \in Nat /\ cursor \in Nat /\ snapCursor \in Nat
  BY DEF StreamInv, Typed, Items
<1>3. x.seq <= Passed
  BY <1>1, <1>2 DEF IsAvailable, Covered, Passed
<1> QED
  BY <1>3 DEF StreamInv, PassedIsShown

\* The subscriber is over when it has seen what there is.
LEMMA OverKeeps ==
    ASSUME StreamInv, UNCHANGED <<turnVars, streamVars, snapStatus, snapText, snapCursor, cursor, batch, rendered>>,
           at' = "over", Available = {}, turnStatus \in Finished
    PROVE  StreamInv'
<1>0. /\ Held' = Held /\ events' = events /\ batch' = batch /\ cursor' = cursor /\ snapCursor' = snapCursor
      /\ snapText' = snapText /\ rendered' = rendered /\ next' = next /\ text' = text /\ snapStatus' = snapStatus
      /\ textSeq' = textSeq /\ ended' = ended /\ turnStatus' = turnStatus /\ stage' = stage /\ cancelling' = cancelling
  BY DEF Held, turnVars, streamVars
<1>1. Typed'
  BY <1>0 DEF Typed, StreamInv
<1>2. Buffered' /\ Numbered'
  BY <1>0, SubscriberFrame
<1>3. CutTogether'
  BY <1>0 DEF CutTogether, StreamInv, IsDelta
<1>4. Appended'
  BY <1>0 DEF Appended, StreamInv, IsDelta, IsAvailable, Covered
<1>5. PassedIsShown'
  BY <1>0 DEF PassedIsShown, StreamInv, IsDelta, Shown, Passed
<1>6. BatchIsWhole'
  BY DEF BatchIsWhole
<1>7. OverIsWhole'
  <2>1. \A x \in events : IsDelta(x) => Shown(x.delta)
    BY NothingAvailable
  <2> QED
    BY <2>1, <1>0 DEF OverIsWhole, IsDelta, Shown
<1>8. EndsInOrder'
  BY <1>0 DEF EndsInOrder, StreamInv, IsEnd
<1> QED
  BY <1>1, <1>2, <1>3, <1>4, <1>5, <1>6, <1>7, <1>8 DEF StreamInv

LEMMA OpenKeeps == StreamInv /\ Open => StreamInv'
<1> SUFFICES ASSUME StreamInv, Open PROVE StreamInv'
  OBVIOUS
<1>1. CASE snapStatus \in Finished /\ Available = {}
  <2>1. turnStatus \in Finished
    BY <1>1 DEF StreamInv, EndsInOrder
  <2> QED
    BY <1>1, <2>1, OverKeeps DEF Open
<1>2. CASE ~(snapStatus \in Finished /\ Available = {})
  BY <1>2, MoveKeeps DEF Open
<1> QED
  BY <1>1, <1>2

LEMMA FetchKeeps == StreamInv /\ Fetch => StreamInv'
<1> SUFFICES ASSUME StreamInv, Fetch PROVE StreamInv'
  OBVIOUS
<1>t. Typed /\ Numbered /\ EndsInOrder /\ CutTogether /\ Appended /\ PassedIsShown
  BY DEF StreamInv
<1>1. CASE Available = {} /\ ended /\ at' = "over" /\ UNCHANGED batch
  <2>1. turnStatus \in Finished
    BY <1>1, <1>t DEF Typed, EndsInOrder
  <2> QED
    BY <1>1, <2>1, OverKeeps DEF Fetch
<1>2. CASE Available # {} /\ at' = "deliver" /\ batch' = Available
  <2>0. /\ Held' \subseteq Held /\ events' = events /\ cursor' = cursor /\ snapCursor' = snapCursor
        /\ snapText' = snapText /\ rendered' = rendered /\ next' = next /\ text' = text /\ snapStatus' = snapStatus
        /\ textSeq' = textSeq /\ ended' = ended /\ turnStatus' = turnStatus /\ stage' = stage /\ cancelling' = cancelling
    BY <1>2 DEF Held, turnVars, streamVars, Fetch, Available
  <2>1. Typed'
    BY <2>0, <1>2, <1>t DEF Typed, Available
  <2>2. Buffered'
    BY <2>0 DEF Buffered, StreamInv
  <2>3. Numbered'
    BY <2>0, <1>t DEF Numbered, IsDelta
  <2>4. CutTogether'
    BY <2>0, <1>t DEF CutTogether, IsDelta
  <2>5. Appended'
    BY <2>0, <1>t DEF Appended, IsDelta, IsAvailable, Covered
  <2>6. PassedIsShown'
    BY <2>0, <1>t DEF PassedIsShown, IsDelta, Shown, Passed
  <2>7. BatchIsWhole'
    BY <2>0, <1>2 DEF BatchIsWhole, Available, IsAvailable, Covered
  <2>8. OverIsWhole'
    BY <1>2 DEF OverIsWhole
  <2>9. EndsInOrder'
    BY <2>0, <1>t DEF EndsInOrder, IsEnd
  <2> QED
    BY <2>1, <2>2, <2>3, <2>4, <2>5, <2>6, <2>7, <2>8, <2>9 DEF StreamInv
<1> QED
  BY <1>1, <1>2 DEF Fetch

\* The event handed over is the next one that this subscriber has not had.
LEMMA DeliverKeeps == StreamInv /\ Deliver => StreamInv'
<1> SUFFICES ASSUME StreamInv, NEW d \in batch, at = "deliver", \A other \in batch : d.seq <= other.seq,
                    cursor' = d.seq, batch' = batch \ {d},
                    rendered' = IF IsDelta(d) THEN Append(rendered, d.delta) ELSE rendered,
                    at' = IF IsEnd(d) THEN "over" ELSE IF batch = {d} THEN "follow" ELSE "deliver",
                    UNCHANGED <<turnVars, streamVars, snapStatus, snapText, snapCursor>>
             PROVE  StreamInv'
  BY DEF Deliver, IsDelta, IsEnd
<1>0. /\ Held' \subseteq Held /\ events' = events /\ snapCursor' = snapCursor
      /\ snapText' = snapText /\ next' = next /\ text' = text /\ snapStatus' = snapStatus
      /\ textSeq' = textSeq /\ ended' = ended /\ turnStatus' = turnStatus /\ stage' = stage /\ cancelling' = cancelling
  BY DEF Held, turnVars, streamVars
<1>t. Typed /\ Numbered /\ EndsInOrder /\ CutTogether /\ Appended /\ PassedIsShown /\ BatchIsWhole
  BY DEF StreamInv
<1>c. /\ next \in Nat /\ text \in Nat /\ textSeq \in Nat /\ cursor \in Nat /\ snapCursor \in Nat /\ snapText \in Nat
      /\ textSeq < next /\ cursor < next /\ snapCursor < next /\ snapText <= text /\ text <= MaxDeltas
  BY <1>t, StreamAssumption DEF Typed
<1>d. \A x \in Held : x.seq \in Nat /\ x.delta \in 0 .. MaxDeltas
  BY <1>t DEF Typed, Held, Items
<1>e. d \in Held /\ d.seq \in Nat /\ d.delta \in Nat /\ d.seq < next /\ d.seq > cursor /\ IsAvailable(d)
  BY <1>c, <1>d, <1>t DEF Held, Numbered, BatchIsWhole, IsAvailable
<1>f. IsDelta(d) => d.delta > 0 /\ d.delta <= text /\ d.seq > snapCursor /\ d.delta > snapText
  BY <1>c, <1>d, <1>e, <1>t DEF IsAvailable, Covered, IsDelta, Numbered, CutTogether
<1>g. \A b \in batch' : b.seq > d.seq /\ b \in batch
  BY <1>d, <1>e, <1>t DEF Numbered, Held
<1>h. rendered \in Seq(1 .. MaxDeltas) /\ Len(rendered) \in Nat /\ DOMAIN rendered = 1 .. Len(rendered)
      /\ \A k \in DOMAIN rendered : rendered[k] \in Nat
  <2>1. rendered \in Seq(1 .. MaxDeltas)
    BY <1>t DEF Typed
  <2>2. Len(rendered) \in Nat /\ DOMAIN rendered = 1 .. Len(rendered)
    BY <2>1
  <2>3. ASSUME NEW k \in 1 .. Len(rendered) PROVE rendered[k] \in Nat
    <3>1. rendered[k] \in 1 .. MaxDeltas
      BY <2>1, ElementOfSeq
    <3> QED
      BY <3>1
  <2> QED
    BY <2>1, <2>2, <2>3
<1>r. /\ rendered' \in Seq(1 .. MaxDeltas)
      /\ \A k \in DOMAIN rendered : k \in DOMAIN rendered' /\ rendered'[k] = rendered[k]
      /\ \A k \in DOMAIN rendered' : k \in DOMAIN rendered \/ (IsDelta(d) /\ k = Len(rendered) + 1 /\ rendered'[k] = d.delta)
      /\ IsDelta(d) => \E k \in DOMAIN rendered' : rendered'[k] = d.delta
  <2>1. CASE IsDelta(d)
    <3>1. rendered' = Append(rendered, d.delta) /\ d.delta \in 1 .. MaxDeltas
      BY <2>1, <1>f, <1>e, <1>d
    <3> DEFINE longer == Append(rendered, d.delta)
    <3>2. /\ longer \in Seq(1 .. MaxDeltas) /\ Len(longer) = Len(rendered) + 1
          /\ longer[Len(rendered) + 1] = d.delta
          /\ \A k \in 1 .. Len(rendered) : longer[k] = rendered[k]
      BY <3>1, <1>h
    <3>3. DOMAIN longer = 1 .. Len(rendered) + 1
      BY <3>2
    <3> HIDE DEF longer
    <3> QED
      BY <2>1, <3>1, <3>2, <3>3, <1>h DEF longer
  <2>2. CASE ~IsDelta(d)
    BY <2>2, <1>h
  <2> QED
    BY <2>1, <2>2
<1>s. \A n : Shown(n) => Shown(n)'
  BY <1>r, <1>0 DEF Shown
<1>k. DOMAIN rendered' \subseteq Nat
  BY <1>r, <1>h
<1>1. Typed'
  <2>1. cursor' \in 0 .. next' - 1
    BY <1>0, <1>e, <1>c
  <2>2. batch' \subseteq Items /\ at' \in {"away", "read", "given", "follow", "deliver", "over"}
    BY <1>t DEF Typed
  <2> QED
    BY <2>1, <2>2, <1>0, <1>r, <1>t DEF Typed
<1>2. Buffered'
  BY <1>0 DEF Buffered, StreamInv
<1>3. Numbered'
  BY <1>0, <1>t DEF Numbered, IsDelta
<1>4. CutTogether'
  BY <1>0, <1>t DEF CutTogether, IsDelta
<1>5. Appended'
  <2>1. \A k \in DOMAIN rendered' : rendered'[k] > snapText /\ rendered'[k] <= text
    BY <1>r, <1>f, <1>t DEF Appended
  <2>2. \A j, k \in DOMAIN rendered' : j < k => rendered'[j] < rendered'[k]
    <3> SUFFICES ASSUME NEW j \in DOMAIN rendered', NEW k \in DOMAIN rendered', j < k
                 PROVE  rendered'[j] < rendered'[k]
      OBVIOUS
    <3>1. j \in DOMAIN rendered
      BY <1>r, <1>h, <1>k
    <3>2. CASE k \in DOMAIN rendered
      BY <3>1, <3>2, <1>r, <1>t DEF Appended
    <3>3. CASE k \notin DOMAIN rendered
      BY <3>1, <3>3, <1>r, <1>t, <1>e DEF Appended
    <3> QED
      BY <3>2, <3>3
  <2>3. ASSUME NEW x \in Held', IsDelta(x), IsAvailable(x)', NEW k \in DOMAIN rendered'
        PROVE  rendered'[k] < x.delta
    <3>1. x \in Held /\ x.seq > d.seq /\ x.seq \in Nat
      BY <2>3, <1>0, <1>d DEF IsAvailable
    <3>2. IsAvailable(x)
      BY <2>3, <3>1, <1>0, <1>c, <1>e DEF IsAvailable, Covered
    <3>3. IsDelta(d) => d.delta < x.delta
      BY <2>3, <3>1, <1>e, <1>t DEF Numbered
    <3> QED
      BY <2>3, <3>1, <3>2, <3>3, <1>r, <1>t DEF Appended
  <2> QED
    BY <2>1, <2>2, <2>3, <1>0 DEF Appended, IsDelta
\* An event of the buffer that the cursor now passes is shown.
<1>p. \A x \in events : (IsDelta(x) /\ x.seq <= d.seq) => Shown(x.delta)'
  <2> SUFFICES ASSUME NEW x \in events, IsDelta(x), x.seq <= d.seq PROVE Shown(x.delta)'
    OBVIOUS
  <2>0. x \in Held /\ x.seq \in Nat
    BY <1>d DEF Held
  <2>1. CASE ~IsAvailable(x)
    <3>1. x.seq <= Passed
      BY <2>0, <2>1, <1>c DEF IsAvailable, Covered, Passed
    <3> QED
      BY <3>1, <1>t, <1>s DEF PassedIsShown
  <2>2. CASE IsAvailable(x) /\ x = d
    BY <2>2, <1>r DEF Shown
  <2>3. CASE IsAvailable(x) /\ x # d
    <3>1. x.seq < d.seq
      BY <2>0, <2>3, <1>e, <1>t DEF Numbered
    <3>2. x \in batch
      BY <2>3, <3>1, <1>t DEF BatchIsWhole
    <3> QED
      BY <3>1, <3>2, <2>0, <1>e
  <2> QED
    BY <2>1, <2>2, <2>3
<1>q. \A x \in events : (IsDelta(x) /\ x.seq <= snapCursor) => Shown(x.delta)'
  BY <1>0, <1>t DEF CutTogether, Held, Shown
<1>6. PassedIsShown'
  BY <1>p, <1>q, <1>0 DEF PassedIsShown, Passed, IsDelta
<1>7. BatchIsWhole'
  <2> SUFFICES ASSUME at' = "deliver" PROVE
          /\ batch' # {}
          /\ \A b \in batch' : IsAvailable(b)' /\ \A x \in events' : (IsAvailable(x)' /\ x.seq < b.seq) => x \in batch'
    BY DEF BatchIsWhole
  <2>1. batch' # {}
    BY <1>t
  <2>2. ASSUME NEW b \in batch' PROVE IsAvailable(b)'
    BY <1>g, <1>0, <1>t DEF BatchIsWhole, IsAvailable, Covered
  <2>3. ASSUME NEW b \in batch', NEW x \in events', IsAvailable(x)', x.seq < b.seq PROVE x \in batch'
    <3>1. x.seq \in Nat /\ x.seq > d.seq
      BY <2>3, <1>0, <1>d DEF IsAvailable, Held
    <3>2. IsAvailable(x)
      BY <3>1, <2>3, <1>0, <1>c, <1>e DEF IsAvailable, Covered
    <3>3. x \in batch
      BY <2>3, <3>2, <1>g, <1>0, <1>t DEF BatchIsWhole
    <3> QED
      BY <3>1, <3>3, <1>e
  <2> QED
    BY <2>1, <2>2, <2>3
<1>8. OverIsWhole'
  <2> SUFFICES ASSUME at' = "over" PROVE
          /\ turnStatus' \in Finished
          /\ turnStatus' = "completed" => \A x \in events' : IsDelta(x)' => Shown(x.delta)'
    BY DEF OverIsWhole
  <2>1. IsEnd(d)
    OBVIOUS
  <2>2. turnStatus \in Finished
    BY <2>1, <1>e, <1>t DEF Typed, EndsInOrder
  <2>3. ASSUME turnStatus = "completed", NEW x \in events, IsDelta(x) PROVE Shown(x.delta)'
    <3>1. d.seq > textSeq /\ x.seq <= textSeq /\ x.seq \in Nat
      BY <2>1, <2>3, <1>e, <1>d, <1>t DEF EndsInOrder, Numbered, Held
    <3> QED
      BY <3>1, <2>3, <1>p, <1>e, <1>c
  <2> QED
    BY <2>2, <2>3, <1>0 DEF IsDelta
<1>9. EndsInOrder'
  BY <1>0, <1>t DEF EndsInOrder, IsEnd
<1> QED
  BY <1>1, <1>2, <1>3, <1>4, <1>5, <1>6, <1>7, <1>8, <1>9 DEF StreamInv

-----------------------------------------------------------------------------
LEMMA StreamStep == StreamInv /\ [StreamNext]_streamAllVars => StreamInv'
<1> SUFFICES ASSUME StreamInv, [StreamNext]_streamAllVars PROVE StreamInv'
  OBVIOUS
<1>1. CASE GeneratorStep
  BY <1>1, PublishQueuedKeeps, PublishStartedKeeps, PublishDeltaKeeps, PublishEndKeeps, RowStepsKeep DEF GeneratorStep
<1>2. CASE Cancel \/ PublishCancelled
  BY <1>2, RowStepsKeep, PublishCancelledKeeps
<1>3. CASE SubscriberStep
  BY <1>3, TakeSnapshotKeeps, OpenKeeps, FetchKeeps, DeliverKeeps DEF SubscriberStep
<1>4. CASE ReadTurn \/ Disconnect
  BY <1>4, MoveKeeps DEF ReadTurn, Disconnect
<1>5. CASE UNCHANGED streamAllVars
  <2>1. UNCHANGED <<streamVars, subscriberVars>> /\ UNCHANGED turnVars
    BY <1>5 DEF streamAllVars
  <2>2. turnStatus' = turnStatus /\ stage' = stage /\ cancelling' = cancelling
    BY <2>1 DEF turnVars
  <2>3. Typed /\ EndsInOrder
    BY DEF StreamInv
  <2>4. /\ Typed' /\ Buffered' /\ Numbered' /\ CutTogether' /\ Appended'
        /\ PassedIsShown' /\ BatchIsWhole' /\ OverIsWhole'
    BY <2>1, <2>2, <2>3, RowKeeps DEF Typed
  <2>5. EndsInOrder'
    BY <2>1, <2>2, <2>3 DEF EndsInOrder, streamVars, subscriberVars, Held, IsEnd
  <2> QED
    BY <2>4, <2>5 DEF StreamInv
<1> QED
  BY <1>1, <1>2, <1>3, <1>4, <1>5 DEF StreamNext

LEMMA StreamImplies == StreamInv => StreamIsFaithful
<1> SUFFICES ASSUME StreamInv PROVE StreamIsFaithful
  OBVIOUS
<1>t. Typed /\ Numbered /\ Buffered /\ Appended /\ PassedIsShown /\ OverIsWhole
  BY DEF StreamInv
<1>1. StreamTypeOK
  <2>1. snapText \in 0 .. MaxDeltas
    BY <1>t, StreamAssumption DEF Typed
  <2>2. \A x, y \in events : x.seq = y.seq => x = y
    BY <1>t DEF Numbered, Held
  <2> QED
    BY <1>t, <2>1, <2>2 DEF Typed, Buffered, StreamTypeOK
<1>2. NothingTwice
  BY <1>t DEF NothingTwice, Appended
<1>3. NothingSkipped
  BY <1>t DEF NothingSkipped, PassedIsShown, IsDelta
<1>4. EndMeansWhole
  <2> SUFFICES ASSUME at = "over", turnStatus = "completed", NEW n \in 1 .. text, Retained(n) PROVE Shown(n)
    BY DEF EndMeansWhole
  <2>1. PICK item \in events : item.delta = n
    BY DEF Retained
  <2>2. IsDelta(item)
    BY <2>1, <1>t DEF Numbered, Held
  <2> QED
    BY <2>1, <2>2, <1>t DEF OverIsWhole
<1> QED
  BY <1>1, <1>2, <1>3, <1>4 DEF StreamIsFaithful

\* However publications, snapshots, deliveries and reconnections interleave,
\* for every size of the buffer: no piece of the reply is shown twice or out of
\* order, none that the buffer holds is passed over, and who followed a
\* completed turn to its end has seen all of it that was kept.
THEOREM FollowersSeeTheReply == StreamSafety => []StreamIsFaithful
<1>1. StreamInit => StreamInv
  BY StreamInitial
<1>2. StreamInv /\ [StreamNext]_streamAllVars => StreamInv'
  BY StreamStep
<1>3. StreamInv => StreamIsFaithful
  BY StreamImplies
<1> QED
  BY <1>1, <1>2, <1>3, PTL DEF StreamSafety

-----------------------------------------------------------------------------
(* What follows a reply.  An explicit picture is owed from the moment the    *)
(* reply's job begins: its work goes on to planning, the plan it brings back *)
(* has the picture unless the planner crossed the two operations, and what   *)
(* was requested stays requested.                                            *)

Stages == {"none", "plan", "reply", "run", "write", "done", "commit"}

FollowupsTypes ==
    /\ FollowupsTypeOK
    /\ DOMAIN after = {"chat", "planning"}
    /\ work \in [kind : Followups \cup {"chat", "none"}, at : Stages, plan : SUBSET Planned]
    /\ work.kind = "none" => work = Idle

\* The job being worked on has not completed, and the one of a reply that owes a
\* picture goes on to planning.
AtWork ==
    work # Idle =>
        /\ job[work.kind] # "completed"
        /\ work.kind = "chat" /\ ExplicitImage => work.at = "plan"

Owed(r) == r.key = "generate" /\ r.op = "generate"

\* A plan about to be committed has the picture that was asked for.
PlanHasPicture ==
    work.kind = "planning" /\ work.at = "commit" /\ ExplicitImage /\ answer # "crossed"
        => \E r \in work.plan : Owed(r)

FollowupsInv == FollowupsTypes /\ AtWork /\ PlanHasPicture /\ ExplicitImageIsShown

LEMMA FollowupsShape ==
    ASSUME FollowupsTypes
    PROVE  /\ work \in [kind : Followups \cup {"chat", "none"}, at : Stages, plan : SUBSET Planned]
           /\ job \in [PipelineJobs -> Statuses \ {"pending_confirmation"}]
           /\ request \in [Planned -> Statuses]
           /\ Idle \in [kind : Followups \cup {"chat", "none"}, at : Stages, plan : SUBSET Planned]
           /\ work # Idle => work.kind \in PipelineJobs
BY DEF FollowupsTypes, FollowupsTypeOK, Idle, Stages, PipelineJobs

LEMMA FollowupsInitially == ASSUME FollowupsInit PROVE FollowupsInv
<1>1. FollowupsTypes
  <2>1. job \in [PipelineJobs -> Statuses \ {"pending_confirmation"}] /\ request \in [Planned -> Statuses]
    BY DEF FollowupsInit, Statuses
  <2>2. DOMAIN after = {"chat", "planning"} /\ after["chat"] = {} /\ after["planning"] = {}
    BY DEF FollowupsInit
  <2>3. work = Idle /\ Idle \in [kind : Followups \cup {"chat", "none"}, at : Stages, plan : SUBSET Planned]
        /\ work.plan = {}
    BY DEF FollowupsInit, Idle, Stages
  <2>4. stops \in 0 .. MaxStops
    BY FollowupsAssumption DEF FollowupsInit
  <2> QED
    BY <2>1, <2>2, <2>3, <2>4 DEF FollowupsInit, FollowupsTypes, FollowupsTypeOK
<1>2. job["planning"] = "none" /\ job["chat"] = "queued" /\ work = Idle
  BY DEF FollowupsInit, PipelineJobs, Followups
<1> QED
  BY <1>1, <1>2 DEF FollowupsInv, AtWork, PlanHasPicture, ExplicitImageIsShown, Idle

\* One job's row is changed, and no job completes.
LEMMA RowChanges ==
    ASSUME FollowupsTypes, NEW k \in PipelineJobs, NEW s \in Statuses \ {"pending_confirmation"}, Set(k, s)
    PROVE  /\ job' \in [PipelineJobs -> Statuses \ {"pending_confirmation"}]
           /\ job'[k] = s /\ \A j \in PipelineJobs : j # k => job'[j] = job[j]
BY FollowupsShape DEF Set

\* Requests that are settled stay requests.
LEMMA SettledStay ==
    ASSUME FollowupsTypes, NEW from, NEW to \in Ended \cup {"running"}, request' = Settled(from, to)
    PROVE  /\ request' \in [Planned -> Statuses]
           /\ \A r \in Planned : request[r] # "none" => request'[r] # "none"
BY FollowupsShape DEF Settled, Statuses, Ended

\* What a step has to leave alone for a picture that was owed to stay in sight.
LEMMA StillShown ==
    ASSUME FollowupsInv, FollowupsTypes', context' = context,
           \A r \in Planned : request[r] # "none" => request'[r] # "none",
           job'["planning"] = "completed" => job["planning"] = "completed" /\ answer' = answer,
           job'["chat"] = "completed" => job["chat"] = "completed" /\ (job["planning"] # "none" => job'["planning"] # "none")
    PROVE  ExplicitImageIsShown'
BY DEF FollowupsInv, ExplicitImageIsShown, ExplicitImage

\* The reply's job: picked up, and committed with the rows of what follows it.
LEMMA ReplyKeeps == ASSUME FollowupsInv, Generate \/ ReplyCommits PROVE FollowupsInv'
<1> USE DEF FollowupsInv
<1>1. CASE Generate
  <2>1. /\ work'.kind = "chat" /\ work'.at \in {"plan", "reply"} /\ work'.plan = {}
        /\ work' \in [kind : Followups \cup {"chat", "none"}, at : Stages, plan : SUBSET Planned]
        /\ ExplicitImage => work'.at = "plan"
    BY <1>1 DEF Generate, Idle, Stages, ExplicitImage
  <2>2. /\ job' \in [PipelineJobs -> Statuses \ {"pending_confirmation"}] /\ job'["chat"] = "running"
        /\ \A j \in PipelineJobs : j # "chat" => job'[j] = job[j]
    BY <1>1, RowChanges DEF Generate, PipelineJobs, Statuses
  <2>3. FollowupsTypes'
    BY <1>1, <2>1, <2>2 DEF Generate, FollowupsTypes, FollowupsTypeOK, contextVars, requestVars, processVars
  <2>4. AtWork'
    BY <1>1, <2>1, <2>2 DEF Generate, AtWork, ExplicitImage, contextVars
  <2>5. PlanHasPicture'
    BY <2>1 DEF PlanHasPicture
  <2>6. ExplicitImageIsShown'
    BY <1>1, <2>2, <2>3, StillShown DEF Generate, contextVars, requestVars, PipelineJobs, Followups
  <2> QED
    BY <2>3, <2>4, <2>5, <2>6
<1>2. CASE ReplyCommits
  <2>1. /\ job' \in [PipelineJobs -> Statuses \ {"pending_confirmation"}]
        /\ job'["planning"] = IF work.at = "plan" THEN "queued" ELSE job["planning"]
    BY <1>2, FollowupsShape DEF ReplyCommits, Follow, PipelineJobs, Followups, Statuses, Ended
  <2>2. DOMAIN after' = {"chat", "planning"} /\ after'["chat"] = Follow /\ after'["planning"] = after["planning"]
        /\ Follow \subseteq Followups
    BY <1>2 DEF ReplyCommits, Follow, FollowupsTypes
  <2>3. FollowupsTypes'
    BY <1>2, <2>1, <2>2, FollowupsShape DEF ReplyCommits, FollowupsTypes, FollowupsTypeOK, contextVars, requestVars, processVars
  <2>4. AtWork' /\ PlanHasPicture'
    BY <1>2 DEF ReplyCommits, AtWork, PlanHasPicture, Idle
  <2>5. ExplicitImage' => work.at = "plan"
    BY <1>2 DEF ReplyCommits, Running, AtWork, Idle, ExplicitImage, contextVars
  <2>6. ExplicitImageIsShown'
    BY <2>1, <2>5 DEF ExplicitImageIsShown
  <2> QED
    BY <2>3, <2>4, <2>6
<1> QED
  BY <1>1, <1>2

\* Work that ends without the planning being completed.
LEMMA EndsKeep ==
    ASSUME FollowupsInv, ReadTitle \/ CommitTitle \/ CommitExtraction \/ WorkEnds
    PROVE  FollowupsInv'
<1> USE DEF FollowupsInv
<1>1. CASE ReadTitle
  <2>1. /\ work' \in [kind : Followups \cup {"chat", "none"}, at : Stages, plan : SUBSET Planned]
        /\ work'.kind = "title"
    BY <1>1, FollowupsShape DEF ReadTitle, Running, Stages
  <2>2. FollowupsTypes'
    BY <1>1, <2>1 DEF ReadTitle, FollowupsTypes, FollowupsTypeOK, contextVars, requestVars, processVars
  <2>3. AtWork' /\ PlanHasPicture'
    BY <1>1, <2>1 DEF ReadTitle, Running, AtWork, PlanHasPicture, Idle
  <2>4. ExplicitImageIsShown'
    BY <1>1 DEF ReadTitle, ExplicitImageIsShown, ExplicitImage, contextVars, requestVars
  <2> QED
    BY <2>2, <2>3, <2>4
<1>2. ASSUME NEW k \in {"title", "extraction"}, Set(k, "completed"), work' = Idle,
             title' \in {title, "task"}, UNCHANGED <<context, catalog, stale, pictures, queue, after>>,
             UNCHANGED requestVars, UNCHANGED processVars
      PROVE  FollowupsInv'
  <2>1. /\ job' \in [PipelineJobs -> Statuses \ {"pending_confirmation"}]
        /\ job'["planning"] = job["planning"] /\ job'["chat"] = job["chat"]
    BY <1>2, RowChanges DEF PipelineJobs, Followups, Statuses, Ended
  <2>2. FollowupsTypes'
    BY <1>2, <2>1, FollowupsShape DEF FollowupsTypes, FollowupsTypeOK, requestVars, processVars
  <2>3. ExplicitImageIsShown'
    BY <1>2, <2>1 DEF ExplicitImageIsShown, ExplicitImage, requestVars
  <2> QED
    BY <1>2, <2>2, <2>3 DEF AtWork, PlanHasPicture, Idle
<1>3. CASE CommitTitle
  BY <1>3, <1>2 DEF CommitTitle
<1>4. CASE CommitExtraction
  BY <1>4, <1>2 DEF CommitExtraction, contextVars
<1>5. CASE WorkEnds
  <2>1. /\ job' \in [PipelineJobs -> Statuses \ {"pending_confirmation"}]
        /\ \A j \in PipelineJobs : job'[j] \in {job[j], "failed"}
    BY <1>5, FollowupsShape DEF WorkEnds, Statuses, Ended
  <2>2. FollowupsTypes'
    BY <1>5, <2>1, FollowupsShape DEF WorkEnds, FollowupsTypes, FollowupsTypeOK, contextVars, requestVars, processVars
  <2>3. ExplicitImageIsShown'
    BY <1>5, <2>1, <2>2, StillShown DEF WorkEnds, contextVars, requestVars, PipelineJobs, Followups
  <2> QED
    BY <1>5, <2>2, <2>3 DEF WorkEnds, AtWork, PlanHasPicture, Idle
<1> QED
  BY <1>1, <1>3, <1>4, <1>5

\* However the planner answers, what is planned has the picture, unless it called
\* changing a picture generating one.
LEMMA RunKeeps == ASSUME FollowupsInv, RunPlanning PROVE FollowupsInv'
<1> USE DEF FollowupsInv
<1>1. work.kind = "planning" /\ work # Idle
  <2>1. work.kind = "planning" /\ Idle.kind = "none"
    BY DEF RunPlanning, Running, Idle
  <2> QED
    BY <2>1
<1>2. /\ work'.kind = "planning" /\ work'.at = "commit" /\ work'.plan \subseteq Planned
      /\ work' \in [kind : Followups \cup {"chat", "none"}, at : Stages, plan : SUBSET Planned]
      /\ answer' \in {"none", "failed", "planned", "crossed"}
      /\ ExplicitImage /\ answer' # "crossed" => \E r \in work'.plan : Owed(r)
  <2>1. CASE context.says = "literal" /\ work' = [work EXCEPT !.at = "commit"] /\ answer' = "none"
    BY <2>1, <1>1, FollowupsShape DEF ExplicitImage, Stages
  <2>2. CASE work' = [work EXCEPT !.at = "commit", !.plan = ExplicitOnly] /\ answer' = "failed"
    BY <2>2, <1>1, FollowupsShape DEF ExplicitOnly, DeterministicPlan, Planned, Capabilities, Owed, Stages
  <2>3. ASSUME NEW plan \in SUBSET Planned, work' = [work EXCEPT !.at = "commit", !.plan = WithExplicit(plan)],
               answer' = IF \E r \in plan : r.key = "generate" /\ r.op = "change" THEN "crossed" ELSE "planned"
        PROVE  <1>2!:
    <3>1. DeterministicPlan \in Planned /\ Owed(DeterministicPlan)
      BY DEF DeterministicPlan, Planned, Capabilities, Owed
    <3>2. WithExplicit(plan) \subseteq Planned
      BY <3>1 DEF WithExplicit
    <3>3. ExplicitImage /\ answer' # "crossed" => \E r \in WithExplicit(plan) : Owed(r)
      BY <2>3, <3>1 DEF WithExplicit, Planned, Owed
    <3>4. work'.kind = "planning" /\ work'.at = "commit" /\ work'.plan = WithExplicit(plan)
          /\ work' \in [kind : Followups \cup {"chat", "none"}, at : Stages, plan : SUBSET Planned]
      BY <2>3, <1>1, <3>2, FollowupsShape DEF Stages
    <3> QED
      BY <2>3, <3>2, <3>3, <3>4
  <2> QED
    BY <2>1, <2>2, <2>3 DEF RunPlanning
<1>3. FollowupsTypes'
  BY <1>2 DEF RunPlanning, FollowupsTypes, FollowupsTypeOK, contextVars, processVars
<1>4. job["planning"] # "completed" /\ job' = job
  BY <1>1 DEF RunPlanning, AtWork
<1>5. AtWork'
  BY <1>2, <1>4 DEF AtWork
<1>6. PlanHasPicture'
  BY <1>2 DEF RunPlanning, PlanHasPicture, ExplicitImage, contextVars
<1>7. ExplicitImageIsShown'
  BY <1>4 DEF RunPlanning, ExplicitImageIsShown, ExplicitImage, contextVars
<1> QED
  BY <1>3, <1>5, <1>6, <1>7

\* The picture that was asked for is admitted, and is a request from then on.
LEMMA CommitKeeps == ASSUME FollowupsInv, CommitPlanning PROVE FollowupsInv'
<1> USE DEF FollowupsInv
<1>1. PICK queued \in BOOLEAN :
        /\ job' = [job EXCEPT !["planning"] = "completed", !["picture"] = IF queued THEN "queued" ELSE @]
        /\ after' = [after EXCEPT !["planning"] = IF queued THEN {"picture"} ELSE {}]
  BY DEF CommitPlanning
<1>2. request' = [r \in Planned |-> IF r \in {p \in work.plan : Admitted(p)} THEN Opened(r) ELSE request[r]]
  BY DEF CommitPlanning
<1>3. \A r \in Planned : Opened(r) \in Statuses /\ Opened(r) # "none"
  BY DEF Opened, Statuses, Ended
<1>4. request' \in [Planned -> Statuses]
  BY <1>2, <1>3, FollowupsShape
<1>5. /\ job' \in [PipelineJobs -> Statuses \ {"pending_confirmation"}]
      /\ job'["chat"] = job["chat"] /\ job'["planning"] # "none"
  BY <1>1, FollowupsShape DEF PipelineJobs, Followups, Statuses, Ended
<1>6. DOMAIN after' = {"chat", "planning"} /\ after'["chat"] = after["chat"] /\ after'["planning"] \subseteq {"picture"}
  BY <1>1 DEF FollowupsTypes
<1>7. FollowupsTypes'
  BY <1>4, <1>5, <1>6, FollowupsShape DEF CommitPlanning, FollowupsTypes, FollowupsTypeOK, contextVars, processVars
<1>8. ASSUME ExplicitImage', answer' # "crossed"
      PROVE  \E r \in Planned : r.key = "generate" /\ request'[r] # "none"
  <2>1. PICK r \in work.plan : Owed(r)
    BY <1>8 DEF CommitPlanning, Running, PlanHasPicture, ExplicitImage, contextVars
  <2>2. Admitted(r)
    BY <2>1, <1>8 DEF Admitted, Asked, Resolves, Owed, ExplicitImage, CommitPlanning, contextVars
  <2>3. r \in Planned
    BY FollowupsShape
  <2>4. request'[r] = Opened(r)
    BY <1>2, <2>2, <2>3
  <2> QED
    BY <2>1, <2>3, <2>4, <1>3 DEF Owed
<1>9. ExplicitImageIsShown'
  BY <1>5, <1>8 DEF ExplicitImageIsShown
<1> QED
  BY <1>7, <1>9 DEF CommitPlanning, AtWork, PlanHasPicture, Idle

\* A follow-up is submitted, or fails, and is begun by a worker.
LEMMA SubmissionKeeps ==
    ASSUME FollowupsInv, SubmitNext \/ \E k \in Followups : StartFollowup(k)
    PROVE  FollowupsInv'
<1> USE DEF FollowupsInv
<1>1. CASE SubmitNext
  <2>1. PICK k \in after["chat"] :
          /\ \/ queue' = queue \cup {k} /\ UNCHANGED job
             \/ job' = (IF job[k] = "queued" THEN SubmitFails(k) ELSE job) /\ UNCHANGED queue
          /\ after' = [after EXCEPT !["chat"] = @ \ {k}]
    BY <1>1 DEF SubmitNext
  <2>2. k \in Followups /\ k \in PipelineJobs /\ k # "chat"
    BY DEF FollowupsTypes, FollowupsTypeOK, PipelineJobs, Followups
  <2>3. /\ job' \in [PipelineJobs -> Statuses \ {"pending_confirmation"}]
        /\ \A j \in PipelineJobs : job'[j] \in {job[j], "failed"}
    BY <2>1, <2>2, FollowupsShape DEF SubmitFails, Statuses, Ended
  <2>4. DOMAIN after' = {"chat", "planning"} /\ after'["chat"] \subseteq after["chat"] /\ after'["planning"] = after["planning"]
    BY <2>1 DEF FollowupsTypes
  <2>5. FollowupsTypes'
    BY <1>1, <2>1, <2>2, <2>3, <2>4 DEF SubmitNext, FollowupsTypes, FollowupsTypeOK, contextVars, requestVars, processVars
  <2>6. AtWork' /\ PlanHasPicture'
    BY <1>1, <2>3, FollowupsShape DEF SubmitNext, AtWork, PlanHasPicture, ExplicitImage, contextVars, requestVars
  <2>7. ExplicitImageIsShown'
    BY <1>1, <2>3, <2>5, StillShown DEF SubmitNext, contextVars, requestVars, PipelineJobs, Followups
  <2> QED
    BY <2>5, <2>6, <2>7
<1>2. ASSUME NEW k \in Followups, StartFollowup(k) PROVE FollowupsInv'
  <2>1. CASE UNCHANGED <<job, work>>
    <3>1. FollowupsTypes'
      BY <1>2, <2>1 DEF StartFollowup, FollowupsTypes, FollowupsTypeOK, contextVars, requestVars, processVars
    <3> QED
      BY <1>2, <2>1, <3>1 DEF StartFollowup, AtWork, PlanHasPicture, ExplicitImageIsShown, ExplicitImage, contextVars, requestVars
  <2>2. CASE Set(k, "running") /\ work' = [Idle EXCEPT !.kind = k, !.at = "run"]
    <3>1. /\ job' \in [PipelineJobs -> Statuses \ {"pending_confirmation"}]
          /\ job'[k] = "running" /\ \A j \in PipelineJobs : job'[j] \in {job[j], "running"}
      BY <2>2, RowChanges DEF PipelineJobs, Statuses
    <3>2. /\ work' \in [kind : Followups \cup {"chat", "none"}, at : Stages, plan : SUBSET Planned]
          /\ work'.kind = k /\ work'.at = "run"
      BY <2>2 DEF Idle, Stages
    <3>3. k # "chat" /\ k # "none"
      BY DEF Followups
    <3>4. FollowupsTypes'
      BY <1>2, <3>1, <3>2, <3>3 DEF StartFollowup, FollowupsTypes, FollowupsTypeOK, contextVars, requestVars, processVars
    <3>5. AtWork' /\ PlanHasPicture'
      BY <3>1, <3>2, <3>3 DEF AtWork, PlanHasPicture
    <3>6. ExplicitImageIsShown'
      BY <1>2, <3>1, <3>4, StillShown DEF StartFollowup, contextVars, requestVars, PipelineJobs, Followups
    <3> QED
      BY <3>4, <3>5, <3>6
  <2> QED
    BY <1>2, <2>1, <2>2 DEF StartFollowup
<1> QED
  BY <1>1, <1>2

\* The picture's own job.
LEMMA PictureKeeps ==
    ASSUME FollowupsInv, SubmitPicture \/ StartPicture \/ EndPicture
    PROVE  FollowupsInv'
<1> USE DEF FollowupsInv
<1>1. /\ request' \in [Planned -> Statuses]
      /\ \A r \in Planned : request[r] # "none" => request'[r] # "none"
  BY SettledStay, FollowupsShape DEF SubmitPicture, StartPicture, EndPicture, Ended
<1>2. /\ job' \in [PipelineJobs -> Statuses \ {"pending_confirmation"}]
      /\ \A j \in PipelineJobs : j # "picture" => job'[j] = job[j]
  <2>1. "picture" \in PipelineJobs
    BY DEF PipelineJobs
  <2>2. UNCHANGED job \/ \E s \in Ended \cup {"running"} : job' = [job EXCEPT !["picture"] = s]
    BY DEF SubmitPicture, StartPicture, EndPicture, Set, SubmitFails, Ended
  <2> QED
    BY <2>1, <2>2, FollowupsShape DEF Statuses, Ended
<1>3. /\ queue' \subseteq queue \cup {"picture"} /\ stale' \in {stale, FALSE}
      /\ UNCHANGED <<context, catalog, pictures, title, work, answer>> /\ UNCHANGED processVars
  BY DEF SubmitPicture, StartPicture, EndPicture, contextVars
<1>4. DOMAIN after' = {"chat", "planning"} /\ after'["chat"] = after["chat"] /\ after'["planning"] \subseteq after["planning"]
  BY DEF SubmitPicture, StartPicture, EndPicture, FollowupsTypes
<1>5. FollowupsTypes'
  <2>1. context' \in Turns /\ catalog' \in {"ready", "none"} /\ stale' \in BOOLEAN /\ pictures' \in BOOLEAN
        /\ title' \in {"words", "task", "owner"} /\ queue' \subseteq PipelineJobs \ {"chat"}
    BY <1>3 DEF FollowupsTypes, FollowupsTypeOK, PipelineJobs, Followups
  <2>2. after'["chat"] \subseteq Followups /\ after'["planning"] \subseteq {"picture"}
    BY <1>4 DEF FollowupsTypes, FollowupsTypeOK
  <2>3. /\ work'.plan \subseteq Planned /\ answer' \in {"none", "failed", "planned", "crossed"}
        /\ process' \in {"up", "stopping", "down"} /\ stops' \in 0 .. MaxStops
        /\ work' \in [kind : Followups \cup {"chat", "none"}, at : Stages, plan : SUBSET Planned]
        /\ work'.kind = "none" => work' = Idle
    BY <1>3 DEF FollowupsTypes, FollowupsTypeOK, processVars
  <2> QED
    BY <1>1, <1>2, <1>4, <2>1, <2>2, <2>3 DEF FollowupsTypes, FollowupsTypeOK
<1>6. AtWork' /\ PlanHasPicture'
  BY <1>2, <1>3, FollowupsShape DEF AtWork, PlanHasPicture, ExplicitImage, FollowupsTypes, Followups
<1>7. ExplicitImageIsShown'
  BY <1>1, <1>2, <1>3, <1>5, StillShown DEF PipelineJobs, Followups
<1> QED
  BY <1>5, <1>6, <1>7

\* What the owner does, and the process that stops and is started again.
LEMMA OwnerKeeps ==
    ASSUME FollowupsInv,
           \/ Rename \/ EditResource \/ RemovePicture \/ BeginShutdown \/ Stop \/ StartAgain
           \/ \E k \in PipelineJobs : CancelPipelineJob(k)
           \/ UNCHANGED pipelineVars
    PROVE  FollowupsInv'
<1> USE DEF FollowupsInv
<1>1. CASE Rename \/ EditResource \/ RemovePicture \/ BeginShutdown \/ UNCHANGED pipelineVars
  <2>1. UNCHANGED <<context, job, queue, after, work, answer, request>>
    BY <1>1 DEF Rename, EditResource, RemovePicture, BeginShutdown, pipelineVars, contextVars, jobVars, requestVars
  <2>2. /\ catalog' \in {catalog, "none"} /\ title' \in {title, "owner"}
        /\ process' \in {process, "stopping"} /\ stops' = stops
    BY <1>1 DEF Rename, EditResource, RemovePicture, BeginShutdown, pipelineVars, contextVars, processVars
  <2>3. stale' \in BOOLEAN /\ pictures' \in BOOLEAN
    <3>1. CASE EditResource
      BY <3>1 DEF EditResource, FollowupsTypes, FollowupsTypeOK
    <3>2. CASE Rename \/ RemovePicture \/ BeginShutdown \/ UNCHANGED pipelineVars
      BY <3>2 DEF Rename, RemovePicture, BeginShutdown, pipelineVars, contextVars, FollowupsTypes, FollowupsTypeOK
    <3> QED
      BY <1>1, <3>1, <3>2
  <2>4. FollowupsTypes'
    BY <2>1, <2>2, <2>3 DEF FollowupsTypes, FollowupsTypeOK
  <2> QED
    BY <2>1, <2>4 DEF AtWork, PlanHasPicture, ExplicitImageIsShown, ExplicitImage
<1>2. CASE Stop
  <2>1. DOMAIN after' = {"chat", "planning"} /\ after'["chat"] = {} /\ after'["planning"] = {}
    BY <1>2 DEF Stop, FollowupsTypes
  <2>2. stops' \in 0 .. MaxStops
    BY <1>2, FollowupsAssumption DEF Stop, FollowupsTypes, FollowupsTypeOK
  <2>3. FollowupsTypes'
    BY <1>2, <2>1, <2>2, FollowupsShape DEF Stop, FollowupsTypes, FollowupsTypeOK, requestVars
  <2> QED
    BY <1>2, <2>3 DEF Stop, AtWork, PlanHasPicture, ExplicitImageIsShown, ExplicitImage, requestVars, Idle
<1>3. CASE StartAgain
  <2>1. /\ job' \in [PipelineJobs -> Statuses \ {"pending_confirmation"}] /\ request' \in [Planned -> Statuses]
        /\ \A j \in PipelineJobs : job'[j] \in {job[j], "failed"}
        /\ \A r \in Planned : request[r] # "none" => request'[r] # "none"
    BY <1>3, FollowupsShape DEF StartAgain, Statuses, Ended
  <2>2. FollowupsTypes'
    BY <1>3, <2>1 DEF StartAgain, FollowupsTypes, FollowupsTypeOK, contextVars
  <2>3. AtWork' /\ PlanHasPicture'
    BY <1>3, <2>1, FollowupsShape DEF StartAgain, AtWork, PlanHasPicture, ExplicitImage, contextVars
  <2>4. ExplicitImageIsShown'
    BY <1>3, <2>1, <2>2, StillShown DEF StartAgain, contextVars, PipelineJobs, Followups
  <2> QED
    BY <2>2, <2>3, <2>4
<1>4. ASSUME NEW k \in PipelineJobs, CancelPipelineJob(k) PROVE FollowupsInv'
  <2>1. /\ job' \in [PipelineJobs -> Statuses \ {"pending_confirmation"}]
        /\ \A j \in PipelineJobs : job'[j] \in {job[j], "cancelled"}
    BY <1>4, RowChanges DEF CancelPipelineJob, Statuses, Ended
  <2>2. /\ request' \in [Planned -> Statuses]
        /\ \A r \in Planned : request[r] # "none" => request'[r] # "none"
    BY <1>4, SettledStay, FollowupsShape DEF CancelPipelineJob, Ended
  <2>3. FollowupsTypes'
    BY <1>4, <2>1, <2>2 DEF CancelPipelineJob, FollowupsTypes, FollowupsTypeOK, contextVars, processVars
  <2>4. AtWork' /\ PlanHasPicture'
    BY <1>4, <2>1, FollowupsShape DEF CancelPipelineJob, AtWork, PlanHasPicture, ExplicitImage, contextVars
  <2>5. ExplicitImageIsShown'
    BY <1>4, <2>1, <2>2, <2>3, StillShown DEF CancelPipelineJob, contextVars, PipelineJobs, Followups
  <2> QED
    BY <2>3, <2>4, <2>5
<1> QED
  BY <1>1, <1>2, <1>3, <1>4

LEMMA FollowupsStay == ASSUME FollowupsInv, [FollowupsNext]_pipelineVars PROVE FollowupsInv'
BY ReplyKeeps, EndsKeep, RunKeeps, CommitKeeps, SubmissionKeeps, PictureKeeps, OwnerKeeps DEF FollowupsNext, Work

\* For any turns, plans and restarts: once its planning has completed, an explicit
\* request for a picture has a request to show, whether the planner failed, left
\* it out or had nothing to plan with, unless it crossed the two operations
\* (TurnPipeline.run_planning, on_planning, prepare_planned_requests).
THEOREM ExplicitPicturesAreShown == FollowupsSpec => []FollowupsInvariant
<1>1. FollowupsInv => FollowupsInvariant
  BY DEF FollowupsInv, FollowupsTypes, FollowupsInvariant
<1> QED
  BY <1>1, FollowupsInitially, FollowupsStay, PTL DEF FollowupsSpec
=============================================================================
