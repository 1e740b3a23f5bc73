----------------------------- MODULE TurnEvents -----------------------------
(***************************************************************************)
(* The event stream of one turn: src/app/turn_events.py, with the publishers *)
(* of job_service.py, conversation_service.py and turn_pipeline.py, and the  *)
(* subscriber of api_v1.py.                                                  *)
(*                                                                          *)
(* The worker and a cancellation publish; the stream keeps the last events   *)
(* and the whole accumulated text.  A subscriber reads the turn's row, then  *)
(* the text with the sequence it covers, then follows the events, and may    *)
(* lose the connection and come back with the last event id it saw.          *)
(* Subscribers leave no trace in the stream, so one is modelled.             *)
(*                                                                          *)
(* An event carries its sequence number, so the buffer and what a subscriber *)
(* took from it are sets of events; the code keeps them in that order.       *)
(* A delta is its number and the accumulated text is how many deltas it      *)
(* holds: text is only ever appended, and eviction does not shorten it.      *)
(* Retention of a finished stream (_prune_locked) is longer than the moment  *)
(* between a snapshot and the subscription that follows it, and is left out, *)
(* as are stop() and a guard that replaces a whole reply before it is sent.  *)
(***************************************************************************)
EXTENDS Naturals, Sequences

CONSTANTS
    MaxEvents,      \* max_events of the buffer; its max_bytes may bite earlier
    MaxDeltas       \* bound on the deltas of the reply

ASSUME StreamAssumption == MaxEvents \in Nat \ {0} /\ MaxDeltas \in Nat

VARIABLES
    turnStatus,         \* conversation_turns.status
    stage,          \* the worker's place
    cancelling,     \* a cancellation that has committed and not yet published
    events,         \* the retained events
    next,           \* next_sequence
    text, textSeq,  \* accumulated_text and text_sequence
    ended,          \* terminal_at is set
    at,             \* the subscriber's place
    snapStatus,     \* the status in its snapshot
    snapText, snapCursor,  \* the text it was given and the cursor of that text
    cursor,         \* the sequence of the last event delivered to it
    batch,          \* events read from the stream and not yet delivered
    rendered        \* the deltas appended after the snapshot, in order

streamVars == <<events, next, text, textSeq, ended>>
turnVars == <<turnStatus, stage, cancelling>>
subscriberVars == <<at, snapStatus, snapText, snapCursor, cursor, batch, rendered>>
streamAllVars == <<turnVars, streamVars, subscriberVars>>

Unfinished == {"queued", "running"}
Finished == {"completed", "failed", "cancelled"}
EndOf == [completed |-> "turn.completed", failed |-> "turn.failed", cancelled |-> "turn.cancelled"]
EndEvents == {EndOf[s] : s \in Finished}

Delta(n) == [event |-> "assistant.delta", delta |-> n]
State(event) == [event |-> event, delta |-> 0]

Kinds == {"turn.queued", "turn.started", "assistant.delta"} \cup EndEvents
Items == [seq : Nat, event : Kinds, delta : 0 .. MaxDeltas]

StreamTypeOK ==
    /\ turnStatus \in Unfinished \cup Finished
    /\ stage \in {"queued", "begin", "started", "stream", "say", "over"}
    /\ cancelling \in BOOLEAN /\ ended \in BOOLEAN
    /\ next \in Nat \ {0} /\ text \in 0 .. MaxDeltas /\ textSeq \in 0 .. next - 1
    /\ events \subseteq Items /\ batch \subseteq Items
    /\ \A x, y \in events : x.seq = y.seq => x = y
    /\ \E n \in 0 .. next - 1 : n >= next - 1 - MaxEvents /\ {item.seq : item \in events} = n + 1 .. next - 1
    /\ at \in {"away", "read", "given", "follow", "deliver", "over"}
    /\ snapStatus \in Unfinished \cup Finished
    /\ snapText \in 0 .. MaxDeltas
    /\ snapCursor \in 0 .. next - 1 /\ cursor \in 0 .. next - 1
    /\ rendered \in Seq(1 .. MaxDeltas)

StreamInit ==
    /\ turnStatus = "queued" /\ stage = "queued" /\ cancelling = FALSE
    /\ events = {} /\ next = 1 /\ text = 0 /\ textSeq = 0 /\ ended = FALSE
    /\ at = "away" /\ snapStatus = "queued" /\ snapText = 0 /\ snapCursor = 0
    /\ cursor = 0 /\ batch = {} /\ rendered = <<>>

-----------------------------------------------------------------------------
(* Publishing.                                                              *)

\* The oldest events are dropped until the rest fits max_events and max_bytes;
\* how much text fits the second is left open.
Drops(last) == {n \in 0 .. last : n >= last - MaxEvents}
LastOf(items, last) == {{item \in items : item.seq > dropped} : dropped \in Drops(last)}

Covers(item) == item.seq

PublishItem(e) ==
    LET item == [seq |-> next, event |-> e.event, delta |-> e.delta] IN
    /\ next' = next + 1
    /\ events' \in LastOf(events \cup {item}, next)
    /\ IF e.event = "assistant.delta"
       THEN text' = e.delta /\ textSeq' = Covers(item)
       ELSE UNCHANGED <<text, textSeq>>
    /\ ended' = (ended \/ e.event \in EndEvents)

PublishQueued ==
    /\ stage = "queued" /\ stage' = "begin"
    /\ PublishItem(State("turn.queued"))
    /\ UNCHANGED <<turnStatus, cancelling, subscriberVars>>

Begin ==
    /\ stage = "begin"
    /\ IF turnStatus = "queued" THEN turnStatus' = "running" /\ stage' = "started"
       ELSE UNCHANGED turnStatus /\ stage' = "over"
    /\ UNCHANGED <<cancelling, streamVars, subscriberVars>>

PublishStarted ==
    /\ stage = "started" /\ stage' = "stream"
    /\ PublishItem(State("turn.started"))
    /\ UNCHANGED <<turnStatus, cancelling, subscriberVars>>

\* The provider's next piece.  A cancelled turn may still produce some.
PublishDelta ==
    /\ stage = "stream" /\ text < MaxDeltas
    /\ PublishItem(Delta(text + 1))
    /\ UNCHANGED <<turnVars, subscriberVars>>

\* _complete or _fail commits, unless the turn was cancelled.
End(result) ==
    /\ stage = "stream"
    /\ IF turnStatus \in Unfinished THEN turnStatus' = result /\ stage' = "say"
       ELSE UNCHANGED turnStatus /\ stage' = "over"
    /\ UNCHANGED <<cancelling, streamVars, subscriberVars>>

PublishEnd ==
    /\ stage = "say" /\ stage' = "over"
    /\ PublishItem(State(EndOf[turnStatus]))
    /\ UNCHANGED <<turnStatus, cancelling, subscriberVars>>

Cancel ==
    /\ turnStatus \in Unfinished /\ turnStatus' = "cancelled" /\ cancelling' = TRUE
    /\ UNCHANGED <<stage, streamVars, subscriberVars>>

PublishCancelled ==
    /\ cancelling /\ cancelling' = FALSE
    /\ PublishItem(State("turn.cancelled"))
    /\ UNCHANGED <<turnStatus, stage, subscriberVars>>

-----------------------------------------------------------------------------
(* Subscribing: get_turn, then the generator of subscribe.                  *)

ReadTurn ==
    /\ at = "away" /\ at' = "read"
    /\ snapStatus' = turnStatus
    /\ UNCHANGED <<turnVars, streamVars, snapText, snapCursor, cursor, batch, rendered>>

\* snapshot_state, and the Last-Event-ID the client sends, if it has one.
TakeSnapshot ==
    /\ at = "read" /\ at' = "given"
    /\ snapText' = text /\ snapCursor' = textSeq
    /\ cursor' \in {0, cursor}
    /\ rendered' = <<>> /\ batch' = {}
    /\ UNCHANGED <<turnVars, streamVars, snapStatus>>

\* Variant: a delta older than the client's last event id is the covered one.
CoveredByCursor(item) == item.event = "assistant.delta" /\ item.seq <= cursor

Covered(item) == item.event = "assistant.delta" /\ item.seq <= snapCursor
IsAvailable(item) == item.seq > cursor /\ ~Covered(item)
Available == {item \in events : IsAvailable(item)}

\* A finished turn with nothing to replay needs no stream.
Open ==
    /\ at = "given"
    /\ at' = IF snapStatus \in Finished /\ Available = {} THEN "over" ELSE "follow"
    /\ UNCHANGED <<turnVars, streamVars, snapStatus, snapText, snapCursor, cursor, batch, rendered>>

\* Variant: the end of the stream is not looked at.
FetchWithoutEnd ==
    /\ at = "follow"
    /\ Available # {} /\ at' = "deliver" /\ batch' = Available
    /\ UNCHANGED <<turnVars, streamVars, snapStatus, snapText, snapCursor, cursor, rendered>>

Fetch ==
    /\ at = "follow"
    /\ \/ Available # {} /\ at' = "deliver" /\ batch' = Available
       \/ Available = {} /\ ended /\ at' = "over" /\ UNCHANGED batch
    /\ UNCHANGED <<turnVars, streamVars, snapStatus, snapText, snapCursor, cursor, rendered>>

\* Events are handed over, the oldest first, without the stream's lock.
Deliver ==
    \E item \in batch :
        /\ at = "deliver" /\ \A other \in batch : item.seq <= other.seq
        /\ cursor' = item.seq
        /\ batch' = batch \ {item}
        /\ rendered' = IF item.event = "assistant.delta" THEN Append(rendered, item.delta) ELSE rendered
        /\ at' = IF item.event \in EndEvents THEN "over"
                 ELSE IF batch = {item} THEN "follow" ELSE "deliver"
        /\ UNCHANGED <<turnVars, streamVars, snapStatus, snapText, snapCursor>>

\* The connection is lost; the client keeps the id of the last event.
Disconnect ==
    /\ at \in {"given", "follow", "deliver"} /\ at' = "away"
    /\ UNCHANGED <<turnVars, streamVars, snapStatus, snapText, snapCursor, cursor, batch, rendered>>

-----------------------------------------------------------------------------
GeneratorStep ==
    PublishQueued \/ Begin \/ PublishStarted \/ PublishDelta \/ PublishEnd
        \/ \E result \in {"completed", "failed"} : End(result)
SubscriberStep == TakeSnapshot \/ Open \/ Fetch \/ Deliver

StreamNext == GeneratorStep \/ Cancel \/ PublishCancelled \/ ReadTurn \/ SubscriberStep \/ Disconnect

StreamSafety == StreamInit /\ [][StreamNext]_streamAllVars

(* Fairness: threads inside a call go on and every generation ends.  Users   *)
(* need not cancel, subscribe, or keep their connection.                     *)
StreamSpec == StreamSafety /\ WF_streamAllVars(GeneratorStep) /\ WF_streamAllVars(PublishCancelled) /\ WF_streamAllVars(SubscriberStep)

-----------------------------------------------------------------------------
(* Properties.                                                              *)

Shown(n) == n <= snapText \/ \E k \in DOMAIN rendered : rendered[k] = n
Passed == IF cursor > snapCursor THEN cursor ELSE snapCursor
Retained(n) == \E item \in events : item.delta = n

\* However snapshot, publication, delivery and reconnection interleave, no
\* piece of the reply is shown twice or out of order (covered() of subscribe).
NothingTwice ==
    /\ \A k \in DOMAIN rendered : rendered[k] > snapText
    /\ \A j, k \in DOMAIN rendered : j < k => rendered[j] < rendered[k]

\* A follower passes over no piece that the buffer still holds: what it has
\* moved beyond, it has shown, wherever the reply was cut between the text of
\* the snapshot and the events that follow it.
NothingSkipped ==
    at \in {"follow", "deliver"} =>
        \A item \in events :
            (item.event = "assistant.delta" /\ item.seq <= Passed) => Shown(item.delta)

\* Who followed a turn to its end has seen all of a completed reply, except
\* pieces the buffer dropped before they were read.
EndMeansWhole ==
    (at = "over" /\ turnStatus = "completed") =>
        \A n \in 1 .. text : Shown(n) \/ ~Retained(n)

\* What a follower sees of a reply is the reply: the three together, of states
\* of the stream's type.
StreamIsFaithful == StreamTypeOK /\ NothingTwice /\ NothingSkipped /\ EndMeansWhole

\* Nobody follows an ended stream for ever, also one whose terminal event the
\* client already had, or one that still publishes after a cancellation.
FollowersReturn == (at = "follow" /\ ended) ~> at \in {"over", "away"}
=============================================================================
