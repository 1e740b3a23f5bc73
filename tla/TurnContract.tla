---------------------------- MODULE TurnContract ----------------------------
(***************************************************************************)
(* What a chat turn promises to the person who sent it, whatever threads,   *)
(* cancellations and restarts it takes: it is opened once, it ends at most  *)
(* once, the ending is final, and an assistant message belongs to it exactly *)
(* when it completed.  transition_turn of src/app/job_service.py and         *)
(* on_generated of src/app/turn_pipeline.py are where the code keeps it.     *)
(***************************************************************************)
CONSTANT Turns

VARIABLES
    status,     \* the durable state of a turn
    reply       \* whether an assistant message was stored for it

vars == <<status, reply>>

Active == {"queued", "running"}
Terminal == {"completed", "failed", "cancelled"}
Status == {"none"} \cup Active \cup Terminal

TypeOK ==
    /\ status \in [Turns -> Status]
    /\ reply \in [Turns -> BOOLEAN]

Init ==
    /\ status = [t \in Turns |-> "none"]
    /\ reply = [t \in Turns |-> FALSE]

Move(t, from, to) ==
    /\ status[t] \in from
    /\ status' = [status EXCEPT ![t] = to]

Open(t) == Move(t, {"none"}, "queued") /\ UNCHANGED reply
Start(t) == Move(t, {"queued"}, "running") /\ UNCHANGED reply
Fail(t) == Move(t, Active, "failed") /\ UNCHANGED reply
Cancel(t) == Move(t, Active, "cancelled") /\ UNCHANGED reply

Complete(t) ==
    /\ Move(t, {"running"}, "completed")
    /\ reply' = [reply EXCEPT ![t] = TRUE]

\* A restart of the server ends whatever was under way.
Interrupt ==
    /\ status' = [t \in Turns |-> IF status[t] \in Active THEN "failed" ELSE status[t]]
    /\ UNCHANGED reply

Next ==
    \/ \E t \in Turns : Open(t) \/ Start(t) \/ Complete(t) \/ Fail(t) \/ Cancel(t)
    \/ Interrupt

Spec == Init /\ [][Next]_vars

-----------------------------------------------------------------------------
\* A message of the assistant exists exactly for the completed turns.
ReplyIffCompleted == \A t \in Turns : reply[t] <=> status[t] = "completed"

\* How a turn ended never changes.
EndingIsFinal == [][\A t \in Turns : status[t] \in Terminal => status'[t] = status[t]]_vars
=============================================================================
