------------------------------ MODULE Notices ------------------------------
(***************************************************************************)
(* What the notification subsystem promises for each notice -- a failed    *)
(* cell, the end of the run -- whatever crashes, retries and rotations     *)
(* come between: NotificationOutbox implements it.                         *)
(***************************************************************************)
CONSTANT Names
VARIABLE stage

Stages == {"none",       \* nothing to tell
           "owed",       \* journaled, not yet in the outbox
           "dropped",    \* given up on, on record
           "open",       \* in the outbox: attempted until it is settled
           "delivered",  \* accepted by every destination
           "failed"}     \* the attempts at some destination are used up

\* A notice may also enter the outbox from the run's state alone, when a process
\* starts; a failed one is attempted again only under new credentials.
Moves == {<<"none", "owed">>, <<"none", "open">>, <<"owed", "open">>,
          <<"owed", "dropped">>, <<"dropped", "open">>,
          <<"open", "delivered">>, <<"open", "failed">>, <<"failed", "open">>}

Init == stage = [n \in Names |-> "none"]

\* Several notices may move in one step of the implementation.
Move ==
  /\ stage' \in [Names -> Stages]
  /\ \A n \in Names : stage'[n] = stage[n] \/ <<stage[n], stage'[n]>> \in Moves

\* Purged by the operator.
Forget == stage' = [n \in Names |-> "none"]

Next == Move \/ Forget
Spec == Init /\ [][Next]_stage

=============================================================================
