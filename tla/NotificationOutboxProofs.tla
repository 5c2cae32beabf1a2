---------------------- MODULE NotificationOutboxProofs ----------------------
(***************************************************************************)
(* What NotificationOutbox guarantees for any destinations, credentials,   *)
(* limits and faults: no event that is owed is lost, the rows say what     *)
(* happens to their notices, a drained outbox has settled them, and the    *)
(* module implements Notices.                                              *)
(*                                                                         *)
(* The inductive invariant describes each intent for itself (Sound), ties  *)
(* the deliveries that are marked as being sent to the attempts that are   *)
(* out, and says of the journal what the routing cursor relies on.         *)
(***************************************************************************)
EXTENDS NotificationOutbox, FunctionTheorems, FiniteSetTheorems, TLAPS

\* An intent whose deliveries can be claimed, have the credential c, and add up
\* to what it says.
Sound(i, c) ==
  /\ i \in Intent
  /\ i.status = "none" => \A d \in Destinations : i.sends[d].status = "none"
  /\ i.status # "none" => i.status = IntentState(i)
  /\ \A d \in Destinations :
       /\ i.sends[d].status = "pending" => i.sends[d].tries < MaxAttempts
       /\ i.sends[d].status # "none" => i.sends[d].cred = c

OpenStatus == {"pending", "partial"}

\* How the status of an intent may change while a process runs, and how where a
\* rotation arms what has failed again.
Progresses(i, j) ==
  \/ j.status = i.status
  \/ i.status \in OpenStatus /\ j.status \in OpenStatus \cup Done
  \/ i.status = "none" /\ j.status \in OpenStatus
Advances(i, j) ==
  Progresses(i, j) \/ (i.status = "failed" /\ j.status \in OpenStatus)

NoneIsSending(i) == \A d \in Destinations : i.sends[d].status # "sending"

\* As TypeOK has it, without the outbox.
RestTypeOK ==
  /\ run \in [phase: {"down", "idle", "booting", "running", "paused", "over"},
              epoch: 0 .. MaxEpochs, failed: 0 .. MaxFailures,
              attempts: 0 .. MaxFailures, over: BOOLEAN]
  /\ high \in Nat /\ DOMAIN journal \subseteq 1 .. high
  /\ \A s \in DOMAIN journal : journal[s] \in Events
  /\ routing \in [required: BOOLEAN, cursor: 0 .. high,
                  retry: [seq: Nat, attempt: 0 .. MaxRouting - 1]]
  /\ config \in [manifest: Credentials \cup {Off}, stored: Credentials \cup {Off}]
  /\ proc \in [up: BOOLEAN, listener: {"none", "reading", "waiting"},
               worker: {"none", "idle", "gathering"}, queue: 0 .. QueueSize]
  /\ inflight \in [Keys -> [Destinations -> {"none", "asked", "lost"}]]
  /\ drain \in [state: {"no", "waiting", "complete"}, target: Nat]
  /\ owed \subseteq [seq: 1 .. high, key: Keys] /\ dropped \subseteq 1 .. high
  /\ used \in [notices: 0 .. MaxNotices, changes: 0 .. MaxChanges,
               faults: 0 .. MaxFaults]

OutboxIsSound == outbox \in [Keys -> Intent] /\ \A k \in Keys : Sound(outbox[k], config.stored)

\* The listener and the worker run together, in a process that is up and has the
\* destinations of the manifest.
TasksAreConfigured ==
  /\ proc.worker = "none" <=> proc.listener = "none"
  /\ proc.worker # "none" => proc.up /\ On /\ config.stored = config.manifest

\* A batch is out only while the worker gathers it, and then a delivery is marked
\* exactly as long as its attempt is out.
BatchesAreMarked ==
  /\ proc.worker # "gathering" =>
       \A k \in Keys, d \in Destinations : inflight[k][d] = "none"
  /\ proc.worker # "none" =>
       \A k \in Keys, d \in Destinations :
         outbox[k].sends[d].status = "sending" <=> inflight[k][d] # "none"

\* What is owed is kept for the router, under its own key, and once.
JournalIsKept ==
  /\ owed # {} => routing.required
  /\ \A f \in owed : f.seq \in DOMAIN journal => journal[f.seq] = f.key
NoticesAreOwedOnce ==
  /\ \A f, g \in owed : f.key = g.key => f = g
  /\ \A f \in owed :
       \/ /\ f.key.kind = "failed"
          /\ \/ f.key.epoch < run.epoch
             \/ f.key.epoch = run.epoch /\ f.key.attempt <= run.attempts
       \/ f.key.kind = "ended" /\ run.over
  /\ run.phase \in {"booting", "running", "paused"} => run.epoch >= 1
  /\ run.over => run.phase \in {"down", "over"}

\* A drain is of a run that journals no more.
DrainIsOfTheEnd ==
  drain.state # "no" => /\ proc.up /\ run.phase = "over"
                        /\ \A f \in owed : f.seq <= drain.target

Inv == /\ RestTypeOK /\ OutboxIsSound /\ TasksAreConfigured /\ BatchesAreMarked
       /\ JournalIsKept /\ NothingOwedIsLost /\ NoticesAreOwedOnce
       /\ DrainIsOfTheEnd /\ DrainedIsSettled

-----------------------------------------------------------------------------
(* Operators on one intent. *)

LEMMA StateIsAStatus ==
  ASSUME NEW i
  PROVE  IntentState(i) \in OpenStatus \cup Done
  BY DEF IntentState, OpenStatus, Done

\* The state depends on the deliveries alone.
LEMMA StateOfSends ==
  ASSUME NEW i, NEW j, i.sends = j.sends
  PROVE  IntentState(i) = IntentState(j)
  BY DEF IntentState, Open

LEMMA SettledIsNotOpen ==
  ASSUME NEW i, NEW c, Sound(i, c), Open(i)
  PROVE  i.status \in OpenStatus
<1>1. i.status # "none" BY DEF Sound, Open
<1>2. IntentState(i) \in OpenStatus
  BY DEF IntentState, OpenStatus, Open
<1> QED BY <1>1, <1>2 DEF Sound

\* Whatever the deliveries become, the intent that is recomputed agrees with them.
LEMMA RecomputedIsSound ==
  ASSUME NEW i, NEW c, i \in Intent,
         \A d \in Destinations :
           /\ i.sends[d].status = "pending" => i.sends[d].tries < MaxAttempts
           /\ i.sends[d].status # "none" => i.sends[d].cred = c
  PROVE  /\ Sound(Recompute(i), c) /\ Recompute(i).sends = i.sends
         /\ Recompute(i).status \in OpenStatus \cup Done
<1>1. Recompute(i) = [i EXCEPT !.status = IntentState(i)] BY DEF Recompute
<1>2. IntentState(i) \in OpenStatus \cup Done BY StateIsAStatus
<1>3. Recompute(i) \in Intent /\ Recompute(i).sends = i.sends
      /\ Recompute(i).status = IntentState(i)
  BY <1>1, <1>2 DEF Intent, OpenStatus, Done
<1>4. IntentState(Recompute(i)) = IntentState(i) BY <1>3, StateOfSends
<1> QED BY <1>2, <1>3, <1>4 DEF Sound, OpenStatus, Done

LEMMA RearmedIsSound ==
  ASSUME NEW i, NEW c, i \in Intent,
         \A d \in Destinations :
           /\ i.sends[d].status = "pending" => i.sends[d].tries < MaxAttempts
           /\ i.sends[d].status # "none" => i.sends[d].cred = c
  PROVE  /\ Sound(RecomputeAndRearm(i), c) /\ RecomputeAndRearm(i).sends = i.sends
         /\ RecomputeAndRearm(i).status = IntentState(i)
         /\ IntentState(i) \in OpenStatus \cup Done
<1> DEFINE j == RecomputeAndRearm(i)
<1>1. IntentState(i) \in OpenStatus \cup Done BY StateIsAStatus
<1>2. j \in Intent /\ j.sends = i.sends /\ j.status = IntentState(i)
  BY <1>1 DEF RecomputeAndRearm, Intent, OpenStatus, Done
<1>3. IntentState(j) = IntentState(i) BY <1>2, StateOfSends
<1> QED BY <1>1, <1>2, <1>3 DEF Sound, OpenStatus, Done

LEMMA FailureIsCounted ==
  ASSUME NEW s \in Send
  PROVE  /\ Failure(s) \in Send /\ Failure(s).status \in {"failed", "pending"}
         /\ Failure(s).cred = s.cred
         /\ Failure(s).status = "pending" => Failure(s).tries < MaxAttempts
<1> DEFINE st == IF s.tries >= MaxAttempts THEN "failed" ELSE "pending"
<1>1. Failure(s) = [s EXCEPT !.status = st, !.error = TRUE] BY DEF Failure
<1>2. st \in {"failed", "pending"} OBVIOUS
<1>3. s.tries \in 0 .. MaxAttempts /\ MaxAttempts \in Nat
  BY LimitsArePositive DEF LimitsArePositive, Send
<1>4. st = "pending" => s.tries < MaxAttempts BY <1>3
<1> HIDE DEF st
<1> QED BY <1>1, <1>2, <1>4 DEF Send, Done

LEMMA FreshIsSound ==
  ASSUME NEW c \in Credentials
  PROVE  Sound(FreshIntent(c), c) /\ FreshIntent(c).status = "pending"
         /\ NoneIsSending(FreshIntent(c))
<1> DEFINE send == [status |-> "pending", tries |-> 0, error |-> FALSE, cred |-> c]
           i == FreshIntent(c)
<1>1. /\ i.status = "pending" /\ i.reported = "none" /\ i.sends = [d \in Destinations |-> send]
      /\ i = [status |-> "pending", reported |-> "none", sends |-> [d \in Destinations |-> send]]
  BY DEF FreshIntent
<1>2. send \in Send /\ send.tries < MaxAttempts
  BY LimitsArePositive DEF LimitsArePositive, Send
<1>3. i \in Intent BY <1>1, <1>2 DEF Intent
<1>4. IntentState(i) = "pending"
  BY <1>1, SomeDestination DEF SomeDestination, IntentState, Open
<1> QED BY <1>1, <1>2, <1>3, <1>4 DEF Sound, NoneIsSending

LEMMA AbsentIsSound ==
  ASSUME NEW c
  PROVE  Sound(Absent, c) /\ NoneIsSending(Absent)
<1>1. NoSend \in Send BY LimitsArePositive DEF LimitsArePositive, NoSend, Send
<1> QED BY <1>1 DEF Sound, Absent, Intent, NoSend, NoneIsSending

\* recover_notification_deliveries leaves nothing that is being sent.
LEMMA RecoveredIsSound ==
  ASSUME NEW i, NEW c, Sound(i, c)
  PROVE  /\ Sound(Recovered(i), c) /\ Progresses(i, Recovered(i)) /\ NoneIsSending(Recovered(i))
         /\ Recovered(i).status = "none" => i.status = "none"
<1>1. CASE NoneIsSending(i)
  BY <1>1 DEF NoneIsSending, Recovered, Progresses
<1>2. CASE ~NoneIsSending(i)
  <2> DEFINE sends == [d \in Destinations |->
                        IF i.sends[d].status = "sending" THEN Failure(i.sends[d]) ELSE i.sends[d]]
             j == [i EXCEPT !.sends = sends]
  <2>1. Recovered(i) = RecomputeAndRearm(j)
    BY <1>2 DEF Recovered, NoneIsSending
  <2>2. \A d \in Destinations :
          /\ sends[d] \in Send /\ sends[d].status # "sending"
          /\ sends[d].status = "pending" => sends[d].tries < MaxAttempts
          /\ sends[d].status # "none" => sends[d].cred = c
    BY FailureIsCounted DEF Sound, Intent
  <2>3. j \in Intent /\ j.sends = sends
    BY <2>2 DEF Sound, Intent
  <2>4. i.status \in OpenStatus
    BY <1>2, SettledIsNotOpen DEF NoneIsSending, Open
  <2> HIDE DEF sends, j
  <2>5. /\ Sound(RecomputeAndRearm(j), c) /\ RecomputeAndRearm(j).sends = sends
        /\ RecomputeAndRearm(j).status \in OpenStatus \cup Done
    BY <2>2, <2>3, RearmedIsSound
  <2> QED BY <2>1, <2>2, <2>4, <2>5 DEF Progresses, NoneIsSending, OpenStatus, Done
<1> QED BY <1>1, <1>2

\* A rotation sends what has not succeeded again, and nothing that has.
LEMMA RotatedIsSound ==
  ASSUME NEW i, NEW c, Sound(i, c), NEW e \in Credentials
  PROVE  /\ Sound(Rotated(i, e), e) /\ Advances(i, Rotated(i, e))
         /\ NoneIsSending(Rotated(i, e))
<1>1. CASE i.status = "none" BY <1>1 DEF Rotated, Sound, Advances, Progresses, NoneIsSending
<1>2. CASE i.status # "none"
  <2> DEFINE send == [status |-> "pending", tries |-> 0, error |-> FALSE, cred |-> e]
             sends == [d \in Destinations |->
                        IF i.sends[d].status = "succeeded"
                        THEN [i.sends[d] EXCEPT !.cred = e, !.error = FALSE] ELSE send]
             j == [i EXCEPT !.sends = sends]
  <2>1. Rotated(i, e) = RecomputeAndRearm(j) BY <1>2 DEF Rotated
  <2>2. send \in Send /\ send.tries < MaxAttempts
    BY LimitsArePositive DEF LimitsArePositive, Send
  <2>3. \A d \in Destinations :
          /\ sends[d] \in Send /\ sends[d].status \in {"succeeded", "pending"}
          /\ sends[d].status = "pending" => sends[d].tries < MaxAttempts
          /\ sends[d].cred = e
          /\ sends[d].status = "succeeded" <=> i.sends[d].status = "succeeded"
    BY <2>2 DEF Sound, Intent, Send
  <2>4. j \in Intent /\ j.sends = sends BY <2>3 DEF Sound, Intent
  <2>5. IntentState(j) = "succeeded" \/ IntentState(j) \in OpenStatus
    BY <2>3, <2>4 DEF IntentState, Open, OpenStatus
  <2>6. IntentState(j) = "succeeded" <=> \A d \in Destinations : i.sends[d].status = "succeeded"
    BY <2>3, <2>4 DEF IntentState, Open
  <2>7. i.status = "succeeded" <=> \A d \in Destinations : i.sends[d].status = "succeeded"
    BY <1>2 DEF Sound, IntentState
  <2>8. i.status \in OpenStatus \cup Done
    BY <1>2, StateIsAStatus DEF Sound
  <2> HIDE DEF send, sends, j
  <2>9. /\ Sound(RecomputeAndRearm(j), e) /\ RecomputeAndRearm(j).sends = sends
        /\ RecomputeAndRearm(j).status = IntentState(j)
    BY <2>3, <2>4, RearmedIsSound
  <2> QED BY <2>1, <2>3, <2>5, <2>6, <2>7, <2>8, <2>9
          DEF Advances, Progresses, NoneIsSending, OpenStatus, Done
<1> QED BY <1>1, <1>2

\* Attempts that fail, of an intent of which they were out.
LEMMA FailedIsSound ==
  ASSUME NEW i, NEW c, Sound(i, c), NEW L \in SUBSET Destinations, L # {},
         \A d \in L : i.sends[d].status = "sending"
  PROVE  LET j == Recompute([i EXCEPT !.sends = [d \in Destinations |->
                    IF d \in L THEN Failure(@[d]) ELSE @[d]]])
         IN /\ Sound(j, c) /\ Progresses(i, j) /\ j.status # "none"
            /\ \A d \in Destinations : IF d \in L THEN j.sends[d].status # "sending"
                                     ELSE j.sends[d] = i.sends[d]
<1> DEFINE sends == [d \in Destinations |-> IF d \in L THEN Failure(i.sends[d]) ELSE i.sends[d]]
           j == [i EXCEPT !.sends = sends]
<1>1. \A d \in Destinations :
        /\ sends[d] \in Send
        /\ sends[d].status = "pending" => sends[d].tries < MaxAttempts
        /\ sends[d].status # "none" => sends[d].cred = c
        /\ IF d \in L THEN sends[d].status # "sending" ELSE sends[d] = i.sends[d]
  BY FailureIsCounted DEF Sound, Intent
<1>2. j \in Intent /\ j.sends = sends BY <1>1 DEF Sound, Intent
<1>3. i.status \in OpenStatus BY SettledIsNotOpen DEF Open
<1> HIDE DEF sends, j
<1>4. Sound(Recompute(j), c) /\ Recompute(j).sends = sends
      /\ Recompute(j).status \in OpenStatus \cup Done
  BY <1>1, <1>2, RecomputedIsSound
<1>5. Progresses(i, Recompute(j)) /\ Recompute(j).status # "none"
  BY <1>3, <1>4 DEF Progresses, OpenStatus, Done
<1> QED BY <1>1, <1>4, <1>5 DEF sends, j

LEMMA FinishedIsSound ==
  ASSUME NEW i, NEW c, Sound(i, c), NEW d \in Destinations, NEW b \in BOOLEAN,
         i.sends[d].status = "sending"
  PROVE  LET j == Finished(i, d, b)
         IN /\ Sound(j, c) /\ Progresses(i, j) /\ j.status # "none"
            /\ j.sends[d].status # "sending"
            /\ \A q \in Destinations \ {d} : j.sends[q] = i.sends[q]
<1> DEFINE s == i.sends[d]
           r == IF b THEN [s EXCEPT !.status = "succeeded", !.error = FALSE] ELSE Failure(s)
           j == [i EXCEPT !.sends[d] = r]
<1>1. Finished(i, d, b) = Recompute(j) BY DEF Finished, Sound, Intent
<1>2. s \in Send BY DEF Sound, Intent
<1>3. /\ r \in Send /\ r.status # "sending" /\ r.cred = c
      /\ r.status = "pending" => r.tries < MaxAttempts
  <2>1. CASE b BY <1>2, <2>1 DEF Send, Sound, Done
  <2>2. CASE ~b BY <1>2, <2>2, FailureIsCounted DEF Sound
  <2> QED BY <2>1, <2>2
<1>4. i.status \in OpenStatus BY SettledIsNotOpen DEF Open
<1> HIDE DEF s, r
<1>5. j \in Intent /\ j.sends = [i.sends EXCEPT ![d] = r]
  BY <1>3 DEF Sound, Intent
<1>6. \A q \in Destinations : j.sends[q] = IF q = d THEN r ELSE i.sends[q]
  BY <1>5 DEF Sound, Intent
<1> HIDE DEF j
<1>9. \A q \in Destinations :
        /\ j.sends[q].status = "pending" => j.sends[q].tries < MaxAttempts
        /\ j.sends[q].status # "none" => j.sends[q].cred = c
  BY <1>3, <1>6 DEF Sound
<1>7. Sound(Recompute(j), c) /\ Recompute(j).sends = j.sends
      /\ Recompute(j).status \in OpenStatus \cup Done
  BY <1>5, <1>9, RecomputedIsSound
<1>8. Progresses(i, Recompute(j)) /\ Recompute(j).status # "none"
  BY <1>4, <1>7 DEF Progresses, OpenStatus, Done
<1> QED BY <1>1, <1>3, <1>6, <1>7, <1>8

LEMMA ClaimedIsSound ==
  ASSUME NEW i, NEW c, Sound(i, c), NEW D \in SUBSET Destinations,
         \A d \in D : i.sends[d].status = "pending"
  PROVE  LET j == [i EXCEPT !.sends = [d \in Destinations |->
                    IF d \in D THEN Claimed(@[d]) ELSE @[d]]]
         IN /\ Sound(j, c) /\ j.status = i.status
            /\ \A d \in Destinations :
                 IF d \in D THEN j.sends[d].status = "sending" ELSE j.sends[d] = i.sends[d]
<1> DEFINE sends == [d \in Destinations |->
                      IF d \in D THEN Claimed(i.sends[d]) ELSE i.sends[d]]
           j == [i EXCEPT !.sends = sends]
<1>0. [i EXCEPT !.sends = [d \in Destinations |->
          IF d \in D THEN Claimed(@[d]) ELSE @[d]]] = j
  OBVIOUS
<1>1. \A d \in Destinations : i.sends[d] \in Send BY DEF Sound, Intent
<1>2. \A d \in D : i.sends[d].tries + 1 \in 0 .. MaxAttempts
  BY <1>1, LimitsArePositive DEF LimitsArePositive, Sound, Send
<1>3. \A d \in Destinations :
        /\ sends[d] \in Send
        /\ sends[d].status # "none" => sends[d].cred = c
        /\ IF d \in D THEN sends[d].status = "sending" ELSE sends[d] = i.sends[d]
        /\ sends[d].error = i.sends[d].error
  BY <1>1, <1>2 DEF Sound, Send, Claimed
<1>4. j \in Intent /\ j.sends = sends /\ j.status = i.status
  BY <1>3 DEF Sound, Intent
<1> HIDE DEF sends
<1>5. Open(j) <=> Open(i) BY <1>3, <1>4 DEF Open
<1>6. IntentState(j) = IntentState(i) BY <1>3, <1>4, <1>5 DEF IntentState
<1>7. j.status = "none" => D = {} BY <1>4 DEF Sound
<1> HIDE DEF j
<1>8. Sound(j, c) BY <1>3, <1>4, <1>6, <1>7 DEF Sound
<1>9. \A d \in Destinations :
        IF d \in D THEN j.sends[d].status = "sending" ELSE j.sends[d] = i.sends[d]
  BY <1>3, <1>4
<1> QED BY <1>0, <1>4, <1>8, <1>9

LEMMA ReportedIsSound ==
  ASSUME NEW i, NEW c, Sound(i, c), i.status # "none"
  PROVE  LET j == [i EXCEPT !.reported = i.status]
         IN Sound(j, c) /\ j.status = i.status /\ j.sends = i.sends
<1> DEFINE j == [i EXCEPT !.reported = i.status]
<1>1. j \in Intent /\ j.status = i.status /\ j.sends = i.sends BY DEF Sound, Intent
<1>2. IntentState(j) = IntentState(i) BY <1>1, StateOfSends
<1> QED BY <1>1, <1>2 DEF Sound

-----------------------------------------------------------------------------
(* The outbox: every step but a purge moves each of its intents soundly. *)

Purged == outbox' = [k \in Keys |-> Absent] /\ owed' = {}

Moved == /\ outbox' \in [Keys -> Intent]
         /\ \A k \in Keys : /\ Sound(outbox'[k], config'.stored)
                            /\ k # Reminder => \/ Progresses(outbox[k], outbox'[k])
                                               \/ ~proc.up /\ Advances(outbox[k], outbox'[k])

\* The steps that do not write the outbox.
LEMMA OutboxStays ==
  ASSUME Inv, UNCHANGED outbox, config'.stored = config.stored
  PROVE  Moved
  BY DEF Inv, OutboxIsSound, Moved, Progresses

LEMMA EnqueuedIsSound ==
  ASSUME NEW c \in Credentials, NEW o \in [Keys -> Intent], NEW K,
         \A k \in Keys : Sound(o[k], c)
  PROVE  /\ EnqueueAll(o, K, c) \in [Keys -> Intent]
         /\ \A k \in Keys : LET j == EnqueueAll(o, K, c)[k]
                            IN /\ Sound(j, c) /\ Progresses(o[k], j)
                               /\ NoneIsSending(o[k]) => NoneIsSending(j)
                               /\ IF k \in K /\ o[k].status = "none" THEN NoneIsSending(j)
                                  ELSE j = o[k]
                               /\ k \in K => j.status # "none"
                               /\ o[k].status # "none" => j = o[k]
<1> DEFINE f == FreshIntent(c)
<1>1. Sound(f, c) /\ f.status = "pending" /\ NoneIsSending(f) BY FreshIsSound
<1>2. f \in Intent BY <1>1 DEF Sound
<1> HIDE DEF f
<1>3. \A k \in Keys : EnqueueAll(o, K, c)[k] =
                       IF k \in K /\ o[k].status = "none" THEN f ELSE o[k]
  BY DEF EnqueueAll, Enqueue, f
<1>4. EnqueueAll(o, K, c) \in [Keys -> Intent]
  <2>1. EnqueueAll(o, K, c) = [k \in Keys |-> IF k \in K /\ o[k].status = "none" THEN f ELSE o[k]]
    BY DEF EnqueueAll, Enqueue, f
  <2> QED BY <1>2, <2>1
<1> QED BY <1>1, <1>3, <1>4 DEF Progresses, OpenStatus

\* The credential of the row, and of the intents, while the tasks run.
LEMMA CredentialOfTasks ==
  ASSUME Inv, proc.worker # "none"
  PROVE  config.manifest \in Credentials /\ config.manifest = config.stored
  BY DEF Inv, TasksAreConfigured, RestTypeOK, On

LEMMA RotationMoves ==
  ASSUME Inv, On
  PROVE  LET o == Rotation(outbox, config.manifest)
         IN /\ o \in [Keys -> Intent]
            /\ \A k \in Keys : Sound(o[k], config.manifest) /\ Advances(outbox[k], o[k])
<1> DEFINE c == config.manifest
           o == Rotation(outbox, c)
<1>1. c \in Credentials BY DEF Inv, RestTypeOK, On
<1>2. CASE config.stored = c
  BY <1>2 DEF Inv, OutboxIsSound, Rotation, Advances, Progresses
<1>3. CASE config.stored # c
  <2>1. o = [k \in Keys |-> Rotated(outbox[k], c)] BY <1>3 DEF Rotation
  <2>2. \A k \in Keys : Sound(Rotated(outbox[k], c), c) /\ Advances(outbox[k], Rotated(outbox[k], c))
    BY <1>1, RotatedIsSound DEF Inv, OutboxIsSound
  <2> QED BY <2>1, <2>2 DEF Sound
<1> QED BY <1>2, <1>3

LEMMA RecoveryMoves ==
  ASSUME NEW o \in [Keys -> Intent], NEW c, \A k \in Keys : Sound(o[k], c)
  PROVE  LET p == RecoverInterrupted(o)
         IN /\ p \in [Keys -> Intent]
            /\ \A k \in Keys : Sound(p[k], c) /\ Progresses(o[k], p[k]) /\ NoneIsSending(p[k])
<1>1. \A k \in Keys : Sound(Recovered(o[k]), c) /\ Progresses(o[k], Recovered(o[k]))
                      /\ NoneIsSending(Recovered(o[k]))
  BY RecoveredIsSound
<1> QED BY <1>1 DEF RecoverInterrupted, Sound

LEMMA AdvancesTwice ==
  ASSUME NEW i, NEW j, NEW l, Advances(i, j), Advances(j, l), j.status # "none" => l = j
  PROVE  Advances(i, l)
  BY DEF Advances, Progresses, OpenStatus, Done

\* A rotation leaves nothing to recover: where it does something, an intent moves
\* once; where it does nothing, the recovery does.
LEMMA StartedOutbox ==
  ASSUME Inv, On
  PROVE  LET o == EnqueueAll(RecoverInterrupted(Rotation(outbox, config.manifest)),
                             Implied, config.manifest)
         IN /\ o \in [Keys -> Intent]
            /\ \A k \in Keys : /\ Sound(o[k], config.manifest) /\ NoneIsSending(o[k])
                               /\ Advances(outbox[k], o[k])
<1> DEFINE c == config.manifest
           r == Rotation(outbox, c)
           p == RecoverInterrupted(r)
           o == EnqueueAll(p, Implied, c)
<1>1. c \in Credentials BY DEF Inv, RestTypeOK, On
<1>2. /\ r \in [Keys -> Intent]
      /\ \A k \in Keys : Sound(r[k], c) /\ Advances(outbox[k], r[k])
  BY RotationMoves
<1>3. /\ p \in [Keys -> Intent]
      /\ \A k \in Keys : Sound(p[k], c) /\ Advances(r[k], p[k]) /\ NoneIsSending(p[k])
  <2> HIDE DEF r
  <2> QED BY <1>2, RecoveryMoves DEF Advances
<1>4. /\ o \in [Keys -> Intent]
      /\ \A k \in Keys : /\ Sound(o[k], c) /\ NoneIsSending(o[k]) /\ Advances(p[k], o[k])
                         /\ p[k].status # "none" => o[k] = p[k]
  <2> HIDE DEF p, c
  <2> QED BY <1>1, <1>3, EnqueuedIsSound DEF Advances
<1>5. ASSUME NEW k \in Keys PROVE Advances(outbox[k], p[k])
  <2>1. CASE config.stored = c
    <3>1. r = outbox BY <2>1 DEF Rotation
    <3> QED BY <1>3, <3>1
  <2>2. CASE config.stored # c
    <3>1. r[k] = Rotated(outbox[k], c) BY <2>2 DEF Rotation
    <3>2. NoneIsSending(r[k]) BY <1>1, <3>1, RotatedIsSound DEF Inv, OutboxIsSound
    <3>3. p[k] = r[k] BY <3>2 DEF RecoverInterrupted, Recovered, NoneIsSending
    <3> QED BY <1>2, <3>3
  <2> QED BY <2>1, <2>2
<1>6. ASSUME NEW k \in Keys PROVE Advances(outbox[k], o[k])
  <2>1. Advances(outbox[k], p[k]) BY <1>5
  <2>2. Advances(p[k], o[k]) /\ (p[k].status # "none" => o[k] = p[k]) BY <1>4
  <2> QED BY <2>1, <2>2, AdvancesTwice
<1> QED BY <1>4, <1>6

\* What the listener enqueues before it comes to s.
LEMMA RoutedOutbox ==
  ASSUME NEW K, Inv, proc.worker # "none"
  PROVE  LET o == EnqueueAll(outbox, K, config.manifest)
         IN /\ o \in [Keys -> Intent]
            /\ \A k \in Keys : /\ Sound(o[k], config.stored) /\ Progresses(outbox[k], o[k])
                               /\ k \in K => o[k].status # "none"
                               /\ outbox[k].status # "none" => o[k] = outbox[k]
                               /\ \A d \in Destinations : o[k].sends[d].status = "sending"
                                      <=> outbox[k].sends[d].status = "sending"
<1>1. config.manifest \in Credentials /\ config.manifest = config.stored
  BY CredentialOfTasks
<1>2. outbox \in [Keys -> Intent] /\ \A k \in Keys : Sound(outbox[k], config.manifest)
  BY <1>1 DEF Inv, OutboxIsSound
<1> DEFINE c == config.manifest
           o == EnqueueAll(outbox, K, c)
<1>3. /\ o \in [Keys -> Intent]
      /\ \A k \in Keys : /\ Sound(o[k], c) /\ Progresses(outbox[k], o[k])
                         /\ k \in K => o[k].status # "none"
                         /\ outbox[k].status # "none" => o[k] = outbox[k]
                         /\ IF k \in K /\ outbox[k].status = "none" THEN NoneIsSending(o[k])
                            ELSE o[k] = outbox[k]
  <2> HIDE DEF c
  <2> QED BY <1>1, <1>2, EnqueuedIsSound DEF c
<1>4. \A k \in Keys : outbox[k].status = "none" => NoneIsSending(outbox[k])
  BY <1>2 DEF Sound, NoneIsSending
<1> HIDE DEF o
<1>5. \A k \in Keys, d \in Destinations :
        o[k].sends[d].status = "sending" <=> outbox[k].sends[d].status = "sending"
  BY <1>3, <1>4 DEF NoneIsSending
<1> QED BY <1>1, <1>3, <1>5 DEF o

LEMMA ListenerRuns ==
  ASSUME Inv, Awake
  PROVE  proc.worker # "none"
  BY DEF Inv, TasksAreConfigured, Awake

LEMMA ClaimMoves ==
  ASSUME Inv, Claim
  PROVE  /\ Moved /\ UNCHANGED config
         /\ \A k \in Keys : outbox'[k].status = outbox[k].status
         /\ \A k \in Keys, d \in Destinations :
              outbox'[k].sends[d].status = "sending" <=> inflight'[k][d] # "none"
         /\ inflight' \in [Keys -> [Destinations -> {"none", "asked", "lost"}]]
<1>1. PICK retried \in SUBSET Pending(FALSE) : LET due == Pending(TRUE) \cup retried IN
        /\ outbox' = [k \in Keys |-> [outbox[k] EXCEPT !.sends = [d \in Destinations |->
             IF <<k, d>> \in due THEN Claimed(@[d]) ELSE @[d]]]]
        /\ inflight' = [k \in Keys |-> [d \in Destinations |->
                          IF <<k, d>> \in due THEN "asked" ELSE "none"]]
  BY DEF Claim
<1> DEFINE due == Pending(TRUE) \cup retried
           D(k) == {d \in Destinations : <<k, d>> \in due}
           j(k) == [outbox[k] EXCEPT !.sends = [d \in Destinations |->
                     IF d \in D(k) THEN Claimed(@[d]) ELSE @[d]]]
<1>2. \A k \in Keys, d \in Destinations : <<k, d>> \in due => outbox[k].sends[d].status = "pending"
  BY DEF Pending
<1>3. ASSUME NEW k \in Keys
      PROVE  /\ Sound(j(k), config.stored) /\ j(k).status = outbox[k].status
             /\ \A d \in Destinations :
                  IF d \in D(k) THEN j(k).sends[d].status = "sending"
                  ELSE j(k).sends[d] = outbox[k].sends[d]
  <2>1. D(k) \in SUBSET Destinations /\ \A d \in D(k) : outbox[k].sends[d].status = "pending"
    BY <1>2
  <2>2. Sound(outbox[k], config.stored) BY DEF Inv, OutboxIsSound
  <2> HIDE DEF D
  <2> QED BY <2>1, <2>2, ClaimedIsSound
<1>4. outbox' = [k \in Keys |-> j(k)] BY <1>1
<1>5. \A k \in Keys, d \in Destinations : outbox[k].sends[d].status # "sending"
  BY DEF Claim, Inv, BatchesAreMarked
<1>6. UNCHANGED config BY DEF Claim
<1> HIDE DEF j
<1>7. \A k \in Keys : outbox'[k] = j(k) BY <1>4
<1>8. outbox' \in [Keys -> Intent] BY <1>3, <1>4 DEF Sound
<1>9. \A k \in Keys, d \in Destinations :
        outbox'[k].sends[d].status = "sending" <=> <<k, d>> \in due
  <2>1. ASSUME NEW k \in Keys, NEW d \in Destinations
        PROVE  outbox'[k].sends[d].status = "sending" <=> d \in D(k)
    <3> HIDE DEF D
    <3> QED BY <1>3, <1>5, <1>7
  <2> QED BY <2>1
<1>10. /\ inflight' \in [Keys -> [Destinations -> {"none", "asked", "lost"}]]
       /\ \A k \in Keys, d \in Destinations : inflight'[k][d] # "none" <=> <<k, d>> \in due
  BY <1>1
<1>11. Moved BY <1>3, <1>6, <1>7, <1>8 DEF Moved, Progresses
<1>12. \A k \in Keys : outbox'[k].status = outbox[k].status BY <1>3, <1>7
<1> HIDE DEF due
<1> QED BY <1>6, <1>9, <1>10, <1>11, <1>12

Processes == [up: BOOLEAN, listener: {"none", "reading", "waiting"},
              worker: {"none", "idle", "gathering"}, queue: 0 .. QueueSize]

LEMMA FanOutFills ==
  ASSUME NEW p \in Processes, NEW n \in Nat
  PROVE  /\ FanOut(p, n) \in Processes
         /\ FanOut(p, n).up = p.up /\ FanOut(p, n).listener = p.listener
         /\ FanOut(p, n).worker = p.worker
<1>1. QueueSize \in Nat BY LimitsArePositive DEF LimitsArePositive
<1>2. p.queue + n > QueueSize \/ p.queue + n \in 0 .. QueueSize
  BY <1>1 DEF Processes
<1> QED BY <1>1, <1>2 DEF FanOut, Processes

\* A step of the process that leaves the attempts alone.
LEMMA MarksStay ==
  ASSUME Inv, UNCHANGED <<config, inflight>>,
         proc'.worker = proc.worker, proc'.listener = "none" <=> proc.listener = "none",
         proc'.up = proc.up,
         \A k \in Keys, d \in Destinations :
           outbox'[k].sends[d].status = "sending" <=> outbox[k].sends[d].status = "sending"
  PROVE  TasksAreConfigured' /\ BatchesAreMarked'
<1>1. TasksAreConfigured' BY DEF Inv, TasksAreConfigured, On
<1>2. BatchesAreMarked' BY DEF Inv, BatchesAreMarked
<1> QED BY <1>1, <1>2

LEMMA MarksEnd ==
  ASSUME Inv, Dies
  PROVE  TasksAreConfigured' /\ BatchesAreMarked'
  BY DEF Dies, Down, TasksAreConfigured, BatchesAreMarked

LEMMA OutboxOfMaintenance ==
  ASSUME Inv, FinishMaintenance
  PROVE  (Moved \/ Purged) /\ TasksAreConfigured' /\ BatchesAreMarked'
<1>1. proc.worker = "none" /\ proc.listener = "none"
  BY DEF FinishMaintenance, Inv, TasksAreConfigured
<1>2. ASSUME On PROVE Moved
  <2>1. /\ outbox' = Rotation(outbox, config.manifest)
        /\ config' = [config EXCEPT !.stored = config.manifest]
    BY <1>2 DEF FinishMaintenance
  <2>2. config'.stored = config.manifest BY <2>1 DEF Inv, RestTypeOK
  <2>3. /\ outbox' \in [Keys -> Intent]
        /\ \A k \in Keys : /\ Sound(outbox'[k], config.manifest)
                           /\ Advances(outbox[k], outbox'[k])
    BY <1>2, <2>1, RotationMoves
  <2> QED BY <2>2, <2>3 DEF Moved, FinishMaintenance
<1>3. Moved \/ Purged BY <1>2 DEF FinishMaintenance, Purge, Purged
<1>4. UNCHANGED <<proc, inflight>> BY DEF FinishMaintenance
<1> QED BY <1>1, <1>3, <1>4 DEF Inv, TasksAreConfigured, BatchesAreMarked

LEMMA OutboxOfStart ==
  ASSUME Inv, Start
  PROVE  (Moved \/ Purged) /\ TasksAreConfigured' /\ BatchesAreMarked'
<1>1. proc.worker = "none" BY DEF Start, Inv, TasksAreConfigured
<1>2. UNCHANGED inflight /\ \A k \in Keys, d \in Destinations : inflight[k][d] = "none"
  BY <1>1 DEF Start, Inv, BatchesAreMarked
<1>3. CASE On
  <2>1. /\ outbox' = EnqueueAll(RecoverInterrupted(Rotation(outbox, config.manifest)),
                                Implied, config.manifest)
        /\ config' = [config EXCEPT !.stored = config.manifest]
        /\ proc' = [up |-> TRUE, listener |-> "reading", worker |-> "idle", queue |-> 0]
    BY <1>3 DEF Start
  <2>2. config'.stored = config.manifest /\ config'.manifest = config.manifest
    BY <2>1 DEF Inv, RestTypeOK
  <2>3. /\ outbox' \in [Keys -> Intent]
        /\ \A k \in Keys : /\ Sound(outbox'[k], config.manifest) /\ NoneIsSending(outbox'[k])
                           /\ Advances(outbox[k], outbox'[k])
    BY <1>3, <2>1, StartedOutbox
  <2>4. Moved BY <2>2, <2>3 DEF Moved, Start
  <2>5. TasksAreConfigured' BY <1>3, <2>1, <2>2 DEF TasksAreConfigured, On
  <2>6. BatchesAreMarked' BY <1>2, <2>3 DEF BatchesAreMarked, NoneIsSending
  <2> QED BY <2>4, <2>5, <2>6
<1>4. CASE ~On
  <2>1. Purged /\ proc' = [Down EXCEPT !.up = TRUE]
    BY <1>4 DEF Start, Purge, Purged
  <2>2. proc'.worker = "none" /\ proc'.listener = "none" BY <2>1 DEF Down
  <2> QED BY <1>2, <2>1, <2>2 DEF TasksAreConfigured, BatchesAreMarked
<1> QED BY <1>3, <1>4

LEMMA OutboxOfClose ==
  ASSUME Inv, Close
  PROVE  Moved /\ TasksAreConfigured' /\ BatchesAreMarked'
<1>1. UNCHANGED config /\ Dies
      /\ outbox' = IF On THEN RecoverInterrupted(outbox) ELSE outbox
  BY DEF Close
<1>2. Moved
  <2>1. CASE On
    BY <1>1, <2>1, RecoveryMoves DEF Inv, OutboxIsSound, Moved
  <2>2. CASE ~On BY <1>1, <2>2, OutboxStays
  <2> QED BY <2>1, <2>2
<1> QED BY <1>1, <1>2, MarksEnd

\* The steps of the listener enqueue a set of keys, and end nothing.
LEMMA OutboxOfRouting ==
  ASSUME Inv, Awake, NEW K, outbox' = EnqueueAll(outbox, K, config.manifest),
         UNCHANGED <<config, inflight>>, proc'.worker = proc.worker, proc'.up = proc.up,
         proc'.listener # "none"
  PROVE  Moved /\ TasksAreConfigured' /\ BatchesAreMarked'
<1>1. proc.worker # "none" /\ proc.listener # "none"
  BY ListenerRuns DEF Awake
<1> DEFINE o == EnqueueAll(outbox, K, config.manifest)
<1>4. /\ o \in [Keys -> Intent]
      /\ \A k \in Keys : /\ Sound(o[k], config.stored) /\ Progresses(outbox[k], o[k])
                         /\ \A d \in Destinations : o[k].sends[d].status = "sending"
                                     <=> outbox[k].sends[d].status = "sending"
  BY <1>1, RoutedOutbox
<1>5. outbox' = o OBVIOUS
<1> HIDE DEF o
<1>2. /\ outbox' \in [Keys -> Intent]
      /\ \A k \in Keys : /\ Sound(outbox'[k], config.stored) /\ Progresses(outbox[k], outbox'[k])
                         /\ \A d \in Destinations : outbox'[k].sends[d].status = "sending"
                                     <=> outbox[k].sends[d].status = "sending"
  BY <1>4, <1>5
<1>3. Moved BY <1>2 DEF Moved
<1> QED BY <1>1, <1>2, <1>3, MarksStay

LEMMA OutboxOfRoute ==
  ASSUME Inv, ListenerStep
  PROVE  Moved /\ TasksAreConfigured' /\ BatchesAreMarked'
<1>1. /\ Awake /\ UNCHANGED <<config, inflight>>
      /\ \E K : outbox' = EnqueueAll(outbox, K, config.manifest)
      /\ \E q : \E l \in {"reading", "waiting"} :
            proc' \in {[proc EXCEPT !.listener = l], [proc EXCEPT !.listener = l, !.queue = q]}
  BY DEF ListenerStep, RouteEvents, RouteFails, RouteRejects, RoutedBefore, Advance
<1>2. proc'.worker = proc.worker /\ proc'.up = proc.up /\ proc'.listener # "none"
  BY <1>1 DEF Inv, RestTypeOK
<1> QED BY <1>1, <1>2, OutboxOfRouting

\* A step that is cut after an intent was enqueued has enqueued one key more.
LEMMA OneMore ==
  ASSUME NEW o \in [Keys -> Intent], NEW K, NEW k \in Keys, NEW c
  PROVE  Enqueue(EnqueueAll(o, K, c), k, c) = EnqueueAll(o, K \cup {k}, c)
<1> DEFINE f == FreshIntent(c)
           p == EnqueueAll(o, K, c)
<1>1. /\ p = [q \in Keys |-> IF q \in K /\ o[q].status = "none" THEN f ELSE o[q]]
      /\ EnqueueAll(o, K \cup {k}, c) =
           [q \in Keys |-> IF q \in K \cup {k} /\ o[q].status = "none" THEN f ELSE o[q]]
  BY DEF EnqueueAll, Enqueue
<1>2. f.status = "pending" BY DEF FreshIntent
<1> HIDE DEF f, p
<1>3. Enqueue(p, k, c) = IF p[k].status = "none" THEN [p EXCEPT ![k] = f] ELSE p
  BY DEF Enqueue, f
<1>4. p[k].status = "none" <=> k \notin K /\ o[k].status = "none"
  BY <1>1, <1>2
<1>5. CASE p[k].status = "none" BY <1>1, <1>3, <1>4, <1>5 DEF p
<1>6. CASE p[k].status # "none" BY <1>1, <1>3, <1>4, <1>6 DEF p
<1> QED BY <1>5, <1>6

LEMMA OutboxOfCut ==
  ASSUME Inv, RouteIsCut
  PROVE  /\ Moved /\ TasksAreConfigured' /\ BatchesAreMarked'
         /\ \E s \in Notifiable :
              /\ outbox' = EnqueueAll(outbox, {journal[t] : t \in {t \in Notifiable : t <= s}},
                                     config.manifest)
              /\ routing' = [routing EXCEPT !.cursor = s - 1]
<1> DEFINE c == config.manifest
<1>1. PICK s \in Notifiable :
        /\ outbox' = Enqueue(RoutedBefore(s), journal[s], config.manifest)
        /\ routing' = [routing EXCEPT !.cursor = s - 1]
  BY DEF RouteIsCut
<1> DEFINE K == {journal[t] : t \in {t \in Notifiable : t < s}}
           L == {journal[t] : t \in {t \in Notifiable : t <= s}}
<1>2. journal[s] \in Keys /\ K \cup {journal[s]} = L
  <2>1. s \in Nat /\ \A t \in Notifiable : t \in Nat
    BY DEF Inv, RestTypeOK, Notifiable, Unread
  <2> DEFINE A == {t \in Notifiable : t < s}
             B == {t \in Notifiable : t <= s}
  <2>2. B = A \cup {s}
    <3>1. \A t \in Notifiable : t <= s <=> t < s \/ t = s BY <2>1
    <3> QED BY <3>1
  <2>3. K = {journal[t] : t \in A} /\ L = {journal[t] : t \in B} OBVIOUS
  <2> HIDE DEF A, B, K, L
  <2>4. \A x : x \in L <=> \E t \in A \cup {s} : x = journal[t] BY <2>2, <2>3
  <2>5. \A x : x \in K <=> \E t \in A : x = journal[t] BY <2>3
  <2>6. K \cup {journal[s]} = L BY <2>4, <2>5
  <2> QED BY <2>6 DEF Notifiable
<1>3. outbox \in [Keys -> Intent] BY DEF Inv, OutboxIsSound
<1>4. outbox' = EnqueueAll(outbox, L, c)
  <2> HIDE DEF K, L, c
  <2>1. outbox' = Enqueue(EnqueueAll(outbox, K, c), journal[s], c)
    BY <1>1 DEF RoutedBefore, K, c
  <2> QED BY <1>2, <1>3, <2>1, OneMore
<1>5. UNCHANGED config /\ Dies /\ Awake BY DEF RouteIsCut
<1>6. /\ outbox' \in [Keys -> Intent]
      /\ \A k \in Keys : Sound(outbox'[k], config.stored) /\ Progresses(outbox[k], outbox'[k])
  <2> HIDE DEF L, c
  <2> DEFINE o == EnqueueAll(outbox, L, config.manifest)
  <2>1. /\ o \in [Keys -> Intent]
        /\ \A k \in Keys : Sound(o[k], config.stored) /\ Progresses(outbox[k], o[k])
    BY <1>5, ListenerRuns, RoutedOutbox
  <2>2. outbox' = o BY <1>4 DEF c
  <2> HIDE DEF o
  <2> QED BY <2>1, <2>2
<1>7. Moved BY <1>5, <1>6 DEF Moved
<1> QED BY <1>1, <1>4, <1>5, <1>7, MarksEnd

LEMMA OutboxOfReminder ==
  ASSUME Inv, Remind
  PROVE  Moved /\ TasksAreConfigured' /\ BatchesAreMarked'
<1> DEFINE f == FreshIntent(config.manifest)
           i == outbox[Reminder]
<1>1. config.manifest \in Credentials /\ config.manifest = config.stored
  BY CredentialOfTasks DEF Remind
<1>2. Sound(f, config.stored) /\ NoneIsSending(f) /\ f \in Intent
  BY <1>1, FreshIsSound DEF Sound
<1>3. Reminder \in Keys BY DEF Keys
<1>4. outbox \in [Keys -> Intent] /\ \A k \in Keys : Sound(outbox[k], config.stored)
  BY DEF Inv, OutboxIsSound
<1>5. \/ outbox' = outbox
      \/ outbox' = [outbox EXCEPT ![Reminder] = f] /\ i.status \in {"none"} \cup Done
  <2>1. outbox' = Roll(outbox, config.manifest) BY DEF Remind
  <2>2. CASE i.status = "none" \/ (i.status \in Done /\ i.reported = i.status)
    BY <2>1, <2>2 DEF Roll
  <2>3. CASE ~(i.status = "none" \/ (i.status \in Done /\ i.reported = i.status))
    BY <2>1, <2>3 DEF Roll
  <2> QED BY <2>2, <2>3
<1> HIDE DEF f
<1>6. i.status \in {"none"} \cup Done => NoneIsSending(i)
  <2>1. Sound(i, config.stored) BY <1>3, <1>4
  <2>2. Open(i) => i.status \in OpenStatus BY <2>1, SettledIsNotOpen
  <2> QED BY <2>2 DEF NoneIsSending, Open, OpenStatus, Done
<1>7. UNCHANGED <<config, inflight, proc>> BY DEF Remind
<1>8. Moved BY <1>2, <1>4, <1>5, <1>7 DEF Moved, Progresses
<1>9. \A k \in Keys, d \in Destinations :
        outbox'[k].sends[d].status = "sending" <=> outbox[k].sends[d].status = "sending"
  BY <1>2, <1>4, <1>5, <1>6 DEF NoneIsSending
<1> QED BY <1>7, <1>8, <1>9, MarksStay

LEMMA OutboxOfClaim ==
  ASSUME Inv, Claim
  PROVE  Moved /\ TasksAreConfigured' /\ BatchesAreMarked'
<1>1. /\ proc' = [proc EXCEPT !.worker = "gathering"] /\ proc.worker = "idle"
      /\ proc \in Processes
  BY DEF Claim, Inv, RestTypeOK, Processes
<1>2. proc'.worker = "gathering" /\ proc'.up = proc.up /\ proc'.listener = proc.listener
  BY <1>1 DEF Processes
<1>3. /\ Moved /\ UNCHANGED config
      /\ \A k \in Keys, d \in Destinations :
           outbox'[k].sends[d].status = "sending" <=> inflight'[k][d] # "none"
  BY ClaimMoves
<1>4. TasksAreConfigured' BY <1>1, <1>2, <1>3 DEF Inv, TasksAreConfigured, On
<1> QED BY <1>2, <1>3, <1>4 DEF BatchesAreMarked

\* An attempt that is out belongs to a batch, and is marked.
LEMMA AskedIsSending ==
  ASSUME Inv, NEW k \in Keys, NEW d \in Destinations, inflight[k][d] # "none"
  PROVE  /\ proc.worker = "gathering" /\ outbox[k].sends[d].status = "sending"
         /\ Sound(outbox[k], config.stored)
  BY DEF Inv, BatchesAreMarked, OutboxIsSound, RestTypeOK

LEMMA OutboxOfAttempt ==
  ASSUME Inv, NEW k \in Keys, NEW d \in Destinations, AttemptEnds(k, d)
  PROVE  Moved /\ TasksAreConfigured' /\ BatchesAreMarked'
<1>1. PICK b \in BOOLEAN : outbox' = [outbox EXCEPT ![k] = Finished(@, d, b)]
  BY DEF AttemptEnds
<1>2. /\ inflight[k][d] = "asked" /\ UNCHANGED <<config, proc>>
      /\ inflight' = [inflight EXCEPT ![k][d] = "none"]
  BY DEF AttemptEnds
<1>3. /\ proc.worker = "gathering" /\ outbox[k].sends[d].status = "sending"
      /\ Sound(outbox[k], config.stored)
  BY <1>2, AskedIsSending
<1> DEFINE j == Finished(outbox[k], d, b)
<1>4. /\ Sound(j, config.stored) /\ Progresses(outbox[k], j) /\ j.sends[d].status # "sending"
      /\ \A q \in Destinations \ {d} : j.sends[q] = outbox[k].sends[q]
  BY <1>3, FinishedIsSound
<1>5. outbox \in [Keys -> Intent] /\ \A q \in Keys : Sound(outbox[q], config.stored)
  BY DEF Inv, OutboxIsSound
<1> HIDE DEF j
<1>6. /\ outbox' \in [Keys -> Intent]
      /\ \A q \in Keys : outbox'[q] = IF q = k THEN j ELSE outbox[q]
  BY <1>1, <1>4, <1>5 DEF j, Sound
<1>7. Moved BY <1>2, <1>4, <1>5, <1>6 DEF Moved, Progresses
<1>8. inflight \in [Keys -> [Destinations -> {"none", "asked", "lost"}]]
  BY DEF Inv, RestTypeOK
<1>9. \A p \in Keys, q \in Destinations :
        inflight'[p][q] = IF p = k /\ q = d THEN "none" ELSE inflight[p][q]
  BY <1>2, <1>8
<1>10. \A p \in Keys, q \in Destinations :
         outbox[p].sends[q].status = "sending" <=> inflight[p][q] # "none"
  BY <1>3 DEF Inv, BatchesAreMarked
<1>11. \A p \in Keys, q \in Destinations :
         outbox'[p].sends[q].status = "sending" <=> inflight'[p][q] # "none"
  <2>1. ASSUME NEW p \in Keys, NEW q \in Destinations
        PROVE  outbox'[p].sends[q].status = "sending" <=> inflight'[p][q] # "none"
    <3>1. CASE p # k BY <1>6, <1>9, <1>10, <3>1
    <3>2. CASE p = k /\ q = d BY <1>4, <1>6, <1>9, <3>2
    <3>3. CASE p = k /\ q # d BY <1>4, <1>6, <1>9, <1>10, <3>3
    <3> QED BY <3>1, <3>2, <3>3
  <2> QED BY <2>1
<1>12. BatchesAreMarked' BY <1>2, <1>3, <1>11 DEF BatchesAreMarked
<1>13. TasksAreConfigured' BY <1>2 DEF Inv, TasksAreConfigured, On
<1> QED BY <1>7, <1>12, <1>13

LEMMA OutboxOfLoss ==
  ASSUME Inv, NEW k \in Keys, NEW d \in Destinations, AttemptIsLost(k, d)
  PROVE  Moved /\ TasksAreConfigured' /\ BatchesAreMarked'
<1>1. /\ inflight[k][d] = "asked" /\ inflight' = [inflight EXCEPT ![k][d] = "lost"]
      /\ UNCHANGED <<config, proc, outbox>>
      /\ inflight \in [Keys -> [Destinations -> {"none", "asked", "lost"}]]
  BY DEF AttemptIsLost, Inv, RestTypeOK
<1>2. proc.worker = "gathering" BY <1>1, AskedIsSending
<1>3. Moved BY <1>1, OutboxStays
<1>4. \A p \in Keys, q \in Destinations : inflight'[p][q] # "none" <=> inflight[p][q] # "none"
  BY <1>1
<1>5. BatchesAreMarked' BY <1>1, <1>2, <1>4 DEF Inv, BatchesAreMarked
<1>6. TasksAreConfigured' BY <1>1 DEF Inv, TasksAreConfigured, On
<1> QED BY <1>3, <1>5, <1>6

LEMMA ReportMoves ==
  ASSUME NEW o \in [Keys -> Intent], NEW c, \A k \in Keys : Sound(o[k], c)
  PROVE  /\ Reported(o) \in [Keys -> Intent]
         /\ \A k \in Keys : /\ Sound(Reported(o)[k], c) /\ Reported(o)[k].status = o[k].status
                            /\ Reported(o)[k].sends = o[k].sends
<1> DEFINE j(k) == [o[k] EXCEPT !.reported = o[k].status]
<1>1. \A k \in Unreported(o) : k \in Keys /\ o[k].status # "none" BY DEF Unreported, Done
<1>2. \A k \in Unreported(o) : Sound(j(k), c) /\ j(k).status = o[k].status /\ j(k).sends = o[k].sends
  BY <1>1, ReportedIsSound
<1>3. Reported(o) = [k \in Keys |-> IF k \in Unreported(o) THEN j(k) ELSE o[k]]
  BY DEF Reported
<1> HIDE DEF j
<1>4. \A k \in Unreported(o) : j(k) \in Intent BY <1>2 DEF Sound
<1> QED BY <1>2, <1>3, <1>4

LEMMA OutboxOfReport ==
  ASSUME Inv, Report
  PROVE  Moved /\ TasksAreConfigured' /\ BatchesAreMarked'
<1>1. /\ outbox' = Reported(outbox) /\ UNCHANGED <<config, inflight>> /\ proc.worker = "idle"
      /\ \E n : proc' = [FanOut(proc, n) EXCEPT !.worker = "idle"]
  BY DEF Report, RecoverAndReport
<1>2. /\ outbox' \in [Keys -> Intent]
      /\ \A k \in Keys : /\ Sound(outbox'[k], config.stored)
                         /\ outbox'[k].status = outbox[k].status
                         /\ outbox'[k].sends = outbox[k].sends
  BY <1>1, ReportMoves DEF Inv, OutboxIsSound
<1>3. proc'.worker = "idle" /\ proc'.up = proc.up /\ proc'.listener = proc.listener
  BY <1>1 DEF FanOut, Inv, RestTypeOK
<1>4. Moved BY <1>1, <1>2 DEF Moved, Progresses
<1> QED BY <1>1, <1>2, <1>3, <1>4, MarksStay

\* When a batch ends, what is still out is lost.
LEMMA LostMoves ==
  ASSUME Inv, proc.worker = "gathering",
         \A k \in Keys, d \in Destinations : inflight[k][d] # "asked"
  PROVE  LET o == RecoverLost(outbox)
         IN /\ o \in [Keys -> Intent]
            /\ \A k \in Keys : /\ Sound(o[k], config.stored) /\ Progresses(outbox[k], o[k])
                               /\ NoneIsSending(o[k])
<1> DEFINE L(k) == {d \in Destinations : <<k, d>> \in Lost}
           j(k) == Recompute([outbox[k] EXCEPT !.sends = [d \in Destinations |->
                     IF d \in L(k) THEN Failure(@[d]) ELSE @[d]]])
           o == RecoverLost(outbox)
<1>1. \A k \in Keys, d \in Destinations : d \in L(k) <=> outbox[k].sends[d].status = "sending"
  BY DEF Lost, Inv, BatchesAreMarked, RestTypeOK
<1>2. outbox \in [Keys -> Intent] /\ \A k \in Keys : Sound(outbox[k], config.stored)
  BY DEF Inv, OutboxIsSound
<1>3. o = [k \in Keys |-> IF L(k) = {} THEN outbox[k] ELSE j(k)]
  <2>1. \A k \in Keys : (\A d \in Destinations : <<k, d>> \notin Lost) <=> L(k) = {}
    OBVIOUS
  <2>2. \A k \in Keys : Recompute([outbox[k] EXCEPT !.sends = [d \in Destinations |->
                          IF <<k, d>> \in Lost THEN Failure(@[d]) ELSE @[d]]]) = j(k)
    OBVIOUS
  <2> QED BY <2>1, <2>2 DEF RecoverLost
<1> HIDE DEF o
<1>4. ASSUME NEW k \in Keys, L(k) # {}
      PROVE  /\ Sound(j(k), config.stored) /\ Progresses(outbox[k], j(k))
             /\ NoneIsSending(j(k))
  <2>1. L(k) \in SUBSET Destinations /\ \A d \in L(k) : outbox[k].sends[d].status = "sending"
    BY <1>1
  <2>2. \A d \in Destinations \ L(k) : outbox[k].sends[d].status # "sending" BY <1>1
  <2> HIDE DEF L
  <2>3. /\ Sound(j(k), config.stored) /\ Progresses(outbox[k], j(k))
        /\ \A d \in Destinations : IF d \in L(k) THEN j(k).sends[d].status # "sending"
                                  ELSE j(k).sends[d] = outbox[k].sends[d]
    BY <1>2, <1>4, <2>1, FailedIsSound
  <2> QED BY <2>2, <2>3 DEF NoneIsSending
<1>5. ASSUME NEW k \in Keys, L(k) = {}
      PROVE  NoneIsSending(outbox[k]) /\ Progresses(outbox[k], outbox[k])
  BY <1>1, <1>5 DEF NoneIsSending, Progresses
<1> HIDE DEF L, j
<1>6. \A k \in Keys : o[k] = IF L(k) = {} THEN outbox[k] ELSE j(k)
  BY <1>3
<1>7. \A k \in Keys : /\ Sound(o[k], config.stored) /\ Progresses(outbox[k], o[k])
                      /\ NoneIsSending(o[k])
  BY <1>2, <1>4, <1>5, <1>6
<1>8. o \in [Keys -> Intent] BY <1>3, <1>6, <1>7 DEF Sound
<1> QED BY <1>7, <1>8 DEF o

LEMMA OutboxOfBatch ==
  ASSUME Inv, BatchEnds
  PROVE  Moved /\ TasksAreConfigured' /\ BatchesAreMarked'
<1> DEFINE o == RecoverLost(outbox)
<1>1. /\ outbox' = Reported(o) /\ UNCHANGED config /\ proc.worker = "gathering"
      /\ inflight' = [k \in Keys |-> [d \in Destinations |-> "none"]]
      /\ \E n : proc' = [FanOut(proc, n) EXCEPT !.worker = "idle"]
      /\ \A k \in Keys, d \in Destinations : inflight[k][d] # "asked"
  BY DEF BatchEnds, RecoverAndReport
<1>2. /\ o \in [Keys -> Intent]
      /\ \A k \in Keys : /\ Sound(o[k], config.stored) /\ Progresses(outbox[k], o[k])
                         /\ NoneIsSending(o[k])
  BY <1>1, LostMoves
<1> HIDE DEF o
<1>3. /\ outbox' \in [Keys -> Intent]
      /\ \A k \in Keys : /\ Sound(outbox'[k], config.stored)
                         /\ outbox'[k].status = o[k].status
                         /\ outbox'[k].sends = o[k].sends
  BY <1>1, <1>2, ReportMoves
<1>4. proc'.worker = "idle" /\ proc'.up = proc.up /\ proc'.listener = proc.listener
  BY <1>1 DEF FanOut, Inv, RestTypeOK
<1>5. Moved BY <1>1, <1>2, <1>3 DEF Moved, Progresses
<1>6. TasksAreConfigured' BY <1>1, <1>4 DEF Inv, TasksAreConfigured, On
<1>7. BatchesAreMarked' BY <1>1, <1>2, <1>3 DEF BatchesAreMarked, NoneIsSending
<1> QED BY <1>5, <1>6, <1>7

\* Steps that write neither the outbox nor the attempts.
LEMMA OutboxIsLeft ==
  ASSUME Inv, UNCHANGED <<outbox, inflight>>, config'.stored = config.stored,
         \/ UNCHANGED <<config, proc>>
         \/ UNCHANGED <<proc>> /\ ~proc.up
         \/ UNCHANGED <<config>> /\ \E n \in Nat : proc' = FanOut(proc, n)
  PROVE  Moved /\ TasksAreConfigured' /\ BatchesAreMarked'
<1>1. Moved BY OutboxStays
<1>2. /\ proc'.worker = proc.worker /\ proc'.up = proc.up /\ proc'.listener = proc.listener
  BY DEF FanOut, Inv, RestTypeOK
<1>3. BatchesAreMarked' BY <1>2 DEF Inv, BatchesAreMarked
<1>4. TasksAreConfigured' BY <1>2 DEF Inv, TasksAreConfigured, On
<1> QED BY <1>1, <1>3, <1>4

LEMMA OutboxMoves ==
  ASSUME Inv, [Next]_vars
  PROVE  (Moved \/ Purged) /\ TasksAreConfigured' /\ BatchesAreMarked'
<1>1. ASSUME NEW c \in Credentials \cup {Off}, ChangeManifest(c)
      PROVE  Moved /\ TasksAreConfigured' /\ BatchesAreMarked'
  BY <1>1, OutboxIsLeft DEF ChangeManifest, Inv, RestTypeOK
<1>2. CASE FinishMaintenance BY <1>2, OutboxOfMaintenance
<1>3. CASE Start BY <1>3, OutboxOfStart
<1>4. CASE Close BY <1>4, OutboxOfClose
<1>5. CASE Crash BY <1>5, OutboxStays, MarksEnd DEF Crash
<1>6. CASE BeginEpoch \/ CellResumes BY <1>6, OutboxIsLeft DEF BeginEpoch, CellResumes
<1>7. CASE KernelStarts BY <1>7, OutboxIsLeft DEF KernelStarts
<1>8. CASE CellFails BY <1>8, OutboxIsLeft DEF CellFails, Commit
<1>9. CASE RunEnds BY <1>9, OutboxIsLeft DEF RunEnds, Commit
<1>10. CASE ListenerStep BY <1>10, OutboxOfRoute
<1>11. CASE RouteIsCut BY <1>11, OutboxOfCut
<1>12. CASE Remind BY <1>12, OutboxOfReminder
<1>13. CASE Claim BY <1>13, OutboxOfClaim
<1>14. CASE BatchEnds BY <1>14, OutboxOfBatch
<1>15. CASE Report BY <1>15, OutboxOfReport
<1>16. ASSUME NEW k \in Keys, NEW d \in Destinations, AttemptEnds(k, d) \/ AttemptIsLost(k, d)
       PROVE  Moved /\ TasksAreConfigured' /\ BatchesAreMarked'
  BY <1>16, OutboxOfAttempt, OutboxOfLoss
<1>17. CASE BeginDrain \/ DrainEnds BY <1>17, OutboxIsLeft DEF BeginDrain, DrainEnds
<1>18. CASE UNCHANGED vars BY <1>18, OutboxIsLeft DEF vars
<1> QED BY <1>1, <1>2, <1>3, <1>4, <1>5, <1>6, <1>7, <1>8, <1>9, <1>10, <1>11, <1>12,
           <1>13, <1>14, <1>15, <1>16, <1>17, <1>18 DEF Next, WorkerStep

-----------------------------------------------------------------------------
(* The journal: pruning keeps what the router has not read.                *)

JournalStep ==
  /\ high' \in Nat /\ high <= high'
  /\ DOMAIN journal' \subseteq 1 .. high'
  /\ \A s \in DOMAIN journal' :
       \/ s \in DOMAIN journal /\ journal'[s] = journal[s]
       \/ s > high /\ journal'[s] \in Events
  /\ \A s \in DOMAIN journal :
       routing'.required /\ s > routing'.cursor => s \in DOMAIN journal'

LEMMA JournalStays ==
  ASSUME Inv, UNCHANGED <<journal, high>>
  PROVE  JournalStep
  BY DEF JournalStep, Inv, RestTypeOK

LEMMA PruneKeeps ==
  ASSUME NEW j, NEW h, NEW r
  PROVE  /\ DOMAIN Prune(j, h, r) \subseteq DOMAIN j
         /\ \A s \in DOMAIN Prune(j, h, r) : Prune(j, h, r)[s] = j[s]
         /\ \A s \in DOMAIN j : s + Keep > h => s \in DOMAIN Prune(j, h, r)
         /\ \A s \in DOMAIN j : r.required /\ s > r.cursor => s \in DOMAIN Prune(j, h, r)
  BY DEF Prune

LEMMA JournalPrunes ==
  ASSUME Inv, journal' = Prune(journal, high, routing'), UNCHANGED high
  PROVE  JournalStep
<1> DEFINE j == Prune(journal, high, routing')
<1>1. /\ DOMAIN j \subseteq DOMAIN journal /\ \A s \in DOMAIN j : j[s] = journal[s]
      /\ \A s \in DOMAIN journal : routing'.required /\ s > routing'.cursor => s \in DOMAIN j
  BY PruneKeeps
<1>2. journal' = j OBVIOUS
<1> HIDE DEF j
<1> QED BY <1>1, <1>2 DEF JournalStep, Inv, RestTypeOK

LEMMA JournalGrows ==
  ASSUME Inv, NEW n \in Nat, high' = high + n, journal' = Journal(n, routing')
  PROVE  JournalStep
<1> DEFINE g == [s \in DOMAIN journal \cup (high + 1 .. high + n) |->
                  IF s \in DOMAIN journal THEN journal[s] ELSE Diagnostic]
           j == Prune(g, high + n, routing')
<1>1. /\ DOMAIN j \subseteq DOMAIN g /\ \A s \in DOMAIN j : j[s] = g[s]
      /\ \A s \in DOMAIN g : routing'.required /\ s > routing'.cursor => s \in DOMAIN j
  BY PruneKeeps
<1>2. journal' = j BY DEF Journal
<1>3. DOMAIN g = DOMAIN journal \cup (high + 1 .. high + n) OBVIOUS
<1>4. /\ \A s \in DOMAIN journal : g[s] = journal[s]
      /\ \A s \in DOMAIN g : s \notin DOMAIN journal => g[s] = Diagnostic
  OBVIOUS
<1> HIDE DEF j, g
<1>5. high \in Nat /\ DOMAIN journal \subseteq 1 .. high BY DEF Inv, RestTypeOK
<1>6. DOMAIN journal' \subseteq 1 .. high' BY <1>1, <1>2, <1>3, <1>5
<1>7. \A s \in DOMAIN journal' :
        \/ s \in DOMAIN journal /\ journal'[s] = journal[s]
        \/ s > high /\ journal'[s] \in Events
  BY <1>1, <1>2, <1>3, <1>4, <1>5 DEF Events
<1>8. \A s \in DOMAIN journal :
        routing'.required /\ s > routing'.cursor => s \in DOMAIN journal'
  BY <1>1, <1>2, <1>3
<1> QED BY <1>5, <1>6, <1>7, <1>8 DEF JournalStep

\* An event that is committed is journaled, and owed if routing is required.
LEMMA CommitGrows ==
  ASSUME Inv, NEW e \in Keys, Commit(e), UNCHANGED routing
  PROVE  /\ JournalStep /\ high' = high + 1
         /\ high + 1 \in DOMAIN journal' /\ journal'[high + 1] = e
         /\ owed' = IF routing.required THEN owed \cup {[seq |-> high + 1, key |-> e]}
                    ELSE owed
<1> DEFINE g == [s \in DOMAIN journal \cup {high + 1} |->
                  IF s = high + 1 THEN e ELSE journal[s]]
           j == Prune(g, high + 1, routing)
<1>1. /\ DOMAIN j \subseteq DOMAIN g /\ \A s \in DOMAIN j : j[s] = g[s]
      /\ \A s \in DOMAIN g : s + Keep > high + 1 => s \in DOMAIN j
      /\ \A s \in DOMAIN g : routing.required /\ s > routing.cursor => s \in DOMAIN j
  BY PruneKeeps
<1>2. /\ journal' = j /\ high' = high + 1
      /\ owed' = IF routing.required THEN owed \cup {[seq |-> high + 1, key |-> e]}
                 ELSE owed
  BY DEF Commit
<1>3. high \in Nat /\ DOMAIN journal \subseteq 1 .. high BY DEF Inv, RestTypeOK
<1>4. /\ DOMAIN g = DOMAIN journal \cup {high + 1} /\ g[high + 1] = e
      /\ \A s \in DOMAIN journal : g[s] = journal[s]
  BY <1>3
<1> HIDE DEF j, g
<1>5. high + 1 \in DOMAIN j
  BY <1>1, <1>3, <1>4, LimitsArePositive DEF LimitsArePositive
<1>6. DOMAIN journal' \subseteq 1 .. high' BY <1>1, <1>2, <1>3, <1>4
<1>7. \A s \in DOMAIN journal' :
        \/ s \in DOMAIN journal /\ journal'[s] = journal[s]
        \/ s > high /\ journal'[s] \in Events
  BY <1>1, <1>2, <1>3, <1>4 DEF Events
<1>8. \A s \in DOMAIN journal :
        routing'.required /\ s > routing'.cursor => s \in DOMAIN journal'
  BY <1>1, <1>2, <1>4
<1> QED BY <1>1, <1>2, <1>3, <1>4, <1>5, <1>6, <1>7, <1>8 DEF JournalStep

LEMMA KeysAreFinite == IsFiniteSet(Keys)
<1> DEFINE T == {"failed", "ended", "periodic"} \X ((0 .. MaxEpochs) \X (0 .. MaxFailures))
           f == [k \in Keys |-> <<k.kind, <<k.epoch, k.attempt>>>>]
<1>1. IsFiniteSet({"failed", "ended", "periodic"})
  <2>1. {"failed", "ended", "periodic"} = (({} \cup {"failed"}) \cup {"ended"}) \cup {"periodic"}
    OBVIOUS
  <2>2. IsFiniteSet({} \cup {"failed"}) BY FS_EmptySet, FS_AddElement
  <2>3. IsFiniteSet(({} \cup {"failed"}) \cup {"ended"}) BY <2>2, FS_AddElement
  <2> QED BY <2>1, <2>3, FS_AddElement
<1>2. IsFiniteSet(0 .. MaxEpochs) /\ IsFiniteSet(0 .. MaxFailures)
  BY FS_Interval, BoundsAreNatural DEF BoundsAreNatural
<1>3. IsFiniteSet(T) BY <1>1, <1>2, FS_Product
<1>4. f \in [Keys -> T] BY BoundsAreNatural DEF BoundsAreNatural, Keys, Failed, RunEnded, Reminder
<1>5. \A k, l \in Keys : f[k] = f[l] => k = l
  BY DEF Keys, Failed, RunEnded, Reminder
<1> HIDE DEF f, T
<1>6. f \in Injection(Keys, T)
  BY <1>4, <1>5 DEF Injection, IsInjective
<1> QED BY <1>3, <1>6, FS_Injection

\* What is published when a batch ended is finitely many events.
LEMMA ReportsAreCounted ==
  ASSUME NEW o
  PROVE  Cardinality(Lost) + Cardinality(Unreported(o)) \in Nat
<1>1. IsFiniteSet(Keys \X Destinations)
  BY KeysAreFinite, FS_Product, SomeDestination DEF SomeDestination
<1>2. IsFiniteSet(Lost) BY <1>1, FS_Subset DEF Lost
<1>3. IsFiniteSet(Unreported(o)) BY KeysAreFinite, FS_Subset DEF Unreported
<1> QED BY <1>2, <1>3, FS_CardinalityType

LEMMA JournalOfReport ==
  ASSUME Inv, BatchEnds \/ Report
  PROVE  JournalStep
<1>1. PICK n \in Nat : PublishDiagnostics(n)
  <2>1. CASE BatchEnds
    BY <2>1, ReportsAreCounted DEF BatchEnds, RecoverAndReport
  <2>2. CASE Report
    <3>1. Cardinality(Unreported(outbox)) \in Nat
      BY KeysAreFinite, FS_Subset, FS_CardinalityType DEF Unreported
    <3>2. Cardinality({}) = 0 BY FS_EmptySet
    <3>3. PublishDiagnostics(Cardinality({}) + Cardinality(Unreported(outbox)))
      BY <2>2 DEF Report, RecoverAndReport
    <3> QED BY <3>1, <3>2, <3>3
  <2> QED BY <2>1, <2>2
<1>2. UNCHANGED routing BY DEF BatchEnds, Report
<1> QED BY <1>1, <1>2, JournalGrows DEF PublishDiagnostics

LEMMA JournalOfRoute ==
  ASSUME Inv, ListenerStep \/ RouteIsCut
  PROVE  JournalStep
<1>1. CASE RouteEvents \/ RouteIsCut
  BY <1>1, JournalPrunes DEF RouteEvents, RouteIsCut
<1>2. CASE RouteFails
  <2>1. \/ UNCHANGED high /\ journal' = Prune(journal, high, routing')
        \/ \E s : Advance(s, 1)
    BY <1>2 DEF RouteFails
  <2>2. ASSUME NEW s, Advance(s, 1) PROVE JournalStep
    BY <2>2, JournalGrows DEF Advance
  <2> QED BY <2>1, <2>2, JournalPrunes
<1>3. CASE RouteRejects
  BY <1>3, JournalGrows DEF RouteRejects, Advance
<1> QED BY <1>1, <1>2, <1>3 DEF ListenerStep

LEMMA JournalMoves ==
  ASSUME Inv, [Next]_vars
  PROVE  JournalStep
<1>1. CASE Close
  <2>1. PICK n \in {0, 1} : PublishDiagnostics(n) BY <1>1 DEF Close
  <2> QED BY <1>1, <2>1, JournalGrows DEF Close, PublishDiagnostics
<1>2. CASE KernelStarts
  BY <1>2, JournalGrows DEF KernelStarts, PublishDiagnostics
<1>3. CASE CellFails
  <2>1. Commit(Failed(run.epoch, run.attempts + 1)) /\ UNCHANGED routing
    BY <1>3 DEF CellFails
  <2>2. Failed(run.epoch, run.attempts + 1) \in Keys
    BY <1>3, BoundsAreNatural DEF BoundsAreNatural, CellFails, Inv, RestTypeOK, NoticesAreOwedOnce, Keys
  <2> QED BY <2>1, <2>2, CommitGrows
<1>4. CASE RunEnds
  <2>1. Commit(RunEnded(run.epoch)) /\ UNCHANGED routing
    BY <1>4 DEF RunEnds
  <2>2. RunEnded(run.epoch) \in Keys
    BY <1>4 DEF RunEnds, Inv, RestTypeOK, NoticesAreOwedOnce, Keys
  <2> QED BY <2>1, <2>2, CommitGrows
<1>5. CASE ListenerStep \/ RouteIsCut BY <1>5, JournalOfRoute
<1>6. CASE BatchEnds \/ Report BY <1>6, JournalOfReport
<1>7. CASE UNCHANGED <<journal, high>> BY <1>7, JournalStays
<1> QED BY <1>1, <1>2, <1>3, <1>4, <1>5, <1>6, <1>7
        DEF Next, WorkerStep, ChangeManifest, FinishMaintenance, Start, Crash, BeginEpoch,
            CellResumes, Remind, Claim, AttemptEnds, AttemptIsLost, BeginDrain, DrainEnds, vars

-----------------------------------------------------------------------------
(* Types. *)

Runs == [phase: {"down", "idle", "booting", "running", "paused", "over"},
         epoch: 0 .. MaxEpochs, failed: 0 .. MaxFailures,
         attempts: 0 .. MaxFailures, over: BOOLEAN]
Routings(n) == [required: BOOLEAN, cursor: 0 .. n,
                retry: [seq: Nat, attempt: 0 .. MaxRouting - 1]]
Configs == [manifest: Credentials \cup {Off}, stored: Credentials \cup {Off}]
Inflights == [Keys -> [Destinations -> {"none", "asked", "lost"}]]
Drains == [state: {"no", "waiting", "complete"}, target: Nat]
Counters == [notices: 0 .. MaxNotices, changes: 0 .. MaxChanges, faults: 0 .. MaxFaults]

\* The variables that no journal step constrains.
OthersTypeOK ==
  /\ run \in Runs /\ config \in Configs /\ proc \in Processes
  /\ inflight \in Inflights /\ drain \in Drains /\ used \in Counters
\* Those that are bounded by the last sequence number.
BoundedTypeOK ==
  /\ routing \in Routings(high) /\ owed \subseteq [seq: 1 .. high, key: Keys]
  /\ dropped \subseteq 1 .. high

LEMMA TypesAreParts ==
  RestTypeOK <=> /\ OthersTypeOK /\ BoundedTypeOK
                 /\ high \in Nat /\ DOMAIN journal \subseteq 1 .. high
                 /\ \A s \in DOMAIN journal : journal[s] \in Events
  BY DEF RestTypeOK, OthersTypeOK, BoundedTypeOK, Runs, Routings, Configs, Processes,
         Inflights, Drains, Counters

LEMMA NoticeCounts ==
  ASSUME used \in Counters, Notice \/ Fault
  PROVE  used' \in Counters
  BY BoundsAreNatural DEF BoundsAreNatural, Notice, Fault, Counters

LEMMA DyingIsTyped ==
  ASSUME OthersTypeOK, Dies, UNCHANGED config, used' \in Counters
  PROVE  OthersTypeOK'
<1>1. Down \in Processes /\ NoDrain \in Drains
  BY LimitsArePositive DEF LimitsArePositive, Down, NoDrain, Processes, Drains
<1>2. run' \in Runs BY DEF Dies, OthersTypeOK, Runs
<1>3. inflight' \in Inflights BY DEF Dies, Inflights
<1> QED BY <1>1, <1>2, <1>3 DEF Dies, OthersTypeOK

LEMMA RunIsTyped ==
  ASSUME OthersTypeOK, [Next]_vars
  PROVE  run' \in Runs
<1> DEFINE Phases == {"down", "idle", "booting", "running", "paused", "over"}
<1>1. /\ run.phase \in Phases /\ run.epoch \in 0 .. MaxEpochs /\ run.failed \in 0 .. MaxFailures
      /\ run.attempts \in 0 .. MaxFailures /\ run.over \in BOOLEAN
      /\ run = [phase |-> run.phase, epoch |-> run.epoch, failed |-> run.failed,
                attempts |-> run.attempts, over |-> run.over]
      /\ MaxEpochs \in Nat /\ MaxFailures \in Nat
  BY BoundsAreNatural DEF BoundsAreNatural, OthersTypeOK, Runs
<1>2. ASSUME NEW p \in Phases, NEW e \in 0 .. MaxEpochs, NEW f \in 0 .. MaxFailures,
             NEW a \in 0 .. MaxFailures, NEW o \in BOOLEAN,
             run' = [phase |-> p, epoch |-> e, failed |-> f, attempts |-> a, over |-> o]
      PROVE  run' \in Runs
  BY <1>2 DEF Runs
<1>3. CASE UNCHANGED run BY <1>3 DEF OthersTypeOK
<1>4. ASSUME NEW p \in Phases, run' = [run EXCEPT !.phase = p] PROVE run' \in Runs
  BY <1>4 DEF OthersTypeOK, Runs
<1>5. CASE Start BY <1>4, <1>5 DEF Start
<1>6. CASE Dies BY <1>4, <1>6 DEF Dies
<1>7. CASE BeginEpoch
  <2>1. run' = [phase |-> "booting", epoch |-> run.epoch + 1, failed |-> run.failed,
                attempts |-> 0, over |-> run.over]
    BY <1>1, <1>7 DEF BeginEpoch
  <2>2. run.epoch + 1 \in 0 .. MaxEpochs BY <1>1, <1>7 DEF BeginEpoch
  <2> QED BY <1>1, <1>2, <2>1, <2>2
<1>8. CASE KernelStarts \/ CellResumes
  <2>1. run' = [phase |-> "running", epoch |-> run.epoch, failed |-> 0,
                attempts |-> run.attempts, over |-> run.over]
    BY <1>1, <1>8 DEF KernelStarts, CellResumes
  <2> QED BY <1>1, <1>2, <2>1
<1>9. CASE CellFails
  <2>1. run' = [phase |-> "paused", epoch |-> run.epoch, failed |-> run.attempts + 1,
                attempts |-> run.attempts + 1, over |-> run.over]
    BY <1>1, <1>9 DEF CellFails
  <2>2. run.attempts + 1 \in 0 .. MaxFailures BY <1>1, <1>9 DEF CellFails
  <2> QED BY <1>1, <1>2, <2>1, <2>2
<1>10. CASE RunEnds
  <2>1. PICK f \in {0, run.failed} :
          run' = [phase |-> "over", epoch |-> run.epoch, failed |-> f,
                  attempts |-> run.attempts, over |-> TRUE]
    BY <1>1, <1>10 DEF RunEnds
  <2>2. f \in 0 .. MaxFailures BY <1>1
  <2> QED BY <1>1, <1>2, <2>1, <2>2
<1> QED BY <1>3, <1>5, <1>6, <1>7, <1>8, <1>9, <1>10
        DEF Next, WorkerStep, ListenerStep, ChangeManifest, FinishMaintenance, Close, Crash,
            RouteEvents, RouteFails, RouteRejects, RouteIsCut, Remind, Claim, BatchEnds,
            Report, AttemptEnds, AttemptIsLost, BeginDrain, DrainEnds, vars

LEMMA OthersAreTyped ==
  ASSUME Inv, [Next]_vars
  PROVE  OthersTypeOK'
<1>0. OthersTypeOK BY TypesAreParts DEF Inv
<1>r. run' \in Runs BY <1>0, RunIsTyped
<1> USE <1>0, <1>r
<1>1. ASSUME NEW c \in Credentials \cup {Off}, ChangeManifest(c)
      PROVE  OthersTypeOK'
  BY <1>1, BoundsAreNatural
     DEF BoundsAreNatural, ChangeManifest, OthersTypeOK, Configs, Counters
<1>2. CASE FinishMaintenance
  BY <1>2 DEF FinishMaintenance, Purge, OthersTypeOK, Configs
<1>3. CASE Start
  <2>1. 0 \in 0 .. QueueSize BY LimitsArePositive DEF LimitsArePositive
  <2>2. proc' \in Processes
    <3>1. CASE On
      <4>1. proc' = [up |-> TRUE, listener |-> "reading", worker |-> "idle", queue |-> 0]
        BY <1>3, <3>1 DEF Start
      <4> QED BY <2>1, <4>1 DEF Processes
    <3>2. CASE ~On
      <4>1. proc' = [Down EXCEPT !.up = TRUE] BY <1>3, <3>2 DEF Start
      <4>2. Down \in Processes BY <2>1 DEF Down, Processes
      <4> QED BY <4>1, <4>2 DEF Processes
    <3> QED BY <3>1, <3>2
  <2>3. config' \in Configs BY <1>3 DEF Start, Purge, OthersTypeOK, Configs
  <2> QED BY <1>3, <2>2, <2>3 DEF Start, OthersTypeOK
<1>4. CASE Close \/ Crash \/ RouteIsCut
  <2>1. Dies /\ UNCHANGED config /\ Fault BY <1>4 DEF Close, Crash, RouteIsCut
  <2>2. used' \in Counters BY <2>1, NoticeCounts DEF OthersTypeOK
  <2> QED BY <2>1, <2>2, DyingIsTyped
<1>5. CASE BeginEpoch \/ CellResumes
  BY <1>5 DEF BeginEpoch, CellResumes, OthersTypeOK
<1>6. CASE KernelStarts
  <2>2. proc' \in Processes BY <1>6, FanOutFills DEF KernelStarts, OthersTypeOK
  <2> QED BY <1>6, <2>2 DEF KernelStarts, OthersTypeOK
<1>7. CASE CellFails
  <2>2. proc' \in Processes BY <1>7, FanOutFills DEF CellFails, Commit, OthersTypeOK
  <2>3. used' \in Counters BY <1>7, NoticeCounts DEF CellFails, OthersTypeOK
  <2> QED BY <1>7, <2>2, <2>3 DEF CellFails, OthersTypeOK
<1>8. CASE RunEnds
  <2>2. proc' \in Processes BY <1>8, FanOutFills DEF RunEnds, Commit, OthersTypeOK
  <2>3. used' \in Counters BY <1>8, NoticeCounts DEF RunEnds, OthersTypeOK
  <2> QED BY <1>8, <2>2, <2>3 DEF RunEnds, OthersTypeOK
<1>9. CASE ListenerStep
  <2>1. \E l \in {"reading", "waiting"} :
          proc' \in {[proc EXCEPT !.listener = l], [proc EXCEPT !.listener = l, !.queue = 0]}
    BY <1>9 DEF ListenerStep, RouteEvents, RouteFails, RouteRejects, Advance
  <2>4. 0 \in 0 .. QueueSize BY LimitsArePositive DEF LimitsArePositive
  <2>3. proc' \in Processes
    BY <2>1, <2>4 DEF OthersTypeOK, Processes
  <2>2. used' \in Counters
    BY <1>9, NoticeCounts
       DEF ListenerStep, RouteEvents, RouteFails, RouteRejects, OthersTypeOK
  <2> QED BY <1>9, <2>2, <2>3
          DEF ListenerStep, RouteEvents, RouteFails, RouteRejects, OthersTypeOK
<1>10. CASE Remind BY <1>10, NoticeCounts DEF Remind, OthersTypeOK
<1>11. CASE Claim
  <2>1. inflight' \in Inflights BY <1>11, ClaimMoves DEF Inflights
  <2> QED BY <1>11, <2>1 DEF Claim, OthersTypeOK, Processes
<1>12. CASE BatchEnds \/ Report
  <2>1. PICK n \in Nat : proc' = [FanOut(proc, n) EXCEPT !.worker = "idle"]
    <3>1. CASE BatchEnds BY <3>1, ReportsAreCounted DEF BatchEnds, RecoverAndReport
    <3>2. CASE Report
      <4>1. Cardinality(Unreported(outbox)) \in Nat
        BY KeysAreFinite, FS_Subset, FS_CardinalityType DEF Unreported
      <4>2. Cardinality({}) = 0 BY FS_EmptySet
      <4> QED BY <3>2, <4>1, <4>2 DEF Report, RecoverAndReport
    <3> QED BY <1>12, <3>1, <3>2
  <2>2. FanOut(proc, n) \in Processes BY FanOutFills DEF OthersTypeOK
  <2>3. proc' \in Processes BY <2>1, <2>2 DEF Processes
  <2> QED BY <1>12, <2>3 DEF BatchEnds, Report, OthersTypeOK, Inflights
<1>13. ASSUME NEW k \in Keys, NEW d \in Destinations, AttemptEnds(k, d)
       PROVE  OthersTypeOK'
  BY <1>13 DEF AttemptEnds, OthersTypeOK, Inflights
<1>14. ASSUME NEW k \in Keys, NEW d \in Destinations, AttemptIsLost(k, d)
       PROVE  OthersTypeOK'
  BY <1>14, NoticeCounts DEF AttemptIsLost, OthersTypeOK, Inflights
<1>15. CASE BeginDrain \/ DrainEnds
  <2>1. high \in Nat BY TypesAreParts DEF Inv
  <2>2. drain' \in Drains BY <1>15, <2>1 DEF BeginDrain, DrainEnds, OthersTypeOK, Drains
  <2> QED BY <1>15, <2>2 DEF BeginDrain, DrainEnds, OthersTypeOK
<1>16. CASE UNCHANGED vars BY <1>16 DEF vars, OthersTypeOK
<1> QED BY <1>1, <1>2, <1>3, <1>4, <1>5, <1>6, <1>7, <1>8, <1>9, <1>10, <1>11, <1>12,
           <1>13, <1>14, <1>15, <1>16 DEF Next, WorkerStep

-----------------------------------------------------------------------------
(* What is owed: the cursor passes an event only when its intent exists, or *)
(* it is given up on record.                                               *)

RoutingStep ==
  /\ routing' \in Routings(high') /\ routing.cursor <= routing'.cursor
  /\ routing.required => routing'.required
  /\ dropped \subseteq dropped' /\ dropped' \subseteq 1 .. high'
  /\ \A s \in Notifiable :
       s <= routing'.cursor => outbox'[journal[s]].status # "none" \/ s \in dropped'

OwedStep ==
  \/ owed' = owed
  \/ /\ UNCHANGED <<routing, dropped>> /\ routing.required
     /\ \E e \in Keys : /\ owed' = owed \cup {[seq |-> high + 1, key |-> e]}
                        /\ high + 1 \in DOMAIN journal' /\ journal'[high + 1] = e
                        /\ high + 1 <= high'

LEMMA BoundedTypes ==
  ASSUME Inv
  PROVE  /\ high \in Nat /\ DOMAIN journal \subseteq 1 .. high
         /\ routing \in Routings(high) /\ routing.cursor \in 0 .. high
         /\ dropped \subseteq 1 .. high /\ owed \subseteq [seq: 1 .. high, key: Keys]
         /\ \A s \in Notifiable : s \in DOMAIN journal /\ s \in 1 .. high
                                 /\ s > routing.cursor /\ journal[s] \in Keys
<1>1. BoundedTypeOK /\ high \in Nat /\ DOMAIN journal \subseteq 1 .. high
  BY TypesAreParts DEF Inv
<1>2. routing.cursor \in 0 .. high BY <1>1 DEF BoundedTypeOK, Routings
<1>3. \A s \in Notifiable : s \in DOMAIN journal /\ s > routing.cursor /\ journal[s] \in Keys
  BY DEF Notifiable, Unread
<1> QED BY <1>1, <1>2, <1>3 DEF BoundedTypeOK

LEMMA RoutingAt ==
  ASSUME NEW n \in Nat, NEW m \in Nat, n <= m, routing \in Routings(n)
  PROVE  /\ routing \in Routings(m)
         /\ \A s \in 0 .. m : /\ At(s) \in Routings(m) /\ At(s).cursor = s
                             /\ At(s).required = routing.required
<1>1. NoRetry \in [seq: Nat, attempt: 0 .. MaxRouting - 1]
  BY LimitsArePositive DEF LimitsArePositive, NoRetry
<1>2. 0 .. n \subseteq 0 .. m OBVIOUS
<1>3. routing \in Routings(m) BY <1>2 DEF Routings
<1> HIDE DEF NoRetry
<1> QED BY <1>1, <1>3 DEF Routings, At

\* A step that routes nothing.
LEMMA RoutingStays ==
  ASSUME Inv, JournalStep, UNCHANGED dropped,
         \/ UNCHANGED routing
         \/ routing' = [routing EXCEPT !.required = TRUE]
  PROVE  RoutingStep
<1>1. /\ high \in Nat /\ routing \in Routings(high) /\ routing.cursor \in 0 .. high
      /\ dropped \subseteq 1 .. high /\ high' \in Nat /\ high <= high'
      /\ \A s \in Notifiable : s \in 1 .. high /\ s > routing.cursor
  BY BoundedTypes DEF JournalStep
<1>3. routing \in Routings(high') BY <1>1, RoutingAt
<1>2. routing' \in Routings(high') /\ routing'.cursor = routing.cursor
      /\ (routing.required => routing'.required)
  <2>1. CASE UNCHANGED routing BY <1>3, <2>1
  <2>2. CASE routing' = [routing EXCEPT !.required = TRUE] BY <1>3, <2>2 DEF Routings
  <2> QED BY <2>1, <2>2
<1> QED BY <1>1, <1>2 DEF RoutingStep

\* A step that routes the set K of events, and moves the cursor no further.
LEMMA RoutingOf ==
  ASSUME Inv, JournalStep, Awake, NEW c \in routing.cursor .. high, NEW A,
         outbox' = EnqueueAll(outbox, {journal[t] : t \in A}, config.manifest),
         A \subseteq Notifiable,
         routing'.required = routing.required, routing'.cursor = c,
         routing' \in Routings(high'),
         dropped \subseteq dropped', dropped' \subseteq 1 .. high',
         \A s \in Notifiable : s <= c => s \in A \/ s \in dropped'
  PROVE  RoutingStep
<1> DEFINE K == {journal[t] : t \in A}
           o == EnqueueAll(outbox, K, config.manifest)
<1>1. /\ high \in Nat /\ routing \in Routings(high) /\ routing.cursor \in 0 .. high
      /\ \A s \in Notifiable : journal[s] \in Keys
  BY BoundedTypes
<1>2. \A s \in A : journal[s] \in K OBVIOUS
<1>3. \A k \in Keys : k \in K => o[k].status # "none"
  <2> HIDE DEF K
  <2> QED BY ListenerRuns, RoutedOutbox
<1>4. \A s \in A : outbox'[journal[s]].status # "none"
  <2>1. outbox' = o OBVIOUS
  <2> HIDE DEF K, o
  <2> QED BY <1>1, <1>2, <1>3, <2>1
<1>5. routing.cursor <= routing'.cursor BY <1>1
<1> QED BY <1>4, <1>5 DEF RoutingStep

LEMMA RoutingOfEvents ==
  ASSUME Inv, RouteEvents
  PROVE  RoutingStep /\ OwedStep
<1>1. JournalStep BY JournalOfRoute DEF ListenerStep
<1>2. /\ high \in Nat /\ routing \in Routings(high) /\ routing.cursor \in 0 .. high
      /\ dropped \subseteq 1 .. high /\ UNCHANGED <<high, dropped, owed>>
      /\ \A s \in Notifiable : s \in 1 .. high
  BY BoundedTypes DEF RouteEvents, history
<1>3. Awake /\ outbox' = EnqueueAll(outbox, {journal[t] : t \in {t \in Notifiable : t < high + 1}},
                                   config.manifest)
  BY DEF RouteEvents, RoutedBefore
<1>4. CASE Unread = {} BY <1>1, <1>2, <1>4, RoutingStays DEF RouteEvents, OwedStep
<1>5. CASE Unread # {}
  <2> DEFINE A == {t \in Notifiable : t < high + 1}
  <2>1. routing' = At(high) BY <1>5 DEF RouteEvents
  <2>2. /\ routing'.required = routing.required /\ routing'.cursor = high
        /\ routing' \in Routings(high')
    BY <1>2, <2>1, RoutingAt
  <2>3. A \subseteq Notifiable /\ \A s \in Notifiable : s \in A BY <1>2
  <2>4. high \in routing.cursor .. high BY <1>2
  <2>5. outbox' = EnqueueAll(outbox, {journal[t] : t \in A}, config.manifest) BY <1>3
  <2> HIDE DEF A
  <2>6. RoutingStep BY <1>1, <1>2, <1>3, <2>2, <2>3, <2>4, <2>5, RoutingOf
  <2> QED BY <1>2, <2>6 DEF OwedStep
<1> QED BY <1>4, <1>5

LEMMA RoutingOfFailure ==
  ASSUME Inv, RouteFails \/ RouteRejects
  PROVE  RoutingStep /\ OwedStep
<1>1. JournalStep BY JournalOfRoute DEF ListenerStep
<1>2. PICK s \in Notifiable :
        /\ outbox' = RoutedBefore(s)
        /\ \/ Advance(s, 1) /\ dropped' = dropped \cup {s}
           \/ \E a \in 1 .. MaxRouting - 1 :
                /\ routing' = [At(s - 1) EXCEPT !.retry = [seq |-> s, attempt |-> a]]
                /\ UNCHANGED <<high, dropped>>
  <2>1. CASE RouteRejects BY <2>1 DEF RouteRejects
  <2>2. CASE RouteFails
    <3>1. PICK s \in Notifiable :
            LET attempt == IF routing.retry.seq = s THEN routing.retry.attempt + 1 ELSE 1
            IN /\ outbox' = RoutedBefore(s)
               /\ IF attempt >= MaxRouting THEN Advance(s, 1) /\ dropped' = dropped \cup {s}
                  ELSE /\ routing' = [At(s - 1) EXCEPT !.retry = [seq |-> s, attempt |-> attempt]]
                       /\ UNCHANGED <<high, dropped>>
      BY <2>2 DEF RouteFails
    <3>2. routing.retry.attempt \in Nat /\ MaxRouting \in Nat
      BY BoundedTypes, LimitsArePositive DEF LimitsArePositive, Routings
    <3> DEFINE attempt == IF routing.retry.seq = s THEN routing.retry.attempt + 1 ELSE 1
    <3>3. attempt \in Nat /\ attempt >= 1 BY <3>2
    <3>4. CASE attempt >= MaxRouting BY <3>1, <3>4
    <3>5. CASE ~(attempt >= MaxRouting)
      <4>1. attempt \in 1 .. MaxRouting - 1 BY <3>2, <3>3, <3>5
      <4>2. /\ outbox' = RoutedBefore(s) /\ UNCHANGED <<high, dropped>>
            /\ routing' = [At(s - 1) EXCEPT !.retry = [seq |-> s, attempt |-> attempt]]
        BY <3>1, <3>5
      <4> HIDE DEF attempt
      <4> QED BY <4>1, <4>2
    <3> QED BY <3>4, <3>5
  <2> QED BY <2>1, <2>2
<1> DEFINE A == {t \in Notifiable : t < s}
<1>3. /\ Awake /\ UNCHANGED owed
      /\ outbox' = EnqueueAll(outbox, {journal[t] : t \in A}, config.manifest)
  BY <1>2 DEF RouteFails, RouteRejects, RoutedBefore
<1>4. /\ high \in Nat /\ routing \in Routings(high) /\ routing.cursor \in 0 .. high
      /\ dropped \subseteq 1 .. high /\ s \in 1 .. high /\ s > routing.cursor
      /\ \A t \in Notifiable : t \in 1 .. high
  BY BoundedTypes
<1>5. A \subseteq Notifiable /\ \A t \in Notifiable : t <= s => t \in A \/ t = s
  BY <1>4
<1> HIDE DEF A
<1>6. CASE Advance(s, 1) /\ dropped' = dropped \cup {s}
  <2>1. routing' = At(s) /\ high' = high + 1 BY <1>6 DEF Advance
  <2>2. /\ routing'.required = routing.required /\ routing'.cursor = s
        /\ routing' \in Routings(high')
    BY <1>4, <2>1, RoutingAt
  <2>3. s \in routing.cursor .. high BY <1>4
  <2>4. dropped' \subseteq 1 .. high' BY <1>4, <1>6, <2>1
  <2>5. RoutingStep BY <1>1, <1>3, <1>5, <1>6, <2>2, <2>3, <2>4, RoutingOf
  <2> QED BY <1>3, <2>5 DEF OwedStep
<1>7. ASSUME NEW a \in 1 .. MaxRouting - 1, UNCHANGED <<high, dropped>>,
             routing' = [At(s - 1) EXCEPT !.retry = [seq |-> s, attempt |-> a]]
      PROVE  RoutingStep /\ OwedStep
  <2>1. s - 1 \in routing.cursor .. high /\ s - 1 \in 0 .. high /\ s \in Nat BY <1>4
  <2>3. [seq |-> s, attempt |-> a] \in [seq: Nat, attempt: 0 .. MaxRouting - 1]
    BY <2>1, LimitsArePositive DEF LimitsArePositive
  <2>2. /\ routing'.required = routing.required /\ routing'.cursor = s - 1
        /\ routing' \in Routings(high')
    BY <1>4, <1>7, <2>1, <2>3 DEF At, Routings
  <2>4. \A t \in Notifiable : t <= s - 1 => t \in A BY <1>4, <1>5
  <2>5. RoutingStep BY <1>1, <1>3, <1>4, <1>5, <1>7, <2>1, <2>2, <2>4, RoutingOf
  <2> QED BY <1>3, <2>5 DEF OwedStep
<1> QED BY <1>2, <1>6, <1>7

LEMMA RoutingOfCut ==
  ASSUME Inv, RouteIsCut
  PROVE  RoutingStep /\ OwedStep
<1>1. JournalStep BY JournalOfRoute
<1>2. PICK s \in Notifiable :
        /\ outbox' = EnqueueAll(outbox, {journal[t] : t \in {t \in Notifiable : t <= s}},
                               config.manifest)
        /\ routing' = [routing EXCEPT !.cursor = s - 1]
  BY OutboxOfCut
<1> DEFINE A == {t \in Notifiable : t <= s}
<1>3. Awake /\ UNCHANGED <<high, dropped, owed>> BY DEF RouteIsCut, history
<1>4. /\ high \in Nat /\ routing \in Routings(high) /\ routing.cursor \in 0 .. high
      /\ dropped \subseteq 1 .. high /\ s \in 1 .. high /\ s > routing.cursor
      /\ \A t \in Notifiable : t \in 1 .. high
  BY BoundedTypes
<1>5. A \subseteq Notifiable /\ \A t \in Notifiable : t <= s - 1 => t \in A
  BY <1>4
<1>6. s - 1 \in routing.cursor .. high /\ s - 1 \in 0 .. high BY <1>4
<1>7. /\ routing'.required = routing.required /\ routing'.cursor = s - 1
      /\ routing' \in Routings(high')
  BY <1>2, <1>3, <1>4, <1>6 DEF Routings
<1>8. outbox' = EnqueueAll(outbox, {journal[t] : t \in A}, config.manifest) BY <1>2
<1> HIDE DEF A
<1>9. RoutingStep BY <1>1, <1>3, <1>4, <1>5, <1>6, <1>7, <1>8, RoutingOf
<1> QED BY <1>3, <1>9 DEF OwedStep

\* The keys of what the run journals.
LEMMA CommittedKeys ==
  ASSUME Inv
  PROVE  /\ CellFails => Failed(run.epoch, run.attempts + 1) \in Keys
         /\ RunEnds => RunEnded(run.epoch) \in Keys
  BY BoundsAreNatural
     DEF BoundsAreNatural, CellFails, RunEnds, Inv, RestTypeOK, NoticesAreOwedOnce, Keys

LEMMA RoutingOfCommit ==
  ASSUME Inv, CellFails \/ RunEnds
  PROVE  RoutingStep /\ OwedStep
<1>1. PICK e \in Keys : Commit(e) BY CommittedKeys DEF CellFails, RunEnds
<1>2. UNCHANGED <<routing, dropped>> BY DEF CellFails, RunEnds
<1>3. /\ JournalStep /\ high' = high + 1
      /\ high + 1 \in DOMAIN journal' /\ journal'[high + 1] = e
      /\ owed' = IF routing.required THEN owed \cup {[seq |-> high + 1, key |-> e]}
                 ELSE owed
  BY <1>1, <1>2, CommitGrows
<1>4. RoutingStep BY <1>2, <1>3, RoutingStays
<1>5. high + 1 <= high' BY <1>3, BoundedTypes
<1> QED BY <1>2, <1>3, <1>4, <1>5 DEF OwedStep

PurgeStep ==
  /\ Purged /\ UNCHANGED <<high, dropped>>
  /\ routing' = [required |-> FALSE, cursor |-> high, retry |-> NoRetry]

LEMMA RoutingMoves ==
  ASSUME Inv, [Next]_vars
  PROVE  PurgeStep \/ (RoutingStep /\ OwedStep)
<1>1. JournalStep BY JournalMoves
<1>2. CASE RouteEvents \/ RouteFails \/ RouteRejects \/ RouteIsCut
  BY <1>2, RoutingOfEvents, RoutingOfFailure, RoutingOfCut
<1>3. CASE CellFails \/ RunEnds BY <1>3, RoutingOfCommit
<1>4. CASE (FinishMaintenance \/ Start) /\ ~On
  BY <1>4 DEF FinishMaintenance, Start, Purge, PurgeStep, Purged
<1>5. CASE (FinishMaintenance \/ Start) /\ On
  <2>1. routing' = [routing EXCEPT !.required = TRUE] /\ UNCHANGED <<owed, dropped>>
    BY <1>5 DEF FinishMaintenance, Start
  <2> QED BY <1>1, <2>1, RoutingStays DEF OwedStep
<1>6. CASE UNCHANGED <<routing, owed, dropped>>
  BY <1>1, <1>6, RoutingStays DEF OwedStep
<1> QED BY <1>2, <1>3, <1>4, <1>5, <1>6
        DEF Next, ListenerStep, WorkerStep, ChangeManifest, Close, Crash, BeginEpoch,
            KernelStarts, CellResumes, Remind, Claim, BatchEnds, Report, AttemptEnds,
            AttemptIsLost, BeginDrain, DrainEnds, vars, history

\* A reminder is never owed: it is of no event.
LEMMA OwedIsOfAnEvent ==
  ASSUME Inv, NEW f \in owed
  PROVE  /\ f.key \in Keys \ {Reminder} /\ f.seq \in 1 .. high
         /\ f = [seq |-> f.seq, key |-> f.key]
<1>1. f \in [seq: 1 .. high, key: Keys] BY BoundedTypes
<1>2. f.key # Reminder BY DEF Inv, NoticesAreOwedOnce, Reminder
<1> QED BY <1>1, <1>2

\* An intent is forgotten by a purge only.
LEMMA IntentsStay ==
  ASSUME Inv, Moved, NEW k \in Keys \ {Reminder}, outbox[k].status # "none"
  PROVE  outbox'[k].status # "none"
  BY DEF Moved, Advances, Progresses, OpenStatus, Done

LEMMA OwedIsKept ==
  ASSUME Inv, [Next]_vars
  PROVE  BoundedTypeOK' /\ JournalIsKept' /\ NothingOwedIsLost'
<1>1. JournalStep BY JournalMoves
<1>2. /\ high \in Nat /\ DOMAIN journal \subseteq 1 .. high
      /\ routing \in Routings(high) /\ routing.cursor \in 0 .. high
      /\ dropped \subseteq 1 .. high /\ owed \subseteq [seq: 1 .. high, key: Keys]
  BY BoundedTypes
<1>3. CASE PurgeStep
  <2>1. [required |-> FALSE, cursor |-> high, retry |-> NoRetry] \in Routings(high)
    BY <1>2, LimitsArePositive DEF LimitsArePositive, Routings, NoRetry
  <2>2. BoundedTypeOK' BY <1>2, <1>3, <2>1 DEF PurgeStep, Purged, BoundedTypeOK
  <2> QED BY <1>3, <2>2 DEF PurgeStep, Purged, JournalIsKept, NothingOwedIsLost
<1>4. CASE Purged /\ ~PurgeStep
  <2>1. RoutingStep BY <1>4, RoutingMoves
  <2>2. BoundedTypeOK' BY <1>4, <2>1 DEF RoutingStep, Purged, BoundedTypeOK
  <2> QED BY <1>4, <2>2 DEF Purged, JournalIsKept, NothingOwedIsLost
<1>5. CASE Moved /\ ~PurgeStep
  <2>1. RoutingStep /\ OwedStep BY <1>5, RoutingMoves
  <2>2. /\ high' \in Nat /\ high <= high' /\ routing'.cursor \in 0 .. high'
    BY <1>1, <2>1 DEF JournalStep, RoutingStep, Routings
  <2>3. ASSUME NEW f \in owed'
        PROVE  \/ f \in owed
               \/ /\ UNCHANGED routing /\ routing.required /\ f.seq = high + 1 /\ f.key \in Keys
                  /\ f \in [seq: 1 .. high', key: Keys]
                  /\ high + 1 \in DOMAIN journal' /\ journal'[high + 1] = f.key
    <3>1. CASE owed' = owed BY <3>1
    <3>2. ASSUME NEW e \in Keys, owed' = owed \cup {[seq |-> high + 1, key |-> e]}, high + 1 <= high'
          PROVE  \/ f \in owed
                 \/ f.seq = high + 1 /\ f.key = e /\ f \in [seq: 1 .. high', key: Keys]
      BY <1>2, <2>2, <3>2
    <3> QED BY <2>1, <3>1, <3>2 DEF OwedStep
  <2>4. BoundedTypeOK'
    <3>1. owed' \subseteq [seq: 1 .. high', key: Keys]
      <4>1. [seq: 1 .. high, key: Keys] \subseteq [seq: 1 .. high', key: Keys] BY <1>2, <2>2
      <4> QED BY <1>2, <2>3, <4>1
    <3> QED BY <2>1, <3>1 DEF RoutingStep, BoundedTypeOK
  <2>5. JournalIsKept'
    <3>1. owed' # {} => routing'.required
      BY <2>1, <2>3 DEF RoutingStep, Inv, JournalIsKept
    <3>2. ASSUME NEW f \in owed', f.seq \in DOMAIN journal' PROVE journal'[f.seq] = f.key
      <4>1. CASE f \in owed
        <5>1. f.seq \in 1 .. high BY <4>1, OwedIsOfAnEvent
        <5>2. f.seq \in DOMAIN journal /\ journal'[f.seq] = journal[f.seq]
          BY <1>1, <1>2, <3>2, <5>1 DEF JournalStep
        <5> QED BY <4>1, <5>2 DEF Inv, JournalIsKept
      <4> QED BY <2>3, <3>2, <4>1
    <3> QED BY <3>1, <3>2 DEF JournalIsKept
  <2>6. ASSUME NEW f \in owed'
        PROVE  IF f.seq > routing'.cursor THEN f.seq \in DOMAIN journal'
               ELSE outbox'[f.key].status # "none" \/ f.seq \in dropped'
    <3>1. CASE f \notin owed
      <4>1. f.seq = high + 1 /\ UNCHANGED routing /\ high + 1 \in DOMAIN journal'
        BY <2>3, <3>1
      <4>2. f.seq > routing'.cursor BY <1>2, <4>1
      <4> QED BY <4>1, <4>2
    <3>2. CASE f \in owed
      <4>1. f.key \in Keys \ {Reminder} /\ f.seq \in 1 .. high BY <3>2, OwedIsOfAnEvent
      <4>2. routing.required BY <3>2 DEF Inv, JournalIsKept
      <4>3. f.seq > routing.cursor => f.seq \in DOMAIN journal /\ journal[f.seq] = f.key
        BY <3>2 DEF Inv, NothingOwedIsLost, JournalIsKept
      <4>4. CASE f.seq > routing'.cursor
        <5>1. f.seq > routing.cursor BY <1>2, <2>1, <2>2, <4>1, <4>4 DEF RoutingStep
        <5> QED BY <1>1, <2>1, <4>2, <4>3, <4>4, <5>1 DEF JournalStep, RoutingStep
      <4>5. CASE ~(f.seq > routing'.cursor) /\ f.seq > routing.cursor
        <5>1. f.seq \in Notifiable BY <4>1, <4>3, <4>5 DEF Notifiable, Unread
        <5>2. f.seq <= routing'.cursor BY <2>2, <4>1, <4>5
        <5> QED BY <2>1, <4>3, <4>5, <5>1, <5>2 DEF RoutingStep
      <4>6. CASE ~(f.seq > routing'.cursor) /\ ~(f.seq > routing.cursor)
        <5>1. outbox[f.key].status # "none" \/ f.seq \in dropped
          BY <3>2, <4>6 DEF Inv, NothingOwedIsLost
        <5> QED BY <1>5, <2>1, <4>1, <4>6, <5>1, IntentsStay DEF RoutingStep
      <4> QED BY <4>4, <4>5, <4>6
    <3> QED BY <3>1, <3>2
  <2> QED BY <2>4, <2>5, <2>6 DEF NothingOwedIsLost
<1> QED BY <1>3, <1>4, <1>5, OutboxMoves

-----------------------------------------------------------------------------
(* A notice is owed once, and a drain is of a run that owes no more.       *)

\* What becomes of the run.
LEMMA RunMoves ==
  ASSUME Inv, [Next]_vars
  PROVE  \/ run' = run
         \/ Start /\ \E p \in {"idle", "over"} :
              /\ run' = [run EXCEPT !.phase = p] /\ (run.over => p = "over")
         \/ Dies /\ run' = [run EXCEPT !.phase = "down"]
         \/ BeginEpoch \/ KernelStarts \/ CellResumes \/ CellFails \/ RunEnds
  BY DEF Next, WorkerStep, ListenerStep, ChangeManifest, FinishMaintenance, Start, Close, Crash,
         RouteEvents, RouteFails, RouteRejects, RouteIsCut, Remind, Claim, BatchEnds,
         Report, AttemptEnds, AttemptIsLost, BeginDrain, DrainEnds, vars, Dies

\* How a notice that is owed compares with the run.
OfThePast(k, r) ==
  \/ /\ k.kind = "failed"
     /\ k.epoch < r.epoch \/ (k.epoch = r.epoch /\ k.attempt <= r.attempts)
  \/ k.kind = "ended" /\ r.over
RunIsPlaced(r) ==
  /\ r.phase \in {"booting", "running", "paused"} => r.epoch >= 1
  /\ r.over => r.phase \in {"down", "over"}

LEMMA OwedOnceParts ==
  NoticesAreOwedOnce <=> /\ \A f, g \in owed : f.key = g.key => f = g
                         /\ \A f \in owed : OfThePast(f.key, run)
                         /\ RunIsPlaced(run)
  BY DEF NoticesAreOwedOnce, OfThePast, RunIsPlaced

LEMMA PastStaysPast ==
  ASSUME Inv, [Next]_vars
  PROVE  /\ RunIsPlaced(run')
         /\ \A k \in Keys : OfThePast(k, run) => OfThePast(k, run')
<1>1. run \in Runs /\ RunIsPlaced(run)
  BY TypesAreParts, OwedOnceParts DEF Inv, OthersTypeOK
<1>2. \A k \in Keys : k.epoch \in Nat /\ k.attempt \in Nat
  BY DEF Keys, Failed, RunEnded, Reminder
<1>3. CASE run' = run BY <1>1, <1>3
<1>4. ASSUME NEW p \in {"idle", "over", "down"}, run' = [run EXCEPT !.phase = p],
             run.over => p # "idle"
      PROVE  RunIsPlaced(run') /\ \A k \in Keys : OfThePast(k, run) => OfThePast(k, run')
  <2>1. run'.over = run.over /\ run'.phase = p /\ run'.epoch = run.epoch /\ run'.attempts = run.attempts
    BY <1>1, <1>4 DEF Runs
  <2> QED BY <1>1, <1>4, <2>1 DEF RunIsPlaced, OfThePast
<1>5. CASE BeginEpoch
  <2>1. /\ run'.epoch = run.epoch + 1 /\ run'.phase = "booting" /\ run'.over = run.over
        /\ run.epoch \in Nat /\ ~run.over
    BY <1>1, <1>5 DEF BeginEpoch, Runs, RunIsPlaced
  <2> QED BY <1>2, <2>1 DEF RunIsPlaced, OfThePast
<1>6. CASE KernelStarts \/ CellResumes
  <2>1. /\ run'.epoch = run.epoch /\ run'.phase = "running" /\ run'.over = run.over
        /\ run'.attempts = run.attempts /\ ~run.over /\ run.epoch >= 1
    BY <1>1, <1>6 DEF KernelStarts, CellResumes, Runs, RunIsPlaced
  <2> QED BY <2>1 DEF RunIsPlaced, OfThePast
<1>7. CASE CellFails
  <2>1. /\ run'.epoch = run.epoch /\ run'.phase = "paused" /\ run'.over = run.over
        /\ run'.attempts = run.attempts + 1 /\ run.attempts \in Nat /\ run.epoch \in Nat
        /\ ~run.over /\ run.epoch >= 1
    BY <1>1, <1>7 DEF CellFails, Runs, RunIsPlaced
  <2> QED BY <1>2, <2>1 DEF RunIsPlaced, OfThePast
<1>8. CASE RunEnds
  <2>1. /\ run'.epoch = run.epoch /\ run'.phase = "over" /\ run'.over = TRUE
        /\ run'.attempts = run.attempts
    BY <1>1, <1>8 DEF RunEnds, Runs
  <2> QED BY <2>1 DEF RunIsPlaced, OfThePast
<1> QED BY <1>3, <1>4, <1>5, <1>6, <1>7, <1>8, RunMoves

LEMMA PastOfCommit ==
  ASSUME Inv
  PROVE  /\ CellFails => OfThePast(Failed(run.epoch, run.attempts + 1), run')
         /\ RunEnds => OfThePast(RunEnded(run.epoch), run')
<1>1. run \in Runs BY TypesAreParts DEF Inv, OthersTypeOK
<1>2. ASSUME CellFails PROVE OfThePast(Failed(run.epoch, run.attempts + 1), run')
  <2>1. /\ run'.epoch = run.epoch /\ run'.attempts = run.attempts + 1 /\ run.attempts \in Nat
    BY <1>1, <1>2 DEF CellFails, Runs
  <2> QED BY <2>1 DEF OfThePast, Failed
<1>3. ASSUME RunEnds PROVE OfThePast(RunEnded(run.epoch), run')
  <2>1. run'.over = TRUE BY <1>1, <1>3 DEF RunEnds, Runs
  <2> QED BY <2>1 DEF OfThePast, RunEnded
<1> QED BY <1>2, <1>3

LEMMA OwedOnceKept ==
  ASSUME Inv, [Next]_vars
  PROVE  NoticesAreOwedOnce'
<1>1. /\ \A f, g \in owed : f.key = g.key => f = g
      /\ \A f \in owed : OfThePast(f.key, run) /\ f.key \in Keys
  BY OwedOnceParts, OwedIsOfAnEvent DEF Inv
<1>2. /\ RunIsPlaced(run')
      /\ \A k \in Keys : OfThePast(k, run) => OfThePast(k, run')
      /\ CellFails => OfThePast(Failed(run.epoch, run.attempts + 1), run')
      /\ RunEnds => OfThePast(RunEnded(run.epoch), run')
  BY PastStaysPast, PastOfCommit
<1>3. CASE owed' \subseteq owed
  BY <1>1, <1>2, <1>3 DEF NoticesAreOwedOnce, OfThePast, RunIsPlaced
<1>4. ASSUME NEW e, owed' = owed \cup {[seq |-> high + 1, key |-> e]},
             OfThePast(e, run'), \A f \in owed : f.key # e
      PROVE  NoticesAreOwedOnce'
  <2>1. \A f, g \in owed' : f.key = g.key => f = g BY <1>1, <1>4
  <2>2. \A f \in owed' : OfThePast(f.key, run') BY <1>1, <1>2, <1>4
  <2> QED BY <1>2, <2>1, <2>2 DEF NoticesAreOwedOnce, OfThePast, RunIsPlaced
<1>5. /\ run \in Runs /\ RunIsPlaced(run)
  BY TypesAreParts, OwedOnceParts DEF Inv, OthersTypeOK
<1>6. CASE CellFails
  <2> DEFINE e == Failed(run.epoch, run.attempts + 1)
  <2>1. owed' = IF routing.required THEN owed \cup {[seq |-> high + 1, key |-> e]} ELSE owed
    BY <1>6 DEF CellFails, Commit
  <2>2. ~OfThePast(e, run) BY <1>5 DEF OfThePast, Failed, Runs
  <2> HIDE DEF e
  <2>3. \A f \in owed : f.key # e BY <1>1, <2>2
  <2>4. OfThePast(e, run') BY <1>2, <1>6 DEF e
  <2> QED BY <1>3, <1>4, <2>1, <2>3, <2>4
<1>7. CASE RunEnds
  <2> DEFINE e == RunEnded(run.epoch)
  <2>1. owed' = IF routing.required THEN owed \cup {[seq |-> high + 1, key |-> e]} ELSE owed
    BY <1>7 DEF RunEnds, Commit
  <2>2. ~OfThePast(e, run)
    BY <1>5, <1>7 DEF OfThePast, RunEnded, Runs, RunIsPlaced, RunEnds
  <2> HIDE DEF e
  <2>3. \A f \in owed : f.key # e BY <1>1, <2>2
  <2>4. OfThePast(e, run') BY <1>2, <1>7 DEF e
  <2> QED BY <1>3, <1>4, <2>1, <2>3, <2>4
<1>8. CASE ~CellFails /\ ~RunEnds
  <2>1. owed' \subseteq owed
    BY <1>8 DEF Next, WorkerStep, ListenerStep, ChangeManifest, FinishMaintenance, Purge, Start,
         Close, Crash, BeginEpoch, KernelStarts, CellResumes, RouteEvents, RouteFails,
         RouteRejects, RouteIsCut, Remind, Claim, BatchEnds, Report, AttemptEnds,
         AttemptIsLost, BeginDrain, DrainEnds, vars, history
  <2> QED BY <1>3, <2>1
<1> QED BY <1>6, <1>7, <1>8

\* While the drain lasts, the run, the destinations and what is owed are fixed.
LEMMA DrainsAreQuiet ==
  ASSUME Inv, [Next]_vars, drain.state # "no"
  PROVE  \/ drain' = NoDrain
         \/ /\ DrainEnds \/ UNCHANGED drain
            /\ UNCHANGED <<run, config, owed>> /\ proc'.up
<1>1. proc.up /\ run.phase = "over" /\ proc \in Processes
  BY TypesAreParts DEF Inv, DrainIsOfTheEnd, OthersTypeOK
<1>2. CASE Close \/ Crash \/ RouteIsCut
  BY <1>2 DEF Close, Crash, RouteIsCut, Dies
<1>3. CASE ListenerStep
  BY <1>1, <1>3 DEF ListenerStep, RouteEvents, RouteFails, RouteRejects, Advance, history, Processes
<1>4. CASE Remind \/ Claim \/ DrainEnds \/ UNCHANGED vars
  BY <1>1, <1>4 DEF Remind, Claim, DrainEnds, vars, history, Processes
<1>5. CASE BatchEnds \/ Report
  BY <1>1, <1>5 DEF BatchEnds, Report, RecoverAndReport, FanOut, history, Processes
<1>6. ASSUME NEW k \in Keys, NEW d \in Destinations, AttemptEnds(k, d) \/ AttemptIsLost(k, d)
      PROVE  UNCHANGED <<drain, run, config, owed>> /\ proc'.up
  BY <1>1, <1>6 DEF AttemptEnds, AttemptIsLost, history
<1> QED BY <1>1, <1>2, <1>3, <1>4, <1>5, <1>6
        DEF Next, WorkerStep, ChangeManifest, FinishMaintenance, Start, BeginEpoch, KernelStarts,
            CellFails, CellResumes, RunEnds, BeginDrain, Inv, DrainIsOfTheEnd

LEMMA DrainKept ==
  ASSUME Inv, [Next]_vars
  PROVE  DrainIsOfTheEnd' /\ DrainedIsSettled'
<1>1. /\ high \in Nat /\ owed \subseteq [seq: 1 .. high, key: Keys]
      /\ routing.cursor \in 0 .. high /\ drain \in Drains
  BY BoundedTypes, TypesAreParts DEF Inv, OthersTypeOK
<1>2. CASE drain'.state = "no"
  BY <1>2 DEF DrainIsOfTheEnd, DrainedIsSettled
<1>3. CASE BeginDrain /\ drain'.state # "no"
  <2>1. /\ proc.up /\ run.phase = "over" /\ UNCHANGED <<run, proc, owed>>
        /\ drain'.state = "waiting" /\ drain'.target = high
    BY <1>3 DEF BeginDrain, history
  <2> QED BY <1>1, <2>1 DEF DrainIsOfTheEnd, DrainedIsSettled
<1>4. CASE drain.state # "no" /\ drain'.state # "no"
  <2>1. /\ DrainEnds \/ UNCHANGED drain
        /\ UNCHANGED <<run, config, owed>> /\ proc'.up
    BY <1>4, DrainsAreQuiet DEF NoDrain
  <2>2. drain'.target = drain.target BY <1>1, <2>1 DEF DrainEnds, Drains
  <2>3. /\ proc.up /\ run.phase = "over" /\ \A f \in owed : f.seq <= drain.target
    BY <1>4 DEF Inv, DrainIsOfTheEnd
  <2>4. DrainIsOfTheEnd' BY <2>1, <2>2, <2>3 DEF DrainIsOfTheEnd
  <2>5. CASE DrainEnds
    <3>1. ASSUME drain'.state = "complete", On', NEW f \in owed'
          PROVE  Settled(f.key) \/ f.seq \in dropped
      <4>1. DrainIsDone /\ f \in owed /\ On
        BY <1>1, <2>1, <2>5, <3>1 DEF DrainEnds, Drains, On
      <4>2. routing.cursor >= drain.target /\ OutboxIsDone BY <4>1 DEF DrainIsDone
      <4>3. f.key \in Keys /\ f.seq \in 1 .. high /\ f.seq <= drain.target /\ drain.target \in Nat
        BY <1>1, <2>3, <4>1 DEF Drains
      <4>4. ~(f.seq > routing.cursor) BY <1>1, <4>2, <4>3
      <4>5. outbox[f.key].status # "none" \/ f.seq \in dropped
        BY <4>1, <4>4 DEF Inv, NothingOwedIsLost
      <4>6. outbox[f.key].status \notin {"pending", "partial"} /\ outbox[f.key] \in Intent
        BY <4>2, <4>3 DEF OutboxIsDone, Inv, OutboxIsSound
      <4> QED BY <4>5, <4>6 DEF Intent, Settled, Done
    <3>2. UNCHANGED <<outbox, dropped>> BY <2>5 DEF DrainEnds, history
    <3>3. DrainedIsSettled'
      BY <3>1, <3>2 DEF DrainedIsSettled, OwedIsSettledOrDropped, Settled
    <3> QED BY <2>4, <3>3
  <2>6. CASE UNCHANGED drain
    <3>1. ASSUME drain'.state = "complete", On', NEW f \in owed'
          PROVE  outbox'[f.key].status \in Done \/ f.seq \in dropped'
      <4>1. f \in owed /\ (Settled(f.key) \/ f.seq \in dropped)
        BY <2>1, <2>6, <3>1 DEF Inv, DrainedIsSettled, OwedIsSettledOrDropped, On
      <4>2. ~PurgeStep /\ ~Purged BY <2>1, <4>1 DEF PurgeStep, Purged
      <4>3. Moved /\ dropped \subseteq dropped'
        BY <4>2, OutboxMoves, RoutingMoves DEF RoutingStep
      <4>4. f.key \in Keys \ {Reminder} BY <4>1, OwedIsOfAnEvent
      <4> QED BY <2>3, <4>1, <4>3, <4>4 DEF Moved, Progresses, Settled, OpenStatus, Done
    <3>2. DrainedIsSettled'
      BY <3>1 DEF DrainedIsSettled, OwedIsSettledOrDropped, Settled
    <3> QED BY <2>4, <3>2
  <2> QED BY <2>1, <2>5, <2>6
<1>6. UNCHANGED drain \/ drain' = NoDrain \/ BeginDrain \/ DrainEnds
  BY DEF Next, WorkerStep, ListenerStep, ChangeManifest, FinishMaintenance, Start, Close, Crash, Dies,
         BeginEpoch, KernelStarts, CellFails, CellResumes, RunEnds,
         RouteEvents, RouteFails, RouteRejects, RouteIsCut, Remind, Claim, BatchEnds,
         Report, AttemptEnds, AttemptIsLost, vars
<1>5. drain.state = "no" /\ drain'.state # "no" => BeginDrain
  BY <1>6 DEF NoDrain, DrainEnds
<1> QED BY <1>2, <1>3, <1>4, <1>5

-----------------------------------------------------------------------------
(* Theorems. *)

LEMMA InvHolds == Init => Inv
<1> SUFFICES ASSUME Init PROVE Inv
  OBVIOUS
<1> DEFINE c == CHOOSE c \in Credentials : TRUE
<1>1. c \in Credentials BY OffIsNotACredential DEF OffIsNotACredential
<1>2. config = [manifest |-> c, stored |-> c] BY DEF Init
<1> HIDE DEF c
<1>3. config \in Configs BY <1>1, <1>2 DEF Configs
<1>4. /\ 0 \in 0 .. MaxEpochs /\ 0 \in 0 .. MaxFailures /\ 0 \in 0 .. MaxNotices
      /\ 0 \in 0 .. MaxChanges /\ 0 \in 0 .. MaxFaults /\ 0 \in 0 .. QueueSize
      /\ 0 \in 0 .. MaxRouting - 1
  BY BoundsAreNatural, LimitsArePositive DEF BoundsAreNatural, LimitsArePositive
<1>5. run \in Runs BY <1>4 DEF Init, Runs
<1>6. proc \in Processes BY <1>4 DEF Init, Down, Processes
<1>7. inflight \in Inflights BY DEF Init, Inflights
<1>8. drain \in Drains BY DEF Init, NoDrain, Drains
<1>9. used \in Counters BY <1>4 DEF Init, Counters
<1>10. routing \in Routings(0) BY <1>4 DEF Init, NoRetry, Routings
<1>11. /\ high = 0 /\ owed = {} /\ dropped = {} /\ DOMAIN journal = {}
  BY DEF Init
<1>12. RestTypeOK
  BY <1>3, <1>5, <1>6, <1>7, <1>8, <1>9, <1>10, <1>11, TypesAreParts
     DEF OthersTypeOK, BoundedTypeOK
<1>13. OutboxIsSound
  <2>1. outbox = [k \in Keys |-> Absent] BY DEF Init
  <2>2. Sound(Absent, config.stored) BY AbsentIsSound
  <2> QED BY <2>1, <2>2 DEF OutboxIsSound, Sound
<1>14. TasksAreConfigured /\ BatchesAreMarked
  BY DEF Init, Down, TasksAreConfigured, BatchesAreMarked
<1>15. JournalIsKept /\ NothingOwedIsLost BY <1>11 DEF JournalIsKept, NothingOwedIsLost
<1>16. NoticesAreOwedOnce
  BY <1>11 DEF Init, NoticesAreOwedOnce
<1>17. DrainIsOfTheEnd /\ DrainedIsSettled
  BY DEF Init, NoDrain, DrainIsOfTheEnd, DrainedIsSettled
<1> QED BY <1>12, <1>13, <1>14, <1>15, <1>16, <1>17 DEF Inv

LEMMA OutboxKept ==
  ASSUME Inv, [Next]_vars
  PROVE  OutboxIsSound'
<1>1. CASE Moved BY <1>1 DEF Moved, OutboxIsSound
<1>2. CASE Purged
  <2>1. Sound(Absent, config'.stored) BY AbsentIsSound
  <2> QED BY <1>2, <2>1 DEF Purged, OutboxIsSound, Sound
<1> QED BY <1>1, <1>2, OutboxMoves

LEMMA InvIsKept ==
  ASSUME Inv, [Next]_vars
  PROVE  Inv'
<1>1. OthersTypeOK' BY OthersAreTyped
<1>2. BoundedTypeOK' /\ JournalIsKept' /\ NothingOwedIsLost' BY OwedIsKept
<1>3. /\ high' \in Nat /\ DOMAIN journal' \subseteq 1 .. high'
      /\ \A s \in DOMAIN journal' : journal'[s] \in Events
  BY JournalMoves DEF JournalStep, Inv, RestTypeOK
<1>4. RestTypeOK'
  BY <1>1, <1>2, <1>3
     DEF OthersTypeOK, BoundedTypeOK, RestTypeOK, Runs, Routings, Configs, Processes,
         Inflights, Drains, Counters
<1>5. OutboxIsSound' BY OutboxKept
<1>6. TasksAreConfigured' /\ BatchesAreMarked' BY OutboxMoves
<1>7. NoticesAreOwedOnce' BY OwedOnceKept
<1>8. DrainIsOfTheEnd' /\ DrainedIsSettled' BY DrainKept
<1> QED BY <1>2, <1>4, <1>5, <1>6, <1>7, <1>8 DEF Inv

LEMMA InvIsInvariant == Spec => []Inv
<1>1. Init => Inv BY InvHolds
<1>2. Inv /\ [Next]_vars => Inv' BY InvIsKept
<1> QED BY <1>1, <1>2, PTL DEF Spec

\* The rows, the journal and the tasks have their types, whatever the instance.
THEOREM TypeCorrect == Spec => []TypeOK
<1>1. Inv => TypeOK BY DEF Inv, RestTypeOK, OutboxIsSound, TypeOK
<1> QED BY <1>1, InvIsInvariant, PTL

\* No event that was to be notified of is lost by a prune, a crash between the
\* commits of a route, a retry or a rotation.
THEOREM NoNoticeIsLost == Spec => []NothingOwedIsLost
<1>1. Inv => NothingOwedIsLost BY DEF Inv
<1> QED BY <1>1, InvIsInvariant, PTL

\* An intent's status is what its deliveries add up to; what is marked as being
\* sent is in flight, under the credentials that are configured.
THEOREM RowsAlwaysAgree == Spec => []RowsAgree
<1>1. Inv => IntentAgrees BY DEF Inv, OutboxIsSound, Sound, IntentAgrees
<1>2. Inv => SendingIsInFlight
  <2> SUFFICES ASSUME Inv, proc.worker # "none", NEW k \in Keys, NEW d \in Destinations
               PROVE  /\ outbox[k].sends[d].status = "sending" <=> inflight[k][d] # "none"
                      /\ outbox[k].sends[d].status # "none"
                           => outbox[k].sends[d].cred = config.manifest
    BY DEF SendingIsInFlight
  <2>1. config.stored = config.manifest BY DEF Inv, TasksAreConfigured
  <2>2. outbox[k].sends[d].status # "none" => outbox[k].sends[d].cred = config.manifest
    BY <2>1 DEF Inv, OutboxIsSound, Sound
  <2> QED BY <2>2 DEF Inv, BatchesAreMarked
<1> QED BY <1>1, <1>2, InvIsInvariant, PTL DEF RowsAgree

\* When the drain before cleanup reports completion, every notice of the run is
\* settled or was given up on record.
THEOREM DrainsSettle == Spec => []DrainedIsSettled
<1>1. Inv => DrainedIsSettled BY DEF Inv
<1> QED BY <1>1, InvIsInvariant, PTL

-----------------------------------------------------------------------------
(* The module implements Notices. *)

Named == Keys \ {Reminder}
IsOwed(k) == \E f \in owed : f.key = k
IsDropped(k) == \E f \in owed : f.key = k /\ f.seq \in dropped

\* StageOf by cases: they exclude each other, for a notice is owed once.
Staged ==
  \A k \in Named :
    /\ outbox[k].status = "succeeded" => StageOf(k) = "delivered"
    /\ outbox[k].status = "failed" => StageOf(k) = "failed"
    /\ outbox[k].status \in OpenStatus => StageOf(k) = "open"
    /\ outbox[k].status = "none" =>
         StageOf(k) = IF IsDropped(k) THEN "dropped" ELSE IF IsOwed(k) THEN "owed" ELSE "none"

LEMMA InvIsStaged == Inv => Staged
<1> SUFFICES ASSUME Inv, NEW k \in Named
             PROVE  /\ outbox[k].status = "succeeded" => StageOf(k) = "delivered"
                    /\ outbox[k].status = "failed" => StageOf(k) = "failed"
                    /\ outbox[k].status \in OpenStatus => StageOf(k) = "open"
                    /\ outbox[k].status = "none" =>
                         StageOf(k) = IF IsDropped(k) THEN "dropped"
                                      ELSE IF IsOwed(k) THEN "owed" ELSE "none"
  BY DEF Staged
<1> DEFINE P == \E f \in owed : f.key = k /\ f.seq \in dropped
           Q == \E f \in owed : f.key = k /\ f.seq \notin dropped
           s == outbox[k].status
<1>1. ~(P /\ Q) BY DEF Inv, NoticesAreOwedOnce
<1>2. IsDropped(k) <=> P BY DEF IsDropped
<1>3. IsOwed(k) <=> P \/ Q BY DEF IsOwed
<1>4. StageOf(k) = CASE s = "succeeded" -> "delivered"
                     [] s = "failed" -> "failed"
                     [] s \in {"pending", "partial"} -> "open"
                     [] s = "none" /\ P -> "dropped"
                     [] s = "none" /\ Q -> "owed"
                     [] OTHER -> "none"
  BY DEF StageOf
<1> HIDE DEF P, Q, s
<1>5. s = "succeeded" => StageOf(k) = "delivered" BY <1>4
<1>6. s = "failed" => StageOf(k) = "failed" BY <1>4
<1>7. s \in OpenStatus => StageOf(k) = "open" BY <1>4 DEF OpenStatus
<1>8. s = "none" => StageOf(k) = IF P THEN "dropped" ELSE IF Q THEN "owed" ELSE "none"
  BY <1>1, <1>4
<1> QED BY <1>2, <1>3, <1>5, <1>6, <1>7, <1>8 DEF s

\* What is owed changes as Notices has it.
LEMMA OwedMoves ==
  ASSUME Inv, Inv', RoutingStep, OwedStep, NEW k \in Named
  PROVE  /\ IsOwed(k) => IsOwed(k)' /\ (IsDropped(k) => IsDropped(k)')
         /\ ~IsOwed(k) => ~IsDropped(k)'
<1>1. owed \subseteq owed' /\ dropped \subseteq dropped' BY DEF OwedStep, RoutingStep
<1>2. IsOwed(k) => IsOwed(k)' BY <1>1 DEF IsOwed
<1>3. IsDropped(k) => IsDropped(k)' BY <1>1 DEF IsDropped
<1>4. ASSUME ~IsOwed(k) PROVE ~IsDropped(k)'
  <2>1. CASE owed' = owed BY <1>4, <2>1 DEF IsOwed, IsDropped
  <2>2. ASSUME NEW e \in Keys, owed' = owed \cup {[seq |-> high + 1, key |-> e]}, UNCHANGED dropped
        PROVE  ~IsDropped(k)'
    <3>1. high + 1 \notin dropped BY BoundedTypes
    <3> QED BY <1>4, <2>2, <3>1 DEF IsOwed, IsDropped
  <2> QED BY <2>1, <2>2 DEF OwedStep
<1> QED BY <1>2, <1>3, <1>4

LEMMA StagesMove ==
  ASSUME Inv, Inv', Staged, Staged', Moved, RoutingStep, OwedStep, NEW k \in Named
  PROVE  /\ StageOf(k)' \in Promised!Stages
         /\ StageOf(k)' = StageOf(k) \/ <<StageOf(k), StageOf(k)'>> \in Promised!Moves
<1> DEFINE s == outbox[k].status
           t == outbox'[k].status
<1>1. s \in {"none"} \cup OpenStatus \cup Done /\ t \in {"none"} \cup OpenStatus \cup Done
  BY DEF Inv, OutboxIsSound, Intent, OpenStatus, Done, Named
<1>2. /\ s = "succeeded" => StageOf(k) = "delivered"
      /\ s = "failed" => StageOf(k) = "failed"
      /\ s \in OpenStatus => StageOf(k) = "open"
      /\ s = "none" => StageOf(k) = IF IsDropped(k) THEN "dropped" ELSE IF IsOwed(k) THEN "owed" ELSE "none"
  BY DEF Staged
<1>3. /\ t = "succeeded" => StageOf(k)' = "delivered"
      /\ t = "failed" => StageOf(k)' = "failed"
      /\ t \in OpenStatus => StageOf(k)' = "open"
      /\ t = "none" => StageOf(k)' = IF IsDropped(k)' THEN "dropped" ELSE IF IsOwed(k)' THEN "owed" ELSE "none"
  BY DEF Staged
<1>4. Advances(outbox[k], outbox'[k]) BY DEF Moved, Advances, Named
<1>5. /\ IsOwed(k) => IsOwed(k)' /\ (IsDropped(k) => IsDropped(k)')
      /\ ~IsOwed(k) => ~IsDropped(k)'
  BY OwedMoves
<1>6. \/ t = s
      \/ s \in OpenStatus /\ t \in OpenStatus \cup Done
      \/ s \in {"none", "failed"} /\ t \in OpenStatus
  BY <1>4 DEF Advances, Progresses
<1>7. IsDropped(k) => IsOwed(k) BY DEF IsDropped, IsOwed
<1> HIDE DEF s, t
<1>8. StageOf(k)' \in Promised!Stages
  BY <1>1, <1>3 DEF Promised!Stages, OpenStatus, Done
<1>9. CASE t = s
  <2>1. CASE s # "none" BY <1>1, <1>2, <1>3, <1>8, <1>9, <2>1 DEF OpenStatus, Done
  <2>2. CASE s = "none"
    BY <1>2, <1>3, <1>5, <1>7, <1>8, <1>9, <2>2 DEF Promised!Moves
  <2> QED BY <1>8, <2>1, <2>2
<1>10. CASE s \in OpenStatus /\ t \in OpenStatus \cup Done
  BY <1>2, <1>3, <1>8, <1>10 DEF Promised!Moves, OpenStatus, Done
<1>11. CASE s \in {"none", "failed"} /\ t \in OpenStatus
  BY <1>2, <1>3, <1>8, <1>11 DEF Promised!Moves
<1> QED BY <1>6, <1>9, <1>10, <1>11

LEMMA StepIsPromised ==
  ASSUME Inv, Inv', Staged, Staged', [Next]_vars
  PROVE  [Promised!Next]_([k \in Named |-> StageOf(k)])
<1> DEFINE stage == [k \in Named |-> StageOf(k)]
<1>1. CASE Purged
  <2>1. \A k \in Named : outbox'[k].status = "none" BY <1>1 DEF Purged, Absent, Named
  <2>2. \A k \in Named : ~IsOwed(k)' /\ ~IsDropped(k)' BY <1>1 DEF Purged, IsOwed, IsDropped
  <2>3. \A k \in Named : StageOf(k)' = "none" BY <2>1, <2>2 DEF Staged
  <2>4. Promised!Forget BY <2>3 DEF Promised!Forget, Named
  <2> QED BY <2>4 DEF Promised!Next
<1>2. CASE ~Purged
  <2>1. Moved /\ RoutingStep /\ OwedStep
    BY <1>2, OutboxMoves, RoutingMoves DEF PurgeStep
  <2>2. \A k \in Named :
          /\ StageOf(k)' \in Promised!Stages
          /\ StageOf(k)' = StageOf(k) \/ <<StageOf(k), StageOf(k)'>> \in Promised!Moves
    BY <2>1, StagesMove
  <2>3. Promised!Move BY <2>2 DEF Promised!Move, Named
  <2> QED BY <2>3 DEF Promised!Next
<1> QED BY <1>1, <1>2

LEMMA StartIsPromised == Init => Promised!Init
<1> SUFFICES ASSUME Init PROVE Promised!Init
  OBVIOUS
<1>1. Staged BY InvHolds, InvIsStaged
<1>2. \A k \in Named : outbox[k].status = "none" /\ ~IsOwed(k) /\ ~IsDropped(k)
  BY DEF Init, Absent, Named, IsOwed, IsDropped
<1>3. \A k \in Named : StageOf(k) = "none" BY <1>1, <1>2 DEF Staged
<1> QED BY <1>3 DEF Promised!Init, Named

\* The journal, the router, the outbox and the worker together keep the promise:
\* a notice goes through its stages, and none is lost or taken back.
THEOREM PromiseIsKept == Spec => ImplementsNotices
<1>1. Spec => []Inv BY InvIsInvariant
<1>2. Inv => Staged BY InvIsStaged
<1>3. Inv /\ Inv' /\ Staged /\ Staged' /\ [Next]_vars
        => [Promised!Next]_([k \in Named |-> StageOf(k)])
  BY StepIsPromised
<1>4. Init => Promised!Init BY StartIsPromised
<1>5. Inv /\ Inv' /\ Staged /\ Staged' /\ [Next]_vars
        => [Promised!Next]_([k \in Keys \ {Reminder} |-> StageOf(k)])
  BY <1>3 DEF Named
<1> QED BY <1>1, <1>2, <1>4, <1>5, PTL DEF Spec, ImplementsNotices, Promised!Spec

=============================================================================
