------------------------------- MODULE Intake -------------------------------
(***************************************************************************)
(* The write path of svc-notifier: the NATS intake of src/intake.rs with   *)
(* the process that hosts it (src/main.rs), the two tables it writes       *)
(* (notifications, dead_letters) and the recipient's hard delete, which    *)
(* removes the very row the deduplication rests on.                        *)
(*                                                                         *)
(* A command is an abstract value.  What the code can tell apart about it  *)
(* is given by constants: its source event, its recipients, and the faults *)
(* that validation or PostgreSQL will find in it.  A frame is one message  *)
(* on the stream; two frames may carry the same command (a publisher that  *)
(* retried), and a frame whose envelope cannot be read carries none.       *)
(*                                                                         *)
(* The broker (JetStream behind br-util-nats-fabric) is modelled from how  *)
(* the intake uses it: at-least-once delivery to any replica, NAK, TERM,   *)
(* an acknowledgement deadline, and a retention that may evict a frame.    *)
(***************************************************************************)
EXTENDS Naturals, FiniteSets

CONSTANTS
    Commands,      \* command_id of every deliver command
    Frames,        \* messages a publisher may put on the stream
    Replicas,      \* service processes sharing the durable consumer
    Sources,       \* source_event_id
    Recipients,    \* recipient_id
    Unreadable,    \* the command of a frame whose envelope does not decode
    NoRow,         \* no notification row under a key
    NoFrame,       \* no delivery in the loop's hands
    CommandOf,     \* the command a frame carries
    SourceOf,      \* the source event a command announces
    RecipientsOf,  \* the recipients a command names
    FaultsOf,      \* what validation and storage will find wrong with it
    Evictable,     \* frames the stream's retention may discard
    MaxRecvErrors, \* MAX_CONSECUTIVE_RECV_ERRORS (10 in the code)
    MaxFaults,     \* bound: faults injected in one behaviour
    MaxDeletes     \* bound: hard deletes of the row under one key

FaultKinds == {"shape", "link", "template", "storage"}

ASSUME SentinelsAssumption ==
    /\ Unreadable \notin Commands
    /\ NoRow \notin Commands
    /\ NoFrame \notin Frames

ASSUME CommandsAssumption ==
    /\ CommandOf \in [Frames -> Commands \cup {Unreadable}]
    /\ SourceOf \in [Commands -> Sources]
    /\ RecipientsOf \in [Commands -> SUBSET Recipients]
    /\ FaultsOf \in [Commands -> SUBSET FaultKinds]
    /\ Evictable \subseteq Frames

ASSUME BoundsAssumption ==
    /\ MaxRecvErrors \in Nat \ {0}
    /\ MaxFaults \in Nat
    /\ MaxDeletes \in Nat

VARIABLES
    \* the stream and its durable consumer
    frame,       \* delivery state of each frame
    \* PostgreSQL
    rows,        \* the command that wrote the row under a key, or NoRow
    added,       \* history: how many rows were ever inserted under a key
    ledger,      \* the reason recorded in dead_letters, or "none"
    aged,        \* commands whose ledger line is past its retention
    recorded,    \* history: how many ledger lines a command ever got
    \* the process of each replica
    main,        \* how far fn main has come
    ready,       \* what the readiness handle answers
    shutdown,    \* the value in the shutdown watch channel
    \* the intake task of each replica
    loop,        \* where fn consume stands
    held,        \* the delivery it is handling
    writing,     \* keys its open transaction has inserted
    verdict,     \* the Verdict of the delivery being settled
    errors,      \* consecutive_errors
    streak,      \* transient_streak, the value of the gauge
    \* the environment
    faults       \* faults injected so far

database == <<rows, added, ledger, aged, recorded>>
process  == <<main, ready, shutdown>>
task     == <<loop, held, writing, verdict, errors, streak>>
vars     == <<frame, database, process, task, faults>>

-----------------------------------------------------------------------------
(* Commands, as the intake judges them. *)

\* UNIQUE (source_event_id, recipient_id): the deduplication key of a row.
Keys == Sources \X Recipients

KeysOf(c) == {SourceOf[c]} \X RecipientsOf[c]

\* fn validate: the first fault in its order of checks names the refusal.
Rejection(c) ==
    IF      "shape"    \in FaultsOf[c] THEN "payload_shape_rejected"
    ELSE IF "link"     \in FaultsOf[c] THEN "relative_link_rejected"
    ELSE IF RecipientsOf[c] = {}       THEN "no_recipients"
    ELSE IF "template" \in FaultsOf[c] THEN "template_rejected"
    ELSE "none"

Valid(c) == Rejection(c) = "none"

\* fn classify_sqlstate: PostgreSQL refuses the write with class 22 or 23.
Storable(c) == "storage" \notin FaultsOf[c]

Deliverable(c) == Valid(c) /\ Storable(c)

\* DeadLetterReason of an abandoned command.
Reason(c) == IF Valid(c) THEN "storage_rejected" ELSE Rejection(c)

Reasons == {"payload_shape_rejected", "relative_link_rejected",
            "no_recipients", "template_rejected", "storage_rejected"}

Readable(f) == CommandOf[f] # Unreadable

FramesOf(c) == {f \in Frames : CommandOf[f] = c}

\* Mutants of OutcomeFor: a transient failure acknowledged; a transient
\* failure terminated; an unreadable frame terminated as poison.
OutcomeForAcksTransient(v) ==
    IF v \in {"written", "transient"} THEN "acked"
    ELSE IF v = "poison" THEN "termed" ELSE "naked"

OutcomeForTermsTransient(v) ==
    IF v = "written" THEN "acked"
    ELSE IF v \in {"poison", "transient"} THEN "termed" ELSE "naked"

OutcomeForTermsUnreadable(v) ==
    IF v = "written" THEN "acked"
    ELSE IF v \in {"poison", "not_attempted"} THEN "termed" ELSE "naked"

\* fn outcome_for and fn outcome_for_undecodable_envelope: the state a
\* settled frame takes.  Only a verdict that is final removes the frame.
OutcomeFor(v) ==
    CASE v = "written" -> "acked"
      [] v = "poison"  -> "termed"
      [] OTHER         -> "naked"

\* Mutant of StreakAfter: a transient failure counts down.
StreakAfterCountsDown(v, n) ==
    IF v = "not_attempted" THEN n ELSE IF v = "transient" THEN n - 1 ELSE 0

\* fn transient_streak_after.
StreakAfter(v, n) ==
    CASE v = "not_attempted" -> n
      [] v = "transient"     -> n + 1
      [] OTHER               -> 0

Live == {"available", "outstanding", "naked"}
Gone == {"acked", "termed", "evicted"}

Verdicts == {"none", "written", "poison", "transient", "not_attempted"}

LoopStates == {"down", "idle", "handling", "inserted", "abandoning",
               "settling", "dead", "stopped"}

Holding(r) == loop[r] \in {"handling", "inserted", "abandoning", "settling"}

TypeOK ==
    /\ frame \in [Frames -> Live \cup Gone \cup {"unpublished"}]
    /\ rows \in [Keys -> Commands \cup {NoRow}]
    /\ added \in [Keys -> Nat]
    /\ ledger \in [Commands -> Reasons \cup {"none"}]
    /\ aged \in SUBSET Commands
    /\ recorded \in [Commands -> Nat]
    /\ main \in [Replicas -> {"down", "booting", "serving", "returning"}]
    /\ ready \in [Replicas -> BOOLEAN]
    /\ shutdown \in [Replicas -> BOOLEAN]
    /\ loop \in [Replicas -> LoopStates]
    /\ held \in [Replicas -> Frames \cup {NoFrame}]
    /\ writing \in [Replicas -> SUBSET Keys]
    /\ verdict \in [Replicas -> Verdicts]
    /\ errors \in [Replicas -> Nat]
    /\ streak \in [Replicas -> Nat]
    /\ faults \in Nat

Init ==
    /\ frame = [f \in Frames |-> "unpublished"]
    /\ rows = [k \in Keys |-> NoRow]
    /\ added = [k \in Keys |-> 0]
    /\ ledger = [c \in Commands |-> "none"]
    /\ aged = {}
    /\ recorded = [c \in Commands |-> 0]
    /\ main = [r \in Replicas |-> "down"]
    /\ ready = [r \in Replicas |-> FALSE]
    /\ shutdown = [r \in Replicas |-> FALSE]
    /\ loop = [r \in Replicas |-> "down"]
    /\ held = [r \in Replicas |-> NoFrame]
    /\ writing = [r \in Replicas |-> {}]
    /\ verdict = [r \in Replicas |-> "none"]
    /\ errors = [r \in Replicas |-> 0]
    /\ streak = [r \in Replicas |-> 0]
    /\ faults = 0

\* Every failure the environment injects spends the budget MaxFaults.
Fault == faults < MaxFaults /\ faults' = faults + 1

-----------------------------------------------------------------------------
(* The stream. *)

Publish(f) ==
    /\ frame[f] = "unpublished"
    /\ frame' = [frame EXCEPT ![f] = "available"]
    /\ UNCHANGED <<database, process, task, faults>>

\* ack_wait passes without a settlement: the frame is offered again, even if
\* the first delivery is still being handled somewhere.
AckWaitExpires(f) ==
    /\ frame[f] = "outstanding"
    /\ frame' = [frame EXCEPT ![f] = "available"]
    /\ UNCHANGED <<database, process, task, faults>>

\* The stream's maxAge or maxBytes discards a frame nobody has settled.
Evict(f) ==
    /\ f \in Evictable
    /\ frame[f] \in Live
    /\ frame' = [frame EXCEPT ![f] = "evicted"]
    /\ UNCHANGED <<database, process, task, faults>>

-----------------------------------------------------------------------------
(* The process: fn main, fn supervise, fn fail_loud. *)

\* The consumer is bound, the intake and its retention task are spawned.
Boot(r) ==
    /\ main[r] = "down"
    /\ main' = [main EXCEPT ![r] = "booting"]
    /\ loop' = [loop EXCEPT ![r] = "idle"]
    /\ UNCHANGED <<frame, database, ready, shutdown, held, writing, verdict,
                   errors, streak, faults>>

\* readiness.set_ready() once the port is bound, whatever happened since.
SetReady(r) ==
    /\ main[r] = "booting"
    /\ main' = [main EXCEPT ![r] = "serving"]
    /\ ready' = [ready EXCEPT ![r] = TRUE]
    /\ UNCHANGED <<frame, database, shutdown, task, faults>>

\* fn fail_loud, and the ending of fn supervise.
FailLoud(r) ==
    /\ ready' = [ready EXCEPT ![r] = FALSE]
    /\ shutdown' = [shutdown EXCEPT ![r] = TRUE]

\* The realtime listener panics; its supervisor takes the process down.
ListenerDies(r) ==
    /\ Fault
    /\ main[r] \in {"booting", "serving"}
    /\ FailLoud(r)
    /\ UNCHANGED <<frame, database, main, task>>

\* The server stops on the shutdown channel and then raises it for the rest.
StopServing(r) ==
    /\ main[r] = "serving"
    /\ shutdown[r]
    /\ main' = [main EXCEPT ![r] = "returning"]
    /\ UNCHANGED <<frame, database, ready, shutdown, task, faults>>

\* SIGTERM or ctrl-c: the server drains first, the tasks hear of it after.
Terminate(r) ==
    /\ Fault
    /\ main[r] = "serving"
    /\ main' = [main EXCEPT ![r] = "returning"]
    /\ shutdown' = [shutdown EXCEPT ![r] = TRUE]
    /\ UNCHANGED <<frame, database, ready, task>>

\* What is left of a replica whose process is gone: open transactions roll
\* back, a delivery in hand stays unsettled, the gauge starts over.
ProcessGone(r) ==
    /\ main' = [main EXCEPT ![r] = "down"]
    /\ ready' = [ready EXCEPT ![r] = FALSE]
    /\ shutdown' = [shutdown EXCEPT ![r] = FALSE]
    /\ loop' = [loop EXCEPT ![r] = "down"]
    /\ held' = [held EXCEPT ![r] = NoFrame]
    /\ writing' = [writing EXCEPT ![r] = {}]
    /\ verdict' = [verdict EXCEPT ![r] = "none"]
    /\ errors' = [errors EXCEPT ![r] = 0]
    /\ streak' = [streak EXCEPT ![r] = 0]

\* main returns: the runtime drops the intake at whatever await it stands.
Exit(r) ==
    /\ main[r] = "returning"
    /\ ProcessGone(r)
    /\ UNCHANGED <<frame, database, faults>>

Crash(r) ==
    /\ Fault
    /\ main[r] # "down"
    /\ ProcessGone(r)
    /\ UNCHANGED <<frame, database>>

\* The intake task panics with whatever it was handling.
IntakePanics(r) ==
    /\ Fault
    /\ Holding(r)
    /\ loop' = [loop EXCEPT ![r] = "dead"]
    /\ held' = [held EXCEPT ![r] = NoFrame]
    /\ writing' = [writing EXCEPT ![r] = {}]
    /\ verdict' = [verdict EXCEPT ![r] = "none"]
    /\ UNCHANGED <<frame, database, process, errors, streak>>

\* fn supervise learns of the panic from the join handle.
SuperviseIntake(r) ==
    /\ loop[r] = "dead"
    /\ loop' = [loop EXCEPT ![r] = "stopped"]
    /\ FailLoud(r)
    /\ UNCHANGED <<frame, database, main, held, writing, verdict, errors,
                   streak, faults>>

-----------------------------------------------------------------------------
(* fn consume: the select, biased towards the shutdown channel. *)

StopOnShutdown(r) ==
    /\ loop[r] = "idle"
    /\ shutdown[r]
    /\ loop' = [loop EXCEPT ![r] = "stopped"]
    /\ UNCHANGED <<frame, database, process, held, writing, verdict, errors,
                   streak, faults>>

Receive(r, f) ==
    /\ loop[r] = "idle"
    /\ ~shutdown[r]
    /\ frame[f] \in {"available", "naked"}
    /\ frame' = [frame EXCEPT ![f] = "outstanding"]
    /\ loop' = [loop EXCEPT ![r] = "handling"]
    /\ held' = [held EXCEPT ![r] = f]
    /\ errors' = [errors EXCEPT ![r] = 0]
    /\ UNCHANGED <<database, process, writing, verdict, streak, faults>>

RecvError(r) ==
    /\ Fault
    /\ loop[r] = "idle"
    /\ ~shutdown[r]
    /\ errors' = [errors EXCEPT ![r] = @ + 1]
    /\ IF errors[r] + 1 < MaxRecvErrors
         THEN UNCHANGED <<loop, ready, shutdown>>
         ELSE /\ loop' = [loop EXCEPT ![r] = "stopped"]
              /\ FailLoud(r)
    /\ UNCHANGED <<frame, database, main, held, writing, verdict, streak>>

\* recv answers None: the stream or the durable consumer is gone.
StreamClosed(r) ==
    /\ Fault
    /\ loop[r] = "idle"
    /\ ~shutdown[r]
    /\ loop' = [loop EXCEPT ![r] = "stopped"]
    /\ FailLoud(r)
    /\ UNCHANGED <<frame, database, main, held, writing, verdict, errors,
                   streak>>

-----------------------------------------------------------------------------
(* fn handle: validation, the fan-out transaction, the ledger. *)

Decide(r, v) ==
    /\ loop' = [loop EXCEPT ![r] = "settling"]
    /\ verdict' = [verdict EXCEPT ![r] = v]

HoldUnreadable(r) ==
    /\ loop[r] = "handling"
    /\ ~Readable(held[r])
    /\ Decide(r, "not_attempted")
    /\ UNCHANGED <<frame, database, process, held, writing, errors, streak,
                   faults>>

\* validate refuses the payload: fn abandon takes over.
RefusePayload(r) ==
    /\ loop[r] = "handling"
    /\ Readable(held[r])
    /\ ~Valid(CommandOf[held[r]])
    /\ loop' = [loop EXCEPT ![r] = "abandoning"]
    /\ UNCHANGED <<frame, database, process, held, writing, verdict, errors,
                   streak, faults>>

\* The INSERT comes back with SQLSTATE class 22 or 23: its transaction is
\* dropped and fn triage hands the command to fn abandon.
StorageRejects(r) ==
    /\ loop[r] = "handling"
    /\ Readable(held[r])
    /\ Valid(CommandOf[held[r]])
    /\ ~Storable(CommandOf[held[r]])
    /\ loop' = [loop EXCEPT ![r] = "abandoning"]
    /\ UNCHANGED <<frame, database, process, held, writing, verdict, errors,
                   streak, faults>>

\* INSERT ... ON CONFLICT DO NOTHING: the keys with no row yet are written in
\* the open transaction.  A key another transaction has inserted and not yet
\* committed makes the statement wait.
AbsentOrNot(c) == KeysOf(c) \* mutant of Absent: ON CONFLICT DO UPDATE

Absent(c) == {k \in KeysOf(c) : rows[k] = NoRow}

Insert(r) ==
    LET c == CommandOf[held[r]] IN
    /\ loop[r] = "handling"
    /\ Readable(held[r])
    /\ Deliverable(c)
    /\ \A s \in Replicas : writing[s] \cap KeysOf(c) = {}
    /\ loop' = [loop EXCEPT ![r] = "inserted"]
    /\ writing' = [writing EXCEPT ![r] = Absent(c)]
    /\ UNCHANGED <<frame, database, process, held, verdict, errors, streak,
                   faults>>

\* Mutant of CommitRows: a transaction per recipient, abandoned after one.
CommitOneRow(r) ==
    LET done == IF writing[r] = {} THEN {}
                ELSE {CHOOSE k \in writing[r] : TRUE} IN
    /\ rows' = [k \in Keys |-> IF k \in done THEN CommandOf[held[r]]
                                             ELSE rows[k]]
    /\ added' = [k \in Keys |-> IF k \in done THEN added[k] + 1
                                              ELSE added[k]]
    /\ writing' = [writing EXCEPT ![r] = {}]

\* The transaction commits: every row it wrote becomes visible at once.
CommitRows(r) ==
    /\ rows' = [k \in Keys |-> IF k \in writing[r] THEN CommandOf[held[r]]
                                                   ELSE rows[k]]
    /\ added' = [k \in Keys |-> IF k \in writing[r] THEN added[k] + 1
                                                    ELSE added[k]]
    /\ writing' = [writing EXCEPT ![r] = {}]

Commit(r) ==
    /\ loop[r] = "inserted"
    /\ CommitRows(r)
    /\ Decide(r, "written")
    /\ UNCHANGED <<frame, ledger, aged, recorded, process, held, errors,
                   streak, faults>>

\* The server commits and the answer is lost: fan_out sees an error.
CommitUnseen(r) ==
    /\ Fault
    /\ loop[r] = "inserted"
    /\ CommitRows(r)
    /\ Decide(r, "transient")
    /\ UNCHANGED <<frame, ledger, aged, recorded, process, held, errors,
                   streak>>

\* Mutant of StorageFails: every storage error is taken for poison.
StorageFailsAbandons(r) ==
    /\ Fault
    /\ loop[r] \in {"handling", "inserted"}
    /\ Readable(held[r])
    /\ Valid(CommandOf[held[r]])
    /\ writing' = [writing EXCEPT ![r] = {}]
    /\ loop' = [loop EXCEPT ![r] = "abandoning"]
    /\ UNCHANGED <<frame, database, process, held, verdict, errors, streak>>

\* fn classify: any other storage error (no connection, timeout, deadlock) is
\* transient.  The transaction rolls back.
StorageFails(r) ==
    /\ Fault
    /\ loop[r] \in {"handling", "inserted"}
    /\ Readable(held[r])
    /\ Valid(CommandOf[held[r]])
    /\ writing' = [writing EXCEPT ![r] = {}]
    /\ Decide(r, "transient")
    /\ UNCHANGED <<frame, database, process, held, errors, streak>>

\* Mutant of RecordDeadLetter: no conflict clause, a line per delivery.
RecordEveryDelivery(c) ==
    /\ ledger' = [ledger EXCEPT ![c] = Reason(c)]
    /\ recorded' = [recorded EXCEPT ![c] = @ + 1]

\* INSERT INTO dead_letters ... ON CONFLICT (command_id) DO NOTHING.
RecordDeadLetter(c) ==
    IF ledger[c] = "none"
      THEN /\ ledger' = [ledger EXCEPT ![c] = Reason(c)]
           /\ recorded' = [recorded EXCEPT ![c] = @ + 1]
      ELSE UNCHANGED <<ledger, recorded>>

\* Recorded now or already on the ledger: the command is poison.
Abandon(r) ==
    /\ loop[r] = "abandoning"
    /\ RecordDeadLetter(CommandOf[held[r]])
    /\ Decide(r, "poison")
    /\ UNCHANGED <<frame, rows, added, aged, process, held, writing, errors,
                   streak, faults>>

\* Mutant of LedgerFails: the command is terminated all the same.
LedgerFailsTerminates(r) ==
    /\ Fault
    /\ loop[r] = "abandoning"
    /\ Decide(r, "poison")
    /\ UNCHANGED <<frame, database, process, held, writing, errors, streak>>

\* The ledger cannot be written: the command is held instead.
LedgerFails(r) ==
    /\ Fault
    /\ loop[r] = "abandoning"
    /\ Decide(r, "transient")
    /\ UNCHANGED <<frame, database, process, held, writing, errors, streak>>

\* The ledger row is written and the answer is lost.
LedgerUnseen(r) ==
    /\ Fault
    /\ loop[r] = "abandoning"
    /\ RecordDeadLetter(CommandOf[held[r]])
    /\ Decide(r, "transient")
    /\ UNCHANGED <<frame, rows, added, aged, process, held, writing, errors,
                   streak>>

\* fn observe, and the loop turns to its next recv.
Observe(r) ==
    /\ streak' = [streak EXCEPT ![r] = StreakAfter(verdict[r], @)]
    /\ loop' = [loop EXCEPT ![r] = "idle"]
    /\ held' = [held EXCEPT ![r] = NoFrame]
    /\ verdict' = [verdict EXCEPT ![r] = "none"]

\* fn apply: ack, nak or term.  A frame already settled through another
\* delivery, or evicted, stays as it is.
Settle(r) ==
    /\ loop[r] = "settling"
    /\ frame' = [frame EXCEPT ![held[r]] =
                   IF @ \in Live THEN OutcomeFor(verdict[r]) ELSE @]
    /\ Observe(r)
    /\ UNCHANGED <<database, process, writing, errors, faults>>

\* The settlement does not reach the broker: apply logs it and goes on.
SettleLost(r) ==
    /\ Fault
    /\ loop[r] = "settling"
    /\ Observe(r)
    /\ UNCHANGED <<frame, database, process, writing, errors>>

-----------------------------------------------------------------------------
(* The other writers of the two tables. *)

\* fn delete_notifications: a recipient hard-deletes some of its own rows.
DeleteNotifications(p, ks) ==
    /\ \A k \in ks : k[2] = p /\ rows[k] # NoRow /\ added[k] <= MaxDeletes
    /\ rows' = [k \in Keys |-> IF k \in ks THEN NoRow ELSE rows[k]]
    /\ UNCHANGED <<frame, added, ledger, aged, recorded, process, task, faults>>

\* Ninety days pass over a ledger line.  The stream keeps a frame seven days,
\* so by then no frame of the command is left, nor any delivery of one.
Age(c) ==
    /\ ledger[c] # "none"
    /\ \A f \in FramesOf(c) : frame[f] \in Gone
    /\ \A r \in Replicas : held[r] \notin FramesOf(c)
    /\ aged' = aged \cup {c}
    /\ UNCHANGED <<frame, rows, added, ledger, recorded, process, task, faults>>

\* fn purge_dead_letters, one tick: delete_expired_dead_letters.  A pass that
\* fails leaves the table as it is and is retried at the next tick.
Purge(r) ==
    /\ main[r] # "down"
    /\ ~shutdown[r]
    /\ ledger' = [c \in Commands |-> IF c \in aged THEN "none" ELSE ledger[c]]
    /\ aged' = {}
    /\ UNCHANGED <<frame, rows, added, recorded, process, task, faults>>

-----------------------------------------------------------------------------
Stream == \E f \in Frames : Publish(f) \/ AckWaitExpires(f) \/ Evict(f)

Process(r) ==
    \/ Boot(r) \/ SetReady(r) \/ StopServing(r) \/ Exit(r)
    \/ SuperviseIntake(r)
    \/ ListenerDies(r) \/ Terminate(r) \/ Crash(r) \/ IntakePanics(r)

\* The steps of an intake that is not failing.
Turn(r) ==
    \/ StopOnShutdown(r)
    \/ HoldUnreadable(r) \/ RefusePayload(r) \/ StorageRejects(r)
    \/ Insert(r) \/ Commit(r) \/ Abandon(r) \/ Settle(r)

Consume(r) ==
    \/ Turn(r)
    \/ \E f \in Frames : Receive(r, f)
    \/ RecvError(r) \/ StreamClosed(r)
    \/ CommitUnseen(r) \/ StorageFails(r)
    \/ LedgerFails(r) \/ LedgerUnseen(r)
    \/ SettleLost(r)

Others ==
    \/ \E p \in Recipients :
         \E ks \in SUBSET {k \in Keys : k[2] = p /\ rows[k] # NoRow} \ {{}} :
           DeleteNotifications(p, ks)
    \/ \E c \in Commands : Age(c)
    \/ \E r \in Replicas : Purge(r)

Next ==
    \/ Stream
    \/ \E r \in Replicas : Process(r) \/ Consume(r)
    \/ Others

Spec == Init /\ [][Next]_vars

(***************************************************************************)
(* Fairness.  The runtime schedules every task that can go on, Kubernetes  *)
(* restarts the process, JetStream redelivers what nobody settled and      *)
(* serves every frame it offers in turn, and a process told to stop gets   *)
(* to the end of main.  No fault, delete or eviction is ever owed.         *)
(***************************************************************************)
Fairness ==
    /\ \A r \in Replicas :
         /\ WF_vars(Boot(r)) /\ WF_vars(SetReady(r))
         /\ WF_vars(StopServing(r)) /\ WF_vars(Exit(r))
         /\ WF_vars(SuperviseIntake(r))
         /\ WF_vars(Turn(r))
    /\ \A f \in Frames :
         /\ WF_vars(AckWaitExpires(f))
         /\ SF_vars(\E r \in Replicas : Receive(r, f))

FairSpec == Spec /\ Fairness
-----------------------------------------------------------------------------
(* What the intake promises (README.md, "Intake semantics"). *)

\* An acknowledged frame has reached every recipient its command names: no
\* transient failure, lost answer or second delivery can acknowledge early.
AckedMeansReached ==
    \A f \in Frames : frame[f] = "acked" =>
        /\ Readable(f)
        /\ Deliverable(CommandOf[f])
        /\ \A k \in KeysOf(CommandOf[f]) : added[k] >= 1

\* A frame whose envelope cannot be read is never acknowledged or terminated:
\* it is held until an operator or the stream's retention removes it.
UnreadableHeld ==
    \A f \in Frames : ~Readable(f) => frame[f] \notin {"acked", "termed"}

\* A frame is terminated only while its abandonment is on the ledger: the
\* line is committed before the TERM, and no purge comes between the two.
TermedOnlyOnLedger ==
    [][\A f \in Frames :
         (frame[f] # "termed" /\ frame'[f] = "termed")
            => ledger'[CommandOf[f]] # "none"]_vars

\* One audit line per abandoned command, however many frames carry it and
\* however often a TERM is lost; retention never lets it be written again.
OneLinePerCommand == \A c \in Commands : recorded[c] <= 1

\* No partial fan-out: once a row of a command is there, every recipient the
\* command names has had its row, whichever command wrote it.
NoPartialFanOut ==
    \A c \in Commands :
        (\E k \in KeysOf(c) : rows[k] = c)
            => \A k \in KeysOf(c) : added[k] >= 1

\* A command is delivered or abandoned, never both: nothing on the ledger has
\* reached anybody.
AbandonedReachesNobody ==
    \A c \in Commands : recorded[c] > 0 => \A k \in Keys : rows[k] # c

\* First wins: a second command for the same key, or the same one again, never
\* rewrites the row that is there.
FirstWins ==
    [][\A k \in Keys : rows[k] # NoRow => rows'[k] \in {rows[k], NoRow}]_vars

\* Every frame the stream keeps and the intake can read is settled for good in
\* the end: acknowledged if its command can be delivered, else terminated.
EventuallySettled ==
    \A f \in {g \in Frames \ Evictable : Readable(g)} :
        frame[f] = "available" ~>
            frame[f] = IF Deliverable(CommandOf[f]) THEN "acked" ELSE "termed"

(* What the documentation says and the code does not keep. *)

\* README.md:115-117: a redelivered or duplicated command never creates a
\* second row.  The deduplication key lives in the row itself, so it is gone
\* once the recipient has deleted the notification.
NoSecondRow == \A k \in Keys : added[k] <= 1

-----------------------------------------------------------------------------
(* The abstract specification the intake implements. *)

FateOf(state) ==
    CASE state = "unpublished" -> "unpublished"
      [] state \in Live        -> "pending"
      [] state = "acked"       -> "delivered"
      [] state = "termed"      -> "abandoned"
      [] OTHER                 -> "lost"

D == INSTANCE Delivery WITH
        fate    <- [f \in Frames |-> FateOf(frame[f])],
        reached <- {k \in Keys : added[k] >= 1},
        traced  <- {c \in Commands : recorded[c] >= 1},
        Wanted  <- [c \in Commands |-> KeysOf(c)],
        Accepts <- {c \in Commands : Deliverable(c)}

\* Every behaviour of the intake, with its crashes, duplicates and lost
\* answers, is one of Delivery: at-least-once delivery to all recipients at
\* once, or an abandonment that was traced first.
Delivers == D!Spec
=============================================================================
