---------------------------- MODULE IntakeProofs ----------------------------
EXTENDS IntakeInv, TLAPS

LEMMA InitIInv == Init => IInv
<1> SUFFICES ASSUME Init PROVE IInv
  OBVIOUS
<1> USE SentinelsAssumption, CommandsAssumption DEF Init
<1>1. TypeOK
  BY DEF TypeOK, LoopStates, Verdicts
<1>2. ProcessOK /\ HandsOK /\ TransactionsOK /\ VerdictsOK
  BY DEF ProcessOK, HandsOK, TransactionsOK, VerdictsOK, Holding
<1>3. LedgerOK
  BY DEF LedgerOK
<1>4. RowsOK /\ NoPartialFanOut
  <2>1. \A k \in Keys : rows[k] = NoRow
    OBVIOUS
  <2>2. \A c \in Commands : KeysOf(c) \subseteq Keys /\ c # NoRow
    BY DEF KeysOf, Keys
  <2> QED
    BY <2>1, <2>2 DEF RowsOK, NoPartialFanOut
<1>5. AckedMeansReached /\ UnreadableHeld
  BY DEF AckedMeansReached, UnreadableHeld
<1> QED
  BY <1>1, <1>2, <1>3, <1>4, <1>5 DEF IInv

-----------------------------------------------------------------------------
(* The steps, grouped by what they do to a delivery. *)

\* Nothing happens to frame, tables or task.
Rests == UNCHANGED <<frame, database, loop, held, writing, verdict>>

\* A task with nothing in hand starts, or stops.
Moves(r) ==
    /\ ~Holding(r)
    /\ \E x \in {"idle", "stopped"} : loop' = [loop EXCEPT ![r] = x]
    /\ UNCHANGED <<frame, database, held, writing, verdict>>

\* A task loses what it had in hand, its open transaction with it.
LetsGo(r) ==
    /\ \E x \in {"down", "dead"} : loop' = [loop EXCEPT ![r] = x]
    /\ held' = [held EXCEPT ![r] = NoFrame]
    /\ writing' = [writing EXCEPT ![r] = {}]
    /\ verdict' = [verdict EXCEPT ![r] = "none"]
    /\ UNCHANGED <<frame, database>>

\* A task decides on its delivery without writing to a table.
Judges(r) ==
    \/ HoldUnreadable(r) \/ RefusePayload(r) \/ StorageRejects(r)
    \/ StorageFails(r) \/ LedgerFails(r)

Commits(r) == Commit(r) \/ CommitUnseen(r)

Records(r) == Abandon(r) \/ LedgerUnseen(r)

Settles(r) == Settle(r) \/ SettleLost(r)

Deletes ==
    \E p \in Recipients, ks \in SUBSET Keys : DeleteNotifications(p, ks)

Steps ==
    \/ Rests
    \/ \E f \in Frames : Publish(f) \/ AckWaitExpires(f) \/ Evict(f)
    \/ \E r \in Replicas :
         \/ Moves(r) \/ LetsGo(r) \/ Judges(r) \/ Insert(r)
         \/ Commits(r) \/ Records(r) \/ Settles(r)
         \/ \E f \in Frames : Receive(r, f)
    \/ Deletes
    \/ \E c \in Commands : Age(c)
    \/ \E r \in Replicas : Purge(r)

LEMMA NextSteps == ASSUME IInv, [Next]_vars PROVE Steps
<1>0. TypeOK /\ ProcessOK /\ HandsOK
  BY DEF IInv
<1> USE <1>0
<1> DEFINE Kinds(r) ==
             \/ Rests \/ Moves(r) \/ LetsGo(r) \/ Judges(r) \/ Insert(r)
             \/ Commits(r) \/ Records(r) \/ Settles(r)
             \/ \E f \in Frames : Receive(r, f)
<1>1. CASE UNCHANGED vars
  BY <1>1 DEF vars, database, task, Rests, Steps
<1>2. ASSUME NEW r \in Replicas, Process(r) PROVE Kinds(r)
  <2>1. CASE SetReady(r) \/ StopServing(r) \/ ListenerDies(r) \/ Terminate(r)
    BY <2>1 DEF SetReady, StopServing, ListenerDies, Terminate, task, Rests
  <2>2. CASE Boot(r)
    BY <2>2 DEF Boot, ProcessOK, Moves, Holding
  <2>3. CASE SuperviseIntake(r)
    BY <2>3 DEF SuperviseIntake, Moves, Holding
  <2>4. CASE Exit(r) \/ Crash(r)
    BY <2>4 DEF Exit, Crash, ProcessGone, LetsGo
  <2>5. CASE IntakePanics(r)
    BY <2>5 DEF IntakePanics, LetsGo
  <2> QED
    BY <1>2, <2>1, <2>2, <2>3, <2>4, <2>5 DEF Process
<1>3. ASSUME NEW r \in Replicas, Consume(r) PROVE Kinds(r)
  <2>1. CASE StopOnShutdown(r) \/ StreamClosed(r)
    BY <2>1 DEF StopOnShutdown, StreamClosed, Moves, Holding
  <2>2. CASE RecvError(r)
    <3>1. CASE UNCHANGED loop
      BY <2>2, <3>1 DEF RecvError, Rests
    <3>2. CASE loop' = [loop EXCEPT ![r] = "stopped"]
      BY <2>2, <3>2 DEF RecvError, Moves, Holding
    <3> QED
      BY <2>2, <3>1, <3>2 DEF RecvError
  <2> QED
    BY <1>3, <2>1, <2>2
       DEF Consume, Turn, Judges, Commits, Records, Settles
<1>4. ASSUME Others
      PROVE  \/ Deletes
             \/ \E c \in Commands : Age(c)
             \/ \E r \in Replicas : Purge(r)
  BY <1>4 DEF Others, Deletes
<1> QED
  BY <1>1, <1>2, <1>3, <1>4 DEF Next, Stream, Steps

-----------------------------------------------------------------------------
(* One lemma per part of the invariant: every step keeps it. *)

\* What the hands of a task that is handling something hold.
LEMMA InHands ==
    ASSUME TypeOK, HandsOK, NEW r \in Replicas, Holding(r)
    PROVE  /\ held[r] \in Frames
           /\ frame[held[r]] \in Live \cup Gone
           /\ Readable(held[r]) => CommandOf[held[r]] \in Commands
BY SentinelsAssumption, CommandsAssumption DEF TypeOK, HandsOK, Readable

LEMMA Outcomes ==
    ASSUME NEW v \in Verdicts \ {"none"}
    PROVE  /\ OutcomeFor(v) \in {"acked", "termed", "naked"}
           /\ OutcomeFor(v) = "acked" => v = "written"
           /\ OutcomeFor(v) = "termed" => v = "poison"
BY DEF OutcomeFor, Verdicts

LEMMA Streaks ==
    ASSUME NEW v \in Verdicts \ {"none"}, NEW n \in Nat
    PROVE  StreakAfter(v, n) \in Nat
BY DEF StreakAfter, Verdicts

LEMMA ReasonsType ==
    ASSUME NEW c \in Commands, ~Deliverable(c)
    PROVE  Reason(c) \in Reasons
BY DEF Reason, Deliverable, Valid, Rejection, Reasons

LEMMA VerdictGiven ==
    ASSUME TypeOK, VerdictsOK, NEW r \in Replicas, loop[r] = "settling"
    PROVE  verdict[r] \in Verdicts \ {"none"}
BY DEF TypeOK, VerdictsOK, Verdicts

LEMMA TypeStep == ASSUME IInv, [Next]_vars PROVE TypeOK'
<1>0. TypeOK /\ HandsOK /\ TransactionsOK /\ VerdictsOK
  BY DEF IInv
<1> USE <1>0, SentinelsAssumption, CommandsAssumption
    DEF TypeOK, database, process, task
<1>1. CASE UNCHANGED vars
  BY <1>1 DEF vars
<1>2. ASSUME NEW f \in Frames, Publish(f) \/ AckWaitExpires(f) \/ Evict(f)
      PROVE  TypeOK'
  BY <1>2 DEF Publish, AckWaitExpires, Evict, Live, Gone
<1>3. ASSUME NEW r \in Replicas, Process(r) PROVE TypeOK'
  <2>1. CASE Boot(r)
    BY <2>1 DEF Boot, LoopStates
  <2>2. CASE SetReady(r)
    BY <2>2 DEF SetReady
  <2>3. CASE StopServing(r)
    BY <2>3 DEF StopServing
  <2>4. CASE Terminate(r)
    BY <2>4 DEF Terminate, Fault
  <2>5. CASE ListenerDies(r)
    BY <2>5 DEF ListenerDies, FailLoud, Fault
  <2>6. CASE SuperviseIntake(r)
    BY <2>6 DEF SuperviseIntake, FailLoud, LoopStates
  <2>7. CASE Exit(r)
    BY <2>7 DEF Exit, ProcessGone, LoopStates, Verdicts
  <2>8. CASE Crash(r)
    BY <2>8 DEF Crash, ProcessGone, Fault, LoopStates, Verdicts
  <2>9. CASE IntakePanics(r)
    BY <2>9 DEF IntakePanics, Fault, LoopStates, Verdicts
  <2> QED
    BY <1>3, <2>1, <2>2, <2>3, <2>4, <2>5, <2>6, <2>7, <2>8, <2>9 DEF Process
<1>4. ASSUME NEW r \in Replicas, Consume(r) PROVE TypeOK'
  <2>1. CASE StopOnShutdown(r)
    BY <2>1 DEF StopOnShutdown, LoopStates
  <2>2. CASE StreamClosed(r)
    BY <2>2 DEF StreamClosed, FailLoud, Fault, LoopStates
  <2>3. CASE RecvError(r)
    <3>1. CASE UNCHANGED <<loop, ready, shutdown>>
      BY <2>3, <3>1 DEF RecvError, Fault
    <3>2. CASE loop' = [loop EXCEPT ![r] = "stopped"] /\ FailLoud(r)
      BY <2>3, <3>2 DEF RecvError, FailLoud, Fault, LoopStates
    <3> QED
      BY <2>3, <3>1, <3>2 DEF RecvError
  <2>4. ASSUME NEW f \in Frames, Receive(r, f) PROVE TypeOK'
    BY <2>4 DEF Receive, LoopStates, Live
  <2>5. CASE HoldUnreadable(r) \/ RefusePayload(r) \/ StorageRejects(r)
    BY <2>5 DEF HoldUnreadable, RefusePayload, StorageRejects, Decide,
                LoopStates, Verdicts
  <2>6. CASE StorageFails(r)
    BY <2>6 DEF StorageFails, Decide, Fault, LoopStates, Verdicts
  <2>7. CASE LedgerFails(r)
    BY <2>7 DEF LedgerFails, Decide, Fault, LoopStates, Verdicts
  <2>8. CASE Insert(r)
    <3>1. Absent(CommandOf[held[r]]) \subseteq Keys
      BY <2>8, InHands DEF Insert, Holding, Absent, KeysOf, Keys
    <3> QED
      BY <2>8, <3>1 DEF Insert, LoopStates
  <2>9. CASE Commits(r)
    <3>1. CommandOf[held[r]] \in Commands
      BY <2>9, InHands DEF Commits, Commit, CommitUnseen, Holding,
                           TransactionsOK
    <3>2. CASE Commit(r)
      BY <3>1, <3>2 DEF Commit, CommitRows, Decide, LoopStates, Verdicts
    <3>3. CASE CommitUnseen(r)
      BY <3>1, <3>3 DEF CommitUnseen, CommitRows, Decide, Fault, LoopStates,
                        Verdicts
    <3> QED
      BY <2>9, <3>2, <3>3 DEF Commits
  <2>10. CASE Records(r)
    <3>1. CommandOf[held[r]] \in Commands /\ ~Deliverable(CommandOf[held[r]])
      BY <2>10, InHands DEF Records, Abandon, LedgerUnseen, Holding, VerdictsOK
    <3>2. Reason(CommandOf[held[r]]) \in Reasons
      BY <3>1, ReasonsType
    <3>3. CASE Abandon(r)
      BY <3>1, <3>2, <3>3 DEF Abandon, RecordDeadLetter, Decide, LoopStates,
                              Verdicts
    <3>4. CASE LedgerUnseen(r)
      BY <3>1, <3>2, <3>4 DEF LedgerUnseen, RecordDeadLetter, Decide, Fault,
                              LoopStates, Verdicts
    <3> QED
      BY <2>10, <3>3, <3>4 DEF Records
  <2>11. CASE Settles(r)
    <3>1. /\ OutcomeFor(verdict[r]) \in {"acked", "termed", "naked"}
          /\ StreakAfter(verdict[r], streak[r]) \in Nat
      BY <2>11, VerdictGiven, Outcomes, Streaks DEF Settles, Settle, SettleLost
    <3>2. CASE Settle(r)
      BY <3>1, <3>2 DEF Settle, Observe, LoopStates, Verdicts, Live, Gone
    <3>3. CASE SettleLost(r)
      BY <3>1, <3>3 DEF SettleLost, Observe, Fault, LoopStates, Verdicts
    <3> QED
      BY <2>11, <3>2, <3>3 DEF Settles
  <2> QED
    BY <1>4, <2>1, <2>2, <2>3, <2>4, <2>5, <2>6, <2>7, <2>8, <2>9, <2>10, <2>11
       DEF Consume, Turn, Commits, Records, Settles
<1>5. CASE Others
  BY <1>5 DEF Others, DeleteNotifications, Age, Purge
<1> QED
  BY <1>1, <1>2, <1>3, <1>4, <1>5 DEF Next, Stream

LEMMA ProcessStep == ASSUME IInv, [Next]_vars PROVE ProcessOK'
<1> USE DEF IInv, TypeOK, ProcessOK, process, task
<1>1. CASE UNCHANGED vars
  BY <1>1 DEF vars
<1>2. CASE Stream \/ Others
  BY <1>2 DEF Stream, Publish, AckWaitExpires, Evict, Others,
              DeleteNotifications, Age, Purge
<1>3. ASSUME NEW r \in Replicas, Process(r) PROVE ProcessOK'
  BY <1>3 DEF Process, Boot, SetReady, StopServing, Exit, SuperviseIntake,
              ListenerDies, Terminate, Crash, IntakePanics, ProcessGone, Holding
<1>4. ASSUME NEW r \in Replicas, Consume(r) PROVE ProcessOK'
  <2>1. UNCHANGED main /\ loop[r] # "down"
    BY <1>4 DEF Consume, Turn, StopOnShutdown, Receive, RecvError,
                StreamClosed, HoldUnreadable, RefusePayload, StorageRejects,
                Insert, Commit, CommitUnseen, StorageFails, Abandon,
                LedgerFails, LedgerUnseen, Settle, SettleLost
  <2>2. \A s \in Replicas \ {r} : loop'[s] = loop[s]
    BY <1>4 DEF Consume, Turn, StopOnShutdown, Receive, RecvError,
                StreamClosed, HoldUnreadable, RefusePayload, StorageRejects,
                Insert, Commit, CommitUnseen, StorageFails, Abandon,
                LedgerFails, LedgerUnseen, Settle, SettleLost, Decide, Observe
  <2> QED
    BY <2>1, <2>2
<1> QED
  BY <1>1, <1>2, <1>3, <1>4 DEF Next

LEMMA HandsStep == ASSUME IInv, [Next]_vars PROVE HandsOK'
<1>0. Steps
  BY NextSteps
<1>1. TypeOK /\ HandsOK
  BY DEF IInv
<1> USE <1>1, SentinelsAssumption DEF TypeOK, HandsOK, Holding, database
<1>2. CASE Rests
  BY <1>2 DEF Rests
<1>3. ASSUME NEW f \in Frames, Publish(f) \/ AckWaitExpires(f) \/ Evict(f)
      PROVE  HandsOK'
  BY <1>3 DEF Publish, AckWaitExpires, Evict, task
<1>4. ASSUME NEW r \in Replicas, Moves(r) \/ LetsGo(r) PROVE HandsOK'
  BY <1>4 DEF Moves, LetsGo
<1>5. ASSUME NEW r \in Replicas, Judges(r) PROVE HandsOK'
  BY <1>5 DEF Judges, HoldUnreadable, RefusePayload, StorageRejects,
              StorageFails, LedgerFails, Decide
<1>6. ASSUME NEW r \in Replicas, Insert(r) PROVE HandsOK'
  BY <1>6 DEF Insert
<1>7. ASSUME NEW r \in Replicas, Commits(r) PROVE HandsOK'
  BY <1>7 DEF Commits, Commit, CommitUnseen, CommitRows, Decide
<1>8. ASSUME NEW r \in Replicas, Records(r) PROVE HandsOK'
  BY <1>8 DEF Records, Abandon, LedgerUnseen, Decide
<1>9. ASSUME NEW r \in Replicas, Settles(r) PROVE HandsOK'
  <2>1. OutcomeFor(verdict[r]) # "unpublished"
    BY DEF OutcomeFor
  <2> QED
    BY <1>9, <2>1 DEF Settles, Settle, SettleLost, Observe
<1>10. ASSUME NEW r \in Replicas, NEW f \in Frames, Receive(r, f)
       PROVE  HandsOK'
  BY <1>10 DEF Receive
<1>11. CASE \/ Deletes
            \/ \E c \in Commands : Age(c)
            \/ \E r \in Replicas : Purge(r)
  BY <1>11 DEF Deletes, DeleteNotifications, Age, Purge, task
<1> QED
  BY <1>0, <1>2, <1>3, <1>4, <1>5, <1>6, <1>7, <1>8, <1>9, <1>10, <1>11
     DEF Steps

LEMMA TransactionsStep == ASSUME IInv, [Next]_vars PROVE TransactionsOK'
<1>0. Steps
  BY NextSteps
<1>1. TypeOK /\ HandsOK /\ TransactionsOK /\ RowsOK
  BY DEF IInv
<1> USE <1>1, SentinelsAssumption, CommandsAssumption DEF TypeOK, database
<1>2. CASE Rests
  BY <1>2 DEF Rests, TransactionsOK
<1>3. ASSUME NEW f \in Frames, Publish(f) \/ AckWaitExpires(f) \/ Evict(f)
      PROVE  TransactionsOK'
  BY <1>3 DEF Publish, AckWaitExpires, Evict, task, TransactionsOK
<1>4. ASSUME NEW r \in Replicas, Moves(r) PROVE TransactionsOK'
  BY <1>4 DEF Moves, TransactionsOK
<1>5. ASSUME NEW r \in Replicas, LetsGo(r) PROVE TransactionsOK'
  <2>1. loop'[r] # "inserted" /\ writing'[r] = {}
    BY <1>5 DEF LetsGo
  <2>2. \A s \in Replicas \ {r} :
           loop'[s] = loop[s] /\ held'[s] = held[s] /\ writing'[s] = writing[s]
    BY <1>5 DEF LetsGo
  <2> QED
    BY <1>5, <2>1, <2>2 DEF LetsGo, TransactionsOK
<1>6. ASSUME NEW r \in Replicas, Judges(r) PROVE TransactionsOK'
  BY <1>6 DEF Judges, HoldUnreadable, RefusePayload, StorageRejects,
              StorageFails, LedgerFails, Decide, TransactionsOK
<1>7. ASSUME NEW r \in Replicas, Insert(r) PROVE TransactionsOK'
  <2> DEFINE c == CommandOf[held[r]]
  <2>1. c \in Commands /\ held[r] \in Frames /\ KeysOf(c) \subseteq Keys
    BY <1>7, InHands DEF Insert, Holding, KeysOf, Keys
  <2>2. /\ \A k \in Absent(c) : rows[k] = NoRow
        /\ \A k \in KeysOf(c) \ Absent(c) : added[k] >= 1
        /\ Absent(c) \subseteq KeysOf(c)
    BY <2>1 DEF Absent, RowsOK
  <2>3. \A s \in Replicas : writing[s] \cap Absent(c) = {}
    BY <1>7, <2>2 DEF Insert
  <2> QED
    BY <1>7, <2>1, <2>2, <2>3 DEF Insert, TransactionsOK
<1>8. ASSUME NEW r \in Replicas, Commits(r) PROVE TransactionsOK'
  <2>1. \A s \in Replicas \ {r} :
           loop'[s] = loop[s] /\ held'[s] = held[s] /\ writing'[s] = writing[s]
    BY <1>8 DEF Commits, Commit, CommitUnseen, CommitRows, Decide
  <2>2. loop'[r] = "settling" /\ writing'[r] = {}
    BY <1>8 DEF Commits, Commit, CommitUnseen, CommitRows, Decide
  <2>3. \A k \in Keys : /\ added'[k] >= added[k]
                        /\ k \notin writing[r] => rows'[k] = rows[k]
    BY <1>8 DEF Commits, Commit, CommitUnseen, CommitRows
  <2>4. \A c \in Commands : KeysOf(c) \subseteq Keys
    BY DEF KeysOf, Keys
  <2>5. ASSUME NEW s \in Replicas, loop'[s] = "inserted"
        PROVE  LET c == CommandOf[held'[s]] IN
               /\ Readable(held'[s])
               /\ Deliverable(c)
               /\ writing'[s] \subseteq KeysOf(c)
               /\ \A k \in writing'[s] : rows'[k] = NoRow
               /\ \A k \in KeysOf(c) \ writing'[s] : added'[k] >= 1
    <3>1. s # r /\ loop[s] = "inserted"
      BY <2>1, <2>2, <2>5
    <3>2. /\ Readable(held[s])
          /\ Deliverable(CommandOf[held[s]])
          /\ writing[s] \subseteq KeysOf(CommandOf[held[s]])
          /\ \A k \in writing[s] : rows[k] = NoRow
          /\ \A k \in KeysOf(CommandOf[held[s]]) \ writing[s] : added[k] >= 1
          /\ writing[s] \cap writing[r] = {}
      BY <3>1 DEF TransactionsOK
    <3>3. KeysOf(CommandOf[held[s]]) \subseteq Keys
      BY <2>4, <3>1, <3>2, InHands DEF Holding
    <3>4. \A k \in writing[s] : rows'[k] = NoRow
      BY <2>3, <3>2, <3>3
    <3>5. \A k \in KeysOf(CommandOf[held[s]]) \ writing[s] : added'[k] >= 1
      <4> TAKE k \in KeysOf(CommandOf[held[s]]) \ writing[s]
      <4> QED
        BY <1>8, <2>3, <3>2, <3>3 DEF Commits, Commit, CommitUnseen, CommitRows
    <3> QED
      BY <2>1, <3>1, <3>2, <3>4, <3>5
  <2> QED
    BY <2>1, <2>2, <2>5 DEF TransactionsOK
<1>9. ASSUME NEW r \in Replicas, Records(r) PROVE TransactionsOK'
  BY <1>9 DEF Records, Abandon, LedgerUnseen, Decide, TransactionsOK
<1>10. ASSUME NEW r \in Replicas, Settles(r) PROVE TransactionsOK'
  BY <1>10 DEF Settles, Settle, SettleLost, Observe, TransactionsOK
<1>11. ASSUME NEW r \in Replicas, NEW f \in Frames, Receive(r, f)
       PROVE  TransactionsOK'
  BY <1>11 DEF Receive, TransactionsOK
<1>12. CASE Deletes
  BY <1>12 DEF Deletes, DeleteNotifications, task, TransactionsOK
<1>13. CASE \/ \E c \in Commands : Age(c)
            \/ \E r \in Replicas : Purge(r)
  BY <1>13 DEF Age, Purge, task, TransactionsOK
<1> QED
  BY <1>0, <1>2, <1>3, <1>4, <1>5, <1>6, <1>7, <1>8, <1>9, <1>10, <1>11,
     <1>12, <1>13 DEF Steps

LEMMA VerdictsStep == ASSUME IInv, [Next]_vars PROVE VerdictsOK'
<1>0. Steps
  BY NextSteps
<1>1. TypeOK /\ HandsOK /\ VerdictsOK
  BY DEF IInv
<1> USE <1>1, SentinelsAssumption, CommandsAssumption DEF TypeOK, database
<1>2. CASE Rests
  BY <1>2 DEF Rests, VerdictsOK, Reached
<1>3. ASSUME NEW f \in Frames, Publish(f) \/ AckWaitExpires(f) \/ Evict(f)
      PROVE  VerdictsOK'
  BY <1>3 DEF Publish, AckWaitExpires, Evict, task, VerdictsOK, Reached
<1>4. ASSUME NEW r \in Replicas, Moves(r) \/ LetsGo(r) PROVE VerdictsOK'
  BY <1>4 DEF Moves, LetsGo, VerdictsOK, Reached
<1>5. ASSUME NEW r \in Replicas, Judges(r) PROVE VerdictsOK'
  BY <1>5 DEF Judges, HoldUnreadable, RefusePayload, StorageRejects,
              StorageFails, LedgerFails, Decide, Deliverable, VerdictsOK,
              Reached
<1>6. ASSUME NEW r \in Replicas, Insert(r) PROVE VerdictsOK'
  BY <1>6 DEF Insert, VerdictsOK, Reached
<1>7. ASSUME NEW r \in Replicas, Commits(r) PROVE VerdictsOK'
  <2>1. /\ \A k \in Keys : added[k] >= 1 => added'[k] >= 1
        /\ \A k \in writing[r] : added'[k] >= 1
        /\ UNCHANGED <<ledger, held>>
    BY <1>7 DEF Commits, Commit, CommitUnseen, CommitRows
  <2>2. /\ loop' = [loop EXCEPT ![r] = "settling"]
        /\ \E v \in {"written", "transient"} :
              verdict' = [verdict EXCEPT ![r] = v]
    BY <1>7 DEF Commits, Commit, CommitUnseen, Decide
  <2>3. \A c \in Commands : KeysOf(c) \subseteq Keys
    BY DEF KeysOf, Keys
  <2>4. ASSUME NEW c \in Commands, Reached(c) PROVE Reached(c)'
    BY <2>1, <2>3, <2>4 DEF Reached
  <2>5. /\ Readable(held[r])
        /\ CommandOf[held[r]] \in Commands
        /\ Deliverable(CommandOf[held[r]])
        /\ Reached(CommandOf[held[r]])'
    <3>1. loop[r] = "inserted" /\ TransactionsOK
      BY <1>7 DEF Commits, Commit, CommitUnseen, IInv
    <3>2. /\ Readable(held[r])
          /\ Deliverable(CommandOf[held[r]])
          /\ \A k \in KeysOf(CommandOf[held[r]]) \ writing[r] : added[k] >= 1
      BY <3>1 DEF TransactionsOK
    <3>3. CommandOf[held[r]] \in Commands
      BY <3>1, <3>2, InHands DEF Holding
    <3>4. \A k \in KeysOf(CommandOf[held[r]]) : added'[k] >= 1
      BY <2>1, <2>3, <3>2, <3>3
    <3> QED
      BY <2>1, <3>2, <3>3, <3>4 DEF Reached
  <2>6. \A s \in Replicas : loop[s] = "settling" /\ verdict[s] = "written"
           => Readable(held[s]) /\ CommandOf[held[s]] \in Commands
    BY InHands DEF VerdictsOK, Holding
  <2> QED
    BY <2>1, <2>2, <2>4, <2>5, <2>6 DEF VerdictsOK
<1>8. ASSUME NEW r \in Replicas, Records(r) PROVE VerdictsOK'
  <2> DEFINE c == CommandOf[held[r]]
  <2>1. c \in Commands /\ Readable(held[r]) /\ ~Deliverable(c)
    BY <1>8, InHands DEF Records, Abandon, LedgerUnseen, Holding, VerdictsOK
  <2>2. Reason(c) # "none"
    BY <2>1, ReasonsType DEF Reasons
  <2>3. /\ ledger'[c] # "none"
        /\ \A d \in Commands : ledger[d] # "none" => ledger'[d] # "none"
        /\ UNCHANGED <<added, held>>
    BY <1>8, <2>1, <2>2 DEF Records, Abandon, LedgerUnseen, RecordDeadLetter
  <2>4. /\ loop' = [loop EXCEPT ![r] = "settling"]
        /\ \E v \in {"poison", "transient"} :
              verdict' = [verdict EXCEPT ![r] = v]
    BY <1>8 DEF Records, Abandon, LedgerUnseen, Decide
  <2>5. \A s \in Replicas : loop[s] = "settling" /\ verdict[s] = "poison"
           => Readable(held[s]) /\ CommandOf[held[s]] \in Commands
    BY InHands DEF VerdictsOK, Holding
  <2> QED
    BY <2>1, <2>3, <2>4, <2>5 DEF VerdictsOK, Reached
<1>9. ASSUME NEW r \in Replicas, Settles(r) PROVE VerdictsOK'
  BY <1>9 DEF Settles, Settle, SettleLost, Observe, VerdictsOK, Reached
<1>10. ASSUME NEW r \in Replicas, NEW f \in Frames, Receive(r, f)
       PROVE  VerdictsOK'
  BY <1>10 DEF Receive, VerdictsOK, Reached
<1>11. CASE Deletes \/ \E c \in Commands : Age(c)
  BY <1>11 DEF Deletes, DeleteNotifications, Age, task, VerdictsOK, Reached
<1>12. ASSUME NEW p \in Replicas, Purge(p) PROVE VerdictsOK'
  <2>1. ASSUME NEW s \in Replicas, loop[s] = "settling", verdict[s] = "poison"
        PROVE  ledger'[CommandOf[held[s]]] = ledger[CommandOf[held[s]]]
    <3>1. CommandOf[held[s]] \in Commands /\ held[s] \in Frames
      BY <2>1, InHands DEF VerdictsOK, Holding
    <3>2. CommandOf[held[s]] \notin aged
      BY <3>1 DEF IInv, LedgerOK, Exhausted, InHand, FramesOf
    <3> QED
      BY <1>12, <3>1, <3>2 DEF Purge
  <2> QED
    BY <1>12, <2>1 DEF Purge, task, VerdictsOK, Reached
<1> QED
  BY <1>0, <1>2, <1>3, <1>4, <1>5, <1>6, <1>7, <1>8, <1>9, <1>10, <1>11, <1>12
     DEF Steps

\* Once a command cannot come back, nothing brings it back.
LEMMA ExhaustedStays ==
    ASSUME IInv, [Next]_vars, NEW c \in Commands, Exhausted(c)
    PROVE  Exhausted(c)'
<1>0. Steps
  BY NextSteps
<1>1. TypeOK /\ HandsOK
  BY DEF IInv
<1> USE <1>1, SentinelsAssumption, CommandsAssumption
    DEF TypeOK, database, Exhausted, InHand, FramesOf
<1>2. CASE Rests
  BY <1>2 DEF Rests
<1>3. ASSUME NEW f \in Frames, Publish(f) \/ AckWaitExpires(f) \/ Evict(f)
      PROVE  Exhausted(c)'
  BY <1>3 DEF Publish, AckWaitExpires, Evict, task, Gone, Live
<1>4. ASSUME NEW r \in Replicas, Moves(r) \/ LetsGo(r) PROVE Exhausted(c)'
  BY <1>4 DEF Moves, LetsGo
<1>5. ASSUME NEW r \in Replicas,
             Judges(r) \/ Insert(r) \/ Commits(r) \/ Records(r)
      PROVE  Exhausted(c)'
  <2>1. UNCHANGED <<frame, held>>
    BY <1>5 DEF Judges, HoldUnreadable, RefusePayload, StorageRejects,
                StorageFails, LedgerFails, Insert, Commits, Commit,
                CommitUnseen, Records, Abandon, LedgerUnseen
  <2> QED
    BY <2>1
<1>6. ASSUME NEW r \in Replicas, Settles(r) PROVE Exhausted(c)'
  <2>1. \A f \in Frames : frame[f] \in Gone => frame'[f] = frame[f]
    BY <1>6 DEF Settles, Settle, SettleLost, Live, Gone
  <2>2. held' = [held EXCEPT ![r] = NoFrame]
    BY <1>6 DEF Settles, Settle, SettleLost, Observe
  <2> QED
    BY <2>1, <2>2
<1>7. ASSUME NEW r \in Replicas, NEW f \in Frames, Receive(r, f)
      PROVE  Exhausted(c)'
  BY <1>7 DEF Receive, Gone
<1>8. CASE \/ Deletes
           \/ \E d \in Commands : Age(d)
           \/ \E r \in Replicas : Purge(r)
  BY <1>8 DEF Deletes, DeleteNotifications, Age, Purge, task
<1> QED
  BY <1>0, <1>2, <1>3, <1>4, <1>5, <1>6, <1>7, <1>8 DEF Steps

\* A command that is being abandoned is in a task's hands and on its way to
\* its one ledger line.
LEMMA RecordsOnce ==
    ASSUME IInv, NEW r \in Replicas, Records(r)
    PROVE  /\ \A c \in Commands :
                recorded'[c] # recorded[c] =>
                    /\ ~Deliverable(c)
                    /\ recorded[c] = 0
                    /\ recorded'[c] = 1
                    /\ ledger'[c] # "none"
           /\ \A c \in Commands :
                ledger'[c] # ledger[c] => recorded'[c] = 1
           /\ \A c \in Commands : ledger[c] # "none" => ledger'[c] # "none"
           /\ UNCHANGED <<aged, rows, added, frame>>
<1> DEFINE c == CommandOf[held[r]]
<1>1. TypeOK /\ HandsOK /\ VerdictsOK /\ LedgerOK
  BY DEF IInv
<1>2. /\ c \in Commands /\ held[r] \in FramesOf(c)
      /\ ~Deliverable(c)
  BY <1>1, InHands DEF Records, Abandon, LedgerUnseen, Holding, VerdictsOK,
                       FramesOf
<1>3. Reason(c) # "none"
  BY <1>2, ReasonsType DEF Reasons
<1>4. ledger[c] = "none" => recorded[c] = 0
  BY <1>1, <1>2 DEF LedgerOK, Exhausted, InHand, TypeOK
<1> QED
  BY <1>1, <1>2, <1>3, <1>4
     DEF Records, Abandon, LedgerUnseen, RecordDeadLetter, TypeOK

LEMMA LedgerStep == ASSUME IInv, [Next]_vars PROVE LedgerOK'
<1>0. Steps
  BY NextSteps
<1>1. TypeOK /\ LedgerOK
  BY DEF IInv
<1>2. \A c \in Commands : Exhausted(c) => Exhausted(c)'
  BY ExhaustedStays
<1>3. CASE UNCHANGED <<ledger, aged, recorded>>
  BY <1>1, <1>2, <1>3 DEF LedgerOK
<1>4. ASSUME NEW r \in Replicas, Records(r) PROVE LedgerOK'
  <2>1. ASSUME NEW c \in Commands, recorded'[c] # recorded[c]
        PROVE  ~Deliverable(c) /\ recorded'[c] = 1 /\ ledger'[c] # "none"
    BY <1>4, <2>1, RecordsOnce
  <2>2. aged' = aged
    BY <1>4, RecordsOnce
  <2> QED
    BY <1>1, <1>2, <2>1, <2>2, <1>4, RecordsOnce DEF LedgerOK
<1>5. ASSUME NEW c \in Commands, Age(c) PROVE LedgerOK'
  <2>1. Exhausted(c)
    BY <1>5 DEF Age, Exhausted, InHand
  <2> QED
    BY <1>1, <1>2, <1>5, <2>1 DEF Age, LedgerOK
<1>6. ASSUME NEW r \in Replicas, Purge(r) PROVE LedgerOK'
  <2>1. /\ \A c \in Commands :
             ledger'[c] = ledger[c] \/ (ledger'[c] = "none" /\ c \in aged)
        /\ aged' = {}
        /\ UNCHANGED recorded
    BY <1>6 DEF Purge
  <2> QED
    BY <1>1, <1>2, <2>1 DEF LedgerOK
<1> QED
  <2>1. \/ UNCHANGED <<ledger, aged, recorded>>
        \/ \E r \in Replicas : Records(r)
        \/ \E c \in Commands : Age(c)
        \/ \E r \in Replicas : Purge(r)
    BY <1>0 DEF Steps, Rests, database, Publish, AckWaitExpires, Evict, Moves,
                LetsGo, Judges, HoldUnreadable, RefusePayload, StorageRejects,
                StorageFails, LedgerFails, Insert, Commits, Commit,
                CommitUnseen, Settles, Settle, SettleLost, Receive, Deletes,
                DeleteNotifications
  <2> QED
    BY <1>3, <1>4, <1>5, <1>6, <2>1

\* Only a commit and a recipient's delete touch the notifications.
LEMMA RowsChange ==
    ASSUME IInv, [Next]_vars
    PROVE  \/ UNCHANGED <<rows, added>>
           \/ \E r \in Replicas : Commits(r)
           \/ Deletes
<1> QED
  BY NextSteps
     DEF Steps, Rests, database, Publish, AckWaitExpires, Evict, Moves, LetsGo,
         Judges, HoldUnreadable, RefusePayload, StorageRejects, StorageFails,
         LedgerFails, Insert, Records, Abandon, LedgerUnseen, Settles, Settle,
         SettleLost, Receive, Age, Purge

\* What a commit writes: its own keys, all of them free, and with them every
\* recipient of its command has been reached.
LEMMA CommitWrites ==
    ASSUME IInv, NEW r \in Replicas, Commits(r)
    PROVE  \E c \in Commands :
             /\ Deliverable(c)
             /\ writing[r] \subseteq KeysOf(c)
             /\ \A k \in writing[r] : /\ rows[k] = NoRow
                                      /\ rows'[k] = c
                                      /\ added'[k] >= 1
             /\ \A k \in Keys \ writing[r] : /\ rows'[k] = rows[k]
                                             /\ added'[k] = added[k]
             /\ Reached(c)'
<1>1. TypeOK /\ HandsOK /\ TransactionsOK /\ loop[r] = "inserted"
  BY DEF IInv, Commits, Commit, CommitUnseen
<1>2. PICK c \in Commands : c = CommandOf[held[r]]
  BY <1>1, InHands DEF Holding, TransactionsOK
<1>3. /\ Deliverable(c)
      /\ writing[r] \subseteq KeysOf(c)
      /\ \A k \in writing[r] : rows[k] = NoRow
      /\ \A k \in KeysOf(c) \ writing[r] : added[k] >= 1
  BY <1>1, <1>2 DEF TransactionsOK
<1>4. KeysOf(c) \subseteq Keys
  BY CommandsAssumption DEF KeysOf, Keys
<1>5. /\ \A k \in writing[r] : rows'[k] = c /\ added'[k] >= 1
      /\ \A k \in Keys \ writing[r] : rows'[k] = rows[k] /\ added'[k] = added[k]
  BY <1>1, <1>2, <1>3, <1>4
     DEF Commits, Commit, CommitUnseen, CommitRows, TypeOK
<1>6. \A k \in KeysOf(c) : added'[k] >= 1
  BY <1>3, <1>4, <1>5
<1>7. Reached(c)'
  BY <1>6 DEF Reached
<1> QED
  BY <1>3, <1>5, <1>7

\* Who has been reached stays reached.
LEMMA ReachedStays ==
    ASSUME IInv, [Next]_vars, NEW k \in Keys, added[k] >= 1
    PROVE  added'[k] >= 1
<1>1. CASE UNCHANGED <<rows, added>>
  BY <1>1
<1>2. ASSUME NEW r \in Replicas, Commits(r) PROVE added'[k] >= 1
  BY <1>2, CommitWrites
<1>3. CASE Deletes
  BY <1>3 DEF Deletes, DeleteNotifications
<1> QED
  BY <1>1, <1>2, <1>3, RowsChange

LEMMA RowsStep == ASSUME IInv, [Next]_vars PROVE RowsOK' /\ NoPartialFanOut'
<1>1. TypeOK /\ RowsOK /\ NoPartialFanOut
  BY DEF IInv
<1>2. \A c \in Commands : KeysOf(c) \subseteq Keys
  BY CommandsAssumption DEF KeysOf, Keys
<1>3. ASSUME NEW c \in Commands, Reached(c) PROVE Reached(c)'
  <2>1. \A k \in KeysOf(c) : added'[k] >= 1
    BY <1>2, <1>3, ReachedStays DEF Reached
  <2> QED
    BY <2>1 DEF Reached
<1>4. CASE UNCHANGED <<rows, added>>
  BY <1>1, <1>4 DEF RowsOK, NoPartialFanOut
<1>5. ASSUME NEW r \in Replicas, Commits(r)
      PROVE  RowsOK' /\ NoPartialFanOut'
  <2>1. PICK c \in Commands :
             /\ Deliverable(c)
             /\ writing[r] \subseteq KeysOf(c)
             /\ \A k \in writing[r] : /\ rows[k] = NoRow
                                      /\ rows'[k] = c
                                      /\ added'[k] >= 1
             /\ \A k \in Keys \ writing[r] : /\ rows'[k] = rows[k]
                                             /\ added'[k] = added[k]
             /\ Reached(c)'
    BY <1>5, CommitWrites
  <2>2. RowsOK'
    BY <1>1, <2>1 DEF RowsOK
  <2>3. ASSUME NEW d \in Commands, NEW k \in KeysOf(d), rows'[k] = d
        PROVE  Reached(d)'
    <3>1. CASE d = c
      BY <2>1, <3>1
    <3>2. CASE d # c
      <4>1. rows[k] = d
        BY <1>2, <2>1, <2>3, <3>2
      <4>2. Reached(d)
        BY <1>1, <4>1 DEF NoPartialFanOut, Reached
      <4> QED
        BY <1>3, <4>2
    <3> QED
      BY <3>1, <3>2
  <2>4. NoPartialFanOut'
    BY <2>3 DEF NoPartialFanOut, Reached
  <2> QED
    BY <2>2, <2>4
<1>6. CASE Deletes
  <2>1. /\ \A k \in Keys : rows'[k] = rows[k] \/ rows'[k] = NoRow
        /\ UNCHANGED added
    BY <1>6 DEF Deletes, DeleteNotifications
  <2>2. RowsOK'
    BY <1>1, <2>1 DEF RowsOK
  <2>3. \A c \in Commands : c # NoRow
    BY SentinelsAssumption
  <2>4. NoPartialFanOut'
    BY <1>1, <1>2, <2>1, <2>3 DEF NoPartialFanOut
  <2> QED
    BY <2>2, <2>4
<1> QED
  BY <1>4, <1>5, <1>6, RowsChange

\* A step that makes a frame final is the settlement its verdict stands for.
LEMMA SettledBy ==
    ASSUME IInv, [Next]_vars, NEW f \in Frames,
           frame'[f] # frame[f], frame'[f] \in {"acked", "termed"}
    PROVE  \E r \in Replicas :
             /\ Settle(r)
             /\ held[r] = f
             /\ frame[f] \in Live
             /\ frame'[f] = "acked"  => verdict[r] = "written"
             /\ frame'[f] = "termed" => verdict[r] = "poison"
<1>1. TypeOK /\ HandsOK /\ VerdictsOK
  BY DEF IInv
<1>2. PICK r \in Replicas : Settle(r)
  <2>1. \/ UNCHANGED frame
        \/ \E g \in Frames : Publish(g) \/ AckWaitExpires(g) \/ Evict(g)
        \/ \E r \in Replicas : Settle(r) \/ \E g \in Frames : Receive(r, g)
    BY NextSteps
       DEF Steps, Rests, Moves, LetsGo, Judges, HoldUnreadable, RefusePayload,
           StorageRejects, StorageFails, LedgerFails, Insert, Commits, Commit,
           CommitUnseen, Records, Abandon, LedgerUnseen, Settles, SettleLost,
           Deletes, DeleteNotifications, Age, Purge
  <2>2. ASSUME NEW g \in Frames, Publish(g) \/ AckWaitExpires(g) \/ Evict(g)
        PROVE  FALSE
    BY <1>1, <2>2 DEF Publish, AckWaitExpires, Evict, TypeOK
  <2>3. ASSUME NEW r \in Replicas, NEW g \in Frames, Receive(r, g)
        PROVE  FALSE
    BY <1>1, <2>3 DEF Receive, TypeOK
  <2> QED
    BY <2>1, <2>2, <2>3
<1>3. held[r] = f /\ frame[f] \in Live /\ frame'[f] = OutcomeFor(verdict[r])
  BY <1>1, <1>2 DEF Settle, TypeOK
<1>4. verdict[r] \in Verdicts \ {"none"}
  BY <1>1, <1>2, VerdictGiven DEF Settle
<1> QED
  BY <1>2, <1>3, <1>4, Outcomes

LEMMA AckedStep == ASSUME IInv, [Next]_vars PROVE AckedMeansReached'
<1> SUFFICES ASSUME NEW f \in Frames, frame'[f] = "acked"
             PROVE  /\ Readable(f)
                    /\ Deliverable(CommandOf[f])
                    /\ \A k \in KeysOf(CommandOf[f]) : added'[k] >= 1
  BY DEF AckedMeansReached
<1>1. /\ Readable(f)
      /\ Deliverable(CommandOf[f])
      /\ \A k \in KeysOf(CommandOf[f]) : added[k] >= 1
  <2>1. CASE frame[f] = "acked"
    BY <2>1 DEF IInv, AckedMeansReached
  <2>2. CASE frame[f] # "acked"
    <3>1. PICK r \in Replicas :
               Settle(r) /\ held[r] = f /\ verdict[r] = "written"
      BY <2>2, SettledBy
    <3> QED
      BY <3>1 DEF IInv, VerdictsOK, Settle, Reached
  <2> QED
    BY <2>1, <2>2
<1>2. KeysOf(CommandOf[f]) \subseteq Keys
  BY <1>1, CommandsAssumption DEF KeysOf, Keys, Readable
<1> QED
  BY <1>1, <1>2, ReachedStays

LEMMA UnreadableStep == ASSUME IInv, [Next]_vars PROVE UnreadableHeld'
<1> SUFFICES ASSUME NEW f \in Frames, ~Readable(f),
                    frame'[f] \in {"acked", "termed"}
             PROVE  FALSE
  BY DEF UnreadableHeld
<1>1. frame'[f] # frame[f]
  BY DEF IInv, UnreadableHeld
<1>2. PICK r \in Replicas :
           Settle(r) /\ held[r] = f /\ verdict[r] \in {"written", "poison"}
  BY <1>1, SettledBy
<1> QED
  BY <1>2 DEF IInv, VerdictsOK, Settle

-----------------------------------------------------------------------------
(* The theorems. *)

\* IInv is inductive.
THEOREM Invariance == Spec => []IInv
<1>1. IInv /\ [Next]_vars => IInv'
  BY TypeStep, ProcessStep, HandsStep, TransactionsStep, VerdictsStep,
     LedgerStep, RowsStep, AckedStep, UnreadableStep DEF IInv
<1> QED
  BY InitIInv, <1>1, PTL DEF Spec

\* Every variable keeps its type.
THEOREM TypeCorrect == Spec => []TypeOK
<1>1. IInv => TypeOK
  BY DEF IInv
<1> QED
  BY Invariance, <1>1, PTL

\* The stream is never told that a command is delivered before every one of
\* its recipients has had a row (outcome_for after fan_out).
THEOREM AckIsHonest == Spec => []AckedMeansReached
<1>1. IInv => AckedMeansReached
  BY DEF IInv
<1> QED
  BY Invariance, <1>1, PTL

\* The intake never destroys a frame it cannot account for.
THEOREM UnreadableIsHeld == Spec => []UnreadableHeld
<1>1. IInv => UnreadableHeld
  BY DEF IInv
<1> QED
  BY Invariance, <1>1, PTL

\* However many frames carry a command and however often a settlement is lost,
\* record_dead_letter inserts one line.
THEOREM LedgerIsNotInflated == Spec => []OneLinePerCommand
<1>1. IInv => OneLinePerCommand
  BY DEF IInv, LedgerOK, OneLinePerCommand
<1> QED
  BY Invariance, <1>1, PTL

\* The fan-out of a command is all or nothing, under any interleaving of the
\* transactions of overlapping commands and of deletes.
THEOREM FanOutIsWhole == Spec => []NoPartialFanOut
<1>1. IInv => NoPartialFanOut
  BY DEF IInv
<1> QED
  BY Invariance, <1>1, PTL

\* What is on the ledger has reached nobody.
THEOREM AbandonmentIsClean == Spec => []AbandonedReachesNobody
<1>1. IInv => AbandonedReachesNobody
  BY SentinelsAssumption
     DEF IInv, LedgerOK, RowsOK, AbandonedReachesNobody
<1> QED
  BY Invariance, <1>1, PTL

\* A frame is terminated only with its abandonment on the ledger, whatever
\* crashes, retries and purges came before.
THEOREM TermIsTraced == Spec => TermedOnlyOnLedger
<1>1. IInv /\ [Next]_vars =>
        [\A f \in Frames :
           (frame[f] # "termed" /\ frame'[f] = "termed")
              => ledger'[CommandOf[f]] # "none"]_vars
  <2> SUFFICES ASSUME IInv, [Next]_vars, NEW f \in Frames,
                      frame[f] # "termed", frame'[f] = "termed"
               PROVE  ledger'[CommandOf[f]] # "none"
    OBVIOUS
  <2>1. PICK r \in Replicas :
             Settle(r) /\ held[r] = f /\ verdict[r] = "poison"
    BY SettledBy
  <2>2. ledger[CommandOf[f]] # "none"
    BY <2>1 DEF IInv, VerdictsOK, Settle
  <2> QED
    BY <2>1, <2>2 DEF Settle, database
<1> QED
  BY Invariance, <1>1, PTL DEF Spec, TermedOnlyOnLedger

\* First wins: neither a duplicate nor a racing command rewrites a row.
THEOREM FirstRowWins == Spec => FirstWins
<1>1. IInv /\ [Next]_vars =>
        [\A k \in Keys : rows[k] # NoRow => rows'[k] \in {rows[k], NoRow}]_vars
  <2> SUFFICES ASSUME IInv, [Next]_vars, NEW k \in Keys, rows[k] # NoRow
               PROVE  rows'[k] \in {rows[k], NoRow}
    OBVIOUS
  <2>1. ASSUME NEW r \in Replicas, Commits(r) PROVE rows'[k] = rows[k]
    BY <2>1, CommitWrites
  <2>2. CASE Deletes
    BY <2>2 DEF Deletes, DeleteNotifications
  <2> QED
    BY <2>1, <2>2, RowsChange
<1> QED
  BY Invariance, <1>1, PTL DEF Spec, FirstWins
=============================================================================
