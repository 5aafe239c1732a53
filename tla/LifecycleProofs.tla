--------------------------- MODULE LifecycleProofs ---------------------------
(***************************************************************************)
(* The verdict of a process on itself, proved for any number of clients    *)
(* and failures, with and without an intake.                               *)
(***************************************************************************)
EXTENDS Lifecycle, TLAPS

\* Until main leaves, the channel is true exactly if a live task has failed;
\* once it has told the tasks to stop, what it read before says so.
ChannelOK ==
    /\ main # "leaving" => (shutdown <=> failed) /\ ~abnormal
    /\ main = "leaving" => shutdown /\ (abnormal <=> failed)

\* Readiness is lost to a failure only, once it has been reached.
ReadyOK == main \in {"serving", "draining"} /\ ~ready => failed

\* A live task ends with the channel true; the intake is bound before the port.
TasksOK ==
    /\ \A k \in LiveTasks : task[k] = "over" => shutdown
    /\ WithNats /\ main \in {"binding", "serving", "draining", "leaving"} =>
         task["intake"] # "none"

IInv == TypeOK /\ ChannelOK /\ ReadyOK /\ TasksOK

\* A process that is gone leaves nothing behind.
LEMMA EndKeeps ==
    ASSUME End, faults' \in 0..MaxFaults
    PROVE  IInv'
BY DEF End, NoTasks, IInv, TypeOK, ChannelOK, ReadyOK, TasksOK, Tasks, LiveTasks, Booting

\* A fault stays within the budget.
LEMMA FaultKeeps ==
    ASSUME IInv, Fault
    PROVE  faults' \in 0..MaxFaults
BY LifecycleAssumption DEF Fault, IInv, TypeOK

\* A live task that ends loudly tells the channel, whatever main is doing.
LEMMA FailLoudlyKeeps ==
    ASSUME IInv, NEW k \in LiveTasks, task[k] # "none", FailLoudly(k),
           faults' \in 0..MaxFaults
    PROVE  IInv'
<1>1. TypeOK'
  BY DEF FailLoudly, IInv, TypeOK, Tasks, LiveTasks, Booting
<1>2. ChannelOK' /\ ReadyOK'
  BY DEF FailLoudly, IInv, TypeOK, ChannelOK, ReadyOK
<1>3. TasksOK'
  BY DEF FailLoudly, IInv, TypeOK, TasksOK, Tasks, LiveTasks
<1> QED BY <1>1, <1>2, <1>3 DEF IInv

\* main goes on.
LEMMA MainKeeps ==
    ASSUME IInv, Main
    PROVE  IInv'
<1> USE DEF IInv, TypeOK, ChannelOK, ReadyOK, TasksOK, Tasks, LiveTasks, Booting
<1>1. CASE Migrated
  BY <1>1 DEF Migrated, Spawn
<1>2. CASE Attach
  BY <1>2 DEF Attach, Spawn
<1>3. CASE BindPort
  BY <1>3 DEF BindPort
<1>4. CASE LiveTaskDown
  BY <1>4 DEF LiveTaskDown
<1>5. CASE Drained
  BY <1>5 DEF Drained
<1>6. CASE Exit
  BY <1>6, EndKeeps DEF Exit
<1> QED BY <1>1, <1>2, <1>3, <1>4, <1>5, <1>6 DEF Main

\* The supervisors notice what has died.
LEMMA WatchKeeps ==
    ASSUME IInv, Watch
    PROVE  IInv'
<1>1. CASE WatchMaintenance
  BY <1>1 DEF WatchMaintenance, IInv, TypeOK, ChannelOK, ReadyOK, TasksOK, Tasks,
              LiveTasks, Booting
<1>2. CASE \E k \in LiveTasks : Supervise(k)
  <2> PICK k \in LiveTasks : Supervise(k)
    BY <1>2
  <2>1. task[k] # "none" /\ faults' \in 0..MaxFaults /\ FailLoudly(k)
    BY DEF Supervise, IInv, TypeOK
  <2> QED BY <2>1, FailLoudlyKeeps
<1> QED BY <1>1, <1>2 DEF Watch

\* Tasks die unnoticed or stop as they are told.
LEMMA TaskKeeps ==
    ASSUME IInv, NEW k \in Tasks, Panic(k) \/ StopOnShutdown(k)
    PROVE  IInv'
<1>1. CASE Panic(k)
  BY <1>1, FaultKeeps DEF Panic, Running, IInv, TypeOK, ChannelOK, ReadyOK, TasksOK,
              Tasks, LiveTasks, Booting
<1>2. CASE StopOnShutdown(k)
  BY <1>2 DEF StopOnShutdown, Running, IInv, TypeOK, ChannelOK, ReadyOK, TasksOK,
              Tasks, LiveTasks, Booting
<1> QED BY <1>1, <1>2

\* What the process knows of itself is true in every reachable state.
THEOREM Invariance == Spec => []IInv
<1>1. Init => IInv
  <2> SUFFICES ASSUME Init PROVE IInv
    OBVIOUS
  <2>1. TypeOK
    <3>1. faults \in 0..MaxFaults
      BY LifecycleAssumption DEF Init
    <3>2. task \in [Tasks -> {"none", "running", "dead", "over"}]
      BY DEF Init, NoTasks
    <3>3. ready \in BOOLEAN /\ shutdown \in BOOLEAN /\ abnormal \in BOOLEAN /\ failed \in BOOLEAN
      BY DEF Init
    <3> QED BY <3>1, <3>2, <3>3 DEF Init, TypeOK, Booting
  <2>2. ChannelOK /\ ReadyOK
    BY DEF Init, ChannelOK, ReadyOK
  <2>3. TasksOK
    BY DEF Init, NoTasks, TasksOK, Tasks, LiveTasks
  <2> QED BY <2>1, <2>2, <2>3 DEF IInv
<1>2. IInv /\ [Next]_vars => IInv'
  <2> SUFFICES ASSUME IInv, [Next]_vars PROVE IInv'
    OBVIOUS
  <2>1. CASE Start
    BY <2>1 DEF Start, IInv, TypeOK, ChannelOK, ReadyOK, TasksOK, Tasks, LiveTasks,
                Booting
  <2>2. CASE Main
    BY <2>2, MainKeeps
  <2>3. CASE Watch
    BY <2>3, WatchKeeps
  <2>4. CASE BootFails
    BY <2>4, EndKeeps, FaultKeeps DEF BootFails
  <2>5. CASE Terminate
    BY <2>5, FaultKeeps DEF Terminate, IInv, TypeOK, ChannelOK, ReadyOK, TasksOK,
                Tasks, LiveTasks, Booting
  <2>6. CASE Crash
    BY <2>6, EndKeeps, FaultKeeps DEF Crash
  <2>7. CASE KubeletKills
    BY <2>7, EndKeeps DEF KubeletKills, IInv, TypeOK
  <2>8. CASE IntakeGivesUp
    BY <2>8, FailLoudlyKeeps, FaultKeeps DEF IntakeGivesUp, Running, LiveTasks
  <2>9. CASE \E k \in Tasks : Panic(k) \/ StopOnShutdown(k)
    BY <2>9, TaskKeeps
  <2>10. CASE \E c \in Clients : Open(c) \/ Close(c)
    BY <2>10 DEF Open, Close, IInv, TypeOK, ChannelOK, ReadyOK, TasksOK, Tasks,
                LiveTasks, Booting
  <2>11. CASE UNCHANGED vars
    BY <2>11 DEF vars, IInv, TypeOK, ChannelOK, ReadyOK, TasksOK
  <2> QED BY <2>1, <2>2, <2>3, <2>4, <2>5, <2>6, <2>7, <2>8, <2>9, <2>10, <2>11 DEF Next
<1> QED BY <1>1, <1>2, PTL DEF Spec

\* The process keeps its types; nobody streams from one that does not serve.
THEOREM LifecycleTypes == Spec => []TypeOK
<1>1. IInv => TypeOK
  BY DEF IInv
<1> QED BY <1>1, Invariance, PTL

\* main leaves with an error exactly if a live task had failed.
THEOREM VerdictIsRight == Spec => []ExitCodeTells
<1>1. IInv => ExitCodeTells
  BY DEF IInv, ChannelOK, ExitCodeTells
<1> QED BY <1>1, Invariance, PTL

\* Nothing but the failure of a live task takes a serving process down.
THEOREM HousekeepingIsNoOutage == Spec => []OnlyLiveTasksFailLoud
<1>1. IInv => OnlyLiveTasksFailLoud
  BY DEF IInv, ChannelOK, ReadyOK, OnlyLiveTasksFailLoud
<1> QED BY <1>1, Invariance, PTL

\* A ready answer never stands before a missing intake, and before one that has
\* ended only while the process is leaving.
THEOREM ReadinessIsHonest == Spec => []ReadyOverDeadIsLeaving
<1>1. IInv => ReadyOverDeadIsLeaving
  BY DEF IInv, TasksOK, ReadyOverDeadIsLeaving
<1> QED BY <1>1, Invariance, PTL

=============================================================================
