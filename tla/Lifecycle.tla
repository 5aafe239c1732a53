------------------------------ MODULE Lifecycle ------------------------------
(***************************************************************************)
(* One pod of svc-notifier: the boot order of fn main, its tasks and their *)
(* supervisors, readiness, the shutdown channel, the graceful shutdown     *)
(* that waits for open subscription streams, the verdict on leaving, and   *)
(* the kubelet that probes, kills and restarts it (src/main.rs, the        *)
(* endings of src/intake.rs, the probes of charts/br-svc-notifier).        *)
(***************************************************************************)
EXTENDS Naturals

CONSTANTS
    Clients,    \* clients that may hold a subscription stream open
    WithNats,   \* NATS_URL is set: the intake is part of the process
    MaxFaults   \* bound: failures and terminations in one behaviour

ASSUME LifecycleAssumption == WithNats \in BOOLEAN /\ MaxFaults \in Nat

LiveTasks == {"listener", "intake"}

Tasks == LiveTasks \cup {"retention"}

VARIABLES
    main,      \* how far fn main has come
    task,      \* each spawned task: a dead one is not yet noticed
    ready,     \* the readiness handle
    shutdown,  \* the value in the shutdown watch channel
    streams,   \* clients with an open subscription stream
    abnormal,  \* terminated_abnormally
    failed,    \* history: a live task failed before main read the channel
    faults     \* failures and terminations so far

vars == <<main, task, ready, shutdown, streams, abnormal, failed, faults>>

Booting == {"migrating", "attaching", "binding"}

TypeOK ==
    /\ main \in {"down", "serving", "draining", "leaving"} \cup Booting
    /\ task \in [Tasks -> {"none", "running", "dead", "over"}]
    /\ ready \in BOOLEAN
    /\ shutdown \in BOOLEAN
    /\ streams \subseteq Clients
    /\ abnormal \in BOOLEAN
    /\ failed \in BOOLEAN
    /\ faults \in 0..MaxFaults
    /\ main \in {"down", "leaving"} \cup Booting => streams = {}

NoTasks == [k \in Tasks |-> "none"]

Init ==
    /\ main = "down"
    /\ task = NoTasks
    /\ ready = FALSE
    /\ shutdown = FALSE
    /\ streams = {}
    /\ abnormal = FALSE
    /\ failed = FALSE
    /\ faults = 0

Fault == faults < MaxFaults /\ faults' = faults + 1

Running(k) == task[k] = "running"

\* The process is gone, its tasks and connections with it.
End ==
    /\ main' = "down"
    /\ task' = NoTasks
    /\ ready' = FALSE
    /\ shutdown' = FALSE
    /\ streams' = {}
    /\ abnormal' = FALSE
    /\ failed' = FALSE

-----------------------------------------------------------------------------
(* fn main *)

\* The kubelet starts the container.
Start ==
    /\ main = "down"
    /\ main' = "migrating"
    /\ UNCHANGED <<task, ready, shutdown, streams, abnormal, failed, faults>>

Spawn(S) == task' = [k \in Tasks |-> IF k \in S THEN "running" ELSE task[k]]

\* run_migrations and the app pool are through: the listener is spawned.
Migrated ==
    /\ main = "migrating"
    /\ main' = "attaching"
    /\ Spawn({"listener"})
    /\ UNCHANGED <<ready, shutdown, streams, abnormal, failed, faults>>

\* With NATS the ingest pool, the fabric and the consumer come first.
Attach ==
    /\ main = "attaching"
    /\ main' = "binding"
    /\ Spawn(IF WithNats THEN {"intake", "retention"} ELSE {})
    /\ UNCHANGED <<ready, shutdown, streams, abnormal, failed, faults>>

\* The port is bound and set_ready is called, whatever happened meanwhile.
BindPort ==
    /\ main = "binding"
    /\ main' = "serving"
    /\ ready' = TRUE
    /\ UNCHANGED <<task, shutdown, streams, abnormal, failed, faults>>

\* A `?` of the boot: main returns its error.
BootFails ==
    /\ Fault
    /\ main \in Booting
    /\ End

\* SIGTERM or ctrl_c, once shutdown_signal is polled.
Terminate ==
    /\ Fault
    /\ main = "serving"
    /\ main' = "draining"
    /\ UNCHANGED <<task, ready, shutdown, streams, abnormal, failed>>

\* Out of memory, SIGKILL, or a SIGTERM before anybody listens for it.
Crash ==
    /\ Fault
    /\ main # "down"
    /\ End

\* Mutant of LiveTaskDown: only signals end the serving.
LiveTaskDownUnheard == FALSE /\ UNCHANGED vars

\* The channel turns true: serve accepts no more, and waits for what is open.
LiveTaskDown ==
    /\ main = "serving"
    /\ shutdown
    /\ main' = "draining"
    /\ UNCHANGED <<task, ready, shutdown, streams, abnormal, failed, faults>>

\* Mutant of Drained: main tells the tasks first and reads the channel then.
DrainedTellsFirst ==
    /\ main = "draining"
    /\ streams = {}
    /\ main' = "leaving"
    /\ abnormal' = TRUE
    /\ shutdown' = TRUE
    /\ UNCHANGED <<task, ready, streams, failed, faults>>

\* Mutant of Drained: serve does not wait for open connections.
DrainedAtOnce ==
    /\ main = "draining"
    /\ main' = "leaving"
    /\ abnormal' = shutdown
    /\ shutdown' = TRUE
    /\ UNCHANGED <<task, ready, streams, failed, faults>>

\* serve returns: main reads the channel, then tells the tasks to stop.
Drained ==
    /\ main = "draining"
    /\ streams = {}
    /\ main' = "leaving"
    /\ abnormal' = shutdown
    /\ shutdown' = TRUE
    /\ UNCHANGED <<task, ready, streams, failed, faults>>

\* main returns, with an error if abnormal; the runtime drops the tasks.
Exit ==
    /\ main = "leaving"
    /\ End
    /\ UNCHANGED faults

-----------------------------------------------------------------------------
(* The tasks and their supervisors *)

\* A panic, which nobody has noticed yet.
Panic(k) ==
    /\ Fault
    /\ Running(k)
    /\ task' = [task EXCEPT ![k] = "dead"]
    /\ UNCHANGED <<main, ready, shutdown, streams, abnormal, failed>>

\* Mutant of FailLoudly: readiness goes down and the process stays.
FailQuietly(k) ==
    /\ task' = [task EXCEPT ![k] = "over"]
    /\ ready' = FALSE
    /\ failed' = (failed \/ main # "leaving")
    /\ UNCHANGED <<main, shutdown, streams, abnormal>>

\* fn fail_loud, and the end of fn supervise.
FailLoudly(k) ==
    /\ task' = [task EXCEPT ![k] = "over"]
    /\ ready' = FALSE
    /\ shutdown' = TRUE
    /\ failed' = (failed \/ main # "leaving")
    /\ UNCHANGED <<main, streams, abnormal>>

\* Mutant of Supervise: the listener is spawned and forgotten.
SuperviseIntakeOnly(k) ==
    /\ k = "intake"
    /\ task[k] = "dead"
    /\ FailLoudly(k)
    /\ UNCHANGED faults

\* fn supervise on the listener and the intake.
Supervise(k) ==
    /\ task[k] = "dead"
    /\ FailLoudly(k)
    /\ UNCHANGED faults

\* The intake gives up: receive errors, a closed stream.
IntakeGivesUp ==
    /\ Fault
    /\ Running("intake")
    /\ FailLoudly("intake")

\* Mutant of WatchMaintenance: the retention is supervised like a live task.
WatchMaintenanceEscalates ==
    /\ task["retention"] = "dead"
    /\ task' = [task EXCEPT !["retention"] = "over"]
    /\ ready' = FALSE
    /\ shutdown' = TRUE
    /\ UNCHANGED <<main, streams, abnormal, failed, faults>>

\* fn watch_maintenance: the death of the retention is logged.
WatchMaintenance ==
    /\ task["retention"] = "dead"
    /\ task' = [task EXCEPT !["retention"] = "over"]
    /\ UNCHANGED <<main, ready, shutdown, streams, abnormal, failed, faults>>

\* fn consume (which drains) and fn purge_dead_letters end on the channel; the
\* listener does not know it.
StopOnShutdown(k) ==
    /\ k # "listener"
    /\ Running(k)
    /\ shutdown
    /\ task' = [task EXCEPT ![k] = "over"]
    /\ UNCHANGED <<main, ready, shutdown, streams, abnormal, failed, faults>>

-----------------------------------------------------------------------------
(* The clients and the kubelet *)

Open(c) ==
    /\ main = "serving"
    /\ c \notin streams
    /\ streams' = streams \cup {c}
    /\ UNCHANGED <<main, task, ready, shutdown, abnormal, failed, faults>>

Close(c) ==
    /\ c \in streams
    /\ streams' = streams \ {c}
    /\ UNCHANGED <<main, task, ready, shutdown, abnormal, failed, faults>>

\* Nobody answers /livez before the port is bound and after it is closed: the
\* probe fails and the container is killed when its grace period is over.
KubeletKills ==
    /\ main \in {"draining", "leaving"} \cup Booting
    /\ End
    /\ UNCHANGED faults

Main == Migrated \/ Attach \/ BindPort \/ LiveTaskDown \/ Drained \/ Exit

Watch == WatchMaintenance \/ \E k \in LiveTasks : Supervise(k)

Next ==
    \/ Start \/ Main \/ Watch \/ BootFails \/ Terminate \/ Crash \/ KubeletKills
    \/ IntakeGivesUp
    \/ \E k \in Tasks : Panic(k) \/ StopOnShutdown(k)
    \/ \E c \in Clients : Open(c) \/ Close(c)

Spec == Init /\ [][Next]_vars

\* main and the supervisors go on as long as the runtime runs them; the
\* kubelet probes and restarts.  Clients close their streams when they please.
Fairness ==
    /\ WF_vars(Main)
    /\ WF_vars(Start)
    /\ WF_vars(KubeletKills)
    /\ \A k \in LiveTasks : WF_vars(Supervise(k))

FairSpec == Spec /\ Fairness

-----------------------------------------------------------------------------
(* Properties. *)

\* The exit code tells a failure from a termination: when main leaves it takes
\* the process for abnormal exactly if a live task has failed, although main
\* itself turns the same channel true to stop the tasks (comment of the error,
\* main.rs; CHANGELOG: a termination still exits zero).
ExitCodeTells == main = "leaving" => (abnormal <=> failed)

\* Housekeeping is no outage: as long as the process serves or drains, only the
\* failure of a live task has taken readiness down or ended the serving, never
\* the death of the retention task (README, "its death is logged loudly, but
\* it never touches readiness").
OnlyLiveTasksFailLoud ==
    main \in {"serving", "draining"} /\ (shutdown \/ ~ready) => failed

\* A probe that answers ready never stands before a missing intake: the
\* consumer is bound before the port (README, "the bind gates readiness"); and
\* when a live task has ended all the same, because it failed before set_ready
\* was called, the process is on its way out.
ReadyOverDeadIsLeaving ==
    main = "serving" /\ ready =>
        /\ WithNats => task["intake"] # "none"
        /\ \A k \in LiveTasks : task[k] = "over" => shutdown

\* A live task that dies comes back with a new process, although clients may
\* hold their streams, and the drain with them, for as long as they like.
LiveTaskComesBack ==
    \A k \in LiveTasks : task[k] \in {"dead", "over"} ~> main = "down"

\* A client never stays on a stream that nobody feeds any more: keep-alives go
\* on when the listener is dead, and the stream ends with the process, so that
\* the client opens a new one.
UnfedStreamEnds ==
    \A c \in Clients :
        c \in streams /\ ~Running("listener") ~> c \notin streams

=============================================================================
