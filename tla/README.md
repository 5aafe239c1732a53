# svc-notifier: a verification project

TLA+ models of BotResources/svc-notifier, TLC configurations that check them on
small instances, and TLAPS proofs of what matters most for every instance. The
models are written from the code in `src/`; line numbers refer to it. Paths below
are relative to the repository (`intake.rs` is `src/intake.rs`).

- [1. The system](#1-the-system)
- [2. Modules](#2-modules)
- [3. Intake](#3-intake-the-write-path)
- [4. Realtime](#4-realtime-the-read-path)
- [5. Requests and pages](#5-requests-and-pages)
- [6. The process](#6-the-process)
- [7. From publisher to list](#7-from-publisher-to-list)
- [8. Runs](#8-runs-and-what-they-show)
- [9. Fairness](#9-fairness)
- [10. Proofs](#10-proofs)
- [11. Where code and documentation disagree](#11-where-code-and-documentation-disagree)
- [12. Not modelled](#12-not-modelled-and-why)
- [13. Plan](#13-plan)

## 1. The system

Publishers put `deliver` commands on a JetStream stream. Each service process
consumes them, writes one notification per recipient into PostgreSQL, and serves
those notifications over GraphQL; open sessions are told of changes through
PostgreSQL's LISTEN/NOTIFY.

    publisher ──frame──▶ stream ──▶ intake ──INSERT + pg_notify──▶ PostgreSQL
                           ▲           │                          ▲       │ NOTIFY
                           └ack/nak/term                mutations ┘       ▼
                                       session ◀── stream ◀── ring ◀── listener

| Component | State | Operations | Hard behaviour | What makes it correct |
|---|---|---|---|---|
| Intake consumer (`intake.rs`) | position of the loop, delivery in hand, consecutive receive errors, streak | receive, validate, fan out, abandon, settle; fail loud | redelivery, two replicas at once, lost commit answers, lost settlements, panics, restarts | an acknowledgement means every recipient was reached; a TERM means the abandonment is on the ledger; nothing is half delivered; nothing stays unsettled |
| Dead-letter ledger (`intake.rs` 426-509, migrations 2-4) | a line per command | record, purge after 90 days | unwritable ledger, lost answer, redelivered TERM | one line per abandoned command, before the TERM |
| Intake metrics (`intake.rs` 75-165, 218-225) | gauge, counters | observe | the gauge is reset by unrelated successes | see section 11 |
| Process lifecycle (`main.rs`) | readiness, shutdown channel, tasks | boot, set_ready, supervise, drain, exit | a task dies during boot; the drain waits for open streams | a dead live task takes the process down, and it comes back; housekeeping does not; the exit code tells which |
| Notification store (`notification.rs`, migration 1) | rows, unique on (source event, recipient) | insert, list, count, mark, delete | the deduplication key goes with a deleted row; statements of one request see different snapshots | first write wins; a page walk misses nothing that stays |
| Signals (`notification.rs` 42-132) | none | one signal per added row, bulk facts in chunks | payload limit aborts the write; order of commits | every committed transition is signalled, once |
| Realtime listener and registry (`realtime.rs`) | LISTEN connection, signal in hand, recipient → broadcast channel | dispatch, re-read, deliver, subscribe, evict | lost connection, failing re-read, subscribe against evict, overflow | a session converges on its recipient's rows |
| GraphQL queries (`graphql.rs` 107-138) | none | page, unread count | deletes between two pages, between anchor and page | a lost anchor is never answered as an end |
| GraphQL mutations (`graphql.rs` 140-201) | none | mark one, mark all, delete one, delete many | concurrent marks and deletes of one row, deadlocks, lost commit answers | acknowledged means done; NOT_FOUND means gone; announced once; answered |
| GraphQL subscription (`graphql.rs` 203-264) | the receiver of a stream | next event, lag verdict | lag, restart | no event after a loss |
| Caller scoping (`graphql.rs`, `main.rs`) | the recipient of a request | resolve, scope the transaction | none | a caller touches its own rows only |
| Contract crate | none | parse a link, the typed command | characters at the edges of the rule | links stay on their domain; what is typed is accepted; what is stored can be read |
| Publisher crate | none | wrap and publish one command | none | none of its own |
| Release pipeline (`scripts/`, workflows) | registry, tags, branches | gate, implement, publish | cancelled and repeated runs, partial publishes | what is tagged is published whole |
| Chart, image, tests | none | none | none | read as assumptions and as statements of intent |

Calls and shared state: the intake and the mutations share the notifications
table with the listener's re-reads and the queries. The registry is shared by
the listener and the subscriptions, behind one mutex. The shutdown channel and
the readiness handle are shared by `main`, the intake and the supervisors.

## 2. Modules

| Module | What it is |
|---|---|
| `Intake` | the write path: intake, ledger, process, hard deletes, and the broker as an environment |
| `Delivery` | the abstract promise to a publisher that `Intake` implements |
| `IntakeInv` | the inductive invariant of `Intake` |
| `IntakeProofs` | its proof, and the safety properties as theorems |
| `IntakeRefines` | the proof that `Intake` implements `Delivery` |
| `MCIntake` | instances of `Intake` for TLC |
| `Realtime` | the read path: signals, listener, registry, streams, the client's reconnect protocol |
| `RealtimeInv` | the inductive invariants of `Realtime`: `WayOK`, and `CourseOK` on top of it |
| `Streams` | `Realtime` with a record of what each stream has told its client |
| `RealtimeProofs` | the proof of `WayOK`, and the safety properties it gives |
| `RealtimeConverges` | the proofs of `CourseOK`, that sessions converge, and of what a stream promises (`Streams`) |
| `MCRealtime`, `MCStreams` | instances of `Realtime` and of `Streams` for TLC |
| `Inbox` | the abstract store: one notification's life, announced step by step |
| `Requests` | the four mutations as transactions with snapshots, row locks, deadlocks and failures; implements `Inbox` |
| `RequestsProofs` | its inductive invariant, its safety properties and its implementation of `Inbox` as theorems |
| `MCRequests` | an instance of `Requests` for TLC |
| `Listing` | a client's walk over the pages of its list, on top of `Inbox` |
| `ListingProofs` | the proofs that pages descend, stay within the cap, and miss nothing |
| `MCListing` | an instance of `Listing` for TLC |
| `Lifecycle` | one pod: boot, tasks, supervisors, drain, exit, kubelet |
| `LifecycleProofs` | its inductive invariant and its safety properties as theorems |
| `MCLifecycle` | an instance of `Lifecycle` for TLC |
| `Wire` | one command from the publisher's types to the row that is read back |
| `WireProofs` | what the readers of a command promise one another, as theorems |
| `MCWire` | an instance of `Wire` for TLC |

The modules meet in the notifications table. `Commit` of `Intake` is an `Insert`
of `Realtime` and an `Arrive` of `Inbox`; `MarkRead` and `Delete` of `Realtime`
are those of `Inbox`, one committed change with its signals. `Requests` shows
that the mutations really behave like `Inbox` although their statements
interleave; `Listing` extends `Inbox` and reads while it moves. `Realtime` and
`Listing` may therefore take a write for one step. `Intake` keeps the process in
a simpler form than `Lifecycle`, which has the open streams and the kubelet.
The modules are otherwise checked apart: a signal has no influence on the intake,
a command none on a session.

Operators named "Mutant of ..." are not part of a model: each is a plausible bug,
kept beside the definition it changes to show that a property notices.

## 3. Intake: the write path

A command is an abstract value; constants say what the code can tell apart about
it: its source event, its recipients, and which faults validation (`shape`,
`link`, `template`, no recipients) or PostgreSQL (`storage`: class 22 or 23) will
find. Several frames may carry the same command. One that does not decode carries
`Unreadable`.

| Variable | Code |
|---|---|
| `frame` | the message on the stream: available, outstanding, naked, acked, termed, evicted |
| `rows`, `added` | the notifications table by deduplication key; history of insertions |
| `ledger`, `aged`, `recorded` | dead_letters by command; lines past retention; history of lines |
| `main`, `ready`, `shutdown` | position of `fn main`, `ReadinessHandle`, the watch channel |
| `loop`, `held`, `writing`, `verdict` | position of `fn consume` and `fn handle`, delivery in hand, uncommitted keys, `Verdict` |
| `errors`, `streak` | `consecutive_errors`, `transient_streak` |

One delivery goes handling → (inserted | abandoning) → settling → idle; each
arrow is an await at which another replica, the broker or a crash may step in.
`Insert` waits while another transaction has inserted one of its keys, as the
unique index makes it. `CommitUnseen`, `LedgerUnseen` and `SettleLost` are the
lost answers: the effect has happened and the caller sees an error. `Exit` and
`Crash` drop the intake at any await; its transaction rolls back, its delivery
stays outstanding until `AckWaitExpires`. `FailLoud` lowers readiness and raises
the shutdown channel; the process ends when the server has drained (`StopServing`,
`Exit`) and is booted again.

Assumptions about the environment:

- The broker delivers at least once, to any replica, and loses a frame only
  through its retention (`Evict`, allowed for the frames in `Evictable`).
- A ledger line reaches 90 days only when no frame of its command is left: the
  stream keeps a frame 7 days, so `Age` requires every frame of the command to be
  gone and in nobody's hands. A publisher that republished a command 90 days
  later would get a second ledger line.
- `ListenerDies` stands for the other supervised task.

The hold-one-and-nak loop is not timed: the 1 s NAK delay and the 30 s ack_wait
order nothing the properties depend on.

## 4. Realtime: the read path

| Variable | Code |
|---|---|
| `row` | a notification: absent, unread, read, deleted |
| `channel` | the LISTEN of an instance: starting, listening, broken |
| `feed` | signals on its connection, in commit order |
| `stage`, `hand` | position of `fn dispatch`, the fact it holds |
| `registry` | keys of `Subscribers.inner` |
| `phase`, `ring`, `overrun` | a session's stream: closed, open, synced; unread events of its receiver; receiver lagged |
| `view` | what its client shows |
| `missed` | history: why signals were lost to it |

Writes are committed transitions: PostgreSQL's row locks order two writers of the
same row, and both marks signal only rows that made the transition, so the
interleaving of statements inside transactions changes who announces a
transition and never how often. `MarkRead` takes any set of unread rows: one id
for `mark_as_read`, the rows its statement saw for `mark_all_as_read`.

`dispatch` has its awaits as steps: `Take` (the registry check), `Reread` (its
answer at the time of the query), `Deliver`. Read and deleted facts have none
and are one step (`Forward`). A signal that does not decode is passed over
(`Undecodable`). `Subscribers::active` checks and evicts under the lock that
`subscribe` takes.

A receiver's unread part of the broadcast ring is `ring`; a full one loses its
oldest event and raises `overrun`, and the next poll ends the stream. The client
is external: it opens, takes its snapshot in one query, then folds by id (README,
"Reconnect protocol"). It reads no event before its snapshot, so `Capacity`
stands for the ring and what the transport absorbs.

`LoseChannel` keeps any prefix of the signals already sent to the connection.
`Restart` forgets everything an instance has in memory.

`missed` decides which sessions `Converged` speaks of. It starts empty when a
stream opens, with one exception the model checker found: if the listener is just
delivering an added notification when the connection breaks, its deletion is
lost, and a stream opened before that delivery is handed a notification that is
gone. `Open` therefore keeps the history while the listener's hands are engaged.

`Streams` adds two history variables, computed from what a step does to a ring
and not from which action it is: `told`, what the stream last handed out about
each notification, and `gap`, that its ring has overwritten an event it had not
handed out. No action reads them. With them two promises can be stated about the
sequence of events itself, whatever a client makes of it: `ToldInOrder`, although
an added event waits for a re-read and read and deleted events do not, and
`NothingPastGap`, although the overwriting is done by the listener and the ending
by the stream, at its next poll.

## 5. Requests and pages

`Inbox` is the promise: a notification goes absent → unread → read → deleted, a
change of several notifications of one recipient is one step, and `told` grows by
one fact per transition in that step.

`Requests` is the code under PostgreSQL's rules. A request is a mutation with the
ids it names and the passport of its sender.

| Variable | Code and database |
|---|---|
| `row`, `told` | committed rows; signals in commit order |
| `stage` | where the resolver stands, and what it answered |
| `seen` | what the statement's snapshot showed (`before` of `mark_as_read`) |
| `todo` | rows that matched in the snapshot and are still to be visited |
| `held`, `done` | row locks; rows changed and not yet committed |

`Begin` is `scoped_tx` and the snapshot. `Visit` is READ COMMITTED on one row:
wait for its lock, look at the newest committed version, change it if it still
matches, keep the lock if the row still exists. `Refuse`, `Commit`,
`CommitUnseen` and `Fail` end the transaction; `BreakDeadlock` is PostgreSQL's
detector, which aborts one request of a cycle. The order in which a plan visits
its rows is left open, so two bulk statements may deadlock. `mark_as_read`
decides NOT_FOUND by its snapshot, a single delete by what it removed, and the
bulk mutations never; `Nothing` says so. A lost commit answer and a resend
(`Retry`) are in the budget. `NotFoundIsGone` and `AckedIsDone` are what makes
these different bases of an answer agree.

`Listing` reads through `list_notifications`: `FindAnchor` or `NotFound` is the
first statement, `ReadPage` or `PageFails` the second, and the store may move in
between. `Limit` is the clamp, `Fetched` the page with its one extra row,
`Beyond` the row comparison, which is NULL when the cursor's row is gone. The
client (external) takes the last node for its next cursor and starts over at
NOT_FOUND, as README tells it. Notifications commit in any order whatever their
`created_at`, since that is the start of the inserting transaction; two may carry
the same instant. `Corrupt` are rows whose link no longer parses. The window
between the two statements is in the model: `blind` notes that a page followed a
cursor that was gone, `WalkMissesNothing` excepts it, and the run `page_window`
shows what happens in it.

## 6. The process

`Lifecycle` follows `fn main`: migrations and app pool, listener, ingest pool and
fabric and consumer and intake and retention (with `NATS_URL`), port and
`set_ready`, serving, draining, leaving. A task is running, dead (ended by a panic
and not yet noticed), or over. `Supervise` is the supervisor of a live task,
`WatchMaintenance` that of the retention; `IntakeGivesUp` is `fail_loud`. The
shutdown channel has two writers: whoever fails loud, and `main` once the server
has returned. `Drained` waits for every open stream, as axum's graceful shutdown
does; a client may hold its stream for ever.

The kubelet is external: it starts the container (`Start`) and kills one whose
liveness probe gets no answer (`KubeletKills`), which the chart's probe on
`/livez` makes true of a process before the port is bound and after the listening
socket is closed. This is the whole reason why a drain that waits for a client
ends when no pod is being deleted; Kubernetes' grace period covers the other
case (`Terminate`, then the same kill).

`failed` is the history of `ExitCodeTells` and `OnlyLiveTasksFailLoud`: a live
task has failed before `main` read the channel.

## 7. From publisher to list

`Wire` takes one command through every reader of its text: the types of the
contract crate (`Constructible`), serde writing a `DeliverNotification`
(`Encode`) and reading a `RawDeliver` (`Decodes`, `RawLink`), `fn validate`
(`Rejection`, its checks in order), the columns of the table (`Columns`),
PostgreSQL (`Storable`: no U+0000), and `from_row` (`Hydrates`). The variables
keep the three forms apart: `meant` is the typed command, `frame` the JSON on
the stream, `row` what was stored. In the JSON the link may be missing (what is
written for no link), null, of another type than string, or a text; `RawDeliver`
takes the first two for no link and the third for a payload of the wrong shape.
`TypedArrives` relates `meant` to `row` across both types: writing no link as an
empty text, say, would have every such command abandoned. A publisher is typed,
or anybody who can publish JSON under the same coordinates (`PublishRaw`). A
text is a sequence of the classes that any of these readers, or a browser, tells
apart: slash, backslash, space, newline (whitespace that is a control character
as well), nul (a control character that is no whitespace), letter. `StaysHome`
is the reference: how a browser resolves a link, with leading blanks and all
newlines dropped (`Kept`) and a backslash read as a slash.

## 8. Runs and what they show

| Run | Instance | Properties | Shows |
|---|---|---|---|
| `fan_out` | 2 replicas, 2 commands of one event sharing a recipient, 2 faults, 1 delete per key, evictions | `TypeOK`, `AckedMeansReached`, `NoPartialFanOut`, `FirstWins` | deliveries that race, repeat and crash leave each recipient reached, each row as first written |
| `abandon` | 2 replicas, a deliverable and a storage-rejected command, an unreadable frame, evictions, 1 fault | `IInv`, `UnreadableHeld`, `OneLinePerCommand`, `AbandonedReachesNobody`, `TermedOnlyOnLedger`, `Delivers` | one ledger line, always before the TERM; delivered or abandoned, never both; an unreadable frame is held; `Intake` implements `Delivery` |
| `liveness` | 1 replica, a deliverable command, a refused payload, an unreadable frame, 2 faults, fair | `EventuallySettled` | every readable frame is settled for good, through the death and the restart of the intake |
| `stream` | 1 session, 2 notifications, ring of 1, chunks of 1, 2 faults, fair | `CourseOK`, `Converged`, `StaleIsRepaired` | the reconnect protocol converges under overflow, re-reads, undecodable signals, restarts and reconnects, and nothing stays wrong for ever |
| `sessions` | 3 sessions of 2 recipients, a notification each, ring of 1 (`MCStreams`) | `TypeOK`, `NothingForeign`, `RegistryHoldsStreams`, `ToldInOrder`, `NothingPastGap` | a fan-out stays apart by recipient; eviction never strands an open stream; a row that is gone is never delivered; a stream tells its events in order and nothing past a hole |
| `requests` | 2 users, 3 notifications, any 3 of 6 requests (both marks, both deletes, an impersonator, a service), 2 failures or retries, fair | `TypeOK`, `AckedIsDone`, `NotFoundIsGone`, `ToldOnce`, `OnlyTheActorsOwn`, `Implements`, `Answered` | an answer is the truth about every row the request saw; a transition is announced once; nobody touches foreign rows; deadlocks end; the store behaves like `Inbox` |
| `walk` | 4 notifications, two of one instant, one corrupt, pages of 1 and 2, `first` of 0 and 9, fair | `TypeOK`, `WalkMissesNothing`, `PagesDescend`, `WalkEnds` | a walk shows all that stays, once, in order, and ends |
| `lifecycle` | the intake, 2 clients, 3 faults, fair | `TypeOK`, `ExitCodeTells`, `OnlyLiveTasksFailLoud`, `ReadyOverDeadIsLeaving`, `LiveTaskComesBack`, `UnfedStreamEnds` | the exit code is right, housekeeping is no outage, nobody stays on a dead stream or behind a dead intake |
| `wire` | every command with a link of up to 4 characters and a template of up to 2 | `LinksStayHome`, `StoredReadsBack`, `TypedArrives`, `OnlyPayloadsPoison` | the writer and the four readers of a command agree |
| `second_row`, `restart`, `page_window` | small | one each | section 11 |

Bounds. `MaxFaults` is the number of failures of one behaviour of `Intake` and
`Realtime`; two are enough for a failure of the recovery from a failure (a lost
commit answer, then a crash during the redelivery). `MaxDeletes` allows a row to
be deleted once after each insertion up to the bound. `MaxRecvErrors` is 10 in the
code and 2 here: the properties tell only below and at the limit apart.
`Capacity` is 256 in the code and 1 or 2 here, so that a ring fills with a handful
of events. `Chunk` is 150 in the code and 1 here, so that a bulk fact over two
notifications needs two signals. Two replicas race over one key, and a third would
repeat what one of them does; the theorems of section 10 hold for any number of
replicas, frames, commands and any bounds. `Realtime` has one instance in its
runs: instances share nothing but the database, and each commit reaches every
instance that listens. Replicas are symmetric, and so are the two sessions of one
recipient; symmetry is used in safety runs only.

`Requests`: `MaxSent` is 3, so that two requests deadlock and a third waits for
one of them, on any three of six requests; `Budget` is 2, a failure and its
retry, or a lost answer and its retry. The impersonator's own notification
is one that `purger` names as well, so that a bulk delete names a foreign row.
`Listing`: `MaxFirst` is 100 in the code and 2 here; 0 and 9 are below and above
the clamp, and four notifications make pages that are full, exactly full and
short. `Lifecycle`: three faults are a dead listener, a dead intake and a dead
retention, or one of them and a termination during the drain and a crash of the
next process; `WithNats = FALSE` leaves two tasks out and adds no step.
`Wire`: every check of a link looks at one character or at the first two, and
four characters put a blank, a control or a backslash before, between and after
them.

`requests`, `walk`, `page_window` and `wire` do not check for deadlock: when all
requests have been answered, the walk is over or the command is where it belongs,
nothing more is owed. All other passing runs check for deadlock.

## 9. Fairness

`Intake!Fairness`: the steps of a task that can go on (`Turn`, `SetReady`,
`StopServing`, `SuperviseIntake`) are weakly fair because tokio schedules every
ready task; `Boot` because Kubernetes restarts the process; `AckWaitExpires`
because JetStream measures it; `Receive` of each frame is strongly fair because
the consumer is offered every frame again and again in turn, although another
frame may be in hand whenever it is (a frame nobody can read is held by NAK
forever and must not starve the others). `Exit` is weakly fair on the assumption
that the graceful drain of the HTTP server ends, which `Lifecycle` examines.
Faults, deletes and evictions are never owed.

`Realtime!FairSpec`: `run_listener` reconnects and dispatches for ever, and a
client goes on reading. No write, no new session and no fault is owed.

`Requests!Fairness`: the database goes on with every statement it has begun
(`Run`), and its deadlock detector runs (`BreakDeadlock`). No request is owed, and
no retry.

`Listing!ListingSpec`: the client asks for the next page as long as the last one
said there is one (`Step`), and stops where it ends. The store owes nothing.

`Lifecycle!Fairness`: `main` and the supervisors of the live tasks are tasks of
the runtime; `Start` and `KubeletKills` because the kubelet restarts containers
and probes them. `Close` is not fair: no client ever has to leave.

## 10. Proofs

TLAPS checks for `Intake`, for all constants that satisfy `SentinelsAssumption`,
`CommandsAssumption` and `BoundsAssumption` (types of the constants; sentinels
are no commands or frames):

| Theorem | States |
|---|---|
| `Invariance` | `Spec => []IInv` |
| `TypeCorrect` | `Spec => []TypeOK` |
| `AckIsHonest` | `Spec => []AckedMeansReached` |
| `UnreadableIsHeld` | `Spec => []UnreadableHeld` |
| `LedgerIsNotInflated` | `Spec => []OneLinePerCommand` |
| `FanOutIsWhole` | `Spec => []NoPartialFanOut` |
| `AbandonmentIsClean` | `Spec => []AbandonedReachesNobody` |
| `TermIsTraced` | `Spec => TermedOnlyOnLedger` |
| `FirstRowWins` | `Spec => FirstWins` |
| `Refinement` | `Spec => Delivers` |

No safety property is inductive by itself. `AckedMeansReached` needs to know that
a `written` verdict is given only after the rows exist (`VerdictsOK`), which needs
the keys of a command to be either in the open transaction or inserted before
(`TransactionsOK`), which needs the loop's position and the delivery it holds to
agree (`HandsOK`) and a task to run only in a live process (`ProcessOK`).
`TermedOnlyOnLedger` needs the ledger line to be there as long as a `poison`
verdict is in somebody's hands (`LedgerOK`), which rests on `Age` waiting for
the last delivery. `IInv` is the conjunction of these parts; TLC checks it in
`abandon`.

The induction step is split by a classification of the steps (`Steps`,
`NextSteps`): each action falls into a kind that says what it may change, and a
part of `IInv` is preserved by each kind. `Refinement` maps `frame` to a fate,
the keys ever inserted to `reached` and the commands ever recorded to `traced`;
`Commit` becomes `Reach`, `Abandon` becomes `Trace`, `Settle` becomes `Deliver`
or `Abandon`, everything else a step of a frame or a stutter.

For `Realtime`, for all constants that satisfy `SessionsAssumption` (the maps of
owners, callers and hosts, finitely many ids), `LimitsAssumption` (ring and chunk
hold at least one) and `NoFactAssumption` (the sentinel is no fact):

| Theorem | States |
|---|---|
| `WayAlwaysOK` | `Spec => []WayOK` |
| `RealtimeTypes` | `Spec => []TypeOK` |
| `NothingForeignHolds` | `Spec => []NothingForeign` |
| `RegistryHolds` | `Spec => []RegistryHoldsStreams` |
| `CourseAlwaysOK` | `Spec => []CourseOK` |
| `SessionsConverge` | `Spec => []Converged` |
| `StreamsTellInOrder` | `StreamsSpec => ToldInOrder` |
| `NothingAfterGap` | `StreamsSpec => NothingPastGap` |

`NothingForeign` speaks of what a client shows, and is inductive only with what
may still reach it: every signal names notifications of the recipient it is
addressed to (`ListenersOK`, from `ChunkedType` and `InsertedType`), and every
ring holds events of its session's recipient (`RingsOK`, from `SendKeeps`).
`RegistryHoldsStreams` is inductive because a step evicts only a recipient that
nobody receives for (`InactiveKeeps`). A fact in hand that was re-read has a
shown row, or the delivery is dropped: `stage` and `hand` agree (`ListenersOK`).

`Converged` speaks of a quiet system only, so nothing about it is inductive until
one says what a system under way owes. `CourseOK` does, for one session at a time
and one notification at a time. The way to a session is its ring, the fact in its
listener's hands and the signals behind them, in this order.

- `ViewOK`: whatever the view shows wrongly, a fact on the way corrects it. A
  quiet way holds none, so the view is right: this gives `Converged`.
- `OrderOK`: on the way, a notification is added before it is read before it is
  deleted. Without it a late fact could undo a correction.
- `PastOK`: nothing is on the way before it has happened, so a new fact can only
  come last.
- `PicturesOK`: the picture that a re-read took of a row may be out of date when
  it is delivered, and then the fact of the change is behind it. This is where a
  lost signal hurts: the picture in the listener's hands when its connection
  breaks is the case in which `Open` must keep the history (section 4).
- `SingleOK`: only added facts are re-read, and they name one notification; the
  listener's one row therefore answers for the whole fact.
- `StreamOK`: what is closed is empty, and a ring keeps within its capacity.

A write puts its facts behind everything it makes wrong (`WriteCourse`); to know
that all of them are there, whatever the size of a chunk, `ChunkOf` finds the
chunk of each id and `ChunkedAnnounces` the signal that carries it. Moving a fact
along the way keeps it on the way (`TakeCourse`, `SentCourse`), a re-read that
finds no row gives up an added fact only when the deletion is behind it
(`RereadCourse`), and folding an event leaves the view as right as the event was
(`ReceiveCourse`). Whatever loses a fact either marks the session as one that has
missed it, or loses it when nobody needs it (`LosesCourse`). TLC checks `CourseOK`
in `stream`, and was also run with a ring of two and with three sessions of two
recipients, which are too long for the runs kept here.

The two promises of `Streams` rest on `TrailOK`, which joins what a stream has
told to what is on its way: what was told has happened (`HappenedSo`), and
everything on the way may follow it (`Continues`), unless the ring has a hole, and
then the receiver is marked as lagged, which ends the stream at its next poll.
What is handed out comes from the way, so it may follow what was told; what is put
on the way is either a fact of something that has just happened, which nothing
told can contradict, or a fact that was on the way already. It is inductive only
together with `CourseOK`, whose `OrderOK` orders the way and whose `PastOK` keeps
what has not happened off it. TLC checks `ToldInOrder` and `NothingPastGap` in
`sessions`, and has checked `TrailOK` on that instance and on the one of `stream`.

For `Requests`, for all constants that satisfy `RequestsAssumption` (types; the
sentinel is no user):

| Theorem | States |
|---|---|
| `RequestTypes` | `Spec => []TypeOK` |
| `AckIsTrue` | `Spec => []AckedIsDone` |
| `NotFoundIsTrue` | `Spec => []NotFoundIsGone` |
| `AnnouncedOnce` | `Spec => []ToldOnce` |
| `NothingForeignTouched` | `Spec => []OnlyTheActorsOwn` |
| `Refinement` | `Spec => Implements` |

A lock is held by one request (`LocksOK`), so a row that has been changed stays as
its request found it until the commit (`ChangesOK`); that makes the commit one
transition per row, hence `ToldOnce` and the step of `Inbox`. `ProgressOK` follows
every row of the snapshot: it is still to be visited, or changed, or settled for
good, because rows only go from unread to read to deleted; with nothing left to
visit, the answer is true.

For `Lifecycle` (`LifecycleAssumption`): `LifecycleTypes`, `VerdictIsRight`
(`ExitCodeTells`), `HousekeepingIsNoOutage` (`OnlyLiveTasksFailLoud`),
`ReadinessIsHonest` (`ReadyOverDeadIsLeaving`). Until `main` leaves, the shutdown
channel is true exactly if a live task has failed (`ChannelOK`): `StopOnShutdown`,
`Panic` and the retention leave it alone, and `Drained` reads it before it writes.

For `Listing` (`ListingAssumption`: times and ranks are numbers, ranks are
unique, the ids are finitely many):

| Theorem | States |
|---|---|
| `ListingTypes` | `ListingSpec => []TypeOK` |
| `NothingShownTwice` | `ListingSpec => PagesDescend` |
| `NothingMissed` | `ListingSpec => []WalkMissesNothing` |

The cursor is the oldest notification the walk has shown (`WalkOK`); that a page
has an oldest one is `OldestExists`, from the least-number principle on times and
then on ranks. `WalkMissesNothing` says nothing of a walk under way, and is
inductive with `CompleteOK`: what stood at the first page, still stands and has
not been shown is older than the cursor. The store only moves what stood to
deleted, for good (`RowsMoveOn`), which leaves the debt as it is; a page keeps
it beyond the new cursor, and the last page pays it (`PageOwesTheRest`). That
rests on three facts about `ORDER BY ... DESC LIMIT n`, each for any finite set
of rows: it returns at most n (`NewestIsBounded`, hence the cap in `TypeOK`); it
leaves out only what is older than all it returns (`NewestLeavesTheOldest`); and
a `LIMIT n + 1` that returns n rows or fewer has returned all there are
(`NewestShortIsAll`), which is what `hasNextPage` relies on. The cursor that is
gone before the page statement is excepted by `blind`, and is where the proof
would fail: the page is empty, and reads as the last one. TLC agreed with
`CompleteOK` on the instance of `walk` before it was proved.

For `Wire`, for texts of any length: `RowsReadBack` (`StoredReadsBack`),
`TypedArrivesAsMeant` (`TypedArrives`), `PoisonIsPayload`
(`OnlyPayloadsPoison`), `ListedLinksStayHome` (`LinksStayHome`).
`TypedArrivesAsMeant` rests on `EncodeIsUnderstood`: the JSON of a constructible
command decodes, its link is read as the one it had or as none, and `validate`
refuses neither. The last rests on `RelativeStaysHome`: a browser drops and
replaces nothing of a link that `RelativeLink::parse` accepts, so that its first
two characters decide. `Kept` says what a browser keeps as a set of positions; a
filtered sequence would be a recursive function, about which nothing could be
proved for every length.

Model-checked only: the six liveness properties (`EventuallySettled`,
`StaleIsRepaired`, `Answered`, `WalkEnds`, `LiveTaskComesBack`, `UnfedStreamEnds`),
because the prover does not reason about fairness and ENABLED, and the three
violations of section 11. Every other property of a run is a theorem.

## 11. Where code and documentation disagree

Shown by a run each:

| Run | What the code does | What is written |
|---|---|---|
| `second_row` | the deduplication key is the row: after a hard delete, any redelivery inserts it again (shortest trace: the answer of the COMMIT is lost, the intake NAKs, the recipient deletes; a lost acknowledgement does the same) | README.md:116, a redelivered command never creates a second row |
| `restart` | a process serves streams and snapshots before its LISTEN is in force | README.md:384, to lose nothing across a disconnect |
| `page_window` | a cursor deleted between the two statements of its page gives an empty last page | README.md:304, a `NOT_FOUND` error, not an empty page |

Met while modelling, and smaller; the models contain the code's behaviour, and no
run is spent on them:

- Any written command resets `notifier_intake_consecutive_transient_failures`
  while others are still held (intake.rs 213; README.md:274, "commands currently
  being held").
- `set_ready` overwrites the verdict of a task that failed during boot, until the
  server looks at the channel (main.rs 113; README.md:768). What remains true is
  `ReadyOverDeadIsLeaving`.
- A failing re-read drops the push of an added notification (realtime.rs 98;
  README.md:345, every state change reaches every stream).
- An event pushed before a lost deletion is folded into a snapshot taken after it
  (README.md:425, the gap lasts until the next snapshot).
- A registry entry is evicted by a later signal of its recipient only
  (realtime.rs 47; README.md:457, the registry tracks live sessions).
- At SIGTERM the intake is told only after the server has drained, and `main`
  returns right after telling it, so the runtime drops it where it stands instead
  of letting it drain (main.rs 115-127; CHANGELOG.md:264, "`drain()`s the consumer
  on SIGTERM/ctrl-c"). Unsettled frames come back all the same.

The lost signal of a reconnecting listener itself is a gap the README names; a
session it touches is outside `Converged`.

## 12. Not modelled, and why

- The unread count: one COUNT, which changes nothing; how a client folds it is
  not in the repository.
- Malformed ids in a mutation or a cursor: refused before a transaction begins.
- The release scripts and workflows: shell over git, GitHub and an OCI registry,
  outside the running service; a model would be one of those tools.
- Row-level security as PostgreSQL enforces it, its isolation levels, its locks
  and its deadlock detector: assumptions about the database (`Visible`, `Visit`,
  `BreakDeadlock`).
- Counters, logs, wording, the contents of a trace, the SDL, how a passport is
  read from its header: no control of the modelled behaviour depends on them.
- The bytes of a signal: that 150 ids fit the 8000 bytes of NOTIFY is arithmetic
  on one constant, which a test of the repository checks (notification.rs 391).
- The order in which the HTTP library writes the response head and polls the
  body (a stream is registered at the first poll): `Open` is one step.
- Characters one by one: `Wire` has six classes, and no class for those that are
  blank to one reader and not to another (none of the four readers asks for more
  than control, whitespace, slash and backslash).
- Requests between two processes during a rollout: the chart recreates, and the
  database does not tell two processes from one.

## 13. Plan

1. Done: `Intake`, `Delivery`, `Realtime`, `Inbox`, `Requests`, `Listing`,
   `Lifecycle` and `Wire`, checked; every safety and action property of a run and
   both refinements proved.
2. The parts of the liveness arguments that need no fairness: that a visit of
   `Requests` leaves less to visit, and that a page which promises another one
   is full, so that a walk grows with each page until its cursor is deleted.
3. The window of `page_window`, if the code closes it: `blind` goes, and
   `NoFalseEnd` becomes the theorem.
