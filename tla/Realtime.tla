------------------------------ MODULE Realtime ------------------------------
(***************************************************************************)
(* The read side of svc-notifier: how a committed change of a recipient's  *)
(* notifications reaches its open sessions.  A write signals through       *)
(* pg_notify in its own transaction (src/notification.rs), the listener of *)
(* every instance dispatches the signals one at a time (src/realtime.rs),  *)
(* and each subscription ends at the first fact it has missed              *)
(* (src/graphql.rs).                                                       *)
(*                                                                         *)
(* A session is a client that follows the reconnect protocol of README.md: *)
(* it opens the stream, then takes its snapshot, then folds the events     *)
(* into it by notification id.  It keeps no cursor, and there is no        *)
(* replay: what it missed it learns from its next snapshot only.           *)
(***************************************************************************)
EXTENDS Naturals, Sequences, FiniteSets

CONSTANTS
    Instances,   \* service processes
    Sessions,    \* clients
    Recipients,  \* recipient_id
    Ids,         \* notification ids
    OwnerOf,     \* the recipient of a notification
    CallerOf,    \* the recipient a session acts for
    HostOf,      \* the instance the gateway sends a session to
    NoFact,      \* nothing in the listener's hands
    Capacity,    \* events a stream buffers (256 in the code)
    Chunk,       \* SIGNAL_ID_CHUNK (150 in the code)
    MaxFaults    \* bound: faults injected in one behaviour

ASSUME SessionsAssumption ==
    /\ OwnerOf \in [Ids -> Recipients]
    /\ CallerOf \in [Sessions -> Recipients]
    /\ HostOf \in [Sessions -> Instances]
    /\ IsFiniteSet(Ids)

ASSUME LimitsAssumption ==
    /\ Capacity \in Nat \ {0}
    /\ Chunk \in Nat \ {0}
    /\ MaxFaults \in Nat

VARIABLES
    \* PostgreSQL
    row,       \* the state of each notification
    \* the listener of each instance
    channel,   \* its LISTEN: not yet in force, in force, or broken
    feed,      \* signals its connection has for it, in commit order
    stage,     \* where fn dispatch stands
    hand,      \* the fact it is dispatching
    registry,  \* recipients with an entry in Subscribers
    \* the sessions
    phase,     \* how far the reconnect protocol has come
    ring,      \* events the broadcast channel keeps for the stream
    overrun,   \* the stream has lost an event to the ring's capacity
    view,      \* what the client shows for each notification
    missed,    \* history: why signals were lost since the stream was opened
    \* the environment
    faults     \* faults injected so far

listeners == <<channel, feed, stage, hand, registry>>
streams   == <<phase, ring, overrun, view, missed>>
vars      == <<row, listeners, streams, faults>>

-----------------------------------------------------------------------------
(* Facts: a NotificationSignal, and the ClientEvent made of it. *)

Shown == {"unread", "read"}

\* row is what the listener has re-read for an added notification.
Facts == [kind : {"added", "read", "deleted"},
          to   : Recipients,
          ids  : SUBSET Ids,
          row  : Shown \cup {"none"}]

ASSUME NoFactAssumption == NoFact \notin Facts

Fact(kind, p, ids) == [kind |-> kind, to |-> p, ids |-> ids, row |-> "none"]

IdsOf(p) == {x \in Ids : OwnerOf[x] = p}

Kept(p) == {x \in IdsOf(p) : row[x] \in Shown}

\* The ids of a bulk fact in some order, as RETURNING lists them.
Listed(S) ==
    CHOOSE f \in [1..Cardinality(S) -> S] : {f[i] : i \in DOMAIN f} = S

\* Mutant of Chunked: what does not fit one signal is forgotten.
ChunkedOnce(kind, p, S) ==
    <<Fact(kind, p, {Listed(S)[j] : j \in
        {n \in 1..Cardinality(S) : n <= Chunk}})>>

\* fn signal_read, fn signal_deleted: one signal for every SIGNAL_ID_CHUNK ids.
Chunked(kind, p, S) ==
    LET n      == Cardinality(S)
        starts == {k \in 0..(n - 1) : k % Chunk = 0}
    IN  [i \in 1..Cardinality(starts) |->
           Fact(kind, p, {Listed(S)[j] : j \in
               {k \in 1..n : (i - 1) * Chunk < k /\ k <= i * Chunk}})]

\* What a query of its recipient answers for a notification.
Answer(s, x) ==
    IF OwnerOf[x] = CallerOf[s] /\ row[x] \in Shown THEN row[x] ELSE "none"

\* Folding by id: an added notification that is already shown stays as it is,
\* a read or deleted one that is not shown is none of the client's business.
Fold(v, e) ==
    [x \in Ids |->
        IF x \notin e.ids THEN v[x]
        ELSE CASE e.kind = "added"   -> IF v[x] = "none" THEN e.row ELSE v[x]
               [] e.kind = "read"    -> IF v[x] = "none" THEN "none" ELSE "read"
               [] e.kind = "deleted" -> "none"]

Blank == [x \in Ids |-> "none"]

\* Why a signal was lost to a session: it came before its snapshot; nobody was
\* listening yet; the connection was broken; the listener could not decode it,
\* or not read its row again.
Causes == {"early", "unheard", "broken", "undecodable", "unread_row"}

TypeOK ==
    /\ row \in [Ids -> Shown \cup {"absent", "deleted"}]
    /\ channel \in [Instances -> {"starting", "listening", "broken"}]
    /\ feed \in [Instances -> Seq(Facts)]
    /\ stage \in [Instances -> {"idle", "reading", "delivering"}]
    /\ hand \in [Instances -> Facts \cup {NoFact}]
    /\ registry \in [Instances -> SUBSET Recipients]
    /\ phase \in [Sessions -> {"closed", "open", "synced"}]
    /\ ring \in [Sessions -> Seq(Facts)]
    /\ overrun \in [Sessions -> BOOLEAN]
    /\ view \in [Sessions -> [Ids -> Shown \cup {"none"}]]
    /\ missed \in [Sessions -> SUBSET Causes]
    /\ faults \in Nat

Init ==
    /\ row = [x \in Ids |-> "absent"]
    /\ channel = [i \in Instances |-> "starting"]
    /\ feed = [i \in Instances |-> <<>>]
    /\ stage = [i \in Instances |-> "idle"]
    /\ hand = [i \in Instances |-> NoFact]
    /\ registry = [i \in Instances |-> {}]
    /\ phase = [s \in Sessions |-> "closed"]
    /\ ring = [s \in Sessions |-> <<>>]
    /\ overrun = [s \in Sessions |-> FALSE]
    /\ view = [s \in Sessions |-> Blank]
    /\ missed = [s \in Sessions |-> {}]
    /\ faults = 0

\* Every failure the environment injects spends the budget MaxFaults.
Fault == faults < MaxFaults /\ faults' = faults + 1

\* The sessions of a recipient on an instance, and those that hold a receiver.
Audience(i, p) == {s \in Sessions : HostOf[s] = i /\ CallerOf[s] = p}

Streaming(i, p) == {s \in Audience(i, p) : phase[s] # "closed"}

\* The sessions the event in the listener's hands is for.
Engaged(i) == IF hand[i] = NoFact THEN {} ELSE Audience(i, hand[i].to)

\* History: a signal for these sessions is lost.
Miss(S, causeOf) ==
    missed' = [s \in Sessions |->
                 IF s \notin S THEN missed[s]
                 ELSE missed[s] \cup {IF phase[s] = "synced" THEN causeOf[s]
                                                           ELSE "early"}]

-----------------------------------------------------------------------------
(* The writers.  pg_notify rides the transaction of the write: the signals  *)
(* go out at its commit, in commit order, to whoever listens by then.       *)

Unheard ==
    [s \in Sessions |->
        IF channel[HostOf[s]] = "starting" THEN "unheard" ELSE "broken"]

Commit(signals) ==
    LET to == {signals[n].to : n \in DOMAIN signals} IN
    /\ feed' = [i \in Instances |-> IF channel[i] = "listening"
                                      THEN feed[i] \o signals ELSE feed[i]]
    /\ Miss({s \in Sessions : /\ CallerOf[s] \in to
                              /\ channel[HostOf[s]] # "listening"}, Unheard)

\* fn insert_notifications: one row and one signal for each recipient.
Insert(ids) ==
    /\ \A x \in ids : row[x] = "absent"
    /\ \A x, y \in ids : OwnerOf[x] = OwnerOf[y] => x = y
    /\ row' = [x \in Ids |-> IF x \in ids THEN "unread" ELSE row[x]]
    /\ Commit([n \in 1..Cardinality(ids) |->
                 Fact("added", OwnerOf[Listed(ids)[n]], {Listed(ids)[n]})])
    /\ UNCHANGED <<channel, stage, hand, registry, phase, ring, overrun, view,
                   faults>>

\* fn mark_as_read (one id) and fn mark_all_as_read (the unread rows its
\* statement saw): only rows that make the transition are signalled.
MarkRead(p, ids) ==
    /\ ids \subseteq {x \in IdsOf(p) : row[x] = "unread"}
    /\ row' = [x \in Ids |-> IF x \in ids THEN "read" ELSE row[x]]
    /\ Commit(Chunked("read", p, ids))
    /\ UNCHANGED <<channel, stage, hand, registry, phase, ring, overrun, view,
                   faults>>

\* fn delete_notifications: only the rows it removed are signalled.
Delete(p, ids) ==
    /\ ids \subseteq Kept(p)
    /\ row' = [x \in Ids |-> IF x \in ids THEN "deleted" ELSE row[x]]
    /\ Commit(Chunked("deleted", p, ids))
    /\ UNCHANGED <<channel, stage, hand, registry, phase, ring, overrun, view,
                   faults>>

-----------------------------------------------------------------------------
(* fn run_listener and fn listen_loop: one connection, one signal a time.   *)

\* PgListener connects and its LISTEN takes effect: only between two signals,
\* and once the signals of the old connection are used up.
Listen(i) ==
    /\ channel[i] # "listening"
    /\ stage[i] = "idle"
    /\ feed[i] = <<>>
    /\ channel' = [channel EXCEPT ![i] = "listening"]
    /\ UNCHANGED <<row, feed, stage, hand, registry, streams, faults>>

\* The connection drops.  What it had already delivered may still be handled,
\* the rest is gone, and a fact in hand is none of its business.
LoseChannel(i) ==
    /\ Fault
    /\ channel[i] = "listening"
    /\ channel' = [channel EXCEPT ![i] = "broken"]
    /\ \E n \in 0..Len(feed[i]) :
         /\ feed' = [feed EXCEPT ![i] = SubSeq(@, 1, n)]
         /\ Miss(UNION {Audience(i, feed[i][m].to) : m \in (n+1)..Len(feed[i])},
                 [s \in Sessions |-> "broken"])
    /\ UNCHANGED <<row, stage, hand, registry, phase, ring, overrun, view>>

\* Mutant of Watched: the last receiver is not counted.
WatchedByTwo(i, p) == p \in registry[i] /\ Cardinality(Streaming(i, p)) > 1

\* Subscribers::active, under the lock: an entry without receivers goes.
Watched(i, p) == p \in registry[i] /\ Streaming(i, p) # {}

Active(i, p) == Watched(i, p) /\ UNCHANGED registry

Inactive(i, p) ==
    /\ ~Watched(i, p)
    /\ registry' = [registry EXCEPT ![i] = @ \ {p}]

\* The broadcast channel drops the oldest event of a full ring.
Buffer(s, e) ==
    IF Len(ring[s]) < Capacity THEN Append(ring[s], e)
                               ELSE Append(Tail(ring[s]), e)

\* Mutant of Send: a full ring forgets its oldest event and nobody is told.
SendSilently(i, e) ==
    LET to == IF e.to \in registry[i] THEN Streaming(i, e.to) ELSE {} IN
    /\ ring' = [s \in Sessions |-> IF s \in to THEN Buffer(s, e) ELSE ring[s]]
    /\ UNCHANGED overrun

\* Mutant of Send: the recipient is forgotten.
SendToEveryone(i, e) ==
    LET to == {s \in Sessions : HostOf[s] = i /\ phase[s] # "closed"} IN
    /\ ring' = [s \in Sessions |-> IF s \in to THEN Buffer(s, e) ELSE ring[s]]
    /\ overrun' = [s \in Sessions |->
                     overrun[s] \/ (s \in to /\ Len(ring[s]) = Capacity)]

\* Subscribers::deliver: every receiver of the recipient's channel.
Send(i, e) ==
    LET to == IF e.to \in registry[i] THEN Streaming(i, e.to) ELSE {} IN
    /\ ring' = [s \in Sessions |-> IF s \in to THEN Buffer(s, e) ELSE ring[s]]
    /\ overrun' = [s \in Sessions |->
                     overrun[s] \/ (s \in to /\ Len(ring[s]) = Capacity)]

\* recv takes the next signal.  Nobody here listens for its recipient.
Skip(i) ==
    /\ stage[i] = "idle"
    /\ feed[i] # <<>>
    /\ Inactive(i, Head(feed[i]).to)
    /\ feed' = [feed EXCEPT ![i] = Tail(@)]
    /\ UNCHANGED <<row, channel, stage, hand, streams, faults>>

\* recv takes a signal that serde_json cannot read as a NotificationSignal, one
\* of another release: a warning, and the loop goes on.
Undecodable(i) ==
    /\ Fault
    /\ stage[i] = "idle"
    /\ feed[i] # <<>>
    /\ feed' = [feed EXCEPT ![i] = Tail(@)]
    /\ Miss(Audience(i, Head(feed[i]).to), [s \in Sessions |-> "undecodable"])
    /\ UNCHANGED <<row, channel, stage, hand, registry, phase, ring, overrun,
                   view>>

\* Mutant of Forward: the re-read of an added row is left to a task of its own,
\* and what comes behind it is delivered meanwhile.
ForwardAhead(i) ==
    /\ feed[i] # <<>>
    /\ Head(feed[i]).kind # "added"
    /\ Active(i, Head(feed[i]).to)
    /\ Send(i, Head(feed[i]))
    /\ feed' = [feed EXCEPT ![i] = Tail(@)]
    /\ UNCHANGED <<row, channel, stage, hand, phase, view, missed, faults>>

\* A read or deleted fact says it all and is delivered at once.
Forward(i) ==
    /\ stage[i] = "idle"
    /\ feed[i] # <<>>
    /\ Head(feed[i]).kind # "added"
    /\ Active(i, Head(feed[i]).to)
    /\ Send(i, Head(feed[i]))
    /\ feed' = [feed EXCEPT ![i] = Tail(@)]
    /\ UNCHANGED <<row, channel, stage, hand, phase, view, missed, faults>>

\* An added row has to be read again first.
Take(i) ==
    /\ stage[i] = "idle"
    /\ feed[i] # <<>>
    /\ Head(feed[i]).kind = "added"
    /\ Active(i, Head(feed[i]).to)
    /\ feed' = [feed EXCEPT ![i] = Tail(@)]
    /\ hand' = [hand EXCEPT ![i] = Head(feed[i])]
    /\ stage' = [stage EXCEPT ![i] = "reading"]
    /\ UNCHANGED <<row, channel, streams, faults>>

Drop(i) ==
    /\ hand' = [hand EXCEPT ![i] = NoFact]
    /\ stage' = [stage EXCEPT ![i] = "idle"]

\* Mutant of Reread: a row that is gone is pushed all the same.
RereadRaw(i) ==
    /\ stage[i] = "reading"
    /\ hand' = [hand EXCEPT ![i].row = CHOOSE r \in {row[x] : x \in hand[i].ids} : TRUE]
    /\ stage' = [stage EXCEPT ![i] = "delivering"]
    /\ UNCHANGED <<row, channel, feed, registry, streams, faults>>

\* read_notification_for finds the row, or finds it deleted.
Reread(i) ==
    /\ stage[i] = "reading"
    /\ LET now == {row[x] : x \in hand[i].ids} \cap Shown IN
         IF now = {}
           THEN Drop(i)
           ELSE /\ hand' = [hand EXCEPT ![i].row = CHOOSE r \in now : TRUE]
                /\ stage' = [stage EXCEPT ![i] = "delivering"]
    /\ UNCHANGED <<row, channel, feed, registry, streams, faults>>

\* read_notification_for fails: the error is logged and the push is lost.
RereadFails(i) ==
    /\ Fault
    /\ stage[i] = "reading"
    /\ Drop(i)
    /\ Miss(Audience(i, hand[i].to), [s \in Sessions |-> "unread_row"])
    /\ UNCHANGED <<row, channel, feed, registry, phase, ring, overrun, view>>

Deliver(i) ==
    /\ stage[i] = "delivering"
    /\ Send(i, hand[i])
    /\ Drop(i)
    /\ UNCHANGED <<row, channel, feed, registry, phase, view, missed, faults>>

-----------------------------------------------------------------------------
(* The sessions: subscribe, snapshot, fold; leave, or be told to. *)

\* notifier_notification_events: Subscribers::subscribe, under the lock.  What
\* was lost before is of no consequence to this stream, unless the listener is
\* still at an event that precedes the loss.
Open(s) ==
    /\ phase[s] = "closed"
    /\ missed' = [missed EXCEPT ![s] =
                    IF s \in Engaged(HostOf[s]) THEN @ ELSE {}]
    /\ phase' = [phase EXCEPT ![s] = "open"]
    /\ registry' = [registry EXCEPT ![HostOf[s]] = @ \cup {CallerOf[s]}]
    /\ UNCHANGED <<row, channel, feed, stage, hand, ring, overrun, view,
                   faults>>

\* The snapshot query.
Snapshot(s) ==
    /\ phase[s] = "open"
    /\ phase' = [phase EXCEPT ![s] = "synced"]
    /\ view' = [view EXCEPT ![s] = [x \in Ids |-> Answer(s, x)]]
    /\ UNCHANGED <<row, listeners, ring, overrun, missed, faults>>

\* The receiver is dropped; the registry hears of it at the next signal.
Ended(S) ==
    /\ phase' = [s \in Sessions |-> IF s \in S THEN "closed" ELSE phase[s]]
    /\ ring' = [s \in Sessions |-> IF s \in S THEN <<>> ELSE ring[s]]
    /\ overrun' = [s \in Sessions |-> IF s \in S THEN FALSE ELSE overrun[s]]
    /\ view' = [s \in Sessions |-> IF s \in S THEN Blank ELSE view[s]]

\* fn until_first_lag yields the next event, and the client folds it.
Receive(s) ==
    /\ phase[s] = "synced"
    /\ ~overrun[s]
    /\ ring[s] # <<>>
    /\ view' = [view EXCEPT ![s] = Fold(@, Head(ring[s]))]
    /\ ring' = [ring EXCEPT ![s] = Tail(@)]
    /\ UNCHANGED <<row, listeners, phase, overrun, missed, faults>>

\* Mutant of EndLagged: the verdict is given and the stream goes on, as a
\* BroadcastStream does by itself.
EndLaggedGoesOn(s) ==
    /\ phase[s] # "closed"
    /\ overrun[s]
    /\ overrun' = [overrun EXCEPT ![s] = FALSE]
    /\ UNCHANGED <<row, listeners, phase, ring, view, missed, faults>>

\* fn until_first_lag finds the receiver lagged: the verdict, and the end.
EndLagged(s) ==
    /\ phase[s] # "closed"
    /\ overrun[s]
    /\ Ended({s})
    /\ UNCHANGED <<row, listeners, missed, faults>>

\* The client goes away, or its connection does.
Leave(s) ==
    /\ phase[s] # "closed"
    /\ Ended({s})
    /\ UNCHANGED <<row, listeners, missed, faults>>

\* The process of an instance is replaced: all it holds is in memory.
Restart(i) ==
    /\ Fault
    /\ Ended({s \in Sessions : HostOf[s] = i})
    /\ channel' = [channel EXCEPT ![i] = "starting"]
    /\ feed' = [feed EXCEPT ![i] = <<>>]
    /\ stage' = [stage EXCEPT ![i] = "idle"]
    /\ hand' = [hand EXCEPT ![i] = NoFact]
    /\ registry' = [registry EXCEPT ![i] = {}]
    /\ UNCHANGED <<row, missed>>

-----------------------------------------------------------------------------
Write ==
    \/ \E ids \in SUBSET Ids \ {{}} : Insert(ids)
    \/ \E p \in Recipients : \E ids \in SUBSET IdsOf(p) \ {{}} :
         MarkRead(p, ids) \/ Delete(p, ids)

Dispatch(i) ==
    \/ Undecodable(i)
    \/ Skip(i) \/ Forward(i) \/ Take(i) \/ Reread(i) \/ Deliver(i)

Fail(i) == LoseChannel(i) \/ RereadFails(i) \/ Restart(i)

Follow(s) == Snapshot(s) \/ Receive(s) \/ EndLagged(s)

Next ==
    \/ Write
    \/ \E i \in Instances : Listen(i) \/ Dispatch(i) \/ Fail(i)
    \/ \E s \in Sessions : Open(s) \/ Follow(s) \/ Leave(s)

Spec == Init /\ [][Next]_vars

(***************************************************************************)
(* Fairness.  run_listener reconnects for ever and dispatches what it is   *)
(* given, and a client goes on reading its stream.  No write, no fault and *)
(* no new session is ever owed.                                            *)
(***************************************************************************)
FairSpec ==
    /\ Spec
    /\ \A i \in Instances : WF_vars(Listen(i)) /\ WF_vars(Dispatch(i))
    /\ \A s \in Sessions : WF_vars(Follow(s))

-----------------------------------------------------------------------------
(* What the realtime path promises. *)

\* Nothing is under way for a session: not in the signals its instance has
\* still to handle, not in the listener's hands, not in its own ring.
Quiet(s) ==
    /\ ring[s] = <<>> /\ ~overrun[s]
    /\ \A n \in DOMAIN feed[HostOf[s]] : feed[HostOf[s]][n].to # CallerOf[s]
    /\ s \notin Engaged(HostOf[s])

Current(s) == view[s] = [x \in Ids |-> Answer(s, x)]

\* README.md, "Reconnect protocol": a session that opened, then took its
\* snapshot, then folded, shows exactly its recipient's rows whenever nothing
\* is under way and no signal was lost since it opened, however its steps
\* fell between the writes, the re-reads and the other sessions.
Converged ==
    \A s \in Sessions :
        (phase[s] = "synced" /\ missed[s] = {} /\ Quiet(s)) => Current(s)

\* A session is never shown a notification of another recipient, not even in
\* passing.
NothingForeign ==
    \A s \in Sessions : \A x \in Ids :
        view[s][x] # "none" => OwnerOf[x] = CallerOf[s]

\* Evicting the entry of a recipient never strands a stream: while one is
\* open, its instance has the channel the listener sends on.
RegistryHoldsStreams ==
    \A s \in Sessions :
        phase[s] # "closed" => CallerOf[s] \in registry[HostOf[s]]

\* What a session shows wrongly it does not show for ever: each entry is
\* made good, or the session is told (its stream ends), unless a signal was
\* lost on the way.
StaleIsRepaired ==
    \A s \in Sessions : \A x \in Ids :
        (phase[s] = "synced" /\ view[s][x] # Answer(s, x))
            ~> \/ view[s][x] = Answer(s, x)
               \/ phase[s] # "synced"
               \/ missed[s] # {}

(* What the documentation says and the code does not keep. *)

\* README.md:384: a client that opens, takes its snapshot and folds loses
\* nothing across a disconnect, the restart of a deploy included.  A new
\* process serves streams before its LISTEN is in force.
NothingLostAcrossRestart ==
    \A s \in Sessions :
        (phase[s] = "synced" /\ missed[s] \subseteq {"unheard"} /\ Quiet(s))
            => Current(s)

=============================================================================
