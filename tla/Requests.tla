------------------------------ MODULE Requests ------------------------------
(***************************************************************************)
(* The mutations of svc-notifier (src/graphql.rs, src/notification.rs) as  *)
(* PostgreSQL runs them: one transaction at READ COMMITTED per request,    *)
(* whose statement picks its rows in one snapshot, then locks them one at  *)
(* a time, waits for the lock of another request, and looks again at the   *)
(* committed version before it changes a row.  Between any two of these    *)
(* steps the intake inserts and other requests lock, commit and fail.      *)
(***************************************************************************)
EXTENDS Naturals, Sequences, FiniteSets

CONSTANTS
    Ids,         \* notification ids
    Recipients,  \* users: whoever owns notifications or sends requests
    OwnerOf,     \* the recipient of a notification
    Requests,    \* mutations that clients may send
    OpOf,        \* the mutation of a request
    TargetsOf,   \* the ids it names; mark_all names none
    PassportOf,  \* who sends it
    NoOne,       \* no user, no impersonator
    MaxSent,     \* bound: requests sent in one behaviour
    Budget       \* bound: failures and retries in one behaviour

Ops == {"mark", "mark_all", "delete", "delete_many"}

Passports == [user : Recipients \cup {NoOne}, by : Recipients \cup {NoOne}]

ASSUME RequestsAssumption ==
    /\ OwnerOf \in [Ids -> Recipients]
    /\ OpOf \in [Requests -> Ops]
    /\ TargetsOf \in [Requests -> SUBSET Ids]
    /\ PassportOf \in [Requests -> Passports]
    /\ NoOne \notin Recipients
    /\ MaxSent \in Nat
    /\ Budget \in Nat

VARIABLES
    row,     \* the committed state of each notification
    told,    \* history: the facts announced about it, in commit order
    stage,   \* where a request stands, and its answer
    seen,    \* rows its statement's snapshot showed it (before, in mark_as_read)
    todo,    \* rows that matched in the snapshot and are not yet visited
    held,    \* rows it has locked
    done,    \* rows it has changed, visible to others once it commits
    spent    \* failures and retries so far

work == <<seen, todo, held, done>>
vars == <<row, told, stage, work, spent>>

-----------------------------------------------------------------------------
(* Who asks for what. *)

Shown == {"unread", "read"}

Answers == {"acked", "not_found", "forbidden", "failed"}

\* Mutant of RecipientOf: an impersonated passport stands for its user.
RecipientOfUser(t) == PassportOf[t].user

\* fn resolve_recipient: the human who really acts; a service is nobody.
RecipientOf(t) ==
    IF PassportOf[t].by # NoOne THEN PassportOf[t].by ELSE PassportOf[t].user

\* The WHERE clause and the row-level policy ask for the same recipient.
Visible(t, x) == OwnerOf[x] = RecipientOf(t)

Named(t, x) == OpOf[t] = "mark_all" \/ x \in TargetsOf[t]

Marks(t) == OpOf[t] \in {"mark", "mark_all"}

\* The WHERE clause of the statement on the committed version of a row.
Matches(t, x) ==
    /\ Visible(t, x)
    /\ Named(t, x)
    /\ row[x] \in IF Marks(t) THEN {"unread"} ELSE Shown

Goal(t) == IF Marks(t) THEN "read" ELSE "deleted"

Fact(t) == IF Marks(t) THEN "read" ELSE "deleted"

-----------------------------------------------------------------------------

TypeOK ==
    /\ row \in [Ids -> Shown \cup {"absent", "deleted"}]
    /\ told \in [Ids -> Seq({"added", "read", "deleted"})]
    /\ stage \in [Requests -> {"idle", "running"} \cup Answers]
    /\ seen \in [Requests -> SUBSET Ids]
    /\ todo \in [Requests -> SUBSET Ids]
    /\ held \in [Requests -> SUBSET Ids]
    /\ done \in [Requests -> SUBSET Ids]
    /\ spent \in 0..Budget
    /\ \A t \in Requests : done[t] \subseteq held[t]

Init ==
    /\ row = [x \in Ids |-> "absent"]
    /\ told = [x \in Ids |-> <<>>]
    /\ stage = [t \in Requests |-> "idle"]
    /\ seen = [t \in Requests |-> {}]
    /\ todo = [t \in Requests |-> {}]
    /\ held = [t \in Requests |-> {}]
    /\ done = [t \in Requests |-> {}]
    /\ spent = 0

Spend == spent < Budget /\ spent' = spent + 1

Change(S, state, fact) ==
    /\ row' = [x \in Ids |-> IF x \in S THEN state ELSE row[x]]
    /\ told' = [x \in Ids |-> IF x \in S THEN Append(told[x], fact) ELSE told[x]]

\* Bounds the requests of a behaviour.
Sent(t) ==
    /\ stage[t] = "idle"
    /\ Cardinality({u \in Requests : stage[u] # "idle"}) < MaxSent

Answer(t, answer) == stage' = [stage EXCEPT ![t] = answer]

\* The transaction ends and PostgreSQL lets go of its locks.
Release(t) ==
    /\ todo' = [todo EXCEPT ![t] = {}]
    /\ held' = [held EXCEPT ![t] = {}]
    /\ done' = [done EXCEPT ![t] = {}]
    /\ UNCHANGED seen

-----------------------------------------------------------------------------

\* The intake commits a notification (insert_notifications, one recipient).
Arrive(x) ==
    /\ row[x] = "absent"
    /\ Change({x}, "unread", "added")
    /\ UNCHANGED <<stage, work, spent>>

\* fn recipient: a service passport has no notifications.
Forbid(t) ==
    /\ Sent(t)
    /\ RecipientOf(t) = NoOne
    /\ Answer(t, "forbidden")
    /\ UNCHANGED <<row, told, work, spent>>

\* fn scoped_tx, then the statement takes its snapshot.
Begin(t) ==
    /\ Sent(t)
    /\ RecipientOf(t) # NoOne
    /\ Answer(t, "running")
    /\ seen' = [seen EXCEPT ![t] =
                  {x \in Ids : Visible(t, x) /\ Named(t, x) /\ row[x] \in Shown}]
    /\ todo' = [todo EXCEPT ![t] = {x \in Ids : Matches(t, x)}]
    /\ UNCHANGED <<row, told, held, done, spent>>

Locked(x) == \E u \in Requests : x \in held[u]

\* Mutant of Visit: what matched in the snapshot is changed unseen.
VisitUnchecked(t, x) ==
    /\ x \in todo[t]
    /\ ~Locked(x)
    /\ todo' = [todo EXCEPT ![t] = @ \ {x}]
    /\ held' = [held EXCEPT ![t] = @ \cup {x}]
    /\ done' = [done EXCEPT ![t] = @ \cup {x}]
    /\ UNCHANGED <<row, told, stage, seen, spent>>

\* Mutant of Visit: a locked row is passed over (SKIP LOCKED).
VisitSkipsLocked(t, x) ==
    /\ x \in todo[t]
    /\ LET free == {x} \ UNION {held[u] : u \in Requests} IN
         /\ todo' = [todo EXCEPT ![t] = @ \ {x}]
         /\ held' = [held EXCEPT ![t] = @ \cup {y \in free : row[y] # "deleted"}]
         /\ done' = [done EXCEPT ![t] = @ \cup {y \in free : Matches(t, y)}]
    /\ UNCHANGED <<row, told, stage, seen, spent>>

\* Mutant of Visit: a row is changed without its lock.
VisitUnlocked(t, x) ==
    /\ x \in todo[t]
    /\ ~Locked(x)
    /\ todo' = [todo EXCEPT ![t] = @ \ {x}]
    /\ done' = [done EXCEPT ![t] = @ \cup {y \in {x} : Matches(t, y)}]
    /\ UNCHANGED <<row, told, stage, seen, held, spent>>

\* The statement locks its next row, waiting for whoever has it, and checks
\* the version it finds: a row that is gone is not locked, one that no longer
\* matches stays locked and unchanged.
Visit(t, x) ==
    /\ x \in todo[t]
    /\ ~Locked(x)
    /\ todo' = [todo EXCEPT ![t] = @ \ {x}]
    /\ held' = [held EXCEPT ![t] = @ \cup {y \in {x} : row[y] # "deleted"}]
    /\ done' = [done EXCEPT ![t] = @ \cup {y \in {x} : Matches(t, y)}]
    /\ UNCHANGED <<row, told, stage, seen, spent>>

Finished(t) == stage[t] = "running" /\ todo[t] = {}

\* Mutant of Nothing: a mark that changes nothing is refused as well.
NothingChanged(t) == OpOf[t] \in {"mark", "delete"} /\ done[t] = {}

\* A single mutation without a row: mark_as_read looks at what its snapshot
\* showed, so that marking again acks; a delete looks at what it removed.
Nothing(t) ==
    \/ OpOf[t] = "mark" /\ seen[t] = {}
    \/ OpOf[t] = "delete" /\ done[t] = {}

\* NOT_FOUND: the transaction is dropped and rolls back.
Refuse(t) ==
    /\ Finished(t)
    /\ Nothing(t)
    /\ Answer(t, "not_found")
    /\ Release(t)
    /\ UNCHANGED <<row, told, spent>>

\* Mutant of Apply: the signals name what matched, not what changed.
ApplyTellsSeen(t) ==
    /\ row' = [x \in Ids |-> IF x \in done[t] THEN Goal(t) ELSE row[x]]
    /\ told' = [x \in Ids |-> IF x \in seen[t] THEN Append(told[x], Fact(t))
                                               ELSE told[x]]

\* COMMIT: the changes and their signals become visible together.
Apply(t) == Change(done[t], Goal(t), Fact(t))

Commit(t) ==
    /\ Finished(t)
    /\ ~Nothing(t)
    /\ Apply(t)
    /\ Answer(t, "acked")
    /\ Release(t)
    /\ UNCHANGED spent

\* The COMMIT succeeds and its answer is lost: db_error all the same.
CommitUnseen(t) ==
    /\ Spend
    /\ Finished(t)
    /\ ~Nothing(t)
    /\ Apply(t)
    /\ Answer(t, "failed")
    /\ Release(t)

\* Mutant of Fail: the transaction is left open.
FailKeepsLocks(t) ==
    /\ Spend
    /\ stage[t] = "running"
    /\ Answer(t, "failed")
    /\ UNCHANGED <<row, told, work>>

\* A statement or the COMMIT fails: db_error, and the transaction rolls back.
Fail(t) ==
    /\ Spend
    /\ stage[t] = "running"
    /\ Answer(t, "failed")
    /\ Release(t)
    /\ UNCHANGED <<row, told>>

Awaits(t, u) == t # u /\ todo[t] \cap held[u] # {}

Waiting == {t \in Requests : todo[t] # {} /\ held[t] # {}}

\* Requests that wait for one another, each for another's lock.
Deadlocked(S) ==
    S # {} /\ \A t \in S : /\ \E u \in S : Awaits(t, u)
                           /\ \E u \in S : Awaits(u, t)

\* PostgreSQL breaks a deadlock: one of them gets an error.
BreakDeadlock(t) ==
    /\ \E S \in SUBSET Waiting : t \in S /\ Deadlocked(S)
    /\ Answer(t, "failed")
    /\ Release(t)
    /\ UNCHANGED <<row, told, spent>>

\* A client sends a failed request again.
Retry(t) ==
    /\ Spend
    /\ stage[t] = "failed"
    /\ Answer(t, "idle")
    /\ UNCHANGED <<row, told, work>>

Run(t) == (\E x \in Ids : Visit(t, x)) \/ Refuse(t) \/ Commit(t)

Next ==
    \/ \E x \in Ids : Arrive(x)
    \/ \E t \in Requests :
         \/ Forbid(t) \/ Begin(t) \/ Run(t) \/ CommitUnseen(t)
         \/ Fail(t) \/ BreakDeadlock(t) \/ Retry(t)

Spec == Init /\ [][Next]_vars

\* The database runs every statement it has begun and looks for deadlocks.
Fairness ==
    /\ \A t \in Requests : WF_vars(Run(t))
    /\ WF_vars(\E t \in Requests : BreakDeadlock(t))

FairSpec == Spec /\ Fairness

-----------------------------------------------------------------------------
(* Properties. *)

\* An acknowledgement is the truth: every notification that stood when the
\* statement of an acked request began has what was asked for, although other
\* requests locked it, changed it, rolled back or deleted it meanwhile
\* (mark_as_read, mark_all_as_read and delete_notifications ack without looking
\* at how many rows they changed).
AckedIsDone ==
    \A t \in Requests : stage[t] = "acked" =>
        \A x \in seen[t] : row[x] \in {Goal(t), "deleted"}

\* NOT_FOUND is the truth: a notification that stood when the statement of a
\* refused request began has been deleted by another one (README: marking an
\* already-read notification acks, whoever marked it in the meantime).
NotFoundIsGone ==
    \A t \in Requests : stage[t] = "not_found" =>
        \A x \in seen[t] : row[x] = "deleted"

\* Every transition is announced exactly once, in the order of the lifecycle,
\* and only once it is committed: two sessions that mark or delete the same
\* notifications at once never announce one twice, and a change that is rolled
\* back is never announced (fn signal_read, fn signal_deleted).
Lives(state) ==
    CASE state = "absent"  -> {<<>>}
      [] state = "unread"  -> {<<"added">>}
      [] state = "read"    -> {<<"added", "read">>}
      [] state = "deleted" -> {<<"added", "deleted">>, <<"added", "read", "deleted">>}

ToldOnce == \A x \in Ids : told[x] \in Lives(row[x])

\* No request ever sees, waits for or locks a notification of somebody other
\* than the human who really acts: nothing of a user somebody else impersonates
\* (README, "the recipient is the acting human"), nothing foreign that a bulk
\* delete names, nothing at all for a service.
OnlyTheActorsOwn ==
    \A t \in Requests : \A x \in seen[t] \cup todo[t] \cup held[t] :
        LET p == PassportOf[t] IN
            /\ OwnerOf[x] \in {p.user, p.by}
            /\ OwnerOf[x] = p.user => p.by \in {NoOne, p.user}

\* The requests change a notification as the abstract store does: one
\* transition at a time, each announced in the step that makes it.
I == INSTANCE Inbox

Implements == I!Spec

\* Every request that has begun is answered: locks are waited for in vain only
\* in a deadlock, and a deadlock is broken.
Answered ==
    \A t \in Requests : stage[t] = "running" ~> stage[t] \in Answers

=============================================================================
