--------------------------- MODULE RequestsProofs ---------------------------
(***************************************************************************)
(* What the mutations promise, proved for any number of users,             *)
(* notifications, requests, failures and retries: answers are true,        *)
(* transitions are announced once, and the store behaves like Inbox.       *)
(***************************************************************************)
EXTENDS Requests, SequenceTheorems, TLAPS

\* A transaction exists exactly while its request runs, and holds locks that
\* nobody else has.
LocksOK ==
    /\ \A t \in Requests : stage[t] # "running" =>
         todo[t] = {} /\ held[t] = {} /\ done[t] = {}
    /\ \A t, u \in Requests : t # u => held[t] \cap held[u] = {}

\* What a request waits for or locks was in its snapshot, and is its own.
SnapshotsOK ==
    \A t \in Requests :
        /\ todo[t] \cup held[t] \subseteq seen[t]
        /\ \A x \in seen[t] : Visible(t, x) /\ Named(t, x) /\ row[x] # "absent"

\* A row that has been changed under its lock is as its request found it.
ChangesOK == \A t \in Requests : \A x \in done[t] : Matches(t, x)

\* Every row of the snapshot is still to be visited, or changed, or has become
\* what the request wants, once and for all.
Settled(t, x) == row[x] \in {Goal(t), "deleted"}

ProgressOK ==
    \A t \in Requests :
        /\ stage[t] = "running" =>
             \A x \in seen[t] : x \in todo[t] \cup done[t] \/ Settled(t, x)
        /\ stage[t] = "acked" => \A x \in seen[t] : Settled(t, x)
        /\ stage[t] = "not_found" => \A x \in seen[t] : row[x] = "deleted"

IInv ==
    /\ TypeOK /\ LocksOK /\ SnapshotsOK /\ ChangesOK /\ ProgressOK /\ ToldOnce

-----------------------------------------------------------------------------
(* The steps. *)

\* What Append makes of one element, and of two.
LEMMA PairIsAppended ==
    ASSUME NEW a, NEW b
    PROVE  Append(<<a>>, b) = <<a, b>>
<1> DEFINE S == {a, b}
<1>1. <<a>> \in Seq(S) /\ <<a, b>> \in Seq(S)
  OBVIOUS
<1>2. Append(<<a>>, b) \in Seq(S) /\ Len(Append(<<a>>, b)) = Len(<<a, b>>)
  OBVIOUS
<1>3. \A i \in 1..Len(<<a, b>>) : Append(<<a>>, b)[i] = <<a, b>>[i]
  OBVIOUS
<1> HIDE DEF S
<1> QED BY <1>1, <1>2, <1>3, SeqEqual

LEMMA TripleIsAppended ==
    ASSUME NEW a, NEW b, NEW c
    PROVE  Append(<<a, b>>, c) = <<a, b, c>>
<1> DEFINE S == {a, b, c}
<1>1. <<a, b>> \in Seq(S) /\ <<a, b, c>> \in Seq(S)
  OBVIOUS
<1>2. Append(<<a, b>>, c) \in Seq(S) /\ Len(Append(<<a, b>>, c)) = Len(<<a, b, c>>)
  OBVIOUS
<1>3. \A i \in 1..Len(<<a, b, c>>) : Append(<<a, b>>, c)[i] = <<a, b, c>>[i]
  OBVIOUS
<1> HIDE DEF S
<1> QED BY <1>1, <1>2, <1>3, SeqEqual

\* One fact more for one transition more.
LEMMA LivesGoOn ==
    /\ \A s \in Lives("absent") : Append(s, "added") \in Lives("unread")
    /\ \A s \in Lives("unread") : Append(s, "read") \in Lives("read")
    /\ \A s \in Lives("unread") \cup Lives("read") :
         Append(s, "deleted") \in Lives("deleted")
<1>1. /\ Lives("absent") = {<<>>}
      /\ Lives("unread") = {<<"added">>}
      /\ Lives("read") = {<<"added", "read">>}
      /\ Lives("deleted") = {<<"added", "deleted">>, <<"added", "read", "deleted">>}
  BY DEF Lives
<1>2. Append(<<>>, "added") = <<"added">>
  OBVIOUS
<1>3. Append(<<"added">>, "read") = <<"added", "read">>
  BY PairIsAppended
<1>4. Append(<<"added">>, "deleted") = <<"added", "deleted">>
  BY PairIsAppended
<1>5. Append(<<"added", "read">>, "deleted") = <<"added", "read", "deleted">>
  BY TripleIsAppended
<1> QED BY <1>1, <1>2, <1>3, <1>4, <1>5

\* A new notification disturbs nobody: no snapshot has shown it.
LEMMA ArriveKeeps ==
    ASSUME IInv, NEW x \in Ids, Arrive(x)
    PROVE  IInv'
<1> USE DEF IInv
<1>1. /\ row' = [y \in Ids |-> IF y = x THEN "unread" ELSE row[y]]
      /\ told' = [y \in Ids |-> IF y = x THEN Append(told[y], "added") ELSE told[y]]
      /\ row[x] = "absent"
      /\ UNCHANGED <<stage, seen, todo, held, done, spent>>
  BY DEF Arrive, Change, work
<1>2. \A t \in Requests : x \notin seen[t] /\ x \notin done[t]
  BY <1>1 DEF SnapshotsOK, ChangesOK, Matches, Shown
<1>3. TypeOK'
  BY <1>1 DEF TypeOK, Shown
<1>4. LocksOK'
  BY <1>1 DEF LocksOK
<1>5. SnapshotsOK'
  BY <1>1, <1>2 DEF SnapshotsOK, TypeOK, Visible, Named
<1>6. ChangesOK'
  BY <1>1, <1>2 DEF ChangesOK, TypeOK, Matches, Visible, Named
<1>7. ProgressOK'
  BY <1>1, <1>2 DEF ProgressOK, TypeOK, Settled
<1>8. ToldOnce'
  <2> SUFFICES ASSUME NEW y \in Ids PROVE told'[y] \in Lives(row'[y])
    BY DEF ToldOnce
  <2>1. CASE y = x
    <3>1. told[x] \in Lives("absent")
      BY <1>1 DEF ToldOnce
    <3> QED BY <1>1, <2>1, <3>1, LivesGoOn
  <2>2. CASE y # x
    BY <1>1, <2>2 DEF ToldOnce
  <2> QED BY <2>1, <2>2
<1> QED BY <1>3, <1>4, <1>5, <1>6, <1>7, <1>8

\* Whatever leaves the rows alone leaves what is told of them alone.
LEMMA StoreUnchanged ==
    ASSUME IInv, UNCHANGED <<row, told>>
    PROVE  ToldOnce'
BY DEF IInv, ToldOnce

\* The snapshot: all that it shows is still to be visited, or already settled.
LEMMA BeginKeeps ==
    ASSUME IInv, NEW t \in Requests, Begin(t)
    PROVE  IInv'
<1> USE DEF IInv
<1> DEFINE shows == {x \in Ids : Visible(t, x) /\ Named(t, x) /\ row[x] \in Shown}
           wants == {x \in Ids : Matches(t, x)}
<1>1. /\ stage[t] = "idle"
      /\ stage' = [stage EXCEPT ![t] = "running"]
      /\ seen' = [seen EXCEPT ![t] = shows]
      /\ todo' = [todo EXCEPT ![t] = wants]
      /\ UNCHANGED <<row, told, held, done, spent>>
  BY DEF Begin, Sent, Answer
<1>2. held[t] = {} /\ done[t] = {}
  BY <1>1 DEF LocksOK
<1>3. wants \subseteq shows
  BY DEF Matches, Shown
<1>4. \A x \in shows : x \in wants \/ Settled(t, x)
  BY DEF Matches, Settled, Goal, Shown
<1> HIDE DEF shows, wants
<1>5. shows \subseteq Ids /\ \A x \in shows : Visible(t, x) /\ Named(t, x) /\ row[x] # "absent"
  BY DEF shows, Shown
<1>6. TypeOK'
  BY <1>1, <1>3, <1>5 DEF TypeOK
<1>7. LocksOK'
  BY <1>1 DEF LocksOK, TypeOK
<1>8. SnapshotsOK'
  BY <1>1, <1>2, <1>3, <1>5 DEF SnapshotsOK, TypeOK, Visible, Named
<1>9. ChangesOK'
  BY <1>1 DEF ChangesOK, Matches, Visible, Named
<1>10. ProgressOK'
  BY <1>1, <1>4 DEF ProgressOK, TypeOK, Settled
<1>11. ToldOnce'
  BY <1>1, StoreUnchanged
<1> QED BY <1>6, <1>7, <1>8, <1>9, <1>10, <1>11

\* A row is locked by nobody else, and then changed or found settled.
LEMMA VisitKeeps ==
    ASSUME IInv, NEW t \in Requests, NEW x \in Ids, Visit(t, x)
    PROVE  IInv'
<1> USE DEF IInv
<1> DEFINE locks == {y \in {x} : row[y] # "deleted"}
           changes == {y \in {x} : Matches(t, y)}
<1>1. /\ x \in todo[t]
      /\ \A u \in Requests : x \notin held[u]
      /\ todo' = [todo EXCEPT ![t] = @ \ {x}]
      /\ held' = [held EXCEPT ![t] = @ \cup locks]
      /\ done' = [done EXCEPT ![t] = @ \cup changes]
      /\ UNCHANGED <<row, told, stage, seen, spent>>
  BY DEF Visit, Locked
<1>2. stage[t] = "running" /\ x \in seen[t]
  BY <1>1 DEF LocksOK, SnapshotsOK, TypeOK
<1>3. changes \subseteq locks
  BY DEF Matches, Shown
<1>4. x \in changes \/ Settled(t, x)
  BY <1>2 DEF SnapshotsOK, Matches, Settled, Goal, TypeOK, Shown
<1>5. \A y \in changes : Matches(t, y)
  OBVIOUS
<1>6. locks \subseteq {x} /\ changes \subseteq {x}
  OBVIOUS
<1> HIDE DEF locks, changes
<1>7. TypeOK'
  BY <1>1, <1>3, <1>6 DEF TypeOK
<1>8. LocksOK'
  BY <1>1, <1>2, <1>6 DEF LocksOK, TypeOK
<1>9. SnapshotsOK'
  BY <1>1, <1>2, <1>6 DEF SnapshotsOK, TypeOK, Visible, Named
<1>10. ChangesOK'
  BY <1>1, <1>5 DEF ChangesOK, TypeOK, Matches, Visible, Named
<1>11. ProgressOK'
  BY <1>1, <1>2, <1>4 DEF ProgressOK, TypeOK, Settled
<1>12. ToldOnce'
  BY <1>1, StoreUnchanged
<1> QED BY <1>7, <1>8, <1>9, <1>10, <1>11, <1>12

\* An answer without a change: the transaction rolls back and lets go.  An
\* answer of NOT_FOUND needs what Nothing looked at to be gone.
LEMMA RollbackKeeps ==
    ASSUME IInv, NEW t \in Requests,
           NEW answer \in {"idle", "forbidden", "failed", "not_found"},
           Answer(t, answer),
           \/ Release(t)
           \/ stage[t] # "running" /\ UNCHANGED work,
           UNCHANGED <<row, told>>, spent' \in 0..Budget,
           answer = "not_found" => \A x \in seen[t] : row[x] = "deleted"
    PROVE  IInv'
<1> USE DEF IInv
<1>1. /\ stage' = [stage EXCEPT ![t] = answer]
      /\ todo' = [todo EXCEPT ![t] = {}]
      /\ held' = [held EXCEPT ![t] = {}]
      /\ done' = [done EXCEPT ![t] = {}]
      /\ UNCHANGED <<row, told, seen>>
  BY DEF Answer, Release, work, LocksOK, TypeOK
<1>2. TypeOK'
  BY <1>1 DEF TypeOK, Answers
<1>3. LocksOK'
  BY <1>1 DEF LocksOK, TypeOK
<1>4. SnapshotsOK'
  BY <1>1 DEF SnapshotsOK, TypeOK, Visible, Named
<1>5. ChangesOK'
  BY <1>1 DEF ChangesOK, TypeOK, Matches, Visible, Named
<1>6. ProgressOK'
  BY <1>1 DEF ProgressOK, TypeOK, Settled
<1>7. ToldOnce'
  BY <1>1, StoreUnchanged
<1> QED BY <1>2, <1>3, <1>4, <1>5, <1>6, <1>7

\* A commit changes rows that nobody else has locked, each from the state its
\* request found to the one it wants, and tells each transition.
LEMMA CommitKeeps ==
    ASSUME IInv, NEW t \in Requests, NEW answer \in {"acked", "failed"},
           Finished(t), Apply(t), Answer(t, answer), Release(t),
           spent' \in 0..Budget
    PROVE  IInv'
<1> USE DEF IInv
<1>1. /\ row' = [x \in Ids |-> IF x \in done[t] THEN Goal(t) ELSE row[x]]
      /\ told' = [x \in Ids |-> IF x \in done[t] THEN Append(told[x], Fact(t)) ELSE told[x]]
      /\ stage' = [stage EXCEPT ![t] = answer]
      /\ todo' = [todo EXCEPT ![t] = {}]
      /\ held' = [held EXCEPT ![t] = {}]
      /\ done' = [done EXCEPT ![t] = {}]
      /\ UNCHANGED seen
      /\ stage[t] = "running" /\ todo[t] = {}
  BY DEF Finished, Apply, Change, Answer, Release
<1>2. /\ Goal(t) \in {"read", "deleted"}
      /\ Fact(t) \in {"read", "deleted"}
      /\ done[t] \subseteq Ids
      /\ \A x \in done[t] : row[x] \in Shown /\ (Goal(t) = "read" => row[x] = "unread")
  BY DEF Goal, Fact, TypeOK, ChangesOK, Matches, Shown
<1>3. \A u \in Requests : u # t => done[u] \cap done[t] = {}
  BY DEF LocksOK, TypeOK
<1>4. TypeOK'
  BY <1>1, <1>2 DEF TypeOK, Answers, Shown
<1>5. LocksOK'
  BY <1>1 DEF LocksOK, TypeOK
<1>6. SnapshotsOK'
  BY <1>1, <1>2 DEF SnapshotsOK, TypeOK, Visible, Named
<1>7. ChangesOK'
  <2> SUFFICES ASSUME NEW u \in Requests, NEW x \in done'[u]
               PROVE  Matches(u, x)'
    BY DEF ChangesOK
  <2>1. u # t /\ x \in done[u]
    BY <1>1 DEF TypeOK
  <2>2. x \in Ids /\ row'[x] = row[x]
    BY <1>1, <1>3, <2>1 DEF TypeOK
  <2> QED BY <2>1, <2>2 DEF ChangesOK, Matches, Visible, Named
<1>8. ProgressOK'
  <2>1. \A u \in Requests, x \in Ids : Settled(u, x) => Settled(u, x)'
    BY <1>1, <1>2 DEF Settled, Goal, Marks, Shown, TypeOK
  <2>2. \A x \in Ids : row[x] = "deleted" => row'[x] = "deleted"
    BY <1>1, <1>2 DEF TypeOK, Shown
  <2>3. \A x \in seen[t] : Settled(t, x)'
    <3> SUFFICES ASSUME NEW x \in seen[t] PROVE Settled(t, x)'
      OBVIOUS
    <3>1. x \in Ids /\ (x \in done[t] \/ Settled(t, x))
      BY <1>1 DEF ProgressOK, TypeOK
    <3>2. CASE x \in done[t]
      BY <1>1, <3>1, <3>2 DEF Settled, Goal, Marks
    <3>3. CASE Settled(t, x)
      BY <2>1, <3>1, <3>3
    <3> QED BY <3>1, <3>2, <3>3
  <2> QED BY <1>1, <2>1, <2>2, <2>3 DEF ProgressOK, TypeOK
<1>9. ToldOnce'
  <2> SUFFICES ASSUME NEW x \in Ids PROVE told'[x] \in Lives(row'[x])
    BY DEF ToldOnce
  <2>1. CASE x \notin done[t]
    BY <1>1, <2>1 DEF ToldOnce
  <2>2. CASE x \in done[t]
    <3>1. Fact(t) = Goal(t)
      BY DEF Fact, Goal
    <3>2. told'[x] = Append(told[x], Goal(t)) /\ row'[x] = Goal(t)
      BY <1>1, <2>2, <3>1
    <3>3. CASE row[x] = "unread"
      <4>1. told[x] \in Lives("unread")
        BY <3>3 DEF ToldOnce
      <4> QED BY <1>2, <3>2, <4>1, LivesGoOn
    <3>4. CASE row[x] = "read"
      <4>1. told[x] \in Lives("read") /\ Goal(t) = "deleted"
        BY <1>2, <2>2, <3>4 DEF ToldOnce
      <4> QED BY <3>2, <4>1, LivesGoOn
    <3> QED BY <1>2, <2>2, <3>3, <3>4 DEF Shown
  <2> QED BY <2>1, <2>2
<1> QED BY <1>4, <1>5, <1>6, <1>7, <1>8, <1>9

-----------------------------------------------------------------------------
(* The theorems. *)

\* A failure stays within the budget.
LEMMA SpendKeeps ==
    ASSUME IInv, Spend
    PROVE  spent' \in 0..Budget
BY RequestsAssumption DEF Spend, IInv, TypeOK

\* A refusal finds nothing left of what it did not find: a mark looked at its
\* snapshot, a delete at what it has removed.
LEMMA RefusalIsTrue ==
    ASSUME IInv, NEW t \in Requests, Refuse(t)
    PROVE  \A x \in seen[t] : row[x] = "deleted"
<1>1. stage[t] = "running" /\ todo[t] = {}
  BY DEF Refuse, Finished
<1>2. CASE seen[t] = {}
  BY <1>2
<1>3. CASE OpOf[t] = "delete" /\ done[t] = {}
  BY <1>1, <1>3 DEF IInv, ProgressOK, Settled, Goal, Marks
<1> QED BY <1>2, <1>3 DEF Refuse, Nothing

\* Locks, snapshots, changes and answers agree in every reachable state.
THEOREM Invariance == Spec => []IInv
<1>1. Init => IInv
  <2> SUFFICES ASSUME Init PROVE IInv
    OBVIOUS
  <2>1. TypeOK
    BY RequestsAssumption DEF Init, TypeOK
  <2>2. LocksOK /\ SnapshotsOK /\ ChangesOK /\ ProgressOK
    BY DEF Init, LocksOK, SnapshotsOK, ChangesOK, ProgressOK
  <2>3. ToldOnce
    BY DEF Init, ToldOnce, Lives
  <2> QED BY <2>1, <2>2, <2>3 DEF IInv
<1>2. IInv /\ [Next]_vars => IInv'
  <2> SUFFICES ASSUME IInv, [Next]_vars PROVE IInv'
    OBVIOUS
  <2>1. spent \in 0..Budget
    BY DEF IInv, TypeOK
  <2>2. ASSUME NEW x \in Ids, Arrive(x) PROVE IInv'
    BY <2>2, ArriveKeeps
  <2>3. ASSUME NEW t \in Requests, Forbid(t) PROVE IInv'
    BY <2>1, <2>3, RollbackKeeps DEF Forbid, Sent
  <2>4. ASSUME NEW t \in Requests, Begin(t) PROVE IInv'
    BY <2>4, BeginKeeps
  <2>5. ASSUME NEW t \in Requests, NEW x \in Ids, Visit(t, x) PROVE IInv'
    BY <2>5, VisitKeeps
  <2>6. ASSUME NEW t \in Requests, Refuse(t) PROVE IInv'
    BY <2>1, <2>6, RefusalIsTrue, RollbackKeeps DEF Refuse
  <2>7. ASSUME NEW t \in Requests, Commit(t) PROVE IInv'
    BY <2>1, <2>7, CommitKeeps DEF Commit
  <2>8. ASSUME NEW t \in Requests, CommitUnseen(t) PROVE IInv'
    BY <2>8, SpendKeeps, CommitKeeps DEF CommitUnseen
  <2>9. ASSUME NEW t \in Requests, Fail(t) PROVE IInv'
    BY <2>9, SpendKeeps, RollbackKeeps DEF Fail
  <2>10. ASSUME NEW t \in Requests, BreakDeadlock(t) PROVE IInv'
    BY <2>1, <2>10, RollbackKeeps DEF BreakDeadlock
  <2>11. ASSUME NEW t \in Requests, Retry(t) PROVE IInv'
    BY <2>11, SpendKeeps, RollbackKeeps DEF Retry
  <2>12. CASE UNCHANGED vars
    BY <2>12 DEF vars, work, IInv, TypeOK, LocksOK, SnapshotsOK, ChangesOK, ProgressOK,
                 ToldOnce, Settled, Matches, Visible, Named
  <2> QED
    BY <2>2, <2>3, <2>4, <2>5, <2>6, <2>7, <2>8, <2>9, <2>10, <2>11, <2>12 DEF Next, Run
<1> QED BY <1>1, <1>2, PTL DEF Spec

\* Every variable keeps its type, and nothing is changed without its lock.
THEOREM RequestTypes == Spec => []TypeOK
<1>1. IInv => TypeOK
  BY DEF IInv
<1> QED BY <1>1, Invariance, PTL

\* What a mutation acknowledges has been done, to every notification its
\* statement saw, whatever the others did meanwhile.
THEOREM AckIsTrue == Spec => []AckedIsDone
<1>1. IInv => AckedIsDone
  BY DEF IInv, ProgressOK, Settled, AckedIsDone
<1> QED BY <1>1, Invariance, PTL

\* NOT_FOUND is answered only when nothing is left of what the statement saw.
THEOREM NotFoundIsTrue == Spec => []NotFoundIsGone
<1>1. IInv => NotFoundIsGone
  BY DEF IInv, ProgressOK, NotFoundIsGone
<1> QED BY <1>1, Invariance, PTL

\* Every transition of a notification is announced once and in order, across
\* concurrent sessions, rollbacks, lost answers and retries.
THEOREM AnnouncedOnce == Spec => []ToldOnce
<1>1. IInv => ToldOnce
  BY DEF IInv
<1> QED BY <1>1, Invariance, PTL

\* A request touches nothing but the notifications of the human who acts.
THEOREM NothingForeignTouched == Spec => []OnlyTheActorsOwn
<1>1. IInv => OnlyTheActorsOwn
  <2> SUFFICES ASSUME IInv, NEW t \in Requests,
                      NEW x \in seen[t] \cup todo[t] \cup held[t]
               PROVE  /\ OwnerOf[x] \in {PassportOf[t].user, PassportOf[t].by}
                      /\ OwnerOf[x] = PassportOf[t].user =>
                           PassportOf[t].by \in {NoOne, PassportOf[t].user}
    BY DEF OnlyTheActorsOwn
  <2>1. OwnerOf[x] = RecipientOf(t)
    BY DEF IInv, SnapshotsOK, Visible
  <2> QED BY <2>1 DEF RecipientOf
<1> QED BY <1>1, Invariance, PTL

\* A commit is one change of the abstract store.
LEMMA CommitIsChange ==
    ASSUME IInv, NEW t \in Requests, Apply(t)
    PROVE  [I!Next]_(I!inbox)
<1> USE DEF IInv
<1>1. \A x \in done[t] : Matches(t, x) /\ x \in Ids
  BY DEF ChangesOK, TypeOK
<1>2. CASE done[t] = {}
  <2>1. row' = row /\ told' = told
    BY <1>2 DEF Apply, Change, TypeOK
  <2> QED BY <2>1 DEF I!inbox
<1>3. CASE done[t] # {}
  <2>1. RecipientOf(t) \in Recipients
    BY <1>1, <1>3, RequestsAssumption DEF Matches, Visible
  <2>2. done[t] \subseteq I!OwnedBy(RecipientOf(t))
    BY <1>1 DEF I!OwnedBy, Matches, Visible
  <2>3. ASSUME Marks(t) PROVE I!MarkRead(done[t])
    BY <1>1, <2>3 DEF Apply, Change, Goal, Fact, Matches, I!MarkRead, I!Change
  <2>4. ASSUME ~Marks(t) PROVE I!Delete(done[t])
    BY <1>1, <2>4 DEF Apply, Change, Goal, Fact, Matches, Shown, I!Delete, I!Change, I!Shown
  <2> QED BY <2>1, <2>2, <2>3, <2>4 DEF I!Next
<1> QED BY <1>2, <1>3

\* The mutations, with their statements, locks and failures, change the store
\* as if each were one step of Inbox.
THEOREM Refinement == Spec => Implements
<1>1. Init => I!Init
  BY DEF Init, I!Init
<1>2. IInv /\ [Next]_vars => [I!Next]_(I!inbox)
  <2> SUFFICES ASSUME IInv, [Next]_vars PROVE [I!Next]_(I!inbox)
    OBVIOUS
  <2>1. ASSUME NEW x \in Ids, Arrive(x) PROVE I!Next
    BY <2>1 DEF Arrive, Change, I!Next, I!Arrive, I!Change
  <2>2. ASSUME NEW t \in Requests, Commit(t) \/ CommitUnseen(t)
        PROVE  [I!Next]_(I!inbox)
    BY <2>2, CommitIsChange DEF Commit, CommitUnseen
  <2>3. ASSUME NEW t \in Requests,
               \/ Forbid(t) \/ Begin(t) \/ Refuse(t) \/ Fail(t)
               \/ BreakDeadlock(t) \/ Retry(t) \/ \E x \in Ids : Visit(t, x)
        PROVE  UNCHANGED I!inbox
    BY <2>3 DEF Forbid, Begin, Refuse, Fail, BreakDeadlock, Retry, Visit, I!inbox
  <2>4. CASE UNCHANGED vars
    BY <2>4 DEF vars, I!inbox
  <2> QED BY <2>1, <2>2, <2>3, <2>4 DEF Next, Run
<1> QED BY <1>1, <1>2, Invariance, PTL DEF Spec, Implements, I!Spec

=============================================================================
