-------------------------------- MODULE Inbox --------------------------------
(***************************************************************************)
(* What the store of svc-notifier promises about a recipient's             *)
(* notifications, without transactions, locks or statements: each one goes *)
(* from unread to read to deleted (the lifecycle of README.md), a change   *)
(* of several notifications of one recipient happens at once, and every    *)
(* transition is announced exactly once, in the step that makes it.        *)
(***************************************************************************)
EXTENDS Sequences

CONSTANTS
    Ids,         \* notification ids
    Recipients,  \* recipient_id
    OwnerOf      \* the recipient of a notification

ASSUME OwnersAssumption == OwnerOf \in [Ids -> Recipients]

VARIABLES
    row,         \* the state of each notification
    told         \* the facts announced about it, in commit order

inbox == <<row, told>>

Shown == {"unread", "read"}

States == Shown \cup {"absent", "deleted"}

OwnedBy(p) == {x \in Ids : OwnerOf[x] = p}

\* One committed change of some rows, and the signals that ride its commit.
Change(S, state, fact) ==
    /\ row' = [x \in Ids |-> IF x \in S THEN state ELSE row[x]]
    /\ told' = [x \in Ids |-> IF x \in S THEN Append(told[x], fact) ELSE told[x]]

Init ==
    /\ row = [x \in Ids |-> "absent"]
    /\ told = [x \in Ids |-> <<>>]

\* fn insert_notifications, for one recipient of the fan-out.
Arrive(x) == row[x] = "absent" /\ Change({x}, "unread", "added")

\* fn mark_as_read and fn mark_all_as_read.
MarkRead(S) == (\A x \in S : row[x] = "unread") /\ Change(S, "read", "read")

\* fn delete_notifications.
Delete(S) == (\A x \in S : row[x] \in Shown) /\ Change(S, "deleted", "deleted")

Next ==
    \/ \E x \in Ids : Arrive(x)
    \/ \E p \in Recipients : \E S \in SUBSET OwnedBy(p) : MarkRead(S) \/ Delete(S)

Spec == Init /\ [][Next]_inbox

=============================================================================
