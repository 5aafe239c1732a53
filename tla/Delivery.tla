------------------------------ MODULE Delivery ------------------------------
(***************************************************************************)
(* What the intake of svc-notifier promises a publisher, without process,  *)
(* stream or database: a frame it accepts stays pending until its command  *)
(* has reached every recipient at once, or until its abandonment has been  *)
(* traced.  Only the stream's own retention may lose a frame.              *)
(***************************************************************************)

CONSTANTS
    Commands,    \* deliver commands
    Frames,      \* messages that carry them
    Keys,        \* (source event, recipient): what a delivery reaches
    Unreadable,  \* what a frame carries when it cannot be read
    CommandOf,   \* the command of a frame
    Wanted,      \* the keys a command is to reach
    Accepts,     \* the commands that can be delivered
    Evictable    \* frames the retention may lose

VARIABLES
    fate,        \* what has become of each frame
    reached,     \* keys that have had their notification
    traced       \* commands with a line on the dead-letter ledger

dvars == <<fate, reached, traced>>

\* A publisher has sent the command at least once.
Published(c) == \E f \in Frames : CommandOf[f] = c /\ fate[f] # "unpublished"

Init ==
    /\ fate = [f \in Frames |-> "unpublished"]
    /\ reached = {}
    /\ traced = {}

Accept(f) ==
    /\ fate[f] = "unpublished"
    /\ fate' = [fate EXCEPT ![f] = "pending"]
    /\ UNCHANGED <<reached, traced>>

\* All recipients of a command at once.  A late second delivery of a frame may
\* still be at it when the frame itself is settled or lost.
Reach(c) ==
    /\ c \in Accepts
    /\ Published(c)
    /\ reached' = reached \cup Wanted[c]
    /\ UNCHANGED <<fate, traced>>

Trace(c) ==
    /\ c \notin Accepts
    /\ Published(c)
    /\ traced' = traced \cup {c}
    /\ UNCHANGED <<fate, reached>>

Deliver(f) ==
    /\ fate[f] = "pending"
    /\ CommandOf[f] \in Accepts
    /\ Wanted[CommandOf[f]] \subseteq reached
    /\ fate' = [fate EXCEPT ![f] = "delivered"]
    /\ UNCHANGED <<reached, traced>>

Abandon(f) ==
    /\ fate[f] = "pending"
    /\ CommandOf[f] \in traced
    /\ fate' = [fate EXCEPT ![f] = "abandoned"]
    /\ UNCHANGED <<reached, traced>>

Lose(f) ==
    /\ fate[f] = "pending"
    /\ f \in Evictable
    /\ fate' = [fate EXCEPT ![f] = "lost"]
    /\ UNCHANGED <<reached, traced>>

Next ==
    \/ \E f \in Frames : Accept(f) \/ Deliver(f) \/ Abandon(f) \/ Lose(f)
    \/ \E c \in Commands : Reach(c) \/ Trace(c)

Spec == Init /\ [][Next]_dvars
=============================================================================
