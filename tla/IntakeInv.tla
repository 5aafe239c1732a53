----------------------------- MODULE IntakeInv -----------------------------
(***************************************************************************)
(* The inductive invariant of Intake: what holds between a delivery, the   *)
(* task that handles it, the tables and the frame, in every state of every *)
(* replica.  The runs check it on small instances; IntakeProofs shows that *)
(* every step keeps it for all constants.                                  *)
(***************************************************************************)
EXTENDS Intake

InHand(c) == \E r \in Replicas : held[r] \in FramesOf(c)

\* The command can never be delivered to this service again.
Exhausted(c) ==
    /\ \A f \in FramesOf(c) : frame[f] \in Gone
    /\ ~InHand(c)

Reached(c) == \A k \in KeysOf(c) : added[k] >= 1

\* No task outlives its process.
ProcessOK == \A r \in Replicas : main[r] = "down" => loop[r] = "down"

\* A task has a frame in hand exactly while it handles it, and a transaction
\* open only between its INSERT and its COMMIT.
HandsOK ==
    \A r \in Replicas :
        /\ held[r] # NoFrame <=> Holding(r)
        /\ held[r] # NoFrame => frame[held[r]] # "unpublished"
        /\ writing[r] # {} => loop[r] = "inserted"

\* What an open transaction has written nobody else has or is writing, and the
\* recipients it skipped have been reached before.
TransactionsOK ==
    /\ \A r \in Replicas : loop[r] = "inserted" =>
         LET c == CommandOf[held[r]] IN
         /\ Readable(held[r])
         /\ Deliverable(c)
         /\ writing[r] \subseteq KeysOf(c)
         /\ \A k \in writing[r] : rows[k] = NoRow
         /\ \A k \in KeysOf(c) \ writing[r] : added[k] >= 1
    /\ \A r, s \in Replicas : r # s => writing[r] \cap writing[s] = {}

\* A verdict is backed by the tables until the frame is settled with it.
VerdictsOK ==
    \A r \in Replicas :
        LET c == CommandOf[held[r]] IN
        /\ loop[r] = "abandoning" => Readable(held[r]) /\ ~Deliverable(c)
        /\ loop[r] = "settling" =>
             \/ verdict[r] = "transient"
             \/ verdict[r] = "not_attempted"
             \/ /\ verdict[r] = "written"
                /\ Readable(held[r])
                /\ Deliverable(c)
                /\ Reached(c)
             \/ /\ verdict[r] = "poison"
                /\ Readable(held[r])
                /\ ledger[c] # "none"

\* A ledger line belongs to a command that cannot be delivered, is written
\* once, and leaves the table only when the command cannot come back.
LedgerOK ==
    \A c \in Commands :
        /\ recorded[c] > 0 => ~Deliverable(c)
        /\ recorded[c] <= 1
        /\ ledger[c] # "none" => recorded[c] = 1
        /\ ledger[c] = "none" /\ recorded[c] = 1 => Exhausted(c)
        /\ c \in aged => Exhausted(c)

\* A row was written by a command that could be delivered, under its own key.
RowsOK ==
    \A k \in Keys : rows[k] # NoRow =>
        Deliverable(rows[k]) /\ k \in KeysOf(rows[k]) /\ added[k] >= 1

IInv ==
    /\ TypeOK
    /\ ProcessOK
    /\ HandsOK
    /\ TransactionsOK
    /\ VerdictsOK
    /\ LedgerOK
    /\ RowsOK
    /\ AckedMeansReached
    /\ UnreadableHeld
    /\ NoPartialFanOut
=============================================================================
