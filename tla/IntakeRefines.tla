--------------------------- MODULE IntakeRefines ---------------------------
(***************************************************************************)
(* The proof that Intake implements Delivery: every step of the intake     *)
(* maps to one step of the abstract specification, or to none.             *)
(***************************************************************************)
EXTENDS IntakeProofs

\* The values the refinement mapping gives the abstract variables.
FateNow == [f \in Frames |-> FateOf(frame[f])]
ReachedKeys == {k \in Keys : added[k] >= 1}
TracedCommands == {c \in Commands : recorded[c] >= 1}

LEMMA Fates ==
    /\ FateOf("unpublished") = "unpublished"
    /\ \A x \in Live : FateOf(x) = "pending"
    /\ FateOf("acked") = "delivered"
    /\ FateOf("termed") = "abandoned"
    /\ FateOf("evicted") = "lost"
BY DEF FateOf, Live

LEMMA InitMaps == Init => D!Init
<1> SUFFICES ASSUME Init PROVE D!Init
  OBVIOUS
<1>1. FateNow = [f \in Frames |-> "unpublished"]
  BY Fates DEF Init, FateNow
<1>2. ReachedKeys = {} /\ TracedCommands = {}
  BY DEF Init, ReachedKeys, TracedCommands
<1> QED
  BY <1>1, <1>2 DEF D!Init, FateNow, ReachedKeys, TracedCommands

\* The three abstract variables change only as the concrete ones do.
LEMMA FateChange ==
    ASSUME TypeOK, NEW f \in Frames, NEW x,
           frame' = [frame EXCEPT ![f] = x]
    PROVE  FateNow' = [FateNow EXCEPT ![f] = FateOf(x)]
BY DEF FateNow, TypeOK

LEMMA StutterMaps ==
    ASSUME UNCHANGED <<added, recorded>>, FateNow' = FateNow
    PROVE  UNCHANGED D!dvars
BY DEF D!dvars, FateNow

LEMMA FramesMap ==
    ASSUME IInv, NEW f \in Frames,
           Publish(f) \/ AckWaitExpires(f) \/ Evict(f)
    PROVE  [D!Next]_(D!dvars)
<1>1. TypeOK /\ UNCHANGED <<added, recorded>>
  BY DEF IInv, Publish, AckWaitExpires, Evict, database
<1>2. CASE Publish(f)
  <2>1. FateNow' = [FateNow EXCEPT ![f] = "pending"]
    <3>1. frame' = [frame EXCEPT ![f] = "available"]
      BY <1>2, <1>1 DEF Publish
    <3>2. FateNow' = [FateNow EXCEPT ![f] = FateOf("available")]
      BY <1>1, <3>1, FateChange
    <3> QED
      BY <3>2, Fates DEF Live
  <2>2. FateNow[f] = "unpublished"
    BY <1>2, Fates DEF Publish, FateNow
  <2>3. D!Accept(f)
    BY <1>1, <2>1, <2>2 DEF D!Accept, FateNow
  <2> QED
    BY <2>3 DEF D!Next
<1>3. CASE AckWaitExpires(f)
  <2>1. FateNow' = [FateNow EXCEPT ![f] = "pending"]
    <3>1. frame' = [frame EXCEPT ![f] = "available"]
      BY <1>3, <1>1 DEF AckWaitExpires
    <3>2. FateNow' = [FateNow EXCEPT ![f] = FateOf("available")]
      BY <1>1, <3>1, FateChange
    <3> QED
      BY <3>2, Fates DEF Live
  <2>2. FateNow[f] = "pending"
    BY <1>3, Fates DEF AckWaitExpires, FateNow, Live
  <2>3. FateNow' = FateNow
    BY <2>1, <2>2 DEF FateNow
  <2> QED
    BY <1>1, <2>3, StutterMaps
<1>4. CASE Evict(f)
  <2>1. FateNow' = [FateNow EXCEPT ![f] = "lost"]
    <3>1. frame' = [frame EXCEPT ![f] = "evicted"]
      BY <1>4, <1>1 DEF Evict
    <3>2. FateNow' = [FateNow EXCEPT ![f] = FateOf("evicted")]
      BY <1>1, <3>1, FateChange
    <3> QED
      BY <3>2, Fates DEF Live
  <2>2. FateNow[f] = "pending" /\ f \in Evictable
    BY <1>4, Fates DEF Evict, FateNow
  <2>3. D!Lose(f)
    BY <1>1, <2>1, <2>2 DEF D!Lose, FateNow
  <2> QED
    BY <2>3 DEF D!Next
<1> QED
  BY <1>2, <1>3, <1>4

LEMMA ReceiveMaps ==
    ASSUME IInv, NEW r \in Replicas, NEW f \in Frames, Receive(r, f)
    PROVE  UNCHANGED D!dvars
<1>1. TypeOK /\ UNCHANGED <<added, recorded>>
  BY DEF IInv, Receive, database
<1>2. FateNow' = [FateNow EXCEPT ![f] = "pending"]
  <2>1. frame' = [frame EXCEPT ![f] = "outstanding"]
    BY <1>1 DEF Receive
  <2>2. FateNow' = [FateNow EXCEPT ![f] = FateOf("outstanding")]
    BY <1>1, <2>1, FateChange
  <2> QED
    BY <2>2, Fates DEF Live
<1>3. FateNow[f] = "pending"
  BY Fates DEF Receive, FateNow, Live
<1>4. FateNow' = FateNow
  BY <1>2, <1>3 DEF FateNow
<1> QED
  BY <1>1, <1>4, StutterMaps

\* A published frame carries the command of every delivery in hand.
LEMMA HeldIsPublished ==
    ASSUME IInv, NEW r \in Replicas, Holding(r), Readable(held[r])
    PROVE  CommandOf[held[r]] \in Commands /\ D!Published(CommandOf[held[r]])
<1>1. held[r] \in Frames /\ frame[held[r]] \in Live \cup Gone
  BY InHands DEF IInv
<1>2. FateNow[held[r]] # "unpublished"
  BY <1>1, Fates DEF FateNow, Gone
<1> QED
  BY <1>1, <1>2, InHands DEF IInv, D!Published, FateNow

LEMMA CommitMaps ==
    ASSUME IInv, NEW r \in Replicas, Commits(r)
    PROVE  \E c \in Commands : D!Reach(c)
<1>1. PICK c \in Commands : c = CommandOf[held[r]] /\ D!Published(c)
  BY HeldIsPublished DEF Commits, Commit, CommitUnseen, Holding, IInv,
                         TransactionsOK
<1>2. /\ Deliverable(c)
      /\ writing[r] \subseteq KeysOf(c)
      /\ \A k \in KeysOf(c) \ writing[r] : added[k] >= 1
  BY <1>1 DEF IInv, TransactionsOK, Commits, Commit, CommitUnseen
<1>3. KeysOf(c) \subseteq Keys
  BY CommandsAssumption DEF KeysOf, Keys
<1>4. /\ \A k \in writing[r] : added'[k] >= 1
      /\ \A k \in Keys \ writing[r] : added'[k] = added[k]
      /\ UNCHANGED <<frame, recorded>>
  BY <1>2, <1>3 DEF Commits, Commit, CommitUnseen, CommitRows, IInv, TypeOK
<1>5. ReachedKeys' = ReachedKeys \cup KeysOf(c)
  BY <1>2, <1>3, <1>4 DEF ReachedKeys
<1> QED
  BY <1>1, <1>2, <1>4, <1>5 DEF D!Reach, ReachedKeys

LEMMA RecordMaps ==
    ASSUME IInv, NEW r \in Replicas, Records(r)
    PROVE  \E c \in Commands : D!Trace(c)
<1>1. PICK c \in Commands : c = CommandOf[held[r]] /\ D!Published(c)
  BY HeldIsPublished DEF Records, Abandon, LedgerUnseen, Holding, IInv,
                         VerdictsOK
<1>2. ~Deliverable(c)
  BY <1>1 DEF IInv, VerdictsOK, Records, Abandon, LedgerUnseen
<1>3. /\ \A d \in Commands \ {c} : recorded'[d] = recorded[d]
      /\ recorded'[c] >= 1
      /\ UNCHANGED <<frame, added>>
  BY <1>1 DEF Records, Abandon, LedgerUnseen, RecordDeadLetter, IInv, TypeOK,
              LedgerOK
<1>4. TracedCommands' = TracedCommands \cup {c}
  BY <1>3 DEF TracedCommands
<1> QED
  BY <1>1, <1>2, <1>3, <1>4 DEF D!Trace, TracedCommands

LEMMA SettleMaps ==
    ASSUME IInv, [Next]_vars, NEW r \in Replicas, Settles(r)
    PROVE  [D!Next]_(D!dvars)
<1>1. TypeOK /\ UNCHANGED <<added, recorded>>
  BY DEF IInv, Settles, Settle, SettleLost, database
<1>2. CASE frame' = frame
  BY <1>1, <1>2, StutterMaps DEF FateNow
<1>3. CASE frame' # frame
  <2> DEFINE x == OutcomeFor(verdict[r])
  <2>1. Settle(r)
    BY <1>3 DEF Settles, SettleLost
  <2>2. PICK f \in Frames : f = held[r] /\ frame[f] \in Live
    BY <1>1, <1>3, <2>1, InHands DEF Settle, Holding, IInv, TypeOK
  <2>3. frame' = [frame EXCEPT ![f] = x]
    BY <2>1, <2>2 DEF Settle
  <2>4. FateNow' = [FateNow EXCEPT ![f] = FateOf(x)]
    BY <1>1, <2>3, FateChange
  <2>5. FateNow[f] = "pending"
    BY <2>2, Fates DEF FateNow
  <2>6. /\ x \in {"acked", "termed", "naked"}
        /\ x = "acked" => verdict[r] = "written"
        /\ x = "termed" => verdict[r] = "poison"
    BY <2>1, VerdictGiven, Outcomes DEF IInv, Settle
  <2>7. CASE x = "naked"
    <3>1. FateNow' = FateNow
      BY <2>4, <2>5, <2>7, Fates DEF FateNow, Live
    <3> QED
      BY <1>1, <3>1, StutterMaps
  <2>8. CASE x = "acked"
    <3>1. /\ CommandOf[f] \in Commands
          /\ Deliverable(CommandOf[f])
          /\ Reached(CommandOf[f])
      BY <2>1, <2>2, <2>6, <2>8, InHands
         DEF IInv, VerdictsOK, Settle, Holding
    <3>2. KeysOf(CommandOf[f]) \subseteq ReachedKeys
      BY <3>1, CommandsAssumption DEF Reached, ReachedKeys, KeysOf, Keys
    <3>3. FateNow' = [FateNow EXCEPT ![f] = "delivered"]
      BY <2>4, <2>8, Fates
    <3>4. D!Deliver(f)
      BY <1>1, <2>5, <3>1, <3>2, <3>3 DEF D!Deliver, FateNow, ReachedKeys
    <3> QED
      BY <3>4 DEF D!Next
  <2>9. CASE x = "termed"
    <3>1. CommandOf[f] \in Commands /\ ledger[CommandOf[f]] # "none"
      BY <2>1, <2>2, <2>6, <2>9, InHands
         DEF IInv, VerdictsOK, Settle, Holding
    <3>2. CommandOf[f] \in TracedCommands
      BY <3>1 DEF IInv, LedgerOK, TracedCommands
    <3>3. FateNow' = [FateNow EXCEPT ![f] = "abandoned"]
      BY <2>4, <2>9, Fates
    <3>4. D!Abandon(f)
      BY <1>1, <2>5, <3>2, <3>3 DEF D!Abandon, FateNow, TracedCommands
    <3> QED
      BY <3>4 DEF D!Next
  <2> QED
    BY <2>6, <2>7, <2>8, <2>9
<1> QED
  BY <1>2, <1>3

LEMMA StepMaps == ASSUME IInv, [Next]_vars PROVE [D!Next]_(D!dvars)
<1>1. Steps
  BY NextSteps
<1>2. CASE UNCHANGED <<frame, added, recorded>>
  BY <1>2, StutterMaps DEF FateNow
<1>3. ASSUME NEW r \in Replicas, Moves(r) \/ LetsGo(r) \/ Judges(r) \/ Insert(r)
      PROVE  UNCHANGED <<frame, added, recorded>>
  BY <1>3 DEF Moves, LetsGo, Judges, HoldUnreadable, RefusePayload,
              StorageRejects, StorageFails, LedgerFails, Insert, database
<1>4. CASE \/ Rests
           \/ Deletes
           \/ \E c \in Commands : Age(c)
           \/ \E r \in Replicas : Purge(r)
  BY <1>2, <1>4 DEF Rests, Deletes, DeleteNotifications, Age, Purge, database
<1>5. ASSUME NEW r \in Replicas, Commits(r) \/ Records(r) PROVE D!Next
  BY <1>5, CommitMaps, RecordMaps DEF D!Next
<1> QED
  BY <1>1, <1>2, <1>3, <1>4, <1>5, FramesMap, ReceiveMaps, SettleMaps
     DEF Steps

\* The intake implements the abstract delivery service, whatever the number of
\* replicas, frames, commands, crashes and lost answers.
THEOREM Refinement == Spec => Delivers
<1>1. IInv /\ [Next]_vars => [D!Next]_(D!dvars)
  BY StepMaps
<1> QED
  BY InitMaps, Invariance, <1>1, PTL DEF Spec, Delivers, D!Spec
=============================================================================
