------------------------------ MODULE MCIntake ------------------------------
(* Small instances of Intake for TLC.  These cases share the constants:      *)
(*   Fan-out   two commands of one source event that overlap in a          *)
(*             recipient, one frame each, for deliveries that race;        *)
(*   Abandon   a command that can be delivered, one PostgreSQL rejects,    *)
(*             and a frame nobody can read;                                *)
(*   Mixed     the same with a payload that validation refuses.            *)
EXTENDS IntakeInv, TLC

CONSTANTS r1, r2, s1, p1, p2, d1, d2, x1, x2, f1, f2, f3, none, noframe,
          unreadable

MCSources    == {s1}
MCRecipients == {p1, p2}
OneReplica   == {r1}
TwoReplicas  == {r1, r2}
MCSymmetry   == Permutations(TwoReplicas)

MCSourceOf     == [c \in Commands |-> s1]
MCRecipientsOf == [c \in Commands |-> IF c = d2 THEN {p2} ELSE {p1, p2}]
MCFaultsOf     == [c \in Commands |-> CASE c = x1 -> {"storage"}
                                        [] c = x2 -> {"link", "template"}
                                        [] OTHER  -> {}]

FanOutCommands  == {d1, d2}
FanOutFrames    == {f1, f2}
FanOutCommandOf == [f \in Frames |-> IF f = f1 THEN d1 ELSE d2]

AbandonCommands  == {d1, x1}
AbandonFrames    == {f1, f2, f3}
AbandonCommandOf == [f \in Frames |-> CASE f = f1 -> d1
                                        [] f = f2 -> x1
                                        [] f = f3 -> unreadable]
Readables        == {f1, f2}

MixedCommands  == {d1, x2}
MixedFrames    == AbandonFrames
MixedCommandOf == [f \in Frames |-> CASE f = f1 -> d1
                                      [] f = f2 -> x2
                                      [] f = f3 -> unreadable]

NoEviction == {}
=============================================================================
