----------------------------- MODULE MCRealtime -----------------------------
(* Small instances of Realtime for TLC: one session that goes through it     *)
(* all, and three sessions of two recipients that share an instance.         *)
EXTENDS RealtimeInv, TLC

CONSTANTS i1, s1, s2, s3, p1, p2, n1, n2, nofact

OneInstance   == {i1}
OneSession    == {s1}
ThreeSessions == {s1, s2, s3}
OneRecipient  == {p1}
TwoRecipients == {p1, p2}
OneId         == {n1}
TwoIds        == {n1, n2}

MCCallerOf == [s \in Sessions |-> IF s = s3 THEN p2 ELSE p1]
MCHostOf   == [s \in Sessions |-> i1]

\* One recipient owns all notifications, or each has its own.
SameOwner == [x \in Ids |-> p1]
OwnOwner  == [x \in Ids |-> IF x = n1 THEN p1 ELSE p2]

SessionSymmetry == Permutations({s1, s2})
=============================================================================
